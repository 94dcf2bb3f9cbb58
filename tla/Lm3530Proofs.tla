----------------------------- MODULE Lm3530Proofs -----------------------------
(***************************************************************************)
(* Proofs about the LM3530, for any number of tasks in its attributes, any *)
(* rates and brightnesses and any number of failed transfers.              *)
(***************************************************************************)
EXTENDS Lm3530, TLAPS

Attrs == {"rise", "fall", "law"}
Props == [brightness : Int, power : {"on", "off"}, fb_blank : {"on", "off"}]
Settings == [rise : Rates, fall : Rates, law : Rates]
Chips == [written : 0..RegMax, on : BOOLEAN, law : Rates, rise : Rates, fall : Rates, brt : 0..255]
Stores == [pc : {"idle", "read", "write"}, attr : Attrs, rate : Rates, other : Rates \cup {1}]

\* What a store keeps of the register's other field is a rate, for the ramps.
OtherIsRate == \A w \in Writers : task[w].attr # "law" => task[w].other \in Rates

\* The flag that skips the initialisation is set exactly while the registers are
\* kept, and no store is under way when they are not.
AtRest ==
    /\ system = "running" => drvdata.enable
    /\ system \in {"boot", "asleep"} => ~drvdata.enable /\ \A w \in Writers : task[w].pc = "idle"

\* A store to the general register writes the enable bit back as it found it: set.
EnableBitKept ==
    system = "running" /\ ~faulted =>
        \A w \in Writers : task[w].pc = "write" /\ task[w].attr = "law" => task[w].other = 1

\* Two stores are at one register only if that was noticed.
Exclusive ==
    ~overlapped =>
        \A v, w \in Writers :
            /\ task[v].pc # "idle" /\ task[w].pc # "idle"
            /\ Register(task[v].attr) = Register(task[w].attr)
            => v = w

Sibling(attr) == IF attr = "rise" THEN "fall" ELSE "rise"

\* A store has remembered its rate, and the field that shares the register with
\* the one it writes is in the chip as userspace reads it, and as the store has it.
Remembered(w) ==
    /\ pdata[task[w].attr] = task[w].rate
    /\ task[w].attr # "law" =>
           /\ chip[Sibling(task[w].attr)] = pdata[Sibling(task[w].attr)]
           /\ task[w].pc = "write" => task[w].other = chip[Sibling(task[w].attr)]

StoresCurrent ==
    system = "running" /\ ~faulted /\ ~overlapped =>
        \A w \in Writers : task[w].pc # "idle" => Remembered(w)

IInv ==
    /\ TypeOK /\ OtherIsRate /\ AtRest /\ EnableBitKept /\ Exclusive /\ StoresCurrent
    /\ ShownAsAsked /\ SettingsAgree

-----------------------------------------------------------------------------

\* The general configuration with the enable bit, which leaves the rest alone.
LEMMA TurnedOn ==
    ASSUME NEW c \in Chips, pdata \in Settings, NEW d, d = TurnOn(c)
    PROVE  /\ d \in Chips /\ d.on /\ d.law = pdata.law
           /\ d.rise = c.rise /\ d.fall = c.fall /\ d.written = c.written
<1>1. pdata.law \in Rates
  BY DEF Settings
<1>2. /\ d.on /\ d.law = pdata.law /\ d.rise = c.rise /\ d.fall = c.fall
      /\ d.written = c.written /\ d.brt = c.brt
  BY DEF Chips, TurnOn
<1> QED BY <1>1, <1>2 DEF Chips, TurnOn

\* What the initialisation leaves in a chip that has forgotten its registers.
LEMMA InitialisedFields ==
    ASSUME pdata \in Settings, NEW n \in Prefixes, NEW on \in BOOLEAN, ~drvdata.enable,
           NEW c, c = Initialised(n, on)
    PROVE  /\ c \in Chips
           /\ n = RegMax /\ on =>
                  /\ c.written = RegMax /\ c.on
                  /\ c.law = pdata.law /\ c.rise = pdata.rise /\ c.fall = pdata.fall
<1> USE Lm3530Assumption
<1>1. n \in 0..15 /\ 0 \in 0..255
  BY DEF Prefixes, RegMax
<1> DEFINE t == Table(n)
<1>3. t \in Chips
  BY <1>1 DEF Table, Chips, Settings, RegMax
<1>4. c = IF on THEN TurnOn(t) ELSE t
  BY DEF Initialised
<1>5. on => /\ c \in Chips /\ c.on /\ c.law = pdata.law
            /\ c.rise = t.rise /\ c.fall = t.fall /\ c.written = t.written
  BY <1>3, <1>4, TurnedOn
<1>7. c \in Chips
  BY <1>3, <1>4, <1>5
<1>6. ASSUME n = RegMax, on
      PROVE  /\ c.written = RegMax /\ c.on
             /\ c.law = pdata.law /\ c.rise = pdata.rise /\ c.fall = pdata.fall
  <2>1. t.written = RegMax /\ t.rise = pdata.rise /\ t.fall = pdata.fall
    BY <1>6 DEF Table, RegMax
  <2> QED BY <1>5, <1>6, <2>1
<1> QED BY <1>6, <1>7

\* Blanking, or a number of its own type.
LEMMA EffectiveType == \A p \in Props : Effective(p) \in Int
BY DEF Effective, Props

\* What an update of the status changes, if it does not crash.
LEMMA UpdateFields ==
    ASSUME TypeOK, NEW p \in Props, lm3530_update_status(p), ~(Effective(p) > MaxBrightness)
    PROVE  /\ props' = p /\ system' = "running" /\ UNCHANGED <<pdata, task>>
           /\ drvdata' \in [enable : BOOLEAN, brightness : Int] /\ drvdata'.enable
           /\ faults' \in 0..MaxFaults /\ faulted' \in BOOLEAN /\ overlapped' \in BOOLEAN
           /\ chip' \in Chips
           /\ drvdata.enable =>
                  /\ ~faulted' => ~faulted
                  /\ overlapped' = overlapped
                  /\ chip'.written = chip.written /\ chip'.on = chip.on /\ chip'.law = chip.law
                  /\ chip'.rise = chip.rise /\ chip'.fall = chip.fall
           /\ ~drvdata.enable /\ ~faulted' =>
                  /\ chip'.written = RegMax /\ chip'.on /\ chip'.law = pdata.law
                  /\ chip'.rise = pdata.rise /\ chip'.fall = pdata.fall
           /\ ~faulted' => chip'.brt = Effective(p) % 256 /\ drvdata'.brightness = Effective(p)
<1> USE Lm3530Assumption
<1>0. Effective(p) \in Int /\ Effective(p) % 256 \in 0..255
  BY EffectiveType
<1>1. PICK n \in Prefixes, on \in BOOLEAN, brt \in BOOLEAN :
        LET fresh == ~drvdata.enable
            bad   == Fail(fresh /\ n < RegMax) + Fail(fresh /\ ~on) + Fail((fresh => on) /\ ~brt)
            set   == (fresh => on) /\ brt
        IN  /\ ~fresh => n = RegMax /\ on
            /\ ~on => brt
            /\ faults + bad <= MaxFaults
            /\ faults' = faults + bad
            /\ faulted' = (bad > 0 \/ (faulted /\ ~fresh))
            /\ overlapped' = (overlapped /\ ~fresh)
            /\ chip' = [Initialised(n, on) EXCEPT !.brt = IF set THEN Effective(p) % 256 ELSE @]
            /\ drvdata' = [enable |-> TRUE,
                           brightness |-> IF set THEN Effective(p) ELSE drvdata.brightness]
            /\ system' = "running"
            /\ UNCHANGED <<pdata, task>>
  BY DEF lm3530_update_status
<1> DEFINE c == Initialised(n, on)
           bad == Fail(~drvdata.enable /\ n < RegMax) + Fail(~drvdata.enable /\ ~on)
                  + Fail((~drvdata.enable => on) /\ ~brt)
           set == (~drvdata.enable => on) /\ brt
<1>2. c \in Chips
  <2>1. CASE drvdata.enable
    BY <2>1 DEF Initialised, TypeOK, Chips
  <2>2. CASE ~drvdata.enable
    BY <2>2, InitialisedFields DEF TypeOK, Settings
  <2> QED BY <2>1, <2>2
<1>3. /\ chip' \in Chips
      /\ chip'.written = c.written /\ chip'.on = c.on /\ chip'.law = c.law
      /\ chip'.rise = c.rise /\ chip'.fall = c.fall
      /\ set => chip'.brt = Effective(p) % 256
  BY <1>0, <1>1, <1>2 DEF Chips
<1>4. bad \in 0..3 /\ faults' = faults + bad /\ faults + bad <= MaxFaults
  BY <1>1 DEF Fail
<1>5. ~faulted' => /\ ~drvdata.enable => n = RegMax /\ on
                   /\ set
                   /\ drvdata.enable => ~faulted
  BY <1>1 DEF Fail, Prefixes, RegMax
<1>6. /\ props' = p /\ system' = "running" /\ UNCHANGED <<pdata, task>>
      /\ drvdata' \in [enable : BOOLEAN, brightness : Int] /\ drvdata'.enable
      /\ faults' \in 0..MaxFaults /\ faulted' \in BOOLEAN /\ overlapped' \in BOOLEAN
  BY <1>0, <1>1, <1>4 DEF lm3530_update_status, TypeOK
<1>7. drvdata.enable => c = chip /\ overlapped' = overlapped
  BY <1>1 DEF Initialised, TypeOK
<1>8. ~drvdata.enable /\ ~faulted' =>
         /\ chip'.written = RegMax /\ chip'.on /\ chip'.law = pdata.law
         /\ chip'.rise = pdata.rise /\ chip'.fall = pdata.fall
  BY <1>3, <1>5, InitialisedFields DEF TypeOK, Settings
<1>9. set => drvdata'.brightness = Effective(p)
  BY <1>1
<1> QED BY <1>3, <1>5, <1>6, <1>7, <1>8, <1>9

-----------------------------------------------------------------------------

\* An update of the status keeps the invariant: on a chip whose registers are
\* kept it touches the brightness only, and one that has forgotten them is
\* written anew while no store is under way.
LEMMA UpdateKeeps ==
    ASSUME IInv, NEW p \in Props, system \in {"boot", "running", "asleep"}, lm3530_update_status(p)
    PROVE  IInv'
<1> USE Lm3530Assumption
<1>1. CASE Effective(p) > MaxBrightness
  <2>1. /\ props' = p /\ system' = "crashed"
        /\ UNCHANGED <<pdata, drvdata, chip, task, faults, faulted, overlapped>>
    BY <1>1 DEF lm3530_update_status
  <2> QED BY <2>1 DEF IInv, TypeOK, Props, OtherIsRate, AtRest, EnableBitKept, Exclusive,
                      StoresCurrent, ShownAsAsked, SettingsAgree
<1>2. CASE ~(Effective(p) > MaxBrightness)
  <2>0. TypeOK
    BY DEF IInv
  <2>1. /\ props' = p /\ system' = "running" /\ UNCHANGED <<pdata, task>>
        /\ drvdata' \in [enable : BOOLEAN, brightness : Int] /\ drvdata'.enable
        /\ faults' \in 0..MaxFaults /\ faulted' \in BOOLEAN /\ overlapped' \in BOOLEAN
        /\ chip' \in Chips
        /\ ~faulted' => chip'.brt = Effective(p) % 256 /\ drvdata'.brightness = Effective(p)
    BY <1>2, <2>0, UpdateFields
  <2>2. TypeOK'
    BY <2>0, <2>1 DEF TypeOK, Chips, Props
  <2>3. OtherIsRate'
    BY <2>1 DEF IInv, OtherIsRate
  <2>4. AtRest'
    BY <2>1 DEF AtRest
  <2>5. Effective(p) \in Int /\ (~faulted' /\ Effective(p) >= 0 => chip'.brt = Effective(p))
    <3>1. Effective(p) \in Int
      BY EffectiveType
    <3> QED BY <1>2, <2>1, <3>1
  <2>6. CASE drvdata.enable
    <3>1. /\ ~faulted' => ~faulted
          /\ overlapped' = overlapped
          /\ chip'.written = chip.written /\ chip'.on = chip.on /\ chip'.law = chip.law
          /\ chip'.rise = chip.rise /\ chip'.fall = chip.fall
      BY <1>2, <2>0, <2>6, UpdateFields
    <3>2. system = "running"
      BY <2>6 DEF IInv, AtRest
    <3>3. EnableBitKept' /\ Exclusive'
      BY <2>1, <3>1, <3>2 DEF IInv, EnableBitKept, Exclusive
    <3>4. \A x \in Attrs : chip'[x] = chip[x]
      BY <3>1 DEF Attrs
    <3>5. StoresCurrent'
      BY <2>0, <2>1, <3>1, <3>2, <3>4 DEF IInv, StoresCurrent, Remembered, Sibling, Attrs
    <3>6. ShownAsAsked'
      BY <2>1, <2>5, <3>1, <3>2 DEF IInv, ShownAsAsked
    <3>7. SettingsAgree'
      BY <2>1, <3>1, <3>2, <3>4 DEF IInv, SettingsAgree, Attrs
    <3> QED BY <2>2, <2>3, <2>4, <3>3, <3>5, <3>6, <3>7 DEF IInv
  <2>7. CASE ~drvdata.enable
    <3>1. ~faulted' =>
              /\ chip'.written = RegMax /\ chip'.on /\ chip'.law = pdata.law
              /\ chip'.rise = pdata.rise /\ chip'.fall = pdata.fall
      BY <1>2, <2>0, <2>7, UpdateFields
    <3>2. \A w \in Writers : task[w].pc = "idle" /\ task'[w].pc = "idle"
      BY <2>1, <2>7 DEF IInv, AtRest
    <3>3. EnableBitKept' /\ Exclusive' /\ StoresCurrent'
      BY <3>2 DEF EnableBitKept, Exclusive, StoresCurrent
    <3>4. ShownAsAsked'
      BY <2>1, <2>5, <3>1 DEF ShownAsAsked
    <3>5. SettingsAgree'
      BY <2>1, <3>1 DEF SettingsAgree
    <3> QED BY <2>2, <2>3, <2>4, <3>3, <3>4, <3>5 DEF IInv
  <2> QED BY <2>6, <2>7 DEF IInv, TypeOK
<1> QED BY <1>1, <1>2

\* Each of the backlight core's calls is an update with properties of their type.
LEMMA CoreKeeps ==
    ASSUME IInv, BacklightCore \/ lm3530_resume
    PROVE  IInv'
<1> USE Lm3530Assumption
<1>0. props \in Props
  BY DEF IInv, TypeOK, Props
<1>1. ASSUME NEW b \in CommandLine, lm3530_probe(b) PROVE IInv'
  <2>1. [props EXCEPT !.brightness = IF b # -1 THEN b ELSE DefaultBrightness] \in Props
    BY <1>0 DEF Props
  <2> QED BY <1>1, <2>1, UpdateKeeps DEF lm3530_probe
<1>2. ASSUME NEW b \in 0..MaxBrightness, backlight_store_brightness(b) PROVE IInv'
  <2>1. [props EXCEPT !.brightness = b] \in Props
    BY <1>0 DEF Props
  <2> QED BY <1>2, <2>1, UpdateKeeps DEF backlight_store_brightness
<1>3. ASSUME NEW v \in {"on", "off"}, backlight_store_power(v) PROVE IInv'
  <2>1. [props EXCEPT !.power = v] \in Props
    BY <1>0 DEF Props
  <2> QED BY <1>3, <2>1, UpdateKeeps DEF backlight_store_power
<1>4. ASSUME NEW v \in {"on", "off"}, fb_notifier_callback(v) PROVE IInv'
  <2>1. [props EXCEPT !.fb_blank = v] \in Props
    BY <1>0 DEF Props
  <2> QED BY <1>4, <2>1, UpdateKeeps DEF fb_notifier_callback
<1>5. CASE lm3530_resume
  BY <1>0, <1>5, UpdateKeeps DEF lm3530_resume
<1> QED BY <1>1, <1>2, <1>3, <1>4, <1>5 DEF BacklightCore

-----------------------------------------------------------------------------

\* A store that begins finds the register's other field in the chip, or another
\* store at that register, which is noticed.
LEMMA StoreKeeps ==
    ASSUME IInv, NEW w \in Writers, NEW attr \in Attrs, NEW rate \in Rates, Store(w, attr, rate)
    PROVE  IInv'
<1> USE Lm3530Assumption
<1> DEFINE d == [pc |-> "read", attr |-> attr, rate |-> rate, other |-> 0]
           Busy(v) == task[v].pc # "idle" /\ Register(task[v].attr) = Register(attr)
<1>0. TypeOK /\ task \in [Writers -> Stores] /\ pdata \in Settings
  BY DEF IInv, TypeOK, Stores, Settings, Attrs
<1>1. /\ system = "running" /\ task[w].pc = "idle"
      /\ pdata' = [pdata EXCEPT ![attr] = rate]
      /\ task' = [task EXCEPT ![w] = d]
      /\ overlapped' = (overlapped \/ \E v \in Writers : Busy(v))
      /\ UNCHANGED <<system, props, drvdata, chip, faults, faulted>>
  BY DEF Store
<1>2. /\ task'[w] = d /\ d \in Stores
      /\ \A v \in Writers : v # w => task'[v] = task[v]
      /\ task' \in [Writers -> Stores]
  BY <1>0, <1>1 DEF Stores
<1>3. /\ pdata' \in Settings
      /\ pdata'[attr] = rate
      /\ \A x \in Attrs : x # attr => pdata'[x] = pdata[x]
  <2>1. CASE attr = "rise"
    BY <1>0, <1>1, <2>1 DEF Settings, Attrs
  <2>2. CASE attr = "fall"
    BY <1>0, <1>1, <2>2 DEF Settings, Attrs
  <2>3. CASE attr = "law"
    BY <1>0, <1>1, <2>3 DEF Settings, Attrs
  <2> QED BY <2>1, <2>2, <2>3 DEF Attrs
<1>4. TypeOK'
  BY <1>0, <1>1, <1>2, <1>3 DEF TypeOK, Stores, Settings, Attrs
<1>5. OtherIsRate'
  BY <1>2 DEF IInv, OtherIsRate
<1>6. AtRest' /\ ShownAsAsked'
  BY <1>1 DEF IInv, AtRest, ShownAsAsked
<1>7. EnableBitKept'
  BY <1>1, <1>2 DEF IInv, EnableBitKept
<1>8. Exclusive'
  BY <1>1, <1>2 DEF IInv, Exclusive
<1>9. StoresCurrent'
  <2> SUFFICES ASSUME ~faulted, ~overlapped', NEW v \in Writers, task'[v].pc # "idle"
               PROVE  Remembered(v)'
    BY <1>1 DEF StoresCurrent
  <2>1. ~overlapped /\ \A u \in Writers : ~Busy(u)
    BY <1>1
  <2>2. CASE v = w
    <3>1. attr # "law" => chip[Sibling(attr)] = pdata[Sibling(attr)]
      BY <1>1, <2>1 DEF IInv, SettingsAgree, Sibling, Register
    <3>2. attr # "law" => Sibling(attr) # attr /\ Sibling(attr) \in Attrs
      BY DEF Sibling, Attrs
    <3> QED BY <1>1, <1>2, <1>3, <2>2, <3>1, <3>2 DEF Remembered
  <2>3. CASE v # w
    <3>1. task'[v] = task[v] /\ Remembered(v)
      BY <1>1, <1>2, <2>1, <2>3 DEF IInv, StoresCurrent
    <3>2. task[v].attr \in Attrs /\ Register(task[v].attr) # Register(attr)
      BY <1>0, <2>1, <3>1 DEF Stores
    <3>3. task[v].attr # attr /\ (task[v].attr # "law" => Sibling(task[v].attr) # attr)
      BY <3>2 DEF Register, Sibling
    <3>4. Sibling(task[v].attr) \in Attrs
      BY DEF Sibling, Attrs
    <3> QED BY <1>1, <1>3, <3>1, <3>2, <3>3, <3>4 DEF Remembered
  <2> QED BY <2>2, <2>3
<1>10. SettingsAgree'
  <2> SUFFICES ASSUME ~faulted, ~overlapped', NEW x \in Attrs,
                      \A v \in Writers : task'[v].pc # "idle" => Register(task'[v].attr) # Register(x)
               PROVE  chip[x] = pdata'[x]
    BY <1>1 DEF SettingsAgree, Attrs
  <2>1. Register(attr) # Register(x) /\ x # attr
    BY <1>2
  <2>2. \A v \in Writers : task[v].pc # "idle" => Register(task[v].attr) # Register(x)
    BY <1>1, <1>2
  <2> QED BY <1>1, <1>3, <2>1, <2>2 DEF IInv, SettingsAgree, Attrs
<1> QED BY <1>4, <1>5, <1>6, <1>7, <1>8, <1>9, <1>10 DEF IInv

\* A store that reads the register finds what StoresCurrent says of the chip.
LEMMA ReadKeeps ==
    ASSUME IInv, NEW w \in Writers, RegisterRead(w)
    PROVE  IInv'
<1> USE Lm3530Assumption
<1>0. /\ TypeOK /\ task \in [Writers -> Stores] /\ chip \in Chips
      /\ task[w] \in Stores
  BY DEF IInv, TypeOK, Stores, Chips, Attrs
<1>1. /\ system = "running" /\ task[w].pc = "read"
      /\ UNCHANGED <<system, props, pdata, drvdata, chip, overlapped>>
  BY DEF RegisterRead
<1>2. PICK x : /\ task' = [task EXCEPT ![w].pc = "write", ![w].other = x]
               /\ \/ x = Other(task[w].attr) /\ UNCHANGED <<faults, faulted>>
                  \/ /\ faults < MaxFaults /\ faults' = faults + 1 /\ faulted' = TRUE
                     /\ x \in IF task[w].attr = "law" THEN {0, 1} ELSE Rates
  BY DEF RegisterRead
<1>3. x \in Rates \cup {1} /\ (task[w].attr # "law" => x \in Rates)
  BY <1>0, <1>2 DEF Other, Fail, Chips, Stores, Attrs
<1>4. /\ task'[w].pc = "write" /\ task'[w].attr = task[w].attr
      /\ task'[w].rate = task[w].rate /\ task'[w].other = x
      /\ \A v \in Writers : v # w => task'[v] = task[v]
      /\ task' \in [Writers -> Stores]
  BY <1>0, <1>2, <1>3 DEF Stores
<1>5. faults' \in 0..MaxFaults /\ faulted' \in BOOLEAN /\ (~faulted' => ~faulted)
  <2>1. faults' \in 0..MaxFaults
    BY <1>0, <1>2 DEF TypeOK
  <2>2. faulted' \in BOOLEAN /\ (~faulted' => ~faulted)
    <3>1. faulted' = faulted \/ faulted' = TRUE
      BY <1>2, Zenon
    <3> QED BY <1>0, <3>1 DEF TypeOK
  <2> QED BY <2>1, <2>2
<1>6. TypeOK'
  BY <1>0, <1>1, <1>4, <1>5 DEF TypeOK, Stores, Attrs
<1>7. OtherIsRate'
  BY <1>3, <1>4 DEF IInv, OtherIsRate
<1>8. AtRest' /\ ShownAsAsked'
  BY <1>1, <1>5 DEF IInv, AtRest, ShownAsAsked
<1>9. EnableBitKept'
  <2>1. ~faulted' /\ task[w].attr = "law" => x = 1
    BY <1>0, <1>1, <1>2 DEF IInv, ShownAsAsked, Other, Fail
  <2> QED BY <1>1, <1>4, <1>5, <2>1 DEF IInv, EnableBitKept
<1>10. Exclusive'
  BY <1>1, <1>4 DEF IInv, Exclusive
<1>11. StoresCurrent'
  <2> SUFFICES ASSUME ~faulted', ~overlapped, NEW v \in Writers, task'[v].pc # "idle"
               PROVE  Remembered(v)'
    BY <1>1 DEF StoresCurrent
  <2>1. CASE v = w
    <3>1. Remembered(w)
      BY <1>1, <1>5 DEF IInv, StoresCurrent
    <3>2. task[w].attr # "law" => x = chip[Sibling(task[w].attr)]
      BY <1>0, <1>2 DEF Other, Sibling, Stores, Attrs
    <3> QED BY <1>1, <1>4, <2>1, <3>1, <3>2 DEF Remembered
  <2>2. CASE v # w
    BY <1>1, <1>4, <1>5, <2>2 DEF IInv, StoresCurrent, Remembered
  <2> QED BY <2>1, <2>2
<1>12. SettingsAgree'
  BY <1>1, <1>4, <1>5 DEF IInv, SettingsAgree
<1> QED BY <1>6, <1>7, <1>8, <1>9, <1>10, <1>11, <1>12 DEF IInv

\* A store that writes the register leaves both of its fields in the chip as
\* userspace reads them; the enable bit stays set.
LEMMA WriteKeeps ==
    ASSUME IInv, NEW w \in Writers, RegisterWrite(w)
    PROVE  IInv'
<1> USE Lm3530Assumption
<1>0. /\ TypeOK /\ task \in [Writers -> Stores] /\ chip \in Chips
      /\ task[w] \in Stores
      /\ task[w].attr # "law" => task[w].other \in Rates
  BY DEF IInv, TypeOK, OtherIsRate, Stores, Chips, Attrs
<1>1. /\ system = "running" /\ task[w].pc = "write"
      /\ task' = [task EXCEPT ![w] = Idle]
      /\ UNCHANGED <<system, props, pdata, drvdata, overlapped>>
  BY DEF RegisterWrite
<1>2. /\ task'[w].pc = "idle" /\ task'[w].attr = "law"
      /\ \A v \in Writers : v # w => task'[v] = task[v]
      /\ task' \in [Writers -> Stores]
  BY <1>0, <1>1 DEF Stores, Idle, Attrs
<1>3. AtRest'
  BY <1>1 DEF IInv, AtRest
<1>4. OtherIsRate'
  BY <1>2 DEF IInv, OtherIsRate
<1>5. Exclusive'
  BY <1>1, <1>2 DEF IInv, Exclusive
<1>6. CASE faulted' = TRUE /\ faults < MaxFaults /\ faults' = faults + 1 /\ UNCHANGED chip
  <2>1. TypeOK'
    BY <1>0, <1>1, <1>2, <1>6 DEF TypeOK, Stores, Attrs
  <2> QED BY <1>3, <1>4, <1>5, <1>6, <2>1
          DEF IInv, EnableBitKept, StoresCurrent, ShownAsAsked, SettingsAgree
<1>7. CASE chip' = Merged(task[w]) /\ UNCHANGED <<faults, faulted>>
  <2> DEFINE a == task[w].attr
  <2>1. a \in Attrs /\ task[w].rate \in Rates
    BY <1>0 DEF Stores
  <2>2. /\ chip' \in Chips
        /\ chip'[a] = task[w].rate
        /\ a # "law" => chip'[Sibling(a)] = task[w].other
        /\ \A x \in Attrs : Register(x) # Register(a) => chip'[x] = chip[x]
        /\ chip'.on = IF a = "law" THEN task[w].other = 1 ELSE chip.on
        /\ chip'.written = chip.written /\ chip'.brt = chip.brt
    <3>1. CASE a = "rise"
      <4>1. chip' = [chip EXCEPT !.rise = task[w].rate, !.fall = task[w].other]
        BY <1>7, <3>1 DEF Merged
      <4> QED BY <1>0, <2>1, <3>1, <4>1 DEF Chips, Sibling, Register, Attrs
    <3>2. CASE a = "fall"
      <4>1. chip' = [chip EXCEPT !.fall = task[w].rate, !.rise = task[w].other]
        BY <1>7, <3>2 DEF Merged
      <4> QED BY <1>0, <2>1, <3>2, <4>1 DEF Chips, Sibling, Register, Attrs
    <3>3. CASE a = "law"
      <4>1. chip' = [chip EXCEPT !.law = task[w].rate, !.on = (task[w].other = 1)]
        BY <1>7, <3>3 DEF Merged
      <4> QED BY <1>0, <2>1, <3>3, <4>1 DEF Chips, Sibling, Register, Attrs
    <3> QED BY <2>1, <3>1, <3>2, <3>3 DEF Attrs
  <2>3. TypeOK'
    BY <1>0, <1>1, <1>2, <1>7, <2>2 DEF TypeOK, Stores, Chips, Attrs
  <2>4. EnableBitKept'
    BY <1>1, <1>2, <1>7 DEF IInv, EnableBitKept
  <2>5. ShownAsAsked'
    <3>1. ~faulted => chip.on /\ (a = "law" => task[w].other = 1)
      BY <1>1 DEF IInv, ShownAsAsked, EnableBitKept
    <3> QED BY <1>1, <1>7, <2>2, <3>1 DEF IInv, ShownAsAsked
  <2>6. ASSUME ~faulted, ~overlapped
        PROVE  /\ Remembered(w)
               /\ \A x \in Attrs : Register(x) = Register(a) => chip'[x] = pdata[x]
    <3>1. Remembered(w)
      BY <1>1, <2>6 DEF IInv, StoresCurrent
    <3>2. chip'[a] = pdata[a] /\ (a # "law" => chip'[Sibling(a)] = pdata[Sibling(a)])
      BY <1>1, <2>2, <3>1 DEF Remembered
    <3>3. \A x \in Attrs : Register(x) = Register(a) => x = a \/ (a # "law" /\ x = Sibling(a))
      BY <2>1 DEF Register, Sibling, Attrs
    <3> QED BY <3>1, <3>2, <3>3
  <2>7. StoresCurrent'
    <3> SUFFICES ASSUME ~faulted, ~overlapped, NEW v \in Writers, task'[v].pc # "idle"
                 PROVE  Remembered(v)'
      BY <1>1, <1>7 DEF StoresCurrent
    <3>1. v # w /\ task'[v] = task[v] /\ Remembered(v)
      BY <1>1, <1>2 DEF IInv, StoresCurrent
    <3>2. Register(task[v].attr) # Register(a) /\ task[v].attr \in Attrs
      BY <1>0, <1>1, <3>1 DEF IInv, Exclusive, Stores
    <3>3. task[v].attr # "law" => /\ Sibling(task[v].attr) \in Attrs
                                  /\ Register(Sibling(task[v].attr)) # Register(a)
      BY <3>2 DEF Register, Sibling, Attrs
    <3> QED BY <1>1, <2>2, <3>1, <3>2, <3>3 DEF Remembered
  <2>8. SettingsAgree'
    <3> SUFFICES ASSUME ~faulted, ~overlapped, NEW x \in Attrs,
                        \A v \in Writers : task'[v].pc # "idle" => Register(task'[v].attr) # Register(x)
                 PROVE  chip'[x] = pdata[x]
      BY <1>1, <1>7 DEF SettingsAgree, Attrs
    <3>1. CASE Register(x) = Register(a)
      BY <2>6, <3>1
    <3>2. CASE Register(x) # Register(a)
      <4>1. \A v \in Writers : task[v].pc # "idle" => Register(task[v].attr) # Register(x)
        BY <1>2, <3>2
      <4>2. chip[x] = pdata[x]
        BY <1>1, <4>1 DEF IInv, SettingsAgree, Attrs
      <4> QED BY <2>2, <3>2, <4>2
    <3> QED BY <3>1, <3>2
  <2> QED BY <1>3, <1>4, <1>5, <2>3, <2>4, <2>5, <2>7, <2>8 DEF IInv
<1> QED BY <1>6, <1>7 DEF RegisterWrite

-----------------------------------------------------------------------------

\* The inductive invariant.  ShownAsAsked alone is not inductive: a store to the
\* general register writes back the enable bit it has read, and a stale flag would
\* skip the initialisation.
THEOREM Lm3530Inductive == Spec => []IInv
<1> USE Lm3530Assumption
<1>1. Init => IInv
  <2> SUFFICES ASSUME Init PROVE IInv
    OBVIOUS
  <2>1. TypeOK
    <3>1. chip \in Chips
      BY DEF Init, ResetChip, Chips, RegMax
    <3>2. task \in [Writers -> Stores]
      BY DEF Init, Idle, Stores, Attrs
    <3>3. props \in Props /\ pdata \in Settings /\ drvdata \in [enable : BOOLEAN, brightness : Int]
      BY DEF Init, Props, Settings
    <3>4. faults \in 0..MaxFaults
      BY DEF Init
    <3>5. faulted \in BOOLEAN /\ overlapped \in BOOLEAN /\ system = "boot"
      BY DEF Init
    <3> QED BY <3>1, <3>2, <3>3, <3>4, <3>5 DEF TypeOK, Props, Settings, Chips, Stores, Attrs
  <2>2. \A w \in Writers : task[w] = Idle
    BY DEF Init
  <2> QED BY <2>1, <2>2 DEF Init, IInv, Idle, OtherIsRate, AtRest, EnableBitKept, Exclusive,
                            StoresCurrent, ShownAsAsked, SettingsAgree
<1>2. IInv /\ [Next]_vars => IInv'
  <2> SUFFICES ASSUME IInv, [Next]_vars PROVE IInv'
    OBVIOUS
  <2>1. CASE BacklightCore \/ lm3530_resume
    BY <2>1, CoreKeeps
  <2>2. CASE Attributes
    BY <2>2, StoreKeeps, ReadKeeps, WriteKeeps DEF Attributes, Attrs
  <2>3. ResetChip \in Chips
    BY DEF ResetChip, Chips, RegMax
  <2>4. CASE lm3530_suspend
    <3>1. /\ system' = "asleep" /\ chip' = ResetChip
          /\ drvdata' = [drvdata EXCEPT !.enable = FALSE]
          /\ \A w \in Writers : task[w].pc = "idle"
          /\ UNCHANGED <<props, pdata, task, faults, faulted, overlapped>>
      BY <2>4 DEF lm3530_suspend
    <3>2. drvdata' \in [enable : BOOLEAN, brightness : Int] /\ ~drvdata'.enable
      BY <3>1 DEF IInv, TypeOK
    <3>3. TypeOK'
      BY <2>3, <3>1, <3>2 DEF IInv, TypeOK, Chips
    <3> QED BY <3>1, <3>2, <3>3 DEF IInv, OtherIsRate, AtRest, EnableBitKept, Exclusive,
                                    StoresCurrent, ShownAsAsked, SettingsAgree
  <2>5. CASE lm3530_shutdown
    <3>1. /\ system' = "off" /\ chip' = ResetChip
          /\ UNCHANGED <<props, pdata, drvdata, task, faults, faulted, overlapped>>
      BY <2>5 DEF lm3530_shutdown
    <3>2. TypeOK'
      BY <2>3, <3>1 DEF IInv, TypeOK, Chips
    <3> QED BY <3>1, <3>2 DEF IInv, OtherIsRate, AtRest, EnableBitKept, Exclusive,
                              StoresCurrent, ShownAsAsked, SettingsAgree
  <2>6. CASE UNCHANGED vars
    BY <2>6 DEF vars, IInv, TypeOK, OtherIsRate, AtRest, EnableBitKept, Exclusive,
                StoresCurrent, Remembered, ShownAsAsked, SettingsAgree
  <2> QED BY <2>1, <2>2, <2>4, <2>5, <2>6 DEF Next
<1> QED BY <1>1, <1>2, PTL DEF Spec

\* ShownAsAsked: as long as no transfer failed, a running LM3530 has its whole
\* table and is on at the brightness asked for, over any number of suspends and
\* of stores that interleave with them.
THEOREM AlwaysShownAsAsked == Spec => []ShownAsAsked
<1>1. IInv => ShownAsAsked
  BY DEF IInv
<1> QED BY <1>1, Lm3530Inductive, PTL

\* SettingsAgree: the ramp settings that userspace reads back are the chip's,
\* unless a transfer failed or two unlocked stores were at one register.
THEOREM AlwaysSettingsAgree == Spec => []SettingsAgree
<1>1. IInv => SettingsAgree
  BY DEF IInv
<1> QED BY <1>1, Lm3530Inductive, PTL
===============================================================================
