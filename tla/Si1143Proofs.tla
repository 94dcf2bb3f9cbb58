----------------------------- MODULE Si1143Proofs -----------------------------
(***************************************************************************)
(* Proofs about the attributes of the Si1143, for any number of tasks.     *)
(***************************************************************************)
EXTENDS Si1143, TLAPS

\* The registers are sets of their fields; the parameter that waits in PARAM_WR
\* is harmless, since it may be committed by a later command.
Registers ==
    /\ chip \in [enable : SUBSET Sources, mode : SUBSET {"als", "ir", "ps1"},
                 param : 0..MaxPsAdcGain, gain : 0..MaxPsAdcGain, auto : BOOLEAN]
    /\ task \in [Tasks -> [op : DOMAIN Transfers \cup {"none"}, arg : Nat, step : Nat,
                           read : SUBSET {"als", "ir", "ps1"}]]

\* update_lock is held by whoever is within an attribute.
Locked == \A t \in Tasks : task[t].op # "none" => lock = t

\* What a task within an attribute knows of the registers r: the value it has
\* read is still the register's, and what it has written is still there.
Fresh(c, r) ==
    /\ c.op = "set_prox_th" =>
           /\ c.step \in 1..8
           /\ c.step = 3 => c.read = r.enable
           /\ c.step >= 4 => "ps1" \in r.enable
           /\ c.step = 5 => c.read = r.mode
           /\ c.step >= 6 => "ps1" \in r.mode
    /\ c.op = "set_als_spectrum" =>
           /\ c.step \in 1..4
           /\ c.step = 2 => c.read = r.mode
           /\ c.step = 4 => c.read = r.enable
    /\ c.op = "set_prox_gain" => c.step \in 1..2
    /\ c.op \in {"get_prox_gain", "show"} => c.step \in 1..2
    /\ c.op \in {"set_als_th", "get_als_th"} => c.step = 1

Knowledge == \A t \in Tasks : Fresh(task[t], chip)

IInv == Registers /\ Locked /\ Knowledge /\ ThresholdStaysArmed

-----------------------------------------------------------------------------

\* A clamped gain is not above the limit.
LEMMA ClampBounds == \A g \in Nat : Clamp(g) \in 0..MaxPsAdcGain
BY DEF Clamp, MaxPsAdcGain

\* The operations that go through update_lock.
LEMMA Operations ==
    DOMAIN Transfers = {"set_prox_th", "set_als_spectrum", "set_prox_gain", "get_prox_gain",
                        "set_als_th", "get_als_th", "show"}
BY DEF Transfers

\* The number of transfers of each operation.
LEMMA Lengths ==
    /\ Len(Transfers["set_prox_th"]) = 8
    /\ Len(Transfers["set_als_spectrum"]) = 4
    /\ Len(Transfers["set_prox_gain"]) = 2
    /\ Len(Transfers["get_prox_gain"]) = 2
    /\ Len(Transfers["set_als_th"]) = 1
    /\ Len(Transfers["get_als_th"]) = 1
    /\ Len(Transfers["show"]) = 2
BY DEF Transfers, SetProxTh, SetAlsSpectrum, SetProxGain, GetProxGain, SetAlsTh, GetAlsTh, Show

\* The transfers of each operation, in their order.
LEMMA Steps ==
    /\ Transfers["set_prox_th"][1] = "write"
    /\ Transfers["set_prox_th"][2] = "read_enable"
    /\ Transfers["set_prox_th"][3] = "write_enable"
    /\ Transfers["set_prox_th"][4] = "read_mode"
    /\ Transfers["set_prox_th"][5] = "write_mode"
    /\ Transfers["set_prox_th"][6] = "write"
    /\ Transfers["set_prox_th"][7] = "write"
    /\ Transfers["set_prox_th"][8] = "write_auto"
    /\ Transfers["set_als_spectrum"][1] = "read_mode"
    /\ Transfers["set_als_spectrum"][2] = "write_mode"
    /\ Transfers["set_als_spectrum"][3] = "read_enable"
    /\ Transfers["set_als_spectrum"][4] = "write_enable"
    /\ Transfers["set_prox_gain"][1] = "write_param"
    /\ Transfers["set_prox_gain"][2] = "command_gain"
    /\ Transfers["get_prox_gain"][1] = "command"
    /\ Transfers["get_prox_gain"][2] = "read"
    /\ Transfers["set_als_th"][1] = "write"
    /\ Transfers["get_als_th"][1] = "read"
    /\ Transfers["show"][1] = "command"
    /\ Transfers["show"][2] = "read"
BY DEF Transfers, SetProxTh, SetAlsSpectrum, SetProxGain, GetProxGain, SetAlsTh, GetAlsTh, Show

-----------------------------------------------------------------------------

\* A task outside of the attributes knows nothing.
LEMMA IdleIsFresh == \A c, r : c.op = "none" => Fresh(c, r)
BY DEF Fresh

\* The transfers keep the registers well-formed and never take the interrupt of
\* the proximity sensor away, provided that what was read is still current.
LEMMA EffectKeeps ==
    ASSUME NEW c \in [op : DOMAIN Transfers, arg : Nat, step : Nat,
                      read : SUBSET {"als", "ir", "ps1"}],
           chip \in [enable : SUBSET Sources, mode : SUBSET {"als", "ir", "ps1"},
                     param : 0..MaxPsAdcGain, gain : 0..MaxPsAdcGain, auto : BOOLEAN],
           Fresh(c, chip),
           NEW e, e = Effect(c, Transfers[c.op][c.step])
    PROVE  /\ e \in [enable : SUBSET Sources, mode : SUBSET {"als", "ir", "ps1"},
                     param : 0..MaxPsAdcGain, gain : 0..MaxPsAdcGain, auto : BOOLEAN]
           /\ "ps1" \in chip.enable => "ps1" \in e.enable
           /\ "ps1" \in chip.mode => "ps1" \in e.mode
           /\ chip.auto => e.auto
<1> DEFINE Chips == [enable : SUBSET Sources, mode : SUBSET {"als", "ir", "ps1"},
                     param : 0..MaxPsAdcGain, gain : 0..MaxPsAdcGain, auto : BOOLEAN]
           Good(x) == /\ x \in Chips
                      /\ "ps1" \in chip.enable => "ps1" \in x.enable
                      /\ "ps1" \in chip.mode => "ps1" \in x.mode
                      /\ chip.auto => x.auto
           tr == Transfers[c.op][c.step]
<1>1. Good(chip)
  OBVIOUS
<1>2. CASE c.op = "set_prox_th"
  <2>1. c.step \in 1..8
    BY <1>2 DEF Fresh
  <2>2. CASE c.step = 3
    <3>1. e = [chip EXCEPT !.enable = chip.enable \cup {"ps1"}]
      BY <1>2, <2>2, Steps DEF Effect, NewEnable, Fresh
    <3> QED BY <3>1 DEF Sources
  <2>3. CASE c.step = 5
    <3>1. e = [chip EXCEPT !.mode = chip.mode \cup {"ps1"}]
      BY <1>2, <2>3, Steps DEF Effect, NewMode, Fresh
    <3> QED BY <3>1
  <2>4. CASE c.step = 8
    <3>1. e = [chip EXCEPT !.auto = TRUE]
      BY <1>2, <2>4, Steps DEF Effect
    <3> QED BY <3>1
  <2>5. CASE c.step \in {1, 2, 4, 6, 7}
    <3>1. e = chip
      BY <1>2, <2>5, Steps DEF Effect
    <3> QED BY <1>1, <3>1
  <2> QED BY <2>1, <2>2, <2>3, <2>4, <2>5
<1>3. CASE c.op = "set_als_spectrum"
  <2>1. c.step \in 1..4
    BY <1>3 DEF Fresh
  <2>2. CASE c.step = 2
    <3>1. e = [chip EXCEPT !.mode = Spectrum(chip.mode, c.arg)]
      BY <1>3, <2>2, Steps DEF Effect, NewMode, Fresh
    <3>2. /\ Spectrum(chip.mode, c.arg) \in SUBSET {"als", "ir", "ps1"}
          /\ "ps1" \in chip.mode => "ps1" \in Spectrum(chip.mode, c.arg)
      BY DEF Spectrum
    <3> QED BY <3>1, <3>2
  <2>3. CASE c.step = 4
    <3>1. e = [chip EXCEPT !.enable = chip.enable \cup {"als"}]
      BY <1>3, <2>3, Steps DEF Effect, NewEnable, Fresh
    <3> QED BY <3>1 DEF Sources
  <2>4. CASE c.step \in {1, 3}
    <3>1. e = chip
      BY <1>3, <2>4, Steps DEF Effect
    <3> QED BY <1>1, <3>1
  <2> QED BY <2>1, <2>2, <2>3, <2>4
<1>4. CASE c.op = "set_prox_gain"
  <2>1. c.step \in 1..2
    BY <1>4 DEF Fresh
  <2>2. CASE c.step = 1
    <3>1. e = [chip EXCEPT !.param = Clamp(c.arg)]
      BY <1>4, <2>2, Steps DEF Effect
    <3>2. Clamp(c.arg) \in 0..MaxPsAdcGain
      BY ClampBounds
    <3> QED BY <3>1, <3>2
  <2>3. CASE c.step = 2
    <3>1. e = [chip EXCEPT !.gain = chip.param]
      BY <1>4, <2>3, Steps DEF Effect
    <3> QED BY <3>1
  <2> QED BY <2>1, <2>2, <2>3
<1>5. CASE c.op \in {"get_prox_gain", "set_als_th", "get_als_th", "show"}
  <2>1. Transfers[c.op][c.step] \in {"command", "read", "write"}
    <3>1. CASE c.op = "get_prox_gain"
      BY <3>1, Steps DEF Fresh
    <3>2. CASE c.op = "set_als_th"
      BY <3>2, Steps DEF Fresh
    <3>3. CASE c.op = "get_als_th"
      BY <3>3, Steps DEF Fresh
    <3>4. CASE c.op = "show"
      BY <3>4, Steps DEF Fresh
    <3> QED BY <1>5, <3>1, <3>2, <3>3, <3>4
  <2>2. e = chip
    BY <2>1 DEF Effect
  <2> QED BY <1>1, <2>2
<1> QED BY <1>2, <1>3, <1>4, <1>5, Operations

\* The record of a task that goes on.
LEMMA Updated ==
    ASSUME NEW Op, NEW Read,
           NEW c \in [op : Op, arg : Nat, step : Nat, read : Read],
           NEW s \in Nat, NEW r \in Read,
           NEW d, d = [c EXCEPT !.step = s, !.read = r]
    PROVE  /\ d.op = c.op
           /\ d.step = s
           /\ d.read = r
           /\ d \in [op : Op, arg : Nat, step : Nat, read : Read]
OBVIOUS

\* A call after one of its transfers, with what the transfer has read.
LEMMA Advanced ==
    ASSUME NEW Op, NEW Read,
           NEW c \in [op : Op, arg : Nat, step : Nat, read : Read],
           NEW r \in Read,
           NEW d, d = [c EXCEPT !.step = @ + 1, !.read = r]
    PROVE  /\ d.op = c.op
           /\ d.step = c.step + 1
           /\ d.read = r
           /\ d \in [op : Op, arg : Nat, step : Nat, read : Read]
<1>1. c.step + 1 \in Nat
  OBVIOUS
<1> QED BY <1>1, Updated, Zenon

\* After a transfer, a task that goes on knows what the next one rests on.
LEMMA NextIsFresh ==
    ASSUME NEW c \in [op : DOMAIN Transfers, arg : Nat, step : Nat,
                      read : SUBSET {"als", "ir", "ps1"}],
           chip \in [enable : SUBSET Sources, mode : SUBSET {"als", "ir", "ps1"},
                     param : 0..MaxPsAdcGain, gain : 0..MaxPsAdcGain, auto : BOOLEAN],
           Fresh(c, chip),
           c.step # Len(Transfers[c.op]),
           NEW e, e = Effect(c, Transfers[c.op][c.step]),
           NEW d, d = [c EXCEPT !.step = @ + 1, !.read = Reads(c, Transfers[c.op][c.step])]
    PROVE  /\ d \in [op : DOMAIN Transfers, arg : Nat, step : Nat,
                     read : SUBSET {"als", "ir", "ps1"}]
           /\ Fresh(d, e)
<1>0. /\ d.op = c.op
      /\ d.step = c.step + 1
      /\ d.read = Reads(c, Transfers[c.op][c.step])
      /\ d \in [op : DOMAIN Transfers, arg : Nat, step : Nat, read : SUBSET {"als", "ir", "ps1"}]
  <2>1. Reads(c, Transfers[c.op][c.step]) \in SUBSET {"als", "ir", "ps1"}
    BY DEF Reads, Sources
  <2> QED BY <2>1, Advanced
<1>1. CASE c.op = "set_prox_th"
  <2>1. c.step \in 1..7
    BY <1>1, Lengths DEF Fresh
  <2>2. CASE c.step \in {1, 6}
    <3>1. e = chip
      BY <1>1, <2>2, Steps DEF Effect
    <3> QED BY <1>0, <1>1, <2>2, <3>1 DEF Fresh
  <2>3. CASE c.step = 2
    <3>1. e = chip /\ Reads(c, Transfers[c.op][c.step]) = chip.enable
      BY <1>1, <2>3, Steps DEF Effect, Reads
    <3> QED BY <1>0, <1>1, <2>3, <3>1 DEF Fresh
  <2>4. CASE c.step = 3
    <3>1. e = [chip EXCEPT !.enable = chip.enable \cup {"ps1"}]
      BY <1>1, <2>4, Steps DEF Effect, NewEnable, Fresh
    <3> QED BY <1>0, <1>1, <2>4, <3>1 DEF Fresh
  <2>5. CASE c.step = 4
    <3>1. e = chip /\ Reads(c, Transfers[c.op][c.step]) = chip.mode
      BY <1>1, <2>5, Steps DEF Effect, Reads
    <3> QED BY <1>0, <1>1, <2>5, <3>1 DEF Fresh
  <2>6. CASE c.step = 5
    <3>1. e = [chip EXCEPT !.mode = chip.mode \cup {"ps1"}]
      BY <1>1, <2>6, Steps DEF Effect, NewMode, Fresh
    <3> QED BY <1>0, <1>1, <2>6, <3>1 DEF Fresh
  <2>7. CASE c.step = 7
    <3>1. e = chip
      BY <1>1, <2>7, Steps DEF Effect
    <3> QED BY <1>0, <1>1, <2>7, <3>1 DEF Fresh
  <2> QED BY <2>1, <2>2, <2>3, <2>4, <2>5, <2>6, <2>7
<1>2. CASE c.op = "set_als_spectrum"
  <2>1. c.step \in 1..3
    BY <1>2, Lengths DEF Fresh
  <2>2. CASE c.step = 1
    <3>1. e = chip /\ Reads(c, Transfers[c.op][c.step]) = chip.mode
      BY <1>2, <2>2, Steps DEF Effect, Reads
    <3> QED BY <1>0, <1>2, <2>2, <3>1 DEF Fresh
  <2>3. CASE c.step = 2
    BY <1>0, <1>2, <2>3 DEF Fresh
  <2>4. CASE c.step = 3
    <3>1. e = chip /\ Reads(c, Transfers[c.op][c.step]) = chip.enable
      BY <1>2, <2>4, Steps DEF Effect, Reads
    <3> QED BY <1>0, <1>2, <2>4, <3>1 DEF Fresh
  <2> QED BY <2>1, <2>2, <2>3, <2>4
<1>3. CASE c.op \in {"set_prox_gain", "get_prox_gain", "show"}
  <2>1. c.step = 1
    <3>1. Len(Transfers[c.op]) = 2
      BY <1>3, Lengths
    <3>2. c.step \in 1..2
      BY <1>3 DEF Fresh
    <3> QED BY <3>1, <3>2
  <2> QED BY <1>0, <1>3, <2>1 DEF Fresh
<1>4. CASE c.op \in {"set_als_th", "get_als_th"}
  <2>1. c.step = 1 /\ Len(Transfers[c.op]) = 1
    BY <1>4, Lengths DEF Fresh
  <2> QED BY <2>1
<1> QED BY <1>0, <1>1, <1>2, <1>3, <1>4, Operations

\* The last transfer of a write of the threshold leaves proximity armed.
LEMMA LastArms ==
    ASSUME NEW c,
           chip \in [enable : SUBSET Sources, mode : SUBSET {"als", "ir", "ps1"},
                     param : 0..MaxPsAdcGain, gain : 0..MaxPsAdcGain, auto : BOOLEAN],
           Fresh(c, chip),
           c.op = "set_prox_th",
           c.step = Len(Transfers[c.op]),
           NEW e, e = Effect(c, Transfers[c.op][c.step])
    PROVE  "ps1" \in e.enable /\ "ps1" \in e.mode /\ e.auto
<1>1. c.step = 8
  BY Lengths
<1>2. e = [chip EXCEPT !.auto = TRUE]
  BY <1>1, Steps DEF Effect
<1>3. "ps1" \in chip.enable /\ "ps1" \in chip.mode
  BY <1>1 DEF Fresh
<1> QED BY <1>2, <1>3

-----------------------------------------------------------------------------

\* The inductive invariant: the tasks that share the registers through
\* read-modify-write sequences exclude each other by update_lock, so that what
\* one has read is current when it writes.
THEOREM Si1143Inductive == Spec => []IInv
<1> USE Si1143Assumption
<1>1. Init => IInv
  <2> SUFFICES ASSUME Init PROVE IInv
    OBVIOUS
  <2>1. Registers
    BY DEF Init, Registers, NoCall, Sources, MaxPsAdcGain, DefaultPsAdcGain, DefaultAlsVsAdcGain
  <2>2. \A t \in Tasks : task[t].op = "none"
    BY DEF Init, NoCall
  <2>3. Knowledge
    BY <2>2, IdleIsFresh DEF Knowledge
  <2> QED BY <2>1, <2>2, <2>3 DEF IInv, Locked, ThresholdStaysArmed, Init
<1>2. IInv /\ [Next]_vars => IInv'
  <2> SUFFICES ASSUME IInv, [Next]_vars PROVE IInv'
    OBVIOUS
  <2>1. ASSUME UNCHANGED <<chip, lock, task, armed>> PROVE IInv'
    BY <2>1 DEF IInv, Registers, Locked, Knowledge, Fresh, ThresholdStaysArmed
  <2>2. ASSUME NEW t \in Tasks, NEW op \in DOMAIN Transfers, NEW arg \in Arguments(op),
               Call(t, op, arg)
        PROVE  IInv'
    <3> DEFINE d == [op |-> op, arg |-> arg, step |-> 1, read |-> {}]
    <3>1. arg \in Nat
      BY DEF Arguments
    <3>2. /\ task' = [task EXCEPT ![t] = d]
          /\ chip' = chip /\ lock' = t /\ armed' = armed
          /\ lock = "none"
      BY <2>2 DEF Call
    <3>3. Registers'
      BY <3>1, <3>2 DEF IInv, Registers
    <3>4. \A u \in Tasks : u # t => task'[u].op = "none"
      BY <3>2 DEF IInv, Registers, Locked
    <3>5. Locked'
      BY <3>2, <3>4 DEF Locked
    <3>6. Fresh(d, chip)
      BY DEF Fresh
    <3>7. Knowledge'
      <4>1. task'[t] = d
        BY <3>2 DEF IInv, Registers
      <4>2. ASSUME NEW u \in Tasks PROVE Fresh(task'[u], chip')
        <5>1. CASE u = t
          BY <3>2, <3>6, <4>1, <5>1
        <5>2. CASE u # t
          BY <3>4, <5>2, IdleIsFresh
        <5> QED BY <5>1, <5>2
      <4> QED BY <4>2 DEF Knowledge
    <3> QED BY <3>2, <3>3, <3>5, <3>7 DEF IInv, ThresholdStaysArmed
  <2>3. ASSUME NEW t \in Tasks, Transfer(t) PROVE IInv'
    <3> DEFINE c == task[t]
               tr == Transfers[c.op][c.step]
               d == IF c.step = Len(Transfers[c.op]) THEN NoCall
                    ELSE [c EXCEPT !.step = @ + 1, !.read = Reads(c, tr)]
    <3>1. /\ c.op # "none"
          /\ chip' = Effect(c, tr)
          /\ task' = [task EXCEPT ![t] = d]
          /\ lock' = IF c.step = Len(Transfers[c.op]) THEN "none" ELSE lock
          /\ armed' = (armed \/ (c.step = Len(Transfers[c.op]) /\ c.op = "set_prox_th"))
      BY <2>3 DEF Transfer
    <3>2. /\ c \in [op : DOMAIN Transfers, arg : Nat, step : Nat,
                    read : SUBSET {"als", "ir", "ps1"}]
          /\ chip \in [enable : SUBSET Sources, mode : SUBSET {"als", "ir", "ps1"},
                       param : 0..MaxPsAdcGain, gain : 0..MaxPsAdcGain, auto : BOOLEAN]
          /\ Fresh(c, chip)
      BY <3>1 DEF IInv, Registers, Knowledge
    <3>3. /\ chip' \in [enable : SUBSET Sources, mode : SUBSET {"als", "ir", "ps1"},
                        param : 0..MaxPsAdcGain, gain : 0..MaxPsAdcGain, auto : BOOLEAN]
          /\ "ps1" \in chip.enable => "ps1" \in chip'.enable
          /\ "ps1" \in chip.mode => "ps1" \in chip'.mode
          /\ chip.auto => chip'.auto
      BY <3>1, <3>2, EffectKeeps
    <3>4. /\ d \in [op : DOMAIN Transfers \cup {"none"}, arg : Nat, step : Nat,
                    read : SUBSET {"als", "ir", "ps1"}]
          /\ Fresh(d, chip')
      <4>1. CASE c.step = Len(Transfers[c.op])
        BY <4>1, IdleIsFresh DEF NoCall
      <4>2. CASE c.step # Len(Transfers[c.op])
        <5>1. d = [c EXCEPT !.step = @ + 1, !.read = Reads(c, tr)]
          BY <4>2
        <5>2. /\ d \in [op : DOMAIN Transfers, arg : Nat, step : Nat,
                        read : SUBSET {"als", "ir", "ps1"}]
              /\ Fresh(d, chip')
          BY <3>1, <3>2, <4>2, <5>1, NextIsFresh
        <5> QED BY <5>2
      <4> QED BY <4>1, <4>2
    <3>5. Registers'
      BY <3>1, <3>3, <3>4 DEF IInv, Registers
    <3>6. task'[t] = d /\ \A u \in Tasks : u # t => task'[u].op = "none"
      BY <3>1 DEF IInv, Registers, Locked
    <3>7. Locked'
      BY <3>1, <3>6 DEF IInv, Locked, NoCall
    <3>8. Knowledge'
      <4>1. ASSUME NEW u \in Tasks PROVE Fresh(task'[u], chip')
        <5>1. CASE u = t
          BY <3>4, <3>6, <5>1
        <5>2. CASE u # t
          BY <3>6, <5>2, IdleIsFresh
        <5> QED BY <5>1, <5>2
      <4> QED BY <4>1 DEF Knowledge
    <3>9. ThresholdStaysArmed'
      <4>1. CASE armed
        BY <3>3, <4>1 DEF IInv, ThresholdStaysArmed
      <4>2. CASE c.step = Len(Transfers[c.op]) /\ c.op = "set_prox_th"
        <5>1. "ps1" \in chip'.enable /\ "ps1" \in chip'.mode /\ chip'.auto
          BY <3>1, <3>2, <4>2, LastArms
        <5> QED BY <5>1 DEF ThresholdStaysArmed
      <4>3. armed' => armed \/ (c.step = Len(Transfers[c.op]) /\ c.op = "set_prox_th")
        BY <3>1
      <4> QED BY <4>1, <4>2, <4>3 DEF ThresholdStaysArmed
    <3> QED BY <3>5, <3>7, <3>8, <3>9 DEF IInv
  <2>4. ASSUME NEW t \in Tasks, TransferFails(t) PROVE IInv'
    <3>1. /\ task' = [task EXCEPT ![t] = NoCall]
          /\ chip' = chip /\ armed' = armed
          /\ task[t].op # "none"
      BY <2>4 DEF TransferFails
    <3>2. Registers'
      BY <3>1 DEF IInv, Registers, NoCall
    <3>3. \A u \in Tasks : task'[u].op = "none"
      BY <3>1 DEF IInv, Registers, Locked, NoCall
    <3>4. Knowledge'
      BY <3>3, IdleIsFresh DEF Knowledge
    <3> QED BY <3>1, <3>2, <3>3, <3>4 DEF IInv, Locked, ThresholdStaysArmed
  <2>5. CASE Attributes
    BY <2>2, <2>3, <2>4, <2>5 DEF Attributes
  <2>6. CASE Interrupts
    BY <2>1, <2>6 DEF Interrupts, Raise, si1143_irq, WorkRead, WorkWrite
  <2>7. CASE Pm
    BY <2>1, <2>7 DEF Pm, si1143_suspend, Sleep, si1143_resume
  <2>8. CASE UNCHANGED vars
    BY <2>1, <2>8 DEF vars
  <2> QED BY <2>5, <2>6, <2>7, <2>8 DEF Next
<1> QED BY <1>1, <1>2, PTL DEF Spec

\* GainSafe: no sequence of attribute writes, failed transfers and restarts of
\* the sequence programs the gain that might damage the part.
THEOREM GainNeverUnsafe == Spec => []GainSafe
<1>1. IInv => GainSafe
  BY DEF IInv, Registers, GainSafe, MaxPsAdcGain
<1> QED BY <1>1, Si1143Inductive, PTL

\* ThresholdStaysArmed: an armed proximity interrupt is never lost to another
\* attribute's read-modify-write of the registers they share.
THEOREM ArmedForGood == Spec => []ThresholdStaysArmed
<1>1. IInv => ThresholdStaysArmed
  BY DEF IInv
<1> QED BY <1>1, Si1143Inductive, PTL

-----------------------------------------------------------------------------

\* StuckOnlyWhenMissed: whatever the order of edges, reads and write-backs of the
\* status, suspends and failed transfers, an interrupt that nobody will serve any
\* more fired between read and write-back, was cancelled by a suspend, or met a
\* transfer that failed.
THEOREM StuckForAReason == Spec => []StuckOnlyWhenMissed
<1>1. Init => StuckOnlyWhenMissed
  BY DEF Init, StuckOnlyWhenMissed, Stuck
<1>2. StuckOnlyWhenMissed /\ [Next]_vars => StuckOnlyWhenMissed'
  <2> SUFFICES ASSUME StuckOnlyWhenMissed, [Next]_vars PROVE StuckOnlyWhenMissed'
    OBVIOUS
  <2> USE DEF StuckOnlyWhenMissed, Stuck
  <2>1. CASE UNCHANGED <<irqVars, missed>>
    BY <2>1 DEF irqVars
  <2>2. CASE Attributes
    BY <2>1, <2>2 DEF Attributes, Call, Transfer, TransferFails
  <2>3. ASSUME NEW s \in Sources, Raise(s) PROVE StuckOnlyWhenMissed'
    BY <2>3 DEF Raise
  <2>4. CASE si1143_irq
    BY <2>4 DEF si1143_irq
  <2>5. CASE WorkRead
    BY <2>5 DEF WorkRead
  <2>6. CASE WorkWrite
    BY <2>6 DEF WorkWrite
  <2>7. CASE si1143_suspend
    BY <2>7 DEF si1143_suspend
  <2>8. CASE Sleep \/ si1143_resume
    BY <2>1, <2>8 DEF Sleep, si1143_resume
  <2>9. CASE UNCHANGED vars
    BY <2>1, <2>9 DEF vars
  <2> QED BY <2>2, <2>3, <2>4, <2>5, <2>6, <2>7, <2>8, <2>9 DEF Next, Interrupts, Pm
<1> QED BY <1>1, <1>2, PTL DEF Spec
===============================================================================
