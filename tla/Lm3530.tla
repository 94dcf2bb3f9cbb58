-------------------------------- MODULE Lm3530 --------------------------------
(***************************************************************************)
(* The LM3530 backlight of drivers/video/backlight/lm3530_bl.c in manual   *)
(* mode, as the J49 board configures it.  The chip forgets its registers   *)
(* while its enable line is low.  update_status is serialised by the       *)
(* backlight core; the sysfs attributes of the driver read, change and     *)
(* write back a register with no lock at all.                              *)
(***************************************************************************)
EXTENDS Integers

CONSTANTS
    Writers,            \* tasks that write the ramp attributes
    Rates,              \* the ramp rates and laws they write
    MaxBrightness,      \* of the platform data
    DefaultBrightness,  \* of the platform data
    CommandLine,        \* brightness= of the kernel's command line; -1 if absent
    MaxFaults           \* bound: transfers of the I2C bus that fail

RegMax == 15            \* LM3530_REG_MAX, the length of the table of registers

ASSUME Lm3530Assumption ==
    /\ Rates \subseteq Nat /\ 0 \in Rates
    /\ MaxBrightness \in 0..255
    /\ DefaultBrightness \in 0..MaxBrightness
    /\ CommandLine \subseteq Int
    /\ MaxFaults \in Nat

VARIABLES
    system,     \* "boot", "running", "asleep", "off", "crashed"
    props,      \* of the backlight core: brightness, power, fb_blank
    pdata,      \* brt_ramp_rise, brt_ramp_fall and brt_ramp_law of the platform data
    drvdata,    \* enable and brightness of the driver's data
    chip,       \* the chip's registers
    task,       \* the tasks within an attribute's store
    faults,     \* history: number of failed transfers
    faulted,    \* history: a transfer failed since the registers were last written
    overlapped  \* history: two stores to one register overlapped since then

vars == <<system, props, pdata, drvdata, chip, task, faults, faulted, overlapped>>

\* The registers: how many of the table are written, the enable bit, and the
\* fields that change at run time.
ResetChip ==
    [written |-> 0, on |-> FALSE, law |-> 0, rise |-> 0, fall |-> 0, brt |-> 0]

Idle == [pc |-> "idle", attr |-> "law", rate |-> 0, other |-> 0]

Init ==
    /\ system = "boot"
    /\ props = [brightness |-> 0, power |-> "on", fb_blank |-> "on"]
    /\ pdata \in [rise : Rates, fall : Rates, law : Rates]
    /\ drvdata = [enable |-> FALSE, brightness |-> 0]
    /\ chip = ResetChip
    /\ task = [w \in Writers |-> Idle]
    /\ faults = 0
    /\ faulted = FALSE
    /\ overlapped = FALSE

-----------------------------------------------------------------------------

\* The first n registers of the table are written to a chip that has forgotten
\* them, in its order: the general configuration, the ramp rates as third, the
\* brightness, which is 0, as sixth.
Table(n) ==
    [written |-> n, on |-> FALSE,
     law |-> IF n >= 1 THEN pdata.law ELSE 0,
     rise |-> IF n >= 3 THEN pdata.rise ELSE 0,
     fall |-> IF n >= 3 THEN pdata.fall ELSE 0,
     brt |-> 0]

\* How far the table may get; other lengths leave the same fields written.
Prefixes == {0, 1, 3, 6, RegMax}

\* Then the general configuration again, with the enable bit.
TurnOn(c) == [c EXCEPT !.law = pdata.law, !.on = TRUE]

Fail(f) == IF f THEN 1 ELSE 0

\* lm3530_init_registers raises the enable line and notes it first, whatever
\* fails later.  The table is abandoned at the first transfer that fails; the
\* enable bit is written all the same, and its outcome is what is returned.
\* With the flag set already there is nothing to initialise.
Initialised(n, on) ==
    IF drvdata.enable THEN chip
    ELSE IF on THEN TurnOn(Table(n)) ELSE Table(n)

\* What is to be shown; the transfer takes a byte of it.
Effective(p) == IF p.power = "on" /\ p.fb_blank = "on" THEN p.brightness ELSE 0

\* lm3530_update_status in manual mode, with the outcomes of its transfers:
\* n registers of the table, the enable bit, the brightness.
lm3530_update_status(p) ==
    /\ props' = p
    /\ IF Effective(p) > MaxBrightness
       THEN /\ system' = "crashed"
            /\ UNCHANGED <<pdata, drvdata, chip, task, faults, faulted, overlapped>>
       ELSE \E n \in Prefixes, on \in BOOLEAN, brt \in BOOLEAN :
            LET fresh == ~drvdata.enable
                bad   == Fail(fresh /\ n < RegMax) + Fail(fresh /\ ~on)
                         + Fail((fresh => on) /\ ~brt)
                set   == (fresh => on) /\ brt
            IN  /\ ~fresh => n = RegMax /\ on
                /\ ~on => brt
                /\ faults + bad <= MaxFaults
                /\ faults' = faults + bad
                /\ faulted' = (bad > 0 \/ (faulted /\ ~fresh))
                /\ overlapped' = (overlapped /\ ~fresh)
                /\ chip' = [Initialised(n, on) EXCEPT !.brt = IF set THEN Effective(p) % 256 ELSE @]
                /\ drvdata' = [enable |-> TRUE,
                               brightness |-> IF set THEN Effective(p) ELSE drvdata.brightness]
                /\ system' = "running"
                /\ UNCHANGED <<pdata, task>>

\* The end of probe shows the brightness of the command line or of the board.
lm3530_probe(b) ==
    /\ system = "boot"
    /\ lm3530_update_status(
           [props EXCEPT !.brightness = IF b # -1 THEN b ELSE DefaultBrightness])

\* The backlight core.
backlight_store_brightness(b) ==
    /\ system = "running"
    /\ lm3530_update_status([props EXCEPT !.brightness = b])

backlight_store_power(v) ==
    /\ system = "running"
    /\ props.power # v
    /\ lm3530_update_status([props EXCEPT !.power = v])

fb_notifier_callback(v) ==
    /\ system = "running"
    /\ lm3530_update_status([props EXCEPT !.fb_blank = v])

-----------------------------------------------------------------------------

Register(attr) == IF attr = "law" THEN "general" ELSE "ramp"

\* The stores of the three attributes: remember the rate, ...
Store(w, attr, rate) ==
    /\ system = "running"
    /\ task[w].pc = "idle"
    /\ pdata' = [pdata EXCEPT ![attr] = rate]
    /\ task' = [task EXCEPT ![w] = [pc |-> "read", attr |-> attr, rate |-> rate, other |-> 0]]
    /\ overlapped' = (overlapped \/ \E v \in Writers :
                          task[v].pc # "idle" /\ Register(task[v].attr) = Register(attr))
    /\ UNCHANGED <<system, props, drvdata, chip, faults, faulted>>

\* The field that shares the register, as the chip has it.
Other(attr) ==
    CASE attr = "rise" -> chip.fall
      [] attr = "fall" -> chip.rise
      [] OTHER -> Fail(chip.on)

\* ... read the register, where an error is taken for a value, ...
RegisterRead(w) ==
    /\ system = "running"
    /\ task[w].pc = "read"
    /\ \/ /\ task' = [task EXCEPT ![w].pc = "write", ![w].other = Other(task[w].attr)]
          /\ UNCHANGED <<faults, faulted>>
       \/ /\ faults < MaxFaults
          /\ faults' = faults + 1
          /\ faulted' = TRUE
          /\ \E x \in IF task[w].attr = "law" THEN {0, 1} ELSE Rates :
                 task' = [task EXCEPT ![w].pc = "write", ![w].other = x]
    /\ UNCHANGED <<system, props, pdata, drvdata, chip, overlapped>>

\* Mutant of Merged: the other field of the register is not kept.
MergedAlone(t) ==
    CASE t.attr = "rise" -> [chip EXCEPT !.rise = t.rate, !.fall = 0]
      [] t.attr = "fall" -> [chip EXCEPT !.fall = t.rate, !.rise = 0]
      [] OTHER -> [chip EXCEPT !.law = t.rate]

Merged(t) ==
    CASE t.attr = "rise" -> [chip EXCEPT !.rise = t.rate, !.fall = t.other]
      [] t.attr = "fall" -> [chip EXCEPT !.fall = t.rate, !.rise = t.other]
      [] OTHER -> [chip EXCEPT !.law = t.rate, !.on = (t.other = 1)]

\* ... and write it back with the new field.
RegisterWrite(w) ==
    /\ system = "running"
    /\ task[w].pc = "write"
    /\ task' = [task EXCEPT ![w] = Idle]
    /\ \/ /\ chip' = Merged(task[w])
          /\ UNCHANGED <<faults, faulted>>
       \/ /\ faults < MaxFaults
          /\ faults' = faults + 1
          /\ faulted' = TRUE
          /\ UNCHANGED chip
    /\ UNCHANGED <<system, props, pdata, drvdata, overlapped>>

-----------------------------------------------------------------------------

\* Mutant of lm3530_suspend: the flag is not cleared with the line.
SuspendKeepsFlag ==
    /\ system = "running"
    /\ \A w \in Writers : task[w].pc = "idle"
    /\ system' = "asleep"
    /\ chip' = ResetChip
    /\ UNCHANGED <<props, pdata, drvdata, task, faults, faulted, overlapped>>

\* Tasks are frozen outside of system calls before a device is suspended.
lm3530_suspend ==
    /\ system = "running"
    /\ \A w \in Writers : task[w].pc = "idle"
    /\ system' = "asleep"
    /\ chip' = ResetChip
    /\ drvdata' = [drvdata EXCEPT !.enable = FALSE]
    /\ UNCHANGED <<props, pdata, task, faults, faulted, overlapped>>

lm3530_resume ==
    /\ system = "asleep"
    /\ lm3530_update_status(props)

\* shutdown drops the line; nothing raises it again.
lm3530_shutdown ==
    /\ system = "running"
    /\ system' = "off"
    /\ chip' = ResetChip
    /\ UNCHANGED <<props, pdata, drvdata, task, faults, faulted, overlapped>>

BacklightCore ==
    \/ \E b \in CommandLine : lm3530_probe(b)
    \/ \E b \in 0..MaxBrightness : backlight_store_brightness(b)
    \/ \E v \in {"on", "off"} : backlight_store_power(v) \/ fb_notifier_callback(v)

Attributes ==
    \E w \in Writers :
        \/ \E attr \in {"rise", "fall", "law"}, rate \in Rates : Store(w, attr, rate)
        \/ RegisterRead(w)
        \/ RegisterWrite(w)

Next == BacklightCore \/ Attributes \/ lm3530_suspend \/ lm3530_resume \/ lm3530_shutdown

Spec == Init /\ [][Next]_vars

-----------------------------------------------------------------------------

\* Every variable keeps its type.
TypeOK ==
    /\ system \in {"boot", "running", "asleep", "off", "crashed"}
    /\ props \in [brightness : Int, power : {"on", "off"}, fb_blank : {"on", "off"}]
    /\ pdata \in [rise : Rates, fall : Rates, law : Rates]
    /\ drvdata \in [enable : BOOLEAN, brightness : Int]
    /\ chip \in [written : 0..RegMax, on : BOOLEAN, law : Rates, rise : Rates, fall : Rates,
                 brt : 0..255]
    /\ task \in [Writers -> [pc : {"idle", "read", "write"}, attr : {"rise", "fall", "law"},
                             rate : Rates, other : Rates \cup {1}]]
    /\ faults \in 0..MaxFaults
    /\ faulted \in BOOLEAN
    /\ overlapped \in BOOLEAN

\* As long as no transfer failed, a running system has the whole table in the
\* chip and the backlight on at the brightness asked for, however often it was
\* suspended: the flag that skips initialisation is never stale.  A negative
\* number of the command line is the one brightness that is not shown as such.
ShownAsAsked ==
    system = "running" /\ ~faulted =>
        /\ chip.written = RegMax
        /\ chip.on
        /\ Effective(props) >= 0 => chip.brt = Effective(props)
        /\ drvdata.brightness = Effective(props)

\* The ramp settings userspace reads back are the chip's, also after a
\* suspend, unless a transfer failed or two stores to one register overlapped
\* since the registers were last initialised.
SettingsAgree ==
    system = "running" /\ ~faulted /\ ~overlapped =>
        \A attr \in {"rise", "fall", "law"} :
            (\A w \in Writers : task[w].pc # "idle" => Register(task[w].attr) # Register(attr))
                => chip[attr] = pdata[attr]
===============================================================================
