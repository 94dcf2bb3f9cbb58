-------------------------------- MODULE Si1143 --------------------------------
(***************************************************************************)
(* The Si1143 light and proximity sensor of drivers/als/si1143.c, from the *)
(* end of probe on.  Its sysfs attributes are sequences of I2C transfers   *)
(* under update_lock, abandoned at the first that fails.  Its interrupt    *)
(* queues a work item that reads the interrupt status and writes it back   *)
(* to clear it, without the lock.  The chip holds its interrupt line while *)
(* the status is not zero; the driver asked for the edges of that line.    *)
(***************************************************************************)
EXTENDS Integers, Sequences

CONSTANTS
    Tasks,          \* tasks that use the attributes
    Gains,          \* what they write to proximity_adc_gain
    MaxFaults,      \* bound: transfers that fail
    MaxRaises,      \* bound: interrupt sources that fire
    MaxCalls,       \* bound: uses of the attributes
    MaxSuspends     \* bound: suspends of the system

ASSUME Si1143Assumption ==
    /\ "none" \notin Tasks
    /\ Gains \subseteq Nat
    /\ MaxFaults \in Nat /\ MaxRaises \in Nat /\ MaxCalls \in Nat /\ MaxSuspends \in Nat

MaxPsAdcGain == 4       \* SI1143_MAX_PS_ADC_GAIN
DefaultPsAdcGain == 2   \* SI1143_DEFAULT_PS_ADC_GAIN
DefaultAlsVsAdcGain == 3
Sources == {"als", "ps1"}

VARIABLES
    chip,       \* the registers the driver reads or writes
    lock,       \* the owner of update_lock, or "none"
    task,       \* what each task is doing
    status,     \* the chip's interrupt status
    edge,       \* an edge of the interrupt line is latched
    queued,     \* the work item is queued
    busy,       \* the work item is executing
    results,    \* the status it has read
    system,     \* "running", "suspending", "asleep"
    armed,      \* history: a write of the proximity threshold has succeeded
    missed,     \* history: why an interrupt may stay pending, since none was
    faults, raises, calls, suspends     \* history: counters

irqVars == <<status, edge, queued, busy, results>>
counters == <<faults, raises, calls, suspends>>
vars == <<chip, lock, task, irqVars, system, armed, missed, counters>>

NoCall == [op |-> "none", arg |-> 0, step |-> 1, read |-> {}]

\* probe has initialised the chip: nothing enabled, the gain of the visible
\* light written last.
Init ==
    /\ chip = [enable |-> {}, mode |-> {}, param |-> DefaultAlsVsAdcGain,
               gain |-> DefaultPsAdcGain, auto |-> FALSE]
    /\ lock = "none"
    /\ task = [t \in Tasks |-> NoCall]
    /\ status = {}
    /\ edge = FALSE
    /\ queued = FALSE
    /\ busy = FALSE
    /\ results = {}
    /\ system = "running"
    /\ armed = FALSE
    /\ missed = {}
    /\ faults = 0 /\ raises = 0 /\ calls = 0 /\ suspends = 0

-----------------------------------------------------------------------------

\* The transfers of each attribute.  Registers no property looks at (the
\* thresholds and the rates, the measurements) are only kept as transfers.
SetProxTh == <<"write", "read_enable", "write_enable", "read_mode", "write_mode",
               "write", "write", "write_auto">>
SetAlsSpectrum == <<"read_mode", "write_mode", "read_enable", "write_enable">>
SetProxGain == <<"write_param", "command_gain">>
GetProxGain == <<"command", "read">>
SetAlsTh == <<"write">>
GetAlsTh == <<"read">>      \* also the proximity threshold and the spectrum
Show == <<"command", "read">>

Transfers ==
    [set_prox_th |-> SetProxTh, set_als_spectrum |-> SetAlsSpectrum,
     set_prox_gain |-> SetProxGain, get_prox_gain |-> GetProxGain,
     set_als_th |-> SetAlsTh, get_als_th |-> GetAlsTh, show |-> Show]

\* Mutant of Clamp: the gain is limited to what the part is said to stand.
ClampFirst(g) == IF g > MaxPsAdcGain + 1 THEN MaxPsAdcGain + 1 ELSE g

\* The gain becomes a u8 when it is passed on, and is then limited.
Clamp(g) ==
    LET u8 == g % 256 IN IF u8 < MaxPsAdcGain THEN u8 ELSE MaxPsAdcGain

\* IRQ_MODE1 as a set: "ps1", and for the light "als" with "ir" for infrared.
Spectrum(mode, visible) ==
    (mode \ {"als", "ir"}) \cup (IF visible # 0 THEN {"als"} ELSE {"als", "ir"})

NewMode(c) ==
    IF c.op = "set_prox_th" THEN c.read \cup {"ps1"} ELSE Spectrum(c.read, c.arg)
NewEnable(c) ==
    c.read \cup (IF c.op = "set_prox_th" THEN {"ps1"} ELSE {"als"})

\* What a transfer does to the chip.
Effect(c, transfer) ==
    CASE transfer = "write_enable" -> [chip EXCEPT !.enable = NewEnable(c)]
      [] transfer = "write_mode"   -> [chip EXCEPT !.mode = NewMode(c)]
      [] transfer = "write_auto"   -> [chip EXCEPT !.auto = TRUE]
      [] transfer = "write_param"  -> [chip EXCEPT !.param = Clamp(c.arg)]
      [] transfer = "command_gain" -> [chip EXCEPT !.gain = chip.param]
      [] OTHER -> chip

Reads(c, transfer) ==
    CASE transfer = "read_enable" -> chip.enable
      [] transfer = "read_mode"   -> chip.mode
      [] OTHER -> c.read

Arguments(op) ==
    CASE op = "set_prox_gain" -> Gains
      [] op = "set_als_spectrum" -> {0, 1}
      [] OTHER -> {0}

\* Mutant of Call: the attribute does not take update_lock.
CallUnlocked(t, op, arg) ==
    /\ system = "running"
    /\ task[t].op = "none"
    /\ calls < MaxCalls
    /\ calls' = calls + 1
    /\ task' = [task EXCEPT ![t] = [op |-> op, arg |-> arg, step |-> 1, read |-> {}]]
    /\ UNCHANGED <<chip, lock, irqVars, system, armed, missed, faults, raises, suspends>>

\* A task enters an attribute and takes update_lock.
Call(t, op, arg) ==
    /\ system = "running"
    /\ task[t].op = "none"
    /\ lock = "none"
    /\ calls < MaxCalls
    /\ calls' = calls + 1
    /\ lock' = t
    /\ task' = [task EXCEPT ![t] = [op |-> op, arg |-> arg, step |-> 1, read |-> {}]]
    /\ UNCHANGED <<chip, irqVars, system, armed, missed, faults, raises, suspends>>

\* A transfer succeeds; after the last one the lock is released.
Transfer(t) ==
    LET c == task[t]
        transfer == Transfers[c.op][c.step]
        last == c.step = Len(Transfers[c.op])
    IN  /\ c.op # "none"
        /\ chip' = Effect(c, transfer)
        /\ task' = [task EXCEPT ![t] =
                       IF last THEN NoCall
                       ELSE [c EXCEPT !.step = @ + 1, !.read = Reads(c, transfer)]]
        /\ lock' = IF last THEN "none" ELSE lock
        /\ armed' = (armed \/ (last /\ c.op = "set_prox_th"))
        /\ UNCHANGED <<irqVars, system, missed, counters>>

\* A transfer fails; the attribute returns its error.
TransferFails(t) ==
    /\ task[t].op # "none"
    /\ faults < MaxFaults
    /\ faults' = faults + 1
    /\ task' = [task EXCEPT ![t] = NoCall]
    /\ lock' = "none"
    /\ UNCHANGED <<chip, irqVars, system, armed, missed, raises, calls, suspends>>

-----------------------------------------------------------------------------

\* A source fires: its status bit is set and, if it is the first, the line
\* changes.  Proximity is measured once it runs autonomously.
Raise(s) ==
    /\ system = "running"
    /\ s \in chip.enable /\ s \in chip.mode
    /\ s = "ps1" => chip.auto
    /\ s \notin status
    /\ raises < MaxRaises
    /\ raises' = raises + 1
    /\ status' = status \cup {s}
    /\ edge' = (edge \/ status = {})
    /\ UNCHANGED <<chip, lock, task, queued, busy, results, system, armed, missed, faults, calls, suspends>>

\* Mutant of si1143_irq: what was queued is cancelled and not queued anew.
IrqOnlyCancels ==
    /\ edge
    /\ system # "asleep"
    /\ edge' = FALSE
    /\ queued' = ~queued
    /\ UNCHANGED <<chip, lock, task, status, busy, results, system, armed, missed, counters>>

\* The interrupt cancels what is queued and queues it anew.
si1143_irq ==
    /\ edge
    /\ system # "asleep"
    /\ edge' = FALSE
    /\ queued' = TRUE
    /\ UNCHANGED <<chip, lock, task, status, busy, results, system, armed, missed, counters>>

\* The work item reads the status; an error is taken for a status.
WorkRead ==
    /\ queued
    /\ ~busy
    /\ system # "asleep"
    /\ queued' = FALSE
    /\ busy' = TRUE
    /\ \/ /\ results' = status
          /\ UNCHANGED <<faults, missed>>
       \/ /\ faults < MaxFaults
          /\ faults' = faults + 1
          /\ missed' = missed \cup {"fault"}
          /\ results' \in SUBSET Sources
    /\ UNCHANGED <<chip, lock, task, status, edge, system, armed, raises, calls, suspends>>

\* It writes back what it read, which clears those bits.
WorkWrite ==
    /\ busy
    /\ system # "asleep"
    /\ busy' = FALSE
    /\ results' = {}
    /\ \/ /\ status' = status \ results
          /\ edge' = (edge \/ (status # {} /\ status' = {}))
          /\ missed' = IF status' = {} THEN {} ELSE missed \cup {"late"}
          /\ UNCHANGED faults
       \/ /\ faults < MaxFaults
          /\ faults' = faults + 1
          /\ missed' = missed \cup {"fault"}
          /\ UNCHANGED <<status, edge>>
    /\ UNCHANGED <<chip, lock, task, queued, system, armed, raises, calls, suspends>>

\* suspend cancels the work item and waits for it; resume does nothing.
si1143_suspend ==
    /\ system = "running"
    /\ \A t \in Tasks : task[t].op = "none"
    /\ ~busy
    /\ suspends < MaxSuspends
    /\ suspends' = suspends + 1
    /\ system' = "suspending"
    /\ queued' = FALSE
    /\ missed' = missed \cup (IF queued THEN {"cancelled"} ELSE {})
    /\ UNCHANGED <<chip, lock, task, status, edge, busy, results, armed, faults, raises, calls>>

Sleep ==
    /\ system = "suspending"
    /\ system' = "asleep"
    /\ UNCHANGED <<chip, lock, task, irqVars, armed, missed, counters>>

si1143_resume ==
    /\ system = "asleep"
    /\ system' = "running"
    /\ UNCHANGED <<chip, lock, task, irqVars, armed, missed, counters>>

Attributes ==
    \E t \in Tasks :
        \/ \E op \in DOMAIN Transfers : \E arg \in Arguments(op) : Call(t, op, arg)
        \/ Transfer(t)
        \/ TransferFails(t)

Interrupts == (\E s \in Sources : Raise(s)) \/ si1143_irq \/ WorkRead \/ WorkWrite

Pm == si1143_suspend \/ Sleep \/ si1143_resume

Next == Attributes \/ Interrupts \/ Pm

Spec == Init /\ [][Next]_vars

\* A latched edge is taken, queued work is executed, a sleeping system wakes.
FairSpec ==
    /\ Spec
    /\ WF_vars(si1143_irq)
    /\ WF_vars(WorkRead)
    /\ WF_vars(WorkWrite)
    /\ WF_vars(Sleep)
    /\ WF_vars(si1143_resume)

-----------------------------------------------------------------------------

\* Every variable keeps its type.
TypeOK ==
    /\ chip \in [enable : SUBSET Sources, mode : SUBSET {"als", "ir", "ps1"},
                 param : 0..255, gain : 0..255, auto : BOOLEAN]
    /\ lock \in Tasks \cup {"none"}
    /\ \A t \in Tasks :
           /\ task[t].op \in DOMAIN Transfers \cup {"none"}
           /\ task[t].op # "none" => task[t].step \in 1..Len(Transfers[task[t].op])
    /\ status \subseteq Sources
    /\ edge \in BOOLEAN
    /\ queued \in BOOLEAN
    /\ busy \in BOOLEAN
    /\ results \subseteq Sources
    /\ system \in {"running", "suspending", "asleep"}
    /\ armed \in BOOLEAN
    /\ missed \subseteq {"late", "cancelled", "fault"}

\* The gain that might damage the part is never programmed: not by a large
\* number, nor by a parameter left in PARAM_WR for another command.
GainSafe == chip.gain <= MaxPsAdcGain

\* Once a write of the proximity threshold succeeded, proximity interrupts are
\* enabled and stay so, whatever the attributes that share the registers do.
ThresholdStaysArmed ==
    armed => "ps1" \in chip.enable /\ "ps1" \in chip.mode /\ chip.auto

\* The status is pending, the line is held, and no edge can come any more.
Stuck == status # {} /\ ~edge /\ ~queued /\ ~busy

\* That happens only if a source fired between the read and the write-back, the
\* work was cancelled by a suspend, or a transfer failed.
StuckOnlyWhenMissed == Stuck => missed # {}

\* An interrupt is cleared in the end, unless one of those three happened.
InterruptsServed == status # {} ~> (status = {} \/ missed # {})
===============================================================================
