------------------------------ MODULE AdbsA330 ------------------------------
(***************************************************************************)
(* The motion path of the ring driver, drivers/input/misc/adbs-a330.c: the *)
(* optical sensor, its edge-triggered interrupt, the work item that drains *)
(* the sensor over I2C, the 60 Hz timer that reports to the input core and *)
(* the two sysfs attributes, interleaved as on the single preemptible CPU  *)
(* of the thermostat: the work item sleeps in every I2C transfer, so the   *)
(* interrupt, the timer, sysfs writers and the ring itself run in between. *)
(***************************************************************************)
EXTENDS Integers

CONSTANTS
    Deltas,         \* what one movement adds to the sensor: [x : Int, y : Int]
    MaxMoves,       \* bound: movements of the ring
    MaxFaults,      \* bound: failed I2C reads
    MaxWrites       \* bound: sysfs writes

ASSUME DeltasAssumption == Deltas \subseteq [x : Int, y : Int]
ASSUME BoundsAssumption == MaxMoves \in Nat /\ MaxFaults \in Nat /\ MaxWrites \in Nat

ADBS_A330_DELTA_X == 0
ADBS_A330_DELTA_Y == 1
ADBS_A330_DIRECTION_NEG == -1
ADBS_A330_DIRECTION_POS == 1

\* The attributes take any integer, and keep an uninitialised one when the
\* text does not parse; one value that is no enumerator stands for the rest.
Modes == {ADBS_A330_DELTA_X, ADBS_A330_DELTA_Y, 2}
Directions == {ADBS_A330_DIRECTION_NEG, ADBS_A330_DIRECTION_POS, 0}

VARIABLES
    reg,                    \* the sensor's DELTA_X and DELTA_Y registers
    edge,                   \* a falling edge of the motion line, not yet handled
    bound,                  \* the interrupt is requested, timer and sysfs are up
    wakeups,                \* wakeup events reported to the PM core
    pending,                \* the work item is queued
    pc,                     \* where the work handler is
    val_x,                  \* work handler: last X byte, sign-extended
    delta,                  \* work handler: delta_x and delta_y
    accumulatedPosition,
    lastPositionSent,
    direction,
    mode,
    delivered,              \* history: sum of the REL_X events
    moved,                  \* history: all motion of the ring
    moves,                  \* history: number of movements
    faults,                 \* history: number of failed reads
    writes,                 \* history: number of sysfs writes
    missed                  \* history: why an edge may have been missed

sensor == <<reg, edge, moved, moves>>
handler == <<pc, val_x, delta>>
position == <<accumulatedPosition, lastPositionSent, delivered>>
settings == <<direction, mode, writes>>

vars == <<sensor, bound, wakeups, pending, handler, position, settings, faults, missed>>

Zero == [x |-> 0, y |-> 0]

Plus(u, v) == [x |-> u.x + v.x, y |-> u.y + v.y]

Byte == 0..255
Int8 == -128..127

\* The byte the chip sends for a register, and the handler's
\* (int8_t) ((val << 24) >> 24).
ToByte(r) == r % 256
SignExtend(b) == IF b < 128 THEN b ELSE b - 256

\* The axis that counts.
Axis(m) == IF m = ADBS_A330_DELTA_X THEN "x" ELSE "y"

Signed(d, dir) == IF dir = ADBS_A330_DIRECTION_NEG THEN -d ELSE d

-----------------------------------------------------------------------------

\* The chip has just been reset by adbs_a330_init_client.
Init ==
    /\ reg = Zero
    /\ edge = FALSE
    /\ bound = FALSE
    /\ wakeups = 0
    /\ pending = FALSE
    /\ pc = "idle"
    /\ val_x = 0
    /\ delta = Zero
    /\ accumulatedPosition = 0
    /\ lastPositionSent = 0
    /\ direction \in {ADBS_A330_DIRECTION_NEG, ADBS_A330_DIRECTION_POS}
    /\ mode \in {ADBS_A330_DELTA_X, ADBS_A330_DELTA_Y}
    /\ delivered = 0
    /\ moved = Zero
    /\ moves = 0
    /\ faults = 0
    /\ writes = 0
    /\ missed = {}

\* The tail of probe: positions, work item, interrupt, timer and sysfs group.
probe ==
    /\ ~bound
    /\ bound' = TRUE
    /\ accumulatedPosition' = 0
    /\ lastPositionSent' = 0
    /\ UNCHANGED <<sensor, wakeups, pending, handler, delivered, settings, faults, missed>>

\* The ring moves.  The motion line is low while a register holds data, and
\* the interrupt is edge triggered: only the movement that pulls the line low
\* raises it, and only once it is requested.
Move(d) ==
    LET r == Plus(reg, d)
        unarmed == ~bound /\ r # Zero
        masked == pc = "readY" /\ val_x = 0 /\ reg.y # 0 /\ r.y = 0 /\ r.x # 0
    IN  /\ moves < MaxMoves
        /\ r.x \in Int8 /\ r.y \in Int8
        /\ reg' = r
        /\ moved' = Plus(moved, d)
        /\ moves' = moves + 1
        /\ edge' = (edge \/ (bound /\ reg = Zero /\ r # Zero))
        /\ missed' = missed \cup (IF unarmed THEN {"unarmed"} ELSE {})
                            \cup (IF masked THEN {"masked"} ELSE {})
        /\ UNCHANGED <<bound, wakeups, pending, handler, position, settings, faults>>

\* The interrupt handler: report a wakeup event, then queue the work item.
\* Its timer is never armed (the delay is 0), so the cancel before the queueing
\* finds nothing, and queueing an item that is queued changes nothing.
adbs_a330_irq ==
    /\ edge
    /\ edge' = FALSE
    /\ wakeups' = wakeups + 1
    /\ pending' = TRUE
    /\ UNCHANGED <<reg, moved, moves, bound, handler, position, settings, faults, missed>>

\* The workqueue starts the handler; from here on the item can be queued again.
WorkStart ==
    /\ pending
    /\ pc = "idle"
    /\ pending' = FALSE
    /\ pc' = "readX"
    /\ delta' = Zero
    /\ UNCHANGED <<sensor, bound, wakeups, val_x, position, settings, faults, missed>>

\* A successful read of a register clears it.
ReadDeltaX ==
    LET val == SignExtend(ToByte(reg.x))
    IN  /\ pc = "readX"
        /\ val_x' = val
        /\ delta' = [delta EXCEPT !.x = @ + val]
        /\ reg' = [reg EXCEPT !.x = 0]
        /\ pc' = "readY"
        /\ UNCHANGED <<edge, moved, moves, bound, wakeups, pending, position, settings, faults, missed>>

\* Mutant of ReadDeltaY: one round of reads, no loop.
ReadDeltaYOnce ==
    LET val == SignExtend(ToByte(reg.y))
    IN  /\ pc = "readY"
        /\ delta' = [delta EXCEPT !.y = @ + val]
        /\ reg' = [reg EXCEPT !.y = 0]
        /\ pc' = "accumulate"
        /\ UNCHANGED <<edge, moved, moves, bound, wakeups, pending, val_x, position, settings, faults, missed>>

\* The loop ends when both bytes of one round are zero.
ReadDeltaY ==
    LET val == SignExtend(ToByte(reg.y))
    IN  /\ pc = "readY"
        /\ delta' = [delta EXCEPT !.y = @ + val]
        /\ reg' = [reg EXCEPT !.y = 0]
        /\ pc' = IF val_x = 0 /\ val = 0 THEN "accumulate" ELSE "readX"
        /\ UNCHANGED <<edge, moved, moves, bound, wakeups, pending, val_x, position, settings, faults, missed>>

\* A read fails, before or after the chip cleared the register: the handler
\* returns and what it had summed up is gone.
ReadFails ==
    /\ pc \in {"readX", "readY"}
    /\ faults < MaxFaults
    /\ reg' \in {reg, IF pc = "readX" THEN [reg EXCEPT !.x = 0] ELSE [reg EXCEPT !.y = 0]}
    /\ pc' = "idle"
    /\ delta' = Zero
    /\ faults' = faults + 1
    /\ missed' = missed \cup {"fault"}
    /\ UNCHANGED <<edge, moved, moves, bound, wakeups, pending, val_x, position, settings>>

\* Mutant of Accumulate: assigns where the code adds.
AccumulateOverwrites ==
    /\ pc = "accumulate"
    /\ accumulatedPosition' = delta[Axis(mode)]
    /\ delta' = Zero
    /\ pc' = "idle"
    /\ UNCHANGED <<sensor, bound, wakeups, pending, val_x, lastPositionSent, delivered, settings, faults, missed>>

\* The handler ends: the sum of the selected axis counts, the other is dropped.
Accumulate ==
    /\ pc = "accumulate"
    /\ accumulatedPosition' = accumulatedPosition + delta[Axis(mode)]
    /\ delta' = Zero
    /\ pc' = "idle"
    /\ UNCHANGED <<sensor, bound, wakeups, pending, val_x, lastPositionSent, delivered, settings, faults, missed>>

\* Mutant of adbs_a330_timer: reports the position, not the difference.
TimerReportsPosition ==
    /\ bound
    /\ accumulatedPosition # lastPositionSent
    /\ delivered' = delivered + Signed(accumulatedPosition, direction)
    /\ lastPositionSent' = accumulatedPosition
    /\ UNCHANGED <<sensor, bound, wakeups, pending, handler, accumulatedPosition, settings, faults, missed>>

\* Mutant of adbs_a330_timer: turns back are not reported.
TimerForwardOnly ==
    /\ bound
    /\ accumulatedPosition > lastPositionSent
    /\ delivered' = delivered + Signed(accumulatedPosition - lastPositionSent, direction)
    /\ lastPositionSent' = accumulatedPosition
    /\ UNCHANGED <<sensor, bound, wakeups, pending, handler, accumulatedPosition, settings, faults, missed>>

\* The timer, a softirq: when there is nothing to report it only re-arms itself.
adbs_a330_timer ==
    /\ bound
    /\ accumulatedPosition # lastPositionSent
    /\ delivered' = delivered + Signed(accumulatedPosition - lastPositionSent, direction)
    /\ lastPositionSent' = accumulatedPosition
    /\ UNCHANGED <<sensor, bound, wakeups, pending, handler, accumulatedPosition, settings, faults, missed>>

adbs_a330_set_direction(new) ==
    /\ bound
    /\ writes < MaxWrites
    /\ direction' = new
    /\ writes' = writes + 1
    /\ UNCHANGED <<sensor, bound, wakeups, pending, handler, position, mode, faults, missed>>

adbs_a330_set_mode(new) ==
    /\ bound
    /\ writes < MaxWrites
    /\ mode' = new
    /\ writes' = writes + 1
    /\ UNCHANGED <<sensor, bound, wakeups, pending, handler, position, direction, faults, missed>>

Next ==
    \/ probe
    \/ \E d \in Deltas : Move(d)
    \/ adbs_a330_irq
    \/ WorkStart
    \/ ReadDeltaX
    \/ ReadDeltaY
    \/ ReadFails
    \/ Accumulate
    \/ adbs_a330_timer
    \/ \E new \in Directions : adbs_a330_set_direction(new)
    \/ \E new \in Modes : adbs_a330_set_mode(new)

Spec == Init /\ [][Next]_vars

(***************************************************************************)
(* The CPU keeps running what is runnable: a latched interrupt is taken, a *)
(* queued work item is started and executed, the timer keeps firing.  The  *)
(* ring need not move, reads need not fail and nobody need write to sysfs. *)
(***************************************************************************)
Fairness ==
    /\ WF_vars(probe)
    /\ WF_vars(adbs_a330_irq)
    /\ WF_vars(WorkStart)
    /\ WF_vars(ReadDeltaX)
    /\ WF_vars(ReadDeltaY)
    /\ WF_vars(Accumulate)
    /\ WF_vars(adbs_a330_timer)

FairSpec == Spec /\ Fairness

-----------------------------------------------------------------------------

\* Every variable keeps its type; the registers keep to eight bits.
TypeOK ==
    /\ reg \in [x : Int8, y : Int8]
    /\ edge \in BOOLEAN
    /\ bound \in BOOLEAN
    /\ wakeups \in Nat
    /\ pending \in BOOLEAN
    /\ pc \in {"idle", "readX", "readY", "accumulate"}
    /\ val_x \in Int8
    /\ delta \in [x : Int, y : Int]
    /\ accumulatedPosition \in Int
    /\ lastPositionSent \in Int
    /\ direction \in Directions
    /\ mode \in Modes
    /\ delivered \in Int
    /\ moved \in [x : Int, y : Int]
    /\ moves \in 0..MaxMoves
    /\ faults \in 0..MaxFaults
    /\ writes \in 0..MaxWrites
    /\ missed \subseteq {"unarmed", "masked", "fault"}

\* End to end: while no read has failed and no attribute has been written,
\* motion of the ring on the selected axis is where the driver can account
\* for it: in the sensor, in the handler's sum, accumulated and waiting for
\* the timer, or delivered to the input core with the direction's sign.
MotionConserved ==
    faults = 0 /\ writes = 0 =>
        LET a == Axis(mode)
        IN  moved[a] = reg[a] + delta[a] + (accumulatedPosition - lastPositionSent)
                              + Signed(delivered, direction)

\* The sensor holds motion, its line is low, and nothing will read it: with
\* an edge-triggered interrupt the ring is dead from here on.
Stranded ==
    /\ bound
    /\ reg # Zero
    /\ ~edge /\ ~pending
    /\ pc \in {"idle", "accumulate"}

\* The drain loop leaves motion behind in three cases only: the line was
\* already low when the interrupt was requested, a read failed, or between
\* the two reads of a round the Y register returned to zero under a movement
\* while X had become non-zero, so that the round looked empty.
StrandedOnlyWhenMissed == Stranded => missed # {}

\* Once stranded, always stranded: nothing in the driver polls the sensor, so
\* no later movement, interrupt, timer tick or write recovers it, unless the
\* ring itself turns back to exactly where the line goes high.
StrandedStays == [][Stranded /\ reg' # Zero => Stranded']_vars

\* All motion the sensor has seen has been read and reported.
Quiet ==
    /\ reg = Zero
    /\ delta = Zero
    /\ accumulatedPosition = lastPositionSent

\* A movement of the ring is eventually read, accumulated and reported, or
\* the driver is stranded in one of the ways above.
MotionReported == [](~Quiet => <>(Quiet \/ Stranded))

Delivery == INSTANCE MotionDelivery WITH
    moved <- moved,
    unread <- Plus(reg, delta),
    axis <- Axis(mode),
    owed <- accumulatedPosition - lastPositionSent,
    reported <- lastPositionSent,
    faults <- faults

\* The driver implements the promise: interrupt, work item and timer together
\* lose and duplicate nothing that MotionDelivery does not allow.
DeliverySpec == Delivery!Spec
=============================================================================
