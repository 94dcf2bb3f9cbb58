--------------------------- MODULE MotionDelivery ---------------------------
(***************************************************************************)
(* What the ring driver (drivers/input/misc/adbs-a330.c) promises, without *)
(* interrupts, work items, timers or I2C: motion of the ring is counted    *)
(* once, on the axis that is selected when it is collected, and everything *)
(* collected is reported.  Motion disappears in two ways only: it was on   *)
(* the axis that is not selected, or a transfer failed.                    *)
(***************************************************************************)
EXTENDS Integers

VARIABLES
    moved,      \* [x, y]: all motion of the ring so far
    unread,     \* [x, y]: motion not yet collected
    axis,       \* the axis that counts: "x" or "y"
    owed,       \* collected and not yet reported
    reported,   \* reported so far, before the direction's sign
    faults      \* number of failed transfers

vars == <<moved, unread, axis, owed, reported, faults>>

Zero == [x |-> 0, y |-> 0]

Init ==
    /\ moved = Zero
    /\ unread = Zero
    /\ axis \in {"x", "y"}
    /\ owed = 0
    /\ reported = 0
    /\ faults = 0

\* The ring turns: what moves becomes unread, nothing else does.
Move ==
    /\ moved'.x - moved.x = unread'.x - unread.x
    /\ moved'.y - moved.y = unread'.y - unread.y
    /\ UNCHANGED <<axis, owed, reported, faults>>

\* Some unread motion is taken; what was on the selected axis is owed.
Collect ==
    /\ owed' - owed = unread[axis] - unread'[axis]
    /\ UNCHANGED <<moved, axis, reported, faults>>

\* Everything owed is reported at once.
Report ==
    /\ reported' = reported + owed
    /\ owed' = 0
    /\ UNCHANGED <<moved, unread, axis, faults>>

\* A failed transfer may lose unread motion, of either axis.
Lose ==
    /\ faults' = faults + 1
    /\ UNCHANGED <<moved, axis, owed, reported>>

\* Another axis is selected; what is already owed stays owed.
Select ==
    /\ axis' \in {"x", "y"}
    /\ UNCHANGED <<moved, unread, owed, reported, faults>>

Next == Move \/ Collect \/ Report \/ Lose \/ Select

Spec == Init /\ [][Next]_vars
=============================================================================
