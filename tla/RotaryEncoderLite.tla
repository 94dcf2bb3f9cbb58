-------------------------- MODULE RotaryEncoderLite --------------------------
(***************************************************************************)
(* The first-generation ring, drivers/input/misc/rotary_encoder_lite.c: a  *)
(* flip-flop latches the edge of phase A, the interrupt counts it in the   *)
(* direction phase B then shows and clears the flip-flop, and a 60 Hz      *)
(* timer reports the difference of two eight-bit positions.                *)
(***************************************************************************)
EXTENDS Integers

CONSTANTS
    Directions,     \* the levels phase B takes; high counts backwards
    MaxClicks,      \* bound: clicks of the ring
    MaxOverruns,    \* bound: clicks that find the flip-flop set
    MaxEarly,       \* bound: clicks before the timer runs
    MaxMixed        \* bound: clicks after which the ring keeps its direction

ASSUME RotaryAssumption ==
    /\ Directions \subseteq {0, 1}
    /\ MaxClicks \in Nat /\ MaxOverruns \in Nat /\ MaxEarly \in Nat /\ MaxMixed \in Nat

VARIABLES
    stage,                  \* of probe: "quiet", "irq", "timer"
    flipflop,               \* level of the latch of phase A, wired to the interrupt
    edge,                   \* 1 while its rising edge is latched by the GPIO bank
    b,                      \* level of phase B
    accumulatedPosition,    \* uint8_t
    lastPositionSent,       \* uint8_t
    delivered,              \* history: sum of the REL_X events
    turned,                 \* history: net clicks since the interrupt is requested
    clicks,                 \* history: number of clicks
    unreported,             \* history: clicks counted since the last report
    discarded,              \* history: clicks counted and then reset by probe
    overruns,               \* history: clicks that met a flip-flop still set
    burst,                  \* history: "yes" once unreported left the range of int8_t
    early                   \* history: "yes" if the flip-flop was set before the request

latch == <<flipflop, edge, b>>
position == <<accumulatedPosition, lastPositionSent>>
history == <<turned, clicks, overruns, early>>
vars == <<stage, latch, position, delivered, unreported, discarded, burst, history>>

\* direction ? -1 : 1
Sign(level) == IF level # 0 THEN -1 ELSE 1

\* Arithmetic of uint8_t and the conversion to int8_t.
UInt8(n) == n % 256
ToInt8(n) == LET u == n % 256 IN IF u < 128 THEN u ELSE u - 256

\* kzalloc has cleared the positions; the flip-flop is as the board left it.
Init ==
    /\ stage = "quiet"
    /\ flipflop \in {0, 1}
    /\ edge = 0
    /\ b \in Directions
    /\ accumulatedPosition = 0
    /\ lastPositionSent = 0
    /\ delivered = 0
    /\ turned = 0
    /\ clicks = 0
    /\ unreported = 0
    /\ discarded = 0
    /\ overruns = 0
    /\ burst = "no"
    /\ early = "no"

\* The ring clicks: phase B takes its level and the flip-flop is set.  Only
\* the transition of the flip-flop raises the interrupt.
Click(level) ==
    LET armed == stage # "quiet"
    IN  /\ clicks < MaxClicks
        /\ stage # "timer" => clicks < MaxEarly
        /\ level # b => clicks < MaxMixed
        /\ armed /\ flipflop = 1 => overruns < MaxOverruns
        /\ clicks' = clicks + 1
        /\ b' = level
        /\ flipflop' = 1
        /\ edge' = IF armed /\ flipflop = 0 THEN 1 ELSE edge
        /\ overruns' = IF armed /\ flipflop = 1 THEN overruns + 1 ELSE overruns
        /\ turned' = IF armed THEN turned + Sign(level) ELSE turned
        /\ UNCHANGED <<stage, position, delivered, unreported, discarded, burst, early>>

\* probe drives the clear line to its inactive level, without a pulse, and
\* requests the interrupt.
request_irq ==
    /\ stage = "quiet"
    /\ stage' = "irq"
    /\ early' = IF flipflop = 1 THEN "yes" ELSE "no"
    /\ UNCHANGED <<latch, position, delivered, unreported, discarded, burst, turned, clicks, overruns>>

\* The rest of probe resets the positions, although the interrupt may already
\* have counted, and starts the timer.
StartTimer ==
    /\ stage = "irq"
    /\ stage' = "timer"
    /\ accumulatedPosition' = 0
    /\ lastPositionSent' = 0
    /\ discarded' = discarded + unreported
    /\ unreported' = 0
    /\ UNCHANGED <<latch, delivered, burst, history>>

\* Mutant of rotary_encoder_lite_irq: the flip-flop is not cleared.
IrqWithoutClear ==
    LET u == unreported + Sign(b)
    IN  /\ edge = 1
        /\ edge' = 0
        /\ accumulatedPosition' = UInt8(accumulatedPosition + Sign(b))
        /\ unreported' = u
        /\ burst' = IF u \in -128..127 THEN burst ELSE "yes"
        /\ UNCHANGED <<stage, flipflop, b, lastPositionSent, delivered, discarded, history>>

\* The interrupt: count in the direction of phase B, clear the flip-flop.
rotary_encoder_lite_irq ==
    LET u == unreported + Sign(b)
    IN  /\ edge = 1
        /\ edge' = 0
        /\ accumulatedPosition' = UInt8(accumulatedPosition + Sign(b))
        /\ flipflop' = 0
        /\ unreported' = u
        /\ burst' = IF u \in -128..127 THEN burst ELSE "yes"
        /\ UNCHANGED <<stage, b, lastPositionSent, delivered, discarded, history>>

\* Mutant of encoder_timer: the difference is not taken as int8_t.
TimerWithoutSign ==
    /\ stage = "timer"
    /\ accumulatedPosition # lastPositionSent
    /\ delivered' = delivered + (accumulatedPosition - lastPositionSent)
    /\ lastPositionSent' = accumulatedPosition
    /\ unreported' = 0
    /\ UNCHANGED <<stage, latch, accumulatedPosition, discarded, burst, history>>

\* The timer; with equal positions it only re-arms itself.
encoder_timer ==
    /\ stage = "timer"
    /\ accumulatedPosition # lastPositionSent
    /\ delivered' = delivered + ToInt8(accumulatedPosition - lastPositionSent)
    /\ lastPositionSent' = accumulatedPosition
    /\ unreported' = 0
    /\ UNCHANGED <<stage, latch, accumulatedPosition, discarded, burst, history>>

Next ==
    \/ \E level \in Directions : Click(level)
    \/ request_irq
    \/ StartTimer
    \/ rotary_encoder_lite_irq
    \/ encoder_timer

Spec == Init /\ [][Next]_vars

\* A latched interrupt is taken and the timer keeps firing.
FairSpec ==
    /\ Spec
    /\ WF_vars(request_irq)
    /\ WF_vars(StartTimer)
    /\ WF_vars(rotary_encoder_lite_irq)
    /\ WF_vars(encoder_timer)

-----------------------------------------------------------------------------

\* Every variable keeps its type; the positions stay within eight bits.
TypeOK ==
    /\ stage \in {"quiet", "irq", "timer"}
    /\ flipflop \in {0, 1}
    /\ edge \in {0, 1}
    /\ b \in {0, 1}
    /\ accumulatedPosition \in 0..255
    /\ lastPositionSent \in 0..255
    /\ delivered \in Int
    /\ turned \in Int
    /\ clicks \in 0..MaxClicks
    /\ unreported \in Int
    /\ discarded \in Int
    /\ overruns \in 0..MaxOverruns
    /\ burst \in {"no", "yes"}
    /\ early \in {"no", "yes"}

\* A latched edge is a click that is not counted yet.
Uncounted == IF edge = 1 THEN Sign(b) ELSE 0

\* As long as every click found the flip-flop cleared and no report had more
\* than an int8_t to say, wraparound of the eight-bit positions is harmless:
\* every click since the interrupt was requested is delivered, counted and
\* not yet reported, latched, or was counted before probe reset the positions.
ClicksConserved ==
    overruns = 0 /\ burst = "no" /\ early = "no" =>
        turned = delivered + ToInt8(accumulatedPosition - lastPositionSent)
                           + Uncounted + discarded

\* Whatever bursts occur, what userspace has been told and the last position
\* sent agree modulo 256: the error of a burst is a whole turn of the counter
\* and it is never followed by a drift.
DeliveredModulo == UInt8(delivered) = lastPositionSent

\* The flip-flop is set and nothing will clear it: no edge can come any more.
Stuck == stage # "quiet" /\ flipflop = 1 /\ edge = 0

\* That happens only if the flip-flop was set before the interrupt was
\* requested: probe raises the clear line but never pulses it.
StuckOnlyFromBoot == Stuck => early = "yes"

\* A click is eventually reported, unless the encoder was stuck from boot.
ClicksReported ==
    (flipflop = 1 \/ accumulatedPosition # lastPositionSent)
        ~> (early = "yes" \/ (flipflop = 0 /\ accumulatedPosition = lastPositionSent))
=============================================================================
