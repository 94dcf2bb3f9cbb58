------------------------------- MODULE OmapPwm -------------------------------
(***************************************************************************)
(* The generic PWM of arch/arm/plat-omap/pwm.c, which drives an output     *)
(* from one of the OMAP's dual-mode timers.  A PWM is the record of its    *)
(* entry in the list and of its timer; the operations are functions of     *)
(* that record, called by the one client that has requested it.            *)
(***************************************************************************)
EXTENDS Integers

CONSTANTS
    ClockRate,          \* of the timer's source, in Hz
    SecondInNs,         \* nanoseconds per second, scaled down for checking
    CounterBits         \* width of the timer's counter, of an int and of an unsigned: 32

CounterModulus == 2^CounterBits

\* DM_TIMER_LOAD_PWM_MIN: two ticks before the counter overflows.
LoadMin == CounterModulus - 3

ASSUME PwmAssumption ==
    /\ ClockRate \in Nat
    /\ SecondInNs \in Nat \ {0}
    /\ CounterBits \in Nat \ {0, 1}
    /\ CounterModulus \in Nat /\ LoadMin \in Nat
    /\ ClockRate < CounterModulus
    /\ 2 * SecondInNs < CounterModulus

\* What an unsigned and an int hold of a number: they wrap.
Unsigned(n) == n % CounterModulus
Signed(n) ==
    IF 2 * Unsigned(n) < CounterModulus THEN Unsigned(n) ELSE Unsigned(n) - CounterModulus

\* The counter value from which a period of ns remains until overflow; the cycles
\* are computed with twice the width, in which an ns below zero wraps.
pwm_calc_value(ns) ==
    Unsigned(LoadMin - ((ClockRate * ns) % (CounterModulus * CounterModulus)) \div SecondInNs)

\* A list entry with nothing bound to it.
Absent ==
    [listed |-> FALSE, use_count |-> 0, clock |-> FALSE, started |-> FALSE,
     load |-> 0, match |-> 0, compare |-> FALSE]

\* probe requests the timer, which leaves its clocks running, and lists the PWM.
Probed == [Absent EXCEPT !.listed = TRUE, !.clock = TRUE]

\* pwm_request finds the PWM in the list and not in use; otherwise it answers
\* -ENOENT or -EBUSY.
Requestable(pwm) == pwm.listed /\ pwm.use_count = 0

pwm_request(pwm) == [pwm EXCEPT !.use_count = @ + 1]

pwm_free(pwm) == [pwm EXCEPT !.use_count = IF @ > 0 THEN @ - 1 ELSE @]

\* Stop the timer, program it, and leave it stopped with its clocks off.
pwm_config(pwm, duty, period) ==
    [pwm EXCEPT !.clock = FALSE,
                !.started = FALSE,
                !.load = pwm_calc_value(period),
                !.match = pwm_calc_value(Signed(period - duty)),
                !.compare = duty # period]

pwm_enable(pwm) == [pwm EXCEPT !.clock = TRUE, !.started = TRUE]

pwm_disable(pwm) == [pwm EXCEPT !.clock = FALSE, !.started = FALSE]

PwmRecord ==
    [listed : BOOLEAN, use_count : {0, 1}, clock : BOOLEAN, started : BOOLEAN,
     load : 0..(CounterModulus - 1), match : 0..(CounterModulus - 1), compare : BOOLEAN]
==============================================================================
