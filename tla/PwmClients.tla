------------------------------ MODULE PwmClients ------------------------------
(***************************************************************************)
(* The two clients of the OMAP PWM: the piezo of drivers/input/misc/       *)
(* pwm-beeper.c and the backlight of drivers/video/backlight/pwm_bl.c, as  *)
(* they are bound, used, suspended, resumed and unbound.                   *)
(***************************************************************************)
EXTENDS OmapPwm

CONSTANTS
    Wirings,            \* the PWMs a board may give the clients: [beeper, bl] to ids
    Pwms,               \* the PWM ids of the board's omap-pwm devices
    Tones,              \* the frequencies userspace asks for, in Hz; 0 is silence
    MaxBrightness,      \* of the backlight's platform data
    DefaultBrightness,  \* of the backlight's platform data
    CommandLine,        \* brightness= of the kernel's command line, any int; -1 if absent
    Period,             \* pwm_period_ns
    LowThreshold        \* lth_brightness of the platform data

\* A second of ticks, and the period of the backlight, fit the counter, and the
\* product of the board's maximum and period fits an unsigned.
ASSUME ClientAssumption ==
    /\ Wirings \subseteq [beeper : Pwms, bl : Pwms]
    /\ ClockRate <= LoadMin
    /\ (ClockRate * Period) \div SecondInNs <= LoadMin
    /\ Tones \subseteq Nat
    /\ MaxBrightness \in Nat \ {0}
    /\ DefaultBrightness \in 0..MaxBrightness
    /\ CommandLine \subseteq {b \in Int : Signed(b) = b}
    /\ Period \in Nat \ {0}
    /\ 2 * Period < CounterModulus
    /\ MaxBrightness * Period < CounterModulus
    /\ LowThreshold \in 0..MaxBrightness

VARIABLES
    wiring,     \* the board's platform data
    pwm,        \* the list of PWMs with their timers
    beeper,     \* state of the beeper's driver
    bl,         \* state of the backlight's driver and of the backlight core
    system,     \* "running", "freezing" (devices suspend), "asleep", "waking"
    ledStarted, \* history: the LED driver's start-up ran since the output was last off
    sleptLit,   \* history: the backlight was suspended while lit, and not blanked since
    raced,      \* history: a tone was asked for before the beeper's probe had ended
    halted      \* why the model stops: "no", an "assertion", or memory that is "dangling"

vars == <<wiring, pwm, beeper, bl, system, ledStarted, sleptLit, raced, halted>>

NoBeeper == [phase |-> "unbound", period |-> 0, suspended |-> FALSE]
NoBacklight ==
    [phase |-> "unbound", enabled |-> FALSE, brightness |-> 0, power |-> "on",
     fb_blank |-> "on", suspended |-> FALSE]

Init ==
    /\ wiring \in Wirings
    /\ pwm = [p \in Pwms |-> Absent]
    /\ beeper = NoBeeper
    /\ bl = NoBacklight
    /\ system = "running"
    /\ ledStarted = FALSE
    /\ sleptLit = FALSE
    /\ raced = FALSE
    /\ halted = "no"

Piezo == wiring.beeper
Light == wiring.bl

Running == system = "running" /\ halted = "no"

-----------------------------------------------------------------------------

omap_pwm_probe(p) ==
    /\ Running
    /\ ~pwm[p].listed
    /\ pwm' = [pwm EXCEPT ![p] = Probed]
    /\ UNCHANGED <<wiring, beeper, bl, system, ledStarted, sleptLit, raced, halted>>

\* The use count is not looked at: a client that holds the PWM is left with
\* freed memory, and nothing can be said of what follows.
omap_pwm_remove(p) ==
    /\ Running
    /\ pwm[p].listed
    /\ pwm' = [pwm EXCEPT ![p] = Absent]
    /\ halted' = IF pwm[p].use_count > 0 THEN "dangling" ELSE "no"
    /\ UNCHANGED <<wiring, beeper, bl, system, ledStarted, sleptLit, raced>>

-----------------------------------------------------------------------------

\* probe, up to the registration of the input device.
BeeperRegister ==
    /\ Running
    /\ beeper.phase = "unbound"
    /\ Requestable(pwm[Piezo])
    /\ pwm' = [pwm EXCEPT ![Piezo] = pwm_request(@)]
    /\ beeper' = [NoBeeper EXCEPT !.phase = "registered"]
    /\ raced' = FALSE
    /\ UNCHANGED <<wiring, bl, system, ledStarted, sleptLit, halted>>

\* The board's init fails: the PWM is freed as it is, and so is the input device
\* without being unregistered, so that the next event meets freed memory.
BeeperProbeFails ==
    /\ Running
    /\ beeper.phase = "registered"
    /\ pwm' = [pwm EXCEPT ![Piezo] = pwm_free(@)]
    /\ beeper' = NoBeeper
    /\ halted' = "dangling"
    /\ UNCHANGED <<wiring, bl, system, ledStarted, sleptLit, raced>>

\* Mutant of BeeperProbeEnds: hardware and software are not synchronised.
BeeperProbeTrusts ==
    /\ Running
    /\ beeper.phase = "registered"
    /\ beeper' = [beeper EXCEPT !.phase = "bound"]
    /\ UNCHANGED <<wiring, pwm, bl, system, ledStarted, sleptLit, raced, halted>>

\* The end of probe disables the PWM, which has its clocks on since it was probed.
BeeperProbeEnds ==
    /\ Running
    /\ beeper.phase = "registered"
    /\ pwm' = [pwm EXCEPT ![Piezo] = pwm_disable(@)]
    /\ beeper' = [beeper EXCEPT !.phase = "bound"]
    /\ UNCHANGED <<wiring, bl, system, ledStarted, sleptLit, raced, halted>>

\* HZ_TO_NANOSECONDS, with 0 for silence: beyond a GHz it is 0 as well.
TonePeriod(hz) == IF hz = 0 THEN 0 ELSE SecondInNs \div hz

Sound(p, period) ==
    LET set == pwm_config(p, period \div 2, period)
    IN  IF period = 0 THEN pwm_disable(set) ELSE pwm_enable(set)

pwm_beeper_event(hz) ==
    /\ Running
    /\ beeper.phase # "unbound"
    /\ pwm' = [pwm EXCEPT ![Piezo] = Sound(@, TonePeriod(hz))]
    /\ beeper' = [beeper EXCEPT !.period = TonePeriod(hz)]
    /\ raced' = (raced \/ beeper.phase = "registered")
    /\ UNCHANGED <<wiring, bl, system, ledStarted, sleptLit, halted>>

pwm_beeper_remove ==
    /\ Running
    /\ beeper.phase = "bound"
    /\ pwm' = [pwm EXCEPT ![Piezo] = pwm_free(pwm_disable(@))]
    /\ beeper' = NoBeeper
    /\ UNCHANGED <<wiring, bl, system, ledStarted, sleptLit, raced, halted>>

pwm_beeper_suspend ==
    /\ system = "freezing"
    /\ beeper.phase = "bound" /\ ~beeper.suspended
    /\ beeper' = [beeper EXCEPT !.suspended = TRUE]
    /\ pwm' = IF beeper.period # 0 THEN [pwm EXCEPT ![Piezo] = pwm_disable(@)] ELSE pwm
    /\ UNCHANGED <<wiring, bl, system, ledStarted, sleptLit, raced, halted>>

\* Mutant of pwm_beeper_resume: the PWM is not enabled again.
BeeperResumeSilent ==
    /\ system = "waking"
    /\ beeper.suspended
    /\ beeper' = [beeper EXCEPT !.suspended = FALSE]
    /\ UNCHANGED <<wiring, pwm, bl, system, ledStarted, sleptLit, raced, halted>>

pwm_beeper_resume ==
    /\ system = "waking"
    /\ beeper.suspended
    /\ beeper' = [beeper EXCEPT !.suspended = FALSE]
    /\ pwm' = IF beeper.period # 0 THEN [pwm EXCEPT ![Piezo] = Sound(@, beeper.period)] ELSE pwm
    /\ UNCHANGED <<wiring, bl, system, ledStarted, sleptLit, raced, halted>>

-----------------------------------------------------------------------------

\* The pulse for a step of brightness: linear, as the board has no ramp.  The period
\* is unsigned, and so is the product, also of a brightness below zero.
pwm_backlight_get_duty_ns(b) == Unsigned(b * Period) \div MaxBrightness

\* The duty that is programmed last, above the threshold the board names.
Duty(b) ==
    LET lth == LowThreshold * (Period \div MaxBrightness)
    IN  Signed(lth + Unsigned(b * (Period - lth)) \div MaxBrightness)

\* What is shown: nothing while the framebuffer or the backlight is blanked.
Effective(l) == IF l.power = "on" /\ l.fb_blank = "on" THEN l.brightness ELSE 0

\* Mutant of pwm_backlight_update_status: blanking leaves pb->enabled set.
UpdateKeepsEnabled(l) ==
    /\ pwm' = [pwm EXCEPT ![Light] = IF Effective(l) = 0 THEN pwm_disable(pwm_config(@, 0, Period))
                                     ELSE pwm_enable(pwm_config(@, Duty(Effective(l)), Period))]
    /\ bl' = [l EXCEPT !.enabled = @ \/ Effective(l) # 0]
    /\ ledStarted' = (Effective(l) # 0 /\ (ledStarted \/ ~l.enabled))
    /\ sleptLit' = (Effective(l) # 0 /\ sleptLit)
    /\ UNCHANGED halted

\* The LED driver's own start-up runs when the backlight was not enabled.
pwm_backlight_update_status(l) ==
    LET b == Effective(l)
    IN  IF b = 0
        THEN /\ pwm' = [pwm EXCEPT ![Light] = pwm_disable(pwm_config(@, 0, Period))]
             /\ bl' = [l EXCEPT !.enabled = FALSE]
             /\ ledStarted' = FALSE
             /\ sleptLit' = FALSE
             /\ UNCHANGED halted
        ELSE IF pwm_backlight_get_duty_ns(b) > Period
        THEN /\ halted' = "assertion"
             /\ bl' = l
             /\ UNCHANGED <<pwm, ledStarted, sleptLit>>
        ELSE /\ pwm' = [pwm EXCEPT ![Light] = pwm_enable(pwm_config(@, Duty(b), Period))]
             /\ bl' = [l EXCEPT !.enabled = TRUE]
             /\ ledStarted' = (ledStarted \/ ~l.enabled)
             /\ UNCHANGED <<sleptLit, halted>>

\* A failing probe frees the PWM and leaves it as it was.
pwm_backlight_request ==
    /\ Running
    /\ bl.phase = "unbound"
    /\ Requestable(pwm[Light])
    /\ pwm' = [pwm EXCEPT ![Light] = pwm_request(@)]
    /\ bl' = [NoBacklight EXCEPT !.phase = "requested"]
    /\ UNCHANGED <<wiring, beeper, system, ledStarted, sleptLit, raced, halted>>

pwm_backlight_probe(b) ==
    /\ Running
    /\ bl.phase = "requested"
    /\ pwm_backlight_update_status(
           [bl EXCEPT !.phase = "bound",
                      !.brightness = IF b # -1 THEN b ELSE DefaultBrightness])
    /\ UNCHANGED <<wiring, beeper, system, raced>>

pwm_backlight_probe_fails ==
    /\ Running
    /\ bl.phase = "requested"
    /\ pwm' = [pwm EXCEPT ![Light] = pwm_free(@)]
    /\ bl' = NoBacklight
    /\ UNCHANGED <<wiring, beeper, system, ledStarted, sleptLit, raced, halted>>

\* Mutant of backlight_store_brightness: the maximum is not looked at.
StoreUnchecked(b) ==
    /\ Running
    /\ bl.phase = "bound"
    /\ pwm_backlight_update_status([bl EXCEPT !.brightness = b])
    /\ UNCHANGED <<wiring, beeper, system, raced>>

\* The backlight core: writes of brightness, refused above the maximum, writes of
\* power, and blanking by the framebuffer.
backlight_store_brightness(b) ==
    /\ Running
    /\ bl.phase = "bound"
    /\ b <= MaxBrightness
    /\ pwm_backlight_update_status([bl EXCEPT !.brightness = b])
    /\ UNCHANGED <<wiring, beeper, system, raced>>

backlight_store_power(v) ==
    /\ Running
    /\ bl.phase = "bound"
    /\ bl.power # v
    /\ pwm_backlight_update_status([bl EXCEPT !.power = v])
    /\ UNCHANGED <<wiring, beeper, system, raced>>

\* Mutant of fb_notifier_callback: the blanking is noted and not acted upon.
FbNotifierOnlyNotes(v) ==
    /\ Running
    /\ bl.phase = "bound"
    /\ bl' = [bl EXCEPT !.fb_blank = v]
    /\ UNCHANGED <<wiring, pwm, beeper, system, ledStarted, sleptLit, raced, halted>>

fb_notifier_callback(v) ==
    /\ Running
    /\ bl.phase = "bound"
    /\ pwm_backlight_update_status([bl EXCEPT !.fb_blank = v])
    /\ UNCHANGED <<wiring, beeper, system, raced>>

pwm_backlight_remove ==
    /\ Running
    /\ bl.phase = "bound"
    /\ pwm' = [pwm EXCEPT ![Light] = pwm_free(pwm_disable(pwm_config(@, 0, Period)))]
    /\ bl' = NoBacklight
    /\ ledStarted' = FALSE
    /\ sleptLit' = FALSE
    /\ UNCHANGED <<wiring, beeper, system, raced, halted>>

\* suspend turns the output off and leaves pb->enabled as it is.
pwm_backlight_suspend ==
    /\ system = "freezing"
    /\ bl.phase = "bound" /\ ~bl.suspended
    /\ pwm' = [pwm EXCEPT ![Light] = pwm_disable(pwm_config(@, 0, Period))]
    /\ bl' = [bl EXCEPT !.suspended = TRUE]
    /\ ledStarted' = FALSE
    /\ sleptLit' = (sleptLit \/ pwm[Light].started)
    /\ UNCHANGED <<wiring, beeper, system, raced, halted>>

pwm_backlight_resume ==
    /\ system = "waking"
    /\ bl.suspended
    /\ pwm_backlight_update_status([bl EXCEPT !.suspended = FALSE])
    /\ UNCHANGED <<wiring, beeper, system, raced>>

-----------------------------------------------------------------------------

\* The PM core: tasks are frozen, every bound device is suspended, and the
\* system sleeps; it may also turn back half-way because some device refuses.
Suspended(d) == d.phase = "bound" => d.suspended
PmStep(from, to) ==
    /\ halted = "no"
    /\ system = from
    /\ system' = to
    /\ UNCHANGED <<wiring, pwm, beeper, bl, ledStarted, sleptLit, raced, halted>>
Freeze == beeper.phase # "registered" /\ bl.phase # "requested" /\ PmStep("running", "freezing")
Sleep == Suspended(beeper) /\ Suspended(bl) /\ PmStep("freezing", "asleep")
Abort == PmStep("freezing", "waking")
Wake == PmStep("asleep", "waking")
Thaw == ~beeper.suspended /\ ~bl.suspended /\ PmStep("waking", "running")

Beeper ==
    \/ BeeperRegister \/ BeeperProbeFails \/ BeeperProbeEnds \/ pwm_beeper_remove
    \/ pwm_beeper_suspend \/ pwm_beeper_resume
    \/ \E hz \in Tones : pwm_beeper_event(hz)

Backlight ==
    \/ pwm_backlight_request \/ pwm_backlight_probe_fails \/ pwm_backlight_remove
    \/ pwm_backlight_suspend \/ pwm_backlight_resume
    \/ \E v \in {"on", "off"} : backlight_store_power(v) \/ fb_notifier_callback(v)
    \/ \E b \in CommandLine : pwm_backlight_probe(b)
    \/ \E b \in 0..MaxBrightness + 1 : backlight_store_brightness(b)

Pm == Freeze \/ Sleep \/ Abort \/ Wake \/ Thaw

Next ==
    \/ \E p \in Pwms : omap_pwm_probe(p) \/ omap_pwm_remove(p)
    \/ Beeper
    \/ Backlight
    \/ Pm

Spec == Init /\ [][Next]_vars

-----------------------------------------------------------------------------

\* Every variable keeps its type; in particular no PWM has two users.
TypeOK ==
    /\ wiring \in Wirings
    /\ pwm \in [Pwms -> PwmRecord]
    /\ beeper \in [phase : {"unbound", "registered", "bound"}, period : Nat, suspended : BOOLEAN]
    /\ bl \in [phase : {"unbound", "requested", "bound"}, enabled : BOOLEAN,
               brightness : Int, power : {"on", "off"}, fb_blank : {"on", "off"},
               suspended : BOOLEAN]
    /\ system \in {"running", "freezing", "asleep", "waking"}
    /\ ledStarted \in BOOLEAN
    /\ sleptLit \in BOOLEAN
    /\ raced \in BOOLEAN
    /\ halted \in {"no", "assertion", "dangling"}

\* A PWM that a driver is bound to has its clocks off while the system sleeps,
\* whatever the driver was doing: otherwise the PWM would keep the system from
\* suspending, as the comment at the end of pwm_beeper_probe warns.
ClocksOffAsleep ==
    system = "asleep" =>
        /\ beeper.phase = "bound" => ~pwm[Piezo].clock
        /\ bl.phase = "bound" => ~pwm[Light].clock

\* The compare value of a timer lies between its reload value and the overflow,
\* so that the output toggles twice a period.
Toggles(p) == pwm[p].load <= pwm[p].match /\ pwm[p].match <= LoadMin

\* While the system runs, the piezo sounds exactly when a tone was asked for
\* last, at its frequency; also after any number of suspends, and whoever else
\* asks for its PWM.  A tone asked for before probe has ended is silenced by
\* the end of probe and excluded.
ToneSounds ==
    Running /\ beeper.phase = "bound" /\ ~raced =>
        /\ pwm[Piezo].started = (beeper.period # 0)
        /\ pwm[Piezo].started => pwm[Piezo].load = pwm_calc_value(beeper.period) /\ Toggles(Piezo)

\* While the system runs, the backlight is on exactly when it is not blanked
\* and its brightness is not zero, with the duty of that brightness; which the
\* timer can produce for a brightness from zero to the maximum.  Another one
\* comes from the command line only, past a BUG_ON that compares what is left of
\* the product once it has wrapped.
BacklightShows ==
    Running /\ bl.phase = "bound" =>
        /\ pwm[Light].started = (Effective(bl) # 0)
        /\ bl.enabled = (Effective(bl) # 0)
        /\ pwm[Light].started =>
               /\ pwm[Light].load = pwm_calc_value(Period)
               /\ pwm[Light].match = pwm_calc_value(Signed(Period - Duty(Effective(bl))))
               /\ bl.brightness \in 0..MaxBrightness => Toggles(Light)

\* The LED driver is lit only after its start-up requirements were run since it
\* was last off, as the comment in pwm_backlight_update_status asks, however
\* blanking, power, brightness, aborted suspends and unbinding interleave; but
\* for a backlight that was lit as it was suspended: suspend leaves pb->enabled
\* set, so that resume lights the driver without its start-up, until it is
\* blanked once.
LitAfterStartup ==
    bl.phase = "bound" /\ pwm[Light].started => ledStarted \/ sleptLit

\* The BUG_ON of pwm_backlight_update_status is reached from probe only, with a
\* brightness of the command line above the maximum or below zero: nothing that
\* userspace writes later, no blanking and no resume gets there, not even with a
\* brightness out of that range whose product wraps to one that probe accepted.
BugOnlyFromCommandLine ==
    [][halted # "assertion" /\ halted' = "assertion" =>
           bl.phase = "requested" /\ bl'.brightness \notin 0..MaxBrightness]_vars
===============================================================================
