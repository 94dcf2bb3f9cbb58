--------------------------- MODULE PwmClientsProofs ---------------------------
(***************************************************************************)
(* Proofs about the PWM and its two clients, for any wiring of the board,  *)
(* any clock, counter and period that fit one another, any tones and any   *)
(* brightness.                                                             *)
(***************************************************************************)
EXTENDS PwmClients, TLAPS

BeeperRecord == [phase : {"unbound", "registered", "bound"}, period : Nat, suspended : BOOLEAN]
BlRecord ==
    [phase : {"unbound", "requested", "bound"}, enabled : BOOLEAN, brightness : Int,
     power : {"on", "off"}, fb_blank : {"on", "off"}, suspended : BOOLEAN]

(***************************************************************************)
(* The inductive invariant.  A client that has a PWM has it for itself, so *)
(* that what it programmed stays; a PWM that nobody has is stopped.        *)
(***************************************************************************)
Owned ==
    halted = "no" =>
        /\ beeper.phase # "unbound" => pwm[Piezo].listed /\ pwm[Piezo].use_count = 1
        /\ bl.phase # "unbound" => pwm[Light].listed /\ pwm[Light].use_count = 1
        /\ beeper.phase # "unbound" /\ bl.phase # "unbound" => Piezo # Light
        /\ \A p \in Pwms : pwm[p].use_count = 0 => ~pwm[p].started
        /\ bl.phase = "requested" => ~pwm[Light].started /\ ~bl.enabled /\ bl.power = "on" /\ bl.fb_blank = "on"

\* No device is suspended while tasks run, and none is half-way through probe while
\* they are frozen; nothing halts the kernel then.
Phases ==
    /\ system # "running" => halted = "no" /\ beeper.phase # "registered" /\ bl.phase # "requested"
    /\ system = "running" => ~beeper.suspended /\ ~bl.suspended
    /\ system = "asleep" => Suspended(beeper) /\ Suspended(bl)
    /\ beeper.suspended => beeper.phase = "bound"
    /\ bl.suspended => bl.phase = "bound"

\* A period whose ticks the counter holds, and an int in nanoseconds.
Fits(period) == (ClockRate * period) \div SecondInNs <= LoadMin /\ 2 * period < CounterModulus

\* The beeper that is bound: its timer has its clocks on only while it sounds.
Sounds ==
    /\ Fits(beeper.period)
    /\ beeper.phase = "registered" /\ ~raced => beeper.period = 0
    /\ halted = "no" /\ beeper.phase = "bound" =>
           /\ pwm[Piezo].clock <=> pwm[Piezo].started
           /\ beeper.suspended \/ beeper.period = 0 => ~pwm[Piezo].started
           /\ ~raced /\ ~beeper.suspended => (pwm[Piezo].started <=> beeper.period # 0)
           /\ pwm[Piezo].started => pwm[Piezo].load = pwm_calc_value(beeper.period) /\ Toggles(Piezo)

\* The backlight that is bound: pb->enabled follows what is to be shown, also while the
\* device is suspended and the timer is not.
Shows ==
    halted = "no" /\ bl.phase = "bound" =>
        /\ pwm_backlight_get_duty_ns(bl.brightness) <= Period
        /\ pwm[Light].clock <=> pwm[Light].started
        /\ bl.suspended => ~pwm[Light].started
        /\ bl.enabled <=> Effective(bl) # 0
        /\ ~bl.suspended => (pwm[Light].started <=> Effective(bl) # 0)
        /\ pwm[Light].started =>
               /\ pwm[Light].load = pwm_calc_value(Period)
               /\ pwm[Light].match = pwm_calc_value(Signed(Period - Duty(Effective(bl))))
               /\ bl.brightness \in 0..MaxBrightness => Toggles(Light)
        /\ bl.enabled => ledStarted \/ sleptLit

IInv == TypeOK /\ Owned /\ Phases /\ Sounds /\ Shows /\ LitAfterStartup

-----------------------------------------------------------------------------

\* Division by a positive number keeps the order.
LEMMA DivMonotone ==
    ASSUME NEW a \in Int, NEW b \in Int, NEW k \in Nat \ {0}, a <= b
    PROVE  a \div k <= b \div k /\ a \div k \in Int
OBVIOUS

\* Division undoes a multiplication.
LEMMA DivExact ==
    ASSUME NEW a \in Int, NEW k \in Nat \ {0}
    PROVE  (a * k) \div k = a
OBVIOUS

\* A quotient is bounded by what bounds it times the divisor.
LEMMA DivBound ==
    ASSUME NEW a \in Int, NEW k \in Nat \ {0}, NEW q \in Int, a < k * q + k
    PROVE  a \div k <= q
OBVIOUS

\* A quotient of naturals is one, and no larger.
LEMMA DivNat ==
    ASSUME NEW a \in Nat, NEW k \in Nat \ {0}
    PROVE  a \div k \in Nat /\ a \div k <= a
OBVIOUS

\* Multiplication by a natural keeps the order.
LEMMA TimesMonotone ==
    ASSUME NEW a \in Int, NEW b \in Int, NEW k \in Nat, a <= b
    PROVE  k * a <= k * b /\ k * a \in Int /\ k * b \in Int
OBVIOUS

\* A number below the modulus is its own remainder.
LEMMA ModSmall ==
    ASSUME NEW m \in Nat \ {0}, NEW a \in 0..(m - 1)
    PROVE  a % m = a
OBVIOUS

\* A remainder is below the modulus.
LEMMA ModType ==
    ASSUME NEW m \in Nat \ {0}, NEW a \in Int
    PROVE  a % m \in 0..(m - 1)
OBVIOUS

-----------------------------------------------------------------------------

\* A product of two numbers below m is below the square of m.
LEMMA ProductBelow ==
    ASSUME NEW m \in Nat, NEW a \in Nat, NEW b \in Nat, a < m, b < m
    PROVE  a * b \in 0..(m * m - 1) /\ m * m \in Nat \ {0}
<1>1. a * b <= a * m /\ a * b \in Nat /\ a * m \in Nat
  BY TimesMonotone
<1>2. m * a <= m * (m - 1) /\ m * a \in Nat /\ m * (m - 1) \in Nat
  BY TimesMonotone
<1>3. m * (m - 1) = m * m - m /\ m * a = a * m /\ m > 0
  OBVIOUS
<1> QED BY <1>1, <1>2, <1>3

\* The counter has values.
LEMMA Modulus == CounterModulus \in Nat \ {0} /\ LoadMin \in Nat /\ LoadMin = CounterModulus - 3
BY PwmAssumption DEF LoadMin

\* An unsigned and an int hold a number; one that is less than half the modulus, as it is.
LEMMA Words ==
    ASSUME NEW n \in Int
    PROVE  /\ Unsigned(n) \in 0..(CounterModulus - 1)
           /\ Signed(n) \in Int
           /\ n \in 0..(CounterModulus - 1) => Unsigned(n) = n
           /\ n \in Nat /\ 2 * n < CounterModulus => Signed(n) = n
<1>1. Unsigned(n) \in 0..(CounterModulus - 1)
  BY ModType, Modulus DEF Unsigned
<1>2. n \in 0..(CounterModulus - 1) => Unsigned(n) = n
  BY ModSmall, Modulus DEF Unsigned
<1>3. Signed(n) \in Int
  BY <1>1, Modulus DEF Signed
<1>4. n \in Nat /\ 2 * n < CounterModulus => Signed(n) = n
  BY <1>2, Modulus DEF Signed
<1> QED BY <1>1, <1>2, <1>3, <1>4

\* pwm_calc_value gives a value of the counter.
LEMMA CalcType ==
    ASSUME NEW ns \in Int
    PROVE  pwm_calc_value(ns) \in 0..(CounterModulus - 1)
<1> DEFINE m == CounterModulus * CounterModulus
           c == (ClockRate * ns) % m
<1>1. ClockRate * ns \in Int /\ m \in Nat \ {0} /\ LoadMin \in Int
  BY PwmAssumption, Modulus, ProductBelow
<1> HIDE DEF m
<1>2. c \in Int
  BY <1>1, ModType
<1> HIDE DEF c
<1>3. c \div SecondInNs \in Int
  BY <1>2, DivMonotone, PwmAssumption
<1>4. LoadMin - c \div SecondInNs \in Int
  BY <1>1, <1>3
<1> QED BY <1>4, Words DEF pwm_calc_value, c, m

\* A time that is an int and not below zero is counted without a wrap.
LEMMA CalcExact ==
    ASSUME NEW ns \in Nat, 2 * ns < CounterModulus, (ClockRate * ns) \div SecondInNs <= LoadMin
    PROVE  pwm_calc_value(ns) = LoadMin - (ClockRate * ns) \div SecondInNs
<1> DEFINE m == CounterModulus * CounterModulus
           x == (ClockRate * ns) \div SecondInNs
<1>1. ClockRate * ns \in 0..(m - 1) /\ m \in Nat \ {0}
  <2>1. ns < CounterModulus /\ ClockRate < CounterModulus /\ ClockRate \in Nat
    BY PwmAssumption, Modulus
  <2> QED BY <2>1, Modulus, ProductBelow
<1>2. (ClockRate * ns) % m = ClockRate * ns
  BY <1>1, ModSmall
<1>3. x \in Nat
  BY <1>1, DivNat, PwmAssumption
<1>4. LoadMin - x \in 0..(CounterModulus - 1)
  BY <1>3, Modulus
<1>5. Unsigned(LoadMin - x) = LoadMin - x
  BY <1>4, Words, Modulus
<1> QED BY <1>2, <1>5 DEF pwm_calc_value

\* A period that fits the counter, and any shorter one, are not wrapped: the shorter
\* one has the higher value, below the overflow.
LEMMA CalcOrder ==
    ASSUME NEW ns \in Nat, NEW period \in Nat, ns <= period, Fits(period)
    PROVE  pwm_calc_value(period) <= pwm_calc_value(ns) /\ pwm_calc_value(ns) <= LoadMin
<1> DEFINE x == (ClockRate * ns) \div SecondInNs
           y == (ClockRate * period) \div SecondInNs
<1>1. ClockRate * ns <= ClockRate * period /\ ClockRate * ns \in Nat /\ ClockRate * period \in Nat
  BY TimesMonotone, PwmAssumption
<1>2. x <= y /\ x \in Nat /\ y \in Nat
  BY <1>1, DivMonotone, DivNat, PwmAssumption
<1>3. x <= LoadMin /\ y <= LoadMin /\ 2 * ns < CounterModulus /\ 2 * period < CounterModulus
  BY <1>2, Modulus DEF Fits
<1>4. pwm_calc_value(ns) = LoadMin - x
  BY <1>3, CalcExact
<1>5. pwm_calc_value(period) = LoadMin - y
  BY <1>3, CalcExact
<1> QED BY <1>2, <1>4, <1>5, Modulus

\* Every tone's period fits the counter.
LEMMA ToneFits ==
    ASSUME NEW hz \in Nat
    PROVE  TonePeriod(hz) \in Nat /\ Fits(TonePeriod(hz))
<1>1. TonePeriod(hz) \in Nat /\ TonePeriod(hz) <= SecondInNs
  BY DivNat, PwmAssumption DEF TonePeriod
<1>2. ClockRate * TonePeriod(hz) <= ClockRate * SecondInNs
  BY <1>1, TimesMonotone, PwmAssumption
<1>3. (ClockRate * TonePeriod(hz)) \div SecondInNs <= (ClockRate * SecondInNs) \div SecondInNs
  BY <1>1, <1>2, DivMonotone, PwmAssumption
<1>4. (ClockRate * TonePeriod(hz)) \div SecondInNs <= LoadMin
  BY <1>1, <1>3, DivExact, DivNat, PwmAssumption, ClientAssumption
<1>5. 2 * TonePeriod(hz) < CounterModulus
  BY <1>1, PwmAssumption
<1> QED BY <1>1, <1>4, <1>5 DEF Fits

\* Silence fits, and so does the period of the backlight.
LEMMA SilenceFits == Fits(0)
<1>1. ClockRate * 0 = 0 /\ 0 \div SecondInNs = 0
  BY PwmAssumption
<1> QED BY <1>1, Modulus DEF Fits

LEMMA PeriodFits == Period \in Nat /\ Fits(Period)
BY ClientAssumption DEF Fits

\* The pulse of any brightness is a number.
LEMMA PulseType ==
    ASSUME NEW b \in Int
    PROVE  pwm_backlight_get_duty_ns(b) \in Nat
<1>1. b * Period \in Int
  BY ClientAssumption
<1>2. Unsigned(b * Period) \in Nat
  BY <1>1, Words, Modulus
<1> QED BY <1>2, DivNat, ClientAssumption DEF pwm_backlight_get_duty_ns

\* A brightness up to the maximum passes the BUG_ON.
LEMMA DutyFits ==
    ASSUME NEW b \in 0..MaxBrightness
    PROVE  pwm_backlight_get_duty_ns(b) <= Period
<1>1. b * Period <= MaxBrightness * Period /\ b * Period \in Nat /\ MaxBrightness * Period \in Nat
  <2>1. Period * b <= Period * MaxBrightness /\ Period * b \in Nat
    BY TimesMonotone, ClientAssumption
  <2> QED BY <2>1, ClientAssumption
<1>2. b * Period < MaxBrightness * Period + MaxBrightness
  BY <1>1, ClientAssumption
<1>3. Unsigned(b * Period) = b * Period
  BY <1>1, Words, Modulus, ClientAssumption
<1> QED BY <1>1, <1>2, <1>3, DivBound, ClientAssumption DEF pwm_backlight_get_duty_ns

\* A brightness of the scale has a duty the period can hold, above the threshold too.
LEMMA DutyType ==
    ASSUME NEW b \in Int
    PROVE  Duty(b) \in Int /\ (b \in 0..MaxBrightness => Duty(b) \in 0..Period)
<1> DEFINE k == Period \div MaxBrightness
           lth == LowThreshold * k
           x == b * (Period - lth)
<1>1. k \in Nat /\ MaxBrightness * k <= Period
  BY ClientAssumption
<1>2. lth \in Nat /\ lth <= MaxBrightness * k
  BY <1>1, ClientAssumption
<1>3. lth <= Period /\ Period - lth \in Nat
  BY <1>1, <1>2, ClientAssumption
<1> HIDE DEF lth
<1>4. x \in Int
  BY <1>3
<1>5. Unsigned(x) \in Nat
  BY <1>4, Words, Modulus
<1>6. Unsigned(x) \div MaxBrightness \in Nat
  BY <1>5, DivNat, ClientAssumption
<1>7. Duty(b) = Signed(lth + Unsigned(x) \div MaxBrightness)
  BY DEF Duty, lth
<1>8. Duty(b) \in Int
  BY <1>2, <1>6, <1>7, Words
<1>9. ASSUME b \in 0..MaxBrightness PROVE Duty(b) \in 0..Period
  <2>1. x <= MaxBrightness * (Period - lth) /\ x \in Nat
    BY <1>3, <1>9, ClientAssumption
  <2>2. MaxBrightness * (Period - lth) <= MaxBrightness * Period /\ MaxBrightness * Period \in Nat
    BY <1>2, <1>3, TimesMonotone, ClientAssumption
  <2> HIDE DEF x
  <2>3. Unsigned(x) = x
    BY <2>1, <2>2, <1>3, Words, Modulus, ClientAssumption
  <2>4. x < MaxBrightness * (Period - lth) + MaxBrightness
    BY <2>1, <1>3, ClientAssumption
  <2>5. x \div MaxBrightness <= Period - lth
    BY <2>1, <2>4, <1>3, DivBound, ClientAssumption
  <2>6. x \div MaxBrightness \in Nat
    BY <2>1, DivNat, ClientAssumption
  <2>7. lth + x \div MaxBrightness \in 0..Period
    BY <2>5, <2>6, <1>2, <1>3, ClientAssumption
  <2>8. Signed(lth + x \div MaxBrightness) = lth + x \div MaxBrightness
    BY <2>7, Words, ClientAssumption, Modulus
  <2> QED BY <1>7, <2>3, <2>7, <2>8
<1> QED BY <1>8, <1>9

-----------------------------------------------------------------------------

\* pwm_config stops the timer and writes its load and match values.
LEMMA ConfigFields ==
    ASSUME NEW p \in PwmRecord, NEW duty \in Int, NEW period \in Int
    PROVE  LET q == pwm_config(p, duty, period)
           IN  /\ q \in PwmRecord /\ q.listed = p.listed /\ q.use_count = p.use_count
               /\ q.clock = FALSE /\ q.started = FALSE
               /\ q.load = pwm_calc_value(period) /\ q.match = pwm_calc_value(Signed(period - duty))
<1>1. Signed(period - duty) \in Int
  BY Words
<1>2. pwm_calc_value(period) \in 0..(CounterModulus - 1) /\ pwm_calc_value(Signed(period - duty)) \in 0..(CounterModulus - 1)
  BY <1>1, CalcType
<1> QED BY <1>2 DEF pwm_config, PwmRecord

\* pwm_enable starts the timer and its clocks.
LEMMA EnableFields ==
    ASSUME NEW p \in PwmRecord
    PROVE  LET q == pwm_enable(p)
           IN  /\ q \in PwmRecord /\ q.listed = p.listed /\ q.use_count = p.use_count
               /\ q.clock = TRUE /\ q.started = TRUE /\ q.load = p.load /\ q.match = p.match
BY DEF pwm_enable, PwmRecord

\* pwm_disable stops the timer and its clocks.
LEMMA DisableFields ==
    ASSUME NEW p \in PwmRecord
    PROVE  LET q == pwm_disable(p)
           IN  /\ q \in PwmRecord /\ q.listed = p.listed /\ q.use_count = p.use_count
               /\ q.clock = FALSE /\ q.started = FALSE
BY DEF pwm_disable, PwmRecord

\* pwm_request takes the PWM.
LEMMA RequestFields ==
    ASSUME NEW p \in PwmRecord, Requestable(p)
    PROVE  LET q == pwm_request(p)
           IN  /\ q \in PwmRecord /\ q.listed = TRUE /\ q.use_count = 1
               /\ q.clock = p.clock /\ q.started = p.started
BY DEF pwm_request, Requestable, PwmRecord

\* pwm_free gives the PWM back, and leaves its timer as it is.
LEMMA FreeFields ==
    ASSUME NEW p \in PwmRecord
    PROVE  LET q == pwm_free(p)
           IN  q \in PwmRecord /\ q.listed = p.listed /\ q.use_count = 0 /\ q.clock = p.clock /\ q.started = p.started
BY DEF pwm_free, PwmRecord

\* A tone: pwm_config, then pwm_enable, or pwm_disable for none.
LEMMA SoundFields ==
    ASSUME NEW p \in PwmRecord, NEW period \in Nat, Fits(period)
    PROVE  LET q == Sound(p, period)
           IN  /\ q \in PwmRecord /\ q.listed = p.listed /\ q.use_count = p.use_count
               /\ q.clock <=> q.started
               /\ q.started <=> period # 0
               /\ period # 0 => /\ q.load = pwm_calc_value(period)
                                /\ q.load <= q.match /\ q.match <= LoadMin
<1> DEFINE half == period \div 2
           set == pwm_config(p, half, period)
<1>1. /\ half \in Int /\ period \in Int /\ period - half \in Nat /\ period - half <= period
      /\ Signed(period - half) = period - half
  <2>1. half \in Nat /\ half <= period
    BY DivNat
  <2> HIDE DEF half
  <2>2. 2 * (period - half) < CounterModulus
    BY <2>1, Modulus DEF Fits
  <2> QED BY <2>1, <2>2, Words
<1> HIDE DEF half
<1>2. /\ set \in PwmRecord /\ set.listed = p.listed /\ set.use_count = p.use_count
      /\ set.load = pwm_calc_value(period) /\ set.match = pwm_calc_value(period - half)
  <2>1. /\ set \in PwmRecord /\ set.listed = p.listed /\ set.use_count = p.use_count
        /\ set.load = pwm_calc_value(period) /\ set.match = pwm_calc_value(Signed(period - half))
    BY <1>1, ConfigFields
  <2> QED BY <1>1, <2>1
<1>3. set.load <= set.match /\ set.match <= LoadMin
  BY <1>1, <1>2, CalcOrder
<1> HIDE DEF set
<1>4. CASE period = 0
  <2>1. Sound(p, period) = pwm_disable(set)
    BY <1>4 DEF Sound, set, half
  <2> QED BY <1>2, <1>4, <2>1, DisableFields
<1>5. CASE period # 0
  <2>1. Sound(p, period) = pwm_enable(set)
    BY <1>5 DEF Sound, set, half
  <2> QED BY <1>2, <1>3, <1>5, <2>1, EnableFields
<1> QED BY <1>4, <1>5

\* The list of PWMs with one of them changed.
LEMMA OnePwm ==
    ASSUME TypeOK, NEW p \in Pwms, NEW q \in PwmRecord, pwm' = [pwm EXCEPT ![p] = q]
    PROVE  /\ pwm' \in [Pwms -> PwmRecord]
           /\ pwm'[p] = q
           /\ \A x \in Pwms : x # p => pwm'[x] = pwm[x]
BY DEF TypeOK

\* The platform data names PWMs of the board.
LEMMA Wired ==
    ASSUME TypeOK
    PROVE  Piezo \in Pwms /\ Light \in Pwms /\ pwm[Piezo] \in PwmRecord /\ pwm[Light] \in PwmRecord
BY ClientAssumption DEF TypeOK, Piezo, Light

-----------------------------------------------------------------------------

\* A step that leaves the backlight and its PWM alone shows what was shown.
LEMMA LightAlone ==
    ASSUME IInv, halted = "no", UNCHANGED <<wiring, bl, ledStarted, sleptLit>>,
           bl.phase # "unbound" => pwm'[Light] = pwm[Light]
    PROVE  Shows' /\ LitAfterStartup'
BY DEF IInv, Shows, LitAfterStartup, Light, Toggles

\* A step that leaves the beeper and its PWM alone sounds as it did.
LEMMA PiezoAlone ==
    ASSUME IInv, halted = "no", UNCHANGED <<wiring, beeper, raced>>,
           beeper.phase # "unbound" => pwm'[Piezo] = pwm[Piezo]
    PROVE  Sounds'
BY DEF IInv, Sounds, Piezo, Toggles

\* pwm_beeper_event programs the tone and starts the timer, or stops it.
LEMMA EventKeeps ==
    ASSUME IInv, NEW hz \in Tones, pwm_beeper_event(hz)
    PROVE  IInv'
<1> DEFINE period == TonePeriod(hz)
           q == Sound(pwm[Piezo], period)
<1>1. /\ TypeOK /\ halted = "no" /\ system = "running" /\ beeper.phase # "unbound"
      /\ pwm' = [pwm EXCEPT ![Piezo] = q]
      /\ beeper' = [beeper EXCEPT !.period = period]
      /\ raced' = (raced \/ beeper.phase = "registered")
      /\ UNCHANGED <<wiring, bl, system, ledStarted, sleptLit, halted>>
  BY DEF IInv, pwm_beeper_event, Running
<1>2. Piezo \in Pwms /\ Light \in Pwms /\ pwm[Piezo] \in PwmRecord
  BY <1>1, Wired
<1>3. period \in Nat /\ Fits(period)
  BY ToneFits, ClientAssumption
<1> HIDE DEF period
<1>4. /\ q \in PwmRecord /\ q.listed = pwm[Piezo].listed /\ q.use_count = pwm[Piezo].use_count
      /\ q.clock <=> q.started
      /\ q.started <=> period # 0
      /\ period # 0 => q.load = pwm_calc_value(period) /\ q.load <= q.match /\ q.match <= LoadMin
  BY <1>2, <1>3, SoundFields
<1> HIDE DEF q
<1>5. pwm' \in [Pwms -> PwmRecord] /\ pwm'[Piezo] = q /\ \A x \in Pwms : x # Piezo => pwm'[x] = pwm[x]
  BY <1>1, <1>2, <1>4, OnePwm
<1>6. beeper' \in BeeperRecord /\ beeper'.period = period /\ beeper'.phase = beeper.phase /\ beeper'.suspended = beeper.suspended
  BY <1>1, <1>3 DEF TypeOK, BeeperRecord
<1>7. Piezo' = Piezo /\ Light' = Light
  BY <1>1 DEF Piezo, Light
<1>8. TypeOK'
  BY <1>1, <1>5, <1>6 DEF TypeOK, BeeperRecord
<1>9. Owned'
  BY <1>1, <1>2, <1>4, <1>5, <1>6, <1>7 DEF IInv, Owned
<1>10. Phases'
  BY <1>1, <1>6 DEF IInv, Phases, Suspended
<1>11. Sounds'
  BY <1>1, <1>3, <1>4, <1>5, <1>6, <1>7 DEF IInv, Phases, Sounds, Toggles
<1>12. Shows' /\ LitAfterStartup'
  BY <1>1, <1>2, <1>5, LightAlone DEF IInv, Owned
<1> QED BY <1>8, <1>9, <1>10, <1>11, <1>12 DEF IInv

\* The beeper takes a PWM that nobody has.
LEMMA RegisterKeeps ==
    ASSUME IInv, BeeperRegister
    PROVE  IInv'
<1> DEFINE q == pwm_request(pwm[Piezo])
<1>1. /\ TypeOK /\ halted = "no"
      /\ system = "running" /\ beeper.phase = "unbound" /\ Requestable(pwm[Piezo])
      /\ pwm' = [pwm EXCEPT ![Piezo] = q]
      /\ beeper' = [NoBeeper EXCEPT !.phase = "registered"]
      /\ raced' = FALSE
      /\ UNCHANGED <<wiring, bl, system, ledStarted, sleptLit, halted>>
  BY DEF IInv, BeeperRegister, Running
<1>2. Piezo \in Pwms /\ Light \in Pwms /\ pwm[Piezo] \in PwmRecord /\ pwm[Light] \in PwmRecord
  BY <1>1, Wired
<1>3. /\ q \in PwmRecord /\ q.listed = TRUE /\ q.use_count = 1
      /\ q.clock = pwm[Piezo].clock /\ q.started = pwm[Piezo].started /\ pwm[Piezo].use_count = 0
  BY <1>1, <1>2, RequestFields DEF Requestable
<1> HIDE DEF q
<1>4. pwm' \in [Pwms -> PwmRecord] /\ pwm'[Piezo] = q /\ \A x \in Pwms : x # Piezo => pwm'[x] = pwm[x]
  BY <1>1, <1>2, <1>3, OnePwm
<1>5. beeper' \in BeeperRecord /\ beeper'.phase = "registered" /\ beeper'.period = 0 /\ beeper'.suspended = FALSE
  BY <1>1 DEF IInv, TypeOK, BeeperRecord, NoBeeper
<1>6. Piezo' = Piezo /\ Light' = Light
  BY <1>1 DEF Piezo, Light
<1>7. TypeOK'
  BY <1>1, <1>2, <1>3, <1>4, <1>5, <1>6 DEF TypeOK, BeeperRecord, BlRecord
<1>8. Owned'
  BY <1>1, <1>2, <1>3, <1>4, <1>5, <1>6 DEF IInv, Owned
<1>9. Phases'
  BY <1>1, <1>2, <1>3, <1>4, <1>5, <1>6 DEF IInv, Phases, Suspended
<1>10. Sounds'
  <2>1. Fits(0)
    BY SilenceFits
  <2> QED BY <2>1, <1>1, <1>2, <1>3, <1>4, <1>5, <1>6 DEF IInv, Phases, Sounds, Toggles
<1>11. Shows' /\ LitAfterStartup'
  BY <1>1, <1>2, <1>3, <1>4, LightAlone DEF IInv, Owned
<1> QED BY <1>7, <1>8, <1>9, <1>10, <1>11 DEF IInv

\* A probe that fails leaves freed memory, and the model stops.
LEMMA ProbeFailsKeeps ==
    ASSUME IInv, BeeperProbeFails
    PROVE  IInv'
<1> DEFINE q == pwm_free(pwm[Piezo])
<1>1. /\ TypeOK /\ halted = "no"
      /\ system = "running" /\ beeper.phase = "registered"
      /\ pwm' = [pwm EXCEPT ![Piezo] = q]
      /\ beeper' = NoBeeper
      /\ halted' = "dangling"
      /\ UNCHANGED <<wiring, bl, system, ledStarted, sleptLit, raced>>
  BY DEF IInv, BeeperProbeFails, Running
<1>2. Piezo \in Pwms /\ Light \in Pwms /\ pwm[Piezo] \in PwmRecord /\ pwm[Light] \in PwmRecord
  BY <1>1, Wired
<1>3. q \in PwmRecord
  BY <1>1, <1>2, FreeFields
<1> HIDE DEF q
<1>4. pwm' \in [Pwms -> PwmRecord] /\ pwm'[Piezo] = q /\ \A x \in Pwms : x # Piezo => pwm'[x] = pwm[x]
  BY <1>1, <1>2, <1>3, OnePwm
<1>5. beeper' \in BeeperRecord /\ beeper'.phase = "unbound" /\ beeper'.period = 0 /\ beeper'.suspended = FALSE
  BY <1>1 DEF IInv, TypeOK, BeeperRecord, NoBeeper
<1>6. Piezo' = Piezo /\ Light' = Light
  BY <1>1 DEF Piezo, Light
<1>7. TypeOK'
  BY <1>1, <1>2, <1>3, <1>4, <1>5, <1>6 DEF TypeOK, BeeperRecord, BlRecord
<1>8. Owned'
  BY <1>1, <1>2, <1>3, <1>4, <1>5, <1>6 DEF IInv, Owned
<1>9. Phases'
  BY <1>1, <1>2, <1>3, <1>4, <1>5, <1>6 DEF IInv, Phases, Suspended
<1>10. Sounds'
  <2>1. Fits(0)
    BY SilenceFits
  <2> QED BY <2>1, <1>1, <1>2, <1>3, <1>4, <1>5, <1>6 DEF Sounds
<1>11. Shows' /\ LitAfterStartup'
  BY <1>1, <1>2, <1>3, <1>4, LightAlone DEF IInv, Owned
<1> QED BY <1>7, <1>8, <1>9, <1>10, <1>11 DEF IInv

\* The end of probe stops the timer, and silences a tone that came before it.
LEMMA ProbeEndsKeeps ==
    ASSUME IInv, BeeperProbeEnds
    PROVE  IInv'
<1> DEFINE q == pwm_disable(pwm[Piezo])
<1>1. /\ TypeOK /\ halted = "no"
      /\ system = "running" /\ beeper.phase = "registered"
      /\ pwm' = [pwm EXCEPT ![Piezo] = q]
      /\ beeper' = [beeper EXCEPT !.phase = "bound"]
      /\ UNCHANGED <<wiring, bl, system, ledStarted, sleptLit, raced, halted>>
  BY DEF IInv, BeeperProbeEnds, Running
<1>2. Piezo \in Pwms /\ Light \in Pwms /\ pwm[Piezo] \in PwmRecord /\ pwm[Light] \in PwmRecord
  BY <1>1, Wired
<1>3. /\ q \in PwmRecord /\ q.listed = pwm[Piezo].listed /\ q.use_count = pwm[Piezo].use_count
      /\ q.clock = FALSE /\ q.started = FALSE
  BY <1>1, <1>2, DisableFields
<1> HIDE DEF q
<1>4. pwm' \in [Pwms -> PwmRecord] /\ pwm'[Piezo] = q /\ \A x \in Pwms : x # Piezo => pwm'[x] = pwm[x]
  BY <1>1, <1>2, <1>3, OnePwm
<1>5. beeper' \in BeeperRecord /\ beeper'.phase = "bound" /\ beeper'.period = beeper.period /\ beeper'.suspended = beeper.suspended
  BY <1>1 DEF IInv, TypeOK, BeeperRecord, NoBeeper
<1>6. Piezo' = Piezo /\ Light' = Light
  BY <1>1 DEF Piezo, Light
<1>7. TypeOK'
  BY <1>1, <1>2, <1>3, <1>4, <1>5, <1>6 DEF TypeOK, BeeperRecord, BlRecord
<1>8. Owned'
  BY <1>1, <1>2, <1>3, <1>4, <1>5, <1>6 DEF IInv, Owned
<1>9. Phases'
  BY <1>1, <1>2, <1>3, <1>4, <1>5, <1>6 DEF IInv, Phases, Suspended
<1>10. Sounds'
  BY <1>1, <1>2, <1>3, <1>4, <1>5, <1>6 DEF IInv, Phases, Sounds, Toggles
<1>11. Shows' /\ LitAfterStartup'
  BY <1>1, <1>2, <1>3, <1>4, LightAlone DEF IInv, Owned
<1> QED BY <1>7, <1>8, <1>9, <1>10, <1>11 DEF IInv

\* The beeper leaves its PWM stopped.
LEMMA BeeperRemoveKeeps ==
    ASSUME IInv, pwm_beeper_remove
    PROVE  IInv'
<1> DEFINE q == pwm_free(pwm_disable(pwm[Piezo]))
<1>1. /\ TypeOK /\ halted = "no"
      /\ system = "running" /\ beeper.phase = "bound"
      /\ pwm' = [pwm EXCEPT ![Piezo] = q]
      /\ beeper' = NoBeeper
      /\ UNCHANGED <<wiring, bl, system, ledStarted, sleptLit, raced, halted>>
  BY DEF IInv, pwm_beeper_remove, Running
<1>2. Piezo \in Pwms /\ Light \in Pwms /\ pwm[Piezo] \in PwmRecord /\ pwm[Light] \in PwmRecord
  BY <1>1, Wired
<1>3. /\ q \in PwmRecord /\ q.listed = pwm[Piezo].listed /\ q.use_count = 0
      /\ q.clock = FALSE /\ q.started = FALSE
  <2>1. pwm_disable(pwm[Piezo]) \in PwmRecord
    BY <1>2, DisableFields
  <2> QED BY <1>2, <2>1, DisableFields, FreeFields
<1> HIDE DEF q
<1>4. pwm' \in [Pwms -> PwmRecord] /\ pwm'[Piezo] = q /\ \A x \in Pwms : x # Piezo => pwm'[x] = pwm[x]
  BY <1>1, <1>2, <1>3, OnePwm
<1>5. beeper' \in BeeperRecord /\ beeper'.phase = "unbound" /\ beeper'.period = 0 /\ beeper'.suspended = FALSE
  BY <1>1 DEF IInv, TypeOK, BeeperRecord, NoBeeper
<1>6. Piezo' = Piezo /\ Light' = Light
  BY <1>1 DEF Piezo, Light
<1>7. TypeOK'
  BY <1>1, <1>2, <1>3, <1>4, <1>5, <1>6 DEF TypeOK, BeeperRecord, BlRecord
<1>8. Owned'
  BY <1>1, <1>2, <1>3, <1>4, <1>5, <1>6 DEF IInv, Owned
<1>9. Phases'
  BY <1>1, <1>2, <1>3, <1>4, <1>5, <1>6 DEF IInv, Phases, Suspended
<1>10. Sounds'
  <2>1. Fits(0)
    BY SilenceFits
  <2> QED BY <2>1, <1>1, <1>2, <1>3, <1>4, <1>5, <1>6 DEF Sounds
<1>11. Shows' /\ LitAfterStartup'
  BY <1>1, <1>2, <1>3, <1>4, LightAlone DEF IInv, Owned
<1> QED BY <1>7, <1>8, <1>9, <1>10, <1>11 DEF IInv

\* The beeper is suspended with its timer stopped: one that was asked for no tone is stopped already.
LEMMA BeeperSuspendKeeps ==
    ASSUME IInv, pwm_beeper_suspend
    PROVE  IInv'
<1> DEFINE q == IF beeper.period # 0 THEN pwm_disable(pwm[Piezo]) ELSE pwm[Piezo]
<1>1. /\ TypeOK /\ halted = "no"
      /\ system = "freezing" /\ beeper.phase = "bound" /\ ~beeper.suspended
      /\ pwm' = IF beeper.period # 0 THEN [pwm EXCEPT ![Piezo] = pwm_disable(pwm[Piezo])] ELSE pwm
      /\ beeper' = [beeper EXCEPT !.suspended = TRUE]
      /\ UNCHANGED <<wiring, bl, system, ledStarted, sleptLit, raced, halted>>
  BY DEF IInv, Phases, pwm_beeper_suspend
<1>2. Piezo \in Pwms /\ Light \in Pwms /\ pwm[Piezo] \in PwmRecord /\ pwm[Light] \in PwmRecord
  BY <1>1, Wired
<1>3. /\ q \in PwmRecord /\ q.listed = pwm[Piezo].listed /\ q.use_count = pwm[Piezo].use_count
      /\ (q.clock <=> q.started) /\ ~q.started
  BY <1>1, <1>2, DisableFields DEF IInv, Sounds
<1> HIDE DEF q
<1>4. pwm' \in [Pwms -> PwmRecord] /\ pwm'[Piezo] = q /\ \A x \in Pwms : x # Piezo => pwm'[x] = pwm[x]
  <2>1. CASE beeper.period # 0
    BY <1>1, <1>2, <1>3, <2>1, OnePwm DEF q
  <2>2. CASE beeper.period = 0
    BY <1>1, <1>2, <2>2 DEF TypeOK, q
  <2> QED BY <2>1, <2>2
<1>5. beeper' \in BeeperRecord /\ beeper'.phase = "bound" /\ beeper'.period = beeper.period /\ beeper'.suspended = TRUE
  BY <1>1 DEF IInv, TypeOK, BeeperRecord, NoBeeper
<1>6. Piezo' = Piezo /\ Light' = Light
  BY <1>1 DEF Piezo, Light
<1>7. TypeOK'
  BY <1>1, <1>2, <1>3, <1>4, <1>5, <1>6 DEF TypeOK, BeeperRecord, BlRecord
<1>8. Owned'
  BY <1>1, <1>2, <1>3, <1>4, <1>5, <1>6 DEF IInv, Owned
<1>9. Phases'
  BY <1>1, <1>2, <1>3, <1>4, <1>5, <1>6 DEF IInv, Phases, Suspended
<1>10. Sounds'
  BY <1>1, <1>2, <1>3, <1>4, <1>5, <1>6 DEF IInv, Phases, Sounds, Toggles
<1>11. Shows' /\ LitAfterStartup'
  BY <1>1, <1>2, <1>3, <1>4, LightAlone DEF IInv, Owned
<1> QED BY <1>7, <1>8, <1>9, <1>10, <1>11 DEF IInv

\* The beeper resumes with the tone it had.
LEMMA BeeperResumeKeeps ==
    ASSUME IInv, pwm_beeper_resume
    PROVE  IInv'
<1> DEFINE q == IF beeper.period # 0 THEN Sound(pwm[Piezo], beeper.period) ELSE pwm[Piezo]
<1>1. /\ TypeOK /\ halted = "no"
      /\ system = "waking" /\ beeper.phase = "bound" /\ beeper.suspended
      /\ pwm' = IF beeper.period # 0 THEN [pwm EXCEPT ![Piezo] = Sound(pwm[Piezo], beeper.period)] ELSE pwm
      /\ beeper' = [beeper EXCEPT !.suspended = FALSE]
      /\ UNCHANGED <<wiring, bl, system, ledStarted, sleptLit, raced, halted>>
  BY DEF IInv, Phases, pwm_beeper_resume
<1>2. Piezo \in Pwms /\ Light \in Pwms /\ pwm[Piezo] \in PwmRecord /\ pwm[Light] \in PwmRecord
  BY <1>1, Wired
<1>3. /\ q \in PwmRecord /\ q.listed = pwm[Piezo].listed /\ q.use_count = pwm[Piezo].use_count
      /\ (q.clock <=> q.started) /\ (q.started <=> beeper.period # 0)
      /\ q.started => q.load = pwm_calc_value(beeper.period) /\ q.load <= q.match /\ q.match <= LoadMin
  <2>1. beeper.period \in Nat /\ Fits(beeper.period)
    BY <1>1 DEF IInv, TypeOK, Sounds
  <2>2. CASE beeper.period # 0
    BY <1>2, <2>1, <2>2, SoundFields
  <2>3. CASE beeper.period = 0
    BY <1>1, <1>2, <2>3 DEF IInv, Sounds
  <2> QED BY <2>2, <2>3
<1> HIDE DEF q
<1>4. pwm' \in [Pwms -> PwmRecord] /\ pwm'[Piezo] = q /\ \A x \in Pwms : x # Piezo => pwm'[x] = pwm[x]
  <2>1. CASE beeper.period # 0
    BY <1>1, <1>2, <1>3, <2>1, OnePwm DEF q
  <2>2. CASE beeper.period = 0
    BY <1>1, <1>2, <2>2 DEF TypeOK, q
  <2> QED BY <2>1, <2>2
<1>5. beeper' \in BeeperRecord /\ beeper'.phase = "bound" /\ beeper'.period = beeper.period /\ beeper'.suspended = FALSE
  BY <1>1 DEF IInv, TypeOK, BeeperRecord, NoBeeper
<1>6. Piezo' = Piezo /\ Light' = Light
  BY <1>1 DEF Piezo, Light
<1>7. TypeOK'
  BY <1>1, <1>2, <1>3, <1>4, <1>5, <1>6 DEF TypeOK, BeeperRecord, BlRecord
<1>8. Owned'
  BY <1>1, <1>2, <1>3, <1>4, <1>5, <1>6 DEF IInv, Owned
<1>9. Phases'
  BY <1>1, <1>2, <1>3, <1>4, <1>5, <1>6 DEF IInv, Phases, Suspended
<1>10. Sounds'
  BY <1>1, <1>2, <1>3, <1>4, <1>5, <1>6 DEF IInv, Phases, Sounds, Toggles
<1>11. Shows' /\ LitAfterStartup'
  BY <1>1, <1>2, <1>3, <1>4, LightAlone DEF IInv, Owned
<1> QED BY <1>7, <1>8, <1>9, <1>10, <1>11 DEF IInv

\* The backlight takes a PWM that nobody has, which is stopped.
LEMMA BacklightRequestKeeps ==
    ASSUME IInv, pwm_backlight_request
    PROVE  IInv'
<1> DEFINE q == pwm_request(pwm[Light])
<1>1. /\ TypeOK /\ halted = "no"
      /\ system = "running" /\ bl.phase = "unbound" /\ Requestable(pwm[Light])
      /\ pwm' = [pwm EXCEPT ![Light] = q]
      /\ bl' = [NoBacklight EXCEPT !.phase = "requested"]
      /\ UNCHANGED <<wiring, beeper, system, ledStarted, sleptLit, raced, halted>>
  BY DEF IInv, pwm_backlight_request, Running
<1>2. Piezo \in Pwms /\ Light \in Pwms /\ pwm[Piezo] \in PwmRecord /\ pwm[Light] \in PwmRecord
  BY <1>1, Wired
<1>3. /\ q \in PwmRecord /\ q.listed = TRUE /\ q.use_count = 1
      /\ q.clock = pwm[Light].clock /\ q.started = pwm[Light].started /\ pwm[Light].use_count = 0
  BY <1>1, <1>2, RequestFields DEF Requestable
<1> HIDE DEF q
<1>4. pwm' \in [Pwms -> PwmRecord] /\ pwm'[Light] = q /\ \A x \in Pwms : x # Light => pwm'[x] = pwm[x]
  BY <1>1, <1>2, <1>3, OnePwm
<1>5. /\ bl' \in BlRecord /\ bl'.phase = "requested" /\ bl'.enabled = FALSE /\ bl'.brightness = 0
      /\ bl'.power = "on" /\ bl'.fb_blank = "on" /\ bl'.suspended = FALSE
  <2>1. NoBacklight \in BlRecord
    BY DEF NoBacklight, BlRecord
  <2>2. bl' \in BlRecord
    BY <1>1, <2>1 DEF BlRecord
  <2> QED BY <1>1, <2>2 DEF NoBacklight
<1>6. Piezo' = Piezo /\ Light' = Light
  BY <1>1 DEF Piezo, Light
<1>7. TypeOK'
  BY <1>1, <1>2, <1>3, <1>4, <1>5, <1>6 DEF TypeOK, BeeperRecord, BlRecord
<1>8. Owned'
  BY <1>1, <1>2, <1>3, <1>4, <1>5, <1>6 DEF IInv, Owned
<1>9. Phases'
  BY <1>1, <1>2, <1>3, <1>4, <1>5, <1>6 DEF IInv, Phases, Suspended
<1>10. Sounds'
  BY <1>1, <1>2, <1>3, <1>4, PiezoAlone DEF IInv, Owned
<1>11. Shows' /\ LitAfterStartup'
  BY <1>1, <1>2, <1>3, <1>4, <1>5, <1>6 DEF IInv, Phases, Shows, LitAfterStartup, Toggles, Effective
<1> QED BY <1>7, <1>8, <1>9, <1>10, <1>11 DEF IInv

\* A backlight that is not bound gives its PWM back as it found it.
LEMMA BacklightProbeFailsKeeps ==
    ASSUME IInv, pwm_backlight_probe_fails
    PROVE  IInv'
<1> DEFINE q == pwm_free(pwm[Light])
<1>1. /\ TypeOK /\ halted = "no"
      /\ system = "running" /\ bl.phase = "requested"
      /\ pwm' = [pwm EXCEPT ![Light] = q]
      /\ bl' = NoBacklight
      /\ UNCHANGED <<wiring, beeper, system, ledStarted, sleptLit, raced, halted>>
  BY DEF IInv, pwm_backlight_probe_fails, Running
<1>2. Piezo \in Pwms /\ Light \in Pwms /\ pwm[Piezo] \in PwmRecord /\ pwm[Light] \in PwmRecord
  BY <1>1, Wired
<1>3. /\ q \in PwmRecord /\ q.listed = pwm[Light].listed /\ q.use_count = 0
      /\ q.clock = pwm[Light].clock /\ q.started = pwm[Light].started
  BY <1>1, <1>2, FreeFields
<1> HIDE DEF q
<1>4. pwm' \in [Pwms -> PwmRecord] /\ pwm'[Light] = q /\ \A x \in Pwms : x # Light => pwm'[x] = pwm[x]
  BY <1>1, <1>2, <1>3, OnePwm
<1>5. /\ bl' \in BlRecord /\ bl'.phase = "unbound" /\ bl'.enabled = FALSE /\ bl'.brightness = 0
      /\ bl'.power = "on" /\ bl'.fb_blank = "on" /\ bl'.suspended = FALSE
  BY <1>1 DEF IInv, TypeOK, BlRecord, NoBacklight
<1>6. Piezo' = Piezo /\ Light' = Light
  BY <1>1 DEF Piezo, Light
<1>7. TypeOK'
  BY <1>1, <1>2, <1>3, <1>4, <1>5, <1>6 DEF TypeOK, BeeperRecord, BlRecord
<1>8. Owned'
  BY <1>1, <1>2, <1>3, <1>4, <1>5, <1>6 DEF IInv, Owned
<1>9. Phases'
  BY <1>1, <1>2, <1>3, <1>4, <1>5, <1>6 DEF IInv, Phases, Suspended
<1>10. Sounds'
  BY <1>1, <1>2, <1>4, PiezoAlone DEF IInv, Owned
<1>11. Shows' /\ LitAfterStartup'
  BY <1>1, <1>2, <1>3, <1>4, <1>5, <1>6 DEF IInv, Phases, Shows, LitAfterStartup, Toggles, Effective
<1> QED BY <1>7, <1>8, <1>9, <1>10, <1>11 DEF IInv

\* The backlight leaves its PWM stopped.
LEMMA BacklightRemoveKeeps ==
    ASSUME IInv, pwm_backlight_remove
    PROVE  IInv'
<1> DEFINE q == pwm_free(pwm_disable(pwm_config(pwm[Light], 0, Period)))
<1>1. /\ TypeOK /\ halted = "no"
      /\ system = "running" /\ bl.phase = "bound"
      /\ pwm' = [pwm EXCEPT ![Light] = q]
      /\ bl' = NoBacklight
      /\ ledStarted' = FALSE /\ sleptLit' = FALSE
      /\ UNCHANGED <<wiring, beeper, system, raced, halted>>
  BY DEF IInv, pwm_backlight_remove, Running
<1>2. Piezo \in Pwms /\ Light \in Pwms /\ pwm[Piezo] \in PwmRecord /\ pwm[Light] \in PwmRecord
  BY <1>1, Wired
<1>3. /\ q \in PwmRecord /\ q.listed = pwm[Light].listed /\ q.use_count = 0
      /\ q.clock = FALSE /\ q.started = FALSE
  <2> DEFINE set == pwm_config(pwm[Light], 0, Period)
  <2>1. set \in PwmRecord /\ set.listed = pwm[Light].listed /\ set.use_count = pwm[Light].use_count
    <3>1. 0 \in Int /\ Period \in Int
      BY ClientAssumption
    <3> QED BY <1>2, <3>1, ConfigFields
  <2> HIDE DEF set
  <2>2. /\ pwm_disable(set) \in PwmRecord
        /\ pwm_disable(set).listed = pwm[Light].listed /\ pwm_disable(set).use_count = pwm[Light].use_count
        /\ pwm_disable(set).clock = FALSE /\ pwm_disable(set).started = FALSE
    BY <2>1, DisableFields
  <2> QED BY <2>2, FreeFields DEF set
<1> HIDE DEF q
<1>4. pwm' \in [Pwms -> PwmRecord] /\ pwm'[Light] = q /\ \A x \in Pwms : x # Light => pwm'[x] = pwm[x]
  BY <1>1, <1>2, <1>3, OnePwm
<1>5. /\ bl' \in BlRecord /\ bl'.phase = "unbound" /\ bl'.enabled = FALSE /\ bl'.brightness = 0
      /\ bl'.power = "on" /\ bl'.fb_blank = "on" /\ bl'.suspended = FALSE
  BY <1>1 DEF IInv, TypeOK, BlRecord, NoBacklight
<1>6. Piezo' = Piezo /\ Light' = Light
  BY <1>1 DEF Piezo, Light
<1>7. TypeOK'
  BY <1>1, <1>2, <1>3, <1>4, <1>5, <1>6 DEF TypeOK, BeeperRecord, BlRecord
<1>8. Owned'
  BY <1>1, <1>2, <1>3, <1>4, <1>5, <1>6 DEF IInv, Owned
<1>9. Phases'
  BY <1>1, <1>2, <1>3, <1>4, <1>5, <1>6 DEF IInv, Phases, Suspended
<1>10. Sounds'
  BY <1>1, <1>2, <1>4, PiezoAlone DEF IInv, Owned
<1>11. Shows' /\ LitAfterStartup'
  BY <1>1, <1>2, <1>3, <1>4, <1>5, <1>6 DEF IInv, Phases, Shows, LitAfterStartup, Toggles, Effective
<1> QED BY <1>7, <1>8, <1>9, <1>10, <1>11 DEF IInv

\* The backlight is suspended with its timer stopped; pb->enabled stays, and that it was lit is noted.
LEMMA BacklightSuspendKeeps ==
    ASSUME IInv, pwm_backlight_suspend
    PROVE  IInv'
<1> DEFINE q == pwm_disable(pwm_config(pwm[Light], 0, Period))
<1>1. /\ TypeOK /\ halted = "no"
      /\ system = "freezing" /\ bl.phase = "bound" /\ ~bl.suspended
      /\ pwm' = [pwm EXCEPT ![Light] = q]
      /\ bl' = [bl EXCEPT !.suspended = TRUE]
      /\ ledStarted' = FALSE /\ sleptLit' = (sleptLit \/ pwm[Light].started)
      /\ UNCHANGED <<wiring, beeper, system, raced, halted>>
  BY DEF IInv, Phases, pwm_backlight_suspend
<1>2. Piezo \in Pwms /\ Light \in Pwms /\ pwm[Piezo] \in PwmRecord /\ pwm[Light] \in PwmRecord
  BY <1>1, Wired
<1>3. /\ q \in PwmRecord /\ q.listed = pwm[Light].listed /\ q.use_count = pwm[Light].use_count
      /\ q.clock = FALSE /\ q.started = FALSE
  <2> DEFINE set == pwm_config(pwm[Light], 0, Period)
  <2>1. set \in PwmRecord /\ set.listed = pwm[Light].listed /\ set.use_count = pwm[Light].use_count
    <3>1. 0 \in Int /\ Period \in Int
      BY ClientAssumption
    <3> QED BY <1>2, <3>1, ConfigFields
  <2> HIDE DEF set
  <2>2. /\ pwm_disable(set) \in PwmRecord
        /\ pwm_disable(set).listed = pwm[Light].listed /\ pwm_disable(set).use_count = pwm[Light].use_count
        /\ pwm_disable(set).clock = FALSE /\ pwm_disable(set).started = FALSE
    BY <2>1, DisableFields
  <2> QED BY <2>2 DEF set
<1> HIDE DEF q
<1>4. pwm' \in [Pwms -> PwmRecord] /\ pwm'[Light] = q /\ \A x \in Pwms : x # Light => pwm'[x] = pwm[x]
  BY <1>1, <1>2, <1>3, OnePwm
<1>5. /\ bl' \in BlRecord /\ bl'.phase = "bound" /\ bl'.enabled = bl.enabled /\ bl'.brightness = bl.brightness
      /\ bl'.power = bl.power /\ bl'.fb_blank = bl.fb_blank /\ bl'.suspended = TRUE
  BY <1>1 DEF IInv, TypeOK, BlRecord, NoBacklight
<1>6. Piezo' = Piezo /\ Light' = Light
  BY <1>1 DEF Piezo, Light
<1>7. TypeOK'
  BY <1>1, <1>2, <1>3, <1>4, <1>5, <1>6 DEF TypeOK, BeeperRecord, BlRecord
<1>8. Owned'
  BY <1>1, <1>2, <1>3, <1>4, <1>5, <1>6 DEF IInv, Owned
<1>9. Phases'
  BY <1>1, <1>2, <1>3, <1>4, <1>5, <1>6 DEF IInv, Phases, Suspended
<1>10. Sounds'
  BY <1>1, <1>2, <1>4, PiezoAlone DEF IInv, Owned
<1>11. Shows' /\ LitAfterStartup'
  BY <1>1, <1>2, <1>3, <1>4, <1>5, <1>6 DEF IInv, Phases, Shows, LitAfterStartup, Toggles, Effective
<1> QED BY <1>7, <1>8, <1>9, <1>10, <1>11 DEF IInv

\* What pwm_backlight_update_status does with the state l of a device that is bound: it
\* stops at the BUG_ON, or the timer shows what l says.
LEMMA UpdateFields ==
    ASSUME TypeOK, NEW l \in BlRecord, pwm_backlight_update_status(l),
           Effective(l) = 0 \/ Effective(l) = l.brightness
    PROVE  \/ /\ pwm_backlight_get_duty_ns(l.brightness) > Period /\ Effective(l) = l.brightness
              /\ halted' = "assertion" /\ bl' = l /\ UNCHANGED <<pwm, ledStarted, sleptLit>>
           \/ /\ halted' = halted
              /\ bl' \in BlRecord /\ bl'.phase = l.phase /\ bl'.brightness = l.brightness /\ bl'.power = l.power
              /\ bl'.fb_blank = l.fb_blank /\ bl'.suspended = l.suspended
              /\ bl'.enabled <=> Effective(l) # 0
              /\ Effective(l) # 0 => pwm_backlight_get_duty_ns(l.brightness) <= Period
              /\ pwm' \in [Pwms -> PwmRecord] /\ \A x \in Pwms : x # Light => pwm'[x] = pwm[x]
              /\ pwm'[Light].listed = pwm[Light].listed /\ pwm'[Light].use_count = pwm[Light].use_count
              /\ pwm'[Light].clock <=> Effective(l) # 0
              /\ pwm'[Light].started <=> Effective(l) # 0
              /\ Effective(l) # 0 => /\ pwm'[Light].load = pwm_calc_value(Period)
                                     /\ pwm'[Light].match = pwm_calc_value(Signed(Period - Duty(Effective(l))))
                                     /\ l.brightness \in 0..MaxBrightness =>
                                            pwm'[Light].load <= pwm'[Light].match /\ pwm'[Light].match <= LoadMin
              /\ ledStarted' \in BOOLEAN /\ sleptLit' \in BOOLEAN
              /\ Effective(l) # 0 => (ledStarted' <=> ledStarted \/ ~l.enabled) /\ sleptLit' = sleptLit
<1> DEFINE b == Effective(l)
<1>1. Light \in Pwms /\ pwm[Light] \in PwmRecord /\ Period \in Int /\ 0 \in Int
  BY Wired, ClientAssumption
<1>2. CASE b = 0
  <2> DEFINE set == pwm_config(pwm[Light], 0, Period)
             q == pwm_disable(set)
  <2>1. /\ pwm' = [pwm EXCEPT ![Light] = q]
        /\ bl' = [l EXCEPT !.enabled = FALSE]
        /\ ledStarted' = FALSE /\ sleptLit' = FALSE /\ halted' = halted
    BY <1>2 DEF pwm_backlight_update_status
  <2>2. set \in PwmRecord /\ set.listed = pwm[Light].listed /\ set.use_count = pwm[Light].use_count
    BY <1>1, ConfigFields
  <2> HIDE DEF set
  <2>3. /\ q \in PwmRecord /\ q.listed = pwm[Light].listed /\ q.use_count = pwm[Light].use_count
        /\ q.clock = FALSE /\ q.started = FALSE
    BY <2>2, DisableFields
  <2> HIDE DEF q
  <2>4. pwm' \in [Pwms -> PwmRecord] /\ pwm'[Light] = q /\ \A x \in Pwms : x # Light => pwm'[x] = pwm[x]
    BY <1>1, <2>1, <2>3, OnePwm
  <2>5. /\ bl' \in BlRecord /\ bl'.phase = l.phase /\ bl'.brightness = l.brightness /\ bl'.power = l.power
        /\ bl'.fb_blank = l.fb_blank /\ bl'.suspended = l.suspended /\ bl'.enabled = FALSE
    BY <2>1 DEF BlRecord
  <2> QED BY <1>2, <2>1, <2>3, <2>4, <2>5
<1>3. CASE b # 0 /\ pwm_backlight_get_duty_ns(b) > Period
  BY <1>3 DEF pwm_backlight_update_status
<1>4. CASE b # 0 /\ ~(pwm_backlight_get_duty_ns(b) > Period)
  <2> DEFINE set == pwm_config(pwm[Light], Duty(b), Period)
             q == pwm_enable(set)
  <2>1. /\ pwm' = [pwm EXCEPT ![Light] = q]
        /\ bl' = [l EXCEPT !.enabled = TRUE]
        /\ ledStarted' = (ledStarted \/ ~l.enabled) /\ sleptLit' = sleptLit /\ halted' = halted
    BY <1>4 DEF pwm_backlight_update_status
  <2>2. b \in Int /\ b = l.brightness
    BY <1>4 DEF BlRecord
  <2>3. pwm_backlight_get_duty_ns(b) \in Nat
    BY <2>2, PulseType
  <2>4. pwm_backlight_get_duty_ns(b) <= Period
    BY <1>1, <1>4, <2>3
  <2>5. Duty(b) \in Int /\ (b \in 0..MaxBrightness => Duty(b) \in 0..Period)
    BY <2>2, DutyType
  <2>6. /\ set \in PwmRecord /\ set.listed = pwm[Light].listed /\ set.use_count = pwm[Light].use_count
        /\ set.load = pwm_calc_value(Period) /\ set.match = pwm_calc_value(Signed(Period - Duty(b)))
    BY <1>1, <2>5, ConfigFields
  <2> HIDE DEF set
  <2>7. b \in 0..MaxBrightness => set.load <= set.match /\ set.match <= LoadMin
    <3> SUFFICES ASSUME b \in 0..MaxBrightness PROVE set.load <= set.match /\ set.match <= LoadMin
      OBVIOUS
    <3>1. /\ Period - Duty(b) \in Nat /\ Period - Duty(b) <= Period /\ Period \in Nat
          /\ 2 * (Period - Duty(b)) < CounterModulus
      BY <2>5, ClientAssumption, Modulus
    <3>2. Signed(Period - Duty(b)) = Period - Duty(b)
      BY <3>1, Words
    <3> QED BY <2>6, <3>1, <3>2, CalcOrder, PeriodFits
  <2>8. /\ q \in PwmRecord /\ q.listed = pwm[Light].listed /\ q.use_count = pwm[Light].use_count
         /\ q.clock = TRUE /\ q.started = TRUE /\ q.load = set.load /\ q.match = set.match
    BY <2>6, EnableFields
  <2> HIDE DEF q
  <2>9. pwm' \in [Pwms -> PwmRecord] /\ pwm'[Light] = q /\ \A x \in Pwms : x # Light => pwm'[x] = pwm[x]
    BY <1>1, <2>1, <2>8, OnePwm
  <2>10. /\ bl' \in BlRecord /\ bl'.phase = l.phase /\ bl'.brightness = l.brightness /\ bl'.power = l.power
         /\ bl'.fb_blank = l.fb_blank /\ bl'.suspended = l.suspended /\ bl'.enabled = TRUE
    BY <2>1 DEF BlRecord
  <2>11. ledStarted' \in BOOLEAN /\ sleptLit' \in BOOLEAN /\ (ledStarted' <=> ledStarted \/ ~l.enabled)
    BY <2>1 DEF TypeOK
  <2> QED BY <1>4, <2>1, <2>2, <2>4, <2>6, <2>7, <2>8, <2>9, <2>10, <2>11
<1> QED BY <1>2, <1>3, <1>4

\* Every caller of pwm_backlight_update_status leaves the backlight as its state says.  The
\* BUG_ON is reached from probe only.
LEMMA UpdateKeeps ==
    ASSUME IInv, NEW l \in BlRecord, halted = "no", system # "asleep", l.phase = "bound", ~l.suspended,
           bl.phase # "unbound", l.enabled = bl.enabled,
           \/ pwm_backlight_get_duty_ns(l.brightness) <= Period
           \/ bl.phase = "requested" /\ l.power = "on" /\ l.fb_blank = "on",
           bl.phase = "requested" \/ bl.phase = "bound",
           pwm_backlight_update_status(l), UNCHANGED <<wiring, beeper, system, raced>>
    PROVE  /\ IInv'
           /\ halted' = "assertion" =>
                  /\ bl.phase = "requested" /\ bl'.brightness = l.brightness
                  /\ pwm_backlight_get_duty_ns(l.brightness) > Period
<1>1. TypeOK /\ l.brightness \in Int /\ Piezo \in Pwms /\ Light \in Pwms /\ Piezo' = Piezo /\ Light' = Light
  BY Wired DEF IInv, Piezo, Light, BlRecord
<1>2. Effective(l) = 0 \/ Effective(l) = l.brightness
  BY DEF Effective
<1>3. l.power = "on" /\ l.fb_blank = "on" => Effective(l) = l.brightness
  BY DEF Effective
<1>4. pwm_backlight_get_duty_ns(0) <= Period
  BY DutyFits, ClientAssumption
<1>5. pwm_backlight_get_duty_ns(l.brightness) \in Int /\ Period \in Int
  BY <1>1, PulseType, ClientAssumption
<1>6. CASE /\ pwm_backlight_get_duty_ns(l.brightness) > Period
           /\ halted' = "assertion" /\ bl' = l /\ UNCHANGED <<pwm, ledStarted, sleptLit>>
  <2>1. bl.phase = "requested" /\ system = "running" /\ ~pwm[Light].started
    BY <1>5, <1>6 DEF IInv, Owned, Phases, TypeOK
  <2>2. TypeOK'
    BY <1>1, <1>6 DEF TypeOK, BlRecord
  <2>3. Owned' /\ Shows' /\ LitAfterStartup'
    BY <1>1, <1>6, <2>1 DEF Owned, Shows, LitAfterStartup
  <2>4. Phases'
    BY <1>6, <2>1 DEF IInv, Phases, Suspended
  <2>5. Sounds'
    BY <1>1, <1>6, PiezoAlone
  <2> QED BY <1>6, <2>1, <2>2, <2>3, <2>4, <2>5 DEF IInv
<1>7. CASE /\ halted' = halted
           /\ bl' \in BlRecord /\ bl'.phase = l.phase /\ bl'.brightness = l.brightness /\ bl'.power = l.power
           /\ bl'.fb_blank = l.fb_blank /\ bl'.suspended = l.suspended
           /\ bl'.enabled <=> Effective(l) # 0
           /\ Effective(l) # 0 => pwm_backlight_get_duty_ns(l.brightness) <= Period
           /\ pwm' \in [Pwms -> PwmRecord] /\ \A x \in Pwms : x # Light => pwm'[x] = pwm[x]
           /\ pwm'[Light].listed = pwm[Light].listed /\ pwm'[Light].use_count = pwm[Light].use_count
           /\ pwm'[Light].clock <=> Effective(l) # 0
           /\ pwm'[Light].started <=> Effective(l) # 0
           /\ Effective(l) # 0 => /\ pwm'[Light].load = pwm_calc_value(Period)
                                  /\ pwm'[Light].match = pwm_calc_value(Signed(Period - Duty(Effective(l))))
                                  /\ l.brightness \in 0..MaxBrightness =>
                                         pwm'[Light].load <= pwm'[Light].match /\ pwm'[Light].match <= LoadMin
           /\ ledStarted' \in BOOLEAN /\ sleptLit' \in BOOLEAN
           /\ Effective(l) # 0 => (ledStarted' <=> ledStarted \/ ~l.enabled) /\ sleptLit' = sleptLit
  <2>1. TypeOK'
    BY <1>1, <1>7 DEF TypeOK, BlRecord
  <2>2. Owned'
    BY <1>1, <1>7 DEF IInv, Owned
  <2>3. Phases'
    BY <1>7 DEF IInv, Phases, Suspended
  <2>4. Sounds'
    BY <1>1, <1>7, PiezoAlone DEF IInv, Owned
  <2>5. Effective(bl)' = Effective(l)
    BY <1>7 DEF Effective
  <2>6. pwm_backlight_get_duty_ns(l.brightness) <= Period
    BY <1>3, <1>4, <1>7
  <2>7. bl.enabled => ledStarted \/ sleptLit
    BY DEF IInv, Owned, Shows
  <2>8. Shows'
    BY <1>1, <1>7, <2>5, <2>6, <2>7 DEF Shows, Toggles
  <2>9. LitAfterStartup'
    BY <1>1, <1>7, <2>7 DEF LitAfterStartup
  <2> QED BY <1>7, <2>1, <2>2, <2>3, <2>4, <2>8, <2>9 DEF IInv
<1> QED BY <1>1, <1>2, <1>6, <1>7, UpdateFields

\* A device that is bound, with a brightness the period can hold, does not reach the BUG_ON.
LEMMA UpdateFits ==
    ASSUME IInv, NEW l \in BlRecord, halted = "no", system # "asleep", bl.phase = "bound", l.phase = "bound",
           ~l.suspended, l.enabled = bl.enabled,
           pwm_backlight_get_duty_ns(l.brightness) <= Period,
           pwm_backlight_update_status(l), UNCHANGED <<wiring, beeper, system, raced>>
    PROVE  IInv' /\ halted' # "assertion"
BY UpdateKeeps

\* A write of brightness is refused above the maximum.
LEMMA StoreBrightnessKeeps ==
    ASSUME IInv, NEW b \in 0..MaxBrightness + 1, backlight_store_brightness(b)
    PROVE  IInv' /\ halted' # "assertion"
<1> DEFINE l == [bl EXCEPT !.brightness = b]
<1>1. /\ bl \in BlRecord /\ halted = "no" /\ system # "asleep" /\ bl.phase = "bound"
      /\ ~bl.suspended /\ b <= MaxBrightness
      /\ pwm_backlight_update_status(l) /\ UNCHANGED <<wiring, beeper, system, raced>>
  BY DEF IInv, TypeOK, BlRecord, Phases, Running, backlight_store_brightness
<1>2. pwm_backlight_get_duty_ns(bl.brightness) <= Period
  BY <1>1 DEF IInv, Shows
<1>3. /\ l \in BlRecord /\ l.phase = "bound" /\ ~l.suspended /\ l.enabled = bl.enabled
      /\ l.brightness = b
  BY <1>1, <1>2 DEF BlRecord
<1> HIDE DEF l
<1>4. pwm_backlight_get_duty_ns(l.brightness) <= Period
  BY <1>1, <1>3, DutyFits, ClientAssumption
<1> QED BY <1>1, <1>3, <1>4, UpdateFits

\* Power, blanking and resume leave the brightness as it is.
LEMMA StorePowerKeeps ==
    ASSUME IInv, NEW v \in {"on", "off"}, backlight_store_power(v)
    PROVE  IInv' /\ halted' # "assertion"
<1> DEFINE l == [bl EXCEPT !.power = v]
<1>1. /\ bl \in BlRecord /\ halted = "no" /\ system # "asleep" /\ bl.phase = "bound"
      /\ ~bl.suspended
      /\ pwm_backlight_update_status(l) /\ UNCHANGED <<wiring, beeper, system, raced>>
  BY DEF IInv, TypeOK, BlRecord, Phases, Running, backlight_store_power
<1>2. pwm_backlight_get_duty_ns(bl.brightness) <= Period
  BY <1>1 DEF IInv, Shows
<1>3. /\ l \in BlRecord /\ l.phase = "bound" /\ ~l.suspended /\ l.enabled = bl.enabled
      /\ l.brightness = bl.brightness
  BY <1>1, <1>2 DEF BlRecord
<1> HIDE DEF l
<1>4. pwm_backlight_get_duty_ns(l.brightness) <= Period
  BY <1>2, <1>3
<1> QED BY <1>1, <1>3, <1>4, UpdateFits

\* The framebuffer's blanking.
LEMMA FbNotifierKeeps ==
    ASSUME IInv, NEW v \in {"on", "off"}, fb_notifier_callback(v)
    PROVE  IInv' /\ halted' # "assertion"
<1> DEFINE l == [bl EXCEPT !.fb_blank = v]
<1>1. /\ bl \in BlRecord /\ halted = "no" /\ system # "asleep" /\ bl.phase = "bound"
      /\ ~bl.suspended
      /\ pwm_backlight_update_status(l) /\ UNCHANGED <<wiring, beeper, system, raced>>
  BY DEF IInv, TypeOK, BlRecord, Phases, Running, fb_notifier_callback
<1>2. pwm_backlight_get_duty_ns(bl.brightness) <= Period
  BY <1>1 DEF IInv, Shows
<1>3. /\ l \in BlRecord /\ l.phase = "bound" /\ ~l.suspended /\ l.enabled = bl.enabled
      /\ l.brightness = bl.brightness
  BY <1>1, <1>2 DEF BlRecord
<1> HIDE DEF l
<1>4. pwm_backlight_get_duty_ns(l.brightness) <= Period
  BY <1>2, <1>3
<1> QED BY <1>1, <1>3, <1>4, UpdateFits

\* Resume.
LEMMA BacklightResumeKeeps ==
    ASSUME IInv, pwm_backlight_resume
    PROVE  IInv' /\ halted' # "assertion"
<1> DEFINE l == [bl EXCEPT !.suspended = FALSE]
<1>1. /\ bl \in BlRecord /\ halted = "no" /\ system # "asleep" /\ bl.phase = "bound"
      /\ bl.suspended
      /\ pwm_backlight_update_status(l) /\ UNCHANGED <<wiring, beeper, system, raced>>
  BY DEF IInv, TypeOK, BlRecord, Phases, Running, pwm_backlight_resume
<1>2. pwm_backlight_get_duty_ns(bl.brightness) <= Period
  BY <1>1 DEF IInv, Shows
<1>3. /\ l \in BlRecord /\ l.phase = "bound" /\ ~l.suspended /\ l.enabled = bl.enabled
      /\ l.brightness = bl.brightness
  BY <1>1, <1>2 DEF BlRecord
<1> HIDE DEF l
<1>4. pwm_backlight_get_duty_ns(l.brightness) <= Period
  BY <1>2, <1>3
<1> QED BY <1>1, <1>3, <1>4, UpdateFits

\* The state of the device that probe hands to pwm_backlight_update_status.
LEMMA ProbedFields ==
    ASSUME NEW r \in BlRecord, NEW c \in Int
    PROVE  LET l == [r EXCEPT !.phase = "bound", !.brightness = c]
           IN  /\ l \in BlRecord /\ l.phase = "bound" /\ l.brightness = c /\ l.enabled = r.enabled
               /\ l.power = r.power /\ l.fb_blank = r.fb_blank /\ l.suspended = r.suspended
<1> DEFINE l == [r EXCEPT !.phase = "bound", !.brightness = c]
<1>1. l \in BlRecord
  BY DEF BlRecord
<1>2. l.phase = "bound" /\ l.brightness = c
  BY DEF BlRecord
<1>3. l.enabled = r.enabled /\ l.power = r.power
  BY DEF BlRecord
<1>4. l.fb_blank = r.fb_blank /\ l.suspended = r.suspended
  BY DEF BlRecord
<1> QED BY <1>1, <1>2, <1>3, <1>4

\* probe shows the brightness of the command line, or the default, and reaches the BUG_ON
\* only with one out of the scale.
LEMMA BacklightProbeKeeps ==
    ASSUME IInv, NEW b \in CommandLine, pwm_backlight_probe(b)
    PROVE  /\ IInv'
           /\ halted' = "assertion" => bl.phase = "requested" /\ bl'.brightness \notin 0..MaxBrightness
<1> DEFINE c == IF b # -1 THEN b ELSE DefaultBrightness
           l == [bl EXCEPT !.phase = "bound", !.brightness = c]
<1>1. /\ bl \in BlRecord /\ halted = "no" /\ system = "running" /\ ~bl.suspended
      /\ bl.phase = "requested" /\ bl.power = "on" /\ bl.fb_blank = "on"
      /\ pwm_backlight_update_status(l) /\ UNCHANGED <<wiring, beeper, system, raced>>
  BY DEF IInv, TypeOK, BlRecord, Owned, Phases, Running, pwm_backlight_probe
<1>2. c \in Int
  BY ClientAssumption
<1> HIDE DEF c
<1>3. l \in BlRecord /\ l.phase = "bound" /\ l.brightness = c
  BY <1>1, <1>2, ProbedFields
<1>4. l.enabled = bl.enabled /\ ~l.suspended /\ l.power = "on" /\ l.fb_blank = "on"
  BY <1>1, <1>2, ProbedFields
<1> HIDE DEF l
<1>5. IInv' /\ (halted' = "assertion" => bl'.brightness = c /\ pwm_backlight_get_duty_ns(c) > Period)
  BY <1>1, <1>2, <1>3, <1>4, UpdateKeeps
<1>6. pwm_backlight_get_duty_ns(c) > Period => c \notin 0..MaxBrightness
  <2>1. c \in 0..MaxBrightness => pwm_backlight_get_duty_ns(c) <= Period
    BY DutyFits
  <2> QED BY <1>2, <2>1, PulseType, ClientAssumption
<1> QED BY <1>1, <1>5, <1>6

-----------------------------------------------------------------------------

\* A PWM that appears is nobody's.
LEMMA PwmProbeKeeps ==
    ASSUME IInv, NEW p \in Pwms, omap_pwm_probe(p)
    PROVE  IInv'
<1>1. /\ TypeOK /\ halted = "no" /\ system = "running" /\ ~pwm[p].listed
      /\ pwm' = [pwm EXCEPT ![p] = Probed]
      /\ UNCHANGED <<wiring, beeper, bl, system, ledStarted, sleptLit, raced, halted>>
  BY DEF IInv, omap_pwm_probe, Running
<1>2. Probed \in PwmRecord /\ ~Probed.started
  <2>1. Absent \in PwmRecord /\ ~Absent.started
    BY PwmAssumption DEF Absent, PwmRecord, LoadMin
  <2>2. [Absent EXCEPT !.listed = TRUE, !.clock = TRUE] \in PwmRecord
    BY <2>1 DEF PwmRecord
  <2>3. ~[Absent EXCEPT !.listed = TRUE, !.clock = TRUE].started
    BY <2>1 DEF PwmRecord
  <2> QED BY <2>2, <2>3 DEF Probed
<1>3. pwm' \in [Pwms -> PwmRecord] /\ pwm'[p] = Probed /\ \A x \in Pwms : x # p => pwm'[x] = pwm[x]
  BY <1>1, <1>2, OnePwm
<1>4. Piezo \in Pwms /\ Light \in Pwms /\ Piezo' = Piezo /\ Light' = Light
  BY <1>1, Wired DEF Piezo, Light
<1>5. (beeper.phase # "unbound" => pwm'[Piezo] = pwm[Piezo]) /\ (bl.phase # "unbound" => pwm'[Light] = pwm[Light])
  BY <1>1, <1>3, <1>4 DEF IInv, Owned
<1>6. TypeOK'
  BY <1>1, <1>3 DEF TypeOK
<1>7. Owned'
  BY <1>1, <1>2, <1>3, <1>4, <1>5 DEF IInv, Owned
<1>8. Phases'
  BY <1>1 DEF IInv, Phases, Suspended
<1>9. Sounds' /\ Shows' /\ LitAfterStartup'
  BY <1>1, <1>5, PiezoAlone, LightAlone
<1> QED BY <1>6, <1>7, <1>8, <1>9 DEF IInv

\* A PWM that goes away takes nothing from a client, or the model stops.
LEMMA PwmRemoveKeeps ==
    ASSUME IInv, NEW p \in Pwms, omap_pwm_remove(p)
    PROVE  IInv'
<1>1. /\ TypeOK /\ halted = "no" /\ system = "running"
      /\ pwm' = [pwm EXCEPT ![p] = Absent]
      /\ halted' = (IF pwm[p].use_count > 0 THEN "dangling" ELSE "no")
      /\ UNCHANGED <<wiring, beeper, bl, system, ledStarted, sleptLit, raced>>
  BY DEF IInv, omap_pwm_remove, Running
<1>2. Absent \in PwmRecord /\ ~Absent.started /\ Absent.use_count = 0
  BY PwmAssumption DEF Absent, PwmRecord, LoadMin
<1>3. pwm' \in [Pwms -> PwmRecord] /\ pwm'[p] = Absent /\ \A x \in Pwms : x # p => pwm'[x] = pwm[x]
  BY <1>1, <1>2, OnePwm
<1>4. Piezo \in Pwms /\ Light \in Pwms /\ Piezo' = Piezo /\ Light' = Light
  BY <1>1, Wired DEF Piezo, Light
<1>5. TypeOK'
  BY <1>1, <1>3 DEF TypeOK
<1>6. Phases'
  BY <1>1 DEF IInv, Phases, Suspended
<1>7. CASE pwm[p].use_count > 0
  <2>1. Owned' /\ Sounds' /\ Shows'
    BY <1>1, <1>7 DEF IInv, Owned, Sounds, Shows
  <2>2. LitAfterStartup'
    BY <1>1, <1>2, <1>3, <1>4 DEF IInv, LitAfterStartup
  <2> QED BY <1>5, <1>6, <2>1, <2>2 DEF IInv
<1>8. CASE pwm[p].use_count = 0
  <2>1. (beeper.phase # "unbound" => pwm'[Piezo] = pwm[Piezo]) /\ (bl.phase # "unbound" => pwm'[Light] = pwm[Light])
    BY <1>1, <1>3, <1>4, <1>8 DEF IInv, Owned
  <2>2. Owned'
    BY <1>1, <1>2, <1>3, <1>4, <2>1 DEF IInv, Owned
  <2>3. Sounds' /\ Shows' /\ LitAfterStartup'
    BY <1>1, <2>1, PiezoAlone, LightAlone
  <2> QED BY <1>5, <1>6, <2>2, <2>3 DEF IInv
<1>9. pwm[p].use_count \in {0, 1}
  BY <1>1 DEF TypeOK, PwmRecord
<1> QED BY <1>7, <1>8, <1>9

\* The system sleeps when both devices are suspended, and runs when both have resumed.
LEMMA PmKeeps ==
    ASSUME IInv, Pm
    PROVE  IInv'
<1>1. /\ TypeOK /\ halted = "no" /\ system' \in {"running", "freezing", "asleep", "waking"}
      /\ UNCHANGED <<wiring, pwm, beeper, bl, ledStarted, sleptLit, raced, halted>>
  BY DEF IInv, Pm, Freeze, Sleep, Abort, Wake, Thaw, PmStep
<1>2. TypeOK'
  BY <1>1 DEF TypeOK
<1>3. Owned'
  BY <1>1 DEF IInv, Owned, Piezo, Light
<1>4. Phases'
  BY <1>1 DEF IInv, Phases, Suspended, Pm, Freeze, Sleep, Abort, Wake, Thaw, PmStep
<1>5. Sounds' /\ Shows' /\ LitAfterStartup'
  BY <1>1, PiezoAlone, LightAlone
<1> QED BY <1>2, <1>3, <1>4, <1>5 DEF IInv

-----------------------------------------------------------------------------

\* The inductive invariant of the PWM and its clients, across binding, use, suspend, resume
\* and unbinding of both, on a PWM each or on one they share.
THEOREM PwmInductive == Spec => []IInv
<1>1. Init => IInv
  <2> SUFFICES ASSUME Init PROVE IInv
    OBVIOUS
  <2>1. Absent \in PwmRecord /\ ~Absent.started
    BY PwmAssumption DEF Absent, PwmRecord, LoadMin
  <2>2. NoBeeper \in BeeperRecord /\ NoBacklight \in BlRecord
    BY DEF NoBeeper, BeeperRecord, NoBacklight, BlRecord
  <2>3. TypeOK
    BY <2>1, <2>2 DEF Init, TypeOK, BeeperRecord, BlRecord
  <2>4. beeper.phase = "unbound" /\ bl.phase = "unbound" /\ ~beeper.suspended /\ ~bl.suspended /\ beeper.period = 0
    BY DEF Init, NoBeeper, NoBacklight
  <2>5. Owned
    BY <2>1, <2>4 DEF Init, Owned
  <2>6. Fits(0)
    BY SilenceFits
  <2> QED BY <2>3, <2>4, <2>5, <2>6 DEF Init, IInv, Phases, Sounds, Shows, LitAfterStartup
<1>2. IInv /\ [Next]_vars => IInv'
  <2> SUFFICES ASSUME IInv, [Next]_vars PROVE IInv'
    OBVIOUS
  <2>1. ASSUME NEW p \in Pwms, omap_pwm_probe(p) \/ omap_pwm_remove(p) PROVE IInv'
    BY <2>1, PwmProbeKeeps, PwmRemoveKeeps
  <2>2. CASE Beeper
    BY <2>2, RegisterKeeps, ProbeFailsKeeps, ProbeEndsKeeps, BeeperRemoveKeeps, BeeperSuspendKeeps,
       BeeperResumeKeeps, EventKeeps DEF Beeper
  <2>3. CASE Backlight
    BY <2>3, BacklightRequestKeeps, BacklightProbeFailsKeeps, BacklightRemoveKeeps, BacklightSuspendKeeps,
       BacklightResumeKeeps, StorePowerKeeps, FbNotifierKeeps, BacklightProbeKeeps, StoreBrightnessKeeps DEF Backlight
  <2>4. CASE UNCHANGED vars
    BY <2>4 DEF vars, IInv, TypeOK, Owned, Phases, Suspended, Sounds, Shows, LitAfterStartup, Piezo, Light,
       Toggles, Effective
  <2> QED BY <2>1, <2>2, <2>3, <2>4, PmKeeps DEF Next
<1> QED BY <1>1, <1>2, PTL DEF Spec

\* A driver that is bound lets the system sleep: its PWM's clocks are off.
THEOREM AlwaysClocksOffAsleep == Spec => []ClocksOffAsleep
<1>1. IInv => ClocksOffAsleep
  BY DEF IInv, Phases, Suspended, Sounds, Shows, ClocksOffAsleep
<1> QED BY <1>1, PwmInductive, PTL

\* The piezo sounds exactly when a tone was asked for last, at its frequency.
THEOREM AlwaysToneSounds == Spec => []ToneSounds
<1>1. IInv => ToneSounds
  <2> SUFFICES ASSUME IInv, Running, beeper.phase = "bound", ~raced
               PROVE  /\ pwm[Piezo].started = (beeper.period # 0)
                      /\ pwm[Piezo].started => pwm[Piezo].load = pwm_calc_value(beeper.period) /\ Toggles(Piezo)
    BY DEF ToneSounds
  <2>1. pwm[Piezo].started \in BOOLEAN
    BY Wired DEF IInv, PwmRecord
  <2>2. pwm[Piezo].started <=> beeper.period # 0
    BY DEF IInv, Phases, Sounds, Running
  <2>3. pwm[Piezo].started => pwm[Piezo].load = pwm_calc_value(beeper.period) /\ Toggles(Piezo)
    BY DEF IInv, Sounds, Running
  <2> QED BY <2>1, <2>2, <2>3
<1> QED BY <1>1, PwmInductive, PTL

\* The backlight shows the brightness it was told, with a duty the timer can produce for
\* every brightness of the scale.
THEOREM AlwaysBacklightShows == Spec => []BacklightShows
<1>1. IInv => BacklightShows
  <2> SUFFICES ASSUME IInv, Running, bl.phase = "bound"
               PROVE  /\ pwm[Light].started = (Effective(bl) # 0)
                      /\ bl.enabled = (Effective(bl) # 0)
                      /\ pwm[Light].started =>
                             /\ pwm[Light].load = pwm_calc_value(Period)
                             /\ pwm[Light].match = pwm_calc_value(Signed(Period - Duty(Effective(bl))))
                             /\ bl.brightness \in 0..MaxBrightness => Toggles(Light)
    BY DEF BacklightShows
  <2>1. pwm[Light].started \in BOOLEAN /\ bl.enabled \in BOOLEAN
    BY Wired DEF IInv, TypeOK, PwmRecord
  <2>2. (pwm[Light].started <=> Effective(bl) # 0) /\ (bl.enabled <=> Effective(bl) # 0)
    BY DEF IInv, Phases, Shows, Running
  <2>3. pwm[Light].started =>
            /\ pwm[Light].load = pwm_calc_value(Period)
            /\ pwm[Light].match = pwm_calc_value(Signed(Period - Duty(Effective(bl))))
            /\ bl.brightness \in 0..MaxBrightness => Toggles(Light)
    BY DEF IInv, Shows, Running
  <2> QED BY <2>1, <2>2, <2>3
<1> QED BY <1>1, PwmInductive, PTL

\* The LED driver is lit after its start-up only, but for a resume of what was lit.
THEOREM AlwaysLitAfterStartup == Spec => []LitAfterStartup
BY PwmInductive, PTL DEF IInv

\* Only probe reaches the BUG_ON, with a brightness of the command line above the maximum
\* or below zero, whatever int the command line gives.
THEOREM AlwaysBugOnlyFromCommandLine == Spec => BugOnlyFromCommandLine
<1> DEFINE Bug == halted # "assertion" /\ halted' = "assertion" => bl.phase = "requested" /\ bl'.brightness \notin 0..MaxBrightness
<1>1. IInv /\ [Next]_vars => [Bug]_vars
  <2> SUFFICES ASSUME IInv, Next, halted # "assertion", halted' = "assertion"
               PROVE  bl.phase = "requested" /\ bl'.brightness \notin 0..MaxBrightness
    OBVIOUS
  <2>1. ~Pm /\ ~Beeper /\ \A p \in Pwms : ~omap_pwm_probe(p) /\ ~omap_pwm_remove(p)
    BY DEF Pm, Freeze, Sleep, Abort, Wake, Thaw, PmStep, Beeper, BeeperRegister, BeeperProbeFails, BeeperProbeEnds,
       pwm_beeper_remove, pwm_beeper_suspend, pwm_beeper_resume, pwm_beeper_event, omap_pwm_probe, omap_pwm_remove
  <2>2. Backlight
    BY <2>1 DEF Next
  <2>3. PICK b \in CommandLine : pwm_backlight_probe(b)
    BY <2>2, StorePowerKeeps, FbNotifierKeeps, BacklightResumeKeeps, StoreBrightnessKeeps
       DEF Backlight, pwm_backlight_request, pwm_backlight_probe_fails, pwm_backlight_remove, pwm_backlight_suspend
  <2> QED BY <2>3, BacklightProbeKeeps
<1> QED BY <1>1, PwmInductive, PTL DEF Spec, BugOnlyFromCommandLine
===============================================================================
