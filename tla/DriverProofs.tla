----------------------------- MODULE DriverProofs ----------------------------
(***************************************************************************)
(* How the drivers come and go, for every table of steps and releases that *)
(* follows the rule of DriverLifecycle and any number of binds; and what the*)
(* rotary encoder counts between, for any number of clicks and reports.    *)
(***************************************************************************)
EXTENDS DriverLifecycle, RotaryEncoderLite, TLAPS

(***************************************************************************)
(* Binding and unbinding: what is held at each step, from the rule.        *)
(***************************************************************************)

\* held lies between base and top, less what the releases l .. a - 1 have released.
Between(base, top, releases, l, a) ==
    /\ l <= a /\ a <= Len(releases) + 1
    /\ base \ Released(releases, l, a - 1) \subseteq held
    /\ held \subseteq top \ Released(releases, l, a - 1)

\* Step i of probe is next.
Probing(i) ==
    /\ i \in 1..(Len(Probe) + 1)
    /\ MustHold(driver, i) \subseteq held
    /\ held \subseteq MayHold(driver, i)

\* The ladder was entered at the label of step i, which can fail.
Unwinding(i) ==
    /\ CanFail(Probe[i])
    /\ Between((MustHold(driver, i) \cup Probe[i].when) \ Probe[i].undoes,
               MayHold(driver, i) \ Probe[i].undoes, Cleanup, Probe[i].label, at)

\* remove began with what a whole probe holds.
Removing ==
    Between(MustHold(driver, Len(Probe) + 1), MayHold(driver, Len(Probe) + 1), Remove, 1, at)

Phases == {"unbound", "probing", "unwinding", "bound", "removing"}

\* What is held in each phase.
HeldInv ==
    /\ phase \in Phases /\ at \in Nat
    /\ phase = "unbound" => held \subseteq Known[driver].left
    /\ phase = "probing" => Probing(at)
    /\ phase = "unwinding" => \E i \in 1..Len(Probe) : Unwinding(i)
    /\ phase = "bound" => Probing(Len(Probe) + 1)
    /\ phase = "removing" => Removing

\* The callbacks that are registered find what they use.
Guarded == \A c \in held \cap DOMAIN Touches : Guards(driver, c) \subseteq held

\* The rule, what is held, what the callbacks find, and that nothing but what is
\* known was released without being held.
LifecycleInv ==
    /\ driver \in DOMAIN Drivers /\ Discipline(driver)
    /\ HeldInv
    /\ Guarded
    /\ overfreed \subseteq Known[driver].misfreed
    /\ Drivers[driver].queues = {} => ~queued /\ ~running

-----------------------------------------------------------------------------

\* Before the first step: what was left.
LEMMA MayFirst ==
    ASSUME NEW d
    PROVE  MayHold(d, 1) = Known[d].left /\ MustHold(d, 1) = {}
<1>1. 1..(1 - 1) = {} /\ 0..(1 - 1) = {0}
  OBVIOUS
<1>2. MayHold(d, 1) = UNION {{r \in TakenAt(d, j) : TRUE} : j \in {0}}
  BY <1>1 DEF MayHold
<1>3. MustHold(d, 1) = {}
  BY <1>1 DEF MustHold
<1>. QED
  BY <1>2, <1>3 DEF TakenAt

\* What may be held before step i may be after it, unless it surely lets it go.
LEMMA MayNext ==
    ASSUME NEW d, NEW i \in Nat \ {0}, NEW r,
           Certain(Drivers[d].probe[i]) => r \notin Drivers[d].probe[i].lets,
           r \in MayHold(d, i) \cup Drivers[d].probe[i].takes
    PROVE  r \in MayHold(d, i + 1)
<1>. DEFINE P == Drivers[d].probe
<1>. DEFINE n == i + 1
<1>1. n - 1 = i /\ i \in 0..i /\ 0..(i - 1) \subseteq 0..i /\ 1..i = 1..(i - 1) \cup {i} /\ i # 0
  OBVIOUS
<1>2. CASE r \in MayHold(d, i)
  <2>1. PICK j \in 0..(i - 1) :
            /\ r \in TakenAt(d, j)
            /\ \A k \in 1..(i - 1) : k >= j /\ Certain(P[k]) => r \notin P[k].lets
    BY <1>2 DEF MayHold
  <2>2. \A k \in 1..i : k >= j /\ Certain(P[k]) => r \notin P[k].lets
    BY <1>1, <2>1
  <2>3. j \in 0..i
    BY <1>1
  <2>. HIDE DEF n
  <2>4. \A k \in 1..(n - 1) : k >= j /\ Certain(P[k]) => r \notin P[k].lets
    BY <1>1, <2>2
  <2>5. j \in 0..(n - 1)
    BY <1>1, <2>3
  <2>6. r \in MayHold(d, n)
    BY <2>1, <2>4, <2>5 DEF MayHold
  <2>. QED
    BY <2>6 DEF n
<1>3. CASE r \in P[i].takes
  <2>1. r \in TakenAt(d, i)
    BY <1>1, <1>3 DEF TakenAt
  <2>2. \A k \in 1..i : k >= i /\ Certain(P[k]) => r \notin P[k].lets
    <3>. SUFFICES ASSUME NEW k \in 1..i, k >= i, Certain(P[k]) PROVE r \notin P[k].lets
      OBVIOUS
    <3>1. k = i
      OBVIOUS
    <3>. QED
      BY <3>1
  <2>. HIDE DEF n
  <2>3. \A k \in 1..(n - 1) : k >= i /\ Certain(P[k]) => r \notin P[k].lets
    BY <1>1, <2>2
  <2>4. i \in 0..(n - 1)
    BY <1>1
  <2>5. r \in MayHold(d, n)
    BY <2>1, <2>3, <2>4 DEF MayHold
  <2>. QED
    BY <2>5 DEF n
<1>. QED
  BY <1>2, <1>3

\* What must be held after step i: what had to be before it, and what it takes or
\* needs if it cannot be skipped.
LEMMA MustNext ==
    ASSUME NEW d, NEW i \in Nat \ {0}, NEW r \in MustHold(d, i + 1)
    PROVE  /\ r \notin Drivers[d].probe[i].lets
           /\ \/ r \in MustHold(d, i)
              \/ /\ Certain(Drivers[d].probe[i])
                 /\ r \in Drivers[d].probe[i].takes \cup Drivers[d].probe[i].needs
<1>. DEFINE P == Drivers[d].probe
<1>. DEFINE n == i + 1
<1>1. n - 1 = i
  OBVIOUS
<1>2. r \in MustHold(d, n)
  OBVIOUS
<1>. HIDE DEF n
<1>3. PICK j \in 1..(n - 1) :
          /\ Certain(P[j])
          /\ r \in P[j].takes \cup P[j].needs
          /\ \A k \in j..(n - 1) : r \notin P[k].lets
  BY <1>2 DEF MustHold
<1>4. j \in 1..i /\ i \in j..i /\ j..(i - 1) \subseteq j..i
  BY <1>1
<1>5. r \notin P[i].lets
  BY <1>1, <1>3, <1>4
<1>6. CASE j = i
  BY <1>3, <1>5, <1>6
<1>7. CASE j # i
  <2>1. j \in 1..(i - 1)
    BY <1>4, <1>7
  <2>2. \A k \in j..(i - 1) : r \notin P[k].lets
    BY <1>1, <1>3, <1>4
  <2>3. r \in MustHold(d, i)
    BY <1>3, <2>1, <2>2 DEF MustHold
  <2>. QED
    BY <1>5, <2>3
<1>. QED
  BY <1>6, <1>7

\* One release more.
LEMMA ReleasedNext ==
    ASSUME NEW releases, NEW l \in Nat, NEW a \in Nat, l <= a
    PROVE  Released(releases, l, a) = Released(releases, l, a - 1) \cup Gone(releases[a])
<1>1. l..a = l..(a - 1) \cup {a}
  OBVIOUS
<1>. QED
  BY <1>1 DEF Released

\* Before the first release.
LEMMA ReleasedNone ==
    ASSUME NEW releases, NEW l \in Nat
    PROVE  Released(releases, l, l - 1) = {}
<1>1. l..(l - 1) = {}
  OBVIOUS
<1>. QED
  BY <1>1 DEF Released

-----------------------------------------------------------------------------

\* A release of the ladder or of remove, under the rule.
LEMMA ReleaseKeeps ==
    ASSUME NEW releases, Len(releases) \in Nat, NEW base, NEW top, NEW l \in Nat \ {0},
           Unwinds(driver, top, base, releases, l),
           at \in Nat, at <= Len(releases), Between(base, top, releases, l, at),
           Guarded, overfreed \subseteq Known[driver].misfreed,
           driver' = driver, at' = at + 1, Release(releases[at])
    PROVE  /\ l <= at + 1 /\ at + 1 <= Len(releases) + 1 /\ at + 1 - 1 = at
           /\ base \ Released(releases, l, at) \subseteq held'
           /\ held' \subseteq top \ Released(releases, l, at)
           /\ Guarded'
           /\ overfreed' \subseteq Known[driver'].misfreed
<1>. DEFINE R == releases[at]
<1>1. l <= at /\ at \in l..Len(releases) /\ at + 1 - 1 = at /\ l <= at + 1 /\ at + 1 <= Len(releases) + 1
  BY DEF Between
<1>2. /\ base \ Released(releases, l, at - 1) \subseteq held
      /\ held \subseteq top \ Released(releases, l, at - 1)
  BY DEF Between
<1>3. Released(releases, l, at) = Released(releases, l, at - 1) \cup Gone(R)
  BY <1>1, ReleasedNext
<1>4. held' = held \ Gone(R) /\ overfreed' = IF R.checked THEN overfreed ELSE overfreed \cup (R.drops \ held)
  BY DEF Release, Gone
<1>5. /\ R.checked \/ R.drops \subseteq Known[driver].misfreed \cup (base \ Released(releases, l, at - 1))
      /\ Keeps(driver, top \ Released(releases, l, at), Gone(R))
  BY <1>1 DEF Unwinds
<1>. HIDE DEF R
<1>6. base \ Released(releases, l, at) \subseteq held' /\ held' \subseteq top \ Released(releases, l, at)
  BY <1>2, <1>3, <1>4
<1>7. overfreed' \subseteq Known[driver'].misfreed
  BY <1>2, <1>4, <1>5
<1>8. Guarded'
  <2>. SUFFICES ASSUME NEW c \in held' \cap DOMAIN Drivers[driver].touches
               PROVE  Guards(driver, c) \subseteq held'
    BY DEF Guarded, Touches
  <2>1. Guards(driver, c) \subseteq held
    BY <1>4 DEF Guarded, Touches
  <2>2. Guards(driver, c) \cap Gone(R) = {}
    BY <1>5, <1>6 DEF Keeps
  <2>. QED
    BY <1>4, <2>1, <2>2
<1>. QED
  BY <1>1, <1>6, <1>7, <1>8

\* The current driver and its tables.
LEMMA Tables ==
    ASSUME LifecycleInv
    PROVE  /\ driver \in DOMAIN Drivers
           /\ Len(Probe) \in Nat /\ Len(Cleanup) \in Nat /\ Len(Remove) \in Nat
           /\ \A i \in 1..Len(Probe) : StepInOrder(driver, i)
           /\ Unwinds(driver, MayHold(driver, Len(Probe) + 1), MustHold(driver, Len(Probe) + 1), Remove, 1)
           /\ Drivers[driver].queues # {} => Guards(driver, "work") = {}
BY LifecycleAssumption DEF LifecycleInv, Discipline, Probe, Cleanup, Remove

\* What a step of probe holds afterwards.
LEMMA StepKeepsBounds ==
    ASSUME LifecycleInv, AtStep, Probing(at), driver' = driver, at' = at + 1,
           \/ held' = (held \cup Probe[at].takes) \ Probe[at].lets /\ Probe[at].needs \subseteq held
           \/ held' = held /\ ~Certain(Probe[at])
    PROVE  /\ at' \in 1..(Len(Probe) + 1)
           /\ MustHold(driver, at + 1) \subseteq held'
           /\ held' \subseteq MayHold(driver, at + 1)
<1>1. Len(Probe) \in Nat
  BY Tables
<1>2. at \in 1..Len(Probe) /\ at \in Nat \ {0} /\ at + 1 \in 1..(Len(Probe) + 1)
  BY <1>1 DEF AtStep, Probing
<1>3. MustHold(driver, at) \subseteq held /\ held \subseteq MayHold(driver, at)
  BY DEF Probing
<1>. DEFINE s == Probe[at]
<1>4. s = Drivers[driver].probe[at]
  BY DEF Probe
<1>. HIDE DEF s
<1>5. ASSUME NEW r \in held' PROVE r \in MayHold(driver, at + 1)
  <2>1. r \in MayHold(driver, at) \cup s.takes
    BY <1>3, <1>5 DEF s
  <2>2. Certain(s) => r \notin s.lets
    BY <1>5 DEF s
  <2>. QED
    BY <1>2, <1>4, <2>1, <2>2, MayNext
<1>6. ASSUME NEW r \in MustHold(driver, at + 1) PROVE r \in held'
  <2>1. /\ r \notin s.lets
        /\ r \in MustHold(driver, at) \/ (Certain(s) /\ r \in s.takes \cup s.needs)
    BY <1>2, <1>4, <1>6, MustNext
  <2>2. CASE r \in MustHold(driver, at)
    BY <1>3, <2>1, <2>2 DEF s
  <2>3. CASE Certain(s) /\ r \in s.takes \cup s.needs
    BY <2>1, <2>3 DEF s
  <2>. QED
    BY <2>1, <2>2, <2>3
<1>. QED
  BY <1>2, <1>5, <1>6

\* The steps of probe and of its ladder keep the invariant.
LEMMA BindKeeps ==
    ASSUME LifecycleInv, Bind
    PROVE  LifecycleInv'
<1>. USE DEF LifecycleInv, HeldInv
<1>0. /\ Len(Probe) \in Nat /\ Len(Cleanup) \in Nat /\ Len(Remove) \in Nat
      /\ \A i \in 1..Len(Probe) : StepInOrder(driver, i)
  BY Tables
<1>1. UNCHANGED <<driver, queued, running>>
  BY DEF Bind, ProbeStart, StepSucceeds, StepSkipped, StepFails, ProbeDone, Unwind, ProbeFailed
<1>2. UNCHANGED <<Probe, Cleanup, Remove, Touches>>
  BY <1>1 DEF Probe, Cleanup, Remove, Touches
<1>3. ASSUME HeldInv', Guarded', overfreed' \subseteq Known[driver'].misfreed PROVE LifecycleInv'
  BY <1>1, <1>3
<1>4. ASSUME UNCHANGED <<held, overfreed>> PROVE Guarded' /\ overfreed' \subseteq Known[driver'].misfreed
  BY <1>1, <1>2, <1>4 DEF Guarded
<1>5. CASE ProbeStart
  <2>1. phase = "unbound" /\ phase' = "probing" /\ at' = 1 /\ UNCHANGED <<held, overfreed>>
    BY <1>5 DEF ProbeStart, Enter
  <2>2. MayHold(driver, 1) = Known[driver].left /\ MustHold(driver, 1) = {}
    BY MayFirst
  <2>3. Probing(at)'
    BY <1>0, <1>1, <1>2, <2>1, <2>2 DEF Probing
  <2>4. HeldInv'
    BY <2>1, <2>3 DEF Phases
  <2>. QED
    BY <1>3, <1>4, <2>1, <2>4
<1>6. CASE StepSucceeds
  <2>1. /\ AtStep /\ phase' = "probing" /\ at' = at + 1 /\ overfreed' = overfreed
        /\ Probe[at].when \subseteq held /\ Probe[at].needs \subseteq held
        /\ held' = (held \cup Probe[at].takes) \ Probe[at].lets
    BY <1>6 DEF StepSucceeds, Enter
  <2>2. Probing(at)
    BY <2>1 DEF AtStep
  <2>3. Probing(at)'
    BY <1>1, <1>2, <2>1, <2>2, StepKeepsBounds DEF Probing
  <2>4. HeldInv'
    BY <2>1, <2>3 DEF Phases
  <2>5. at \in 1..Len(Probe)
    BY <1>0, <2>1, <2>2 DEF AtStep, Probing
  <2>. DEFINE s == Probe[at]
  <2>6. /\ \A c \in (s.takes \ s.lets) \cap DOMAIN Touches :
              Guards(driver, c) \subseteq (MustHold(driver, at) \cup s.when \cup s.needs \cup s.takes) \ s.lets
        /\ Keeps(driver, (MayHold(driver, at) \cup s.takes) \ s.lets, s.lets)
    BY <1>0, <2>5 DEF StepInOrder, Probe, Touches
  <2>7. MustHold(driver, at) \subseteq held /\ held \subseteq MayHold(driver, at)
    BY <2>2 DEF Probing
  <2>. HIDE DEF s
  <2>8. held' = (held \cup s.takes) \ s.lets /\ s.when \subseteq held /\ s.needs \subseteq held
    BY <2>1 DEF s
  <2>9. Guarded'
    <3>. SUFFICES ASSUME NEW c \in held' \cap DOMAIN Touches
                 PROVE  Guards(driver, c) \subseteq held'
      BY <1>1, <1>2 DEF Guarded
    <3>1. CASE c \in held
      <4>1. Guards(driver, c) \subseteq held
        BY <3>1 DEF Guarded
      <4>2. Guards(driver, c) \cap s.lets = {}
        BY <2>6, <2>7, <2>8 DEF Keeps, Touches
      <4>. QED
        BY <2>8, <4>1, <4>2
    <3>2. CASE c \notin held
      <4>1. c \in (s.takes \ s.lets) \cap DOMAIN Touches
        BY <2>8, <3>2
      <4>2. Guards(driver, c) \subseteq (MustHold(driver, at) \cup s.when \cup s.needs \cup s.takes) \ s.lets
        BY <2>6, <4>1
      <4>. QED
        BY <2>7, <2>8, <4>2
    <3>. QED
      BY <3>1, <3>2
  <2>. QED
    BY <1>1, <1>3, <2>1, <2>4, <2>9
<1>7. CASE StepSkipped
  <2>1. /\ AtStep /\ phase' = "probing" /\ at' = at + 1 /\ UNCHANGED <<held, overfreed>>
        /\ Probe[at].optional \/ ~(Probe[at].when \subseteq held)
    BY <1>7 DEF StepSkipped, Enter
  <2>2. Probing(at) /\ ~Certain(Probe[at])
    BY <2>1 DEF AtStep, Certain
  <2>3. Probing(at)'
    BY <1>1, <1>2, <2>1, <2>2, StepKeepsBounds DEF Probing
  <2>4. HeldInv'
    BY <2>1, <2>3 DEF Phases
  <2>. QED
    BY <1>3, <1>4, <2>1, <2>4
<1>8. CASE StepFails
  <2>. DEFINE s == Probe[at]
  <2>1. /\ AtStep /\ phase' = "unwinding" /\ at' = s.label /\ overfreed' = overfreed
        /\ s.fails \/ ~(s.needs \subseteq held)
        /\ s.when \subseteq held
        /\ held' = held \ s.undoes
    BY <1>8 DEF StepFails, Enter
  <2>2. Probing(at) /\ CanFail(s)
    BY <2>1 DEF AtStep, CanFail
  <2>3. at \in 1..Len(Probe)
    BY <1>0, <2>1, <2>2 DEF AtStep, Probing
  <2>4. s.label \in 1..(Len(Cleanup) + 1) /\ Keeps(driver, MayHold(driver, at) \ s.undoes, s.undoes)
    BY <1>0, <2>2, <2>3 DEF StepInOrder, Probe, Cleanup
  <2>5. MustHold(driver, at) \subseteq held /\ held \subseteq MayHold(driver, at)
    BY <2>2 DEF Probing
  <2>6. s.label \in Nat /\ s.label <= s.label /\ s.label <= Len(Cleanup) + 1
    BY <1>0, <2>4
  <2>7. Released(Cleanup, s.label, s.label - 1) = {}
    BY <2>6, ReleasedNone
  <2>8. \E i \in 1..Len(Probe) : Unwinding(i)'
    <3>1. /\ (MustHold(driver, at) \cup s.when) \ s.undoes \subseteq held'
          /\ held' \subseteq MayHold(driver, at) \ s.undoes
      BY <2>1, <2>5
    <3>2. /\ CanFail(Probe[at])
          /\ Probe[at].label <= at' /\ at' <= Len(Cleanup) + 1
          /\ ((MustHold(driver, at) \cup Probe[at].when) \ Probe[at].undoes)
                 \ Released(Cleanup, Probe[at].label, at' - 1) \subseteq held'
          /\ held' \subseteq (MayHold(driver, at) \ Probe[at].undoes)
                 \ Released(Cleanup, Probe[at].label, at' - 1)
      BY <2>1, <2>2, <2>6, <2>7, <3>1
    <3>. QED
      BY <1>1, <1>2, <2>3, <3>2 DEF Unwinding, Between
  <2>9. HeldInv'
    BY <1>2, <2>1, <2>6, <2>8 DEF Phases
  <2>. HIDE DEF s
  <2>10. Guarded'
    <3>. SUFFICES ASSUME NEW c \in held' \cap DOMAIN Touches
                 PROVE  Guards(driver, c) \subseteq held'
      BY <1>1, <1>2 DEF Guarded
    <3>1. Guards(driver, c) \subseteq held
      BY <2>1 DEF Guarded
    <3>2. Guards(driver, c) \cap s.undoes = {}
      BY <2>1, <2>4, <2>5 DEF Keeps, Touches
    <3>. QED
      BY <2>1, <3>1, <3>2
  <2>. QED
    BY <1>1, <1>3, <2>1, <2>9, <2>10
<1>9. CASE ProbeDone
  <2>1. phase = "probing" /\ at > Len(Probe) /\ phase' = "bound" /\ at' = 1 /\ UNCHANGED <<held, overfreed>>
    BY <1>9 DEF ProbeDone, Enter
  <2>2. Probing(at) /\ at = Len(Probe) + 1
    BY <1>0, <2>1 DEF Probing
  <2>3. Probing(Len(Probe) + 1)'
    BY <1>1, <1>2, <2>1, <2>2 DEF Probing
  <2>4. HeldInv'
    BY <2>1, <2>3 DEF Phases
  <2>. QED
    BY <1>3, <1>4, <2>1, <2>4
<1>10. CASE Unwind
  <2>1. /\ phase = "unwinding" /\ phase' = "unwinding" /\ at <= Len(Cleanup) /\ at' = at + 1
        /\ Release(Cleanup[at])
    BY <1>10 DEF Unwind, Enter
  <2>2. PICK i \in 1..Len(Probe) : Unwinding(i)
    BY <2>1
  <2>. DEFINE top == MayHold(driver, i) \ Probe[i].undoes
  <2>. DEFINE base == (MustHold(driver, i) \cup Probe[i].when) \ Probe[i].undoes
  <2>3. CanFail(Probe[i]) /\ Between(base, top, Cleanup, Probe[i].label, at)
    BY <2>2 DEF Unwinding
  <2>4. Probe[i].label \in Nat \ {0} /\ Unwinds(driver, top, base, Cleanup, Probe[i].label)
    <3>1. StepInOrder(driver, i)
      BY <1>0
    <3>2. /\ Probe[i].label \in 1..(Len(Cleanup) + 1)
          /\ Unwinds(driver, top, base, Cleanup, Probe[i].label)
      BY <2>3, <3>1 DEF StepInOrder, Probe, Cleanup
    <3>. QED
      BY <1>0, <3>2
  <2>. HIDE DEF top, base
  <2>5. /\ Probe[i].label <= at + 1 /\ at + 1 <= Len(Cleanup) + 1 /\ at + 1 - 1 = at
        /\ base \ Released(Cleanup, Probe[i].label, at) \subseteq held'
        /\ held' \subseteq top \ Released(Cleanup, Probe[i].label, at)
        /\ Guarded' /\ overfreed' \subseteq Known[driver'].misfreed
    BY <1>0, <1>1, <2>1, <2>3, <2>4, ReleaseKeeps
  <2>6. Unwinding(i)'
    BY <1>1, <1>2, <2>1, <2>3, <2>5 DEF Unwinding, Between, top, base
  <2>7. HeldInv'
    BY <1>2, <2>1, <2>6 DEF Phases
  <2>. QED
    BY <1>3, <2>5, <2>7
<1>11. CASE ProbeFailed
  <2>1. phase = "unwinding" /\ at > Len(Cleanup) /\ phase' = "unbound" /\ at' = 1 /\ UNCHANGED <<held, overfreed>>
    BY <1>11 DEF ProbeFailed, Enter
  <2>2. PICK i \in 1..Len(Probe) : Unwinding(i)
    BY <2>1
  <2>. DEFINE top == MayHold(driver, i) \ Probe[i].undoes
  <2>. DEFINE base == (MustHold(driver, i) \cup Probe[i].when) \ Probe[i].undoes
  <2>3. CanFail(Probe[i]) /\ Between(base, top, Cleanup, Probe[i].label, at)
    BY <2>2 DEF Unwinding
  <2>4. Unwinds(driver, top, base, Cleanup, Probe[i].label)
    BY <1>0, <2>3 DEF StepInOrder, Probe, Cleanup
  <2>. HIDE DEF top, base
  <2>5. at - 1 = Len(Cleanup)
    BY <1>0, <2>1, <2>3 DEF Between
  <2>6. held \subseteq Known[driver].left
    BY <2>3, <2>4, <2>5 DEF Between, Unwinds
  <2>7. HeldInv'
    BY <1>1, <2>1, <2>6 DEF Phases
  <2>. QED
    BY <1>3, <1>4, <2>1, <2>7
<1>. QED
  BY <1>5, <1>6, <1>7, <1>8, <1>9, <1>10, <1>11 DEF Bind

\* So do those of remove, which begins where probe ended.
LEMMA UnbindKeeps ==
    ASSUME LifecycleInv, Unbind
    PROVE  LifecycleInv'
<1>. USE DEF LifecycleInv, HeldInv
<1>. DEFINE n == Len(Probe) + 1
<1>0. /\ Len(Probe) \in Nat /\ Len(Remove) \in Nat
      /\ Unwinds(driver, MayHold(driver, n), MustHold(driver, n), Remove, 1)
  BY Tables
<1>1. UNCHANGED <<driver, queued, running>>
  BY DEF Unbind, RemoveStart, RemoveStep, RemoveDone
<1>2. UNCHANGED <<Probe, Cleanup, Remove, Touches>>
  BY <1>1 DEF Probe, Cleanup, Remove, Touches
<1>3. ASSUME HeldInv', Guarded', overfreed' \subseteq Known[driver'].misfreed PROVE LifecycleInv'
  BY <1>1, <1>3
<1>4. ASSUME UNCHANGED <<held, overfreed>> PROVE Guarded' /\ overfreed' \subseteq Known[driver'].misfreed
  BY <1>1, <1>2, <1>4 DEF Guarded
<1>5. CASE RemoveStart
  <2>1. phase = "bound" /\ phase' = "removing" /\ at' = 1 /\ UNCHANGED <<held, overfreed>>
    BY <1>5 DEF RemoveStart, Enter
  <2>2. MustHold(driver, n) \subseteq held /\ held \subseteq MayHold(driver, n)
    BY <2>1 DEF Probing
  <2>3. Released(Remove, 1, 1 - 1) = {}
    BY ReleasedNone
  <2>4. 1 <= 1 /\ 1 <= Len(Remove) + 1
    BY <1>0
  <2>5. Removing'
    BY <1>1, <1>2, <2>1, <2>2, <2>3, <2>4 DEF Removing, Between
  <2>6. HeldInv'
    BY <2>1, <2>5 DEF Phases
  <2>. QED
    BY <1>3, <1>4, <2>1, <2>6
<1>6. CASE RemoveStep
  <2>1. /\ phase = "removing" /\ phase' = "removing" /\ at <= Len(Remove) /\ at' = at + 1
        /\ Release(Remove[at])
    BY <1>6 DEF RemoveStep, Enter
  <2>2. Between(MustHold(driver, n), MayHold(driver, n), Remove, 1, at)
    BY <2>1 DEF Removing
  <2>. HIDE DEF n
  <2>3. /\ 1 <= at + 1 /\ at + 1 <= Len(Remove) + 1 /\ at + 1 - 1 = at
        /\ MustHold(driver, n) \ Released(Remove, 1, at) \subseteq held'
        /\ held' \subseteq MayHold(driver, n) \ Released(Remove, 1, at)
        /\ Guarded' /\ overfreed' \subseteq Known[driver'].misfreed
    BY <1>0, <1>1, <2>1, <2>2, ReleaseKeeps
  <2>4. Removing'
    BY <1>1, <1>2, <2>1, <2>3 DEF Removing, Between, n
  <2>5. HeldInv'
    BY <2>1, <2>4 DEF Phases
  <2>. QED
    BY <1>3, <2>3, <2>5
<1>7. CASE RemoveDone
  <2>1. phase = "removing" /\ at > Len(Remove) /\ phase' = "unbound" /\ at' = 1 /\ UNCHANGED <<held, overfreed>>
    BY <1>7 DEF RemoveDone, Enter
  <2>2. Between(MustHold(driver, n), MayHold(driver, n), Remove, 1, at)
    BY <2>1 DEF Removing
  <2>. HIDE DEF n
  <2>3. at - 1 = Len(Remove)
    BY <1>0, <2>1, <2>2 DEF Between
  <2>4. held \subseteq Known[driver].left
    BY <1>0, <2>2, <2>3 DEF Between, Unwinds
  <2>5. HeldInv'
    BY <1>1, <2>1, <2>4 DEF Phases
  <2>. QED
    BY <1>3, <1>4, <2>1, <2>5
<1>. QED
  BY <1>5, <1>6, <1>7 DEF Unbind

\* So does the work item, which nobody cancels.
LEMMA WorkKeeps ==
    ASSUME LifecycleInv, Work
    PROVE  LifecycleInv'
<1>1. UNCHANGED <<driver, phase, at, held, overfreed>>
  BY DEF Work, Callback, WorkStart, WorkEnd
<1>2. UNCHANGED <<Probe, Cleanup, Remove, Touches>>
  BY <1>1 DEF Probe, Cleanup, Remove, Touches
<1>3. HeldInv'
  BY <1>1, <1>2 DEF LifecycleInv, HeldInv, Probing, Unwinding, Removing, Between
<1>4. Guarded'
  BY <1>1, <1>2 DEF LifecycleInv, Guarded
<1>5. Drivers[driver].queues = {} => ~queued' /\ ~running'
  BY DEF Work, Callback, WorkStart, WorkEnd, LifecycleInv
<1>. QED
  BY <1>1, <1>3, <1>4, <1>5 DEF LifecycleInv

\* A driver whose tables follow the rule keeps LifecycleInv through any number of
\* binds, failed probes and unbinds, with callbacks and work at any time.
THEOREM LifecycleInductive == LifecycleSpec /\ Disciplined => []LifecycleInv
<1>1. LifecycleInit /\ Disciplined => LifecycleInv
  BY DEF LifecycleInit, Disciplined, LifecycleInv, HeldInv, Guarded, Phases
<1>2. LifecycleInv /\ [LifecycleNext]_lifecycleVars => LifecycleInv'
  <2>. SUFFICES ASSUME LifecycleInv, [LifecycleNext]_lifecycleVars PROVE LifecycleInv'
    OBVIOUS
  <2>1. CASE UNCHANGED lifecycleVars
    <3>1. UNCHANGED <<driver, phase, at, held, queued, running, overfreed>>
      BY <2>1 DEF lifecycleVars
    <3>2. UNCHANGED <<Probe, Cleanup, Remove, Touches>>
      BY <3>1 DEF Probe, Cleanup, Remove, Touches
    <3>. QED
      BY <3>1, <3>2 DEF LifecycleInv, HeldInv, Probing, Unwinding, Removing, Between, Guarded
  <2>. QED
    BY <2>1, BindKeeps, UnbindKeeps, WorkKeeps DEF LifecycleNext
<1>. QED
  BY <1>1, <1>2, PTL DEF LifecycleSpec

\* A callback of such a driver (interrupt, timer, attribute, backlight, work item)
\* finds what it uses in place whenever it runs, but for what is known to be missed.
THEOREM AlwaysCallbacksSafe == LifecycleSpec /\ Disciplined => []CallbacksSafe
<1>1. LifecycleInv => CallbacksSafe
  <2>. SUFFICES ASSUME LifecycleInv, NEW c \in Active
               PROVE  Touches[c] \ held \subseteq Known[driver].unguarded[c]
    BY DEF CallbacksSafe
  <2>1. Guards(driver, c) = Touches[c] \ Known[driver].unguarded[c]
    BY DEF Guards, Touches
  <2>2. CASE c \in held \cap DOMAIN Touches
    BY <2>1, <2>2 DEF LifecycleInv, Guarded
  <2>3. CASE c = "work" /\ (queued \/ running)
    BY <2>1, <2>3, Tables DEF LifecycleInv
  <2>. QED
    BY <2>2, <2>3 DEF Active
<1>. QED
  BY <1>1, LifecycleInductive, PTL

\* Neither the error ladder of its probe nor its remove releases what is not held,
\* from whatever step the goto came, but for what is known.
THEOREM AlwaysNothingFreedTwice == LifecycleSpec /\ Disciplined => []NothingFreedTwice
<1>1. LifecycleInv => NothingFreedTwice
  BY DEF LifecycleInv, NothingFreedTwice
<1>. QED
  BY <1>1, LifecycleInductive, PTL

\* However often it is bound, fails or is removed, it leaves only what is known.
THEOREM AlwaysLeavesOnly == LifecycleSpec /\ Disciplined => []LeavesOnly
<1>1. LifecycleInv => LeavesOnly
  BY DEF LifecycleInv, HeldInv, LeavesOnly
<1>. QED
  BY <1>1, LifecycleInductive, PTL

-----------------------------------------------------------------------------
(***************************************************************************)
(* The rotary encoder: positions modulo 256, and the one edge it latches.  *)
(***************************************************************************)

\* The eight-bit positions follow the true count modulo 256.
Modulo ==
    /\ accumulatedPosition = (lastPositionSent + unreported) % 256
    /\ lastPositionSent = delivered % 256
    /\ burst = "no" => unreported \in -128..127

\* Without an overrun every click since the request is accounted for.
Accounted ==
    overruns = 0 /\ early = "no" /\ burst = "no" =>
        turned = delivered + unreported + Uncounted + discarded

\* A latched edge holds the flip-flop, and a flip-flop set after the request
\* has its edge latched.
Latched ==
    /\ edge = 1 => flipflop = 1
    /\ stage # "quiet" /\ flipflop = 1 /\ early = "no" => edge = 1

\* What has not been started has not counted or reported anything.
NotStarted ==
    /\ stage = "quiet" => edge = 0 /\ turned = 0 /\ unreported = 0 /\ discarded = 0
    /\ stage # "timer" => lastPositionSent = 0 /\ delivered = 0

Inv == TypeOK /\ Modulo /\ Accounted /\ Latched /\ NotStarted

\* The conversion to int8_t recovers a count from two eight-bit positions.
LEMMA ToInt8OfDifference ==
    \A l \in 0..255, u \in -128..127, a \in Int : a = (l + u) % 256 => ToInt8(a - l) = u
BY DEF ToInt8

\* Reporting a difference moves the reported sum to the new position.
LEMMA ReportModulo ==
    ASSUME NEW d \in Int, NEW a \in 0..255
    PROVE  (d + ToInt8(a - (d % 256))) % 256 = a
BY DEF ToInt8

\* Counting one click commutes with reduction modulo 256.
LEMMA ModPlus ==
    ASSUME NEW a \in Int, NEW s \in {-1, 1}
    PROVE  ((a % 256) + s) % 256 = (a + s) % 256
OBVIOUS

\* A click counts one step, in one of the two directions.
LEMMA SignType == \A l : Sign(l) \in {-1, 1}
BY DEF Sign

\* The flip-flop holds one click that is not counted yet, or none.
LEMMA UncountedFacts ==
    /\ edge = 1 => Uncounted = Sign(b)
    /\ edge = 0 => Uncounted = 0
    /\ Uncounted \in Int
BY SignType DEF Uncounted

\* Wraparound, interrupt, timer and probe interleaved in any way keep Inv.
THEOREM RotaryInductive == Spec => []Inv
<1>1. Init => Inv
  <2> SUFFICES ASSUME Init PROVE Inv
    OBVIOUS
  <2>2. TypeOK
    BY RotaryAssumption DEF Init, TypeOK
  <2>3. Uncounted = 0
    BY UncountedFacts DEF Init
  <2>4. Modulo
    BY DEF Init, Modulo
  <2>5. Accounted
    BY <2>3 DEF Init, Accounted
  <2>6. Latched /\ NotStarted
    BY DEF Init, Latched, NotStarted
  <2> QED BY <2>2, <2>4, <2>5, <2>6 DEF Inv
<1>2. Inv /\ [Next]_vars => Inv'
  <2> SUFFICES ASSUME Inv, [Next]_vars PROVE Inv'
    OBVIOUS
  <2> USE RotaryAssumption DEF Inv
  <2>0. /\ edge' = 1 => Uncounted' = Sign(b')
        /\ edge' = 0 => Uncounted' = 0
        /\ Uncounted' \in Int
    BY SignType DEF Uncounted
  <2>1. ASSUME NEW level \in Directions, Click(level) PROVE Inv'
    <3>1. level \in {0, 1}
      OBVIOUS
    <3>2. edge' \in {0, 1} /\ flipflop' \in {0, 1}
      BY <2>1 DEF Click, TypeOK
    <3>a. UNCHANGED <<stage, accumulatedPosition, lastPositionSent, delivered, unreported, discarded, burst, early>>
      BY <2>1 DEF Click, position
    <3>b. turned' \in Int /\ clicks' \in 0..MaxClicks /\ overruns' \in 0..MaxOverruns
      BY <2>1, SignType DEF Click, TypeOK
    <3>6. flipflop' = 1 /\ b' = level
      BY <2>1 DEF Click
    <3>3. TypeOK'
      BY <3>1, <3>2, <3>a, <3>b, <3>6 DEF TypeOK
    <3>4. Modulo'
      BY <3>a DEF Modulo
    <3>5. edge' = IF stage # "quiet" /\ flipflop = 0 THEN 1 ELSE edge
      BY <2>1 DEF Click
    <3>7. Accounted'
      <4> SUFFICES ASSUME overruns' = 0, early' = "no", burst' = "no"
                   PROVE  turned' = delivered' + unreported' + Uncounted' + discarded'
        BY DEF Accounted
      <4>0. early = "no" /\ burst = "no"
        BY <3>a
      <4>2. CASE stage = "quiet"
        <5>1. edge' = 0 /\ edge = 0 /\ turned' = turned /\ overruns' = overruns
          BY <2>1, <3>5, <4>2 DEF Click, NotStarted
        <5>2. Uncounted' = Uncounted
          BY <2>0, <5>1, UncountedFacts
        <5> QED BY <3>a, <4>0, <5>1, <5>2 DEF Accounted
      <4>3. CASE stage # "quiet"
        <5>0. overruns = 0 /\ flipflop = 0
          BY <2>1, <4>3 DEF Click, TypeOK
        <5>1. edge = 0
          BY <5>0 DEF Latched, TypeOK
        <5>2. turned' = turned + Sign(level)
          BY <2>1, <4>3 DEF Click
        <5>3. edge' = 1
          BY <3>5, <4>3, <5>0
        <5>4. Uncounted = 0 /\ Uncounted' = Sign(level)
          BY <2>0, <3>6, <5>1, <5>3, UncountedFacts
        <5>5. turned = delivered + unreported + Uncounted + discarded
          BY <4>0, <5>0 DEF Accounted
        <5> QED BY <3>a, <5>2, <5>4, <5>5, SignType DEF TypeOK
      <4> QED BY <4>2, <4>3
    <3>8. Latched'
      BY <3>5, <3>6, <3>a DEF Latched, TypeOK
    <3>9. NotStarted'
      <4>1. stage = "quiet" => edge' = 0 /\ turned' = turned
        BY <2>1, <3>5 DEF Click, NotStarted
      <4> QED BY <3>a, <4>1 DEF NotStarted
    <3> QED BY <3>3, <3>4, <3>7, <3>8, <3>9
  <2>2. CASE request_irq
    <3>1. early' = IF flipflop = 1 THEN "yes" ELSE "no"
      BY <2>2 DEF request_irq
    <3>2. TypeOK'
      BY <2>2, <3>1 DEF request_irq, TypeOK, latch, position
    <3>3. /\ UNCHANGED <<flipflop, edge, b, turned, delivered, unreported, discarded, overruns, burst,
                         accumulatedPosition, lastPositionSent>>
          /\ stage = "quiet" /\ stage' = "irq"
      BY <2>2 DEF request_irq, latch, position
    <3>4. NotStarted'
      BY <3>3 DEF NotStarted
    <3>5. Accounted'
      <4>1. Uncounted' = 0
        BY <2>0, <3>3 DEF NotStarted
      <4> QED BY <3>3, <4>1 DEF Accounted, NotStarted
    <3>6. Latched'
      BY <3>1, <3>3 DEF Latched
    <3>7. Modulo'
      BY <3>3 DEF Modulo
    <3> QED BY <3>2, <3>4, <3>5, <3>6, <3>7
  <2>3. CASE StartTimer
    <3>1. /\ UNCHANGED <<flipflop, edge, b, turned, delivered, overruns, burst, early>>
          /\ stage = "irq" /\ stage' = "timer" /\ unreported' = 0
          /\ discarded' = discarded + unreported
          /\ accumulatedPosition' = 0 /\ lastPositionSent' = 0
      BY <2>3 DEF StartTimer, latch, history
    <3>2. TypeOK'
      BY <2>3 DEF StartTimer, TypeOK, latch, history
    <3>3. Modulo' /\ NotStarted'
      BY <3>1 DEF Modulo, NotStarted
    <3>4. Uncounted' = Uncounted
      BY <3>1 DEF Uncounted
    <3>5. Accounted'
      BY <3>1, <3>4, UncountedFacts DEF Accounted, TypeOK
    <3>6. Latched'
      BY <3>1 DEF Latched
    <3> QED BY <3>2, <3>3, <3>5, <3>6
  <2>4. CASE rotary_encoder_lite_irq
    <3>1. /\ UNCHANGED <<stage, b, lastPositionSent, delivered, discarded, turned, clicks, overruns, early>>
          /\ unreported' = unreported + Sign(b)
          /\ accumulatedPosition' = (accumulatedPosition + Sign(b)) % 256
      BY <2>4 DEF rotary_encoder_lite_irq, history, UInt8
    <3>2. edge = 1 /\ edge' = 0 /\ flipflop' = 0
      BY <2>4 DEF rotary_encoder_lite_irq
    <3>3. burst' = IF unreported' \in -128..127 THEN burst ELSE "yes"
      BY <2>4 DEF rotary_encoder_lite_irq
    <3>4. TypeOK'
      <4>1. accumulatedPosition' \in 0..255 /\ unreported' \in Int
        BY <3>1, SignType DEF TypeOK
      <4> QED BY <3>1, <3>2, <3>3, <4>1 DEF TypeOK
    <3>5. Modulo'
      <4>1. accumulatedPosition' = (lastPositionSent + (unreported + Sign(b))) % 256
        <5>1. lastPositionSent + unreported \in Int /\ Sign(b) \in {-1, 1}
          BY SignType DEF TypeOK
        <5>2. accumulatedPosition' = (((lastPositionSent + unreported) % 256) + Sign(b)) % 256
          BY <3>1 DEF Modulo
        <5>3. accumulatedPosition' = (lastPositionSent + unreported + Sign(b)) % 256
          BY <5>1, <5>2, ModPlus
        <5> QED BY <5>1, <5>3 DEF TypeOK
      <4> QED BY <3>1, <3>3, <4>1 DEF Modulo
    <3>6. Accounted'
      <4>1. Uncounted' = 0 /\ Uncounted = Sign(b)
        BY <2>0, <3>2, UncountedFacts
      <4>2. burst' = "no" => burst = "no"
        BY <3>3
      <4> QED BY <3>1, <4>1, <4>2, SignType DEF Accounted, TypeOK
    <3>7. Latched' /\ NotStarted'
      BY <3>1, <3>2 DEF Latched, NotStarted
    <3> QED BY <3>4, <3>5, <3>6, <3>7
  <2>5. CASE encoder_timer
    <3>1. /\ stage = "timer"
          /\ UNCHANGED <<stage, flipflop, edge, b, accumulatedPosition, discarded, turned, clicks, overruns, burst, early>>
          /\ delivered' = delivered + ToInt8(accumulatedPosition - lastPositionSent)
          /\ lastPositionSent' = accumulatedPosition
          /\ unreported' = 0
      BY <2>5 DEF encoder_timer, latch, history, TypeOK
    <3>2. delivered' \in Int
      BY <3>1 DEF TypeOK, ToInt8
    <3>3. TypeOK'
      BY <3>1, <3>2 DEF TypeOK
    <3>4. delivered' % 256 = accumulatedPosition
      <4>1. delivered \in Int /\ accumulatedPosition \in 0..255 /\ lastPositionSent = delivered % 256
        BY DEF Modulo, TypeOK
      <4>2. (delivered + ToInt8(accumulatedPosition - (delivered % 256))) % 256 = accumulatedPosition
        BY <4>1, ReportModulo
      <4>3. accumulatedPosition - (delivered % 256) = accumulatedPosition - lastPositionSent
        BY <4>1
      <4>4. delivered' = delivered + ToInt8(accumulatedPosition - lastPositionSent)
        BY <3>1
      <4> QED BY <4>2, <4>3, <4>4
    <3>5. Modulo'
      BY <3>1, <3>4 DEF Modulo, TypeOK
    <3>6. burst = "no" => delivered' = delivered + unreported
      <4> SUFFICES ASSUME burst = "no" PROVE delivered' = delivered + unreported
        OBVIOUS
      <4>1. /\ lastPositionSent \in 0..255 /\ unreported \in -128..127 /\ accumulatedPosition \in Int
            /\ accumulatedPosition = (lastPositionSent + unreported) % 256
        BY DEF Modulo, TypeOK
      <4>2. ToInt8(accumulatedPosition - lastPositionSent) = unreported
        BY ONLY <4>1, ToInt8OfDifference, Zenon
      <4> QED BY <3>1, <4>2
    <3>7. Uncounted' = Uncounted
      BY <3>1 DEF Uncounted
    <3>8. Accounted'
      BY <3>1, <3>6, <3>7, UncountedFacts DEF Accounted, TypeOK
    <3>9. Latched' /\ NotStarted'
      BY <3>1 DEF Latched, NotStarted
    <3> QED BY <3>3, <3>5, <3>8, <3>9
  <2>6. CASE UNCHANGED vars
    BY <2>6 DEF vars, latch, position, history, TypeOK, Modulo, Accounted, Latched, NotStarted, Uncounted
  <2> QED BY <2>1, <2>2, <2>3, <2>4, <2>5, <2>6 DEF Next
<1> QED BY <1>1, <1>2, PTL DEF Spec

\* No click is lost or invented by eight-bit arithmetic, for any number of
\* clicks: see ClicksConserved.
THEOREM RotaryConserves == Spec => []ClicksConserved
<1>1. Inv => ClicksConserved
  <2> SUFFICES ASSUME Inv, overruns = 0, burst = "no", early = "no"
               PROVE  turned = delivered + ToInt8(accumulatedPosition - lastPositionSent) + Uncounted + discarded
    BY DEF ClicksConserved
  <2>1. ToInt8(accumulatedPosition - lastPositionSent) = unreported
    <3>1. /\ lastPositionSent \in 0..255 /\ unreported \in -128..127 /\ accumulatedPosition \in Int
          /\ accumulatedPosition = (lastPositionSent + unreported) % 256
      BY DEF Inv, Modulo, TypeOK
    <3> QED BY ONLY <3>1, ToInt8OfDifference, Zenon
  <2> QED BY <2>1 DEF Inv, Accounted
<1> QED BY <1>1, RotaryInductive, PTL

\* The reported sum never drifts from the position, bursts or not.
THEOREM RotaryModulo == Spec => []DeliveredModulo
<1>1. Inv => DeliveredModulo
  BY DEF Inv, Modulo, DeliveredModulo, UInt8
<1> QED BY <1>1, RotaryInductive, PTL

\* The encoder can only be stuck from boot.
THEOREM RotaryStuck == Spec => []StuckOnlyFromBoot
<1>1. Inv => StuckOnlyFromBoot
  BY DEF Inv, Latched, TypeOK, StuckOnlyFromBoot, Stuck
<1> QED BY <1>1, RotaryInductive, PTL

==============================================================================
