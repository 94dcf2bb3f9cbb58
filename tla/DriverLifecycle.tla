--------------------------- MODULE DriverLifecycle ---------------------------
(***************************************************************************)
(* How a kernel driver comes and goes: probe acquires resources one by     *)
(* one, a failing step jumps to a label of the cleanup ladder and falls    *)
(* through to its end, remove releases what the driver remembers to        *)
(* release.  Meanwhile the callbacks that are registered keep running.     *)
(* The drivers' own orders are the constant Drivers, a table of sequences  *)
(* and sets; Known lists in which ways each driver is known to deviate.    *)
(***************************************************************************)
EXTENDS Integers, Sequences

CONSTANTS
    Drivers,        \* for each driver: probe, cleanup, remove, exclusive, touches, queues
    Known,          \* for each driver: left, unguarded, misfreed
    MaxProbes       \* bound: how often the driver is bound

ASSUME LifecycleAssumption ==
    \A d \in DOMAIN Drivers :
        /\ Len(Drivers[d].probe) \in Nat
        /\ Len(Drivers[d].cleanup) \in Nat
        /\ Len(Drivers[d].remove) \in Nat

VARIABLES
    driver,         \* the driver this is
    phase,          \* "unbound", "probing", "unwinding", "bound", "removing"
    at,             \* the next step, or the next release
    held,           \* the resources held
    queued,         \* the work item is queued
    running,        \* the work item is executing
    overfreed,      \* history: resources released that were not held
    probes          \* history: number of probes

lifecycleVars == <<driver, phase, at, held, queued, running, overfreed, probes>>

Probe == Drivers[driver].probe          \* the steps of probe, in order
Cleanup == Drivers[driver].cleanup      \* the releases of the error ladder, in order
Remove == Drivers[driver].remove        \* the releases of remove, in order
Exclusive == Drivers[driver].exclusive  \* resources of which there is one: a second claim fails
Touches == Drivers[driver].touches      \* what each callback uses

(***************************************************************************)
(* A step of probe takes resources.  It is skipped where its condition     *)
(* does not hold (when) and may be left out by the board's data or by an   *)
(* allocation that is tested later (optional).  It fails for reasons of    *)
(* its own (fails) or because something is missing (needs): then probe     *)
(* undoes what that step's error branch undoes and goes to label.  One     *)
(* that lets resources go does so as it succeeds.                          *)
(***************************************************************************)
Check(l) ==
    [takes |-> {}, when |-> {}, needs |-> {}, undoes |-> {}, lets |-> {},
     optional |-> FALSE, fails |-> TRUE, label |-> l]
Step(r, l) == [Check(l) EXCEPT !.takes = {r}]
Sure(r) == [Step(r, 0) EXCEPT !.fails = FALSE]
Optional(s) == [s EXCEPT !.optional = TRUE]
When(R, s) == [s EXCEPT !.when = R]
Undoing(R, s) == [s EXCEPT !.undoes = R]
Letting(R) == [Check(0) EXCEPT !.lets = R, !.fails = FALSE]
Allocated(R, l) == [Check(l) EXCEPT !.needs = R, !.fails = FALSE]

(***************************************************************************)
(* A release drops resources; a checked one tests first whether the driver *)
(* holds them (a NULL pointer, a flag), an unchecked one does not.  What   *)
(* is embedded in the freed memory goes with it.                           *)
(***************************************************************************)
Drop(R) == [drops |-> R, embedded |-> {}, checked |-> FALSE]
DropIfHeld(R) == [drops |-> R, embedded |-> {}, checked |-> TRUE]
Free(R, E) == [drops |-> R, embedded |-> E, checked |-> FALSE]

LifecycleInit ==
    /\ driver \in DOMAIN Drivers
    /\ phase = "unbound"
    /\ at = 1
    /\ held = {}
    /\ queued = FALSE
    /\ running = FALSE
    /\ overfreed = {}
    /\ probes = 0

Enter(p, i) ==
    /\ phase' = p
    /\ at' = i

ProbeStart ==
    /\ phase = "unbound"
    /\ probes < MaxProbes
    /\ probes' = probes + 1
    /\ Enter("probing", 1)
    /\ UNCHANGED <<driver, held, queued, running, overfreed>>

AtStep == phase = "probing" /\ at <= Len(Probe)

StepSucceeds ==
    /\ AtStep
    /\ Probe[at].when \subseteq held
    /\ Probe[at].needs \subseteq held
    /\ Probe[at].takes \cap Exclusive \cap held = {}
    /\ held' = (held \cup Probe[at].takes) \ Probe[at].lets
    /\ Enter("probing", at + 1)
    /\ UNCHANGED <<driver, queued, running, overfreed, probes>>

StepSkipped ==
    /\ AtStep
    /\ Probe[at].optional \/ ~(Probe[at].when \subseteq held)
    /\ Enter("probing", at + 1)
    /\ UNCHANGED <<driver, held, queued, running, overfreed, probes>>

\* Mutant of StepFails: it goes to the label after the right one.
StepFailsFallsFurther ==
    /\ AtStep
    /\ Probe[at].fails \/ ~(Probe[at].needs \subseteq held)
    /\ Probe[at].when \subseteq held
    /\ held' = held \ Probe[at].undoes
    /\ Enter("unwinding", Probe[at].label + 1)
    /\ UNCHANGED <<driver, queued, running, overfreed, probes>>

StepFails ==
    /\ AtStep
    /\ Probe[at].fails \/ ~(Probe[at].needs \subseteq held)
    /\ Probe[at].when \subseteq held
    /\ held' = held \ Probe[at].undoes
    /\ Enter("unwinding", Probe[at].label)
    /\ UNCHANGED <<driver, queued, running, overfreed, probes>>

ProbeDone ==
    /\ phase = "probing"
    /\ at > Len(Probe)
    /\ Enter("bound", 1)
    /\ UNCHANGED <<driver, held, queued, running, overfreed, probes>>

\* Mutant of Release: no pointer and no flag is tested first.
ReleaseUnchecked(d) ==
    /\ held' = held \ (d.drops \cup d.embedded)
    /\ overfreed' = overfreed \cup (d.drops \ held)

Release(d) ==
    /\ held' = held \ (d.drops \cup d.embedded)
    /\ overfreed' = IF d.checked THEN overfreed ELSE overfreed \cup (d.drops \ held)

Unwind ==
    /\ phase = "unwinding"
    /\ at <= Len(Cleanup)
    /\ Release(Cleanup[at])
    /\ Enter("unwinding", at + 1)
    /\ UNCHANGED <<driver, queued, running, probes>>

ProbeFailed ==
    /\ phase = "unwinding"
    /\ at > Len(Cleanup)
    /\ Enter("unbound", 1)
    /\ UNCHANGED <<driver, held, queued, running, overfreed, probes>>

RemoveStart ==
    /\ phase = "bound"
    /\ Enter("removing", 1)
    /\ UNCHANGED <<driver, held, queued, running, overfreed, probes>>

\* Mutant of RemoveStep: what was acquired first goes first.
RemoveStepInOrderOfProbe ==
    /\ phase = "removing"
    /\ at <= Len(Remove)
    /\ Release(Remove[Len(Remove) + 1 - at])
    /\ Enter("removing", at + 1)
    /\ UNCHANGED <<driver, queued, running, probes>>

RemoveStep ==
    /\ phase = "removing"
    /\ at <= Len(Remove)
    /\ Release(Remove[at])
    /\ Enter("removing", at + 1)
    /\ UNCHANGED <<driver, queued, running, probes>>

RemoveDone ==
    /\ phase = "removing"
    /\ at > Len(Remove)
    /\ Enter("unbound", 1)
    /\ UNCHANGED <<driver, held, queued, running, overfreed, probes>>

\* A callback runs while it is registered, in whatever phase the driver is.
\* Those that queue nothing leave no trace here.
Callback(c) ==
    /\ c \in held
    /\ queued' = TRUE
    /\ UNCHANGED <<driver, phase, at, held, running, overfreed, probes>>

WorkStart ==
    /\ queued
    /\ ~running
    /\ queued' = FALSE
    /\ running' = TRUE
    /\ UNCHANGED <<driver, phase, at, held, overfreed, probes>>

WorkEnd ==
    /\ running
    /\ running' = FALSE
    /\ UNCHANGED <<driver, phase, at, held, queued, overfreed, probes>>

Bind == ProbeStart \/ StepSucceeds \/ StepSkipped \/ StepFails \/ ProbeDone \/ Unwind \/ ProbeFailed
Unbind == RemoveStart \/ RemoveStep \/ RemoveDone
Work == (\E c \in Drivers[driver].queues : Callback(c)) \/ WorkStart \/ WorkEnd

LifecycleNext == Bind \/ Unbind \/ Work

LifecycleSpec == LifecycleInit /\ [][LifecycleNext]_lifecycleVars

-----------------------------------------------------------------------------

Resources ==
    UNION ({Probe[i].takes : i \in 1..Len(Probe)}
           \cup {Cleanup[i].drops : i \in 1..Len(Cleanup)}
           \cup {Remove[i].drops : i \in 1..Len(Remove)})

\* Every variable keeps its type: no goto leaves the ladder.
LifecycleTypeOK ==
    /\ driver \in DOMAIN Drivers
    /\ phase \in {"unbound", "probing", "unwinding", "bound", "removing"}
    /\ at \in 1..(Len(CASE phase = "probing" -> Probe
                         [] phase = "unwinding" -> Cleanup
                         [] phase = "removing" -> Remove
                         [] OTHER -> <<>>) + 1)
    /\ held \subseteq Resources
    /\ queued \in BOOLEAN
    /\ running \in BOOLEAN
    /\ overfreed \subseteq Resources
    /\ probes \in 0..MaxProbes

\* What may use the driver's data now: the callbacks that are registered (the
\* interrupt, the timer, sysfs, the backlight core) and the work item.
Active == (held \cap DOMAIN Touches) \cup (IF queued \/ running THEN {"work"} ELSE {})

\* A callback finds everything it uses in place: initialised before it is
\* registered, and not freed before it is gone; but for what is known.
CallbacksSafe == \A c \in Active : Touches[c] \ held \subseteq Known[driver].unguarded[c]

\* Neither the ladder nor remove releases what is not held; but for what is known.
NothingFreedTwice == overfreed \subseteq Known[driver].misfreed

\* A driver that failed to probe or was removed, however often and at whatever
\* step, leaves nothing behind but what is known.
LeavesOnly == phase = "unbound" => held \subseteq Known[driver].left

(***************************************************************************)
(* The rule that a driver's tables follow, stated without executing them.  *)
(* Before step i a probe holds at least MustHold and at most MayHold: what *)
(* earlier binds left and what the steps before it take, where a step that *)
(* may be skipped surely takes and surely lets go of nothing.              *)
(***************************************************************************)
Certain(s) == ~s.optional /\ s.when = {}
CanFail(s) == s.fails \/ s.needs # {}

TakenAt(d, j) == IF j = 0 THEN Known[d].left ELSE Drivers[d].probe[j].takes

MayHold(d, i) ==
    UNION {{r \in TakenAt(d, j) : \A k \in 1..(i - 1) :
               k >= j /\ Certain(Drivers[d].probe[k]) => r \notin Drivers[d].probe[k].lets} :
           j \in 0..(i - 1)}

MustHold(d, i) ==
    UNION {{r \in Drivers[d].probe[j].takes \cup Drivers[d].probe[j].needs :
               \A k \in j..(i - 1) : r \notin Drivers[d].probe[k].lets} :
           j \in {k \in 1..(i - 1) : Certain(Drivers[d].probe[k])}}

\* What a callback uses and is not known to miss.
Guards(d, c) == Drivers[d].touches[c] \ Known[d].unguarded[c]

\* No callback that is there uses what is gone.
Keeps(d, there, gone) ==
    \A c \in there \cap DOMAIN Drivers[d].touches : Guards(d, c) \cap gone = {}

Gone(r) == r.drops \cup r.embedded
Released(releases, l, a) == UNION {Gone(releases[k]) : k \in l..a}

(***************************************************************************)
(* Releases that begin at l, when at most top and at least base is held:   *)
(* at their end nothing is left but what is known, each unchecked one      *)
(* finds what it drops, and none drops what a callback that stays uses.    *)
(***************************************************************************)
Unwinds(d, top, base, releases, l) ==
    /\ top \ Released(releases, l, Len(releases)) \subseteq Known[d].left
    /\ \A a \in l..Len(releases) :
          /\ \/ releases[a].checked
             \/ releases[a].drops \subseteq Known[d].misfreed \cup (base \ Released(releases, l, a - 1))
          /\ Keeps(d, top \ Released(releases, l, a), Gone(releases[a]))

\* A step registers a callback when what it uses is there, and its error branch and
\* the ladder from its label on undo what the steps before it may have done.
StepInOrder(d, i) ==
    LET s == Drivers[d].probe[i]
    IN  /\ \A c \in (s.takes \ s.lets) \cap DOMAIN Drivers[d].touches :
              Guards(d, c) \subseteq (MustHold(d, i) \cup s.when \cup s.needs \cup s.takes) \ s.lets
        /\ Keeps(d, (MayHold(d, i) \cup s.takes) \ s.lets, s.lets)
        /\ CanFail(s) =>
              /\ s.label \in 1..(Len(Drivers[d].cleanup) + 1)
              /\ Keeps(d, MayHold(d, i) \ s.undoes, s.undoes)
              /\ Unwinds(d, MayHold(d, i) \ s.undoes, (MustHold(d, i) \cup s.when) \ s.undoes,
                         Drivers[d].cleanup, s.label)

Discipline(d) ==
    LET n == Len(Drivers[d].probe)
    IN  /\ \A i \in 1..n : StepInOrder(d, i)
        /\ Unwinds(d, MayHold(d, n + 1), MustHold(d, n + 1), Drivers[d].remove, 1)
        /\ Drivers[d].queues # {} => Guards(d, "work") = {}

\* The tables of the driver that is loaded follow the rule: every label of probe is
\* the right one and the ladder and remove go backwards, but for what is known.
Disciplined == probes = 0 => Discipline(driver)
=============================================================================
