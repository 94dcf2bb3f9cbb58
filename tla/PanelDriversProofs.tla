-------------------------- MODULE PanelDriversProofs --------------------------
(***************************************************************************)
(* What the panels promise for any number of tasks, calls and failing      *)
(* operations.  As long as calls do not overlap, one actor is inside the   *)
(* driver, and what it has done so far is known from where it is: Stage    *)
(* says so for each panel and each step of each method, and Rest what that *)
(* amounts to while nobody is inside.                                      *)
(***************************************************************************)
EXTENDS PanelDrivers, TLAPS

Active == dss.state = "ACTIVE"
Suspended == dss.state = "SUSPENDED"
Disabled == dss.state = "DISABLED"

\* What has not happened so far.
Apart == "overlap" \notin astray
Sound == Apart /\ "fault" \notin astray
Unmixed == Apart /\ "blanked" \notin astray
Flawless == Sound /\ "blanked" \notin astray

OnMethods == {"enable", "resume"}
OffMethods == {"disable", "suspend"}
OnSteps == {"start", "linkOn", "vccOn", "chipOn", "settleOn", "returned"}
OffSteps == {"start", "chipOff", "vccOff", "linkOff", "settleOff", "returned"}

\* The methods that a caller asks for, and the steps that a method has.
Role(a) ==
    /\ a = Kernel <=> call[a].via \in {"probe", "free", "sleep", "wake"}
    /\ a # Kernel <=> call[a].via \in {"store", "blank"}
    /\ call[a].via = "store" => call[a].method \in {"enable", "disable"}
    /\ call[a].via = "blank" => call[a].method \in {"suspend", "resume"}
    /\ call[a].via = "probe" => call[a].method = "enable"
    /\ call[a].via = "free" => call[a].method = "disable"
    /\ call[a].via = "sleep" => call[a].method = "suspend"
    /\ call[a].via = "wake" => call[a].method = "resume"
    /\ call[a].method \in OnMethods => call[a].pc \in OnSteps
    /\ call[a].method \in OffMethods => call[a].pc \in OffSteps

\* Whose turn it is: the kernel calls while no task does, and tasks call only
\* between the boot and a system suspend.
Turns ==
    /\ call[Kernel].pc # "idle" \/ fb = "none" \/ asleep => \A t \in Tasks : call[t].pc = "idle"
    /\ Apart => \A a, b \in Actors : call[a].pc # "idle" /\ call[b].pc # "idle" => a = b
    /\ call[Kernel].pc # "idle" => (asleep <=> call[Kernel].via = "wake")
    /\ call[Kernel].pc # "idle" => (fb = "none" <=> call[Kernel].via \in {"probe", "free"})
    /\ asleep => fb # "none"

\* The way from a system suspend to the resume that ends it.
Round ==
    /\ before.faults <= faults
    /\ call[Kernel].pc # "idle" /\ call[Kernel].via = "sleep" =>
           /\ before.state = "ACTIVE"
           /\ panel \in Tianma /\ call[Kernel].pc = "returned" => drv.suspended
    /\ asleep /\ dss.activate => before.state = "ACTIVE"
    /\ asleep /\ ~dss.activate =>
           before.state # "ACTIVE" /\ dss.state = before.state /\ call[Kernel].pc = "idle"
    /\ asleep /\ call[Kernel].pc = "idle" /\ panel \in Tianma /\ dss.activate => drv.suspended
    /\ call[Kernel].pc # "idle" /\ call[Kernel].via = "wake" /\ faults = before.faults =>
           /\ panel \in Tianma /\ call[Kernel].pc = "start" => drv.suspended
           /\ panel \in Samsung /\ call[Kernel].pc = "settleOn" => Active
           /\ call[Kernel].pc = "returned" => Active

\* The state a display sleeps in.
Sleeping ==
    /\ asleep /\ call[Kernel].pc = "idle" /\ Apart /\ (panel \in Tianma => Unmixed) => ~Active
    /\ asleep /\ call[Kernel].pc = "idle" /\ dss.activate =>
           /\ panel \in Tianma /\ Unmixed => Suspended
           /\ panel \in Samsung /\ Flawless => Suspended
           /\ panel \in Renesas /\ Apart => Suspended

-----------------------------------------------------------------------------

TianmaDark == (chip => Active) /\ (drv.suspended <=> Suspended)
TianmaPower ==
    /\ vcc = On /\ link = On /\ (chip <=> Active)
    /\ drv.enabled <=> ~Disabled

TianmaRest ==
    /\ Unmixed => TianmaDark
    /\ Flawless => TianmaPower

TianmaStage(pc, method) ==
    /\ Unmixed =>
           /\ pc = "returned" => TianmaDark
           /\ pc = "returned" /\ method = "enable" => ~Suspended
           /\ pc = "returned" /\ method = "suspend" => Suspended
           /\ pc # "returned" /\ method = "enable" => Disabled /\ ~drv.suspended /\ ~chip
           /\ pc # "returned" /\ method = "resume" => Suspended /\ drv.suspended /\ ~chip
           /\ pc # "returned" /\ method \in OffMethods => Active /\ ~drv.suspended
           /\ pc \in {"vccOff", "linkOff"} => ~chip
    /\ Flawless =>
           /\ pc \in {"start", "returned"} => TianmaPower
           /\ pc = "linkOn" => drv.enabled /\ vcc = 0 /\ link = 0
           /\ pc = "vccOn" => drv.enabled /\ vcc = 0 /\ link = 1
           /\ pc = "chipOn" => drv.enabled /\ vcc = 1 /\ link = 1
           /\ pc \in {"chipOff", "vccOff"} => vcc = 1 /\ link = 1
           /\ pc = "linkOff" => vcc = 0 /\ link = 1
           /\ pc \in {"chipOff", "vccOff", "linkOff"} => (drv.enabled <=> method = "suspend")

-----------------------------------------------------------------------------

SamsungDark == vcc <= 1 /\ (chip => vcc = 1) /\ (~Active => vcc = 0)
SamsungPower == link = On /\ (HasVcc => vcc = On /\ (chip <=> Active))
SamsungFlags == (drv.suspended <=> Suspended) /\ (drv.enabled <=> Active)

SamsungRest ==
    /\ HasVcc /\ Apart => SamsungDark
    /\ Sound => SamsungPower
    /\ Flawless => SamsungFlags

SamsungStage(pc, method, ok) ==
    /\ Apart => (method \in OffMethods /\ pc \in {"settleOff", "returned"} => ~Active)
    /\ HasVcc /\ Apart =>
           /\ pc \in {"start", "settleOn", "vccOff", "settleOff", "returned"} => SamsungDark
           /\ pc \in {"linkOn", "vccOn"} => ~Active /\ vcc = 0 /\ ~chip
           /\ pc = "chipOn" => ~Active /\ vcc = 1 /\ ~chip
           /\ pc = "linkOff" => vcc = 0 /\ ~chip
    /\ Sound =>
           /\ pc \in {"start", "settleOn", "vccOff", "settleOff", "returned"} => SamsungPower
           /\ pc \in {"settleOn", "vccOff"} => Active
           /\ pc = "linkOn" => ~Active /\ link = 0 /\ (HasVcc => vcc = 0)
           /\ pc = "vccOn" => ~Active /\ link = 1 /\ (HasVcc => vcc = 0)
           /\ pc = "chipOn" => ~Active /\ link = 1 /\ (HasVcc => vcc = 1)
           /\ pc = "linkOff" => link = 1 /\ (HasVcc => vcc = 0 /\ ~chip)
    /\ Flawless =>
           /\ ok
           /\ pc = "returned" => SamsungFlags
           /\ pc = "returned" /\ method = "enable" => Active
           /\ pc = "returned" /\ method = "suspend" => Suspended
           /\ pc \in {"start", "linkOn", "vccOn", "chipOn"} /\ method \in OnMethods => ~drv.enabled
           /\ pc \in {"start", "linkOn", "vccOn", "chipOn"} /\ method = "enable" => Disabled
           /\ pc \in {"start", "linkOn", "vccOn", "chipOn"} /\ method = "resume" => Suspended
           /\ pc # "returned" /\ method \in OnMethods => (drv.suspended <=> method = "resume")
           /\ pc = "settleOn" => drv.enabled
           /\ pc # "returned" /\ method \in OffMethods => ~drv.suspended
           /\ pc \in {"start", "vccOff", "linkOff"} /\ method \in OffMethods => Active /\ drv.enabled
           /\ pc = "settleOff" => Disabled /\ ~drv.enabled

-----------------------------------------------------------------------------

RenesasDark == (chip => Active) /\ (Suspended => link = 0)
RenesasPower == vcc = On /\ link = On /\ (chip <=> Active)
Still == ~frame.moving /\ frame.clk = 0
Flowing == (frame.moving <=> Active) /\ (frame.moving => frame.pending) /\ frame.clk = On

RenesasRest ==
    /\ Apart => RenesasDark
    /\ Sound => RenesasPower
    /\ astray = {} /\ fb # "none" => Flowing

RenesasStage(pc, method, via, ok, tries) ==
    /\ Apart =>
           /\ pc = "returned" => RenesasDark
           /\ pc = "start" => (chip => Active)
           /\ pc \in {"vccOn", "linkOn", "chipOn"} => ~Active /\ ~chip
           /\ pc = "settleOn" /\ ~ok => ~Active /\ ~chip
           /\ pc = "chipOn" => link = 1
           /\ pc \in {"vccOff", "settleOff"} => ~chip
           /\ method \in OffMethods /\ pc # "start" => link = 0
           /\ method = "suspend" /\ pc = "returned" => Suspended
           /\ method = "disable" /\ pc = "returned" => Disabled
           /\ method = "enable" => ~Suspended
           /\ method = "resume" /\ (pc \in {"start", "vccOn", "linkOn", "chipOn"} \/ (pc = "settleOn" /\ ~ok))
                  => Suspended
           /\ method = "resume" /\ pc \in {"start", "vccOn", "linkOn"} => tries + link <= 2 * faults
           /\ method = "resume" /\ pc = "chipOn" => tries <= 2 * faults
           /\ method = "resume" /\ pc = "settleOn" /\ ~ok => tries + 1 + link <= 2 * faults
           /\ method = "resume" /\ pc = "settleOn" /\ ok => chip /\ link = 1
           /\ method = "resume" /\ pc = "returned" =>
                  Active /\ (2 * faults < WakeRetryCount => chip /\ frame.moving /\ link = 1)
    /\ Sound =>
           /\ pc \in {"start", "returned"} => RenesasPower
           /\ pc = "vccOn" => vcc = 0 /\ link = 0
           /\ pc = "linkOn" => vcc = 1 /\ link = 0
           /\ pc = "chipOn" => vcc = 1
           /\ pc = "settleOn" => ok /\ vcc = 1 /\ link = 1 /\ chip
           /\ pc \in {"chipOff", "vccOff"} => vcc = On
           /\ pc = "settleOff" => vcc = 0
           /\ pc = "returned" /\ method = "enable" => ok /\ Active
    /\ astray = {} =>
           /\ method = "enable" \/ via = "free" => fb = "none"
           /\ method \in OffMethods /\ pc = "start" => Active /\ Flowing
           /\ method \in OffMethods /\ pc \in {"chipOff", "vccOff", "settleOff"} => Still
           /\ method = "resume" /\ pc # "returned" => Still
           /\ pc = "returned" /\ method # "enable" => Flowing

-----------------------------------------------------------------------------

Rest ==
    /\ panel \in Tianma => TianmaRest
    /\ panel \in Samsung => SamsungRest
    /\ panel \in Renesas => RenesasRest

Stage(a) ==
    /\ panel \in Tianma => TianmaStage(call[a].pc, call[a].method)
    /\ panel \in Samsung => SamsungStage(call[a].pc, call[a].method, call[a].ok)
    /\ panel \in Renesas => RenesasStage(call[a].pc, call[a].method, call[a].via, call[a].ok, call[a].tries)

\* The display is not touched before the frame buffer is probed.
Boot == fb = "none" /\ Quiet => Disabled

\* Nothing is released that is not held; no frame is drawn before the frame
\* buffer is there; the RFBI has one FRAMEDONE handler.
Held ==
    /\ (IF panel \in Tianma THEN Flawless ELSE Sound) => over \subseteq {"clk"}
    /\ panel \in Renesas /\ astray = {} => over = {}
    /\ fb = "none" => ~frame.pending /\ Still
    /\ panel \in Renesas => link <= 1

IInv ==
    /\ TypeOK
    /\ \A a \in Actors : call[a].pc # "idle" => Role(a)
    /\ Turns /\ Round /\ Sleeping /\ Held /\ Boot
    /\ Quiet => Rest
    /\ \A a \in Actors : call[a].pc # "idle" => Stage(a)

-----------------------------------------------------------------------------

Steps == {"idle", "start", "linkOn", "vccOn", "chipOn", "settleOn",
          "chipOff", "vccOff", "linkOff", "settleOff", "returned"}
Methods == {"none", "enable", "disable", "suspend", "resume"}
Vias == {"none", "store", "blank", "probe", "free", "sleep", "wake"}
Calls == [pc : Steps, method : Methods, via : Vias, ok : BOOLEAN, tries : Nat]

\* The call of a becomes the one given, and the others go on as they were.
Moves(a, p, m, v, k, n) ==
    /\ call' \in [Actors -> Calls]
    /\ call'[a].pc = p /\ call'[a].method = m /\ call'[a].via = v /\ call'[a].ok = k
    /\ call'[a].tries = n
    /\ \A b \in Actors : b # a => call'[b] = call[b]

\* A call that is replaced.
LEMMA MovesTo ==
    ASSUME TypeOK, NEW a \in Actors, NEW c \in Calls, call' = [call EXCEPT ![a] = c]
    PROVE  Moves(a, c.pc, c.method, c.via, c.ok, c.tries)
<1>1. call \in [Actors -> Calls]
  BY DEF TypeOK, Calls, Steps, Methods, Vias
<1>2. call' \in [Actors -> Calls] /\ call'[a] = c /\ \A b \in Actors : b # a => call'[b] = call[b]
  BY <1>1
<1> QED
  BY <1>2 DEF Moves

\* A call that goes to another step, perhaps with a result or another try.
LEMMA MovesOn ==
    ASSUME TypeOK, NEW a \in Actors, NEW p \in Steps, NEW k \in BOOLEAN, NEW n \in Nat,
           \/ Goto(a, p) /\ k = call[a].ok /\ n = call[a].tries
           \/ call' = [call EXCEPT ![a].pc = p, ![a].ok = k] /\ n = call[a].tries
           \/ call' = [call EXCEPT ![a].pc = p, ![a].tries = n] /\ k = call[a].ok
    PROVE  Moves(a, p, call[a].method, call[a].via, k, n)
<1>1. call \in [Actors -> Calls]
  BY DEF TypeOK, Calls, Steps, Methods, Vias
<1>2. call[a] \in Calls
  BY <1>1
<1> DEFINE c == [call[a] EXCEPT !.pc = p, !.ok = k, !.tries = n]
<1>3. /\ c \in Calls /\ c.pc = p /\ c.method = call[a].method /\ c.via = call[a].via
      /\ c.ok = k /\ c.tries = n
  BY <1>2 DEF Calls
<1>4. call' = [call EXCEPT ![a] = c]
  <2>1. CASE Goto(a, p) /\ k = call[a].ok /\ n = call[a].tries
    <3>1. call' = [call EXCEPT ![a] = [call[a] EXCEPT !.pc = p]]
      BY <2>1 DEF Goto
    <3>2. c = [call[a] EXCEPT !.pc = p]
      BY <1>2, <2>1 DEF Calls
    <3> QED
      BY <3>1, <3>2
  <2>2. CASE call' = [call EXCEPT ![a].pc = p, ![a].ok = k] /\ n = call[a].tries
    <3>1. call' = [call EXCEPT ![a] = [call[a] EXCEPT !.pc = p, !.ok = k]]
      BY <2>2, <1>1
    <3>2. c = [call[a] EXCEPT !.pc = p, !.ok = k]
      BY <1>2, <2>2 DEF Calls
    <3> QED
      BY <3>1, <3>2
  <2>3. CASE call' = [call EXCEPT ![a].pc = p, ![a].tries = n] /\ k = call[a].ok
    <3>1. call' = [call EXCEPT ![a] = [call[a] EXCEPT !.pc = p, !.tries = n]]
      BY <2>3, <1>1
    <3>2. c = [call[a] EXCEPT !.pc = p, !.tries = n]
      BY <1>2, <2>3 DEF Calls
    <3> QED
      BY <3>1, <3>2
  <2> QED
    BY <2>1, <2>2, <2>3
<1> HIDE DEF c
<1>5. Moves(a, c.pc, c.method, c.via, c.ok, c.tries)
  BY <1>3, <1>4, MovesTo
<1> QED
  BY <1>3, <1>5 DEF Moves

\* Everything but the calls has its type.
Typed ==
    /\ panel \in Panels
    /\ dss \in [state : States, activate : BOOLEAN]
    /\ drv \in [enabled : BOOLEAN, suspended : BOOLEAN]
    /\ vcc \in Nat /\ link \in Nat
    /\ chip \in BOOLEAN /\ rails \in BOOLEAN
    /\ frame \in [pending : BOOLEAN, moving : BOOLEAN, clk : Int]
    /\ fb \in {"none", "up", "gone"} /\ fblock \subseteq Tasks
    /\ asleep \in BOOLEAN
    /\ calls \in 0..MaxCalls /\ faults \in 0..MaxFaults
    /\ astray \subseteq {"fault", "overlap", "blanked", "reenabled", "redrawn"}
    /\ over \subseteq Resources
    /\ before \in [state : States, faults : 0..MaxFaults]

\* The parts of the type invariant.
LEMMA Types == TypeOK <=> Typed /\ call \in [Actors -> Calls]
BY DEF TypeOK, Typed, Calls, Steps, Methods, Vias

\* Once calls have overlapped nothing is claimed of a call.
LEMMA Overlapped ==
    ASSUME ~Apart', NEW a
    PROVE  Stage(a)' /\ Rest'
BY DEF Stage, Rest, TianmaStage, TianmaRest, SamsungStage, SamsungRest, RenesasStage, RenesasRest,
       Apart, Sound, Unmixed, Flawless

\* What a step inside a method owes the system suspend it may belong to.
RoundStep(a, p) ==
    /\ call[a].via = "sleep" /\ panel \in Tianma /\ p = "returned" => drv'.suspended
    /\ call[a].via = "wake" /\ faults' = before.faults =>
           /\ panel \in Tianma /\ p = "start" => drv'.suspended
           /\ panel \in Samsung /\ p = "settleOn" => Active'
           /\ p = "returned" => Active'

\* A step inside a method: what it has to show for the invariant to be kept.
LEMMA Inside ==
    ASSUME IInv, NEW a \in Actors, call[a].pc \notin {"idle", "returned"},
           NEW p \in Steps \ {"idle"}, NEW k, NEW n,
           call[a].method \in OnMethods => p \in OnSteps,
           call[a].method \in OffMethods => p \in OffSteps,
           Moves(a, p, call[a].method, call[a].via, k, n),
           UNCHANGED system,
           \/ UNCHANGED <<faults, astray>>
           \/ faults' = faults + 1 /\ astray' = astray \cup {"fault"},
           Typed', dss'.activate = dss.activate,
           Held', Apart' => Stage(a)', RoundStep(a, p)
    PROVE  IInv'
<1> USE DEF IInv, Moves
<1>1. UNCHANGED <<panel, fb, asleep, before>>
  BY DEF system
<1>2. TypeOK'
  BY DEF TypeOK, Typed, Calls, Steps, Methods, Vias
<1>3. Apart' => Apart
  BY DEF Apart
<1>4. Apart' => \A b \in Actors : b # a => call'[b].pc = "idle"
  BY <1>3 DEF Turns
<1>5. \A b \in Actors : b # a => call'[b] = call[b]
  OBVIOUS
<1>6. \A b \in Actors : call'[b].pc # "idle" => Role(b)'
  <2> SUFFICES ASSUME NEW b \in Actors, call'[b].pc # "idle" PROVE Role(b)'
    OBVIOUS
  <2>1. CASE b = a
    BY <2>1 DEF Role
  <2>2. CASE b # a
    BY <1>5, <2>2 DEF Role
  <2> QED
    BY <2>1, <2>2
<1>7. Kernel \in Actors /\ \A t \in Tasks : t \in Actors /\ t # Kernel
  BY DssAssumption DEF Actors
<1>8. Turns'
  BY <1>1, <1>3, <1>4, <1>5, <1>7 DEF Turns
<1>9. a # Kernel => call[Kernel].pc = "idle" /\ call'[Kernel] = call[Kernel] /\ ~asleep
  <2>1. a # Kernel => a \in Tasks
    BY DEF Actors
  <2> QED
    BY <1>5, <1>7, <2>1 DEF Turns
<1>10. faults <= faults' /\ before.faults <= faults
  <2>1. faults \in Nat /\ before.faults \in Nat
    BY Types, DssAssumption DEF Typed
  <2> QED
    BY <2>1 DEF Round
<1>11. Round'
  <2>1. before'.faults <= faults'
    <3>1. faults \in Nat /\ before.faults \in Nat /\ faults' \in Nat
      BY Types, DssAssumption DEF Typed
    <3> QED
      BY <1>1, <1>10, <3>1
  <2>2. CASE a # Kernel
    BY <1>1, <1>9, <2>1, <2>2 DEF Round
  <2>3. CASE a = Kernel
    BY <1>1, <2>1, <2>3 DEF Round, RoundStep
  <2> QED
    BY <2>2, <2>3
<1>12. Sleeping'
  BY <1>1, <1>9 DEF Sleeping
<1>13. ~Quiet'
  BY DEF Quiet, Busy
<1>14. \A b \in Actors : call'[b].pc # "idle" => Stage(b)'
  BY <1>4, Overlapped
<1>15. Boot'
  BY <1>13 DEF Boot
<1> QED
  BY <1>2, <1>6, <1>8, <1>11, <1>12, <1>13, <1>14, <1>15

\* What is known of an actor that is inside a method.
LEMMA Here ==
    ASSUME IInv, NEW a \in Actors, call[a].pc # "idle"
    PROVE  /\ TypeOK /\ Typed /\ Role(a) /\ Stage(a) /\ Held /\ Round
           /\ call[a].ok \in BOOLEAN /\ call[a].tries \in Nat
           /\ call[a].method \in OnMethods \cup OffMethods
           /\ vcc \in Nat /\ link \in Nat /\ frame.clk \in Int
           /\ faults \in Nat /\ before.faults \in Nat /\ before.faults <= faults
           /\ call[a].method = "resume" => fb # "none"
<1>1. TypeOK /\ Typed /\ call \in [Actors -> Calls]
  BY Types DEF IInv
<1>2. call[a].ok \in BOOLEAN /\ call[a].tries \in Nat /\ call[a].via \in Vias
  BY <1>1 DEF Calls
<1>3. Role(a) /\ Stage(a) /\ Held /\ Round
  BY DEF IInv
<1>4. call[a].method \in OnMethods \cup OffMethods
  BY <1>3 DEF Role, OnMethods, OffMethods
<1>5. /\ vcc \in Nat /\ link \in Nat /\ frame.clk \in Int
      /\ faults \in Nat /\ before.faults \in Nat /\ before.faults <= faults
  BY <1>1, <1>3, DssAssumption DEF Typed, Round
<1>6. call[a].method = "resume" => fb # "none"
  <2>1. CASE a = Kernel
    BY <1>3, <2>1 DEF Role, IInv, Turns
  <2>2. CASE a # Kernel
    BY <2>2 DEF IInv, Turns, Actors
  <2> QED
    BY <2>1, <2>2
<1> QED
  BY <1>1, <1>2, <1>3, <1>4, <1>5, <1>6

\* A frame that is stopped is still a frame.
LEMMA StoppedFrame ==
    ASSUME NEW f \in [pending : BOOLEAN, moving : BOOLEAN, clk : Int]
    PROVE  [f EXCEPT !.moving = FALSE, !.clk = @ - 1] \in [pending : BOOLEAN, moving : BOOLEAN, clk : Int]
<1>1. f.clk \in Int /\ f.clk - 1 \in Int /\ f.pending \in BOOLEAN
  OBVIOUS
<1> QED
  BY <1>1

\* enable of the Tianma panel tests and sets the enabled flag.
LEMMA TianmaPowerOnKeeps ==
    ASSUME IInv, NEW a \in Actors, TianmaPowerOn(a)
    PROVE  IInv'
<1>1. panel \in Tianma /\ call[a].pc = "start" /\ call[a].method \in {"enable"}
  BY DEF TianmaPowerOn, At, In
<1>2. /\ TypeOK /\ Typed /\ Role(a) /\ Stage(a) /\ Held /\ Round
      /\ call[a].ok \in BOOLEAN /\ call[a].tries \in Nat
      /\ vcc \in Nat /\ link \in Nat /\ frame.clk \in Int
      /\ faults \in Nat /\ before.faults \in Nat /\ before.faults <= faults
  BY <1>1, Here
<1>3. CASE drv.enabled
  <2>1. Moves(a, "returned", call[a].method, call[a].via, TRUE, call[a].tries)
    BY <1>3, <1>1, <1>2, MovesOn
       DEF TianmaPowerOn, At, In, Goto, NoFault, Untouched, hardware, Return, NothingToDo, Skip, Steps
  <2>2. /\ dss'.state = dss.state /\ drv'.enabled = drv.enabled /\ drv'.suspended = drv.suspended
        /\ vcc' = vcc /\ link' = link /\ chip' = chip
        /\ frame'.pending = frame.pending /\ frame'.moving = frame.moving /\ frame'.clk = frame.clk
        /\ over' = over
        /\ dss'.activate = dss.activate
    BY <1>3, <1>1, <1>2
       DEF TianmaPowerOn, At, In, Goto, NoFault, Untouched, hardware, Return, NothingToDo, Skip, Typed,
           HasVcc, Tianma
  <2>3. /\ UNCHANGED system
        /\ UNCHANGED <<faults, astray>>
    BY <1>3, <1>1
       DEF TianmaPowerOn, At, In, Goto, NoFault, Untouched, hardware, Return, NothingToDo, Skip
  <2>4. Typed'
    <3>1. /\ dss' \in [state : States, activate : BOOLEAN]
          /\ drv' \in [enabled : BOOLEAN, suspended : BOOLEAN]
          /\ frame' \in [pending : BOOLEAN, moving : BOOLEAN, clk : Int]
          /\ rails' \in BOOLEAN
      BY <1>3, <1>1, <1>2
         DEF TianmaPowerOn, At, In, Goto, NoFault, Untouched, hardware, Return, NothingToDo, Skip, Typed,
             States
    <3>2. vcc' \in Nat /\ link' \in Nat /\ chip' \in BOOLEAN /\ over' \subseteq Resources
      BY <1>2, <2>2 DEF Typed, Resources
    <3> QED
      BY <1>2, <2>3, <3>1, <3>2 DEF Typed, system
  <2>5. Apart' => Stage(a)'
    BY <1>3, <1>1, <1>2, <2>1, <2>2, <2>3
       DEF Moves, Stage, TianmaStage, TianmaDark, TianmaPower, Tianma, Samsung, Renesas, Active,
           Suspended, Disabled, Apart, Sound, Unmixed, Flawless, On, OnMethods, OffMethods, system
  <2>6. Held'
    BY <1>3, <1>1, <1>2, <2>2, <2>3
       DEF Held, Stage, TianmaStage, TianmaDark, TianmaPower, Tianma, Samsung, Renesas, Active,
           Suspended, Disabled, Apart, Sound, Unmixed, Flawless, On, OnMethods, OffMethods, system, Still
  <2>7. RoundStep(a, "returned")
    BY <1>3, <1>1, <1>2, <2>2, <2>3 DEF RoundStep, Round, Role, Tianma, Samsung, Renesas, Active
  <2> QED
    BY <1>1, <2>1, <2>2, <2>3, <2>4, <2>5, <2>6, <2>7, Inside
       DEF Steps, OnSteps, OffSteps, OnMethods, OffMethods
<1>4. CASE ~drv.enabled
  <2>1. Moves(a, "linkOn", call[a].method, call[a].via, call[a].ok, call[a].tries)
    BY <1>4, <1>1, <1>2, MovesOn
       DEF TianmaPowerOn, At, In, Goto, NoFault, Untouched, hardware, Return, NothingToDo, Skip, Steps
  <2>2. /\ dss'.state = dss.state /\ drv'.enabled = TRUE /\ drv'.suspended = drv.suspended
        /\ vcc' = vcc /\ link' = link /\ chip' = chip
        /\ frame'.pending = frame.pending /\ frame'.moving = frame.moving /\ frame'.clk = frame.clk
        /\ over' = over
        /\ dss'.activate = dss.activate
    BY <1>4, <1>1, <1>2
       DEF TianmaPowerOn, At, In, Goto, NoFault, Untouched, hardware, Return, NothingToDo, Skip, Typed,
           HasVcc, Tianma
  <2>3. /\ UNCHANGED system
        /\ UNCHANGED <<faults, astray>>
    BY <1>4, <1>1
       DEF TianmaPowerOn, At, In, Goto, NoFault, Untouched, hardware, Return, NothingToDo, Skip
  <2>4. Typed'
    <3>1. /\ dss' \in [state : States, activate : BOOLEAN]
          /\ drv' \in [enabled : BOOLEAN, suspended : BOOLEAN]
          /\ frame' \in [pending : BOOLEAN, moving : BOOLEAN, clk : Int]
          /\ rails' \in BOOLEAN
      BY <1>4, <1>1, <1>2
         DEF TianmaPowerOn, At, In, Goto, NoFault, Untouched, hardware, Return, NothingToDo, Skip, Typed,
             States
    <3>2. vcc' \in Nat /\ link' \in Nat /\ chip' \in BOOLEAN /\ over' \subseteq Resources
      BY <1>2, <2>2 DEF Typed, Resources
    <3> QED
      BY <1>2, <2>3, <3>1, <3>2 DEF Typed, system
  <2>5. Apart' => Stage(a)'
    BY <1>4, <1>1, <1>2, <2>1, <2>2, <2>3
       DEF Moves, Stage, TianmaStage, TianmaDark, TianmaPower, Tianma, Samsung, Renesas, Active,
           Suspended, Disabled, Apart, Sound, Unmixed, Flawless, On, OnMethods, OffMethods, system
  <2>6. Held'
    BY <1>4, <1>1, <1>2, <2>2, <2>3
       DEF Held, Stage, TianmaStage, TianmaDark, TianmaPower, Tianma, Samsung, Renesas, Active,
           Suspended, Disabled, Apart, Sound, Unmixed, Flawless, On, OnMethods, OffMethods, system, Still
  <2>7. RoundStep(a, "linkOn")
    BY <1>4, <1>1, <1>2, <2>2, <2>3 DEF RoundStep, Round, Role, Tianma, Samsung, Renesas, Active
  <2> QED
    BY <1>1, <2>1, <2>2, <2>3, <2>4, <2>5, <2>6, <2>7, Inside
       DEF Steps, OnSteps, OffSteps, OnMethods, OffMethods
<1> QED
  BY <1>1, <1>3, <1>4
     DEF TianmaPowerOn, At, In, Goto, NoFault, Untouched, hardware, Return, NothingToDo, Skip

\* resume of the Tianma panel looks at the suspended flag.
LEMMA TianmaResumeKeeps ==
    ASSUME IInv, NEW a \in Actors, TianmaResume(a)
    PROVE  IInv'
<1>1. panel \in Tianma /\ call[a].pc = "start" /\ call[a].method \in {"resume"}
  BY DEF TianmaResume, At, In
<1>2. /\ TypeOK /\ Typed /\ Role(a) /\ Stage(a) /\ Held /\ Round
      /\ call[a].ok \in BOOLEAN /\ call[a].tries \in Nat
      /\ vcc \in Nat /\ link \in Nat /\ frame.clk \in Int
      /\ faults \in Nat /\ before.faults \in Nat /\ before.faults <= faults
  BY <1>1, Here
<1>3. CASE drv.suspended
  <2>1. Moves(a, "linkOn", call[a].method, call[a].via, call[a].ok, call[a].tries)
    BY <1>3, <1>1, <1>2, MovesOn
       DEF TianmaResume, At, In, Goto, NoFault, Untouched, hardware, Return, NothingToDo, Skip, Steps
  <2>2. /\ dss'.state = dss.state /\ drv'.enabled = drv.enabled /\ drv'.suspended = drv.suspended
        /\ vcc' = vcc /\ link' = link /\ chip' = chip
        /\ frame'.pending = frame.pending /\ frame'.moving = frame.moving /\ frame'.clk = frame.clk
        /\ over' = over
        /\ dss'.activate = dss.activate
    BY <1>3, <1>1, <1>2
       DEF TianmaResume, At, In, Goto, NoFault, Untouched, hardware, Return, NothingToDo, Skip, Typed,
           HasVcc, Tianma
  <2>3. /\ UNCHANGED system
        /\ UNCHANGED <<faults, astray>>
    BY <1>3, <1>1 DEF TianmaResume, At, In, Goto, NoFault, Untouched, hardware, Return, NothingToDo, Skip
  <2>4. Typed'
    <3>1. /\ dss' \in [state : States, activate : BOOLEAN]
          /\ drv' \in [enabled : BOOLEAN, suspended : BOOLEAN]
          /\ frame' \in [pending : BOOLEAN, moving : BOOLEAN, clk : Int]
          /\ rails' \in BOOLEAN
      BY <1>3, <1>1, <1>2
         DEF TianmaResume, At, In, Goto, NoFault, Untouched, hardware, Return, NothingToDo, Skip, Typed,
             States
    <3>2. vcc' \in Nat /\ link' \in Nat /\ chip' \in BOOLEAN /\ over' \subseteq Resources
      BY <1>2, <2>2 DEF Typed, Resources
    <3> QED
      BY <1>2, <2>3, <3>1, <3>2 DEF Typed, system
  <2>5. Apart' => Stage(a)'
    BY <1>3, <1>1, <1>2, <2>1, <2>2, <2>3
       DEF Moves, Stage, TianmaStage, TianmaDark, TianmaPower, Tianma, Samsung, Renesas, Active,
           Suspended, Disabled, Apart, Sound, Unmixed, Flawless, On, OnMethods, OffMethods, system
  <2>6. Held'
    BY <1>3, <1>1, <1>2, <2>2, <2>3
       DEF Held, Stage, TianmaStage, TianmaDark, TianmaPower, Tianma, Samsung, Renesas, Active,
           Suspended, Disabled, Apart, Sound, Unmixed, Flawless, On, OnMethods, OffMethods, system, Still
  <2>7. RoundStep(a, "linkOn")
    BY <1>3, <1>1, <1>2, <2>2, <2>3 DEF RoundStep, Round, Role, Tianma, Samsung, Renesas, Active
  <2> QED
    BY <1>1, <2>1, <2>2, <2>3, <2>4, <2>5, <2>6, <2>7, Inside
       DEF Steps, OnSteps, OffSteps, OnMethods, OffMethods
<1>4. CASE ~drv.suspended
  <2>1. Moves(a, "returned", call[a].method, call[a].via, TRUE, call[a].tries)
    BY <1>4, <1>1, <1>2, MovesOn
       DEF TianmaResume, At, In, Goto, NoFault, Untouched, hardware, Return, NothingToDo, Skip, Steps
  <2>2. /\ dss'.state = dss.state /\ drv'.enabled = drv.enabled /\ drv'.suspended = drv.suspended
        /\ vcc' = vcc /\ link' = link /\ chip' = chip
        /\ frame'.pending = frame.pending /\ frame'.moving = frame.moving /\ frame'.clk = frame.clk
        /\ over' = over
        /\ dss'.activate = dss.activate
    BY <1>4, <1>1, <1>2
       DEF TianmaResume, At, In, Goto, NoFault, Untouched, hardware, Return, NothingToDo, Skip, Typed,
           HasVcc, Tianma
  <2>3. /\ UNCHANGED system
        /\ UNCHANGED <<faults, astray>>
    BY <1>4, <1>1 DEF TianmaResume, At, In, Goto, NoFault, Untouched, hardware, Return, NothingToDo, Skip
  <2>4. Typed'
    <3>1. /\ dss' \in [state : States, activate : BOOLEAN]
          /\ drv' \in [enabled : BOOLEAN, suspended : BOOLEAN]
          /\ frame' \in [pending : BOOLEAN, moving : BOOLEAN, clk : Int]
          /\ rails' \in BOOLEAN
      BY <1>4, <1>1, <1>2
         DEF TianmaResume, At, In, Goto, NoFault, Untouched, hardware, Return, NothingToDo, Skip, Typed,
             States
    <3>2. vcc' \in Nat /\ link' \in Nat /\ chip' \in BOOLEAN /\ over' \subseteq Resources
      BY <1>2, <2>2 DEF Typed, Resources
    <3> QED
      BY <1>2, <2>3, <3>1, <3>2 DEF Typed, system
  <2>5. Apart' => Stage(a)'
    BY <1>4, <1>1, <1>2, <2>1, <2>2, <2>3
       DEF Moves, Stage, TianmaStage, TianmaDark, TianmaPower, Tianma, Samsung, Renesas, Active,
           Suspended, Disabled, Apart, Sound, Unmixed, Flawless, On, OnMethods, OffMethods, system
  <2>6. Held'
    BY <1>4, <1>1, <1>2, <2>2, <2>3
       DEF Held, Stage, TianmaStage, TianmaDark, TianmaPower, Tianma, Samsung, Renesas, Active,
           Suspended, Disabled, Apart, Sound, Unmixed, Flawless, On, OnMethods, OffMethods, system, Still
  <2>7. RoundStep(a, "returned")
    BY <1>4, <1>1, <1>2, <2>2, <2>3 DEF RoundStep, Round, Role, Tianma, Samsung, Renesas, Active
  <2> QED
    BY <1>1, <2>1, <2>2, <2>3, <2>4, <2>5, <2>6, <2>7, Inside
       DEF Steps, OnSteps, OffSteps, OnMethods, OffMethods
<1> QED
  BY <1>1, <1>3, <1>4
     DEF TianmaResume, At, In, Goto, NoFault, Untouched, hardware, Return, NothingToDo, Skip

\* The output of the Tianma panel comes up, or fails and is forgotten.
LEMMA TianmaLinkOnKeeps ==
    ASSUME IInv, NEW a \in Actors, TianmaLinkOn(a)
    PROVE  IInv'
<1>1. panel \in Tianma /\ call[a].pc = "linkOn" /\ call[a].method \in {"enable", "resume"}
  <2>1. panel \in Tianma /\ call[a].pc = "linkOn"
    BY DEF TianmaLinkOn, At
  <2> QED
    BY <2>1, Here DEF Role, OnMethods, OffMethods, OnSteps, OffSteps
<1>2. /\ TypeOK /\ Typed /\ Role(a) /\ Stage(a) /\ Held /\ Round
      /\ call[a].ok \in BOOLEAN /\ call[a].tries \in Nat
      /\ vcc \in Nat /\ link \in Nat /\ frame.clk \in Int
      /\ faults \in Nat /\ before.faults \in Nat /\ before.faults <= faults
  BY <1>1, Here
<1>3. CASE LinkOn(a, "vccOn")
  <2>1. Moves(a, "vccOn", call[a].method, call[a].via, call[a].ok, call[a].tries)
    BY <1>3, <1>1, <1>2, MovesOn
       DEF TianmaLinkOn, At, In, Goto, NoFault, Untouched, hardware, LinkOn, Fault, Steps
  <2>2. /\ dss'.state = dss.state /\ drv'.enabled = drv.enabled /\ drv'.suspended = drv.suspended
        /\ vcc' = vcc /\ link' = link + 1 /\ chip' = chip
        /\ frame'.pending = frame.pending /\ frame'.moving = frame.moving /\ frame'.clk = frame.clk
        /\ over' = over
        /\ dss'.activate = dss.activate
    BY <1>3, <1>1, <1>2
       DEF TianmaLinkOn, At, In, Goto, NoFault, Untouched, hardware, LinkOn, Fault, Typed, HasVcc, Tianma
  <2>3. /\ UNCHANGED system
        /\ UNCHANGED <<faults, astray>>
    BY <1>3, <1>1 DEF TianmaLinkOn, At, In, Goto, NoFault, Untouched, hardware, LinkOn, Fault
  <2>4. Typed'
    <3>1. /\ dss' \in [state : States, activate : BOOLEAN]
          /\ drv' \in [enabled : BOOLEAN, suspended : BOOLEAN]
          /\ frame' \in [pending : BOOLEAN, moving : BOOLEAN, clk : Int]
          /\ rails' \in BOOLEAN
      BY <1>3, <1>1, <1>2
         DEF TianmaLinkOn, At, In, Goto, NoFault, Untouched, hardware, LinkOn, Fault, Typed, States
    <3>2. vcc' \in Nat /\ link' \in Nat /\ chip' \in BOOLEAN /\ over' \subseteq Resources
      BY <1>2, <2>2 DEF Typed, Resources
    <3> QED
      BY <1>2, <2>3, <3>1, <3>2 DEF Typed, system
  <2>5. Apart' => Stage(a)'
    BY <1>1, <1>2, <2>1, <2>2, <2>3
       DEF Moves, Stage, TianmaStage, TianmaDark, TianmaPower, Tianma, Samsung, Renesas, Active,
           Suspended, Disabled, Apart, Sound, Unmixed, Flawless, On, OnMethods, OffMethods, system
  <2>6. Held'
    BY <1>1, <1>2, <2>2, <2>3
       DEF Held, Stage, TianmaStage, TianmaDark, TianmaPower, Tianma, Samsung, Renesas, Active,
           Suspended, Disabled, Apart, Sound, Unmixed, Flawless, On, OnMethods, OffMethods, system, Still
  <2>7. RoundStep(a, "vccOn")
    BY <1>3, <1>1, <1>2, <2>2, <2>3 DEF RoundStep, Round, Role, Tianma, Samsung, Renesas, Active
  <2> QED
    BY <1>1, <2>1, <2>2, <2>3, <2>4, <2>5, <2>6, <2>7, Inside
       DEF Steps, OnSteps, OffSteps, OnMethods, OffMethods
<1>4. CASE Fault /\ Goto(a, "vccOn") /\ Untouched
  <2>1. Moves(a, "vccOn", call[a].method, call[a].via, call[a].ok, call[a].tries)
    BY <1>4, <1>1, <1>2, MovesOn
       DEF TianmaLinkOn, At, In, Goto, NoFault, Untouched, hardware, LinkOn, Fault, Steps
  <2>2. /\ dss'.state = dss.state /\ drv'.enabled = drv.enabled /\ drv'.suspended = drv.suspended
        /\ vcc' = vcc /\ link' = link /\ chip' = chip
        /\ frame'.pending = frame.pending /\ frame'.moving = frame.moving /\ frame'.clk = frame.clk
        /\ over' = over
        /\ dss'.activate = dss.activate
    BY <1>4, <1>1, <1>2
       DEF TianmaLinkOn, At, In, Goto, NoFault, Untouched, hardware, LinkOn, Fault, Typed, HasVcc, Tianma
  <2>3. /\ UNCHANGED system
        /\ faults' = faults + 1 /\ astray' = astray \cup {"fault"}
    BY <1>4, <1>1 DEF TianmaLinkOn, At, In, Goto, NoFault, Untouched, hardware, LinkOn, Fault
  <2>4. Typed'
    <3>1. /\ dss' \in [state : States, activate : BOOLEAN]
          /\ drv' \in [enabled : BOOLEAN, suspended : BOOLEAN]
          /\ frame' \in [pending : BOOLEAN, moving : BOOLEAN, clk : Int]
          /\ rails' \in BOOLEAN
      BY <1>4, <1>1, <1>2
         DEF TianmaLinkOn, At, In, Goto, NoFault, Untouched, hardware, LinkOn, Fault, Typed, States
    <3>2. vcc' \in Nat /\ link' \in Nat /\ chip' \in BOOLEAN /\ over' \subseteq Resources
      BY <1>2, <2>2 DEF Typed, Resources
    <3>3. faults' \in 0..MaxFaults
      BY <1>4, <1>1, <1>2, DssAssumption
         DEF TianmaLinkOn, At, In, Goto, NoFault, Untouched, hardware, LinkOn, Fault
    <3> QED
      BY <1>2, <2>3, <3>1, <3>2, <3>3 DEF Typed, system
  <2>5. Apart' => Stage(a)'
    BY <1>1, <1>2, <2>1, <2>2, <2>3
       DEF Moves, Stage, TianmaStage, TianmaDark, TianmaPower, Tianma, Samsung, Renesas, Active,
           Suspended, Disabled, Apart, Sound, Unmixed, Flawless, On, OnMethods, OffMethods, system
  <2>6. Held'
    BY <1>1, <1>2, <2>2, <2>3
       DEF Held, Stage, TianmaStage, TianmaDark, TianmaPower, Tianma, Samsung, Renesas, Active,
           Suspended, Disabled, Apart, Sound, Unmixed, Flawless, On, OnMethods, OffMethods, system, Still
  <2>7. RoundStep(a, "vccOn")
    BY <1>4, <1>1, <1>2, <2>2, <2>3 DEF RoundStep, Round, Role, Tianma, Samsung, Renesas, Active
  <2> QED
    BY <1>1, <2>1, <2>2, <2>3, <2>4, <2>5, <2>6, <2>7, Inside
       DEF Steps, OnSteps, OffSteps, OnMethods, OffMethods
<1> QED
  BY <1>1, <1>3, <1>4 DEF TianmaLinkOn, At, In, Goto, NoFault, Untouched, hardware, LinkOn, Fault

\* The regulator of the Tianma panel comes up, or the method fails.
LEMMA TianmaVccOnKeeps ==
    ASSUME IInv, NEW a \in Actors, TianmaVccOn(a)
    PROVE  IInv'
<1>1. panel \in Tianma /\ call[a].pc = "vccOn" /\ call[a].method \in {"enable", "resume"}
  <2>1. panel \in Tianma /\ call[a].pc = "vccOn"
    BY DEF TianmaVccOn, At
  <2> QED
    BY <2>1, Here DEF Role, OnMethods, OffMethods, OnSteps, OffSteps
<1>2. /\ TypeOK /\ Typed /\ Role(a) /\ Stage(a) /\ Held /\ Round
      /\ call[a].ok \in BOOLEAN /\ call[a].tries \in Nat
      /\ vcc \in Nat /\ link \in Nat /\ frame.clk \in Int
      /\ faults \in Nat /\ before.faults \in Nat /\ before.faults <= faults
  BY <1>1, Here
<1>3. CASE RegulatorOn(a, "chipOn")
  <2>1. Moves(a, "chipOn", call[a].method, call[a].via, call[a].ok, call[a].tries)
    BY <1>3, <1>1, <1>2, MovesOn
       DEF TianmaVccOn, At, In, Goto, NoFault, Untouched, hardware, RegulatorOn, VccOn, Fault, Return,
           Steps
  <2>2. /\ dss'.state = dss.state /\ drv'.enabled = drv.enabled /\ drv'.suspended = drv.suspended
        /\ vcc' = vcc + 1 /\ link' = link /\ chip' = chip
        /\ frame'.pending = frame.pending /\ frame'.moving = frame.moving /\ frame'.clk = frame.clk
        /\ over' = over
        /\ dss'.activate = dss.activate
    BY <1>3, <1>1, <1>2
       DEF TianmaVccOn, At, In, Goto, NoFault, Untouched, hardware, RegulatorOn, VccOn, Fault, Return,
           Typed, HasVcc, Tianma
  <2>3. /\ UNCHANGED system
        /\ UNCHANGED <<faults, astray>>
    BY <1>3, <1>1
       DEF TianmaVccOn, At, In, Goto, NoFault, Untouched, hardware, RegulatorOn, VccOn, Fault, Return
  <2>4. Typed'
    <3>1. /\ dss' \in [state : States, activate : BOOLEAN]
          /\ drv' \in [enabled : BOOLEAN, suspended : BOOLEAN]
          /\ frame' \in [pending : BOOLEAN, moving : BOOLEAN, clk : Int]
          /\ rails' \in BOOLEAN
      BY <1>3, <1>1, <1>2
         DEF TianmaVccOn, At, In, Goto, NoFault, Untouched, hardware, RegulatorOn, VccOn, Fault, Return,
             Typed, States
    <3>2. vcc' \in Nat /\ link' \in Nat /\ chip' \in BOOLEAN /\ over' \subseteq Resources
      BY <1>2, <2>2 DEF Typed, Resources
    <3> QED
      BY <1>2, <2>3, <3>1, <3>2 DEF Typed, system
  <2>5. Apart' => Stage(a)'
    BY <1>1, <1>2, <2>1, <2>2, <2>3
       DEF Moves, Stage, TianmaStage, TianmaDark, TianmaPower, Tianma, Samsung, Renesas, Active,
           Suspended, Disabled, Apart, Sound, Unmixed, Flawless, On, OnMethods, OffMethods, system
  <2>6. Held'
    BY <1>1, <1>2, <2>2, <2>3
       DEF Held, Stage, TianmaStage, TianmaDark, TianmaPower, Tianma, Samsung, Renesas, Active,
           Suspended, Disabled, Apart, Sound, Unmixed, Flawless, On, OnMethods, OffMethods, system, Still
  <2>7. RoundStep(a, "chipOn")
    BY <1>3, <1>1, <1>2, <2>2, <2>3 DEF RoundStep, Round, Role, Tianma, Samsung, Renesas, Active
  <2> QED
    BY <1>1, <2>1, <2>2, <2>3, <2>4, <2>5, <2>6, <2>7, Inside
       DEF Steps, OnSteps, OffSteps, OnMethods, OffMethods
<1>4. CASE Fault /\ Return(a, FALSE) /\ Untouched
  <2>1. Moves(a, "returned", call[a].method, call[a].via, FALSE, call[a].tries)
    BY <1>4, <1>1, <1>2, MovesOn
       DEF TianmaVccOn, At, In, Goto, NoFault, Untouched, hardware, RegulatorOn, VccOn, Fault, Return,
           Steps
  <2>2. /\ dss'.state = dss.state /\ drv'.enabled = drv.enabled /\ drv'.suspended = drv.suspended
        /\ vcc' = vcc /\ link' = link /\ chip' = chip
        /\ frame'.pending = frame.pending /\ frame'.moving = frame.moving /\ frame'.clk = frame.clk
        /\ over' = over
        /\ dss'.activate = dss.activate
    BY <1>4, <1>1, <1>2
       DEF TianmaVccOn, At, In, Goto, NoFault, Untouched, hardware, RegulatorOn, VccOn, Fault, Return,
           Typed, HasVcc, Tianma
  <2>3. /\ UNCHANGED system
        /\ faults' = faults + 1 /\ astray' = astray \cup {"fault"}
    BY <1>4, <1>1
       DEF TianmaVccOn, At, In, Goto, NoFault, Untouched, hardware, RegulatorOn, VccOn, Fault, Return
  <2>4. Typed'
    <3>1. /\ dss' \in [state : States, activate : BOOLEAN]
          /\ drv' \in [enabled : BOOLEAN, suspended : BOOLEAN]
          /\ frame' \in [pending : BOOLEAN, moving : BOOLEAN, clk : Int]
          /\ rails' \in BOOLEAN
      BY <1>4, <1>1, <1>2
         DEF TianmaVccOn, At, In, Goto, NoFault, Untouched, hardware, RegulatorOn, VccOn, Fault, Return,
             Typed, States
    <3>2. vcc' \in Nat /\ link' \in Nat /\ chip' \in BOOLEAN /\ over' \subseteq Resources
      BY <1>2, <2>2 DEF Typed, Resources
    <3>3. faults' \in 0..MaxFaults
      BY <1>4, <1>1, <1>2, DssAssumption
         DEF TianmaVccOn, At, In, Goto, NoFault, Untouched, hardware, RegulatorOn, VccOn, Fault, Return
    <3> QED
      BY <1>2, <2>3, <3>1, <3>2, <3>3 DEF Typed, system
  <2>5. Apart' => Stage(a)'
    BY <1>1, <1>2, <2>1, <2>2, <2>3
       DEF Moves, Stage, TianmaStage, TianmaDark, TianmaPower, Tianma, Samsung, Renesas, Active,
           Suspended, Disabled, Apart, Sound, Unmixed, Flawless, On, OnMethods, OffMethods, system
  <2>6. Held'
    BY <1>1, <1>2, <2>2, <2>3
       DEF Held, Stage, TianmaStage, TianmaDark, TianmaPower, Tianma, Samsung, Renesas, Active,
           Suspended, Disabled, Apart, Sound, Unmixed, Flawless, On, OnMethods, OffMethods, system, Still
  <2>7. RoundStep(a, "returned")
    BY <1>4, <1>1, <1>2, <2>2, <2>3 DEF RoundStep, Round, Role, Tianma, Samsung, Renesas, Active
  <2> QED
    BY <1>1, <2>1, <2>2, <2>3, <2>4, <2>5, <2>6, <2>7, Inside
       DEF Steps, OnSteps, OffSteps, OnMethods, OffMethods
<1> QED
  BY <1>1, <1>3, <1>4
     DEF TianmaVccOn, At, In, Goto, NoFault, Untouched, hardware, RegulatorOn, VccOn, Fault, Return

\* The controller of the Tianma panel is woken, and the display is ACTIVE.
LEMMA TianmaChipOnKeeps ==
    ASSUME IInv, NEW a \in Actors, TianmaChipOn(a)
    PROVE  IInv'
<1>1. panel \in Tianma /\ call[a].pc = "chipOn" /\ call[a].method \in {"enable", "resume"}
  <2>1. panel \in Tianma /\ call[a].pc = "chipOn"
    BY DEF TianmaChipOn, At
  <2> QED
    BY <2>1, Here DEF Role, OnMethods, OffMethods, OnSteps, OffSteps
<1>2. /\ TypeOK /\ Typed /\ Role(a) /\ Stage(a) /\ Held /\ Round
      /\ call[a].ok \in BOOLEAN /\ call[a].tries \in Nat
      /\ vcc \in Nat /\ link \in Nat /\ frame.clk \in Int
      /\ faults \in Nat /\ before.faults \in Nat /\ before.faults <= faults
  BY <1>1, Here
<1>3. CASE call[a].method = "enable"
  <2>1. Moves(a, "returned", call[a].method, call[a].via, TRUE, call[a].tries)
    BY <1>3, <1>1, <1>2, MovesOn
       DEF TianmaChipOn, At, In, Goto, NoFault, Untouched, hardware, Return, Steps
  <2>2. /\ dss'.state = "ACTIVE" /\ drv'.enabled = drv.enabled /\ drv'.suspended = drv.suspended
        /\ vcc' = vcc /\ link' = link /\ chip' = TRUE
        /\ frame'.pending = frame.pending /\ frame'.moving = frame.moving /\ frame'.clk = frame.clk
        /\ over' = over
        /\ dss'.activate = dss.activate
    BY <1>3, <1>1, <1>2
       DEF TianmaChipOn, At, In, Goto, NoFault, Untouched, hardware, Return, Typed, HasVcc, Tianma
  <2>3. /\ UNCHANGED system
        /\ UNCHANGED <<faults, astray>>
    BY <1>3, <1>1 DEF TianmaChipOn, At, In, Goto, NoFault, Untouched, hardware, Return
  <2>4. Typed'
    <3>1. /\ dss' \in [state : States, activate : BOOLEAN]
          /\ drv' \in [enabled : BOOLEAN, suspended : BOOLEAN]
          /\ frame' \in [pending : BOOLEAN, moving : BOOLEAN, clk : Int]
          /\ rails' \in BOOLEAN
      BY <1>3, <1>1, <1>2
         DEF TianmaChipOn, At, In, Goto, NoFault, Untouched, hardware, Return, Typed, States
    <3>2. vcc' \in Nat /\ link' \in Nat /\ chip' \in BOOLEAN /\ over' \subseteq Resources
      BY <1>2, <2>2 DEF Typed, Resources
    <3> QED
      BY <1>2, <2>3, <3>1, <3>2 DEF Typed, system
  <2>5. Apart' => Stage(a)'
    BY <1>3, <1>1, <1>2, <2>1, <2>2, <2>3
       DEF Moves, Stage, TianmaStage, TianmaDark, TianmaPower, Tianma, Samsung, Renesas, Active,
           Suspended, Disabled, Apart, Sound, Unmixed, Flawless, On, OnMethods, OffMethods, system
  <2>6. Held'
    BY <1>3, <1>1, <1>2, <2>2, <2>3
       DEF Held, Stage, TianmaStage, TianmaDark, TianmaPower, Tianma, Samsung, Renesas, Active,
           Suspended, Disabled, Apart, Sound, Unmixed, Flawless, On, OnMethods, OffMethods, system, Still
  <2>7. RoundStep(a, "returned")
    BY <1>3, <1>1, <1>2, <2>2, <2>3 DEF RoundStep, Round, Role, Tianma, Samsung, Renesas, Active
  <2> QED
    BY <1>1, <2>1, <2>2, <2>3, <2>4, <2>5, <2>6, <2>7, Inside
       DEF Steps, OnSteps, OffSteps, OnMethods, OffMethods
<1>4. CASE call[a].method = "resume"
  <2>1. Moves(a, "returned", call[a].method, call[a].via, TRUE, call[a].tries)
    BY <1>4, <1>1, <1>2, MovesOn
       DEF TianmaChipOn, At, In, Goto, NoFault, Untouched, hardware, Return, Steps
  <2>2. /\ dss'.state = "ACTIVE" /\ drv'.enabled = drv.enabled /\ drv'.suspended = FALSE
        /\ vcc' = vcc /\ link' = link /\ chip' = TRUE
        /\ frame'.pending = frame.pending /\ frame'.moving = frame.moving /\ frame'.clk = frame.clk
        /\ over' = over
        /\ dss'.activate = dss.activate
    BY <1>4, <1>1, <1>2
       DEF TianmaChipOn, At, In, Goto, NoFault, Untouched, hardware, Return, Typed, HasVcc, Tianma
  <2>3. /\ UNCHANGED system
        /\ UNCHANGED <<faults, astray>>
    BY <1>4, <1>1 DEF TianmaChipOn, At, In, Goto, NoFault, Untouched, hardware, Return
  <2>4. Typed'
    <3>1. /\ dss' \in [state : States, activate : BOOLEAN]
          /\ drv' \in [enabled : BOOLEAN, suspended : BOOLEAN]
          /\ frame' \in [pending : BOOLEAN, moving : BOOLEAN, clk : Int]
          /\ rails' \in BOOLEAN
      BY <1>4, <1>1, <1>2
         DEF TianmaChipOn, At, In, Goto, NoFault, Untouched, hardware, Return, Typed, States
    <3>2. vcc' \in Nat /\ link' \in Nat /\ chip' \in BOOLEAN /\ over' \subseteq Resources
      BY <1>2, <2>2 DEF Typed, Resources
    <3> QED
      BY <1>2, <2>3, <3>1, <3>2 DEF Typed, system
  <2>5. Apart' => Stage(a)'
    BY <1>4, <1>1, <1>2, <2>1, <2>2, <2>3
       DEF Moves, Stage, TianmaStage, TianmaDark, TianmaPower, Tianma, Samsung, Renesas, Active,
           Suspended, Disabled, Apart, Sound, Unmixed, Flawless, On, OnMethods, OffMethods, system
  <2>6. Held'
    BY <1>4, <1>1, <1>2, <2>2, <2>3
       DEF Held, Stage, TianmaStage, TianmaDark, TianmaPower, Tianma, Samsung, Renesas, Active,
           Suspended, Disabled, Apart, Sound, Unmixed, Flawless, On, OnMethods, OffMethods, system, Still
  <2>7. RoundStep(a, "returned")
    BY <1>4, <1>1, <1>2, <2>2, <2>3 DEF RoundStep, Round, Role, Tianma, Samsung, Renesas, Active
  <2> QED
    BY <1>1, <2>1, <2>2, <2>3, <2>4, <2>5, <2>6, <2>7, Inside
       DEF Steps, OnSteps, OffSteps, OnMethods, OffMethods
<1> QED
  BY <1>1, <1>3, <1>4 DEF TianmaChipOn, At, In, Goto, NoFault, Untouched, hardware, Return

\* disable of the Tianma panel tests and clears the enabled flag.
LEMMA TianmaPowerOffKeeps ==
    ASSUME IInv, NEW a \in Actors, TianmaPowerOff(a)
    PROVE  IInv'
<1>1. panel \in Tianma /\ call[a].pc = "start" /\ call[a].method \in {"disable"}
  BY DEF TianmaPowerOff, At, In
<1>2. /\ TypeOK /\ Typed /\ Role(a) /\ Stage(a) /\ Held /\ Round
      /\ call[a].ok \in BOOLEAN /\ call[a].tries \in Nat
      /\ vcc \in Nat /\ link \in Nat /\ frame.clk \in Int
      /\ faults \in Nat /\ before.faults \in Nat /\ before.faults <= faults
  BY <1>1, Here
<1>3. CASE drv.enabled
  <2>1. Moves(a, "chipOff", call[a].method, call[a].via, call[a].ok, call[a].tries)
    BY <1>3, <1>1, <1>2, MovesOn
       DEF TianmaPowerOff, At, In, Goto, NoFault, Untouched, hardware, Return, NothingToDo, Skip, Steps
  <2>2. /\ dss'.state = dss.state /\ drv'.enabled = FALSE /\ drv'.suspended = drv.suspended
        /\ vcc' = vcc /\ link' = link /\ chip' = chip
        /\ frame'.pending = frame.pending /\ frame'.moving = frame.moving /\ frame'.clk = frame.clk
        /\ over' = over
        /\ dss'.activate = dss.activate
    BY <1>3, <1>1, <1>2
       DEF TianmaPowerOff, At, In, Goto, NoFault, Untouched, hardware, Return, NothingToDo, Skip, Typed,
           HasVcc, Tianma
  <2>3. /\ UNCHANGED system
        /\ UNCHANGED <<faults, astray>>
    BY <1>3, <1>1
       DEF TianmaPowerOff, At, In, Goto, NoFault, Untouched, hardware, Return, NothingToDo, Skip
  <2>4. Typed'
    <3>1. /\ dss' \in [state : States, activate : BOOLEAN]
          /\ drv' \in [enabled : BOOLEAN, suspended : BOOLEAN]
          /\ frame' \in [pending : BOOLEAN, moving : BOOLEAN, clk : Int]
          /\ rails' \in BOOLEAN
      BY <1>3, <1>1, <1>2
         DEF TianmaPowerOff, At, In, Goto, NoFault, Untouched, hardware, Return, NothingToDo, Skip,
             Typed, States
    <3>2. vcc' \in Nat /\ link' \in Nat /\ chip' \in BOOLEAN /\ over' \subseteq Resources
      BY <1>2, <2>2 DEF Typed, Resources
    <3> QED
      BY <1>2, <2>3, <3>1, <3>2 DEF Typed, system
  <2>5. Apart' => Stage(a)'
    BY <1>3, <1>1, <1>2, <2>1, <2>2, <2>3
       DEF Moves, Stage, TianmaStage, TianmaDark, TianmaPower, Tianma, Samsung, Renesas, Active,
           Suspended, Disabled, Apart, Sound, Unmixed, Flawless, On, OnMethods, OffMethods, system
  <2>6. Held'
    BY <1>3, <1>1, <1>2, <2>2, <2>3
       DEF Held, Stage, TianmaStage, TianmaDark, TianmaPower, Tianma, Samsung, Renesas, Active,
           Suspended, Disabled, Apart, Sound, Unmixed, Flawless, On, OnMethods, OffMethods, system, Still
  <2>7. RoundStep(a, "chipOff")
    BY <1>3, <1>1, <1>2, <2>2, <2>3 DEF RoundStep, Round, Role, Tianma, Samsung, Renesas, Active
  <2> QED
    BY <1>1, <2>1, <2>2, <2>3, <2>4, <2>5, <2>6, <2>7, Inside
       DEF Steps, OnSteps, OffSteps, OnMethods, OffMethods
<1>4. CASE ~drv.enabled
  <2>1. Moves(a, "returned", call[a].method, call[a].via, TRUE, call[a].tries)
    BY <1>4, <1>1, <1>2, MovesOn
       DEF TianmaPowerOff, At, In, Goto, NoFault, Untouched, hardware, Return, NothingToDo, Skip, Steps
  <2>2. /\ dss'.state = dss.state /\ drv'.enabled = drv.enabled /\ drv'.suspended = drv.suspended
        /\ vcc' = vcc /\ link' = link /\ chip' = chip
        /\ frame'.pending = frame.pending /\ frame'.moving = frame.moving /\ frame'.clk = frame.clk
        /\ over' = over
        /\ dss'.activate = dss.activate
    BY <1>4, <1>1, <1>2
       DEF TianmaPowerOff, At, In, Goto, NoFault, Untouched, hardware, Return, NothingToDo, Skip, Typed,
           HasVcc, Tianma
  <2>3. /\ UNCHANGED system
        /\ UNCHANGED <<faults, astray>>
    BY <1>4, <1>1
       DEF TianmaPowerOff, At, In, Goto, NoFault, Untouched, hardware, Return, NothingToDo, Skip
  <2>4. Typed'
    <3>1. /\ dss' \in [state : States, activate : BOOLEAN]
          /\ drv' \in [enabled : BOOLEAN, suspended : BOOLEAN]
          /\ frame' \in [pending : BOOLEAN, moving : BOOLEAN, clk : Int]
          /\ rails' \in BOOLEAN
      BY <1>4, <1>1, <1>2
         DEF TianmaPowerOff, At, In, Goto, NoFault, Untouched, hardware, Return, NothingToDo, Skip,
             Typed, States
    <3>2. vcc' \in Nat /\ link' \in Nat /\ chip' \in BOOLEAN /\ over' \subseteq Resources
      BY <1>2, <2>2 DEF Typed, Resources
    <3> QED
      BY <1>2, <2>3, <3>1, <3>2 DEF Typed, system
  <2>5. Apart' => Stage(a)'
    BY <1>4, <1>1, <1>2, <2>1, <2>2, <2>3
       DEF Moves, Stage, TianmaStage, TianmaDark, TianmaPower, Tianma, Samsung, Renesas, Active,
           Suspended, Disabled, Apart, Sound, Unmixed, Flawless, On, OnMethods, OffMethods, system
  <2>6. Held'
    BY <1>4, <1>1, <1>2, <2>2, <2>3
       DEF Held, Stage, TianmaStage, TianmaDark, TianmaPower, Tianma, Samsung, Renesas, Active,
           Suspended, Disabled, Apart, Sound, Unmixed, Flawless, On, OnMethods, OffMethods, system, Still
  <2>7. RoundStep(a, "returned")
    BY <1>4, <1>1, <1>2, <2>2, <2>3 DEF RoundStep, Round, Role, Tianma, Samsung, Renesas, Active
  <2> QED
    BY <1>1, <2>1, <2>2, <2>3, <2>4, <2>5, <2>6, <2>7, Inside
       DEF Steps, OnSteps, OffSteps, OnMethods, OffMethods
<1> QED
  BY <1>1, <1>3, <1>4
     DEF TianmaPowerOff, At, In, Goto, NoFault, Untouched, hardware, Return, NothingToDo, Skip

\* suspend of the Tianma panel looks at the suspended flag.
LEMMA TianmaSuspendKeeps ==
    ASSUME IInv, NEW a \in Actors, TianmaSuspend(a)
    PROVE  IInv'
<1>1. panel \in Tianma /\ call[a].pc = "start" /\ call[a].method \in {"suspend"}
  BY DEF TianmaSuspend, At, In
<1>2. /\ TypeOK /\ Typed /\ Role(a) /\ Stage(a) /\ Held /\ Round
      /\ call[a].ok \in BOOLEAN /\ call[a].tries \in Nat
      /\ vcc \in Nat /\ link \in Nat /\ frame.clk \in Int
      /\ faults \in Nat /\ before.faults \in Nat /\ before.faults <= faults
  BY <1>1, Here
<1>3. CASE drv.suspended
  <2>1. Moves(a, "returned", call[a].method, call[a].via, TRUE, call[a].tries)
    BY <1>3, <1>1, <1>2, MovesOn
       DEF TianmaSuspend, At, In, Goto, NoFault, Untouched, hardware, Return, NothingToDo, Skip, Steps
  <2>2. /\ dss'.state = dss.state /\ drv'.enabled = drv.enabled /\ drv'.suspended = drv.suspended
        /\ vcc' = vcc /\ link' = link /\ chip' = chip
        /\ frame'.pending = frame.pending /\ frame'.moving = frame.moving /\ frame'.clk = frame.clk
        /\ over' = over
        /\ dss'.activate = dss.activate
    BY <1>3, <1>1, <1>2
       DEF TianmaSuspend, At, In, Goto, NoFault, Untouched, hardware, Return, NothingToDo, Skip, Typed,
           HasVcc, Tianma
  <2>3. /\ UNCHANGED system
        /\ UNCHANGED <<faults, astray>>
    BY <1>3, <1>1
       DEF TianmaSuspend, At, In, Goto, NoFault, Untouched, hardware, Return, NothingToDo, Skip
  <2>4. Typed'
    <3>1. /\ dss' \in [state : States, activate : BOOLEAN]
          /\ drv' \in [enabled : BOOLEAN, suspended : BOOLEAN]
          /\ frame' \in [pending : BOOLEAN, moving : BOOLEAN, clk : Int]
          /\ rails' \in BOOLEAN
      BY <1>3, <1>1, <1>2
         DEF TianmaSuspend, At, In, Goto, NoFault, Untouched, hardware, Return, NothingToDo, Skip, Typed,
             States
    <3>2. vcc' \in Nat /\ link' \in Nat /\ chip' \in BOOLEAN /\ over' \subseteq Resources
      BY <1>2, <2>2 DEF Typed, Resources
    <3> QED
      BY <1>2, <2>3, <3>1, <3>2 DEF Typed, system
  <2>5. Apart' => Stage(a)'
    BY <1>3, <1>1, <1>2, <2>1, <2>2, <2>3
       DEF Moves, Stage, TianmaStage, TianmaDark, TianmaPower, Tianma, Samsung, Renesas, Active,
           Suspended, Disabled, Apart, Sound, Unmixed, Flawless, On, OnMethods, OffMethods, system
  <2>6. Held'
    BY <1>3, <1>1, <1>2, <2>2, <2>3
       DEF Held, Stage, TianmaStage, TianmaDark, TianmaPower, Tianma, Samsung, Renesas, Active,
           Suspended, Disabled, Apart, Sound, Unmixed, Flawless, On, OnMethods, OffMethods, system, Still
  <2>7. RoundStep(a, "returned")
    BY <1>3, <1>1, <1>2, <2>2, <2>3 DEF RoundStep, Round, Role, Tianma, Samsung, Renesas, Active
  <2> QED
    BY <1>1, <2>1, <2>2, <2>3, <2>4, <2>5, <2>6, <2>7, Inside
       DEF Steps, OnSteps, OffSteps, OnMethods, OffMethods
<1>4. CASE ~drv.suspended
  <2>1. Moves(a, "chipOff", call[a].method, call[a].via, call[a].ok, call[a].tries)
    BY <1>4, <1>1, <1>2, MovesOn
       DEF TianmaSuspend, At, In, Goto, NoFault, Untouched, hardware, Return, NothingToDo, Skip, Steps
  <2>2. /\ dss'.state = dss.state /\ drv'.enabled = drv.enabled /\ drv'.suspended = drv.suspended
        /\ vcc' = vcc /\ link' = link /\ chip' = chip
        /\ frame'.pending = frame.pending /\ frame'.moving = frame.moving /\ frame'.clk = frame.clk
        /\ over' = over
        /\ dss'.activate = dss.activate
    BY <1>4, <1>1, <1>2
       DEF TianmaSuspend, At, In, Goto, NoFault, Untouched, hardware, Return, NothingToDo, Skip, Typed,
           HasVcc, Tianma
  <2>3. /\ UNCHANGED system
        /\ UNCHANGED <<faults, astray>>
    BY <1>4, <1>1
       DEF TianmaSuspend, At, In, Goto, NoFault, Untouched, hardware, Return, NothingToDo, Skip
  <2>4. Typed'
    <3>1. /\ dss' \in [state : States, activate : BOOLEAN]
          /\ drv' \in [enabled : BOOLEAN, suspended : BOOLEAN]
          /\ frame' \in [pending : BOOLEAN, moving : BOOLEAN, clk : Int]
          /\ rails' \in BOOLEAN
      BY <1>4, <1>1, <1>2
         DEF TianmaSuspend, At, In, Goto, NoFault, Untouched, hardware, Return, NothingToDo, Skip, Typed,
             States
    <3>2. vcc' \in Nat /\ link' \in Nat /\ chip' \in BOOLEAN /\ over' \subseteq Resources
      BY <1>2, <2>2 DEF Typed, Resources
    <3> QED
      BY <1>2, <2>3, <3>1, <3>2 DEF Typed, system
  <2>5. Apart' => Stage(a)'
    BY <1>4, <1>1, <1>2, <2>1, <2>2, <2>3
       DEF Moves, Stage, TianmaStage, TianmaDark, TianmaPower, Tianma, Samsung, Renesas, Active,
           Suspended, Disabled, Apart, Sound, Unmixed, Flawless, On, OnMethods, OffMethods, system
  <2>6. Held'
    BY <1>4, <1>1, <1>2, <2>2, <2>3
       DEF Held, Stage, TianmaStage, TianmaDark, TianmaPower, Tianma, Samsung, Renesas, Active,
           Suspended, Disabled, Apart, Sound, Unmixed, Flawless, On, OnMethods, OffMethods, system, Still
  <2>7. RoundStep(a, "chipOff")
    BY <1>4, <1>1, <1>2, <2>2, <2>3 DEF RoundStep, Round, Role, Tianma, Samsung, Renesas, Active
  <2> QED
    BY <1>1, <2>1, <2>2, <2>3, <2>4, <2>5, <2>6, <2>7, Inside
       DEF Steps, OnSteps, OffSteps, OnMethods, OffMethods
<1> QED
  BY <1>1, <1>3, <1>4
     DEF TianmaSuspend, At, In, Goto, NoFault, Untouched, hardware, Return, NothingToDo, Skip

\* The controller of the Tianma panel goes to sleep.
LEMMA TianmaChipOffKeeps ==
    ASSUME IInv, NEW a \in Actors, TianmaChipOff(a)
    PROVE  IInv'
<1>1. panel \in Tianma /\ call[a].pc = "chipOff" /\ call[a].method \in {"disable", "suspend"}
  <2>1. panel \in Tianma /\ call[a].pc = "chipOff"
    BY DEF TianmaChipOff, At
  <2> QED
    BY <2>1, Here DEF Role, OnMethods, OffMethods, OnSteps, OffSteps
<1>2. /\ TypeOK /\ Typed /\ Role(a) /\ Stage(a) /\ Held /\ Round
      /\ call[a].ok \in BOOLEAN /\ call[a].tries \in Nat
      /\ vcc \in Nat /\ link \in Nat /\ frame.clk \in Int
      /\ faults \in Nat /\ before.faults \in Nat /\ before.faults <= faults
  BY <1>1, Here
<1>3. CASE TRUE
  <2>1. Moves(a, "vccOff", call[a].method, call[a].via, call[a].ok, call[a].tries)
    BY <1>3, <1>1, <1>2, MovesOn DEF TianmaChipOff, At, In, Goto, NoFault, Untouched, hardware, Steps
  <2>2. /\ dss'.state = dss.state /\ drv'.enabled = drv.enabled /\ drv'.suspended = drv.suspended
        /\ vcc' = vcc /\ link' = link /\ chip' = FALSE
        /\ frame'.pending = frame.pending /\ frame'.moving = frame.moving /\ frame'.clk = frame.clk
        /\ over' = over
        /\ dss'.activate = dss.activate
    BY <1>3, <1>1, <1>2
       DEF TianmaChipOff, At, In, Goto, NoFault, Untouched, hardware, Typed, HasVcc, Tianma
  <2>3. /\ UNCHANGED system
        /\ UNCHANGED <<faults, astray>>
    BY <1>3, <1>1 DEF TianmaChipOff, At, In, Goto, NoFault, Untouched, hardware
  <2>4. Typed'
    <3>1. /\ dss' \in [state : States, activate : BOOLEAN]
          /\ drv' \in [enabled : BOOLEAN, suspended : BOOLEAN]
          /\ frame' \in [pending : BOOLEAN, moving : BOOLEAN, clk : Int]
          /\ rails' \in BOOLEAN
      BY <1>3, <1>1, <1>2 DEF TianmaChipOff, At, In, Goto, NoFault, Untouched, hardware, Typed, States
    <3>2. vcc' \in Nat /\ link' \in Nat /\ chip' \in BOOLEAN /\ over' \subseteq Resources
      BY <1>2, <2>2 DEF Typed, Resources
    <3> QED
      BY <1>2, <2>3, <3>1, <3>2 DEF Typed, system
  <2>5. Apart' => Stage(a)'
    BY <1>1, <1>2, <2>1, <2>2, <2>3
       DEF Moves, Stage, TianmaStage, TianmaDark, TianmaPower, Tianma, Samsung, Renesas, Active,
           Suspended, Disabled, Apart, Sound, Unmixed, Flawless, On, OnMethods, OffMethods, system
  <2>6. Held'
    BY <1>1, <1>2, <2>2, <2>3
       DEF Held, Stage, TianmaStage, TianmaDark, TianmaPower, Tianma, Samsung, Renesas, Active,
           Suspended, Disabled, Apart, Sound, Unmixed, Flawless, On, OnMethods, OffMethods, system, Still
  <2>7. RoundStep(a, "vccOff")
    BY <1>3, <1>1, <1>2, <2>2, <2>3 DEF RoundStep, Round, Role, Tianma, Samsung, Renesas, Active
  <2> QED
    BY <1>1, <2>1, <2>2, <2>3, <2>4, <2>5, <2>6, <2>7, Inside
       DEF Steps, OnSteps, OffSteps, OnMethods, OffMethods
<1> QED
  BY <1>1, <1>3 DEF TianmaChipOff, At, In, Goto, NoFault, Untouched, hardware

\* The regulator of the Tianma panel goes off.
LEMMA TianmaVccOffKeeps ==
    ASSUME IInv, NEW a \in Actors, TianmaVccOff(a)
    PROVE  IInv'
<1>1. panel \in Tianma /\ call[a].pc = "vccOff" /\ call[a].method \in {"disable", "suspend"}
  <2>1. panel \in Tianma /\ call[a].pc = "vccOff"
    BY DEF TianmaVccOff, At
  <2> QED
    BY <2>1, Here DEF Role, OnMethods, OffMethods, OnSteps, OffSteps
<1>2. /\ TypeOK /\ Typed /\ Role(a) /\ Stage(a) /\ Held /\ Round
      /\ call[a].ok \in BOOLEAN /\ call[a].tries \in Nat
      /\ vcc \in Nat /\ link \in Nat /\ frame.clk \in Int
      /\ faults \in Nat /\ before.faults \in Nat /\ before.faults <= faults
  BY <1>1, Here
<1>3. CASE TRUE
  <2>1. Moves(a, "linkOff", call[a].method, call[a].via, call[a].ok, call[a].tries)
    BY <1>3, <1>1, <1>2, MovesOn
       DEF TianmaVccOff, At, In, Goto, NoFault, Untouched, hardware, VccOff, Less, Steps
  <2>2. /\ dss'.state = dss.state /\ drv'.enabled = drv.enabled /\ drv'.suspended = drv.suspended
        /\ vcc' = (IF vcc = 0 THEN 0 ELSE vcc - 1) /\ link' = link /\ chip' = chip
        /\ frame'.pending = frame.pending /\ frame'.moving = frame.moving /\ frame'.clk = frame.clk
        /\ over' = (IF vcc = 0 THEN over \cup {"vcc"} ELSE over)
        /\ dss'.activate = dss.activate
    BY <1>3, <1>1, <1>2
       DEF TianmaVccOff, At, In, Goto, NoFault, Untouched, hardware, VccOff, Less, Typed, HasVcc, Tianma
  <2>3. /\ UNCHANGED system
        /\ UNCHANGED <<faults, astray>>
    BY <1>3, <1>1 DEF TianmaVccOff, At, In, Goto, NoFault, Untouched, hardware, VccOff, Less
  <2>4. Typed'
    <3>1. /\ dss' \in [state : States, activate : BOOLEAN]
          /\ drv' \in [enabled : BOOLEAN, suspended : BOOLEAN]
          /\ frame' \in [pending : BOOLEAN, moving : BOOLEAN, clk : Int]
          /\ rails' \in BOOLEAN
      BY <1>3, <1>1, <1>2
         DEF TianmaVccOff, At, In, Goto, NoFault, Untouched, hardware, VccOff, Less, Typed, States
    <3>2. vcc' \in Nat /\ link' \in Nat /\ chip' \in BOOLEAN /\ over' \subseteq Resources
      BY <1>2, <2>2 DEF Typed, Resources
    <3> QED
      BY <1>2, <2>3, <3>1, <3>2 DEF Typed, system
  <2>5. Apart' => Stage(a)'
    BY <1>1, <1>2, <2>1, <2>2, <2>3
       DEF Moves, Stage, TianmaStage, TianmaDark, TianmaPower, Tianma, Samsung, Renesas, Active,
           Suspended, Disabled, Apart, Sound, Unmixed, Flawless, On, OnMethods, OffMethods, system
  <2>6. Held'
    BY <1>1, <1>2, <2>2, <2>3
       DEF Held, Stage, TianmaStage, TianmaDark, TianmaPower, Tianma, Samsung, Renesas, Active,
           Suspended, Disabled, Apart, Sound, Unmixed, Flawless, On, OnMethods, OffMethods, system, Still
  <2>7. RoundStep(a, "linkOff")
    BY <1>3, <1>1, <1>2, <2>2, <2>3 DEF RoundStep, Round, Role, Tianma, Samsung, Renesas, Active
  <2> QED
    BY <1>1, <2>1, <2>2, <2>3, <2>4, <2>5, <2>6, <2>7, Inside
       DEF Steps, OnSteps, OffSteps, OnMethods, OffMethods
<1> QED
  BY <1>1, <1>3 DEF TianmaVccOff, At, In, Goto, NoFault, Untouched, hardware, VccOff, Less

\* The output of the Tianma panel goes off, and the state says so.
LEMMA TianmaLinkOffKeeps ==
    ASSUME IInv, NEW a \in Actors, TianmaLinkOff(a)
    PROVE  IInv'
<1>1. panel \in Tianma /\ call[a].pc = "linkOff" /\ call[a].method \in {"disable", "suspend"}
  <2>1. panel \in Tianma /\ call[a].pc = "linkOff"
    BY DEF TianmaLinkOff, At
  <2> QED
    BY <2>1, Here DEF Role, OnMethods, OffMethods, OnSteps, OffSteps
<1>2. /\ TypeOK /\ Typed /\ Role(a) /\ Stage(a) /\ Held /\ Round
      /\ call[a].ok \in BOOLEAN /\ call[a].tries \in Nat
      /\ vcc \in Nat /\ link \in Nat /\ frame.clk \in Int
      /\ faults \in Nat /\ before.faults \in Nat /\ before.faults <= faults
  BY <1>1, Here
<1>3. CASE call[a].method = "disable"
  <2>1. Moves(a, "returned", call[a].method, call[a].via, TRUE, call[a].tries)
    BY <1>3, <1>1, <1>2, MovesOn
       DEF TianmaLinkOff, At, In, Goto, NoFault, Untouched, hardware, LinkOff, Less, Return, Steps
  <2>2. /\ dss'.state = "DISABLED" /\ drv'.enabled = drv.enabled /\ drv'.suspended = drv.suspended
        /\ vcc' = vcc /\ link' = (IF link = 0 THEN 0 ELSE link - 1) /\ chip' = chip
        /\ frame'.pending = frame.pending /\ frame'.moving = frame.moving /\ frame'.clk = frame.clk
        /\ over' = (IF link = 0 THEN over \cup {"link"} ELSE over)
        /\ dss'.activate = dss.activate
    BY <1>3, <1>1, <1>2
       DEF TianmaLinkOff, At, In, Goto, NoFault, Untouched, hardware, LinkOff, Less, Return, Typed,
           HasVcc, Tianma
  <2>3. /\ UNCHANGED system
        /\ UNCHANGED <<faults, astray>>
    BY <1>3, <1>1 DEF TianmaLinkOff, At, In, Goto, NoFault, Untouched, hardware, LinkOff, Less, Return
  <2>4. Typed'
    <3>1. /\ dss' \in [state : States, activate : BOOLEAN]
          /\ drv' \in [enabled : BOOLEAN, suspended : BOOLEAN]
          /\ frame' \in [pending : BOOLEAN, moving : BOOLEAN, clk : Int]
          /\ rails' \in BOOLEAN
      BY <1>3, <1>1, <1>2
         DEF TianmaLinkOff, At, In, Goto, NoFault, Untouched, hardware, LinkOff, Less, Return, Typed,
             States
    <3>2. vcc' \in Nat /\ link' \in Nat /\ chip' \in BOOLEAN /\ over' \subseteq Resources
      BY <1>2, <2>2 DEF Typed, Resources
    <3> QED
      BY <1>2, <2>3, <3>1, <3>2 DEF Typed, system
  <2>5. Apart' => Stage(a)'
    BY <1>3, <1>1, <1>2, <2>1, <2>2, <2>3
       DEF Moves, Stage, TianmaStage, TianmaDark, TianmaPower, Tianma, Samsung, Renesas, Active,
           Suspended, Disabled, Apart, Sound, Unmixed, Flawless, On, OnMethods, OffMethods, system
  <2>6. Held'
    BY <1>3, <1>1, <1>2, <2>2, <2>3
       DEF Held, Stage, TianmaStage, TianmaDark, TianmaPower, Tianma, Samsung, Renesas, Active,
           Suspended, Disabled, Apart, Sound, Unmixed, Flawless, On, OnMethods, OffMethods, system, Still
  <2>7. RoundStep(a, "returned")
    BY <1>3, <1>1, <1>2, <2>2, <2>3 DEF RoundStep, Round, Role, Tianma, Samsung, Renesas, Active
  <2> QED
    BY <1>1, <2>1, <2>2, <2>3, <2>4, <2>5, <2>6, <2>7, Inside
       DEF Steps, OnSteps, OffSteps, OnMethods, OffMethods
<1>4. CASE call[a].method = "suspend"
  <2>1. Moves(a, "returned", call[a].method, call[a].via, TRUE, call[a].tries)
    BY <1>4, <1>1, <1>2, MovesOn
       DEF TianmaLinkOff, At, In, Goto, NoFault, Untouched, hardware, LinkOff, Less, Return, Steps
  <2>2. /\ dss'.state = "SUSPENDED" /\ drv'.enabled = drv.enabled /\ drv'.suspended = TRUE
        /\ vcc' = vcc /\ link' = (IF link = 0 THEN 0 ELSE link - 1) /\ chip' = chip
        /\ frame'.pending = frame.pending /\ frame'.moving = frame.moving /\ frame'.clk = frame.clk
        /\ over' = (IF link = 0 THEN over \cup {"link"} ELSE over)
        /\ dss'.activate = dss.activate
    BY <1>4, <1>1, <1>2
       DEF TianmaLinkOff, At, In, Goto, NoFault, Untouched, hardware, LinkOff, Less, Return, Typed,
           HasVcc, Tianma
  <2>3. /\ UNCHANGED system
        /\ UNCHANGED <<faults, astray>>
    BY <1>4, <1>1 DEF TianmaLinkOff, At, In, Goto, NoFault, Untouched, hardware, LinkOff, Less, Return
  <2>4. Typed'
    <3>1. /\ dss' \in [state : States, activate : BOOLEAN]
          /\ drv' \in [enabled : BOOLEAN, suspended : BOOLEAN]
          /\ frame' \in [pending : BOOLEAN, moving : BOOLEAN, clk : Int]
          /\ rails' \in BOOLEAN
      BY <1>4, <1>1, <1>2
         DEF TianmaLinkOff, At, In, Goto, NoFault, Untouched, hardware, LinkOff, Less, Return, Typed,
             States
    <3>2. vcc' \in Nat /\ link' \in Nat /\ chip' \in BOOLEAN /\ over' \subseteq Resources
      BY <1>2, <2>2 DEF Typed, Resources
    <3> QED
      BY <1>2, <2>3, <3>1, <3>2 DEF Typed, system
  <2>5. Apart' => Stage(a)'
    BY <1>4, <1>1, <1>2, <2>1, <2>2, <2>3
       DEF Moves, Stage, TianmaStage, TianmaDark, TianmaPower, Tianma, Samsung, Renesas, Active,
           Suspended, Disabled, Apart, Sound, Unmixed, Flawless, On, OnMethods, OffMethods, system
  <2>6. Held'
    BY <1>4, <1>1, <1>2, <2>2, <2>3
       DEF Held, Stage, TianmaStage, TianmaDark, TianmaPower, Tianma, Samsung, Renesas, Active,
           Suspended, Disabled, Apart, Sound, Unmixed, Flawless, On, OnMethods, OffMethods, system, Still
  <2>7. RoundStep(a, "returned")
    BY <1>4, <1>1, <1>2, <2>2, <2>3 DEF RoundStep, Round, Role, Tianma, Samsung, Renesas, Active
  <2> QED
    BY <1>1, <2>1, <2>2, <2>3, <2>4, <2>5, <2>6, <2>7, Inside
       DEF Steps, OnSteps, OffSteps, OnMethods, OffMethods
<1> QED
  BY <1>1, <1>3, <1>4
     DEF TianmaLinkOff, At, In, Goto, NoFault, Untouched, hardware, LinkOff, Less, Return

\* enable and resume of the Samsung panel do nothing while it is ACTIVE.
LEMMA SamsungPowerOnKeeps ==
    ASSUME IInv, NEW a \in Actors, SamsungPowerOn(a)
    PROVE  IInv'
<1>1. panel \in Samsung /\ call[a].pc = "start" /\ call[a].method \in {"enable", "resume"}
  BY DEF SamsungPowerOn, At, In
<1>2. /\ TypeOK /\ Typed /\ Role(a) /\ Stage(a) /\ Held /\ Round
      /\ call[a].ok \in BOOLEAN /\ call[a].tries \in Nat
      /\ vcc \in Nat /\ link \in Nat /\ frame.clk \in Int
      /\ faults \in Nat /\ before.faults \in Nat /\ before.faults <= faults
  BY <1>1, Here
<1>3. CASE dss.state = "ACTIVE"
  <2>1. Moves(a, "settleOn", call[a].method, call[a].via, call[a].ok, call[a].tries)
    BY <1>3, <1>1, <1>2, MovesOn
       DEF SamsungPowerOn, At, In, Goto, NoFault, Untouched, hardware, Skip, Steps
  <2>2. /\ dss'.state = dss.state /\ drv'.enabled = drv.enabled /\ drv'.suspended = drv.suspended
        /\ vcc' = vcc /\ link' = link /\ chip' = chip
        /\ frame'.pending = frame.pending /\ frame'.moving = frame.moving /\ frame'.clk = frame.clk
        /\ over' = over
        /\ dss'.activate = dss.activate
    BY <1>3, <1>1, <1>2
       DEF SamsungPowerOn, At, In, Goto, NoFault, Untouched, hardware, Skip, Typed, HasVcc
  <2>3. /\ UNCHANGED system
        /\ UNCHANGED <<faults, astray>>
    BY <1>3, <1>1 DEF SamsungPowerOn, At, In, Goto, NoFault, Untouched, hardware, Skip
  <2>4. Typed'
    <3>1. /\ dss' \in [state : States, activate : BOOLEAN]
          /\ drv' \in [enabled : BOOLEAN, suspended : BOOLEAN]
          /\ frame' \in [pending : BOOLEAN, moving : BOOLEAN, clk : Int]
          /\ rails' \in BOOLEAN
      BY <1>3, <1>1, <1>2
         DEF SamsungPowerOn, At, In, Goto, NoFault, Untouched, hardware, Skip, Typed, States
    <3>2. vcc' \in Nat /\ link' \in Nat /\ chip' \in BOOLEAN /\ over' \subseteq Resources
      BY <1>2, <2>2 DEF Typed, Resources, HasVcc
    <3> QED
      BY <1>2, <2>3, <3>1, <3>2 DEF Typed, system
  <2>5. Apart' => Stage(a)'
    BY <1>3, <1>1, <1>2, <2>1, <2>2, <2>3
       DEF Moves, Stage, SamsungStage, SamsungDark, SamsungPower, SamsungFlags, Tianma, Samsung, Renesas,
           Active, Suspended, Disabled, Apart, Sound, Unmixed, Flawless, On, OnMethods, OffMethods,
           system, HasVcc
  <2>6. Held'
    BY <1>3, <1>1, <1>2, <2>2, <2>3
       DEF Held, Stage, SamsungStage, SamsungDark, SamsungPower, SamsungFlags, Tianma, Samsung, Renesas,
           Active, Suspended, Disabled, Apart, Sound, Unmixed, Flawless, On, OnMethods, OffMethods,
           system, Still, HasVcc
  <2>7. RoundStep(a, "settleOn")
    BY <1>3, <1>1, <1>2, <2>2, <2>3 DEF RoundStep, Round, Role, Tianma, Samsung, Renesas, Active
  <2> QED
    BY <1>1, <2>1, <2>2, <2>3, <2>4, <2>5, <2>6, <2>7, Inside
       DEF Steps, OnSteps, OffSteps, OnMethods, OffMethods
<1>4. CASE dss.state # "ACTIVE"
  <2>1. Moves(a, "linkOn", call[a].method, call[a].via, call[a].ok, call[a].tries)
    BY <1>4, <1>1, <1>2, MovesOn
       DEF SamsungPowerOn, At, In, Goto, NoFault, Untouched, hardware, Skip, Steps
  <2>2. /\ dss'.state = dss.state /\ drv'.enabled = drv.enabled /\ drv'.suspended = drv.suspended
        /\ vcc' = vcc /\ link' = link /\ chip' = chip
        /\ frame'.pending = frame.pending /\ frame'.moving = frame.moving /\ frame'.clk = frame.clk
        /\ over' = over
        /\ dss'.activate = dss.activate
    BY <1>4, <1>1, <1>2
       DEF SamsungPowerOn, At, In, Goto, NoFault, Untouched, hardware, Skip, Typed, HasVcc
  <2>3. /\ UNCHANGED system
        /\ UNCHANGED <<faults, astray>>
    BY <1>4, <1>1 DEF SamsungPowerOn, At, In, Goto, NoFault, Untouched, hardware, Skip
  <2>4. Typed'
    <3>1. /\ dss' \in [state : States, activate : BOOLEAN]
          /\ drv' \in [enabled : BOOLEAN, suspended : BOOLEAN]
          /\ frame' \in [pending : BOOLEAN, moving : BOOLEAN, clk : Int]
          /\ rails' \in BOOLEAN
      BY <1>4, <1>1, <1>2
         DEF SamsungPowerOn, At, In, Goto, NoFault, Untouched, hardware, Skip, Typed, States
    <3>2. vcc' \in Nat /\ link' \in Nat /\ chip' \in BOOLEAN /\ over' \subseteq Resources
      BY <1>2, <2>2 DEF Typed, Resources, HasVcc
    <3> QED
      BY <1>2, <2>3, <3>1, <3>2 DEF Typed, system
  <2>5. Apart' => Stage(a)'
    BY <1>4, <1>1, <1>2, <2>1, <2>2, <2>3
       DEF Moves, Stage, SamsungStage, SamsungDark, SamsungPower, SamsungFlags, Tianma, Samsung, Renesas,
           Active, Suspended, Disabled, Apart, Sound, Unmixed, Flawless, On, OnMethods, OffMethods,
           system, HasVcc
  <2>6. Held'
    BY <1>4, <1>1, <1>2, <2>2, <2>3
       DEF Held, Stage, SamsungStage, SamsungDark, SamsungPower, SamsungFlags, Tianma, Samsung, Renesas,
           Active, Suspended, Disabled, Apart, Sound, Unmixed, Flawless, On, OnMethods, OffMethods,
           system, Still, HasVcc
  <2>7. RoundStep(a, "linkOn")
    BY <1>4, <1>1, <1>2, <2>2, <2>3 DEF RoundStep, Round, Role, Tianma, Samsung, Renesas, Active
  <2> QED
    BY <1>1, <2>1, <2>2, <2>3, <2>4, <2>5, <2>6, <2>7, Inside
       DEF Steps, OnSteps, OffSteps, OnMethods, OffMethods
<1> QED
  BY <1>1, <1>3, <1>4 DEF SamsungPowerOn, At, In, Goto, NoFault, Untouched, hardware, Skip

\* The output of the Samsung panel comes up, or the method goes to its end.
LEMMA SamsungLinkOnKeeps ==
    ASSUME IInv, NEW a \in Actors, SamsungLinkOn(a)
    PROVE  IInv'
<1>1. panel \in Samsung /\ call[a].pc = "linkOn" /\ call[a].method \in {"enable", "resume"}
  <2>1. panel \in Samsung /\ call[a].pc = "linkOn"
    BY DEF SamsungLinkOn, At
  <2> QED
    BY <2>1, Here DEF Role, OnMethods, OffMethods, OnSteps, OffSteps
<1>2. /\ TypeOK /\ Typed /\ Role(a) /\ Stage(a) /\ Held /\ Round
      /\ call[a].ok \in BOOLEAN /\ call[a].tries \in Nat
      /\ vcc \in Nat /\ link \in Nat /\ frame.clk \in Int
      /\ faults \in Nat /\ before.faults \in Nat /\ before.faults <= faults
  BY <1>1, Here
<1>3. CASE LinkOn(a, "vccOn")
  <2>1. Moves(a, "vccOn", call[a].method, call[a].via, call[a].ok, call[a].tries)
    BY <1>3, <1>1, <1>2, MovesOn
       DEF SamsungLinkOn, At, In, Goto, NoFault, Untouched, hardware, LinkOn, Fault, Steps
  <2>2. /\ dss'.state = dss.state /\ drv'.enabled = drv.enabled /\ drv'.suspended = drv.suspended
        /\ vcc' = vcc /\ link' = link + 1 /\ chip' = chip
        /\ frame'.pending = frame.pending /\ frame'.moving = frame.moving /\ frame'.clk = frame.clk
        /\ over' = over
        /\ dss'.activate = dss.activate
    BY <1>3, <1>1, <1>2
       DEF SamsungLinkOn, At, In, Goto, NoFault, Untouched, hardware, LinkOn, Fault, Typed, HasVcc
  <2>3. /\ UNCHANGED system
        /\ UNCHANGED <<faults, astray>>
    BY <1>3, <1>1 DEF SamsungLinkOn, At, In, Goto, NoFault, Untouched, hardware, LinkOn, Fault
  <2>4. Typed'
    <3>1. /\ dss' \in [state : States, activate : BOOLEAN]
          /\ drv' \in [enabled : BOOLEAN, suspended : BOOLEAN]
          /\ frame' \in [pending : BOOLEAN, moving : BOOLEAN, clk : Int]
          /\ rails' \in BOOLEAN
      BY <1>3, <1>1, <1>2
         DEF SamsungLinkOn, At, In, Goto, NoFault, Untouched, hardware, LinkOn, Fault, Typed, States
    <3>2. vcc' \in Nat /\ link' \in Nat /\ chip' \in BOOLEAN /\ over' \subseteq Resources
      BY <1>2, <2>2 DEF Typed, Resources, HasVcc
    <3> QED
      BY <1>2, <2>3, <3>1, <3>2 DEF Typed, system
  <2>5. Apart' => Stage(a)'
    BY <1>1, <1>2, <2>1, <2>2, <2>3
       DEF Moves, Stage, SamsungStage, SamsungDark, SamsungPower, SamsungFlags, Tianma, Samsung, Renesas,
           Active, Suspended, Disabled, Apart, Sound, Unmixed, Flawless, On, OnMethods, OffMethods,
           system, HasVcc
  <2>6. Held'
    BY <1>1, <1>2, <2>2, <2>3
       DEF Held, Stage, SamsungStage, SamsungDark, SamsungPower, SamsungFlags, Tianma, Samsung, Renesas,
           Active, Suspended, Disabled, Apart, Sound, Unmixed, Flawless, On, OnMethods, OffMethods,
           system, Still, HasVcc
  <2>7. RoundStep(a, "vccOn")
    BY <1>3, <1>1, <1>2, <2>2, <2>3 DEF RoundStep, Round, Role, Tianma, Samsung, Renesas, Active
  <2> QED
    BY <1>1, <2>1, <2>2, <2>3, <2>4, <2>5, <2>6, <2>7, Inside
       DEF Steps, OnSteps, OffSteps, OnMethods, OffMethods
<1>4. CASE /\ Fault /\ Untouched
           /\ call' = [call EXCEPT ![a].pc = "settleOn", ![a].ok = FALSE]
  <2>1. Moves(a, "settleOn", call[a].method, call[a].via, FALSE, call[a].tries)
    BY <1>4, <1>1, <1>2, MovesOn
       DEF SamsungLinkOn, At, In, Goto, NoFault, Untouched, hardware, LinkOn, Fault, Steps
  <2>2. /\ dss'.state = dss.state /\ drv'.enabled = drv.enabled /\ drv'.suspended = drv.suspended
        /\ vcc' = vcc /\ link' = link /\ chip' = chip
        /\ frame'.pending = frame.pending /\ frame'.moving = frame.moving /\ frame'.clk = frame.clk
        /\ over' = over
        /\ dss'.activate = dss.activate
    BY <1>4, <1>1, <1>2
       DEF SamsungLinkOn, At, In, Goto, NoFault, Untouched, hardware, LinkOn, Fault, Typed, HasVcc
  <2>3. /\ UNCHANGED system
        /\ faults' = faults + 1 /\ astray' = astray \cup {"fault"}
    BY <1>4, <1>1 DEF SamsungLinkOn, At, In, Goto, NoFault, Untouched, hardware, LinkOn, Fault
  <2>4. Typed'
    <3>1. /\ dss' \in [state : States, activate : BOOLEAN]
          /\ drv' \in [enabled : BOOLEAN, suspended : BOOLEAN]
          /\ frame' \in [pending : BOOLEAN, moving : BOOLEAN, clk : Int]
          /\ rails' \in BOOLEAN
      BY <1>4, <1>1, <1>2
         DEF SamsungLinkOn, At, In, Goto, NoFault, Untouched, hardware, LinkOn, Fault, Typed, States
    <3>2. vcc' \in Nat /\ link' \in Nat /\ chip' \in BOOLEAN /\ over' \subseteq Resources
      BY <1>2, <2>2 DEF Typed, Resources, HasVcc
    <3>3. faults' \in 0..MaxFaults
      BY <1>4, <1>1, <1>2, DssAssumption
         DEF SamsungLinkOn, At, In, Goto, NoFault, Untouched, hardware, LinkOn, Fault
    <3> QED
      BY <1>2, <2>3, <3>1, <3>2, <3>3 DEF Typed, system
  <2>5. Apart' => Stage(a)'
    BY <1>1, <1>2, <2>1, <2>2, <2>3
       DEF Moves, Stage, SamsungStage, SamsungDark, SamsungPower, SamsungFlags, Tianma, Samsung, Renesas,
           Active, Suspended, Disabled, Apart, Sound, Unmixed, Flawless, On, OnMethods, OffMethods,
           system, HasVcc
  <2>6. Held'
    BY <1>1, <1>2, <2>2, <2>3
       DEF Held, Stage, SamsungStage, SamsungDark, SamsungPower, SamsungFlags, Tianma, Samsung, Renesas,
           Active, Suspended, Disabled, Apart, Sound, Unmixed, Flawless, On, OnMethods, OffMethods,
           system, Still, HasVcc
  <2>7. RoundStep(a, "settleOn")
    BY <1>4, <1>1, <1>2, <2>2, <2>3 DEF RoundStep, Round, Role, Tianma, Samsung, Renesas, Active
  <2> QED
    BY <1>1, <2>1, <2>2, <2>3, <2>4, <2>5, <2>6, <2>7, Inside
       DEF Steps, OnSteps, OffSteps, OnMethods, OffMethods
<1> QED
  BY <1>1, <1>3, <1>4 DEF SamsungLinkOn, At, In, Goto, NoFault, Untouched, hardware, LinkOn, Fault

\* The regulator of the Samsung panel comes up, or the output goes off again.
LEMMA SamsungVccOnKeeps ==
    ASSUME IInv, NEW a \in Actors, SamsungVccOn(a)
    PROVE  IInv'
<1>1. panel \in Samsung /\ call[a].pc = "vccOn" /\ call[a].method \in {"enable", "resume"}
  <2>1. panel \in Samsung /\ call[a].pc = "vccOn"
    BY DEF SamsungVccOn, At
  <2> QED
    BY <2>1, Here DEF Role, OnMethods, OffMethods, OnSteps, OffSteps
<1>2. /\ TypeOK /\ Typed /\ Role(a) /\ Stage(a) /\ Held /\ Round
      /\ call[a].ok \in BOOLEAN /\ call[a].tries \in Nat
      /\ vcc \in Nat /\ link \in Nat /\ frame.clk \in Int
      /\ faults \in Nat /\ before.faults \in Nat /\ before.faults <= faults
  BY <1>1, Here
<1>3. CASE RegulatorOn(a, "chipOn")
  <2>1. Moves(a, "chipOn", call[a].method, call[a].via, call[a].ok, call[a].tries)
    BY <1>3, <1>1, <1>2, MovesOn
       DEF SamsungVccOn, At, In, Goto, NoFault, Untouched, hardware, RegulatorOn, VccOn, Fault, LinkOff,
           Less, Steps
  <2>2. /\ dss'.state = dss.state /\ drv'.enabled = drv.enabled /\ drv'.suspended = drv.suspended
        /\ vcc' = (IF HasVcc THEN vcc + 1 ELSE vcc) /\ link' = link /\ chip' = chip
        /\ frame'.pending = frame.pending /\ frame'.moving = frame.moving /\ frame'.clk = frame.clk
        /\ over' = over
        /\ dss'.activate = dss.activate
    BY <1>3, <1>1, <1>2
       DEF SamsungVccOn, At, In, Goto, NoFault, Untouched, hardware, RegulatorOn, VccOn, Fault, LinkOff,
           Less, Typed, HasVcc
  <2>3. /\ UNCHANGED system
        /\ UNCHANGED <<faults, astray>>
    BY <1>3, <1>1
       DEF SamsungVccOn, At, In, Goto, NoFault, Untouched, hardware, RegulatorOn, VccOn, Fault, LinkOff,
           Less
  <2>4. Typed'
    <3>1. /\ dss' \in [state : States, activate : BOOLEAN]
          /\ drv' \in [enabled : BOOLEAN, suspended : BOOLEAN]
          /\ frame' \in [pending : BOOLEAN, moving : BOOLEAN, clk : Int]
          /\ rails' \in BOOLEAN
      BY <1>3, <1>1, <1>2
         DEF SamsungVccOn, At, In, Goto, NoFault, Untouched, hardware, RegulatorOn, VccOn, Fault,
             LinkOff, Less, Typed, States
    <3>2. vcc' \in Nat /\ link' \in Nat /\ chip' \in BOOLEAN /\ over' \subseteq Resources
      BY <1>2, <2>2 DEF Typed, Resources, HasVcc
    <3> QED
      BY <1>2, <2>3, <3>1, <3>2 DEF Typed, system
  <2>5. Apart' => Stage(a)'
    BY <1>1, <1>2, <2>1, <2>2, <2>3
       DEF Moves, Stage, SamsungStage, SamsungDark, SamsungPower, SamsungFlags, Tianma, Samsung, Renesas,
           Active, Suspended, Disabled, Apart, Sound, Unmixed, Flawless, On, OnMethods, OffMethods,
           system, HasVcc
  <2>6. Held'
    BY <1>1, <1>2, <2>2, <2>3
       DEF Held, Stage, SamsungStage, SamsungDark, SamsungPower, SamsungFlags, Tianma, Samsung, Renesas,
           Active, Suspended, Disabled, Apart, Sound, Unmixed, Flawless, On, OnMethods, OffMethods,
           system, Still, HasVcc
  <2>7. RoundStep(a, "chipOn")
    BY <1>3, <1>1, <1>2, <2>2, <2>3 DEF RoundStep, Round, Role, Tianma, Samsung, Renesas, Active
  <2> QED
    BY <1>1, <2>1, <2>2, <2>3, <2>4, <2>5, <2>6, <2>7, Inside
       DEF Steps, OnSteps, OffSteps, OnMethods, OffMethods
<1>4. CASE /\ HasVcc /\ Fault /\ LinkOff
           /\ call' = [call EXCEPT ![a].pc = "settleOn", ![a].ok = FALSE]
           /\ UNCHANGED <<dss, drv, vcc, chip, rails, frame, system>>
  <2>1. Moves(a, "settleOn", call[a].method, call[a].via, FALSE, call[a].tries)
    BY <1>4, <1>1, <1>2, MovesOn
       DEF SamsungVccOn, At, In, Goto, NoFault, Untouched, hardware, RegulatorOn, VccOn, Fault, LinkOff,
           Less, Steps
  <2>2. /\ dss'.state = dss.state /\ drv'.enabled = drv.enabled /\ drv'.suspended = drv.suspended
        /\ vcc' = vcc /\ link' = (IF link = 0 THEN 0 ELSE link - 1) /\ chip' = chip
        /\ frame'.pending = frame.pending /\ frame'.moving = frame.moving /\ frame'.clk = frame.clk
        /\ over' = (IF link = 0 THEN over \cup {"link"} ELSE over)
        /\ dss'.activate = dss.activate
    BY <1>4, <1>1, <1>2
       DEF SamsungVccOn, At, In, Goto, NoFault, Untouched, hardware, RegulatorOn, VccOn, Fault, LinkOff,
           Less, Typed, HasVcc
  <2>3. /\ UNCHANGED system
        /\ faults' = faults + 1 /\ astray' = astray \cup {"fault"}
    BY <1>4, <1>1
       DEF SamsungVccOn, At, In, Goto, NoFault, Untouched, hardware, RegulatorOn, VccOn, Fault, LinkOff,
           Less
  <2>4. Typed'
    <3>1. /\ dss' \in [state : States, activate : BOOLEAN]
          /\ drv' \in [enabled : BOOLEAN, suspended : BOOLEAN]
          /\ frame' \in [pending : BOOLEAN, moving : BOOLEAN, clk : Int]
          /\ rails' \in BOOLEAN
      BY <1>4, <1>1, <1>2
         DEF SamsungVccOn, At, In, Goto, NoFault, Untouched, hardware, RegulatorOn, VccOn, Fault,
             LinkOff, Less, Typed, States
    <3>2. vcc' \in Nat /\ link' \in Nat /\ chip' \in BOOLEAN /\ over' \subseteq Resources
      BY <1>2, <2>2 DEF Typed, Resources, HasVcc
    <3>3. faults' \in 0..MaxFaults
      BY <1>4, <1>1, <1>2, DssAssumption
         DEF SamsungVccOn, At, In, Goto, NoFault, Untouched, hardware, RegulatorOn, VccOn, Fault,
             LinkOff, Less
    <3> QED
      BY <1>2, <2>3, <3>1, <3>2, <3>3 DEF Typed, system
  <2>5. Apart' => Stage(a)'
    BY <1>1, <1>2, <2>1, <2>2, <2>3
       DEF Moves, Stage, SamsungStage, SamsungDark, SamsungPower, SamsungFlags, Tianma, Samsung, Renesas,
           Active, Suspended, Disabled, Apart, Sound, Unmixed, Flawless, On, OnMethods, OffMethods,
           system, HasVcc
  <2>6. Held'
    BY <1>1, <1>2, <2>2, <2>3
       DEF Held, Stage, SamsungStage, SamsungDark, SamsungPower, SamsungFlags, Tianma, Samsung, Renesas,
           Active, Suspended, Disabled, Apart, Sound, Unmixed, Flawless, On, OnMethods, OffMethods,
           system, Still, HasVcc
  <2>7. RoundStep(a, "settleOn")
    BY <1>4, <1>1, <1>2, <2>2, <2>3 DEF RoundStep, Round, Role, Tianma, Samsung, Renesas, Active
  <2> QED
    BY <1>1, <2>1, <2>2, <2>3, <2>4, <2>5, <2>6, <2>7, Inside
       DEF Steps, OnSteps, OffSteps, OnMethods, OffMethods
<1> QED
  BY <1>1, <1>3, <1>4
     DEF SamsungVccOn, At, In, Goto, NoFault, Untouched, hardware, RegulatorOn, VccOn, Fault, LinkOff,
         Less

\* The Samsung panel is woken, and the display is ACTIVE.
LEMMA SamsungChipOnKeeps ==
    ASSUME IInv, NEW a \in Actors, SamsungChipOn(a)
    PROVE  IInv'
<1>1. panel \in Samsung /\ call[a].pc = "chipOn" /\ call[a].method \in {"enable", "resume"}
  <2>1. panel \in Samsung /\ call[a].pc = "chipOn"
    BY DEF SamsungChipOn, At
  <2> QED
    BY <2>1, Here DEF Role, OnMethods, OffMethods, OnSteps, OffSteps
<1>2. /\ TypeOK /\ Typed /\ Role(a) /\ Stage(a) /\ Held /\ Round
      /\ call[a].ok \in BOOLEAN /\ call[a].tries \in Nat
      /\ vcc \in Nat /\ link \in Nat /\ frame.clk \in Int
      /\ faults \in Nat /\ before.faults \in Nat /\ before.faults <= faults
  BY <1>1, Here
<1>3. CASE TRUE
  <2>1. Moves(a, "settleOn", call[a].method, call[a].via, call[a].ok, call[a].tries)
    BY <1>3, <1>1, <1>2, MovesOn DEF SamsungChipOn, At, In, Goto, NoFault, Untouched, hardware, Steps
  <2>2. /\ dss'.state = "ACTIVE" /\ drv'.enabled = TRUE /\ drv'.suspended = drv.suspended
        /\ vcc' = vcc /\ link' = link /\ chip' = TRUE
        /\ frame'.pending = frame.pending /\ frame'.moving = frame.moving /\ frame'.clk = frame.clk
        /\ over' = over
        /\ dss'.activate = dss.activate
    BY <1>3, <1>1, <1>2 DEF SamsungChipOn, At, In, Goto, NoFault, Untouched, hardware, Typed, HasVcc
  <2>3. /\ UNCHANGED system
        /\ UNCHANGED <<faults, astray>>
    BY <1>3, <1>1 DEF SamsungChipOn, At, In, Goto, NoFault, Untouched, hardware
  <2>4. Typed'
    <3>1. /\ dss' \in [state : States, activate : BOOLEAN]
          /\ drv' \in [enabled : BOOLEAN, suspended : BOOLEAN]
          /\ frame' \in [pending : BOOLEAN, moving : BOOLEAN, clk : Int]
          /\ rails' \in BOOLEAN
      BY <1>3, <1>1, <1>2 DEF SamsungChipOn, At, In, Goto, NoFault, Untouched, hardware, Typed, States
    <3>2. vcc' \in Nat /\ link' \in Nat /\ chip' \in BOOLEAN /\ over' \subseteq Resources
      BY <1>2, <2>2 DEF Typed, Resources, HasVcc
    <3> QED
      BY <1>2, <2>3, <3>1, <3>2 DEF Typed, system
  <2>5. Apart' => Stage(a)'
    BY <1>1, <1>2, <2>1, <2>2, <2>3
       DEF Moves, Stage, SamsungStage, SamsungDark, SamsungPower, SamsungFlags, Tianma, Samsung, Renesas,
           Active, Suspended, Disabled, Apart, Sound, Unmixed, Flawless, On, OnMethods, OffMethods,
           system, HasVcc
  <2>6. Held'
    BY <1>1, <1>2, <2>2, <2>3
       DEF Held, Stage, SamsungStage, SamsungDark, SamsungPower, SamsungFlags, Tianma, Samsung, Renesas,
           Active, Suspended, Disabled, Apart, Sound, Unmixed, Flawless, On, OnMethods, OffMethods,
           system, Still, HasVcc
  <2>7. RoundStep(a, "settleOn")
    BY <1>3, <1>1, <1>2, <2>2, <2>3 DEF RoundStep, Round, Role, Tianma, Samsung, Renesas, Active
  <2> QED
    BY <1>1, <2>1, <2>2, <2>3, <2>4, <2>5, <2>6, <2>7, Inside
       DEF Steps, OnSteps, OffSteps, OnMethods, OffMethods
<1> QED
  BY <1>1, <1>3 DEF SamsungChipOn, At, In, Goto, NoFault, Untouched, hardware

\* enable of the Samsung panel says ACTIVE in any case, resume where it succeeded.
LEMMA SamsungSettleOnKeeps ==
    ASSUME IInv, NEW a \in Actors, SamsungSettleOn(a)
    PROVE  IInv'
<1>1. panel \in Samsung /\ call[a].pc = "settleOn" /\ call[a].method \in {"enable", "resume"}
  <2>1. panel \in Samsung /\ call[a].pc = "settleOn"
    BY DEF SamsungSettleOn, At
  <2> QED
    BY <2>1, Here DEF Role, OnMethods, OffMethods, OnSteps, OffSteps
<1>2. /\ TypeOK /\ Typed /\ Role(a) /\ Stage(a) /\ Held /\ Round
      /\ call[a].ok \in BOOLEAN /\ call[a].tries \in Nat
      /\ vcc \in Nat /\ link \in Nat /\ frame.clk \in Int
      /\ faults \in Nat /\ before.faults \in Nat /\ before.faults <= faults
  BY <1>1, Here
<1>3. CASE call[a].method = "enable"
  <2>1. Moves(a, "returned", call[a].method, call[a].via, call[a].ok, call[a].tries)
    BY <1>3, <1>1, <1>2, MovesOn
       DEF SamsungSettleOn, At, In, Goto, NoFault, Untouched, hardware, Return, Steps
  <2>2. /\ dss'.state = "ACTIVE" /\ drv'.enabled = drv.enabled /\ drv'.suspended = drv.suspended
        /\ vcc' = vcc /\ link' = link /\ chip' = chip
        /\ frame'.pending = frame.pending /\ frame'.moving = frame.moving /\ frame'.clk = frame.clk
        /\ over' = over
        /\ dss'.activate = dss.activate
    BY <1>3, <1>1, <1>2
       DEF SamsungSettleOn, At, In, Goto, NoFault, Untouched, hardware, Return, Typed, HasVcc
  <2>3. /\ UNCHANGED system
        /\ UNCHANGED <<faults, astray>>
    BY <1>3, <1>1 DEF SamsungSettleOn, At, In, Goto, NoFault, Untouched, hardware, Return
  <2>4. Typed'
    <3>1. /\ dss' \in [state : States, activate : BOOLEAN]
          /\ drv' \in [enabled : BOOLEAN, suspended : BOOLEAN]
          /\ frame' \in [pending : BOOLEAN, moving : BOOLEAN, clk : Int]
          /\ rails' \in BOOLEAN
      BY <1>3, <1>1, <1>2
         DEF SamsungSettleOn, At, In, Goto, NoFault, Untouched, hardware, Return, Typed, States
    <3>2. vcc' \in Nat /\ link' \in Nat /\ chip' \in BOOLEAN /\ over' \subseteq Resources
      BY <1>2, <2>2 DEF Typed, Resources, HasVcc
    <3> QED
      BY <1>2, <2>3, <3>1, <3>2 DEF Typed, system
  <2>5. Apart' => Stage(a)'
    BY <1>3, <1>1, <1>2, <2>1, <2>2, <2>3
       DEF Moves, Stage, SamsungStage, SamsungDark, SamsungPower, SamsungFlags, Tianma, Samsung, Renesas,
           Active, Suspended, Disabled, Apart, Sound, Unmixed, Flawless, On, OnMethods, OffMethods,
           system, HasVcc
  <2>6. Held'
    BY <1>3, <1>1, <1>2, <2>2, <2>3
       DEF Held, Stage, SamsungStage, SamsungDark, SamsungPower, SamsungFlags, Tianma, Samsung, Renesas,
           Active, Suspended, Disabled, Apart, Sound, Unmixed, Flawless, On, OnMethods, OffMethods,
           system, Still, HasVcc
  <2>7. RoundStep(a, "returned")
    BY <1>3, <1>1, <1>2, <2>2, <2>3 DEF RoundStep, Round, Role, Tianma, Samsung, Renesas, Active
  <2> QED
    BY <1>1, <2>1, <2>2, <2>3, <2>4, <2>5, <2>6, <2>7, Inside
       DEF Steps, OnSteps, OffSteps, OnMethods, OffMethods
<1>4. CASE call[a].method = "resume" /\ call[a].ok /\ drv.suspended
  <2>1. Moves(a, "returned", call[a].method, call[a].via, call[a].ok, call[a].tries)
    BY <1>4, <1>1, <1>2, MovesOn
       DEF SamsungSettleOn, At, In, Goto, NoFault, Untouched, hardware, Return, Steps
  <2>2. /\ dss'.state = "ACTIVE" /\ drv'.enabled = drv.enabled /\ drv'.suspended = FALSE
        /\ vcc' = vcc /\ link' = link /\ chip' = chip
        /\ frame'.pending = frame.pending /\ frame'.moving = frame.moving /\ frame'.clk = frame.clk
        /\ over' = over
        /\ dss'.activate = dss.activate
    BY <1>4, <1>1, <1>2
       DEF SamsungSettleOn, At, In, Goto, NoFault, Untouched, hardware, Return, Typed, HasVcc
  <2>3. /\ UNCHANGED system
        /\ UNCHANGED <<faults, astray>>
    BY <1>4, <1>1 DEF SamsungSettleOn, At, In, Goto, NoFault, Untouched, hardware, Return
  <2>4. Typed'
    <3>1. /\ dss' \in [state : States, activate : BOOLEAN]
          /\ drv' \in [enabled : BOOLEAN, suspended : BOOLEAN]
          /\ frame' \in [pending : BOOLEAN, moving : BOOLEAN, clk : Int]
          /\ rails' \in BOOLEAN
      BY <1>4, <1>1, <1>2
         DEF SamsungSettleOn, At, In, Goto, NoFault, Untouched, hardware, Return, Typed, States
    <3>2. vcc' \in Nat /\ link' \in Nat /\ chip' \in BOOLEAN /\ over' \subseteq Resources
      BY <1>2, <2>2 DEF Typed, Resources, HasVcc
    <3> QED
      BY <1>2, <2>3, <3>1, <3>2 DEF Typed, system
  <2>5. Apart' => Stage(a)'
    BY <1>4, <1>1, <1>2, <2>1, <2>2, <2>3
       DEF Moves, Stage, SamsungStage, SamsungDark, SamsungPower, SamsungFlags, Tianma, Samsung, Renesas,
           Active, Suspended, Disabled, Apart, Sound, Unmixed, Flawless, On, OnMethods, OffMethods,
           system, HasVcc
  <2>6. Held'
    BY <1>4, <1>1, <1>2, <2>2, <2>3
       DEF Held, Stage, SamsungStage, SamsungDark, SamsungPower, SamsungFlags, Tianma, Samsung, Renesas,
           Active, Suspended, Disabled, Apart, Sound, Unmixed, Flawless, On, OnMethods, OffMethods,
           system, Still, HasVcc
  <2>7. RoundStep(a, "returned")
    BY <1>4, <1>1, <1>2, <2>2, <2>3 DEF RoundStep, Round, Role, Tianma, Samsung, Renesas, Active
  <2> QED
    BY <1>1, <2>1, <2>2, <2>3, <2>4, <2>5, <2>6, <2>7, Inside
       DEF Steps, OnSteps, OffSteps, OnMethods, OffMethods
<1>5. CASE call[a].method = "resume" /\ ~(call[a].ok /\ drv.suspended)
  <2>1. Moves(a, "returned", call[a].method, call[a].via, call[a].ok, call[a].tries)
    BY <1>5, <1>1, <1>2, MovesOn
       DEF SamsungSettleOn, At, In, Goto, NoFault, Untouched, hardware, Return, Steps
  <2>2. /\ dss'.state = dss.state /\ drv'.enabled = drv.enabled /\ drv'.suspended = drv.suspended
        /\ vcc' = vcc /\ link' = link /\ chip' = chip
        /\ frame'.pending = frame.pending /\ frame'.moving = frame.moving /\ frame'.clk = frame.clk
        /\ over' = over
        /\ dss'.activate = dss.activate
    BY <1>5, <1>1, <1>2
       DEF SamsungSettleOn, At, In, Goto, NoFault, Untouched, hardware, Return, Typed, HasVcc
  <2>3. /\ UNCHANGED system
        /\ UNCHANGED <<faults, astray>>
    BY <1>5, <1>1 DEF SamsungSettleOn, At, In, Goto, NoFault, Untouched, hardware, Return
  <2>4. Typed'
    <3>1. /\ dss' \in [state : States, activate : BOOLEAN]
          /\ drv' \in [enabled : BOOLEAN, suspended : BOOLEAN]
          /\ frame' \in [pending : BOOLEAN, moving : BOOLEAN, clk : Int]
          /\ rails' \in BOOLEAN
      BY <1>5, <1>1, <1>2
         DEF SamsungSettleOn, At, In, Goto, NoFault, Untouched, hardware, Return, Typed, States
    <3>2. vcc' \in Nat /\ link' \in Nat /\ chip' \in BOOLEAN /\ over' \subseteq Resources
      BY <1>2, <2>2 DEF Typed, Resources, HasVcc
    <3> QED
      BY <1>2, <2>3, <3>1, <3>2 DEF Typed, system
  <2>5. Apart' => Stage(a)'
    BY <1>5, <1>1, <1>2, <2>1, <2>2, <2>3
       DEF Moves, Stage, SamsungStage, SamsungDark, SamsungPower, SamsungFlags, Tianma, Samsung, Renesas,
           Active, Suspended, Disabled, Apart, Sound, Unmixed, Flawless, On, OnMethods, OffMethods,
           system, HasVcc
  <2>6. Held'
    BY <1>5, <1>1, <1>2, <2>2, <2>3
       DEF Held, Stage, SamsungStage, SamsungDark, SamsungPower, SamsungFlags, Tianma, Samsung, Renesas,
           Active, Suspended, Disabled, Apart, Sound, Unmixed, Flawless, On, OnMethods, OffMethods,
           system, Still, HasVcc
  <2>7. RoundStep(a, "returned")
    BY <1>5, <1>1, <1>2, <2>2, <2>3 DEF RoundStep, Round, Role, Tianma, Samsung, Renesas, Active
  <2> QED
    BY <1>1, <2>1, <2>2, <2>3, <2>4, <2>5, <2>6, <2>7, Inside
       DEF Steps, OnSteps, OffSteps, OnMethods, OffMethods
<1> QED
  BY <1>1, <1>3, <1>4, <1>5 DEF SamsungSettleOn, At, In, Goto, NoFault, Untouched, hardware, Return

\* disable and suspend of the Samsung panel do nothing while it is not ACTIVE.
LEMMA SamsungPowerOffKeeps ==
    ASSUME IInv, NEW a \in Actors, SamsungPowerOff(a)
    PROVE  IInv'
<1>1. panel \in Samsung /\ call[a].pc = "start" /\ call[a].method \in {"disable", "suspend"}
  BY DEF SamsungPowerOff, At, In
<1>2. /\ TypeOK /\ Typed /\ Role(a) /\ Stage(a) /\ Held /\ Round
      /\ call[a].ok \in BOOLEAN /\ call[a].tries \in Nat
      /\ vcc \in Nat /\ link \in Nat /\ frame.clk \in Int
      /\ faults \in Nat /\ before.faults \in Nat /\ before.faults <= faults
  BY <1>1, Here
<1>3. CASE dss.state = "ACTIVE"
  <2>1. Moves(a, "vccOff", call[a].method, call[a].via, call[a].ok, call[a].tries)
    BY <1>3, <1>1, <1>2, MovesOn
       DEF SamsungPowerOff, At, In, Goto, NoFault, Untouched, hardware, Skip, Steps
  <2>2. /\ dss'.state = dss.state /\ drv'.enabled = drv.enabled /\ drv'.suspended = drv.suspended
        /\ vcc' = vcc /\ link' = link /\ chip' = chip
        /\ frame'.pending = frame.pending /\ frame'.moving = frame.moving /\ frame'.clk = frame.clk
        /\ over' = over
        /\ dss'.activate = dss.activate
    BY <1>3, <1>1, <1>2
       DEF SamsungPowerOff, At, In, Goto, NoFault, Untouched, hardware, Skip, Typed, HasVcc
  <2>3. /\ UNCHANGED system
        /\ UNCHANGED <<faults, astray>>
    BY <1>3, <1>1 DEF SamsungPowerOff, At, In, Goto, NoFault, Untouched, hardware, Skip
  <2>4. Typed'
    <3>1. /\ dss' \in [state : States, activate : BOOLEAN]
          /\ drv' \in [enabled : BOOLEAN, suspended : BOOLEAN]
          /\ frame' \in [pending : BOOLEAN, moving : BOOLEAN, clk : Int]
          /\ rails' \in BOOLEAN
      BY <1>3, <1>1, <1>2
         DEF SamsungPowerOff, At, In, Goto, NoFault, Untouched, hardware, Skip, Typed, States
    <3>2. vcc' \in Nat /\ link' \in Nat /\ chip' \in BOOLEAN /\ over' \subseteq Resources
      BY <1>2, <2>2 DEF Typed, Resources, HasVcc
    <3> QED
      BY <1>2, <2>3, <3>1, <3>2 DEF Typed, system
  <2>5. Apart' => Stage(a)'
    BY <1>3, <1>1, <1>2, <2>1, <2>2, <2>3
       DEF Moves, Stage, SamsungStage, SamsungDark, SamsungPower, SamsungFlags, Tianma, Samsung, Renesas,
           Active, Suspended, Disabled, Apart, Sound, Unmixed, Flawless, On, OnMethods, OffMethods,
           system, HasVcc
  <2>6. Held'
    BY <1>3, <1>1, <1>2, <2>2, <2>3
       DEF Held, Stage, SamsungStage, SamsungDark, SamsungPower, SamsungFlags, Tianma, Samsung, Renesas,
           Active, Suspended, Disabled, Apart, Sound, Unmixed, Flawless, On, OnMethods, OffMethods,
           system, Still, HasVcc
  <2>7. RoundStep(a, "vccOff")
    BY <1>3, <1>1, <1>2, <2>2, <2>3 DEF RoundStep, Round, Role, Tianma, Samsung, Renesas, Active
  <2> QED
    BY <1>1, <2>1, <2>2, <2>3, <2>4, <2>5, <2>6, <2>7, Inside
       DEF Steps, OnSteps, OffSteps, OnMethods, OffMethods
<1>4. CASE dss.state # "ACTIVE"
  <2>1. Moves(a, "settleOff", call[a].method, call[a].via, call[a].ok, call[a].tries)
    BY <1>4, <1>1, <1>2, MovesOn
       DEF SamsungPowerOff, At, In, Goto, NoFault, Untouched, hardware, Skip, Steps
  <2>2. /\ dss'.state = dss.state /\ drv'.enabled = drv.enabled /\ drv'.suspended = drv.suspended
        /\ vcc' = vcc /\ link' = link /\ chip' = chip
        /\ frame'.pending = frame.pending /\ frame'.moving = frame.moving /\ frame'.clk = frame.clk
        /\ over' = over
        /\ dss'.activate = dss.activate
    BY <1>4, <1>1, <1>2
       DEF SamsungPowerOff, At, In, Goto, NoFault, Untouched, hardware, Skip, Typed, HasVcc
  <2>3. /\ UNCHANGED system
        /\ UNCHANGED <<faults, astray>>
    BY <1>4, <1>1 DEF SamsungPowerOff, At, In, Goto, NoFault, Untouched, hardware, Skip
  <2>4. Typed'
    <3>1. /\ dss' \in [state : States, activate : BOOLEAN]
          /\ drv' \in [enabled : BOOLEAN, suspended : BOOLEAN]
          /\ frame' \in [pending : BOOLEAN, moving : BOOLEAN, clk : Int]
          /\ rails' \in BOOLEAN
      BY <1>4, <1>1, <1>2
         DEF SamsungPowerOff, At, In, Goto, NoFault, Untouched, hardware, Skip, Typed, States
    <3>2. vcc' \in Nat /\ link' \in Nat /\ chip' \in BOOLEAN /\ over' \subseteq Resources
      BY <1>2, <2>2 DEF Typed, Resources, HasVcc
    <3> QED
      BY <1>2, <2>3, <3>1, <3>2 DEF Typed, system
  <2>5. Apart' => Stage(a)'
    BY <1>4, <1>1, <1>2, <2>1, <2>2, <2>3
       DEF Moves, Stage, SamsungStage, SamsungDark, SamsungPower, SamsungFlags, Tianma, Samsung, Renesas,
           Active, Suspended, Disabled, Apart, Sound, Unmixed, Flawless, On, OnMethods, OffMethods,
           system, HasVcc
  <2>6. Held'
    BY <1>4, <1>1, <1>2, <2>2, <2>3
       DEF Held, Stage, SamsungStage, SamsungDark, SamsungPower, SamsungFlags, Tianma, Samsung, Renesas,
           Active, Suspended, Disabled, Apart, Sound, Unmixed, Flawless, On, OnMethods, OffMethods,
           system, Still, HasVcc
  <2>7. RoundStep(a, "settleOff")
    BY <1>4, <1>1, <1>2, <2>2, <2>3 DEF RoundStep, Round, Role, Tianma, Samsung, Renesas, Active
  <2> QED
    BY <1>1, <2>1, <2>2, <2>3, <2>4, <2>5, <2>6, <2>7, Inside
       DEF Steps, OnSteps, OffSteps, OnMethods, OffMethods
<1> QED
  BY <1>1, <1>3, <1>4 DEF SamsungPowerOff, At, In, Goto, NoFault, Untouched, hardware, Skip

\* The regulator of the Samsung panel goes off, and with the last use the panel.
LEMMA SamsungVccOffKeeps ==
    ASSUME IInv, NEW a \in Actors, SamsungVccOff(a)
    PROVE  IInv'
<1>1. panel \in Samsung /\ call[a].pc = "vccOff" /\ call[a].method \in {"disable", "suspend"}
  <2>1. panel \in Samsung /\ call[a].pc = "vccOff"
    BY DEF SamsungVccOff, At
  <2> QED
    BY <2>1, Here DEF Role, OnMethods, OffMethods, OnSteps, OffSteps
<1>2. /\ TypeOK /\ Typed /\ Role(a) /\ Stage(a) /\ Held /\ Round
      /\ call[a].ok \in BOOLEAN /\ call[a].tries \in Nat
      /\ vcc \in Nat /\ link \in Nat /\ frame.clk \in Int
      /\ faults \in Nat /\ before.faults \in Nat /\ before.faults <= faults
  BY <1>1, Here
<1>3. CASE HasVcc
  <2>1. Moves(a, "linkOff", call[a].method, call[a].via, call[a].ok, call[a].tries)
    BY <1>3, <1>1, <1>2, MovesOn
       DEF SamsungVccOff, At, In, Goto, NoFault, Untouched, hardware, VccOff, Less, Steps
  <2>2. /\ dss'.state = dss.state /\ drv'.enabled = drv.enabled /\ drv'.suspended = drv.suspended
        /\ vcc' = (IF vcc = 0 THEN 0 ELSE vcc - 1) /\ link' = link /\ chip' = (chip /\ vcc > 1)
        /\ frame'.pending = frame.pending /\ frame'.moving = frame.moving /\ frame'.clk = frame.clk
        /\ over' = (IF vcc = 0 THEN over \cup {"vcc"} ELSE over)
        /\ dss'.activate = dss.activate
    BY <1>3, <1>1, <1>2
       DEF SamsungVccOff, At, In, Goto, NoFault, Untouched, hardware, VccOff, Less, Typed, HasVcc
  <2>3. /\ UNCHANGED system
        /\ UNCHANGED <<faults, astray>>
    BY <1>3, <1>1 DEF SamsungVccOff, At, In, Goto, NoFault, Untouched, hardware, VccOff, Less
  <2>4. Typed'
    <3>1. /\ dss' \in [state : States, activate : BOOLEAN]
          /\ drv' \in [enabled : BOOLEAN, suspended : BOOLEAN]
          /\ frame' \in [pending : BOOLEAN, moving : BOOLEAN, clk : Int]
          /\ rails' \in BOOLEAN
      BY <1>3, <1>1, <1>2
         DEF SamsungVccOff, At, In, Goto, NoFault, Untouched, hardware, VccOff, Less, Typed, States
    <3>2. vcc' \in Nat /\ link' \in Nat /\ chip' \in BOOLEAN /\ over' \subseteq Resources
      BY <1>2, <2>2 DEF Typed, Resources, HasVcc
    <3> QED
      BY <1>2, <2>3, <3>1, <3>2 DEF Typed, system
  <2>8. Apart => vcc' = 0 /\ ~chip' /\ (Sound => Active /\ link = 1)
    <3>1. Apart => vcc <= 1 /\ (Sound => Active /\ link = 1)
      BY <1>3, <1>1, <1>2
         DEF Stage, SamsungStage, SamsungDark, SamsungPower, SamsungFlags, Tianma, Samsung, Renesas,
             Active, Suspended, Disabled, Apart, Sound, Unmixed, Flawless, On, OnMethods, OffMethods,
             HasVcc
    <3>2. Apart => ~(vcc > 1) /\ vcc' = 0
      BY <1>2, <2>2, <3>1
    <3>3. Apart => ~chip'
      BY <2>2, <3>2
    <3> QED
      BY <3>1, <3>2, <3>3
  <2>5. Apart' => Stage(a)'
    BY <1>3, <1>1, <1>2, <2>1, <2>2, <2>3, <2>8
       DEF Moves, Stage, SamsungStage, SamsungDark, SamsungPower, SamsungFlags, Tianma, Samsung, Renesas,
           Active, Suspended, Disabled, Apart, Sound, Unmixed, Flawless, On, OnMethods, OffMethods,
           system, HasVcc
  <2>6. Held'
    BY <1>3, <1>1, <1>2, <2>2, <2>3
       DEF Held, Stage, SamsungStage, SamsungDark, SamsungPower, SamsungFlags, Tianma, Samsung, Renesas,
           Active, Suspended, Disabled, Apart, Sound, Unmixed, Flawless, On, OnMethods, OffMethods,
           system, Still, HasVcc
  <2>7. RoundStep(a, "linkOff")
    BY <1>3, <1>1, <1>2, <2>2, <2>3 DEF RoundStep, Round, Role, Tianma, Samsung, Renesas, Active
  <2> QED
    BY <1>1, <2>1, <2>2, <2>3, <2>4, <2>5, <2>6, <2>7, Inside
       DEF Steps, OnSteps, OffSteps, OnMethods, OffMethods
<1>4. CASE ~HasVcc
  <2>1. Moves(a, "linkOff", call[a].method, call[a].via, call[a].ok, call[a].tries)
    BY <1>4, <1>1, <1>2, MovesOn
       DEF SamsungVccOff, At, In, Goto, NoFault, Untouched, hardware, VccOff, Less, Steps
  <2>2. /\ dss'.state = dss.state /\ drv'.enabled = drv.enabled /\ drv'.suspended = drv.suspended
        /\ vcc' = vcc /\ link' = link /\ chip' = chip
        /\ frame'.pending = frame.pending /\ frame'.moving = frame.moving /\ frame'.clk = frame.clk
        /\ over' = over
        /\ dss'.activate = dss.activate
    BY <1>4, <1>1, <1>2
       DEF SamsungVccOff, At, In, Goto, NoFault, Untouched, hardware, VccOff, Less, Typed, HasVcc
  <2>3. /\ UNCHANGED system
        /\ UNCHANGED <<faults, astray>>
    BY <1>4, <1>1 DEF SamsungVccOff, At, In, Goto, NoFault, Untouched, hardware, VccOff, Less
  <2>4. Typed'
    <3>1. /\ dss' \in [state : States, activate : BOOLEAN]
          /\ drv' \in [enabled : BOOLEAN, suspended : BOOLEAN]
          /\ frame' \in [pending : BOOLEAN, moving : BOOLEAN, clk : Int]
          /\ rails' \in BOOLEAN
      BY <1>4, <1>1, <1>2
         DEF SamsungVccOff, At, In, Goto, NoFault, Untouched, hardware, VccOff, Less, Typed, States
    <3>2. vcc' \in Nat /\ link' \in Nat /\ chip' \in BOOLEAN /\ over' \subseteq Resources
      BY <1>2, <2>2 DEF Typed, Resources, HasVcc
    <3> QED
      BY <1>2, <2>3, <3>1, <3>2 DEF Typed, system
  <2>5. Apart' => Stage(a)'
    BY <1>4, <1>1, <1>2, <2>1, <2>2, <2>3
       DEF Moves, Stage, SamsungStage, SamsungDark, SamsungPower, SamsungFlags, Tianma, Samsung, Renesas,
           Active, Suspended, Disabled, Apart, Sound, Unmixed, Flawless, On, OnMethods, OffMethods,
           system, HasVcc
  <2>6. Held'
    BY <1>4, <1>1, <1>2, <2>2, <2>3
       DEF Held, Stage, SamsungStage, SamsungDark, SamsungPower, SamsungFlags, Tianma, Samsung, Renesas,
           Active, Suspended, Disabled, Apart, Sound, Unmixed, Flawless, On, OnMethods, OffMethods,
           system, Still, HasVcc
  <2>7. RoundStep(a, "linkOff")
    BY <1>4, <1>1, <1>2, <2>2, <2>3 DEF RoundStep, Round, Role, Tianma, Samsung, Renesas, Active
  <2> QED
    BY <1>1, <2>1, <2>2, <2>3, <2>4, <2>5, <2>6, <2>7, Inside
       DEF Steps, OnSteps, OffSteps, OnMethods, OffMethods
<1> QED
  BY <1>1, <1>3, <1>4 DEF SamsungVccOff, At, In, Goto, NoFault, Untouched, hardware, VccOff, Less

\* The output of the Samsung panel goes off, and the state says so.
LEMMA SamsungLinkOffKeeps ==
    ASSUME IInv, NEW a \in Actors, SamsungLinkOff(a)
    PROVE  IInv'
<1>1. panel \in Samsung /\ call[a].pc = "linkOff" /\ call[a].method \in {"disable", "suspend"}
  <2>1. panel \in Samsung /\ call[a].pc = "linkOff"
    BY DEF SamsungLinkOff, At
  <2> QED
    BY <2>1, Here DEF Role, OnMethods, OffMethods, OnSteps, OffSteps
<1>2. /\ TypeOK /\ Typed /\ Role(a) /\ Stage(a) /\ Held /\ Round
      /\ call[a].ok \in BOOLEAN /\ call[a].tries \in Nat
      /\ vcc \in Nat /\ link \in Nat /\ frame.clk \in Int
      /\ faults \in Nat /\ before.faults \in Nat /\ before.faults <= faults
  BY <1>1, Here
<1>3. CASE TRUE
  <2>1. Moves(a, "settleOff", call[a].method, call[a].via, call[a].ok, call[a].tries)
    BY <1>3, <1>1, <1>2, MovesOn
       DEF SamsungLinkOff, At, In, Goto, NoFault, Untouched, hardware, LinkOff, Less, Steps
  <2>2. /\ dss'.state = "DISABLED" /\ drv'.enabled = FALSE /\ drv'.suspended = drv.suspended
        /\ vcc' = vcc /\ link' = (IF link = 0 THEN 0 ELSE link - 1) /\ chip' = chip
        /\ frame'.pending = frame.pending /\ frame'.moving = frame.moving /\ frame'.clk = frame.clk
        /\ over' = (IF link = 0 THEN over \cup {"link"} ELSE over)
        /\ dss'.activate = dss.activate
    BY <1>3, <1>1, <1>2
       DEF SamsungLinkOff, At, In, Goto, NoFault, Untouched, hardware, LinkOff, Less, Typed, HasVcc
  <2>3. /\ UNCHANGED system
        /\ UNCHANGED <<faults, astray>>
    BY <1>3, <1>1 DEF SamsungLinkOff, At, In, Goto, NoFault, Untouched, hardware, LinkOff, Less
  <2>4. Typed'
    <3>1. /\ dss' \in [state : States, activate : BOOLEAN]
          /\ drv' \in [enabled : BOOLEAN, suspended : BOOLEAN]
          /\ frame' \in [pending : BOOLEAN, moving : BOOLEAN, clk : Int]
          /\ rails' \in BOOLEAN
      BY <1>3, <1>1, <1>2
         DEF SamsungLinkOff, At, In, Goto, NoFault, Untouched, hardware, LinkOff, Less, Typed, States
    <3>2. vcc' \in Nat /\ link' \in Nat /\ chip' \in BOOLEAN /\ over' \subseteq Resources
      BY <1>2, <2>2 DEF Typed, Resources, HasVcc
    <3> QED
      BY <1>2, <2>3, <3>1, <3>2 DEF Typed, system
  <2>5. Apart' => Stage(a)'
    BY <1>1, <1>2, <2>1, <2>2, <2>3
       DEF Moves, Stage, SamsungStage, SamsungDark, SamsungPower, SamsungFlags, Tianma, Samsung, Renesas,
           Active, Suspended, Disabled, Apart, Sound, Unmixed, Flawless, On, OnMethods, OffMethods,
           system, HasVcc
  <2>6. Held'
    BY <1>1, <1>2, <2>2, <2>3
       DEF Held, Stage, SamsungStage, SamsungDark, SamsungPower, SamsungFlags, Tianma, Samsung, Renesas,
           Active, Suspended, Disabled, Apart, Sound, Unmixed, Flawless, On, OnMethods, OffMethods,
           system, Still, HasVcc
  <2>7. RoundStep(a, "settleOff")
    BY <1>3, <1>1, <1>2, <2>2, <2>3 DEF RoundStep, Round, Role, Tianma, Samsung, Renesas, Active
  <2> QED
    BY <1>1, <2>1, <2>2, <2>3, <2>4, <2>5, <2>6, <2>7, Inside
       DEF Steps, OnSteps, OffSteps, OnMethods, OffMethods
<1> QED
  BY <1>1, <1>3 DEF SamsungLinkOff, At, In, Goto, NoFault, Untouched, hardware, LinkOff, Less

\* disable of the Samsung panel says DISABLED, suspend says SUSPENDED once.
LEMMA SamsungSettleOffKeeps ==
    ASSUME IInv, NEW a \in Actors, SamsungSettleOff(a)
    PROVE  IInv'
<1>1. panel \in Samsung /\ call[a].pc = "settleOff" /\ call[a].method \in {"disable", "suspend"}
  <2>1. panel \in Samsung /\ call[a].pc = "settleOff"
    BY DEF SamsungSettleOff, At
  <2> QED
    BY <2>1, Here DEF Role, OnMethods, OffMethods, OnSteps, OffSteps
<1>2. /\ TypeOK /\ Typed /\ Role(a) /\ Stage(a) /\ Held /\ Round
      /\ call[a].ok \in BOOLEAN /\ call[a].tries \in Nat
      /\ vcc \in Nat /\ link \in Nat /\ frame.clk \in Int
      /\ faults \in Nat /\ before.faults \in Nat /\ before.faults <= faults
  BY <1>1, Here
<1>3. CASE call[a].method = "disable"
  <2>1. Moves(a, "returned", call[a].method, call[a].via, TRUE, call[a].tries)
    BY <1>3, <1>1, <1>2, MovesOn
       DEF SamsungSettleOff, At, In, Goto, NoFault, Untouched, hardware, Return, Steps
  <2>2. /\ dss'.state = "DISABLED" /\ drv'.enabled = drv.enabled /\ drv'.suspended = drv.suspended
        /\ vcc' = vcc /\ link' = link /\ chip' = chip
        /\ frame'.pending = frame.pending /\ frame'.moving = frame.moving /\ frame'.clk = frame.clk
        /\ over' = over
        /\ dss'.activate = dss.activate
    BY <1>3, <1>1, <1>2
       DEF SamsungSettleOff, At, In, Goto, NoFault, Untouched, hardware, Return, Typed, HasVcc
  <2>3. /\ UNCHANGED system
        /\ UNCHANGED <<faults, astray>>
    BY <1>3, <1>1 DEF SamsungSettleOff, At, In, Goto, NoFault, Untouched, hardware, Return
  <2>4. Typed'
    <3>1. /\ dss' \in [state : States, activate : BOOLEAN]
          /\ drv' \in [enabled : BOOLEAN, suspended : BOOLEAN]
          /\ frame' \in [pending : BOOLEAN, moving : BOOLEAN, clk : Int]
          /\ rails' \in BOOLEAN
      BY <1>3, <1>1, <1>2
         DEF SamsungSettleOff, At, In, Goto, NoFault, Untouched, hardware, Return, Typed, States
    <3>2. vcc' \in Nat /\ link' \in Nat /\ chip' \in BOOLEAN /\ over' \subseteq Resources
      BY <1>2, <2>2 DEF Typed, Resources, HasVcc
    <3> QED
      BY <1>2, <2>3, <3>1, <3>2 DEF Typed, system
  <2>5. Apart' => Stage(a)'
    BY <1>3, <1>1, <1>2, <2>1, <2>2, <2>3
       DEF Moves, Stage, SamsungStage, SamsungDark, SamsungPower, SamsungFlags, Tianma, Samsung, Renesas,
           Active, Suspended, Disabled, Apart, Sound, Unmixed, Flawless, On, OnMethods, OffMethods,
           system, HasVcc
  <2>6. Held'
    BY <1>3, <1>1, <1>2, <2>2, <2>3
       DEF Held, Stage, SamsungStage, SamsungDark, SamsungPower, SamsungFlags, Tianma, Samsung, Renesas,
           Active, Suspended, Disabled, Apart, Sound, Unmixed, Flawless, On, OnMethods, OffMethods,
           system, Still, HasVcc
  <2>7. RoundStep(a, "returned")
    BY <1>3, <1>1, <1>2, <2>2, <2>3 DEF RoundStep, Round, Role, Tianma, Samsung, Renesas, Active
  <2> QED
    BY <1>1, <2>1, <2>2, <2>3, <2>4, <2>5, <2>6, <2>7, Inside
       DEF Steps, OnSteps, OffSteps, OnMethods, OffMethods
<1>4. CASE call[a].method = "suspend" /\ drv.suspended
  <2>1. Moves(a, "returned", call[a].method, call[a].via, TRUE, call[a].tries)
    BY <1>4, <1>1, <1>2, MovesOn
       DEF SamsungSettleOff, At, In, Goto, NoFault, Untouched, hardware, Return, Steps
  <2>2. /\ dss'.state = dss.state /\ drv'.enabled = drv.enabled /\ drv'.suspended = drv.suspended
        /\ vcc' = vcc /\ link' = link /\ chip' = chip
        /\ frame'.pending = frame.pending /\ frame'.moving = frame.moving /\ frame'.clk = frame.clk
        /\ over' = over
        /\ dss'.activate = dss.activate
    BY <1>4, <1>1, <1>2
       DEF SamsungSettleOff, At, In, Goto, NoFault, Untouched, hardware, Return, Typed, HasVcc
  <2>3. /\ UNCHANGED system
        /\ UNCHANGED <<faults, astray>>
    BY <1>4, <1>1 DEF SamsungSettleOff, At, In, Goto, NoFault, Untouched, hardware, Return
  <2>4. Typed'
    <3>1. /\ dss' \in [state : States, activate : BOOLEAN]
          /\ drv' \in [enabled : BOOLEAN, suspended : BOOLEAN]
          /\ frame' \in [pending : BOOLEAN, moving : BOOLEAN, clk : Int]
          /\ rails' \in BOOLEAN
      BY <1>4, <1>1, <1>2
         DEF SamsungSettleOff, At, In, Goto, NoFault, Untouched, hardware, Return, Typed, States
    <3>2. vcc' \in Nat /\ link' \in Nat /\ chip' \in BOOLEAN /\ over' \subseteq Resources
      BY <1>2, <2>2 DEF Typed, Resources, HasVcc
    <3> QED
      BY <1>2, <2>3, <3>1, <3>2 DEF Typed, system
  <2>5. Apart' => Stage(a)'
    BY <1>4, <1>1, <1>2, <2>1, <2>2, <2>3
       DEF Moves, Stage, SamsungStage, SamsungDark, SamsungPower, SamsungFlags, Tianma, Samsung, Renesas,
           Active, Suspended, Disabled, Apart, Sound, Unmixed, Flawless, On, OnMethods, OffMethods,
           system, HasVcc
  <2>6. Held'
    BY <1>4, <1>1, <1>2, <2>2, <2>3
       DEF Held, Stage, SamsungStage, SamsungDark, SamsungPower, SamsungFlags, Tianma, Samsung, Renesas,
           Active, Suspended, Disabled, Apart, Sound, Unmixed, Flawless, On, OnMethods, OffMethods,
           system, Still, HasVcc
  <2>7. RoundStep(a, "returned")
    BY <1>4, <1>1, <1>2, <2>2, <2>3 DEF RoundStep, Round, Role, Tianma, Samsung, Renesas, Active
  <2> QED
    BY <1>1, <2>1, <2>2, <2>3, <2>4, <2>5, <2>6, <2>7, Inside
       DEF Steps, OnSteps, OffSteps, OnMethods, OffMethods
<1>5. CASE call[a].method = "suspend" /\ ~drv.suspended
  <2>1. Moves(a, "returned", call[a].method, call[a].via, TRUE, call[a].tries)
    BY <1>5, <1>1, <1>2, MovesOn
       DEF SamsungSettleOff, At, In, Goto, NoFault, Untouched, hardware, Return, Steps
  <2>2. /\ dss'.state = "SUSPENDED" /\ drv'.enabled = drv.enabled /\ drv'.suspended = TRUE
        /\ vcc' = vcc /\ link' = link /\ chip' = chip
        /\ frame'.pending = frame.pending /\ frame'.moving = frame.moving /\ frame'.clk = frame.clk
        /\ over' = over
        /\ dss'.activate = dss.activate
    BY <1>5, <1>1, <1>2
       DEF SamsungSettleOff, At, In, Goto, NoFault, Untouched, hardware, Return, Typed, HasVcc
  <2>3. /\ UNCHANGED system
        /\ UNCHANGED <<faults, astray>>
    BY <1>5, <1>1 DEF SamsungSettleOff, At, In, Goto, NoFault, Untouched, hardware, Return
  <2>4. Typed'
    <3>1. /\ dss' \in [state : States, activate : BOOLEAN]
          /\ drv' \in [enabled : BOOLEAN, suspended : BOOLEAN]
          /\ frame' \in [pending : BOOLEAN, moving : BOOLEAN, clk : Int]
          /\ rails' \in BOOLEAN
      BY <1>5, <1>1, <1>2
         DEF SamsungSettleOff, At, In, Goto, NoFault, Untouched, hardware, Return, Typed, States
    <3>2. vcc' \in Nat /\ link' \in Nat /\ chip' \in BOOLEAN /\ over' \subseteq Resources
      BY <1>2, <2>2 DEF Typed, Resources, HasVcc
    <3> QED
      BY <1>2, <2>3, <3>1, <3>2 DEF Typed, system
  <2>5. Apart' => Stage(a)'
    BY <1>5, <1>1, <1>2, <2>1, <2>2, <2>3
       DEF Moves, Stage, SamsungStage, SamsungDark, SamsungPower, SamsungFlags, Tianma, Samsung, Renesas,
           Active, Suspended, Disabled, Apart, Sound, Unmixed, Flawless, On, OnMethods, OffMethods,
           system, HasVcc
  <2>6. Held'
    BY <1>5, <1>1, <1>2, <2>2, <2>3
       DEF Held, Stage, SamsungStage, SamsungDark, SamsungPower, SamsungFlags, Tianma, Samsung, Renesas,
           Active, Suspended, Disabled, Apart, Sound, Unmixed, Flawless, On, OnMethods, OffMethods,
           system, Still, HasVcc
  <2>7. RoundStep(a, "returned")
    BY <1>5, <1>1, <1>2, <2>2, <2>3 DEF RoundStep, Round, Role, Tianma, Samsung, Renesas, Active
  <2> QED
    BY <1>1, <2>1, <2>2, <2>3, <2>4, <2>5, <2>6, <2>7, Inside
       DEF Steps, OnSteps, OffSteps, OnMethods, OffMethods
<1> QED
  BY <1>1, <1>3, <1>4, <1>5 DEF SamsungSettleOff, At, In, Goto, NoFault, Untouched, hardware, Return

\* enable and resume of the Renesas panel do nothing while it is ACTIVE.
LEMMA RenesasPowerOnKeeps ==
    ASSUME IInv, NEW a \in Actors, RenesasPowerOn(a)
    PROVE  IInv'
<1>1. panel \in Renesas /\ call[a].pc = "start" /\ call[a].method \in {"enable", "resume"}
  BY DEF RenesasPowerOn, At, In
<1>2. /\ TypeOK /\ Typed /\ Role(a) /\ Stage(a) /\ Held /\ Round
      /\ call[a].ok \in BOOLEAN /\ call[a].tries \in Nat
      /\ vcc \in Nat /\ link \in Nat /\ frame.clk \in Int
      /\ faults \in Nat /\ before.faults \in Nat /\ before.faults <= faults
  BY <1>1, Here
<1>3. CASE dss.state = "ACTIVE"
  <2>1. Moves(a, "settleOn", call[a].method, call[a].via, TRUE, call[a].tries)
    BY <1>3, <1>1, <1>2, MovesOn DEF RenesasPowerOn, At, In, Goto, NoFault, Untouched, hardware, Steps
  <2>2. /\ dss'.state = dss.state /\ drv'.enabled = drv.enabled /\ drv'.suspended = drv.suspended
        /\ vcc' = vcc /\ link' = link /\ chip' = chip
        /\ frame'.pending = frame.pending /\ frame'.moving = frame.moving /\ frame'.clk = frame.clk
        /\ over' = over
        /\ dss'.activate = dss.activate
    BY <1>3, <1>1, <1>2
       DEF RenesasPowerOn, At, In, Goto, NoFault, Untouched, hardware, Typed, HasVcc, Renesas
  <2>3. /\ UNCHANGED system
        /\ UNCHANGED <<faults, astray>>
    BY <1>3, <1>1 DEF RenesasPowerOn, At, In, Goto, NoFault, Untouched, hardware
  <2>4. Typed'
    <3>1. /\ dss' \in [state : States, activate : BOOLEAN]
          /\ drv' \in [enabled : BOOLEAN, suspended : BOOLEAN]
          /\ frame' \in [pending : BOOLEAN, moving : BOOLEAN, clk : Int]
          /\ rails' \in BOOLEAN
      BY <1>3, <1>1, <1>2 DEF RenesasPowerOn, At, In, Goto, NoFault, Untouched, hardware, Typed, States
    <3>2. vcc' \in Nat /\ link' \in Nat /\ chip' \in BOOLEAN /\ over' \subseteq Resources
      BY <1>2, <2>2 DEF Typed, Resources
    <3> QED
      BY <1>2, <2>3, <3>1, <3>2 DEF Typed, system
  <2>5. Apart' => Stage(a)'
    BY <1>3, <1>1, <1>2, <2>1, <2>2, <2>3
       DEF Moves, Stage, RenesasStage, RenesasDark, RenesasPower, Flowing, Still, Tianma, Samsung,
           Renesas, Active, Suspended, Disabled, Apart, Sound, Unmixed, Flawless, On, OnMethods,
           OffMethods, system
  <2>6. Held'
    BY <1>3, <1>1, <1>2, <2>2, <2>3
       DEF Held, Stage, RenesasStage, RenesasDark, RenesasPower, Flowing, Still, Tianma, Samsung,
           Renesas, Active, Suspended, Disabled, Apart, Sound, Unmixed, Flawless, On, OnMethods,
           OffMethods, system
  <2>7. RoundStep(a, "settleOn")
    BY <1>3, <1>1, <1>2, <2>2, <2>3 DEF RoundStep, Round, Role, Tianma, Samsung, Renesas, Active
  <2> QED
    BY <1>1, <2>1, <2>2, <2>3, <2>4, <2>5, <2>6, <2>7, Inside
       DEF Steps, OnSteps, OffSteps, OnMethods, OffMethods
<1>4. CASE dss.state # "ACTIVE"
  <2>1. Moves(a, "vccOn", call[a].method, call[a].via, call[a].ok, call[a].tries)
    BY <1>4, <1>1, <1>2, MovesOn DEF RenesasPowerOn, At, In, Goto, NoFault, Untouched, hardware, Steps
  <2>2. /\ dss'.state = dss.state /\ drv'.enabled = drv.enabled /\ drv'.suspended = drv.suspended
        /\ vcc' = vcc /\ link' = link /\ chip' = chip
        /\ frame'.pending = frame.pending /\ frame'.moving = frame.moving /\ frame'.clk = frame.clk
        /\ over' = over
        /\ dss'.activate = dss.activate
    BY <1>4, <1>1, <1>2
       DEF RenesasPowerOn, At, In, Goto, NoFault, Untouched, hardware, Typed, HasVcc, Renesas
  <2>3. /\ UNCHANGED system
        /\ UNCHANGED <<faults, astray>>
    BY <1>4, <1>1 DEF RenesasPowerOn, At, In, Goto, NoFault, Untouched, hardware
  <2>4. Typed'
    <3>1. /\ dss' \in [state : States, activate : BOOLEAN]
          /\ drv' \in [enabled : BOOLEAN, suspended : BOOLEAN]
          /\ frame' \in [pending : BOOLEAN, moving : BOOLEAN, clk : Int]
          /\ rails' \in BOOLEAN
      BY <1>4, <1>1, <1>2 DEF RenesasPowerOn, At, In, Goto, NoFault, Untouched, hardware, Typed, States
    <3>2. vcc' \in Nat /\ link' \in Nat /\ chip' \in BOOLEAN /\ over' \subseteq Resources
      BY <1>2, <2>2 DEF Typed, Resources
    <3> QED
      BY <1>2, <2>3, <3>1, <3>2 DEF Typed, system
  <2>5. Apart' => Stage(a)'
    BY <1>4, <1>1, <1>2, <2>1, <2>2, <2>3
       DEF Moves, Stage, RenesasStage, RenesasDark, RenesasPower, Flowing, Still, Tianma, Samsung,
           Renesas, Active, Suspended, Disabled, Apart, Sound, Unmixed, Flawless, On, OnMethods,
           OffMethods, system
  <2>6. Held'
    BY <1>4, <1>1, <1>2, <2>2, <2>3
       DEF Held, Stage, RenesasStage, RenesasDark, RenesasPower, Flowing, Still, Tianma, Samsung,
           Renesas, Active, Suspended, Disabled, Apart, Sound, Unmixed, Flawless, On, OnMethods,
           OffMethods, system
  <2>7. RoundStep(a, "vccOn")
    BY <1>4, <1>1, <1>2, <2>2, <2>3 DEF RoundStep, Round, Role, Tianma, Samsung, Renesas, Active
  <2> QED
    BY <1>1, <2>1, <2>2, <2>3, <2>4, <2>5, <2>6, <2>7, Inside
       DEF Steps, OnSteps, OffSteps, OnMethods, OffMethods
<1> QED
  BY <1>1, <1>3, <1>4 DEF RenesasPowerOn, At, In, Goto, NoFault, Untouched, hardware

\* The regulator of the Renesas panel comes up, or the attempt fails.
LEMMA RenesasVccOnKeeps ==
    ASSUME IInv, NEW a \in Actors, RenesasVccOn(a)
    PROVE  IInv'
<1>1. panel \in Renesas /\ call[a].pc = "vccOn" /\ call[a].method \in {"enable", "resume"}
  <2>1. panel \in Renesas /\ call[a].pc = "vccOn"
    BY DEF RenesasVccOn, At
  <2> QED
    BY <2>1, Here DEF Role, OnMethods, OffMethods, OnSteps, OffSteps
<1>2. /\ TypeOK /\ Typed /\ Role(a) /\ Stage(a) /\ Held /\ Round
      /\ call[a].ok \in BOOLEAN /\ call[a].tries \in Nat
      /\ vcc \in Nat /\ link \in Nat /\ frame.clk \in Int
      /\ faults \in Nat /\ before.faults \in Nat /\ before.faults <= faults
  BY <1>1, Here
<1>3. CASE RegulatorOn(a, "linkOn")
  <2>1. Moves(a, "linkOn", call[a].method, call[a].via, call[a].ok, call[a].tries)
    BY <1>3, <1>1, <1>2, MovesOn
       DEF RenesasVccOn, At, In, Goto, NoFault, Untouched, hardware, RenesasFailedOn, RegulatorOn, VccOn,
           Fault, Steps
  <2>2. /\ dss'.state = dss.state /\ drv'.enabled = drv.enabled /\ drv'.suspended = drv.suspended
        /\ vcc' = vcc + 1 /\ link' = link /\ chip' = chip
        /\ frame'.pending = frame.pending /\ frame'.moving = frame.moving /\ frame'.clk = frame.clk
        /\ over' = over
        /\ dss'.activate = dss.activate
    BY <1>3, <1>1, <1>2
       DEF RenesasVccOn, At, In, Goto, NoFault, Untouched, hardware, RenesasFailedOn, RegulatorOn, VccOn,
           Fault, Typed, HasVcc, Renesas
  <2>3. /\ UNCHANGED system
        /\ UNCHANGED <<faults, astray>>
    BY <1>3, <1>1
       DEF RenesasVccOn, At, In, Goto, NoFault, Untouched, hardware, RenesasFailedOn, RegulatorOn, VccOn,
           Fault
  <2>4. Typed'
    <3>1. /\ dss' \in [state : States, activate : BOOLEAN]
          /\ drv' \in [enabled : BOOLEAN, suspended : BOOLEAN]
          /\ frame' \in [pending : BOOLEAN, moving : BOOLEAN, clk : Int]
          /\ rails' \in BOOLEAN
      BY <1>3, <1>1, <1>2
         DEF RenesasVccOn, At, In, Goto, NoFault, Untouched, hardware, RenesasFailedOn, RegulatorOn,
             VccOn, Fault, Typed, States
    <3>2. vcc' \in Nat /\ link' \in Nat /\ chip' \in BOOLEAN /\ over' \subseteq Resources
      BY <1>2, <2>2 DEF Typed, Resources
    <3> QED
      BY <1>2, <2>3, <3>1, <3>2 DEF Typed, system
  <2>5. Apart' => Stage(a)'
    BY <1>1, <1>2, <2>1, <2>2, <2>3
       DEF Moves, Stage, RenesasStage, RenesasDark, RenesasPower, Flowing, Still, Tianma, Samsung,
           Renesas, Active, Suspended, Disabled, Apart, Sound, Unmixed, Flawless, On, OnMethods,
           OffMethods, system
  <2>6. Held'
    BY <1>1, <1>2, <2>2, <2>3
       DEF Held, Stage, RenesasStage, RenesasDark, RenesasPower, Flowing, Still, Tianma, Samsung,
           Renesas, Active, Suspended, Disabled, Apart, Sound, Unmixed, Flawless, On, OnMethods,
           OffMethods, system
  <2>7. RoundStep(a, "linkOn")
    BY <1>3, <1>1, <1>2, <2>2, <2>3 DEF RoundStep, Round, Role, Tianma, Samsung, Renesas, Active
  <2> QED
    BY <1>1, <2>1, <2>2, <2>3, <2>4, <2>5, <2>6, <2>7, Inside
       DEF Steps, OnSteps, OffSteps, OnMethods, OffMethods
<1>4. CASE Fault /\ RenesasFailedOn(a) /\ Untouched
  <2>1. Moves(a, "settleOn", call[a].method, call[a].via, FALSE, call[a].tries)
    BY <1>4, <1>1, <1>2, MovesOn
       DEF RenesasVccOn, At, In, Goto, NoFault, Untouched, hardware, RenesasFailedOn, RegulatorOn, VccOn,
           Fault, Steps
  <2>2. /\ dss'.state = dss.state /\ drv'.enabled = drv.enabled /\ drv'.suspended = drv.suspended
        /\ vcc' = vcc /\ link' = link /\ chip' = chip
        /\ frame'.pending = frame.pending /\ frame'.moving = frame.moving /\ frame'.clk = frame.clk
        /\ over' = over
        /\ dss'.activate = dss.activate
    BY <1>4, <1>1, <1>2
       DEF RenesasVccOn, At, In, Goto, NoFault, Untouched, hardware, RenesasFailedOn, RegulatorOn, VccOn,
           Fault, Typed, HasVcc, Renesas
  <2>3. /\ UNCHANGED system
        /\ faults' = faults + 1 /\ astray' = astray \cup {"fault"}
    BY <1>4, <1>1
       DEF RenesasVccOn, At, In, Goto, NoFault, Untouched, hardware, RenesasFailedOn, RegulatorOn, VccOn,
           Fault
  <2>4. Typed'
    <3>1. /\ dss' \in [state : States, activate : BOOLEAN]
          /\ drv' \in [enabled : BOOLEAN, suspended : BOOLEAN]
          /\ frame' \in [pending : BOOLEAN, moving : BOOLEAN, clk : Int]
          /\ rails' \in BOOLEAN
      BY <1>4, <1>1, <1>2
         DEF RenesasVccOn, At, In, Goto, NoFault, Untouched, hardware, RenesasFailedOn, RegulatorOn,
             VccOn, Fault, Typed, States
    <3>2. vcc' \in Nat /\ link' \in Nat /\ chip' \in BOOLEAN /\ over' \subseteq Resources
      BY <1>2, <2>2 DEF Typed, Resources
    <3>3. faults' \in 0..MaxFaults
      BY <1>4, <1>1, <1>2, DssAssumption
         DEF RenesasVccOn, At, In, Goto, NoFault, Untouched, hardware, RenesasFailedOn, RegulatorOn,
             VccOn, Fault
    <3> QED
      BY <1>2, <2>3, <3>1, <3>2, <3>3 DEF Typed, system
  <2>5. Apart' => Stage(a)'
    BY <1>4, <1>1, <1>2, <2>1, <2>2, <2>3
       DEF Moves, Stage, RenesasStage, RenesasDark, RenesasPower, Flowing, Still, Tianma, Samsung,
           Renesas, Active, Suspended, Disabled, Apart, Sound, Unmixed, Flawless, On, OnMethods,
           OffMethods, system
  <2>6. Held'
    BY <1>4, <1>1, <1>2, <2>2, <2>3
       DEF Held, Stage, RenesasStage, RenesasDark, RenesasPower, Flowing, Still, Tianma, Samsung,
           Renesas, Active, Suspended, Disabled, Apart, Sound, Unmixed, Flawless, On, OnMethods,
           OffMethods, system
  <2>7. RoundStep(a, "settleOn")
    BY <1>4, <1>1, <1>2, <2>2, <2>3 DEF RoundStep, Round, Role, Tianma, Samsung, Renesas, Active
  <2> QED
    BY <1>1, <2>1, <2>2, <2>3, <2>4, <2>5, <2>6, <2>7, Inside
       DEF Steps, OnSteps, OffSteps, OnMethods, OffMethods
<1> QED
  BY <1>1, <1>3, <1>4
     DEF RenesasVccOn, At, In, Goto, NoFault, Untouched, hardware, RenesasFailedOn, RegulatorOn, VccOn,
         Fault

\* The RFBI comes up, or fails for the handler of an earlier attempt and removes it.
LEMMA RenesasLinkOnKeeps ==
    ASSUME IInv, NEW a \in Actors, RenesasLinkOn(a)
    PROVE  IInv'
<1>1. panel \in Renesas /\ call[a].pc = "linkOn" /\ call[a].method \in {"enable", "resume"}
  <2>1. panel \in Renesas /\ call[a].pc = "linkOn"
    BY DEF RenesasLinkOn, At
  <2> QED
    BY <2>1, Here DEF Role, OnMethods, OffMethods, OnSteps, OffSteps
<1>2. /\ TypeOK /\ Typed /\ Role(a) /\ Stage(a) /\ Held /\ Round
      /\ call[a].ok \in BOOLEAN /\ call[a].tries \in Nat
      /\ vcc \in Nat /\ link \in Nat /\ frame.clk \in Int
      /\ faults \in Nat /\ before.faults \in Nat /\ before.faults <= faults
  BY <1>1, Here
<1>3. CASE link = 0
  <2>1. Moves(a, "chipOn", call[a].method, call[a].via, call[a].ok, call[a].tries)
    BY <1>3, <1>1, <1>2, MovesOn
       DEF RenesasLinkOn, At, In, Goto, NoFault, Untouched, hardware, RenesasFailedOn, LinkOn,
           FrameStopped, Steps
  <2>2. /\ dss'.state = dss.state /\ drv'.enabled = drv.enabled /\ drv'.suspended = drv.suspended
        /\ vcc' = vcc /\ link' = link + 1 /\ chip' = chip
        /\ frame'.pending = frame.pending /\ frame'.moving = frame.moving /\ frame'.clk = frame.clk
        /\ over' = over
        /\ dss'.activate = dss.activate
    BY <1>3, <1>1, <1>2
       DEF RenesasLinkOn, At, In, Goto, NoFault, Untouched, hardware, RenesasFailedOn, LinkOn,
           FrameStopped, Typed, HasVcc, Renesas
  <2>3. /\ UNCHANGED system
        /\ UNCHANGED <<faults, astray>>
    BY <1>3, <1>1
       DEF RenesasLinkOn, At, In, Goto, NoFault, Untouched, hardware, RenesasFailedOn, LinkOn,
           FrameStopped
  <2>4. Typed'
    <3>1. /\ dss' \in [state : States, activate : BOOLEAN]
          /\ drv' \in [enabled : BOOLEAN, suspended : BOOLEAN]
          /\ frame' \in [pending : BOOLEAN, moving : BOOLEAN, clk : Int]
          /\ rails' \in BOOLEAN
      BY <1>3, <1>1, <1>2
         DEF RenesasLinkOn, At, In, Goto, NoFault, Untouched, hardware, RenesasFailedOn, LinkOn,
             FrameStopped, Typed, States
    <3>2. vcc' \in Nat /\ link' \in Nat /\ chip' \in BOOLEAN /\ over' \subseteq Resources
      BY <1>2, <2>2 DEF Typed, Resources
    <3> QED
      BY <1>2, <2>3, <3>1, <3>2 DEF Typed, system
  <2>5. Apart' => Stage(a)'
    BY <1>3, <1>1, <1>2, <2>1, <2>2, <2>3
       DEF Moves, Stage, RenesasStage, RenesasDark, RenesasPower, Flowing, Still, Tianma, Samsung,
           Renesas, Active, Suspended, Disabled, Apart, Sound, Unmixed, Flawless, On, OnMethods,
           OffMethods, system
  <2>6. Held'
    BY <1>3, <1>1, <1>2, <2>2, <2>3
       DEF Held, Stage, RenesasStage, RenesasDark, RenesasPower, Flowing, Still, Tianma, Samsung,
           Renesas, Active, Suspended, Disabled, Apart, Sound, Unmixed, Flawless, On, OnMethods,
           OffMethods, system
  <2>7. RoundStep(a, "chipOn")
    BY <1>3, <1>1, <1>2, <2>2, <2>3 DEF RoundStep, Round, Role, Tianma, Samsung, Renesas, Active
  <2> QED
    BY <1>1, <2>1, <2>2, <2>3, <2>4, <2>5, <2>6, <2>7, Inside
       DEF Steps, OnSteps, OffSteps, OnMethods, OffMethods
<1>4. CASE link # 0 /\ frame.pending
  <2>1. Moves(a, "settleOn", call[a].method, call[a].via, FALSE, call[a].tries)
    BY <1>4, <1>1, <1>2, MovesOn
       DEF RenesasLinkOn, At, In, Goto, NoFault, Untouched, hardware, RenesasFailedOn, LinkOn,
           FrameStopped, Steps
  <2>2. /\ dss'.state = dss.state /\ drv'.enabled = drv.enabled /\ drv'.suspended = drv.suspended
        /\ vcc' = vcc /\ link' = 0 /\ chip' = chip
        /\ frame'.pending = frame.pending /\ frame'.moving = FALSE
        /\ frame'.clk = frame.clk - 1
        /\ over' = (IF frame.clk <= 0 THEN over \cup {"clk"} ELSE over)
        /\ dss'.activate = dss.activate
    BY <1>4, <1>1, <1>2
       DEF RenesasLinkOn, At, In, Goto, NoFault, Untouched, hardware, RenesasFailedOn, LinkOn,
           FrameStopped, Typed, HasVcc, Renesas
  <2>3. /\ UNCHANGED system
        /\ UNCHANGED <<faults, astray>>
    BY <1>4, <1>1
       DEF RenesasLinkOn, At, In, Goto, NoFault, Untouched, hardware, RenesasFailedOn, LinkOn,
           FrameStopped
  <2>4. Typed'
    <3>1. /\ dss' \in [state : States, activate : BOOLEAN]
          /\ drv' \in [enabled : BOOLEAN, suspended : BOOLEAN]
          /\ rails' \in BOOLEAN
      BY <1>4, <1>1, <1>2
         DEF RenesasLinkOn, At, In, Goto, NoFault, Untouched, hardware, RenesasFailedOn, LinkOn,
             FrameStopped, Typed, States
    <3>4. frame' \in [pending : BOOLEAN, moving : BOOLEAN, clk : Int]
      <4>1. frame \in [pending : BOOLEAN, moving : BOOLEAN, clk : Int]
        BY <1>2 DEF Typed
      <4>2. frame' = [frame EXCEPT !.moving = FALSE, !.clk = @ - 1]
        BY <1>4, <1>1, <1>2
           DEF RenesasLinkOn, At, In, Goto, NoFault, Untouched, hardware, RenesasFailedOn, LinkOn,
               FrameStopped
      <4> QED
        BY <1>2, <4>1, <4>2, StoppedFrame
    <3>2. vcc' \in Nat /\ link' \in Nat /\ chip' \in BOOLEAN /\ over' \subseteq Resources
      BY <1>2, <2>2 DEF Typed, Resources
    <3> QED
      BY <1>2, <2>3, <3>1, <3>2, <3>4 DEF Typed, system
  <2>5. Apart' => Stage(a)'
    BY <1>4, <1>1, <1>2, <2>1, <2>2, <2>3
       DEF Moves, Stage, RenesasStage, RenesasDark, RenesasPower, Flowing, Still, Tianma, Samsung,
           Renesas, Active, Suspended, Disabled, Apart, Sound, Unmixed, Flawless, On, OnMethods,
           OffMethods, system
  <2>6. Held'
    BY <1>4, <1>1, <1>2, <2>2, <2>3
       DEF Held, Stage, RenesasStage, RenesasDark, RenesasPower, Flowing, Still, Tianma, Samsung,
           Renesas, Active, Suspended, Disabled, Apart, Sound, Unmixed, Flawless, On, OnMethods,
           OffMethods, system
  <2>7. RoundStep(a, "settleOn")
    BY <1>4, <1>1, <1>2, <2>2, <2>3 DEF RoundStep, Round, Role, Tianma, Samsung, Renesas, Active
  <2> QED
    BY <1>1, <2>1, <2>2, <2>3, <2>4, <2>5, <2>6, <2>7, Inside
       DEF Steps, OnSteps, OffSteps, OnMethods, OffMethods
<1>5. CASE link # 0 /\ ~frame.pending
  <2>1. Moves(a, "settleOn", call[a].method, call[a].via, FALSE, call[a].tries)
    BY <1>5, <1>1, <1>2, MovesOn
       DEF RenesasLinkOn, At, In, Goto, NoFault, Untouched, hardware, RenesasFailedOn, LinkOn,
           FrameStopped, Steps
  <2>2. /\ dss'.state = dss.state /\ drv'.enabled = drv.enabled /\ drv'.suspended = drv.suspended
        /\ vcc' = vcc /\ link' = 0 /\ chip' = chip
        /\ frame'.pending = frame.pending /\ frame'.moving = frame.moving /\ frame'.clk = frame.clk
        /\ over' = over
        /\ dss'.activate = dss.activate
    BY <1>5, <1>1, <1>2
       DEF RenesasLinkOn, At, In, Goto, NoFault, Untouched, hardware, RenesasFailedOn, LinkOn,
           FrameStopped, Typed, HasVcc, Renesas
  <2>3. /\ UNCHANGED system
        /\ UNCHANGED <<faults, astray>>
    BY <1>5, <1>1
       DEF RenesasLinkOn, At, In, Goto, NoFault, Untouched, hardware, RenesasFailedOn, LinkOn,
           FrameStopped
  <2>4. Typed'
    <3>1. /\ dss' \in [state : States, activate : BOOLEAN]
          /\ drv' \in [enabled : BOOLEAN, suspended : BOOLEAN]
          /\ frame' \in [pending : BOOLEAN, moving : BOOLEAN, clk : Int]
          /\ rails' \in BOOLEAN
      BY <1>5, <1>1, <1>2
         DEF RenesasLinkOn, At, In, Goto, NoFault, Untouched, hardware, RenesasFailedOn, LinkOn,
             FrameStopped, Typed, States
    <3>2. vcc' \in Nat /\ link' \in Nat /\ chip' \in BOOLEAN /\ over' \subseteq Resources
      BY <1>2, <2>2 DEF Typed, Resources
    <3> QED
      BY <1>2, <2>3, <3>1, <3>2 DEF Typed, system
  <2>5. Apart' => Stage(a)'
    BY <1>5, <1>1, <1>2, <2>1, <2>2, <2>3
       DEF Moves, Stage, RenesasStage, RenesasDark, RenesasPower, Flowing, Still, Tianma, Samsung,
           Renesas, Active, Suspended, Disabled, Apart, Sound, Unmixed, Flawless, On, OnMethods,
           OffMethods, system
  <2>6. Held'
    BY <1>5, <1>1, <1>2, <2>2, <2>3
       DEF Held, Stage, RenesasStage, RenesasDark, RenesasPower, Flowing, Still, Tianma, Samsung,
           Renesas, Active, Suspended, Disabled, Apart, Sound, Unmixed, Flawless, On, OnMethods,
           OffMethods, system
  <2>7. RoundStep(a, "settleOn")
    BY <1>5, <1>1, <1>2, <2>2, <2>3 DEF RoundStep, Round, Role, Tianma, Samsung, Renesas, Active
  <2> QED
    BY <1>1, <2>1, <2>2, <2>3, <2>4, <2>5, <2>6, <2>7, Inside
       DEF Steps, OnSteps, OffSteps, OnMethods, OffMethods
<1> QED
  BY <1>1, <1>3, <1>4, <1>5
     DEF RenesasLinkOn, At, In, Goto, NoFault, Untouched, hardware, RenesasFailedOn, LinkOn,
         FrameStopped

\* The Renesas panel wakes, or the attempt fails and leaves its handler behind.
LEMMA RenesasChipOnKeeps ==
    ASSUME IInv, NEW a \in Actors, RenesasChipOn(a)
    PROVE  IInv'
<1>1. panel \in Renesas /\ call[a].pc = "chipOn" /\ call[a].method \in {"enable", "resume"}
  <2>1. panel \in Renesas /\ call[a].pc = "chipOn"
    BY DEF RenesasChipOn, At
  <2> QED
    BY <2>1, Here DEF Role, OnMethods, OffMethods, OnSteps, OffSteps
<1>2. /\ TypeOK /\ Typed /\ Role(a) /\ Stage(a) /\ Held /\ Round
      /\ call[a].ok \in BOOLEAN /\ call[a].tries \in Nat
      /\ vcc \in Nat /\ link \in Nat /\ frame.clk \in Int
      /\ faults \in Nat /\ before.faults \in Nat /\ before.faults <= faults
  BY <1>1, Here
<1>3. CASE /\ chip' = TRUE /\ NoFault
           /\ call' = [call EXCEPT ![a].pc = "settleOn", ![a].ok = TRUE]
           /\ UNCHANGED <<dss, drv, vcc, link, rails, frame, over, system>>
  <2>1. Moves(a, "settleOn", call[a].method, call[a].via, TRUE, call[a].tries)
    BY <1>3, <1>1, <1>2, MovesOn
       DEF RenesasChipOn, At, In, Goto, NoFault, Untouched, hardware, RenesasFailedOn, Fault, Steps
  <2>2. /\ dss'.state = dss.state /\ drv'.enabled = drv.enabled /\ drv'.suspended = drv.suspended
        /\ vcc' = vcc /\ link' = link /\ chip' = TRUE
        /\ frame'.pending = frame.pending /\ frame'.moving = frame.moving /\ frame'.clk = frame.clk
        /\ over' = over
        /\ dss'.activate = dss.activate
    BY <1>3, <1>1, <1>2
       DEF RenesasChipOn, At, In, Goto, NoFault, Untouched, hardware, RenesasFailedOn, Fault, Typed,
           HasVcc, Renesas
  <2>3. /\ UNCHANGED system
        /\ UNCHANGED <<faults, astray>>
    BY <1>3, <1>1 DEF RenesasChipOn, At, In, Goto, NoFault, Untouched, hardware, RenesasFailedOn, Fault
  <2>4. Typed'
    <3>1. /\ dss' \in [state : States, activate : BOOLEAN]
          /\ drv' \in [enabled : BOOLEAN, suspended : BOOLEAN]
          /\ frame' \in [pending : BOOLEAN, moving : BOOLEAN, clk : Int]
          /\ rails' \in BOOLEAN
      BY <1>3, <1>1, <1>2
         DEF RenesasChipOn, At, In, Goto, NoFault, Untouched, hardware, RenesasFailedOn, Fault, Typed,
             States
    <3>2. vcc' \in Nat /\ link' \in Nat /\ chip' \in BOOLEAN /\ over' \subseteq Resources
      BY <1>2, <2>2 DEF Typed, Resources
    <3> QED
      BY <1>2, <2>3, <3>1, <3>2 DEF Typed, system
  <2>5. Apart' => Stage(a)'
    BY <1>1, <1>2, <2>1, <2>2, <2>3
       DEF Moves, Stage, RenesasStage, RenesasDark, RenesasPower, Flowing, Still, Tianma, Samsung,
           Renesas, Active, Suspended, Disabled, Apart, Sound, Unmixed, Flawless, On, OnMethods,
           OffMethods, system
  <2>6. Held'
    BY <1>1, <1>2, <2>2, <2>3
       DEF Held, Stage, RenesasStage, RenesasDark, RenesasPower, Flowing, Still, Tianma, Samsung,
           Renesas, Active, Suspended, Disabled, Apart, Sound, Unmixed, Flawless, On, OnMethods,
           OffMethods, system
  <2>7. RoundStep(a, "settleOn")
    BY <1>3, <1>1, <1>2, <2>2, <2>3 DEF RoundStep, Round, Role, Tianma, Samsung, Renesas, Active
  <2> QED
    BY <1>1, <2>1, <2>2, <2>3, <2>4, <2>5, <2>6, <2>7, Inside
       DEF Steps, OnSteps, OffSteps, OnMethods, OffMethods
<1>4. CASE Fault /\ RenesasFailedOn(a) /\ Untouched
  <2>1. Moves(a, "settleOn", call[a].method, call[a].via, FALSE, call[a].tries)
    BY <1>4, <1>1, <1>2, MovesOn
       DEF RenesasChipOn, At, In, Goto, NoFault, Untouched, hardware, RenesasFailedOn, Fault, Steps
  <2>2. /\ dss'.state = dss.state /\ drv'.enabled = drv.enabled /\ drv'.suspended = drv.suspended
        /\ vcc' = vcc /\ link' = link /\ chip' = chip
        /\ frame'.pending = frame.pending /\ frame'.moving = frame.moving /\ frame'.clk = frame.clk
        /\ over' = over
        /\ dss'.activate = dss.activate
    BY <1>4, <1>1, <1>2
       DEF RenesasChipOn, At, In, Goto, NoFault, Untouched, hardware, RenesasFailedOn, Fault, Typed,
           HasVcc, Renesas
  <2>3. /\ UNCHANGED system
        /\ faults' = faults + 1 /\ astray' = astray \cup {"fault"}
    BY <1>4, <1>1 DEF RenesasChipOn, At, In, Goto, NoFault, Untouched, hardware, RenesasFailedOn, Fault
  <2>4. Typed'
    <3>1. /\ dss' \in [state : States, activate : BOOLEAN]
          /\ drv' \in [enabled : BOOLEAN, suspended : BOOLEAN]
          /\ frame' \in [pending : BOOLEAN, moving : BOOLEAN, clk : Int]
          /\ rails' \in BOOLEAN
      BY <1>4, <1>1, <1>2
         DEF RenesasChipOn, At, In, Goto, NoFault, Untouched, hardware, RenesasFailedOn, Fault, Typed,
             States
    <3>2. vcc' \in Nat /\ link' \in Nat /\ chip' \in BOOLEAN /\ over' \subseteq Resources
      BY <1>2, <2>2 DEF Typed, Resources
    <3>3. faults' \in 0..MaxFaults
      BY <1>4, <1>1, <1>2, DssAssumption
         DEF RenesasChipOn, At, In, Goto, NoFault, Untouched, hardware, RenesasFailedOn, Fault
    <3> QED
      BY <1>2, <2>3, <3>1, <3>2, <3>3 DEF Typed, system
  <2>5. Apart' => Stage(a)'
    BY <1>4, <1>1, <1>2, <2>1, <2>2, <2>3
       DEF Moves, Stage, RenesasStage, RenesasDark, RenesasPower, Flowing, Still, Tianma, Samsung,
           Renesas, Active, Suspended, Disabled, Apart, Sound, Unmixed, Flawless, On, OnMethods,
           OffMethods, system
  <2>6. Held'
    BY <1>4, <1>1, <1>2, <2>2, <2>3
       DEF Held, Stage, RenesasStage, RenesasDark, RenesasPower, Flowing, Still, Tianma, Samsung,
           Renesas, Active, Suspended, Disabled, Apart, Sound, Unmixed, Flawless, On, OnMethods,
           OffMethods, system
  <2>7. RoundStep(a, "settleOn")
    BY <1>4, <1>1, <1>2, <2>2, <2>3 DEF RoundStep, Round, Role, Tianma, Samsung, Renesas, Active
  <2> QED
    BY <1>1, <2>1, <2>2, <2>3, <2>4, <2>5, <2>6, <2>7, Inside
       DEF Steps, OnSteps, OffSteps, OnMethods, OffMethods
<1> QED
  BY <1>1, <1>3, <1>4
     DEF RenesasChipOn, At, In, Goto, NoFault, Untouched, hardware, RenesasFailedOn, Fault

\* resume of the Renesas panel tries again, or says ACTIVE and draws; enable passes the error on.
LEMMA RenesasSettleOnKeeps ==
    ASSUME IInv, NEW a \in Actors, RenesasSettleOn(a)
    PROVE  IInv'
<1>1. panel \in Renesas /\ call[a].pc = "settleOn" /\ call[a].method \in {"enable", "resume"}
  <2>1. panel \in Renesas /\ call[a].pc = "settleOn"
    BY DEF RenesasSettleOn, At
  <2> QED
    BY <2>1, Here DEF Role, OnMethods, OffMethods, OnSteps, OffSteps
<1>2. /\ TypeOK /\ Typed /\ Role(a) /\ Stage(a) /\ Held /\ Round
      /\ call[a].ok \in BOOLEAN /\ call[a].tries \in Nat
      /\ vcc \in Nat /\ link \in Nat /\ frame.clk \in Int
      /\ faults \in Nat /\ before.faults \in Nat /\ before.faults <= faults
      /\ call[a].method = "resume" => fb # "none"
  BY <1>1, Here
<1>3. CASE call[a].method = "resume" /\ ~call[a].ok /\ call[a].tries + 1 < WakeRetryCount
  <2>1. Moves(a, "start", call[a].method, call[a].via, call[a].ok, call[a].tries + 1)
    <3>1. call' = [call EXCEPT ![a].pc = "start", ![a].tries = call[a].tries + 1]
      BY <1>3, <1>1, <1>2
         DEF RenesasSettleOn, At, In, Goto, NoFault, Untouched, hardware, Return, Transfer, Renesas,
             TypeOK
    <3>2. call[a].tries + 1 \in Nat /\ "start" \in Steps
      BY <1>2 DEF Steps
    <3> QED
      BY <1>2, <3>1, <3>2, MovesOn
  <2>2. /\ dss'.state = dss.state /\ drv'.enabled = drv.enabled /\ drv'.suspended = drv.suspended
        /\ vcc' = vcc /\ link' = link /\ chip' = chip
        /\ frame'.pending = frame.pending /\ frame'.moving = frame.moving /\ frame'.clk = frame.clk
        /\ over' = over
        /\ dss'.activate = dss.activate
    BY <1>3, <1>1, <1>2
       DEF RenesasSettleOn, At, In, Goto, NoFault, Untouched, hardware, Return, Transfer, Renesas, Typed,
           HasVcc, Renesas
  <2>3. /\ UNCHANGED system
        /\ UNCHANGED <<faults, astray>>
    BY <1>3, <1>1
       DEF RenesasSettleOn, At, In, Goto, NoFault, Untouched, hardware, Return, Transfer, Renesas
  <2>4. Typed'
    <3>1. /\ dss' \in [state : States, activate : BOOLEAN]
          /\ drv' \in [enabled : BOOLEAN, suspended : BOOLEAN]
          /\ frame' \in [pending : BOOLEAN, moving : BOOLEAN, clk : Int]
          /\ rails' \in BOOLEAN
      BY <1>3, <1>1, <1>2
         DEF RenesasSettleOn, At, In, Goto, NoFault, Untouched, hardware, Return, Transfer, Renesas,
             Typed, States
    <3>2. vcc' \in Nat /\ link' \in Nat /\ chip' \in BOOLEAN /\ over' \subseteq Resources
      BY <1>2, <2>2 DEF Typed, Resources
    <3> QED
      BY <1>2, <2>3, <3>1, <3>2 DEF Typed, system
  <2>5. Apart' => Stage(a)'
    BY <1>3, <1>1, <1>2, <2>1, <2>2, <2>3
       DEF Moves, Stage, RenesasStage, RenesasDark, RenesasPower, Flowing, Still, Tianma, Samsung,
           Renesas, Active, Suspended, Disabled, Apart, Sound, Unmixed, Flawless, On, OnMethods,
           OffMethods, system
  <2>6. Held'
    BY <1>3, <1>1, <1>2, <2>2, <2>3
       DEF Held, Stage, RenesasStage, RenesasDark, RenesasPower, Flowing, Still, Tianma, Samsung,
           Renesas, Active, Suspended, Disabled, Apart, Sound, Unmixed, Flawless, On, OnMethods,
           OffMethods, system
  <2>7. RoundStep(a, "start")
    BY <1>3, <1>1, <1>2, <2>2, <2>3 DEF RoundStep, Round, Role, Tianma, Samsung, Renesas, Active
  <2> QED
    BY <1>1, <2>1, <2>2, <2>3, <2>4, <2>5, <2>6, <2>7, Inside
       DEF Steps, OnSteps, OffSteps, OnMethods, OffMethods
<1>4. CASE call[a].method = "resume" /\ call[a].ok
  <2>1. Moves(a, "returned", call[a].method, call[a].via, TRUE, call[a].tries)
    BY <1>4, <1>1, <1>2, MovesOn
       DEF RenesasSettleOn, At, In, Goto, NoFault, Untouched, hardware, Return, Transfer, Renesas, Steps
  <2>2. /\ dss'.state = "ACTIVE" /\ drv'.enabled = drv.enabled /\ drv'.suspended = drv.suspended
        /\ vcc' = vcc /\ link' = link /\ chip' = chip
        /\ frame'.pending = TRUE /\ frame'.moving = TRUE /\ frame'.clk = frame.clk + 1
        /\ over' = over
        /\ dss'.activate = dss.activate
    BY <1>4, <1>1, <1>2
       DEF RenesasSettleOn, At, In, Goto, NoFault, Untouched, hardware, Return, Transfer, Renesas, Typed,
           HasVcc, Renesas
  <2>3. /\ UNCHANGED system
        /\ UNCHANGED <<faults, astray>>
    BY <1>4, <1>1
       DEF RenesasSettleOn, At, In, Goto, NoFault, Untouched, hardware, Return, Transfer, Renesas
  <2>4. Typed'
    <3>1. /\ dss' \in [state : States, activate : BOOLEAN]
          /\ drv' \in [enabled : BOOLEAN, suspended : BOOLEAN]
          /\ rails' \in BOOLEAN
      BY <1>4, <1>1, <1>2
         DEF RenesasSettleOn, At, In, Goto, NoFault, Untouched, hardware, Return, Transfer, Renesas,
             Typed, States
    <3>4. frame' \in [pending : BOOLEAN, moving : BOOLEAN, clk : Int]
      <4>1. frame \in [pending : BOOLEAN, moving : BOOLEAN, clk : Int]
        BY <1>2 DEF Typed
      <4>2. frame' = [pending |-> TRUE, moving |-> TRUE, clk |-> frame.clk + 1]
        BY <1>4, <1>1, <1>2
           DEF RenesasSettleOn, At, In, Goto, NoFault, Untouched, hardware, Return, Transfer, Renesas
      <4> QED
        BY <1>2, <4>1, <4>2
    <3>2. vcc' \in Nat /\ link' \in Nat /\ chip' \in BOOLEAN /\ over' \subseteq Resources
      BY <1>2, <2>2 DEF Typed, Resources
    <3> QED
      BY <1>2, <2>3, <3>1, <3>2, <3>4 DEF Typed, system
  <2>5. Apart' => Stage(a)'
    BY <1>4, <1>1, <1>2, <2>1, <2>2, <2>3
       DEF Moves, Stage, RenesasStage, RenesasDark, RenesasPower, Flowing, Still, Tianma, Samsung,
           Renesas, Active, Suspended, Disabled, Apart, Sound, Unmixed, Flawless, On, OnMethods,
           OffMethods, system
  <2>6. Held'
    BY <1>4, <1>1, <1>2, <2>2, <2>3
       DEF Held, Stage, RenesasStage, RenesasDark, RenesasPower, Flowing, Still, Tianma, Samsung,
           Renesas, Active, Suspended, Disabled, Apart, Sound, Unmixed, Flawless, On, OnMethods,
           OffMethods, system
  <2>7. RoundStep(a, "returned")
    BY <1>4, <1>1, <1>2, <2>2, <2>3 DEF RoundStep, Round, Role, Tianma, Samsung, Renesas, Active
  <2> QED
    BY <1>1, <2>1, <2>2, <2>3, <2>4, <2>5, <2>6, <2>7, Inside
       DEF Steps, OnSteps, OffSteps, OnMethods, OffMethods
<1>5. CASE call[a].method = "resume" /\ ~call[a].ok /\ ~(call[a].tries + 1 < WakeRetryCount)
  <2>1. Moves(a, "returned", call[a].method, call[a].via, TRUE, call[a].tries)
    BY <1>5, <1>1, <1>2, MovesOn
       DEF RenesasSettleOn, At, In, Goto, NoFault, Untouched, hardware, Return, Transfer, Renesas, Steps
  <2>2. /\ dss'.state = "ACTIVE" /\ drv'.enabled = drv.enabled /\ drv'.suspended = drv.suspended
        /\ vcc' = vcc /\ link' = link /\ chip' = chip
        /\ frame'.pending = TRUE /\ frame'.moving = TRUE /\ frame'.clk = frame.clk + 1
        /\ over' = over
        /\ dss'.activate = dss.activate
    BY <1>5, <1>1, <1>2
       DEF RenesasSettleOn, At, In, Goto, NoFault, Untouched, hardware, Return, Transfer, Renesas, Typed,
           HasVcc, Renesas
  <2>3. /\ UNCHANGED system
        /\ UNCHANGED <<faults, astray>>
    BY <1>5, <1>1
       DEF RenesasSettleOn, At, In, Goto, NoFault, Untouched, hardware, Return, Transfer, Renesas
  <2>4. Typed'
    <3>1. /\ dss' \in [state : States, activate : BOOLEAN]
          /\ drv' \in [enabled : BOOLEAN, suspended : BOOLEAN]
          /\ rails' \in BOOLEAN
      BY <1>5, <1>1, <1>2
         DEF RenesasSettleOn, At, In, Goto, NoFault, Untouched, hardware, Return, Transfer, Renesas,
             Typed, States
    <3>4. frame' \in [pending : BOOLEAN, moving : BOOLEAN, clk : Int]
      <4>1. frame \in [pending : BOOLEAN, moving : BOOLEAN, clk : Int]
        BY <1>2 DEF Typed
      <4>2. frame' = [pending |-> TRUE, moving |-> TRUE, clk |-> frame.clk + 1]
        BY <1>5, <1>1, <1>2
           DEF RenesasSettleOn, At, In, Goto, NoFault, Untouched, hardware, Return, Transfer, Renesas
      <4> QED
        BY <1>2, <4>1, <4>2
    <3>2. vcc' \in Nat /\ link' \in Nat /\ chip' \in BOOLEAN /\ over' \subseteq Resources
      BY <1>2, <2>2 DEF Typed, Resources
    <3> QED
      BY <1>2, <2>3, <3>1, <3>2, <3>4 DEF Typed, system
  <2>5. Apart' => Stage(a)'
    BY <1>5, <1>1, <1>2, <2>1, <2>2, <2>3, WakeRetryAssumption
       DEF Moves, Stage, RenesasStage, RenesasDark, RenesasPower, Flowing, Still, Tianma, Samsung,
           Renesas, Active, Suspended, Disabled, Apart, Sound, Unmixed, Flawless, On, OnMethods,
           OffMethods, system
  <2>6. Held'
    BY <1>5, <1>1, <1>2, <2>2, <2>3
       DEF Held, Stage, RenesasStage, RenesasDark, RenesasPower, Flowing, Still, Tianma, Samsung,
           Renesas, Active, Suspended, Disabled, Apart, Sound, Unmixed, Flawless, On, OnMethods,
           OffMethods, system
  <2>7. RoundStep(a, "returned")
    BY <1>5, <1>1, <1>2, <2>2, <2>3 DEF RoundStep, Round, Role, Tianma, Samsung, Renesas, Active
  <2> QED
    BY <1>1, <2>1, <2>2, <2>3, <2>4, <2>5, <2>6, <2>7, Inside
       DEF Steps, OnSteps, OffSteps, OnMethods, OffMethods
<1>6. CASE call[a].method = "enable" /\ call[a].ok
  <2>1. Moves(a, "returned", call[a].method, call[a].via, TRUE, call[a].tries)
    BY <1>6, <1>1, <1>2, MovesOn
       DEF RenesasSettleOn, At, In, Goto, NoFault, Untouched, hardware, Return, Transfer, Renesas, Steps
  <2>2. /\ dss'.state = "ACTIVE" /\ drv'.enabled = drv.enabled /\ drv'.suspended = drv.suspended
        /\ vcc' = vcc /\ link' = link /\ chip' = chip
        /\ frame'.pending = frame.pending /\ frame'.moving = frame.moving /\ frame'.clk = frame.clk
        /\ over' = over
        /\ dss'.activate = dss.activate
    BY <1>6, <1>1, <1>2
       DEF RenesasSettleOn, At, In, Goto, NoFault, Untouched, hardware, Return, Transfer, Renesas, Typed,
           HasVcc, Renesas
  <2>3. /\ UNCHANGED system
        /\ UNCHANGED <<faults, astray>>
    BY <1>6, <1>1
       DEF RenesasSettleOn, At, In, Goto, NoFault, Untouched, hardware, Return, Transfer, Renesas
  <2>4. Typed'
    <3>1. /\ dss' \in [state : States, activate : BOOLEAN]
          /\ drv' \in [enabled : BOOLEAN, suspended : BOOLEAN]
          /\ frame' \in [pending : BOOLEAN, moving : BOOLEAN, clk : Int]
          /\ rails' \in BOOLEAN
      BY <1>6, <1>1, <1>2
         DEF RenesasSettleOn, At, In, Goto, NoFault, Untouched, hardware, Return, Transfer, Renesas,
             Typed, States
    <3>2. vcc' \in Nat /\ link' \in Nat /\ chip' \in BOOLEAN /\ over' \subseteq Resources
      BY <1>2, <2>2 DEF Typed, Resources
    <3> QED
      BY <1>2, <2>3, <3>1, <3>2 DEF Typed, system
  <2>5. Apart' => Stage(a)'
    BY <1>6, <1>1, <1>2, <2>1, <2>2, <2>3
       DEF Moves, Stage, RenesasStage, RenesasDark, RenesasPower, Flowing, Still, Tianma, Samsung,
           Renesas, Active, Suspended, Disabled, Apart, Sound, Unmixed, Flawless, On, OnMethods,
           OffMethods, system
  <2>6. Held'
    BY <1>6, <1>1, <1>2, <2>2, <2>3
       DEF Held, Stage, RenesasStage, RenesasDark, RenesasPower, Flowing, Still, Tianma, Samsung,
           Renesas, Active, Suspended, Disabled, Apart, Sound, Unmixed, Flawless, On, OnMethods,
           OffMethods, system
  <2>7. RoundStep(a, "returned")
    BY <1>6, <1>1, <1>2, <2>2, <2>3 DEF RoundStep, Round, Role, Tianma, Samsung, Renesas, Active
  <2> QED
    BY <1>1, <2>1, <2>2, <2>3, <2>4, <2>5, <2>6, <2>7, Inside
       DEF Steps, OnSteps, OffSteps, OnMethods, OffMethods
<1>7. CASE call[a].method = "enable" /\ ~call[a].ok
  <2>1. Moves(a, "returned", call[a].method, call[a].via, FALSE, call[a].tries)
    BY <1>7, <1>1, <1>2, MovesOn
       DEF RenesasSettleOn, At, In, Goto, NoFault, Untouched, hardware, Return, Transfer, Renesas, Steps
  <2>2. /\ dss'.state = dss.state /\ drv'.enabled = drv.enabled /\ drv'.suspended = drv.suspended
        /\ vcc' = vcc /\ link' = link /\ chip' = chip
        /\ frame'.pending = frame.pending /\ frame'.moving = frame.moving /\ frame'.clk = frame.clk
        /\ over' = over
        /\ dss'.activate = dss.activate
    BY <1>7, <1>1, <1>2
       DEF RenesasSettleOn, At, In, Goto, NoFault, Untouched, hardware, Return, Transfer, Renesas, Typed,
           HasVcc, Renesas
  <2>3. /\ UNCHANGED system
        /\ UNCHANGED <<faults, astray>>
    BY <1>7, <1>1
       DEF RenesasSettleOn, At, In, Goto, NoFault, Untouched, hardware, Return, Transfer, Renesas
  <2>4. Typed'
    <3>1. /\ dss' \in [state : States, activate : BOOLEAN]
          /\ drv' \in [enabled : BOOLEAN, suspended : BOOLEAN]
          /\ frame' \in [pending : BOOLEAN, moving : BOOLEAN, clk : Int]
          /\ rails' \in BOOLEAN
      BY <1>7, <1>1, <1>2
         DEF RenesasSettleOn, At, In, Goto, NoFault, Untouched, hardware, Return, Transfer, Renesas,
             Typed, States
    <3>2. vcc' \in Nat /\ link' \in Nat /\ chip' \in BOOLEAN /\ over' \subseteq Resources
      BY <1>2, <2>2 DEF Typed, Resources
    <3> QED
      BY <1>2, <2>3, <3>1, <3>2 DEF Typed, system
  <2>5. Apart' => Stage(a)'
    BY <1>7, <1>1, <1>2, <2>1, <2>2, <2>3
       DEF Moves, Stage, RenesasStage, RenesasDark, RenesasPower, Flowing, Still, Tianma, Samsung,
           Renesas, Active, Suspended, Disabled, Apart, Sound, Unmixed, Flawless, On, OnMethods,
           OffMethods, system
  <2>6. Held'
    BY <1>7, <1>1, <1>2, <2>2, <2>3
       DEF Held, Stage, RenesasStage, RenesasDark, RenesasPower, Flowing, Still, Tianma, Samsung,
           Renesas, Active, Suspended, Disabled, Apart, Sound, Unmixed, Flawless, On, OnMethods,
           OffMethods, system
  <2>7. RoundStep(a, "returned")
    BY <1>7, <1>1, <1>2, <2>2, <2>3 DEF RoundStep, Round, Role, Tianma, Samsung, Renesas, Active
  <2> QED
    BY <1>1, <2>1, <2>2, <2>3, <2>4, <2>5, <2>6, <2>7, Inside
       DEF Steps, OnSteps, OffSteps, OnMethods, OffMethods
<1> QED
  BY <1>1, <1>3, <1>4, <1>5, <1>6, <1>7
     DEF RenesasSettleOn, At, In, Goto, NoFault, Untouched, hardware, Return, Transfer, Renesas

\* disable and suspend of the Renesas panel stop the frame and the RFBI first.
LEMMA RenesasPowerOffKeeps ==
    ASSUME IInv, NEW a \in Actors, RenesasPowerOff(a)
    PROVE  IInv'
<1>1. panel \in Renesas /\ call[a].pc = "start" /\ call[a].method \in {"disable", "suspend"}
  BY DEF RenesasPowerOff, At, In
<1>2. /\ TypeOK /\ Typed /\ Role(a) /\ Stage(a) /\ Held /\ Round
      /\ call[a].ok \in BOOLEAN /\ call[a].tries \in Nat
      /\ vcc \in Nat /\ link \in Nat /\ frame.clk \in Int
      /\ faults \in Nat /\ before.faults \in Nat /\ before.faults <= faults
  BY <1>1, Here
<1>3. CASE frame.pending
  <2>1. Moves(a, "chipOff", call[a].method, call[a].via, call[a].ok, call[a].tries)
    BY <1>3, <1>1, <1>2, MovesOn
       DEF RenesasPowerOff, At, In, Goto, NoFault, Untouched, hardware, FrameStopped, Steps
  <2>2. /\ dss'.state = dss.state /\ drv'.enabled = drv.enabled /\ drv'.suspended = drv.suspended
        /\ vcc' = vcc /\ link' = 0 /\ chip' = chip
        /\ frame'.pending = frame.pending /\ frame'.moving = FALSE
        /\ frame'.clk = frame.clk - 1
        /\ over' = (IF frame.clk <= 0 THEN over \cup {"clk"} ELSE over)
        /\ dss'.activate = dss.activate
    BY <1>3, <1>1, <1>2
       DEF RenesasPowerOff, At, In, Goto, NoFault, Untouched, hardware, FrameStopped, Typed,
           HasVcc, Renesas
  <2>3. /\ UNCHANGED system
        /\ UNCHANGED <<faults, astray>>
    BY <1>3, <1>1 DEF RenesasPowerOff, At, In, Goto, NoFault, Untouched, hardware, FrameStopped
  <2>4. Typed'
    <3>1. /\ dss' \in [state : States, activate : BOOLEAN]
          /\ drv' \in [enabled : BOOLEAN, suspended : BOOLEAN]
          /\ rails' \in BOOLEAN
      BY <1>3, <1>1, <1>2
         DEF RenesasPowerOff, At, In, Goto, NoFault, Untouched, hardware, FrameStopped, Typed,
             States
    <3>4. frame' \in [pending : BOOLEAN, moving : BOOLEAN, clk : Int]
      <4>1. frame \in [pending : BOOLEAN, moving : BOOLEAN, clk : Int]
        BY <1>2 DEF Typed
      <4>2. frame' = [frame EXCEPT !.moving = FALSE, !.clk = @ - 1]
        BY <1>3, <1>1, <1>2 DEF RenesasPowerOff, At, In, Goto, NoFault, Untouched, hardware, FrameStopped
      <4> QED
        BY <1>2, <4>1, <4>2, StoppedFrame
    <3>2. vcc' \in Nat /\ link' \in Nat /\ chip' \in BOOLEAN /\ over' \subseteq Resources
      BY <1>2, <2>2 DEF Typed, Resources
    <3> QED
      BY <1>2, <2>3, <3>1, <3>2, <3>4 DEF Typed, system
  <2>5. Apart' => Stage(a)'
    BY <1>3, <1>1, <1>2, <2>1, <2>2, <2>3
       DEF Moves, Stage, RenesasStage, RenesasDark, RenesasPower, Flowing, Still, Tianma, Samsung,
           Renesas, Active, Suspended, Disabled, Apart, Sound, Unmixed, Flawless, On, OnMethods,
           OffMethods, system
  <2>6. Held'
    BY <1>3, <1>1, <1>2, <2>2, <2>3
       DEF Held, Stage, RenesasStage, RenesasDark, RenesasPower, Flowing, Still, Tianma, Samsung,
           Renesas, Active, Suspended, Disabled, Apart, Sound, Unmixed, Flawless, On, OnMethods,
           OffMethods, system
  <2>7. RoundStep(a, "chipOff")
    BY <1>3, <1>1, <1>2, <2>2, <2>3 DEF RoundStep, Round, Role, Tianma, Samsung, Renesas, Active
  <2> QED
    BY <1>1, <2>1, <2>2, <2>3, <2>4, <2>5, <2>6, <2>7, Inside
       DEF Steps, OnSteps, OffSteps, OnMethods, OffMethods
<1>4. CASE ~frame.pending
  <2>1. Moves(a, "chipOff", call[a].method, call[a].via, call[a].ok, call[a].tries)
    BY <1>4, <1>1, <1>2, MovesOn
       DEF RenesasPowerOff, At, In, Goto, NoFault, Untouched, hardware, FrameStopped, Steps
  <2>2. /\ dss'.state = dss.state /\ drv'.enabled = drv.enabled /\ drv'.suspended = drv.suspended
        /\ vcc' = vcc /\ link' = 0 /\ chip' = chip
        /\ frame'.pending = frame.pending /\ frame'.moving = frame.moving /\ frame'.clk = frame.clk
        /\ over' = over
        /\ dss'.activate = dss.activate
    BY <1>4, <1>1, <1>2
       DEF RenesasPowerOff, At, In, Goto, NoFault, Untouched, hardware, FrameStopped, Typed,
           HasVcc, Renesas
  <2>3. /\ UNCHANGED system
        /\ UNCHANGED <<faults, astray>>
    BY <1>4, <1>1 DEF RenesasPowerOff, At, In, Goto, NoFault, Untouched, hardware, FrameStopped
  <2>4. Typed'
    <3>1. /\ dss' \in [state : States, activate : BOOLEAN]
          /\ drv' \in [enabled : BOOLEAN, suspended : BOOLEAN]
          /\ frame' \in [pending : BOOLEAN, moving : BOOLEAN, clk : Int]
          /\ rails' \in BOOLEAN
      BY <1>4, <1>1, <1>2
         DEF RenesasPowerOff, At, In, Goto, NoFault, Untouched, hardware, FrameStopped, Typed,
             States
    <3>2. vcc' \in Nat /\ link' \in Nat /\ chip' \in BOOLEAN /\ over' \subseteq Resources
      BY <1>2, <2>2 DEF Typed, Resources
    <3> QED
      BY <1>2, <2>3, <3>1, <3>2 DEF Typed, system
  <2>5. Apart' => Stage(a)'
    BY <1>4, <1>1, <1>2, <2>1, <2>2, <2>3
       DEF Moves, Stage, RenesasStage, RenesasDark, RenesasPower, Flowing, Still, Tianma, Samsung,
           Renesas, Active, Suspended, Disabled, Apart, Sound, Unmixed, Flawless, On, OnMethods,
           OffMethods, system
  <2>6. Held'
    BY <1>4, <1>1, <1>2, <2>2, <2>3
       DEF Held, Stage, RenesasStage, RenesasDark, RenesasPower, Flowing, Still, Tianma, Samsung,
           Renesas, Active, Suspended, Disabled, Apart, Sound, Unmixed, Flawless, On, OnMethods,
           OffMethods, system
  <2>7. RoundStep(a, "chipOff")
    BY <1>4, <1>1, <1>2, <2>2, <2>3 DEF RoundStep, Round, Role, Tianma, Samsung, Renesas, Active
  <2> QED
    BY <1>1, <2>1, <2>2, <2>3, <2>4, <2>5, <2>6, <2>7, Inside
       DEF Steps, OnSteps, OffSteps, OnMethods, OffMethods
<1> QED
  BY <1>1, <1>3, <1>4 DEF RenesasPowerOff, At, In, Goto, NoFault, Untouched, hardware, FrameStopped

\* The Renesas panel goes to sleep.
LEMMA RenesasChipOffKeeps ==
    ASSUME IInv, NEW a \in Actors, RenesasChipOff(a)
    PROVE  IInv'
<1>1. panel \in Renesas /\ call[a].pc = "chipOff" /\ call[a].method \in {"disable", "suspend"}
  <2>1. panel \in Renesas /\ call[a].pc = "chipOff"
    BY DEF RenesasChipOff, At
  <2> QED
    BY <2>1, Here DEF Role, OnMethods, OffMethods, OnSteps, OffSteps
<1>2. /\ TypeOK /\ Typed /\ Role(a) /\ Stage(a) /\ Held /\ Round
      /\ call[a].ok \in BOOLEAN /\ call[a].tries \in Nat
      /\ vcc \in Nat /\ link \in Nat /\ frame.clk \in Int
      /\ faults \in Nat /\ before.faults \in Nat /\ before.faults <= faults
  BY <1>1, Here
<1>3. CASE TRUE
  <2>1. Moves(a, "vccOff", call[a].method, call[a].via, call[a].ok, call[a].tries)
    BY <1>3, <1>1, <1>2, MovesOn DEF RenesasChipOff, At, In, Goto, NoFault, Untouched, hardware, Steps
  <2>2. /\ dss'.state = dss.state /\ drv'.enabled = drv.enabled /\ drv'.suspended = drv.suspended
        /\ vcc' = vcc /\ link' = link /\ chip' = FALSE
        /\ frame'.pending = frame.pending /\ frame'.moving = frame.moving /\ frame'.clk = frame.clk
        /\ over' = over
        /\ dss'.activate = dss.activate
    BY <1>3, <1>1, <1>2
       DEF RenesasChipOff, At, In, Goto, NoFault, Untouched, hardware, Typed, HasVcc, Renesas
  <2>3. /\ UNCHANGED system
        /\ UNCHANGED <<faults, astray>>
    BY <1>3, <1>1 DEF RenesasChipOff, At, In, Goto, NoFault, Untouched, hardware
  <2>4. Typed'
    <3>1. /\ dss' \in [state : States, activate : BOOLEAN]
          /\ drv' \in [enabled : BOOLEAN, suspended : BOOLEAN]
          /\ frame' \in [pending : BOOLEAN, moving : BOOLEAN, clk : Int]
          /\ rails' \in BOOLEAN
      BY <1>3, <1>1, <1>2 DEF RenesasChipOff, At, In, Goto, NoFault, Untouched, hardware, Typed, States
    <3>2. vcc' \in Nat /\ link' \in Nat /\ chip' \in BOOLEAN /\ over' \subseteq Resources
      BY <1>2, <2>2 DEF Typed, Resources
    <3> QED
      BY <1>2, <2>3, <3>1, <3>2 DEF Typed, system
  <2>5. Apart' => Stage(a)'
    BY <1>1, <1>2, <2>1, <2>2, <2>3
       DEF Moves, Stage, RenesasStage, RenesasDark, RenesasPower, Flowing, Still, Tianma, Samsung,
           Renesas, Active, Suspended, Disabled, Apart, Sound, Unmixed, Flawless, On, OnMethods,
           OffMethods, system
  <2>6. Held'
    BY <1>1, <1>2, <2>2, <2>3
       DEF Held, Stage, RenesasStage, RenesasDark, RenesasPower, Flowing, Still, Tianma, Samsung,
           Renesas, Active, Suspended, Disabled, Apart, Sound, Unmixed, Flawless, On, OnMethods,
           OffMethods, system
  <2>7. RoundStep(a, "vccOff")
    BY <1>3, <1>1, <1>2, <2>2, <2>3 DEF RoundStep, Round, Role, Tianma, Samsung, Renesas, Active
  <2> QED
    BY <1>1, <2>1, <2>2, <2>3, <2>4, <2>5, <2>6, <2>7, Inside
       DEF Steps, OnSteps, OffSteps, OnMethods, OffMethods
<1> QED
  BY <1>1, <1>3 DEF RenesasChipOff, At, In, Goto, NoFault, Untouched, hardware

\* The regulator of the Renesas panel goes off if the display is ACTIVE.
LEMMA RenesasVccOffKeeps ==
    ASSUME IInv, NEW a \in Actors, RenesasVccOff(a)
    PROVE  IInv'
<1>1. panel \in Renesas /\ call[a].pc = "vccOff" /\ call[a].method \in {"disable", "suspend"}
  <2>1. panel \in Renesas /\ call[a].pc = "vccOff"
    BY DEF RenesasVccOff, At
  <2> QED
    BY <2>1, Here DEF Role, OnMethods, OffMethods, OnSteps, OffSteps
<1>2. /\ TypeOK /\ Typed /\ Role(a) /\ Stage(a) /\ Held /\ Round
      /\ call[a].ok \in BOOLEAN /\ call[a].tries \in Nat
      /\ vcc \in Nat /\ link \in Nat /\ frame.clk \in Int
      /\ faults \in Nat /\ before.faults \in Nat /\ before.faults <= faults
  BY <1>1, Here
<1>3. CASE dss.state = "ACTIVE"
  <2>1. Moves(a, "settleOff", call[a].method, call[a].via, call[a].ok, call[a].tries)
    BY <1>3, <1>1, <1>2, MovesOn
       DEF RenesasVccOff, At, In, Goto, NoFault, Untouched, hardware, VccOff, Less, Steps
  <2>2. /\ dss'.state = dss.state /\ drv'.enabled = drv.enabled /\ drv'.suspended = drv.suspended
        /\ vcc' = (IF vcc = 0 THEN 0 ELSE vcc - 1) /\ link' = link /\ chip' = chip
        /\ frame'.pending = frame.pending /\ frame'.moving = frame.moving /\ frame'.clk = frame.clk
        /\ over' = (IF vcc = 0 THEN over \cup {"vcc"} ELSE over)
        /\ dss'.activate = dss.activate
    BY <1>3, <1>1, <1>2
       DEF RenesasVccOff, At, In, Goto, NoFault, Untouched, hardware, VccOff, Less, Typed, HasVcc,
           Renesas
  <2>3. /\ UNCHANGED system
        /\ UNCHANGED <<faults, astray>>
    BY <1>3, <1>1 DEF RenesasVccOff, At, In, Goto, NoFault, Untouched, hardware, VccOff, Less
  <2>4. Typed'
    <3>1. /\ dss' \in [state : States, activate : BOOLEAN]
          /\ drv' \in [enabled : BOOLEAN, suspended : BOOLEAN]
          /\ frame' \in [pending : BOOLEAN, moving : BOOLEAN, clk : Int]
          /\ rails' \in BOOLEAN
      BY <1>3, <1>1, <1>2
         DEF RenesasVccOff, At, In, Goto, NoFault, Untouched, hardware, VccOff, Less, Typed, States
    <3>2. vcc' \in Nat /\ link' \in Nat /\ chip' \in BOOLEAN /\ over' \subseteq Resources
      BY <1>2, <2>2 DEF Typed, Resources
    <3> QED
      BY <1>2, <2>3, <3>1, <3>2 DEF Typed, system
  <2>5. Apart' => Stage(a)'
    BY <1>3, <1>1, <1>2, <2>1, <2>2, <2>3
       DEF Moves, Stage, RenesasStage, RenesasDark, RenesasPower, Flowing, Still, Tianma, Samsung,
           Renesas, Active, Suspended, Disabled, Apart, Sound, Unmixed, Flawless, On, OnMethods,
           OffMethods, system
  <2>6. Held'
    BY <1>3, <1>1, <1>2, <2>2, <2>3
       DEF Held, Stage, RenesasStage, RenesasDark, RenesasPower, Flowing, Still, Tianma, Samsung,
           Renesas, Active, Suspended, Disabled, Apart, Sound, Unmixed, Flawless, On, OnMethods,
           OffMethods, system
  <2>7. RoundStep(a, "settleOff")
    BY <1>3, <1>1, <1>2, <2>2, <2>3 DEF RoundStep, Round, Role, Tianma, Samsung, Renesas, Active
  <2> QED
    BY <1>1, <2>1, <2>2, <2>3, <2>4, <2>5, <2>6, <2>7, Inside
       DEF Steps, OnSteps, OffSteps, OnMethods, OffMethods
<1>4. CASE dss.state # "ACTIVE"
  <2>1. Moves(a, "settleOff", call[a].method, call[a].via, call[a].ok, call[a].tries)
    BY <1>4, <1>1, <1>2, MovesOn
       DEF RenesasVccOff, At, In, Goto, NoFault, Untouched, hardware, VccOff, Less, Steps
  <2>2. /\ dss'.state = dss.state /\ drv'.enabled = drv.enabled /\ drv'.suspended = drv.suspended
        /\ vcc' = vcc /\ link' = link /\ chip' = chip
        /\ frame'.pending = frame.pending /\ frame'.moving = frame.moving /\ frame'.clk = frame.clk
        /\ over' = over
        /\ dss'.activate = dss.activate
    BY <1>4, <1>1, <1>2
       DEF RenesasVccOff, At, In, Goto, NoFault, Untouched, hardware, VccOff, Less, Typed, HasVcc,
           Renesas
  <2>3. /\ UNCHANGED system
        /\ UNCHANGED <<faults, astray>>
    BY <1>4, <1>1 DEF RenesasVccOff, At, In, Goto, NoFault, Untouched, hardware, VccOff, Less
  <2>4. Typed'
    <3>1. /\ dss' \in [state : States, activate : BOOLEAN]
          /\ drv' \in [enabled : BOOLEAN, suspended : BOOLEAN]
          /\ frame' \in [pending : BOOLEAN, moving : BOOLEAN, clk : Int]
          /\ rails' \in BOOLEAN
      BY <1>4, <1>1, <1>2
         DEF RenesasVccOff, At, In, Goto, NoFault, Untouched, hardware, VccOff, Less, Typed, States
    <3>2. vcc' \in Nat /\ link' \in Nat /\ chip' \in BOOLEAN /\ over' \subseteq Resources
      BY <1>2, <2>2 DEF Typed, Resources
    <3> QED
      BY <1>2, <2>3, <3>1, <3>2 DEF Typed, system
  <2>5. Apart' => Stage(a)'
    BY <1>4, <1>1, <1>2, <2>1, <2>2, <2>3
       DEF Moves, Stage, RenesasStage, RenesasDark, RenesasPower, Flowing, Still, Tianma, Samsung,
           Renesas, Active, Suspended, Disabled, Apart, Sound, Unmixed, Flawless, On, OnMethods,
           OffMethods, system
  <2>6. Held'
    BY <1>4, <1>1, <1>2, <2>2, <2>3
       DEF Held, Stage, RenesasStage, RenesasDark, RenesasPower, Flowing, Still, Tianma, Samsung,
           Renesas, Active, Suspended, Disabled, Apart, Sound, Unmixed, Flawless, On, OnMethods,
           OffMethods, system
  <2>7. RoundStep(a, "settleOff")
    BY <1>4, <1>1, <1>2, <2>2, <2>3 DEF RoundStep, Round, Role, Tianma, Samsung, Renesas, Active
  <2> QED
    BY <1>1, <2>1, <2>2, <2>3, <2>4, <2>5, <2>6, <2>7, Inside
       DEF Steps, OnSteps, OffSteps, OnMethods, OffMethods
<1> QED
  BY <1>1, <1>3, <1>4 DEF RenesasVccOff, At, In, Goto, NoFault, Untouched, hardware, VccOff, Less

\* The state of the Renesas panel follows the method.
LEMMA RenesasSettleOffKeeps ==
    ASSUME IInv, NEW a \in Actors, RenesasSettleOff(a)
    PROVE  IInv'
<1>1. panel \in Renesas /\ call[a].pc = "settleOff" /\ call[a].method \in {"disable", "suspend"}
  <2>1. panel \in Renesas /\ call[a].pc = "settleOff"
    BY DEF RenesasSettleOff, At
  <2> QED
    BY <2>1, Here DEF Role, OnMethods, OffMethods, OnSteps, OffSteps
<1>2. /\ TypeOK /\ Typed /\ Role(a) /\ Stage(a) /\ Held /\ Round
      /\ call[a].ok \in BOOLEAN /\ call[a].tries \in Nat
      /\ vcc \in Nat /\ link \in Nat /\ frame.clk \in Int
      /\ faults \in Nat /\ before.faults \in Nat /\ before.faults <= faults
  BY <1>1, Here
<1>3. CASE call[a].method = "disable"
  <2>1. Moves(a, "returned", call[a].method, call[a].via, TRUE, call[a].tries)
    BY <1>3, <1>1, <1>2, MovesOn
       DEF RenesasSettleOff, At, In, Goto, NoFault, Untouched, hardware, Return, Steps
  <2>2. /\ dss'.state = "DISABLED" /\ drv'.enabled = drv.enabled /\ drv'.suspended = drv.suspended
        /\ vcc' = vcc /\ link' = link /\ chip' = chip
        /\ frame'.pending = frame.pending /\ frame'.moving = frame.moving /\ frame'.clk = frame.clk
        /\ over' = over
        /\ dss'.activate = dss.activate
    BY <1>3, <1>1, <1>2
       DEF RenesasSettleOff, At, In, Goto, NoFault, Untouched, hardware, Return, Typed, HasVcc, Renesas
  <2>3. /\ UNCHANGED system
        /\ UNCHANGED <<faults, astray>>
    BY <1>3, <1>1 DEF RenesasSettleOff, At, In, Goto, NoFault, Untouched, hardware, Return
  <2>4. Typed'
    <3>1. /\ dss' \in [state : States, activate : BOOLEAN]
          /\ drv' \in [enabled : BOOLEAN, suspended : BOOLEAN]
          /\ frame' \in [pending : BOOLEAN, moving : BOOLEAN, clk : Int]
          /\ rails' \in BOOLEAN
      BY <1>3, <1>1, <1>2
         DEF RenesasSettleOff, At, In, Goto, NoFault, Untouched, hardware, Return, Typed, States
    <3>2. vcc' \in Nat /\ link' \in Nat /\ chip' \in BOOLEAN /\ over' \subseteq Resources
      BY <1>2, <2>2 DEF Typed, Resources
    <3> QED
      BY <1>2, <2>3, <3>1, <3>2 DEF Typed, system
  <2>5. Apart' => Stage(a)'
    BY <1>3, <1>1, <1>2, <2>1, <2>2, <2>3
       DEF Moves, Stage, RenesasStage, RenesasDark, RenesasPower, Flowing, Still, Tianma, Samsung,
           Renesas, Active, Suspended, Disabled, Apart, Sound, Unmixed, Flawless, On, OnMethods,
           OffMethods, system
  <2>6. Held'
    BY <1>3, <1>1, <1>2, <2>2, <2>3
       DEF Held, Stage, RenesasStage, RenesasDark, RenesasPower, Flowing, Still, Tianma, Samsung,
           Renesas, Active, Suspended, Disabled, Apart, Sound, Unmixed, Flawless, On, OnMethods,
           OffMethods, system
  <2>7. RoundStep(a, "returned")
    BY <1>3, <1>1, <1>2, <2>2, <2>3 DEF RoundStep, Round, Role, Tianma, Samsung, Renesas, Active
  <2> QED
    BY <1>1, <2>1, <2>2, <2>3, <2>4, <2>5, <2>6, <2>7, Inside
       DEF Steps, OnSteps, OffSteps, OnMethods, OffMethods
<1>4. CASE call[a].method = "suspend"
  <2>1. Moves(a, "returned", call[a].method, call[a].via, TRUE, call[a].tries)
    BY <1>4, <1>1, <1>2, MovesOn
       DEF RenesasSettleOff, At, In, Goto, NoFault, Untouched, hardware, Return, Steps
  <2>2. /\ dss'.state = "SUSPENDED" /\ drv'.enabled = drv.enabled /\ drv'.suspended = drv.suspended
        /\ vcc' = vcc /\ link' = link /\ chip' = chip
        /\ frame'.pending = frame.pending /\ frame'.moving = frame.moving /\ frame'.clk = frame.clk
        /\ over' = over
        /\ dss'.activate = dss.activate
    BY <1>4, <1>1, <1>2
       DEF RenesasSettleOff, At, In, Goto, NoFault, Untouched, hardware, Return, Typed, HasVcc, Renesas
  <2>3. /\ UNCHANGED system
        /\ UNCHANGED <<faults, astray>>
    BY <1>4, <1>1 DEF RenesasSettleOff, At, In, Goto, NoFault, Untouched, hardware, Return
  <2>4. Typed'
    <3>1. /\ dss' \in [state : States, activate : BOOLEAN]
          /\ drv' \in [enabled : BOOLEAN, suspended : BOOLEAN]
          /\ frame' \in [pending : BOOLEAN, moving : BOOLEAN, clk : Int]
          /\ rails' \in BOOLEAN
      BY <1>4, <1>1, <1>2
         DEF RenesasSettleOff, At, In, Goto, NoFault, Untouched, hardware, Return, Typed, States
    <3>2. vcc' \in Nat /\ link' \in Nat /\ chip' \in BOOLEAN /\ over' \subseteq Resources
      BY <1>2, <2>2 DEF Typed, Resources
    <3> QED
      BY <1>2, <2>3, <3>1, <3>2 DEF Typed, system
  <2>5. Apart' => Stage(a)'
    BY <1>4, <1>1, <1>2, <2>1, <2>2, <2>3
       DEF Moves, Stage, RenesasStage, RenesasDark, RenesasPower, Flowing, Still, Tianma, Samsung,
           Renesas, Active, Suspended, Disabled, Apart, Sound, Unmixed, Flawless, On, OnMethods,
           OffMethods, system
  <2>6. Held'
    BY <1>4, <1>1, <1>2, <2>2, <2>3
       DEF Held, Stage, RenesasStage, RenesasDark, RenesasPower, Flowing, Still, Tianma, Samsung,
           Renesas, Active, Suspended, Disabled, Apart, Sound, Unmixed, Flawless, On, OnMethods,
           OffMethods, system
  <2>7. RoundStep(a, "returned")
    BY <1>4, <1>1, <1>2, <2>2, <2>3 DEF RoundStep, Round, Role, Tianma, Samsung, Renesas, Active
  <2> QED
    BY <1>1, <2>1, <2>2, <2>3, <2>4, <2>5, <2>6, <2>7, Inside
       DEF Steps, OnSteps, OffSteps, OnMethods, OffMethods
<1> QED
  BY <1>1, <1>3, <1>4 DEF RenesasSettleOff, At, In, Goto, NoFault, Untouched, hardware, Return

-----------------------------------------------------------------------------

\* What the display must be like for a method to be called.
Entry(m) ==
    /\ m = "enable" => Disabled /\ (astray' = {} => fb = "none")
    /\ m = "disable" => ~Disabled /\ (Unmixed' => ~Suspended)
    /\ m = "suspend" => Active
    /\ m = "resume" =>
           /\ panel \in Tianma /\ Unmixed => Suspended
           /\ panel \in Samsung /\ Flawless => Suspended
           /\ panel \in Renesas /\ Apart => Suspended
    /\ m # "enable" => fb # "none"

\* A method begins where the one before has left the display.
LEMMA Starts ==
    ASSUME Typed, Rest, NEW a, NEW m \in OnMethods \cup OffMethods,
           call'[a].pc = "start", call'[a].method = m, call'[a].ok = TRUE, call'[a].tries = 0,
           call'[a].via # "free",
           UNCHANGED <<panel, dss, drv, hardware, fb, faults>>, astray \subseteq astray',
           Entry(m)
    PROVE  Stage(a)'
<1>1. UNCHANGED <<vcc, link, chip, frame>>
  BY DEF hardware
<1>2. /\ Apart' => Apart
      /\ Sound' => Sound
      /\ Unmixed' => Unmixed
      /\ Flawless' => Flawless
      /\ astray' = {} => astray = {} /\ Unmixed'
  BY DEF Apart, Sound, Unmixed, Flawless
<1>3. m \in {"enable", "disable", "suspend", "resume"}
  BY DEF OnMethods, OffMethods
<1>4. dss.state \in States /\ vcc \in Nat /\ link \in Nat /\ faults \in Nat
  BY DssAssumption DEF Typed
<1>5. CASE panel \in Tianma
  <2>1. TianmaStage("start", m)'
    BY <1>1, <1>2, <1>3, <1>4, <1>5 DEF TianmaStage, Rest, TianmaRest, TianmaDark, TianmaPower, Entry,
       Tianma, Samsung, Renesas, Active, Suspended, Disabled, States, OnMethods, OffMethods, On,
       Flawless, Unmixed, Sound
  <2> QED
    BY <1>5, <2>1 DEF Stage, Tianma, Samsung, Renesas
<1>6. CASE panel \in Samsung
  <2>1. SamsungStage("start", m, TRUE)'
    BY <1>1, <1>2, <1>3, <1>4, <1>6 DEF SamsungStage, Rest, SamsungRest, SamsungDark, SamsungPower,
       SamsungFlags, Entry, Tianma, Samsung, Renesas, Active, Suspended, Disabled, States, OnMethods,
       OffMethods, On, HasVcc, Flawless, Unmixed, Sound
  <2> QED
    BY <1>6, <2>1 DEF Stage, Tianma, Samsung, Renesas
<1>7. CASE panel \in Renesas
  <2>1. RenesasStage("start", m, call[a].via, TRUE, 0)'
    BY <1>1, <1>2, <1>3, <1>4, <1>7 DEF RenesasStage, Rest, RenesasRest, RenesasDark, RenesasPower,
       Flowing, Still, Entry, Tianma, Samsung, Renesas, Active, Suspended, Disabled, States, OnMethods,
       OffMethods, On, Flawless, Unmixed, Sound
  <2> QED
    BY <1>7, <2>1 DEF Stage, Tianma, Samsung, Renesas
<1> QED
  BY <1>5, <1>6, <1>7 DEF Typed, Panels, Tianma, Samsung, Renesas

\* What is held does not depend on who calls.
LEMMA HeldOn ==
    ASSUME Held, UNCHANGED <<panel, over, frame, link, fb>>, astray \subseteq astray'
    PROVE  Held'
<1>1. /\ Sound' => Sound
      /\ Flawless' => Flawless
      /\ astray' = {} => astray = {}
  BY DEF Apart, Sound, Flawless
<1> QED
  BY <1>1 DEF Held, Still

\* Entering a method.
LEMMA EnterMoves ==
    ASSUME TypeOK, NEW a \in Actors, NEW m \in Methods, NEW v \in Vias, Enter(a, m, v)
    PROVE  Moves(a, "start", m, v, TRUE, 0)
<1> DEFINE c == [Idle EXCEPT !.pc = "start", !.method = m, !.via = v]
<1>1. Idle \in Calls /\ Idle.ok = TRUE /\ Idle.tries = 0
  BY DEF Idle, Calls, Steps, Methods, Vias
<1>2. /\ c \in Calls /\ c.pc = "start" /\ c.method = m /\ c.via = v
      /\ c.ok = Idle.ok /\ c.tries = Idle.tries
  BY <1>1 DEF Calls, Steps
<1>3. call' = [call EXCEPT ![a] = c]
  BY DEF Enter
<1> HIDE DEF c
<1>4. Moves(a, c.pc, c.method, c.via, c.ok, c.tries)
  BY <1>2, <1>3, MovesTo
<1> QED
  BY <1>1, <1>2, <1>4

\* Leaving a method.
LEMMA LeaveMoves ==
    ASSUME TypeOK, NEW a \in Actors, call' = [call EXCEPT ![a] = Idle]
    PROVE  Moves(a, "idle", "none", "none", TRUE, 0)
<1>1. Idle \in Calls
  BY DEF Calls, Steps, Methods, Vias, Idle
<1>2. Moves(a, Idle.pc, Idle.method, Idle.via, Idle.ok, Idle.tries)
  BY <1>1, MovesTo
<1> QED
  BY <1>2 DEF Idle

\* A task enters a method.
LEMMA TaskEnters ==
    ASSUME IInv, NEW t \in Tasks, NEW m, NEW v, MayCall(t), Enter(t, m, v),
           \/ v = "store" /\ m \in {"enable", "disable"}
           \/ v = "blank" /\ m \in {"suspend", "resume"},
           UNCHANGED <<panel, dss, drv, hardware, fb, asleep, faults, before>>,
           fblock' \subseteq Tasks,
           astray \subseteq astray', Entangled(t) \subseteq astray',
           astray' \subseteq {"fault", "overlap", "blanked", "reenabled", "redrawn"},
           Entry(m)
    PROVE  IInv'
<1>1. TypeOK /\ Typed
  BY Types DEF IInv
<1>2. t \in Actors /\ t # Kernel /\ Kernel \in Actors /\ \A x \in Tasks : x \in Actors
  BY DssAssumption DEF Actors
<1>3. m \in Methods /\ v \in Vias /\ m \in OnMethods \cup OffMethods
  BY DEF Methods, Vias, OnMethods, OffMethods
<1>4. Moves(t, "start", m, v, TRUE, 0)
  BY <1>1, <1>2, <1>3, EnterMoves
<1>5. call[Kernel].pc = "idle" /\ ~asleep /\ fb # "none" /\ call[t].pc = "idle" /\ calls' \in 0..MaxCalls
  BY <1>1, DssAssumption DEF MayCall, Begin, Typed
<1>6. Typed'
  BY <1>1, <1>5 DEF Typed, hardware
<1>7. TypeOK'
  BY <1>4, <1>6 DEF TypeOK, Typed, Moves, Calls, Steps, Methods, Vias
<1>8. Apart' => \A b \in Actors : b # t => call[b].pc = "idle" /\ call'[b].pc = "idle"
  <2>1. Apart' => Busy \ {t} = {}
    BY DEF Entangled, Apart
  <2> QED
    BY <2>1, <1>4 DEF Busy, Moves
<1>9. \A b \in Actors : call'[b].pc # "idle" => Role(b)'
  <2> SUFFICES ASSUME NEW b \in Actors, call'[b].pc # "idle" PROVE Role(b)'
    OBVIOUS
  <2>1. CASE b = t
    BY <1>2, <1>4, <2>1 DEF Role, Moves, OnSteps, OffSteps
  <2>2. CASE b # t
    BY <1>4, <2>2 DEF Role, Moves, IInv
  <2> QED
    BY <2>1, <2>2
<1>10. Turns'
  BY <1>2, <1>4, <1>5, <1>8 DEF Turns, Moves
<1>11. Round' /\ Sleeping'
  BY <1>2, <1>4, <1>5 DEF Round, Sleeping, Moves, IInv
<1>12. Held'
  BY HeldOn DEF IInv, hardware
<1>13. ~Quiet'
  BY <1>2, <1>4 DEF Quiet, Busy, Moves
<1>14. Apart' => Stage(t)'
  <2> SUFFICES ASSUME Apart' PROVE Stage(t)'
    OBVIOUS
  <2>1. Quiet
    BY <1>5, <1>8 DEF Quiet, Busy
  <2>2. Rest
    BY <2>1 DEF IInv
  <2>3. v # "free"
    OBVIOUS
  <2> QED
    BY <1>1, <1>3, <1>4, <2>2, <2>3, Starts DEF Moves
<1>15. \A b \in Actors : call'[b].pc # "idle" => Stage(b)'
  BY <1>8, <1>14, Overlapped
<1> QED
  BY <1>7, <1>9, <1>10, <1>11, <1>12, <1>13, <1>15 DEF IInv, Boot

\* display_enabled_store.
LEMMA DisplayEnabledStoreKeeps ==
    ASSUME IInv, NEW t \in Tasks, NEW value \in BOOLEAN, DisplayEnabledStore(t, value)
    PROVE  IInv'
<1>1. TypeOK /\ Typed
  BY Types DEF IInv
<1>2. /\ MayCall(t)
      /\ UNCHANGED <<panel, dss, drv, hardware, fb, asleep, faults, before>> /\ fblock' \subseteq Tasks
      /\ astray \subseteq astray' /\ Entangled(t) \subseteq astray'
  BY <1>1 DEF DisplayEnabledStore, Typed
<1>3. astray' \subseteq {"fault", "overlap", "blanked", "reenabled", "redrawn"}
  BY <1>1 DEF DisplayEnabledStore, Typed, Entangled
<1>4. fb # "none"
  BY <1>2 DEF MayCall
<1>5. CASE value
  <2>1. Enter(t, "enable", "store")
    BY <1>5 DEF DisplayEnabledStore
  <2>2. Entry("enable")
    BY <1>5 DEF DisplayEnabledStore, Entry, Disabled
  <2> QED
    BY <1>2, <1>3, <2>1, <2>2, TaskEnters
<1>6. CASE ~value
  <2>1. Enter(t, "disable", "store")
    BY <1>6 DEF DisplayEnabledStore
  <2>2. ~Disabled /\ (Suspended => "blanked" \in astray')
    BY <1>6 DEF DisplayEnabledStore, Disabled, Suspended
  <2>3. Entry("disable")
    BY <1>4, <2>2 DEF Entry, Unmixed
  <2> QED
    BY <1>2, <1>3, <2>1, <2>3, TaskEnters
<1> QED
  BY <1>5, <1>6

\* omapfb_blank.
LEMMA OmapfbBlankKeeps ==
    ASSUME IInv, NEW t \in Tasks, NEW unblank \in BOOLEAN, OmapfbBlank(t, unblank)
    PROVE  IInv'
<1>1. TypeOK /\ Typed
  BY Types DEF IInv
<1>2. /\ MayCall(t) /\ fb = "up"
      /\ UNCHANGED <<panel, dss, drv, hardware, fb, asleep, faults, before>> /\ fblock' \subseteq Tasks
      /\ astray \subseteq astray' /\ Entangled(t) \subseteq astray'
  BY <1>1 DEF OmapfbBlank, Typed
<1>3. astray' \subseteq {"fault", "overlap", "blanked", "reenabled", "redrawn"}
  BY <1>1 DEF OmapfbBlank, Typed, Entangled
<1>4. CASE unblank
  <2>1. Enter(t, "resume", "blank") /\ Suspended
    BY <1>4 DEF OmapfbBlank, Suspended
  <2>2. Entry("resume")
    BY <1>2, <2>1 DEF Entry
  <2> QED
    BY <1>2, <1>3, <2>1, <2>2, TaskEnters
<1>5. CASE ~unblank
  <2>1. Enter(t, "suspend", "blank") /\ Active
    BY <1>5 DEF OmapfbBlank, Active
  <2>2. Entry("suspend")
    BY <1>2, <2>1 DEF Entry
  <2> QED
    BY <1>2, <1>3, <2>1, <2>2, TaskEnters
<1> QED
  BY <1>4, <1>5

\* The kernel enters a method while nobody is inside one.
LEMMA KernelEnters ==
    ASSUME IInv, Quiet, NEW m, NEW v, Enter(Kernel, m, v),
           \/ v = "probe" /\ m = "enable" /\ fb = "none"
           \/ v = "sleep" /\ m = "suspend" /\ fb # "none" /\ ~asleep /\ before'.state = "ACTIVE"
           \/ v = "wake" /\ m = "resume" /\ asleep /\ dss.activate /\ before' = before,
           UNCHANGED <<panel, dss, drv, hardware, fb, fblock, asleep, faults, astray>>,
           calls' \in 0..MaxCalls, before' \in [state : States, faults : 0..MaxFaults],
           before'.faults <= faults,
           Entry(m)
    PROVE  IInv'
<1>1. TypeOK /\ Typed
  BY Types DEF IInv
<1>2. Kernel \in Actors /\ \A x \in Tasks : x \in Actors /\ x # Kernel
  BY DssAssumption DEF Actors
<1>3. m \in Methods /\ v \in Vias /\ m \in OnMethods \cup OffMethods
  BY DEF Methods, Vias, OnMethods, OffMethods
<1>4. Moves(Kernel, "start", m, v, TRUE, 0)
  BY <1>1, <1>2, <1>3, EnterMoves
<1>5. \A b \in Actors : call[b].pc = "idle" /\ (b # Kernel => call'[b].pc = "idle")
  BY <1>4 DEF Quiet, Busy, Moves
<1>6. Typed'
  BY <1>1 DEF Typed, hardware
<1>7. TypeOK'
  BY <1>4, <1>6 DEF TypeOK, Typed, Moves, Calls, Steps, Methods, Vias
<1>8. \A b \in Actors : call'[b].pc # "idle" => Role(b)'
  BY <1>4, <1>5 DEF Role, Moves, OnSteps, OffSteps, OnMethods, OffMethods
<1>9. asleep => fb # "none"
  BY DEF IInv, Turns
<1>10. call'[Kernel].pc = "start" /\ call'[Kernel].via = v
  BY <1>4 DEF Moves
<1>11. Turns'
  BY <1>2, <1>5, <1>9, <1>10 DEF Turns
<1>12. Round'
  BY <1>2, <1>5, <1>9, <1>10 DEF Round, IInv
<1>13. Sleeping'
  BY <1>10 DEF Sleeping
<1>14. Held'
  BY HeldOn DEF IInv, hardware
<1>15. ~Quiet'
  BY <1>2, <1>10 DEF Quiet, Busy
<1>16. Stage(Kernel)'
  <2>1. Rest
    BY DEF IInv
  <2>2. v # "free"
    OBVIOUS
  <2> QED
    BY <1>1, <1>3, <1>4, <2>1, <2>2, Starts DEF Moves
<1>17. \A b \in Actors : call'[b].pc # "idle" => Stage(b)'
  BY <1>5, <1>16
<1> QED
  BY <1>7, <1>8, <1>11, <1>12, <1>13, <1>14, <1>15, <1>17 DEF IInv, Boot

\* omapfb_probe finds the display DISABLED.
LEMMA OmapfbProbeKeeps ==
    ASSUME IInv, OmapfbProbe
    PROVE  IInv'
<1>1. /\ fb = "none" /\ Quiet /\ Enter(Kernel, "enable", "probe")
      /\ UNCHANGED <<panel, dss, drv, hardware, fb, fblock, asleep, faults, astray, calls, before>>
  BY DEF OmapfbProbe, system
<1>2. Typed /\ before.faults <= faults /\ Disabled
  BY <1>1, Types DEF IInv, Round, Boot
<1>3. Entry("enable")
  BY <1>1, <1>2 DEF Entry
<1>4. /\ calls' \in 0..MaxCalls /\ before' \in [state : States, faults : 0..MaxFaults]
      /\ before'.faults <= faults
  BY <1>1, <1>2 DEF Typed
<1> QED
  BY <1>1, <1>3, <1>4, KernelEnters

\* dss_suspend_device.
LEMMA DssSuspendDeviceKeeps ==
    ASSUME IInv, DssSuspendDevice
    PROVE  IInv'
<1>1. /\ fb # "none" /\ Quiet /\ ~asleep /\ calls' = calls + 1 /\ calls < MaxCalls
      /\ before' = [state |-> dss.state, faults |-> faults]
      /\ UNCHANGED <<panel, drv, hardware, fb, fblock, faults, astray>>
  BY DEF DssSuspendDevice, Begin
<1>2. TypeOK /\ Typed /\ call \in [Actors -> Calls]
  BY Types DEF IInv
<1>3. /\ calls' \in 0..MaxCalls /\ before' \in [state : States, faults : 0..MaxFaults]
      /\ before'.faults = faults /\ before'.state = dss.state /\ before'.faults <= faults
  <2>1. dss.state \in States /\ faults \in 0..MaxFaults /\ calls \in 0..MaxCalls
    BY <1>2 DEF Typed
  <2> QED
    BY <1>1, <2>1, DssAssumption
<1>4. CASE dss.state = "ACTIVE"
  <2>1. Enter(Kernel, "suspend", "sleep") /\ UNCHANGED <<dss, asleep>>
    BY <1>4 DEF DssSuspendDevice
  <2>2. Entry("suspend")
    BY <1>1, <1>4 DEF Entry, Active
  <2> QED
    BY <1>1, <1>3, <1>4, <2>1, <2>2, KernelEnters
<1>5. CASE dss.state # "ACTIVE"
  <2>1. dss' = [dss EXCEPT !.activate = FALSE] /\ asleep' = TRUE /\ UNCHANGED call
    BY <1>5 DEF DssSuspendDevice
  <2>2. dss' \in [state : States, activate : BOOLEAN] /\ dss'.state = dss.state /\ dss'.activate = FALSE
    BY <1>2, <2>1 DEF Typed
  <2>3. Typed'
    BY <1>1, <1>2, <1>3, <2>1, <2>2 DEF Typed, hardware
  <2>4. TypeOK'
    BY <1>2, <2>1, <2>3 DEF TypeOK, Typed, Calls, Steps, Methods, Vias
  <2>5. Kernel \in Actors /\ \A b \in Actors : call'[b].pc = "idle"
    BY <1>1, <2>1 DEF Quiet, Busy, Actors
  <2>6. Turns' /\ Round' /\ Sleeping'
    <3>1. Turns'
      BY <1>1, <2>1, <2>5 DEF Turns, Actors
    <3>2. Round'
      BY <1>1, <1>3, <1>5, <2>1, <2>2, <2>5 DEF Round
    <3>3. Sleeping'
      BY <1>5, <2>2, <2>5 DEF Sleeping, Active
    <3> QED
      BY <3>1, <3>2, <3>3
  <2>7. Held' /\ Boot'
    BY <1>1, HeldOn DEF IInv, hardware, Boot
  <2>8. Rest'
    <3>1. Rest
      BY <1>1 DEF IInv
    <3>2. UNCHANGED <<vcc, link, chip, frame>>
      BY <1>1 DEF hardware
    <3> QED
      BY <1>1, <2>2, <3>1, <3>2 DEF Rest, TianmaRest, TianmaDark, TianmaPower, SamsungRest, SamsungDark,
         SamsungPower, SamsungFlags, RenesasRest, RenesasDark, RenesasPower, Flowing, On, Active,
         Suspended, Disabled, Apart, Sound, Unmixed, Flawless, HasVcc
  <2> QED
    BY <2>4, <2>5, <2>6, <2>7, <2>8 DEF IInv
<1> QED
  BY <1>4, <1>5

\* dss_resume_device.
LEMMA DssResumeDeviceKeeps ==
    ASSUME IInv, DssResumeDevice
    PROVE  IInv'
<1>1. /\ asleep /\ Quiet
      /\ UNCHANGED <<panel, dss, drv, hardware, fb, fblock, calls, faults, astray, before>>
  BY DEF DssResumeDevice
<1>2. TypeOK /\ Typed /\ call \in [Actors -> Calls]
  BY Types DEF IInv
<1>3. Kernel \in Actors /\ \A b \in Actors : call[b].pc = "idle"
  BY <1>1 DEF Quiet, Busy, Actors
<1>4. fb # "none" /\ before.faults <= faults
  BY <1>1 DEF IInv, Turns, Round
<1>5. CASE dss.activate
  <2>1. Enter(Kernel, "resume", "wake") /\ UNCHANGED asleep
    BY <1>5 DEF DssResumeDevice
  <2>2. Entry("resume")
    BY <1>1, <1>3, <1>4, <1>5 DEF Entry, IInv, Sleeping
  <2>3. /\ calls' \in 0..MaxCalls /\ before' \in [state : States, faults : 0..MaxFaults]
        /\ before'.faults <= faults
    BY <1>1, <1>2, <1>4 DEF Typed
  <2> QED
    BY <1>1, <1>5, <2>1, <2>2, <2>3, KernelEnters
<1>6. CASE ~dss.activate
  <2>1. asleep' = FALSE /\ UNCHANGED call
    BY <1>6 DEF DssResumeDevice
  <2>2. Typed'
    BY <1>1, <1>2, <2>1 DEF Typed, hardware
  <2>3. TypeOK'
    BY <1>2, <2>1, <2>2 DEF TypeOK, Typed, Calls, Steps, Methods, Vias
  <2>4. Turns' /\ Round' /\ Sleeping'
    BY <1>1, <1>3, <1>4, <2>1 DEF Turns, Round, Sleeping, Actors
  <2>5. Held' /\ Boot'
    BY <1>1, <1>4, HeldOn DEF IInv, hardware, Boot
  <2>6. Rest'
    <3>1. Rest
      BY <1>1 DEF IInv
    <3>2. UNCHANGED <<vcc, link, chip, frame>>
      BY <1>1 DEF hardware
    <3> QED
      BY <1>1, <3>1, <3>2 DEF Rest, TianmaRest, TianmaDark, TianmaPower, SamsungRest, SamsungDark,
         SamsungPower, SamsungFlags, RenesasRest, RenesasDark, RenesasPower, Flowing, On, Active,
         Suspended, Disabled, Apart, Sound, Unmixed, Flawless, HasVcc
  <2> QED
    BY <1>3, <2>1, <2>3, <2>4, <2>5, <2>6 DEF IInv
<1> QED
  BY <1>5, <1>6

-----------------------------------------------------------------------------

\* A method leaves the display as Rest describes it.
LEMMA RestAfter ==
    ASSUME NEW a, Stage(a), call[a].pc = "returned",
           UNCHANGED <<panel, drv, vcc, link, chip, astray>>, dss'.state = dss.state,
           panel \in Renesas /\ astray = {} => Flowing'
    PROVE  Rest'
<1>1. panel \in Tianma => TianmaRest'
  BY DEF Stage, TianmaStage, TianmaRest, TianmaDark, TianmaPower, On, Active, Suspended, Disabled,
     Apart, Sound, Unmixed, Flawless
<1>2. panel \in Samsung => SamsungRest'
  BY
     DEF Stage, SamsungStage, SamsungRest, SamsungDark, SamsungPower, SamsungFlags, On, Active,
         Suspended,
     Disabled, Apart, Sound, Unmixed, Flawless, HasVcc
<1>3. panel \in Renesas => RenesasRest'
  BY DEF Stage, RenesasStage, RenesasRest, RenesasDark, RenesasPower, On, Active, Suspended, Disabled,
     Apart, Sound
<1> QED
  BY <1>1, <1>2, <1>3 DEF Rest

\* Leaving a method for good.
LEMMA Leaves ==
    ASSUME IInv, NEW a \in Actors, call[a].pc = "returned", call' = [call EXCEPT ![a] = Idle],
           UNCHANGED <<panel, drv, vcc, link, chip, rails, calls, faults, astray, over, before>>,
           dss' \in [state : States, activate : BOOLEAN], dss'.state = dss.state,
           frame' \in [pending : BOOLEAN, moving : BOOLEAN, clk : Int],
           fb' \in {"up", "gone"}, fblock' \subseteq Tasks, asleep' \in BOOLEAN,
           asleep' => call[a].via = "sleep" /\ dss'.activate,
           panel \in Renesas /\ astray = {} => Flowing'
    PROVE  IInv'
<1>1. TypeOK /\ Typed /\ Role(a) /\ Stage(a) /\ Held /\ Round
  BY Here
<1>2. Moves(a, "idle", "none", "none", TRUE, 0)
  BY <1>1, LeaveMoves
<1>3. Typed'
  BY <1>1 DEF Typed
<1>4. TypeOK'
  BY <1>2, <1>3 DEF TypeOK, Typed, Moves, Calls, Steps, Methods, Vias
<1>5. call'[a].pc = "idle" /\ \A b \in Actors : b # a => call'[b] = call[b]
  BY <1>2 DEF Moves
<1>6. Kernel \in Actors /\ \A x \in Tasks : x \in Actors /\ x # Kernel
  BY DssAssumption DEF Actors
<1>7. call'[Kernel].pc = "idle"
  <2>1. a # Kernel => a \in Tasks
    BY DEF Actors
  <2> QED
    BY <1>5, <1>6, <2>1 DEF IInv, Turns
<1>8. asleep' => a = Kernel /\ \A t \in Tasks : call'[t].pc = "idle"
  <2>1. asleep' => a = Kernel
    BY <1>1 DEF Role
  <2> QED
    BY <1>5, <1>6, <2>1 DEF IInv, Turns
<1>9. \A b \in Actors : call'[b].pc # "idle" => Role(b)'
  BY <1>5 DEF IInv, Role
<1>10. Apart' <=> Apart
  BY DEF Apart
<1>11. Turns'
  BY <1>5, <1>7, <1>8, <1>10 DEF Turns, IInv
<1>12. asleep' => before.state = "ACTIVE" /\ (panel \in Tianma => drv.suspended)
  BY <1>1, <1>8 DEF Round
<1>13. Round'
  BY <1>1, <1>7, <1>12 DEF Round
<1>14. Sleeping'
  <2>1. asleep' => call[a].method = "suspend"
    BY <1>1 DEF Role
  <2>2. asleep' =>
           /\ panel \in Tianma /\ Unmixed => Suspended
           /\ panel \in Samsung /\ Apart => ~Active
           /\ panel \in Samsung /\ Flawless => Suspended
           /\ panel \in Renesas /\ Apart => Suspended
    BY <1>1, <2>1 DEF Stage, TianmaStage, SamsungStage, RenesasStage, OffMethods
  <2>3. panel \in Tianma \/ panel \in Samsung \/ panel \in Renesas
    BY <1>1 DEF Typed, Panels, Tianma, Samsung, Renesas
  <2> QED
    BY <2>2, <2>3 DEF Sleeping, Active, Suspended, Apart, Sound, Unmixed, Flawless
<1>15. Held' /\ Boot'
  BY <1>1 DEF Held, Boot, Apart, Sound, Flawless
<1>16. Rest'
  BY <1>1, RestAfter
<1>17. \A b \in Actors : call'[b].pc # "idle" => Stage(b)'
  <2>1. CASE Apart
    BY <1>5, <2>1 DEF IInv, Turns
  <2>2. CASE ~Apart
    BY <1>10, <2>2, Overlapped
  <2> QED
    BY <2>1, <2>2
<1> QED
  BY <1>4, <1>9, <1>11, <1>13, <1>14, <1>15, <1>16, <1>17 DEF IInv

\* The frame buffer that could not be brought up disables the display.
LEMMA FreeEnters ==
    ASSUME IInv, NEW a \in Actors, call[a].pc = "returned", call[a].via = "probe", ~call[a].ok, ~Disabled,
           Enter(a, "disable", "free"),
           UNCHANGED <<panel, dss, drv, hardware, fb, fblock, asleep, calls, faults, astray, before>>
    PROVE  IInv'
<1>1. TypeOK /\ Typed /\ Role(a) /\ Stage(a) /\ Held /\ Round
  BY Here
<1>2. Moves(a, "start", "disable", "free", TRUE, 0)
  <2>1. "disable" \in Methods /\ "free" \in Vias
    BY DEF Methods, Vias
  <2> QED
    BY <1>1, <2>1, EnterMoves
<1>3. Typed'
  BY <1>1 DEF Typed, hardware
<1>4. TypeOK'
  BY <1>2, <1>3 DEF TypeOK, Typed, Moves, Calls, Steps, Methods, Vias
<1>5. a = Kernel /\ call[a].method = "enable" /\ fb = "none" /\ ~asleep
  BY <1>1 DEF Role, IInv, Turns
<1>6. \A b \in Actors : b # a => call'[b] = call[b] /\ call'[b].pc = "idle"
  <2>1. \A b \in Actors : b # a => b \in Tasks
    BY <1>5 DEF Actors
  <2> QED
    BY <1>2, <1>5, <2>1 DEF Moves, IInv, Turns
<1>7. \A b \in Actors : call'[b].pc # "idle" => Role(b)'
  BY <1>2, <1>5, <1>6 DEF Role, Moves, OnSteps, OffSteps, OnMethods, OffMethods
<1>8. Kernel \in Actors /\ \A x \in Tasks : x \in Actors /\ x # Kernel
  BY DssAssumption DEF Actors
<1>9. Turns' /\ Round' /\ Sleeping'
  <2>1. call'[Kernel].pc = "start" /\ call'[Kernel].via = "free"
    BY <1>2, <1>5 DEF Moves
  <2>2. Turns'
    BY <1>5, <1>6, <1>8, <2>1 DEF Turns
  <2>3. Round'
    BY <1>1, <1>5, <2>1 DEF Round
  <2> QED
    BY <1>5, <2>2, <2>3 DEF Sleeping
<1>10. Held'
  BY <1>1, HeldOn DEF hardware
<1>11. ~Quiet'
  BY <1>2 DEF Quiet, Busy, Moves
<1>12. UNCHANGED <<vcc, link, chip, frame>>
  BY DEF hardware
<1>13. Stage(a)'
  <2>1. dss.state \in States
    BY <1>1 DEF Typed
  <2>2. panel \in Tianma => TianmaStage("start", "disable")'
    BY <1>1, <1>5, <1>12, <2>1
       DEF Stage, TianmaStage, TianmaDark, TianmaPower, On, Active, Suspended, Disabled,
       States, Apart, Sound, Unmixed, Flawless, OffMethods
  <2>3. panel \in Samsung => SamsungStage("start", "disable", TRUE)'
    BY <1>1, <1>5, <1>12, <2>1
       DEF Stage, SamsungStage, SamsungDark, SamsungPower, SamsungFlags, On, Active,
       Suspended, Disabled, States, Apart, Sound, Unmixed, Flawless, HasVcc, OnMethods, OffMethods
  <2>4. panel \in Renesas => RenesasStage("start", "disable", "free", TRUE, 0)'
    BY <1>1, <1>5, <1>12, <2>1 DEF Stage, RenesasStage, RenesasDark, RenesasPower, On, Active, Suspended,
       Disabled, States, Apart, Sound, OnMethods, OffMethods
  <2> QED
    BY <1>2, <2>2, <2>3, <2>4 DEF Stage, Moves
<1>14. \A b \in Actors : call'[b].pc # "idle" => Stage(b)'
  BY <1>6, <1>13
<1> QED
  BY <1>4, <1>7, <1>9, <1>10, <1>11, <1>14 DEF IInv, Boot

\* A caller whose method has returned.
LEMMA ReturnedKeeps ==
    ASSUME IInv, NEW a \in Actors, Returned(a)
    PROVE  IInv'
<1>1. /\ call[a].pc = "returned"
      /\ UNCHANGED <<panel, drv, vcc, link, chip, rails, calls, faults, astray, over, before>>
  BY DEF Returned
<1>2. /\ TypeOK /\ Typed /\ Role(a) /\ Stage(a) /\ Held /\ Round
      /\ call[a].ok \in BOOLEAN /\ frame.clk \in Int
  BY <1>1, Here
<1>3. /\ dss \in [state : States, activate : BOOLEAN]
      /\ frame \in [pending : BOOLEAN, moving : BOOLEAN, clk : Int]
      /\ fb \in {"none", "up", "gone"} /\ fblock \subseteq Tasks /\ asleep \in BOOLEAN
  BY <1>2 DEF Typed
<1>4. /\ a = Kernel => (asleep <=> call[a].via = "wake")
      /\ a = Kernel => (fb = "none" <=> call[a].via \in {"probe", "free"})
      /\ a # Kernel => ~asleep /\ fb # "none"
      /\ asleep => fb # "none"
  <2>1. a # Kernel => a \in Tasks
    BY DEF Actors
  <2> QED
    BY <1>1, <2>1 DEF IInv, Turns
<1>5. /\ astray = {} /\ panel \in Renesas /\ call[a].method = "enable" => fb = "none"
      /\ astray = {} /\ panel \in Renesas /\ call[a].method # "enable" => Flowing
      /\ astray = {} /\ panel \in Renesas /\ call[a].method = "enable" => call[a].ok /\ Active
  BY <1>1, <1>2 DEF Stage, RenesasStage, Sound, Apart
<1>6. frame' = frame /\ dss'.state = dss.state => (Flowing <=> Flowing')
  BY DEF Flowing, Active, On
<1>7. CASE StoreReturns(a)
  <2>1. /\ call' = [call EXCEPT ![a] = Idle] /\ fblock' \subseteq Tasks
        /\ UNCHANGED <<dss, frame, fb, asleep>> /\ call[a].via \in {"store", "blank"}
    BY <1>3, <1>7 DEF StoreReturns
  <2>2. ~asleep /\ fb # "none"
    BY <1>2, <1>4, <2>1 DEF Role
  <2> QED
    BY <1>1, <1>3, <1>5, <1>6, <2>1, <2>2, Leaves
<1>8. CASE ProbeReturns(a)
  <2>1. call[a].via = "probe" /\ UNCHANGED <<dss, fblock, asleep>>
    BY <1>8 DEF ProbeReturns
  <2>2. a = Kernel /\ call[a].method = "enable" /\ fb = "none" /\ ~asleep
    BY <1>2, <1>4, <2>1 DEF Role
  <2>3. CASE call[a].ok
    <3>1. fb' = "up" /\ frame' = Transfer(dss.state) /\ call' = [call EXCEPT ![a] = Idle]
      BY <1>8, <2>3 DEF ProbeReturns
    <3>2. frame' \in [pending : BOOLEAN, moving : BOOLEAN, clk : Int]
      BY <1>2, <1>3, <3>1 DEF Transfer
    <3>3. panel \in Renesas /\ astray = {} => Flowing'
      <4> SUFFICES ASSUME panel \in Renesas, astray = {} PROVE Flowing'
        OBVIOUS
      <4>1. dss.state = "ACTIVE" /\ panel = "Renesas" /\ frame.clk = 0
        BY <1>2, <1>5, <2>2 DEF Active, Renesas, Held, Still
      <4>2. frame' = [pending |-> TRUE, moving |-> TRUE, clk |-> 1]
        BY <3>1, <4>1 DEF Transfer
      <4> QED
        BY <2>1, <4>1, <4>2 DEF Flowing, Active, On
    <3> QED
      BY <1>1, <1>3, <2>1, <2>2, <3>1, <3>2, <3>3, Leaves
  <2>4. CASE ~call[a].ok /\ dss.state = "DISABLED"
    <3>1. UNCHANGED frame /\ fb' = "gone" /\ call' = [call EXCEPT ![a] = Idle]
      BY <1>8, <2>4 DEF ProbeReturns
    <3>2. panel \in Renesas /\ astray = {} => Flowing'
      BY <1>5, <2>2, <2>4
    <3> QED
      BY <1>1, <1>3, <2>1, <2>2, <3>1, <3>2, Leaves
  <2>5. CASE ~call[a].ok /\ dss.state # "DISABLED"
    <3>1. UNCHANGED <<frame, fb>> /\ Enter(a, "disable", "free") /\ ~Disabled
      BY <1>8, <2>5 DEF ProbeReturns, Disabled
    <3>2. UNCHANGED hardware
      BY <1>1, <3>1 DEF hardware
    <3> QED
      BY <1>1, <2>1, <2>5, <3>1, <3>2, FreeEnters
  <2> QED
    BY <2>3, <2>4, <2>5
<1>9. CASE FreeResourcesReturns(a)
  <2>1. /\ call[a].via = "free" /\ fb' = "gone" /\ call' = [call EXCEPT ![a] = Idle]
        /\ UNCHANGED <<dss, frame, fblock, asleep>>
    BY <1>9 DEF FreeResourcesReturns
  <2>2. ~asleep /\ call[a].method = "disable"
    BY <1>2, <1>4, <2>1 DEF Role
  <2> QED
    BY <1>1, <1>3, <1>5, <1>6, <2>1, <2>2, Leaves
<1>10. CASE SleepReturns(a)
  <2>1. /\ call[a].via = "sleep" /\ dss' = [dss EXCEPT !.activate = TRUE] /\ asleep' = TRUE
        /\ call' = [call EXCEPT ![a] = Idle] /\ UNCHANGED <<frame, fb, fblock>>
    BY <1>10 DEF SleepReturns
  <2>2. fb # "none" /\ call[a].method = "suspend"
    BY <1>2, <1>4, <2>1 DEF Role
  <2>3. dss' \in [state : States, activate : BOOLEAN] /\ dss'.state = dss.state /\ dss'.activate
    BY <1>3, <2>1
  <2> QED
    BY <1>1, <1>3, <1>5, <1>6, <2>1, <2>2, <2>3, Leaves
<1>11. CASE WakeReturns(a)
  <2>1. /\ call[a].via = "wake" /\ dss' = [dss EXCEPT !.activate = ~call[a].ok] /\ asleep' = FALSE
        /\ call' = [call EXCEPT ![a] = Idle] /\ UNCHANGED <<frame, fb, fblock>>
    BY <1>11 DEF WakeReturns
  <2>2. fb # "none" /\ call[a].method = "resume"
    BY <1>2, <1>4, <2>1 DEF Role
  <2>3. dss' \in [state : States, activate : BOOLEAN] /\ dss'.state = dss.state
    BY <1>2, <1>3, <2>1
  <2> QED
    BY <1>1, <1>3, <1>5, <1>6, <2>1, <2>2, <2>3, Leaves
<1> QED
  BY <1>7, <1>8, <1>9, <1>10, <1>11 DEF Returned

-----------------------------------------------------------------------------

\* Everything that does not depend on the frame is kept by a step that
\* touches nothing else.
LEMMA FrameOnly ==
    ASSUME IInv, panel' = panel,
           UNCHANGED <<dss, drv, vcc, link, chip, rails, fb, fblock, call, asleep, faults, over, before>>,
           fb # "none",
           frame' \in [pending : BOOLEAN, moving : BOOLEAN, clk : Int], calls' \in 0..MaxCalls,
           astray' = astray \/ (astray' = astray \cup {"redrawn"} /\ ~asleep),
           frame.moving /\ Active => frame'.moving,
           Quiet /\ panel \in Renesas /\ astray' = {} => (Flowing => Flowing'),
           ~Quiet /\ panel \in Renesas /\ astray' = {} => (Flowing => Flowing') /\ (Still => Still')
    PROVE  IInv'
<1>1. TypeOK /\ Typed /\ call \in [Actors -> Calls]
  BY Types DEF IInv
<1>2. Typed'
  BY <1>1 DEF Typed
<1>3. TypeOK'
  BY <1>1, <1>2 DEF TypeOK, Typed, Calls, Steps, Methods, Vias
<1>4. /\ Apart' <=> Apart
      /\ Sound' <=> Sound
      /\ Unmixed' <=> Unmixed
      /\ Flawless' <=> Flawless
      /\ astray' = {} => astray = {}
  BY DEF Apart, Sound, Unmixed, Flawless
<1>5. \A b \in Actors : call'[b].pc # "idle" => Role(b)'
  BY DEF IInv, Role
<1>6. Turns' /\ Round' /\ Sleeping'
  <2>1. Turns'
    BY <1>4 DEF IInv, Turns
  <2>2. Round'
    BY DEF IInv, Round, Active
  <2>3. Sleeping'
    BY <1>4 DEF IInv, Sleeping, Active, Suspended
  <2> QED
    BY <2>1, <2>2, <2>3
<1>7. Held' /\ Boot'
  BY <1>4 DEF IInv, Held, Boot
<1>8. Quiet' => Rest'
  BY <1>4 DEF IInv, Quiet, Busy, Rest, TianmaRest, TianmaDark, TianmaPower, SamsungRest, SamsungDark,
     SamsungPower, SamsungFlags, RenesasRest, RenesasDark, RenesasPower, On, Active, Suspended, Disabled,
     HasVcc
<1>9. ASSUME NEW b \in Actors, call'[b].pc # "idle" PROVE Stage(b)'
  <2>1. Stage(b) /\ ~Quiet
    BY <1>9 DEF IInv, Quiet, Busy
  <2>2. panel \in Tianma => TianmaStage(call[b].pc, call[b].method)'
    BY <1>4, <2>1 DEF Stage, TianmaStage, TianmaDark, TianmaPower, On, Active, Suspended, Disabled
  <2>3. panel \in Samsung => SamsungStage(call[b].pc, call[b].method, call[b].ok)'
    BY <1>4, <2>1
       DEF Stage, SamsungStage, SamsungDark, SamsungPower, SamsungFlags, On, Active, Suspended,
       Disabled, HasVcc
  <2>4. panel \in Renesas =>
            RenesasStage(call[b].pc, call[b].method, call[b].via, call[b].ok, call[b].tries)'
    BY <1>4, <2>1 DEF Stage, RenesasStage, RenesasDark, RenesasPower, On, Active, Suspended, Disabled
  <2> QED
    BY <2>2, <2>3, <2>4 DEF Stage
<1> QED
  BY <1>3, <1>5, <1>6, <1>7, <1>8, <1>9 DEF IInv

\* OMAPFB_UPDATE_WINDOW.
LEMMA UpdateWindowKeeps ==
    ASSUME IInv, NEW t \in Tasks, UpdateWindow(t)
    PROVE  IInv'
<1>1. /\ fb = "up" /\ ~asleep /\ calls' = calls + 1 /\ calls < MaxCalls /\ panel = "Renesas" /\ Active
      /\ frame' = Transfer(dss.state)
      /\ panel' = panel
      /\ UNCHANGED <<dss, drv, vcc, link, chip, rails, fb, fblock, call, asleep, faults, over, before>>
  BY DEF UpdateWindow, MayCall, Begin, Active
<1>2. Typed
  BY Types DEF IInv
<1>3. /\ astray' = astray \/ (astray' = astray \cup {"redrawn"} /\ ~asleep)
      /\ frame.moving \/ ~Quiet => astray' # {}
      /\ astray' = {} => astray = {}
  BY <1>1 DEF UpdateWindow
<1>4. frame' = [pending |-> TRUE, moving |-> TRUE, clk |-> frame.clk + 1]
  BY <1>1 DEF Transfer, Active
<1>5. frame' \in [pending : BOOLEAN, moving : BOOLEAN, clk : Int] /\ frame'.moving
  <2>1. frame.clk \in Int
    BY <1>2 DEF Typed
  <2> QED
    BY <1>4, <2>1
<1>6. calls' \in 0..MaxCalls
  BY <1>1, <1>2, DssAssumption DEF Typed
<1>7. Quiet /\ panel \in Renesas /\ astray' = {} => (Flowing => Flowing')
  BY <1>1, <1>3 DEF Flowing
<1>8. fb # "none"
  BY <1>1
<1> QED
  BY <1>1, <1>3, <1>5, <1>6, <1>7, <1>8, FrameOnly

\* The end of a frame.
LEMMA FrameDoneKeeps ==
    ASSUME IInv, FrameDone
    PROVE  IInv'
<1>1. /\ frame.moving /\ panel' = panel /\ calls' = calls /\ astray' = astray
      /\ UNCHANGED <<dss, drv, vcc, link, chip, rails, fb, fblock, call, asleep, faults, over, before>>
  BY DEF FrameDone
<1>2. Typed /\ Held
  BY Types DEF IInv
<1>3. fb # "none" /\ calls' \in 0..MaxCalls
  BY <1>1, <1>2 DEF Held, Still, Typed
<1>4. frame.clk \in Int /\ frame.clk - 1 \in Int
  BY <1>2 DEF Typed
<1>5. /\ Active => frame' = [pending |-> TRUE, moving |-> TRUE, clk |-> frame.clk]
      /\ ~Active => frame' = [pending |-> FALSE, moving |-> FALSE, clk |-> frame.clk - 1]
  BY DEF FrameDone, Active
<1>6. frame' \in [pending : BOOLEAN, moving : BOOLEAN, clk : Int] /\ (Active => frame'.moving)
  <2>1. CASE Active
    <3>1. frame' = [pending |-> TRUE, moving |-> TRUE, clk |-> frame.clk]
      BY <1>5, <2>1
    <3> QED
      BY <1>4, <3>1
  <2>2. CASE ~Active
    <3>1. frame' = [pending |-> FALSE, moving |-> FALSE, clk |-> frame.clk - 1]
      BY <1>5, <2>2
    <3> QED
      BY <1>4, <2>2, <3>1
  <2> QED
    BY <2>1, <2>2
<1>7. Flowing => Flowing'
  <2> SUFFICES ASSUME Flowing PROVE Flowing'
    OBVIOUS
  <2>1. Active /\ frame.clk = 1
    BY <1>1 DEF Flowing, On, Active
  <2>2. frame' = [pending |-> TRUE, moving |-> TRUE, clk |-> 1]
    BY <1>4, <1>5, <2>1
  <2> QED
    BY <1>1, <2>1, <2>2 DEF Flowing, On, Active
<1>8. ~Still
  BY <1>1 DEF Still
<1> QED
  BY <1>1, <1>3, <1>6, <1>7, <1>8, FrameOnly

-----------------------------------------------------------------------------

\* Every step of a driver's method.
LEMMA MethodsKeep ==
    ASSUME IInv, NEW a \in Actors, TianmaStep(a) \/ SamsungStep(a) \/ RenesasStep(a)
    PROVE  IInv'
<1>1. CASE TianmaStep(a)
  BY <1>1, TianmaPowerOnKeeps, TianmaResumeKeeps, TianmaLinkOnKeeps, TianmaVccOnKeeps, TianmaChipOnKeeps,
     TianmaPowerOffKeeps, TianmaSuspendKeeps, TianmaChipOffKeeps, TianmaVccOffKeeps, TianmaLinkOffKeeps
     DEF TianmaStep
<1>2. CASE SamsungStep(a)
  BY <1>2, SamsungPowerOnKeeps, SamsungLinkOnKeeps, SamsungVccOnKeeps, SamsungChipOnKeeps,
     SamsungSettleOnKeeps, SamsungPowerOffKeeps, SamsungVccOffKeeps, SamsungLinkOffKeeps,
     SamsungSettleOffKeeps
     DEF SamsungStep
<1>3. CASE RenesasStep(a)
  BY <1>3, RenesasPowerOnKeeps, RenesasVccOnKeeps, RenesasLinkOnKeeps, RenesasChipOnKeeps,
     RenesasSettleOnKeeps, RenesasPowerOffKeeps, RenesasChipOffKeeps, RenesasVccOffKeeps,
     RenesasSettleOffKeeps
     DEF RenesasStep
<1> QED
  BY <1>1, <1>2, <1>3

\* Every step of a caller.
LEMMA CallersKeep ==
    ASSUME IInv, Callers
    PROVE  IInv'
BY DisplayEnabledStoreKeeps, OmapfbBlankKeeps, UpdateWindowKeeps, OmapfbProbeKeeps,
   DssSuspendDeviceKeeps,
   DssResumeDeviceKeeps, ReturnedKeeps, FrameDoneKeeps DEF Callers

\* The display as it is found at boot.
LEMMA InitHolds ==
    ASSUME Init
    PROVE  IInv
<1>1. \A a \in Actors : call[a] = Idle
  BY DEF Init
<1>2. \A a \in Actors : call[a].pc = "idle"
  BY <1>1 DEF Idle
<1>3. Idle \in Calls
  BY DEF Idle, Calls, Steps, Methods, Vias
<1>4. call \in [Actors -> Calls]
  BY <1>3 DEF Init
<1>5. Typed
  <2>1. /\ dss \in [state : States, activate : BOOLEAN]
        /\ drv \in [enabled : BOOLEAN, suspended : BOOLEAN]
        /\ frame \in [pending : BOOLEAN, moving : BOOLEAN, clk : Int]
    BY DEF Init, States
  <2>2. 0 \in 0..MaxFaults /\ 0 \in 0..MaxCalls
    BY DssAssumption
  <2>3. before \in [state : States, faults : 0..MaxFaults]
    BY <2>2 DEF Init, States
  <2> QED
    BY <2>1, <2>2, <2>3 DEF Init, Typed
<1>6. TypeOK
  BY <1>4, <1>5, Types
<1>7. Kernel \in Actors
  BY DEF Actors
<1>8. Turns /\ Round /\ Sleeping
  BY <1>2, <1>7 DEF Init, Turns, Round, Sleeping, Actors
<1>9. Held /\ Boot
  BY DEF Init, Held, Still, Boot, Disabled
<1>10. Rest
  BY DEF Init, Rest, TianmaRest, TianmaDark, TianmaPower, SamsungRest, SamsungDark, SamsungPower,
     SamsungFlags, RenesasRest, RenesasDark, RenesasPower, On, Active, Suspended, Disabled
<1> QED
  BY <1>2, <1>6, <1>8, <1>9, <1>10 DEF IInv

(***************************************************************************)
(* The inductive invariant: for each panel, what the calls to enable,      *)
(* disable, suspend and resume have done to the regulator, the output, the *)
(* controller, the frames and the driver's flags at every point where      *)
(* another actor can get in between, and after them.                       *)
(***************************************************************************)
THEOREM PanelsInductive == Spec => []IInv
<1>1. Init => IInv
  BY InitHolds
<1>2. IInv /\ [Next]_dssVars => IInv'
  <2> SUFFICES ASSUME IInv, [Next]_dssVars PROVE IInv'
    OBVIOUS
  <2>1. CASE Callers
    BY <2>1, CallersKeep
  <2>2. CASE \E a \in Actors : TianmaStep(a) \/ SamsungStep(a) \/ RenesasStep(a)
    BY <2>2, MethodsKeep
  <2>3. CASE UNCHANGED dssVars
    <3> USE <2>3 DEF dssVars
    <3>1. TypeOK'
      BY DEF IInv, TypeOK
    <3>2. Turns' /\ Round' /\ Sleeping' /\ Held' /\ Boot'
      BY DEF IInv, Turns, Round, Sleeping, Held, Boot, Quiet, Busy, Still, Active, Suspended, Disabled,
         Apart, Sound, Unmixed, Flawless
    <3>3. \A a \in Actors : call'[a].pc # "idle" => Role(a)'
      BY DEF IInv, Role
    <3>4. Quiet' => Rest'
      BY DEF IInv, Quiet, Busy, Rest, TianmaRest, TianmaDark, TianmaPower, SamsungRest, SamsungDark,
         SamsungPower, SamsungFlags, RenesasRest, RenesasDark, RenesasPower, Flowing, On, Active, Suspended,
         Disabled, Apart, Sound, Unmixed, Flawless, HasVcc
    <3>5. \A a \in Actors : call'[a].pc # "idle" => Stage(a)'
      BY DEF IInv, Stage, TianmaStage, TianmaDark, TianmaPower, SamsungStage, SamsungDark,
         SamsungPower, SamsungFlags, RenesasStage, RenesasDark, RenesasPower, Flowing, Still, On, Active,
         Suspended, Disabled, Apart, Sound, Unmixed, Flawless, HasVcc
    <3> QED
      BY <3>1, <3>2, <3>3, <3>4, <3>5 DEF IInv
  <2> QED
    BY <2>1, <2>2, <2>3 DEF Next
<1> QED
  BY <1>1, <1>2, PTL DEF Spec

-----------------------------------------------------------------------------

(***************************************************************************)
(* The clocks of the Renesas panel's frames, as long as no operation       *)
(* failed, calls did not overlap, no blanked display was disabled and      *)
(* "enabled" was not written by sysfs: a refresh that is pending while the *)
(* display is ACTIVE holds clocks, so that the disable or suspend that     *)
(* stops it drops clocks that are held.  On other panels there are none.   *)
(***************************************************************************)
Tame == Flawless /\ "reenabled" \notin astray
Backed == frame.pending => frame.clk >= 1
Clocks == frame.clk >= 0 /\ (frame.moving => frame.pending /\ frame.clk >= 1)

ClockStage(a) ==
    /\ call[a].method = "enable" => fb = "none"
    /\ call[a].method \in OffMethods /\ call[a].pc = "start" => Backed
    /\ call[a].pc = "returned" /\ Active => Backed

CInv ==
    /\ "clk" \in over => panel \in Renesas /\ ~Tame
    /\ panel \in Renesas /\ Tame =>
           /\ Clocks
           /\ Quiet /\ Active => Backed
           /\ \A a \in Actors : call[a].pc # "idle" => ClockStage(a)

\* One actor moves while nobody else is inside a method.
LEMMA ClockMove ==
    ASSUME NEW a \in Actors, NEW p, NEW m, NEW v, NEW k, NEW n, Moves(a, p, m, v, k, n),
           \A b \in Actors : b # a => call[b].pc = "idle",
           "clk" \notin over', Clocks',
           m = "enable" /\ p # "idle" => fb' = "none",
           m \in OffMethods /\ p = "start" => Backed',
           p \in {"idle", "returned"} /\ Active' => Backed'
    PROVE  CInv'
<1>1. call'[a].pc = p /\ call'[a].method = m /\ \A b \in Actors : b # a => call'[b].pc = "idle"
  BY DEF Moves
<1>2. Quiet' /\ Active' => Backed'
  BY <1>1 DEF Quiet, Busy
<1>3. ASSUME NEW b \in Actors, call'[b].pc # "idle" PROVE ClockStage(b)'
  <2>1. b = a
    BY <1>1, <1>3
  <2> QED
    BY <1>1, <1>3, <2>1 DEF ClockStage
<1> QED
  BY <1>2, <1>3 DEF CInv

\* A step of the Renesas panel's methods.
LEMMA RenesasClocks ==
    ASSUME IInv, CInv, NEW a \in Actors, RenesasStep(a)
    PROVE  CInv'
<1>1. /\ panel \in Renesas /\ panel' = panel /\ fb' = fb /\ astray \subseteq astray'
      /\ call[a].pc \notin {"idle", "returned"}
  BY DEF RenesasStep, RenesasPowerOn, RenesasVccOn, RenesasLinkOn, RenesasChipOn, RenesasSettleOn,
     RenesasPowerOff, RenesasChipOff, RenesasVccOff, RenesasSettleOff, At, Fault, NoFault,
     Untouched, LinkOn, RegulatorOn, system
<1>2. CASE ~Tame'
  BY <1>1, <1>2 DEF CInv
<1>3. CASE Tame'
  <2>1. Tame /\ Apart /\ Sound /\ Sound'
    BY <1>1, <1>3 DEF Tame, Flawless, Sound, Apart
  <2>2. /\ TypeOK /\ Typed /\ Stage(a) /\ Held /\ frame.clk \in Int
        /\ call[a].ok \in BOOLEAN /\ call[a].tries \in Nat /\ call[a].method \in OnMethods \cup OffMethods
    BY <1>1, Here
  <2>3. \A b \in Actors : b # a => call[b].pc = "idle"
    BY <1>1, <2>1 DEF IInv, Turns
  <2>4. "clk" \notin over /\ Clocks /\ ClockStage(a)
    BY <1>1, <2>1 DEF CInv
  <2>5. call[a].method = "enable" => fb' = "none"
    BY <1>1, <2>4 DEF ClockStage
  <2>6. frame' = frame => Clocks'
    BY <2>4 DEF Clocks
  <2> USE DEF OnMethods, OffMethods, Steps
  <2>7. CASE RenesasPowerOn(a)
    <3>1. /\ call[a].method \in OnMethods
          /\ UNCHANGED <<frame, over>>
      BY <2>7 DEF RenesasPowerOn, Untouched, hardware
    <3>2. CASE Active
      <4>1. PICK k \in BOOLEAN : Moves(a, "settleOn", call[a].method, call[a].via, k, call[a].tries)
        BY <2>2, <2>7, <3>2, MovesOn DEF RenesasPowerOn, Active
      <4> QED
        BY <2>3, <2>4, <2>5, <2>6, <3>1, <4>1, ClockMove
    <3>3. CASE ~Active
      <4>1. Moves(a, "vccOn", call[a].method, call[a].via, call[a].ok, call[a].tries)
        BY <2>2, <2>7, <3>3, MovesOn DEF RenesasPowerOn, Active
      <4> QED
        BY <2>3, <2>4, <2>5, <2>6, <3>1, <4>1, ClockMove
    <3> QED
      BY <3>2, <3>3
  <2>8. CASE RenesasVccOn(a)
    <3>1. RegulatorOn(a, "linkOn")
      BY <2>1, <2>8 DEF RenesasVccOn, Fault, Sound
    <3>2. UNCHANGED <<frame, over>>
      BY <3>1 DEF RegulatorOn
    <3>3. Moves(a, "linkOn", call[a].method, call[a].via, call[a].ok, call[a].tries)
      BY <2>2, <3>1, MovesOn DEF RegulatorOn
    <3> QED
      BY <2>3, <2>4, <2>5, <2>6, <3>2, <3>3, ClockMove
  <2>9. CASE RenesasLinkOn(a)
    <3>1. link = 0
      BY <1>1, <2>1, <2>2, <2>9 DEF RenesasLinkOn, At, Stage, RenesasStage
    <3>2. LinkOn(a, "chipOn")
      BY <2>9, <3>1 DEF RenesasLinkOn
    <3>3. UNCHANGED <<frame, over>>
      BY <3>2 DEF LinkOn
    <3>4. Moves(a, "chipOn", call[a].method, call[a].via, call[a].ok, call[a].tries)
      BY <2>2, <3>2, MovesOn DEF LinkOn
    <3> QED
      BY <2>3, <2>4, <2>5, <2>6, <3>3, <3>4, ClockMove
  <2>10. CASE RenesasChipOn(a)
    <3>1. /\ call' = [call EXCEPT ![a].pc = "settleOn", ![a].ok = TRUE]
          /\ UNCHANGED <<frame, over>>
      BY <2>1, <2>10 DEF RenesasChipOn, Fault, Sound
    <3>2. PICK k \in BOOLEAN : Moves(a, "settleOn", call[a].method, call[a].via, k, call[a].tries)
      BY <2>2, <3>1, MovesOn
    <3> QED
      BY <2>3, <2>4, <2>5, <2>6, <3>1, <3>2, ClockMove
  <2>11. CASE RenesasSettleOn(a)
    <3>1. over' = over /\ call[a].pc = "settleOn"
      BY <2>11 DEF RenesasSettleOn, At
    <3>2. CASE In(a, "resume") /\ ~call[a].ok /\ call[a].tries + 1 < WakeRetryCount
      <4>1. call' = [call EXCEPT ![a].pc = "start", ![a].tries = @ + 1] /\ frame' = frame
        BY <2>11, <3>2 DEF RenesasSettleOn
      <4>2. call' = [call EXCEPT ![a].pc = "start", ![a].tries = call[a].tries + 1]
        BY <2>2, <4>1 DEF TypeOK
      <4>3. Moves(a, "start", call[a].method, call[a].via, call[a].ok, call[a].tries + 1)
        <5>1. call[a].tries + 1 \in Nat
          BY <2>2
        <5> QED
          BY <2>2, <4>2, <5>1, MovesOn
      <4>4. call[a].method = "resume"
        BY <3>2 DEF In
      <4> QED
        BY <2>3, <2>4, <2>6, <3>1, <4>1, <4>3, <4>4, ClockMove
    <3>3. CASE ~(In(a, "resume") /\ ~call[a].ok /\ call[a].tries + 1 < WakeRetryCount)
      <4> DEFINE r == In(a, "resume") \/ call[a].ok
      <4>1. Return(a, r) /\ frame' = IF In(a, "resume") THEN Transfer("ACTIVE") ELSE frame
        BY <2>11, <3>3 DEF RenesasSettleOn
      <4>2. r \in BOOLEAN
        BY <2>2 DEF In
      <4> HIDE DEF r
      <4>3. Moves(a, "returned", call[a].method, call[a].via, r, call[a].tries)
        BY <2>2, <4>1, <4>2, MovesOn DEF Return
      <4>4. Clocks' /\ Backed'
        <5>1. CASE In(a, "resume")
          <6>1. frame' = [pending |-> TRUE, moving |-> TRUE, clk |-> frame.clk + 1]
            BY <1>1, <4>1, <5>1 DEF Transfer, Renesas
          <6>2. frame.clk >= 0 /\ frame.clk + 1 >= 1 /\ frame.clk + 1 >= 0
            BY <2>2, <2>4 DEF Clocks
          <6> QED
            BY <6>1, <6>2 DEF Clocks, Backed
        <5>2. CASE ~In(a, "resume")
          <6>1. call[a].method = "enable" /\ frame' = frame
            BY <1>1, <2>2, <3>1, <4>1, <5>2 DEF In, IInv, Role, OffSteps
          <6>2. ~frame.pending
            BY <1>1, <2>2, <2>5, <6>1 DEF Held
          <6> QED
            BY <2>6, <6>1, <6>2 DEF Backed
        <5> QED
          BY <5>1, <5>2
      <4> QED
        BY <2>3, <2>4, <2>5, <3>1, <4>3, <4>4, ClockMove
    <3> QED
      BY <3>2, <3>3
  <2>12. CASE RenesasPowerOff(a)
    <3>1. /\ call[a].pc = "start" /\ call[a].method \in OffMethods /\ FrameStopped
          /\ Goto(a, "chipOff")
      BY <2>12 DEF RenesasPowerOff, At
    <3>2. Moves(a, "chipOff", call[a].method, call[a].via, call[a].ok, call[a].tries)
      BY <2>2, <3>1, MovesOn
    <3>3. Backed
      BY <2>4, <3>1 DEF ClockStage
    <3>4. over' = over
      BY <2>2, <3>1, <3>3 DEF FrameStopped, Backed
    <3>5. Clocks'
      <4>1. CASE frame.pending
        <5>1. frame' = [frame EXCEPT !.moving = FALSE, !.clk = frame.clk - 1]
          BY <3>1, <4>1 DEF FrameStopped
        <5>2. frame'.moving = FALSE /\ frame'.clk = frame.clk - 1
          BY <2>2, <5>1 DEF Typed
        <5>3. frame.clk - 1 >= 0
          BY <2>2, <3>3, <4>1 DEF Backed
        <5> QED
          BY <5>2, <5>3 DEF Clocks
      <4>2. CASE ~frame.pending
        BY <2>6, <3>1, <4>2 DEF FrameStopped
      <4> QED
        BY <4>1, <4>2
    <3> QED
      BY <2>3, <2>4, <2>5, <3>2, <3>4, <3>5, ClockMove
  <2>13. CASE RenesasChipOff(a)
    <3>1. Goto(a, "vccOff") /\ UNCHANGED <<frame, over>>
      BY <2>13 DEF RenesasChipOff
    <3>2. Moves(a, "vccOff", call[a].method, call[a].via, call[a].ok, call[a].tries)
      BY <2>2, <3>1, MovesOn
    <3> QED
      BY <2>3, <2>4, <2>5, <2>6, <3>1, <3>2, ClockMove
  <2>14. CASE RenesasVccOff(a)
    <3>1. Goto(a, "settleOff") /\ frame' = frame /\ "clk" \notin over'
      BY <2>4, <2>14 DEF RenesasVccOff, VccOff
    <3>2. Moves(a, "settleOff", call[a].method, call[a].via, call[a].ok, call[a].tries)
      BY <2>2, <3>1, MovesOn
    <3> QED
      BY <2>3, <2>5, <2>6, <3>1, <3>2, ClockMove
  <2>15. CASE RenesasSettleOff(a)
    <3>1. /\ Return(a, TRUE) /\ UNCHANGED <<frame, over>>
          /\ dss' = [dss EXCEPT !.state = IF In(a, "suspend") THEN "SUSPENDED" ELSE "DISABLED"]
      BY <2>15 DEF RenesasSettleOff, hardware
    <3>2. Moves(a, "returned", call[a].method, call[a].via, TRUE, call[a].tries)
      BY <2>2, <3>1, MovesOn DEF Return
    <3>3. ~Active'
      BY <2>2, <3>1 DEF Typed, Active
    <3> QED
      BY <2>3, <2>4, <2>5, <2>6, <3>1, <3>2, <3>3, ClockMove
  <2> QED
    BY <2>7, <2>8, <2>9, <2>10, <2>11, <2>12, <2>13, <2>14, <2>15 DEF RenesasStep
<1> QED
  BY <1>2, <1>3

\* A panel that is not on the RFBI releases its regulator and its output, no clocks.
LEMMA OtherPanelsClocks ==
    ASSUME IInv, CInv, NEW a \in Actors, TianmaStep(a) \/ SamsungStep(a)
    PROVE  CInv'
<1>1. panel \notin Renesas
  BY DEF TianmaStep, TianmaPowerOn, TianmaResume, TianmaLinkOn, TianmaVccOn, TianmaChipOn,
     TianmaPowerOff, TianmaSuspend, TianmaChipOff, TianmaVccOff, TianmaLinkOff,
     SamsungStep, SamsungPowerOn, SamsungLinkOn, SamsungVccOn, SamsungChipOn, SamsungSettleOn,
     SamsungPowerOff, SamsungVccOff, SamsungLinkOff, SamsungSettleOff, At, Tianma, Samsung, Renesas
<1>2. panel' = panel /\ ("clk" \in over' => "clk" \in over)
  <2> USE DEF NothingToDo, Skip, Untouched, LinkOn, RegulatorOn, VccOff, LinkOff, system, hardware
  <2>1. CASE TianmaStep(a)
    BY <2>1 DEF TianmaStep, TianmaPowerOn, TianmaResume, TianmaLinkOn, TianmaVccOn, TianmaChipOn,
       TianmaPowerOff, TianmaSuspend, TianmaChipOff, TianmaVccOff, TianmaLinkOff
  <2>2. CASE SamsungStep(a)
    BY <2>2 DEF SamsungStep, SamsungPowerOn, SamsungLinkOn, SamsungVccOn, SamsungChipOn, SamsungSettleOn,
       SamsungPowerOff, SamsungVccOff, SamsungLinkOff, SamsungSettleOff
  <2> QED
    BY <2>1, <2>2
<1> QED
  BY <1>1, <1>2 DEF CInv

\* A step of a caller.
LEMMA CallerClocks ==
    ASSUME IInv, CInv, Callers
    PROVE  CInv'
<1>1. panel' = panel /\ over' = over /\ astray \subseteq astray'
  BY DEF Callers, DisplayEnabledStore, OmapfbBlank, UpdateWindow, OmapfbProbe, DssSuspendDevice,
     DssResumeDevice, Returned, FrameDone, hardware, system
<1>2. CASE panel \notin Renesas \/ ~Tame'
  BY <1>1, <1>2 DEF CInv, Tame, Flawless, Sound, Apart
<1>3. CASE panel \in Renesas /\ Tame'
  <2>1. Tame /\ Apart /\ Apart' /\ Sound /\ "blanked" \notin astray' /\ "reenabled" \notin astray'
    BY <1>1, <1>3 DEF Tame, Flawless, Sound, Apart
  <2>2. TypeOK /\ Typed /\ Held /\ dss.state \in States /\ frame.clk \in Int
    BY Types DEF IInv, Typed
  <2>3. "clk" \notin over' /\ Clocks /\ (Quiet /\ Active => Backed)
    BY <1>1, <1>3, <2>1 DEF CInv
  <2>4. frame' = frame => Clocks' /\ (Backed' <=> Backed)
    BY <2>3 DEF Clocks, Backed
  <2>5. ASSUME NEW a \in Actors, NEW m \in OnMethods \cup OffMethods, NEW v \in Vias, Enter(a, m, v),
               \A b \in Actors : b # a => call[b].pc = "idle", call[a].pc = "idle",
               frame' = frame, m = "enable" => fb' = "none", m \in OffMethods => Active
        PROVE  CInv'
    <3>1. Moves(a, "start", m, v, TRUE, 0)
      BY <2>2, <2>5, EnterMoves DEF OnMethods, OffMethods, Methods
    <3>2. Quiet
      BY <2>5 DEF Quiet, Busy
    <3>3. m \in OffMethods => Backed'
      BY <2>3, <2>4, <2>5, <3>2
    <3> QED
      BY <2>3, <2>4, <2>5, <3>1, <3>3, ClockMove
  <2>6. Kernel \in Actors /\ \A t \in Tasks : t \in Actors
    BY DEF Actors
  <2>7. ASSUME NEW t \in Tasks, MayCall(t), Entangled(t) \subseteq astray'
        PROVE  call[t].pc = "idle" /\ \A b \in Actors : b # t => call[b].pc = "idle"
    BY <2>1, <2>7 DEF Entangled, Busy, Apart, MayCall
  <2> USE DEF OnMethods, OffMethods, Vias
  <2>8. ASSUME NEW t \in Tasks, NEW value \in BOOLEAN, DisplayEnabledStore(t, value) PROVE CInv'
    <3>1. ~value /\ Active
      BY <2>1, <2>2, <2>8 DEF DisplayEnabledStore, States, Active
    <3>2. /\ MayCall(t) /\ Entangled(t) \subseteq astray' /\ Enter(t, "disable", "store")
          /\ frame' = frame
      BY <2>8, <3>1 DEF DisplayEnabledStore, hardware
    <3> QED
      BY <2>5, <2>6, <2>7, <3>1, <3>2
  <2>9. ASSUME NEW t \in Tasks, NEW unblank \in BOOLEAN, OmapfbBlank(t, unblank) PROVE CInv'
    <3>1. MayCall(t) /\ Entangled(t) \subseteq astray' /\ frame' = frame
      BY <2>9 DEF OmapfbBlank, hardware
    <3>2. \/ Enter(t, "resume", "blank")
          \/ Enter(t, "suspend", "blank") /\ Active
      BY <2>9 DEF OmapfbBlank, Active
    <3> QED
      BY <2>5, <2>6, <2>7, <3>1, <3>2
  <2>10. CASE \E t \in Tasks : UpdateWindow(t)
    <3>1. frame' = [pending |-> TRUE, moving |-> TRUE, clk |-> frame.clk + 1]
      BY <2>10 DEF UpdateWindow, Transfer
    <3>2. UNCHANGED <<dss, call, fb>>
      BY <2>10 DEF UpdateWindow
    <3>3. frame.clk + 1 >= 1 /\ frame.clk + 1 >= 0
      BY <2>2, <2>3 DEF Clocks
    <3>4. Clocks' /\ Backed'
      BY <3>1, <3>3 DEF Clocks, Backed
    <3>5. \A a \in Actors : call'[a].pc # "idle" => ClockStage(a)'
      BY <1>3, <2>1, <3>2, <3>4 DEF CInv, ClockStage
    <3> QED
      BY <2>3, <3>4, <3>5 DEF CInv
  <2>11. CASE OmapfbProbe
    <3>1. Quiet /\ Enter(Kernel, "enable", "probe") /\ frame' = frame /\ fb' = "none"
      BY <2>11 DEF OmapfbProbe, hardware, system
    <3> QED
      BY <2>5, <2>6, <3>1 DEF Quiet, Busy
  <2>12. CASE DssSuspendDevice
    <3>1. Quiet /\ UNCHANGED <<frame, fb>>
      BY <2>12 DEF DssSuspendDevice, hardware
    <3>2. CASE Active
      BY <2>5, <2>6, <2>12, <3>1, <3>2 DEF DssSuspendDevice, Active, Quiet, Busy
    <3>3. CASE ~Active
      <4>1. call' = call /\ ~Active'
        BY <2>2, <2>12, <3>3 DEF DssSuspendDevice, Active, Typed
      <4> QED
        BY <2>3, <2>4, <3>1, <4>1 DEF CInv, Quiet, Busy
    <3> QED
      BY <3>2, <3>3
  <2>13. CASE DssResumeDevice
    <3>1. Quiet /\ UNCHANGED <<frame, fb, dss>>
      BY <2>13 DEF DssResumeDevice, hardware
    <3>2. CASE dss.activate
      BY <2>5, <2>6, <2>13, <3>1, <3>2 DEF DssResumeDevice, Quiet, Busy
    <3>3. CASE ~dss.activate
      <4>1. call' = call
        BY <2>13, <3>3 DEF DssResumeDevice
      <4> QED
        BY <2>3, <2>4, <3>1, <4>1 DEF CInv, Quiet, Busy, Active
    <3> QED
      BY <3>2, <3>3
  <2>14. ASSUME NEW a \in Actors, Returned(a) PROVE CInv'
    <3>1. call[a].pc = "returned" /\ Stage(a) /\ Role(a) /\ ClockStage(a)
      BY <1>3, <2>1, <2>14 DEF Returned, IInv, CInv
    <3>2. \A b \in Actors : b # a => call[b].pc = "idle"
      BY <2>1, <2>14, <3>1 DEF IInv, Turns
    <3>3. ASSUME call' = [call EXCEPT ![a] = Idle], Clocks', Active' => Backed' PROVE CInv'
      <4>1. Moves(a, "idle", "none", "none", TRUE, 0)
        BY <2>2, <2>14, <3>3, LeaveMoves
      <4> QED
        BY <2>3, <2>14, <3>2, <3>3, <4>1, ClockMove
    <3>4. CASE ProbeReturns(a)
      <4>1. call[a].method = "enable" /\ call[a].ok
        BY <1>3, <2>1, <3>1, <3>4 DEF ProbeReturns, Role, Stage, RenesasStage
      <4>2. frame' = Transfer(dss.state) /\ call' = [call EXCEPT ![a] = Idle] /\ dss' = dss
        BY <3>4, <4>1 DEF ProbeReturns
      <4>3. CASE Active
        <5>1. frame' = [pending |-> TRUE, moving |-> TRUE, clk |-> frame.clk + 1]
          BY <1>3, <4>2, <4>3 DEF Transfer, Active, Renesas
        <5>2. frame.clk + 1 >= 1 /\ frame.clk + 1 >= 0
          BY <2>2, <2>3 DEF Clocks
        <5>3. Clocks' /\ Backed'
          BY <5>1, <5>2 DEF Clocks, Backed
        <5> QED
          BY <3>3, <4>2, <5>3
      <4>4. CASE ~Active
        <5>1. frame' = frame /\ ~Active'
          BY <4>2, <4>4 DEF Transfer, Active
        <5> QED
          BY <2>4, <3>3, <4>2, <5>1
      <4> QED
        BY <4>3, <4>4
    <3>5. CASE ~ProbeReturns(a)
      <4>1. call' = [call EXCEPT ![a] = Idle] /\ frame' = frame /\ dss'.state = dss.state
        BY <2>2, <2>14, <3>5 DEF Returned, StoreReturns, FreeResourcesReturns, SleepReturns, WakeReturns,
           Typed
      <4>2. Active' => Backed'
        BY <2>4, <3>1, <4>1 DEF ClockStage, Active
      <4> QED
        BY <2>4, <3>3, <4>1, <4>2
    <3> QED
      BY <3>4, <3>5
  <2>15. CASE FrameDone
    <3>1. frame.moving /\ UNCHANGED <<dss, call, fb>>
      BY <2>15 DEF FrameDone
    <3>2. frame.clk >= 1
      BY <2>3, <3>1 DEF Clocks
    <3>3. Clocks' /\ Backed'
      <4>1. CASE Active
        <5>1. frame' = [pending |-> TRUE, moving |-> TRUE, clk |-> frame.clk]
          BY <2>15, <4>1 DEF FrameDone, Active
        <5> QED
          BY <2>2, <3>2, <5>1 DEF Clocks, Backed
      <4>2. CASE ~Active
        <5>1. frame' = [pending |-> FALSE, moving |-> FALSE, clk |-> frame.clk - 1]
          BY <2>15, <4>2 DEF FrameDone, Active
        <5>2. frame.clk - 1 >= 0
          BY <2>2, <3>2
        <5> QED
          BY <5>1, <5>2 DEF Clocks, Backed
      <4> QED
        BY <4>1, <4>2
    <3>4. \A a \in Actors : call'[a].pc # "idle" => ClockStage(a)'
      BY <1>3, <2>1, <3>1, <3>3 DEF CInv, ClockStage
    <3> QED
      BY <2>3, <3>3, <3>4 DEF CInv
  <2> QED
    BY <2>8, <2>9, <2>10, <2>11, <2>12, <2>13, <2>14, <2>15 DEF Callers
<1> QED
  BY <1>2, <1>3

(***************************************************************************)
(* The clocks of the Renesas panel's frames are released only while they   *)
(* are held, until a blanked display is disabled or "enabled" is written,  *)
(* as long as no operation fails and calls do not overlap; other panels    *)
(* never touch them.                                                       *)
(***************************************************************************)
THEOREM ClocksInductive == Spec => []CInv
<1>1. Init => CInv
  <2> SUFFICES ASSUME Init PROVE CInv
    OBVIOUS
  <2>1. /\ over = {} /\ frame.clk = 0 /\ ~frame.moving /\ ~Active
        /\ \A a \in Actors : call[a].pc = "idle"
    BY DEF Init, Idle, Active
  <2> QED
    BY <2>1 DEF CInv, Clocks
<1>2. IInv /\ CInv /\ [Next]_dssVars => CInv'
  <2> SUFFICES ASSUME IInv, CInv, [Next]_dssVars PROVE CInv'
    OBVIOUS
  <2>1. CASE UNCHANGED dssVars
    BY <2>1 DEF dssVars, CInv, Tame, Flawless, Sound, Apart, Clocks, Backed, ClockStage, Active, Quiet, Busy
  <2> QED
    BY <2>1, CallerClocks, RenesasClocks, OtherPanelsClocks DEF Next
<1> QED
  BY <1>1, <1>2, PanelsInductive, PTL DEF Spec

-----------------------------------------------------------------------------

\* The rails of the Development panel light it, and no other panel has any.
Lit == IF panel = "Development" THEN chip <=> rails ELSE ~rails

(***************************************************************************)
(* The Development panel is lit exactly when its rails have been switched  *)
(* on, whatever is called and in whatever order: platform_enable switches  *)
(* them on and nobody switches them off.                                   *)
(***************************************************************************)
THEOREM RailsLight == Spec => []Lit
<1>1. Init => Lit
  BY DEF Init, Lit
<1>2. TypeOK /\ Lit /\ [Next]_dssVars => Lit'
  <2> SUFFICES ASSUME TypeOK, Lit, [Next]_dssVars PROVE Lit'
    OBVIOUS
  <2>1. CASE Callers
    <3>1. UNCHANGED <<panel, chip, rails>>
      BY <2>1 DEF Callers, DisplayEnabledStore, OmapfbBlank, UpdateWindow, OmapfbProbe, DssSuspendDevice,
         DssResumeDevice, Returned, FrameDone, hardware, system
    <3> QED
      BY <3>1 DEF Lit
  <2> USE DEF NothingToDo, Skip, Untouched, LinkOn, RegulatorOn, system, hardware
  <2>2. ASSUME NEW a \in Actors, TianmaStep(a) PROVE Lit'
    <3>1. panel # "Development" /\ UNCHANGED <<panel, rails>>
      BY <2>2 DEF TianmaStep, TianmaPowerOn, TianmaResume, TianmaLinkOn, TianmaVccOn, TianmaChipOn,
         TianmaPowerOff, TianmaSuspend, TianmaChipOff, TianmaVccOff, TianmaLinkOff, At, Tianma
    <3> QED
      BY <3>1 DEF Lit
  <2>3. ASSUME NEW a \in Actors, SamsungStep(a) PROVE Lit'
    <3>1. CASE SamsungChipOn(a)
      BY <3>1 DEF SamsungChipOn, Lit, TypeOK
    <3>2. CASE SamsungVccOff(a)
      BY <3>2 DEF SamsungVccOff, HasVcc, Lit, TypeOK
    <3>3. CASE ~SamsungChipOn(a) /\ ~SamsungVccOff(a)
      <4>1. UNCHANGED <<panel, chip, rails>>
        BY <2>3, <3>3 DEF SamsungStep, SamsungPowerOn, SamsungLinkOn, SamsungVccOn, SamsungSettleOn,
           SamsungPowerOff, SamsungLinkOff, SamsungSettleOff
      <4> QED
        BY <4>1 DEF Lit
    <3> QED
      BY <3>1, <3>2, <3>3
  <2>4. ASSUME NEW a \in Actors, RenesasStep(a) PROVE Lit'
    <3>1. panel # "Development" /\ UNCHANGED <<panel, rails>>
      BY <2>4 DEF RenesasStep, RenesasPowerOn, RenesasVccOn, RenesasLinkOn, RenesasChipOn, RenesasSettleOn,
         RenesasPowerOff, RenesasChipOff, RenesasVccOff, RenesasSettleOff, At, Renesas
    <3> QED
      BY <3>1 DEF Lit
  <2>5. CASE UNCHANGED dssVars
    BY <2>5 DEF dssVars, Lit
  <2> QED
    BY <2>1, <2>2, <2>3, <2>4, <2>5 DEF Next
<1>3. IInv => TypeOK
  BY DEF IInv
<1> QED
  BY <1>1, <1>2, <1>3, PanelsInductive, PTL DEF Spec

-----------------------------------------------------------------------------

(***************************************************************************)
(* Calls that do not overlap and do not fail leave the regulator and the   *)
(* output on exactly while the display is ACTIVE, release what is held and *)
(* no more, and keep the driver's flags in step with the state: on the     *)
(* Tianma panel as long as no blanked display was disabled, and but for    *)
(* the frame clocks of the Renesas panel, which may be released a second   *)
(* time once a blanked display was disabled or "enabled" was written.      *)
(***************************************************************************)
THEOREM AlwaysPowerFollowsState == Spec => []PowerFollowsState
<1>1. IInv /\ CInv => PowerFollowsState
  <2> SUFFICES ASSUME IInv, CInv, Settled, ~Happened({"fault", "overlap"} \cup Spoilt)
               PROVE  /\ HasVcc => vcc = On /\ (chip <=> dss.state = "ACTIVE")
                      /\ link = On
                      /\ over \subseteq IF panel \in Renesas /\ Happened({"blanked", "reenabled"})
                                        THEN {"clk"} ELSE {}
                      /\ panel \in Renesas \/ Happened({"blanked"}) \/ FlagsAgree
    BY DEF PowerFollowsState
  <2>1. Rest /\ Held /\ Typed
    BY Types DEF Settled, IInv
  <2>2. Sound /\ (panel \in Tianma => Flawless) /\ (~Happened({"blanked"}) => Flawless)
    BY DEF Happened, Spoilt, Sound, Apart, Flawless
  <2>3. over \subseteq IF panel \in Renesas /\ Happened({"blanked", "reenabled"}) THEN {"clk"} ELSE {}
    <3>1. over \subseteq {"clk"}
      BY <2>1, <2>2 DEF Held
    <3>2. "clk" \in over => panel \in Renesas /\ Happened({"blanked", "reenabled"})
      BY <2>2 DEF CInv, Tame, Flawless, Happened
    <3> QED
      BY <3>1, <3>2
  <2>4. dss.state \in States /\ drv.enabled \in BOOLEAN /\ drv.suspended \in BOOLEAN /\ chip \in BOOLEAN
    BY <2>1 DEF Typed
  <2>5. CASE panel \in Tianma
    <3>1. TianmaDark /\ TianmaPower
      BY <2>1, <2>2, <2>5 DEF Rest, TianmaRest, Flawless, Unmixed, Sound
    <3>2. FlagsAgree
      BY <2>4, <2>5, <3>1 DEF TianmaDark, TianmaPower, FlagsAgree, States, Suspended, Disabled
    <3> QED
      BY <2>3, <3>1, <3>2 DEF TianmaPower, Active
  <2>6. CASE panel \in Samsung
    <3>1. SamsungPower /\ (~Happened({"blanked"}) => SamsungFlags)
      BY <2>1, <2>2, <2>6 DEF Rest, SamsungRest
    <3>2. panel \notin Tianma
      BY <2>6 DEF Samsung, Tianma
    <3>3. ~Happened({"blanked"}) => FlagsAgree
      BY <2>4, <3>1, <3>2 DEF SamsungFlags, FlagsAgree, Active, Suspended
    <3> QED
      BY <2>3, <3>1, <3>3 DEF SamsungPower, Active
  <2>7. CASE panel \in Renesas
    <3>1. RenesasPower
      BY <2>1, <2>2, <2>7 DEF Rest, RenesasRest
    <3> QED
      BY <2>3, <2>7, <3>1 DEF RenesasPower, Active
  <2> QED
    BY <2>1, <2>5, <2>6, <2>7 DEF Typed, Panels, Tianma, Samsung, Renesas
<1> QED
  BY <1>1, PanelsInductive, ClocksInductive, PTL

(***************************************************************************)
(* While the Renesas panel is ACTIVE a frame is under way and holds its    *)
(* clocks once, and otherwise none is, as long as nothing failed, calls    *)
(* did not overlap and nobody started frames by other ways.                *)
(***************************************************************************)
THEOREM AlwaysFramesFlow == Spec => []FramesFlow
<1>1. IInv => FramesFlow
  <2> SUFFICES ASSUME IInv, Settled, panel \in Renesas, astray = {}
               PROVE  (frame.moving <=> dss.state = "ACTIVE") /\ frame.clk = On /\ over = {}
    BY DEF FramesFlow
  <2>1. Flowing
    BY DEF Settled, IInv, Rest, RenesasRest
  <2>2. over = {}
    BY DEF IInv, Held
  <2> QED
    BY <2>1, <2>2 DEF Flowing, Active
<1> QED
  BY <1>1, PanelsInductive, PTL

(***************************************************************************)
(* A suspended system keeps its panel dark, whatever operations failed,    *)
(* unless calls overlapped or, on the Tianma panel, a blanked display was  *)
(* disabled; all but the Development panel, which is lit once its rails    *)
(* have been switched on.                                                  *)
(***************************************************************************)
THEOREM AlwaysDarkAsleep == Spec => []DarkAsleep
<1>1. IInv /\ Lit => DarkAsleep
  <2> SUFFICES ASSUME IInv, Lit, asleep, Quiet, ~Happened({"overlap"} \cup Spoilt)
               PROVE  chip <=> panel = "Development" /\ rails
    BY DEF DarkAsleep
  <2>1. Rest /\ Sleeping /\ Typed
    BY Types DEF IInv
  <2>2. Apart /\ (panel \in Tianma => Unmixed)
    BY DEF Happened, Spoilt, Apart, Unmixed
  <2>3. call[Kernel].pc = "idle"
    BY DEF Quiet, Busy, Actors
  <2>4. ~Active
    BY <2>1, <2>2, <2>3 DEF Sleeping
  <2>5. panel \in Tianma => ~chip
    BY <2>1, <2>2, <2>4 DEF Rest, TianmaRest, TianmaDark
  <2>6. panel = "Samsung" => ~chip
    BY <2>1, <2>2, <2>4 DEF Rest, SamsungRest, SamsungDark, Samsung, HasVcc
  <2>7. panel \in Renesas => ~chip
    BY <2>1, <2>2, <2>4 DEF Rest, RenesasRest, RenesasDark
  <2> QED
    BY <2>1, <2>5, <2>6, <2>7 DEF Typed, Panels, Tianma, Renesas, Lit
<1> QED
  BY <1>1, PanelsInductive, RailsLight, PTL

(***************************************************************************)
(* A resume of the Renesas panel that returns while fewer than half of     *)
(* WAKE_RETRY_COUNT operations have failed so far has woken the panel,     *)
(* whatever WAKE_RETRY_COUNT is: an attempt that fails in init_display     *)
(* costs the next one too.                                                 *)
(***************************************************************************)
THEOREM AlwaysWakesDespiteFaults == Spec => []WakesDespiteFaults
<1>1. IInv => WakesDespiteFaults
  <2> SUFFICES ASSUME IInv, NEW a \in Actors, At(a, "returned", Renesas), In(a, "resume"),
                      2 * faults < WakeRetryCount, ~Happened({"overlap"})
               PROVE  chip /\ frame.moving /\ link = 1
    BY DEF WakesDespiteFaults
  <2>1. call[a].pc = "returned" /\ panel \in Renesas /\ call[a].method = "resume" /\ Apart
    BY DEF At, In, Happened, Apart
  <2>2. Stage(a)
    BY <2>1 DEF IInv
  <2> QED
    BY <2>1, <2>2 DEF Stage, RenesasStage
<1> QED
  BY <1>1, PanelsInductive, PTL

\* No step of a driver's method ends a system suspend.
LEMMA MethodsStayAsleep ==
    ASSUME NEW a \in Actors, TianmaStep(a) \/ SamsungStep(a) \/ RenesasStep(a)
    PROVE  asleep' = asleep
<1> USE DEF NothingToDo, Skip, Untouched, LinkOn, RegulatorOn, system
<1>1. CASE TianmaStep(a)
  BY <1>1 DEF TianmaStep, TianmaPowerOn, TianmaResume, TianmaLinkOn, TianmaVccOn, TianmaChipOn,
     TianmaPowerOff, TianmaSuspend, TianmaChipOff, TianmaVccOff, TianmaLinkOff
<1>2. CASE SamsungStep(a)
  BY <1>2 DEF SamsungStep, SamsungPowerOn, SamsungLinkOn, SamsungVccOn, SamsungChipOn, SamsungSettleOn,
     SamsungPowerOff, SamsungVccOff, SamsungLinkOff, SamsungSettleOff
<1>3. CASE RenesasStep(a)
  BY <1>3 DEF RenesasStep, RenesasPowerOn, RenesasVccOn, RenesasLinkOn, RenesasChipOn, RenesasSettleOn,
     RenesasPowerOff, RenesasChipOff, RenesasVccOff, RenesasSettleOff
<1> QED
  BY <1>1, <1>2, <1>3

(***************************************************************************)
(* A system resume leaves the display in the state that the suspend before *)
(* it found, unless an operation failed in between.                        *)
(***************************************************************************)
THEOREM AlwaysComesBack == Spec => ComesBack
<1>1. ASSUME IInv, [Next]_dssVars, asleep, ~asleep', faults = before.faults
      PROVE  dss.state' = before.state
  <2>1. CASE DssResumeDevice
    <3>1. ~dss.activate /\ dss' = dss
      BY <1>1, <2>1 DEF DssResumeDevice
    <3> QED
      BY <1>1, <3>1 DEF IInv, Round
  <2>2. ASSUME NEW a \in Actors, Returned(a)
        PROVE  dss.state' = before.state
    <3>1. WakeReturns(a) /\ call[a].pc = "returned"
      BY <1>1, <2>2 DEF Returned, StoreReturns, ProbeReturns, FreeResourcesReturns, SleepReturns
    <3>2. call[a].via = "wake" /\ Role(a) /\ Typed
      BY <1>1, <3>1, Types DEF WakeReturns, IInv
    <3>3. a = Kernel
      BY <3>2 DEF Role
    <3>4. Active /\ dss.activate
      BY <1>1, <3>1, <3>2, <3>3 DEF IInv, Round, Active
    <3>5. before.state = "ACTIVE"
      BY <1>1, <3>4 DEF IInv, Round
    <3>6. dss'.state = dss.state
      BY <3>1, <3>2 DEF WakeReturns, Typed
    <3> QED
      BY <3>4, <3>5, <3>6 DEF Active
  <2>3. asleep' = asleep \/ DssResumeDevice \/ \E a \in Actors : Returned(a)
    <3>1. CASE Callers
      BY <1>1, <3>1 DEF Callers, DisplayEnabledStore, OmapfbBlank, UpdateWindow, OmapfbProbe, system,
         DssSuspendDevice, Begin, FrameDone
    <3>2. CASE UNCHANGED dssVars
      BY <3>2 DEF dssVars
    <3> QED
      BY <1>1, <3>1, <3>2, MethodsStayAsleep DEF Next
  <2> QED
    BY <1>1, <2>1, <2>2, <2>3
<1>2. IInv /\ [Next]_dssVars =>
          [asleep /\ ~asleep' /\ faults = before.faults => dss.state' = before.state]_dssVars
  BY <1>1
<1> QED
  BY <1>2, PanelsInductive, PTL DEF Spec, ComesBack

===============================================================================
