---------------------------- MODULE PanelDrivers ----------------------------
(***************************************************************************)
(* The methods of the three panel drivers, cut where another actor can get *)
(* in between: every call into the regulator, the display controller or    *)
(* the panel sleeps or waits for milliseconds.  None of the drivers holds  *)
(* a lock across a method; the Tianma driver tests and sets its enabled    *)
(* flag under a spin lock, the others look at the state without one.       *)
(***************************************************************************)
EXTENDS DssDevice

CONSTANT WakeRetryCount     \* WAKE_RETRY_COUNT of the Renesas driver, 5 there

ASSUME WakeRetryAssumption == WakeRetryCount \in Nat \ {0}

Tianma == {"Tianma"}
Samsung == {"Samsung", "Development"}
Renesas == {"Renesas"}

At(a, p, P) == call[a].pc = p /\ panel \in P
In(a, m) == call[a].method = m

\* Steps that change one thing only, and a method that finds nothing to do.
Untouched == UNCHANGED <<dss, drv, hardware, system>>
Skip(a, p) == Goto(a, p) /\ NoFault /\ Untouched
NothingToDo(a) == Return(a, TRUE) /\ NoFault /\ Untouched

LinkOn(a, p) ==
    /\ link' = link + 1
    /\ Goto(a, p)
    /\ NoFault
    /\ UNCHANGED <<dss, drv, vcc, chip, rails, frame, over, system>>

RegulatorOn(a, p) ==
    /\ VccOn
    /\ Goto(a, p)
    /\ NoFault
    /\ UNCHANGED <<dss, drv, link, chip, rails, frame, over, system>>

(***************************************************************************)
(* Tianma TM025ZDZ01.  enable and disable are guarded by the enabled flag, *)
(* suspend and resume by the suspended flag, and neither looks at the      *)
(* other's.  The result of the DPI output is overwritten by that of the    *)
(* regulator, whose failure undoes nothing.                                *)
(***************************************************************************)
TianmaPowerOn(a) ==
    /\ At(a, "start", Tianma)
    /\ In(a, "enable")
    /\ IF drv.enabled
       THEN NothingToDo(a)
       ELSE /\ drv' = [drv EXCEPT !.enabled = TRUE]
            /\ Goto(a, "linkOn")
            /\ NoFault
            /\ UNCHANGED <<dss, hardware, system>>

TianmaResume(a) ==
    /\ At(a, "start", Tianma)
    /\ In(a, "resume")
    /\ IF drv.suspended THEN Skip(a, "linkOn") ELSE NothingToDo(a)

TianmaLinkOn(a) ==
    /\ At(a, "linkOn", Tianma)
    /\ \/ LinkOn(a, "vccOn")
       \/ Fault /\ Goto(a, "vccOn") /\ Untouched

TianmaVccOn(a) ==
    /\ At(a, "vccOn", Tianma)
    /\ \/ RegulatorOn(a, "chipOn")
       \/ Fault /\ Return(a, FALSE) /\ Untouched

\* Mutant of TianmaChipOn: resume forgets to clear the suspended flag.
TianmaStaysSuspended(a) ==
    /\ At(a, "chipOn", Tianma)
    /\ chip' = TRUE
    /\ dss' = [dss EXCEPT !.state = "ACTIVE"]
    /\ Return(a, TRUE)
    /\ NoFault
    /\ UNCHANGED <<drv, vcc, link, rails, frame, over, system>>

TianmaChipOn(a) ==
    /\ At(a, "chipOn", Tianma)
    /\ chip' = TRUE
    /\ dss' = [dss EXCEPT !.state = "ACTIVE"]
    /\ drv' = IF In(a, "resume") THEN [drv EXCEPT !.suspended = FALSE] ELSE drv
    /\ Return(a, TRUE)
    /\ NoFault
    /\ UNCHANGED <<vcc, link, rails, frame, over, system>>

TianmaPowerOff(a) ==
    /\ At(a, "start", Tianma)
    /\ In(a, "disable")
    /\ IF drv.enabled
       THEN /\ drv' = [drv EXCEPT !.enabled = FALSE]
            /\ Goto(a, "chipOff")
            /\ NoFault
            /\ UNCHANGED <<dss, hardware, system>>
       ELSE NothingToDo(a)

TianmaSuspend(a) ==
    /\ At(a, "start", Tianma)
    /\ In(a, "suspend")
    /\ IF drv.suspended THEN NothingToDo(a) ELSE Skip(a, "chipOff")

TianmaChipOff(a) ==
    /\ At(a, "chipOff", Tianma)
    /\ chip' = FALSE
    /\ Goto(a, "vccOff")
    /\ NoFault
    /\ UNCHANGED <<dss, drv, vcc, link, rails, frame, over, system>>

TianmaVccOff(a) ==
    /\ At(a, "vccOff", Tianma)
    /\ VccOff
    /\ Goto(a, "linkOff")
    /\ NoFault
    /\ UNCHANGED <<dss, drv, link, chip, rails, frame, system>>

TianmaLinkOff(a) ==
    /\ At(a, "linkOff", Tianma)
    /\ LinkOff
    /\ dss' = [dss EXCEPT !.state = IF In(a, "suspend") THEN "SUSPENDED" ELSE "DISABLED"]
    /\ drv' = IF In(a, "suspend") THEN [drv EXCEPT !.suspended = TRUE] ELSE drv
    /\ Return(a, TRUE)
    /\ NoFault
    /\ UNCHANGED <<vcc, chip, rails, frame, system>>

(***************************************************************************)
(* Samsung LMS350DF03.  power_on does nothing while the display is ACTIVE, *)
(* power_off nothing while it is not.  enable sets ACTIVE whatever         *)
(* power_on returned; suspend and resume set the state only where the      *)
(* suspended flag changes.  Nobody calls the panel's own power-off         *)
(* sequence or the board's platform_disable: the panel goes dark because   *)
(* its regulator does, where it has one.                                   *)
(***************************************************************************)
SamsungPowerOn(a) ==
    /\ At(a, "start", Samsung)
    /\ call[a].method \in {"enable", "resume"}
    /\ Skip(a, IF dss.state = "ACTIVE" THEN "settleOn" ELSE "linkOn")

SamsungLinkOn(a) ==
    /\ At(a, "linkOn", Samsung)
    /\ \/ LinkOn(a, "vccOn")
       \/ /\ Fault
          /\ call' = [call EXCEPT ![a].pc = "settleOn", ![a].ok = FALSE]
          /\ Untouched

\* A regulator that fails: platform_disable, then the DPI output off.
SamsungVccOn(a) ==
    /\ At(a, "vccOn", Samsung)
    /\ \/ RegulatorOn(a, "chipOn")
       \/ /\ HasVcc
          /\ Fault
          /\ LinkOff
          /\ call' = [call EXCEPT ![a].pc = "settleOn", ![a].ok = FALSE]
          /\ UNCHANGED <<dss, drv, vcc, chip, rails, frame, system>>

SamsungChipOn(a) ==
    /\ At(a, "chipOn", Samsung)
    /\ rails' = (rails \/ panel = "Development")
    /\ chip' = TRUE
    /\ drv' = [drv EXCEPT !.enabled = TRUE]
    /\ dss' = [dss EXCEPT !.state = "ACTIVE"]
    /\ Goto(a, "settleOn")
    /\ NoFault
    /\ UNCHANGED <<vcc, link, frame, over, system>>

SamsungSettleOn(a) ==
    /\ At(a, "settleOn", Samsung)
    /\ IF In(a, "enable")
       THEN /\ dss' = [dss EXCEPT !.state = "ACTIVE"]
            /\ UNCHANGED drv
       ELSE IF call[a].ok /\ drv.suspended
            THEN /\ dss' = [dss EXCEPT !.state = "ACTIVE"]
                 /\ drv' = [drv EXCEPT !.suspended = FALSE]
            ELSE UNCHANGED <<dss, drv>>
    /\ Return(a, call[a].ok)
    /\ NoFault
    /\ UNCHANGED <<hardware, system>>

SamsungPowerOff(a) ==
    /\ At(a, "start", Samsung)
    /\ call[a].method \in {"disable", "suspend"}
    /\ Skip(a, IF dss.state = "ACTIVE" THEN "vccOff" ELSE "settleOff")

SamsungVccOff(a) ==
    /\ At(a, "vccOff", Samsung)
    /\ VccOff
    /\ chip' = (chip /\ (~HasVcc \/ vcc > 1))
    /\ Goto(a, "linkOff")
    /\ NoFault
    /\ UNCHANGED <<dss, drv, link, rails, frame, system>>

SamsungLinkOff(a) ==
    /\ At(a, "linkOff", Samsung)
    /\ LinkOff
    /\ drv' = [drv EXCEPT !.enabled = FALSE]
    /\ dss' = [dss EXCEPT !.state = "DISABLED"]
    /\ Goto(a, "settleOff")
    /\ NoFault
    /\ UNCHANGED <<vcc, chip, rails, frame, system>>

SamsungSettleOff(a) ==
    /\ At(a, "settleOff", Samsung)
    /\ IF In(a, "disable")
       THEN /\ dss' = [dss EXCEPT !.state = "DISABLED"]
            /\ UNCHANGED drv
       ELSE IF drv.suspended
            THEN UNCHANGED <<dss, drv>>
            ELSE /\ dss' = [dss EXCEPT !.state = "SUSPENDED"]
                 /\ drv' = [drv EXCEPT !.suspended = TRUE]
    /\ Return(a, TRUE)
    /\ NoFault
    /\ UNCHANGED <<hardware, system>>

(***************************************************************************)
(* Renesas R61529a1, on the RFBI.  power_on does nothing while the display *)
(* is ACTIVE and undoes nothing but the RFBI's own failure.  A handler     *)
(* that is still registered from an earlier attempt makes the RFBI fail.   *)
(***************************************************************************)
RenesasFailedOn(a) == call' = [call EXCEPT ![a].pc = "settleOn", ![a].ok = FALSE]

RenesasPowerOn(a) ==
    /\ At(a, "start", Renesas)
    /\ call[a].method \in {"enable", "resume"}
    /\ IF dss.state = "ACTIVE"
       THEN call' = [call EXCEPT ![a].pc = "settleOn", ![a].ok = TRUE]
       ELSE Goto(a, "vccOn")
    /\ NoFault
    /\ Untouched

RenesasVccOn(a) ==
    /\ At(a, "vccOn", Renesas)
    /\ \/ RegulatorOn(a, "linkOn")
       \/ Fault /\ RenesasFailedOn(a) /\ Untouched

\* Mutant of FrameStopped: the clocks of the frame are kept.
FrameClocksKept ==
    /\ frame' = [frame EXCEPT !.moving = FALSE]
    /\ UNCHANGED over

\* What omapdss_rfbi_display_disable does to a frame.  It does not clear refresh_pending:
\* called again it drops the clocks again.
FrameStopped ==
    /\ frame' = IF frame.pending
                THEN [frame EXCEPT !.moving = FALSE, !.clk = @ - 1]
                ELSE frame
    /\ over' = IF frame.pending /\ frame.clk <= 0 THEN over \cup {"clk"} ELSE over

\* Mutant of RenesasLinkOn: the error path leaves the RFBI as it is.
RenesasHandlerKept(a) ==
    /\ At(a, "linkOn", Renesas)
    /\ IF link = 0
       THEN LinkOn(a, "chipOn")
       ELSE RenesasFailedOn(a) /\ NoFault /\ Untouched

RenesasLinkOn(a) ==
    /\ At(a, "linkOn", Renesas)
    /\ IF link = 0
       THEN LinkOn(a, "chipOn")
       ELSE /\ link' = 0
            /\ FrameStopped
            /\ RenesasFailedOn(a)
            /\ NoFault
            /\ UNCHANGED <<dss, drv, vcc, chip, rails, system>>

\* init_display asks the controller for its code: a panel that does not wake fails here.
RenesasChipOn(a) ==
    /\ At(a, "chipOn", Renesas)
    /\ \/ /\ chip' = TRUE
          /\ call' = [call EXCEPT ![a].pc = "settleOn", ![a].ok = TRUE]
          /\ NoFault
          /\ UNCHANGED <<dss, drv, vcc, link, rails, frame, over, system>>
       \/ Fault /\ RenesasFailedOn(a) /\ Untouched

\* enable passes the error on; resume tries again, and says ACTIVE in the end.
RenesasSettleOn(a) ==
    /\ At(a, "settleOn", Renesas)
    /\ IF In(a, "resume") /\ ~call[a].ok /\ call[a].tries + 1 < WakeRetryCount
       THEN /\ call' = [call EXCEPT ![a].pc = "start", ![a].tries = @ + 1]
            /\ UNCHANGED <<dss, frame>>
       ELSE /\ dss' = IF In(a, "resume") \/ call[a].ok
                      THEN [dss EXCEPT !.state = "ACTIVE"]
                      ELSE dss
            /\ frame' = IF In(a, "resume") THEN Transfer("ACTIVE") ELSE frame
            /\ Return(a, In(a, "resume") \/ call[a].ok)
    /\ NoFault
    /\ UNCHANGED <<drv, vcc, link, chip, rails, over, system>>

RenesasPowerOff(a) ==
    /\ At(a, "start", Renesas)
    /\ call[a].method \in {"disable", "suspend"}
    /\ link' = 0
    /\ FrameStopped
    /\ Goto(a, "chipOff")
    /\ NoFault
    /\ UNCHANGED <<dss, drv, vcc, chip, rails, system>>

RenesasChipOff(a) ==
    /\ At(a, "chipOff", Renesas)
    /\ chip' = FALSE
    /\ Goto(a, "vccOff")
    /\ NoFault
    /\ UNCHANGED <<dss, drv, vcc, link, rails, frame, over, system>>

\* Mutant of RenesasVccOff: the state is not looked at.
RenesasVccOffAlways(a) ==
    /\ At(a, "vccOff", Renesas)
    /\ VccOff
    /\ Goto(a, "settleOff")
    /\ NoFault
    /\ UNCHANGED <<dss, drv, link, chip, rails, frame, system>>

RenesasVccOff(a) ==
    /\ At(a, "vccOff", Renesas)
    /\ IF dss.state = "ACTIVE" THEN VccOff ELSE UNCHANGED <<vcc, over>>
    /\ Goto(a, "settleOff")
    /\ NoFault
    /\ UNCHANGED <<dss, drv, link, chip, rails, frame, system>>

RenesasSettleOff(a) ==
    /\ At(a, "settleOff", Renesas)
    /\ dss' = [dss EXCEPT !.state = IF In(a, "suspend") THEN "SUSPENDED" ELSE "DISABLED"]
    /\ Return(a, TRUE)
    /\ NoFault
    /\ UNCHANGED <<drv, hardware, system>>

TianmaStep(a) ==
    \/ TianmaPowerOn(a) \/ TianmaResume(a)
    \/ TianmaLinkOn(a) \/ TianmaVccOn(a) \/ TianmaChipOn(a)
    \/ TianmaPowerOff(a) \/ TianmaSuspend(a)
    \/ TianmaChipOff(a) \/ TianmaVccOff(a) \/ TianmaLinkOff(a)

SamsungStep(a) ==
    \/ SamsungPowerOn(a) \/ SamsungLinkOn(a) \/ SamsungVccOn(a) \/ SamsungChipOn(a)
    \/ SamsungSettleOn(a)
    \/ SamsungPowerOff(a) \/ SamsungVccOff(a) \/ SamsungLinkOff(a) \/ SamsungSettleOff(a)

RenesasStep(a) ==
    \/ RenesasPowerOn(a) \/ RenesasVccOn(a) \/ RenesasLinkOn(a) \/ RenesasChipOn(a)
    \/ RenesasSettleOn(a)
    \/ RenesasPowerOff(a) \/ RenesasChipOff(a) \/ RenesasVccOff(a) \/ RenesasSettleOff(a)

Next ==
    \/ Callers
    \/ \E a \in Actors : TianmaStep(a) \/ SamsungStep(a) \/ RenesasStep(a)

Spec == Init /\ [][Next]_dssVars

-----------------------------------------------------------------------------
Resources == {"vcc", "link", "clk"}

\* Every variable keeps its type.  The clocks of frames may go below zero, at the
\* expense of whoever else holds them.
TypeOK ==
    /\ panel \in Panels
    /\ dss \in [state : States, activate : BOOLEAN]
    /\ drv \in [enabled : BOOLEAN, suspended : BOOLEAN]
    /\ vcc \in Nat
    /\ link \in Nat
    /\ chip \in BOOLEAN
    /\ rails \in BOOLEAN
    /\ frame \in [pending : BOOLEAN, moving : BOOLEAN, clk : Int]
    /\ fb \in {"none", "up", "gone"}
    /\ fblock \subseteq Tasks
    /\ call \in [Actors ->
          [pc : {"idle", "start", "linkOn", "vccOn", "chipOn", "settleOn",
                 "chipOff", "vccOff", "linkOff", "settleOff", "returned"},
           method : {"none", "enable", "disable", "suspend", "resume"},
           via : {"none", "store", "blank", "probe", "free", "sleep", "wake"},
           ok : BOOLEAN, tries : Nat]]
    /\ asleep \in BOOLEAN
    /\ calls \in 0..MaxCalls
    /\ faults \in 0..MaxFaults
    /\ astray \subseteq {"fault", "overlap", "blanked", "reenabled", "redrawn"}
    /\ over \subseteq Resources
    /\ before \in [state : States, faults : 0..MaxFaults]

Settled == Quiet /\ fb # "none"
Happened(R) == astray \cap R # {}
Spoilt == IF panel \in Tianma THEN {"blanked"} ELSE {}
On == IF dss.state = "ACTIVE" THEN 1 ELSE 0

FlagsAgree ==
    /\ drv.suspended <=> dss.state = "SUSPENDED"
    /\ drv.enabled <=> dss.state \in {"ACTIVE"} \cup
                                    IF panel \in Tianma THEN {"SUSPENDED"} ELSE {}

(***************************************************************************)
(* Whatever sequence of enables, disables, blanks and system suspends, as  *)
(* long as they come one after the other and no operation fails, the       *)
(* regulator and the output are on exactly while the display is ACTIVE, so *)
(* is the panel, and what is released was held.  Exceptions, all of them   *)
(* the code's:                                                             *)
(*   - on the Tianma panel a disable of a blanked display releases the     *)
(*     regulator and the output a second time;                             *)
(*   - the Renesas panel releases the clocks of a frame a second time on a *)
(*     disable of a blanked display, and on the first one that follows an  *)
(*     enable by sysfs, which draws no frame: refresh_pending stays set;   *)
(*   - the Development panel has no regulator, and once on stays on;       *)
(*   - the drivers' own flags agree with the state as well (the Renesas    *)
(*     driver has none), but for a disable of a blanked display, which     *)
(*     leaves the suspended flag set.                                      *)
(***************************************************************************)
PowerFollowsState ==
    Settled /\ ~Happened({"fault", "overlap"} \cup Spoilt)
        => /\ HasVcc => vcc = On /\ (chip <=> dss.state = "ACTIVE")
           /\ link = On
           /\ over \subseteq IF panel \in Renesas /\ Happened({"blanked", "reenabled"}) THEN {"clk"} ELSE {}
           /\ panel \in Renesas \/ Happened({"blanked"}) \/ FlagsAgree

(***************************************************************************)
(* The Renesas panel is drawn by a chain of frames, each started by the    *)
(* end of the one before: while it is ACTIVE a frame is under way and its  *)
(* clocks are held once; otherwise none is.  That is so of blanks and      *)
(* system suspends one after the other, and of the first disable.          *)
(* Exceptions: "enabled" written by sysfs starts no frame; an update by    *)
(* ioctl starts a second one; a disable of a blanked display drops clocks  *)
(* that are not held; and nothing is claimed once an operation has failed  *)
(* or calls have overlapped.                                               *)
(***************************************************************************)
FramesFlow ==
    Settled /\ panel \in Renesas /\ astray = {}
        => /\ frame.moving <=> dss.state = "ACTIVE"
           /\ frame.clk = On
           /\ over = {}

(***************************************************************************)
(* A suspended system does not light its panel, failed operations          *)
(* included.  Exceptions: the Development panel, whose rails nobody        *)
(* switches off, is lit in every suspend once it has been enabled; calls   *)
(* that overlapped may leave any panel lit, and on the Tianma panel so may *)
(* a disable of a blanked display.                                         *)
(***************************************************************************)
DarkAsleep ==
    asleep /\ Quiet /\ ~Happened({"overlap"} \cup Spoilt)
        => (chip <=> panel = "Development" /\ rails)

(***************************************************************************)
(* resume of the Renesas panel tries WAKE_RETRY_COUNT times, but an        *)
(* attempt that fails in init_display leaves the FRAMEDONE handler         *)
(* registered, and the next one fails for that reason alone: of the five   *)
(* attempts two may fail, not four, and the panel still wakes.             *)
(***************************************************************************)
WakesDespiteFaults ==
    \A a \in Actors :
        At(a, "returned", Renesas) /\ In(a, "resume")
        /\ 2 * faults < WakeRetryCount /\ ~Happened({"overlap"})
            => chip /\ frame.moving /\ link = 1

(***************************************************************************)
(* System resume gives back the state system suspend found, whatever       *)
(* happened before it, unless an operation fails in between.               *)
(***************************************************************************)
ComesBack ==
    [][asleep /\ ~asleep' /\ faults = before.faults => dss.state' = before.state]_dssVars

(***************************************************************************)
(* The rule of the regulator core: calls to regulator_enable must be       *)
(* balanced with calls to regulator_disable, so that no disable finds the  *)
(* regulator unused.                                                       *)
(***************************************************************************)
RegulatorBalanced == "vcc" \notin over

=============================================================================
