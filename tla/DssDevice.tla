------------------------------ MODULE DssDevice ------------------------------
(***************************************************************************)
(* The display of the thermostat as the display subsystem (omapdss) and    *)
(* the frame buffer (omapfb) see it: one omap_dss_device whose driver has  *)
(* the methods enable, disable, suspend and resume.  They are called from  *)
(* the sysfs attribute "enabled", which takes no lock; from omapfb_blank,  *)
(* under the frame buffer's lock; from the probe of the frame buffer; and  *)
(* from system suspend and resume, when user processes are frozen.         *)
(* PanelDrivers has the methods of the three panels.                       *)
(***************************************************************************)
EXTENDS Integers, FiniteSets

CONSTANTS
    Tasks,      \* user processes that write "enabled", blank or update the frame buffer
    MaxCalls,   \* bound: calls made after the boot, system suspends included
    MaxFaults   \* bound: operations of the hardware that fail

(***************************************************************************)
(* "Development" is the Samsung panel of the development board: it has no  *)
(* regulator, the board's platform_enable switches its rails.              *)
(***************************************************************************)
Panels == {"Tianma", "Samsung", "Development", "Renesas"}
States == {"DISABLED", "ACTIVE", "SUSPENDED"}
Kernel == "kernel"      \* the thread of the boot and of system suspend and resume
Actors == Tasks \cup {Kernel}

ASSUME DssAssumption ==
    /\ Tasks # {} /\ Kernel \notin Tasks
    /\ MaxCalls \in Nat /\ MaxFaults \in Nat

VARIABLES
    panel,      \* which panel the board has
    dss,        \* the omap_dss_device: state, activate_after_resume
    drv,        \* the driver's device: enabled, suspended
    vcc,        \* use count of the panel's regulator
    link,       \* enables of the DPI output; of the RFBI output: its FRAMEDONE handler
    chip,       \* the panel controller is out of sleep and displays
    rails,      \* lcd_enabled of the board file
    frame,      \* RFBI: refresh_pending, a transfer is under way, clocks taken less clocks dropped
    fb,         \* the frame buffer: "none", "up", "gone"
    fblock,     \* who holds the frame buffer's lock, or {}
    call,       \* for each actor: where it is in which method, for whom, the result, the tries
    asleep,     \* the system is suspended
    calls,      \* number of calls begun
    faults,     \* number of failed operations
    astray,     \* history: what happened that leaves the bookkeeping wrong
    over,       \* history: resources released that were not held
    before      \* history: state and faults when the system was last suspended

dssVars == <<panel, dss, drv, vcc, link, chip, rails, frame, fb, fblock, call,
             asleep, calls, faults, astray, over, before>>
hardware == <<vcc, link, chip, rails, frame, over>>
system == <<panel, fb, fblock, asleep, calls, before>>

Idle == [pc |-> "idle", method |-> "none", via |-> "none", ok |-> TRUE, tries |-> 0]

Init ==
    /\ panel \in Panels
    /\ dss = [state |-> "DISABLED", activate |-> FALSE]
    /\ drv = [enabled |-> FALSE, suspended |-> FALSE]
    /\ vcc = 0
    /\ link = 0
    /\ chip = FALSE
    /\ rails = FALSE
    /\ frame = [pending |-> FALSE, moving |-> FALSE, clk |-> 0]
    /\ fb = "none"
    /\ fblock = {}
    /\ call = [a \in Actors |-> Idle]
    /\ asleep = FALSE
    /\ calls = 0
    /\ faults = 0
    /\ astray = {}
    /\ over = {}
    /\ before = [state |-> "DISABLED", faults |-> 0]

Busy == {a \in Actors : call[a].pc # "idle"}
Quiet == Busy = {}

(***************************************************************************)
(* The resources.  regulator_disable refuses what is not held, and the DPI *)
(* output is disabled when it is; the clocks of a frame are counted down   *)
(* all the same, with a warning only.  over remembers what was released    *)
(* without being held.                                                     *)
(***************************************************************************)
HasVcc == panel # "Development"
Less(n) == IF n = 0 THEN 0 ELSE n - 1

VccOn == vcc' = IF HasVcc THEN vcc + 1 ELSE vcc

VccOff ==
    /\ vcc' = IF HasVcc THEN Less(vcc) ELSE vcc
    /\ over' = IF HasVcc /\ vcc = 0 THEN over \cup {"vcc"} ELSE over

LinkOff ==
    /\ link' = Less(link)
    /\ over' = IF link = 0 THEN over \cup {"link"} ELSE over

Fault ==
    /\ faults < MaxFaults
    /\ faults' = faults + 1
    /\ astray' = astray \cup {"fault"}

NoFault == UNCHANGED <<faults, astray>>

(***************************************************************************)
(* A frame of the RFBI panel.  rfbi_transfer_area takes the clocks and     *)
(* starts; the driver's update does so only while the display is ACTIVE.   *)
(***************************************************************************)
Transfer(s) ==
    IF panel = "Renesas" /\ s = "ACTIVE"
    THEN [pending |-> TRUE, moving |-> TRUE, clk |-> frame.clk + 1]
    ELSE frame

\* FRAMEDONE: framedone_callback drops the clocks; update_done draws the next, and
\* takes them again.
FrameDone ==
    /\ frame.moving
    /\ link = 1
    /\ frame' = IF dss.state = "ACTIVE"
                THEN [pending |-> TRUE, moving |-> TRUE, clk |-> frame.clk]
                ELSE [pending |-> FALSE, moving |-> FALSE, clk |-> frame.clk - 1]
    /\ UNCHANGED <<panel, dss, drv, vcc, link, chip, rails, fb, fblock, call,
                   asleep, calls, faults, astray, over, before>>

(***************************************************************************)
(* Entering and leaving a method.  A call that begins while another is     *)
(* inside the driver is remembered as an overlap, and so is a disable of   *)
(* a display that is blanked.                                              *)
(***************************************************************************)
Enter(a, m, v) ==
    call' = [call EXCEPT ![a] = [Idle EXCEPT !.pc = "start", !.method = m, !.via = v]]
Goto(a, p) == call' = [call EXCEPT ![a].pc = p]
Return(a, r) == call' = [call EXCEPT ![a].pc = "returned", ![a].ok = r]

Entangled(a) == IF Busy \ {a} # {} THEN {"overlap"} ELSE {}

Begin ==
    /\ ~asleep
    /\ calls < MaxCalls
    /\ calls' = calls + 1

\* User processes run once the kernel has booted, and are frozen around a suspend.
MayCall(t) ==
    /\ fb # "none"
    /\ call[Kernel].pc = "idle"
    /\ call[t].pc = "idle"
    /\ Begin

(***************************************************************************)
(* display_enabled_store compares what is written with state # DISABLED    *)
(* and calls the driver only when they differ.                             *)
(***************************************************************************)
DisplayEnabledStore(t, value) ==
    /\ MayCall(t)
    /\ value # (dss.state # "DISABLED")
    /\ Enter(t, IF value THEN "enable" ELSE "disable", "store")
    /\ astray' = astray \cup Entangled(t)
                   \cup (IF dss.state = "SUSPENDED" THEN {"blanked"} ELSE {})
                   \cup (IF value THEN {"reenabled"} ELSE {})
    /\ UNCHANGED <<panel, dss, drv, hardware, fb, fblock, asleep, faults, before>>

(***************************************************************************)
(* omapfb_blank holds the frame buffer's lock across the method.           *)
(***************************************************************************)
OmapfbBlank(t, unblank) ==
    /\ MayCall(t)
    /\ fb = "up"
    /\ fblock = {}
    /\ dss.state = IF unblank THEN "SUSPENDED" ELSE "ACTIVE"
    /\ fblock' = {t}
    /\ Enter(t, IF unblank THEN "resume" ELSE "suspend", "blank")
    /\ astray' = astray \cup Entangled(t)
    /\ UNCHANGED <<panel, dss, drv, hardware, fb, asleep, faults, before>>

\* The ioctl OMAPFB_UPDATE_WINDOW calls the driver's update without the lock.
UpdateWindow(t) ==
    /\ MayCall(t)
    /\ fb = "up"
    /\ panel = "Renesas"
    /\ dss.state = "ACTIVE"
    /\ frame' = Transfer(dss.state)
    /\ astray' = astray \cup (IF frame.moving \/ ~Quiet THEN {"redrawn"} ELSE {})
    /\ UNCHANGED <<panel, dss, drv, vcc, link, chip, rails, fb, fblock, call,
                   asleep, faults, over, before>>

\* omapfb_probe enables the default display, before there are user processes.
OmapfbProbe ==
    /\ fb = "none"
    /\ Quiet
    /\ Enter(Kernel, "enable", "probe")
    /\ UNCHANGED <<dss, drv, hardware, system, faults, astray>>

(***************************************************************************)
(* System suspend: processes are frozen between two calls.  A display that *)
(* is not ACTIVE is left alone.                                            *)
(***************************************************************************)
DssSuspendDevice ==
    /\ fb # "none"
    /\ Quiet
    /\ Begin
    /\ before' = [state |-> dss.state, faults |-> faults]
    /\ IF dss.state = "ACTIVE"
       THEN /\ Enter(Kernel, "suspend", "sleep")
            /\ UNCHANGED <<dss, asleep>>
       ELSE /\ dss' = [dss EXCEPT !.activate = FALSE]
            /\ asleep' = TRUE
            /\ UNCHANGED call
    /\ UNCHANGED <<panel, drv, hardware, fb, fblock, faults, astray>>

DssResumeDevice ==
    /\ asleep
    /\ Quiet
    /\ IF dss.activate
       THEN /\ Enter(Kernel, "resume", "wake")
            /\ UNCHANGED asleep
       ELSE /\ asleep' = FALSE
            /\ UNCHANGED call
    /\ UNCHANGED <<panel, dss, drv, hardware, fb, fblock, calls, faults, astray, before>>

(***************************************************************************)
(* What each caller does when the method has returned.  The probe of the   *)
(* frame buffer draws a first frame or, when the display failed, disables  *)
(* it if it is not DISABLED and gives the frame buffer up.  A failing      *)
(* resume leaves activate_after_resume set.                                *)
(***************************************************************************)
StoreReturns(a) ==
    /\ call[a].via \in {"store", "blank"}
    /\ call' = [call EXCEPT ![a] = Idle]
    /\ fblock' = fblock \ {a}
    /\ UNCHANGED <<dss, frame, fb, asleep>>

ProbeReturns(a) ==
    /\ call[a].via = "probe"
    /\ IF call[a].ok
       THEN /\ fb' = "up"
            /\ frame' = Transfer(dss.state)
            /\ call' = [call EXCEPT ![a] = Idle]
       ELSE /\ UNCHANGED frame
            /\ IF dss.state = "DISABLED"
               THEN fb' = "gone" /\ call' = [call EXCEPT ![a] = Idle]
               ELSE Enter(a, "disable", "free") /\ UNCHANGED fb
    /\ UNCHANGED <<dss, fblock, asleep>>

FreeResourcesReturns(a) ==
    /\ call[a].via = "free"
    /\ fb' = "gone"
    /\ call' = [call EXCEPT ![a] = Idle]
    /\ UNCHANGED <<dss, frame, fblock, asleep>>

\* Mutant of SleepReturns: activate_after_resume is not set.
SleepForgets(a) ==
    /\ call[a].via = "sleep"
    /\ asleep' = TRUE
    /\ call' = [call EXCEPT ![a] = Idle]
    /\ UNCHANGED <<dss, frame, fb, fblock>>

SleepReturns(a) ==
    /\ call[a].via = "sleep"
    /\ dss' = [dss EXCEPT !.activate = TRUE]
    /\ asleep' = TRUE
    /\ call' = [call EXCEPT ![a] = Idle]
    /\ UNCHANGED <<frame, fb, fblock>>

WakeReturns(a) ==
    /\ call[a].via = "wake"
    /\ dss' = [dss EXCEPT !.activate = ~call[a].ok]
    /\ asleep' = FALSE
    /\ call' = [call EXCEPT ![a] = Idle]
    /\ UNCHANGED <<frame, fb, fblock>>

Returned(a) ==
    /\ call[a].pc = "returned"
    /\ \/ StoreReturns(a)
       \/ ProbeReturns(a)
       \/ FreeResourcesReturns(a)
       \/ SleepReturns(a)
       \/ WakeReturns(a)
    /\ UNCHANGED <<panel, drv, vcc, link, chip, rails, calls, faults, astray, over, before>>

Callers ==
    \/ \E t \in Tasks :
          \/ \E value \in BOOLEAN : DisplayEnabledStore(t, value)
          \/ \E unblank \in BOOLEAN : OmapfbBlank(t, unblank)
          \/ UpdateWindow(t)
    \/ OmapfbProbe
    \/ DssSuspendDevice
    \/ DssResumeDevice
    \/ \E a \in Actors : Returned(a)
    \/ FrameDone

=============================================================================
