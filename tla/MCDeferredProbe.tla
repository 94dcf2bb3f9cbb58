---------------------------- MODULE MCDeferredProbe ----------------------------
(* A backlight whose probe looks for the framebuffer's driver, and two tasks. *)
EXTENDS DeferredProbe

CONSTANTS t1, t2
TwoTasks == {t1, t2}
TwoDevices == {"lm3530", "omapfb"}
TwoNeeds == [lm3530 |-> {"omapfb"}, omapfb |-> {}]
==============================================================================
