----------------------------- MODULE MCPwmClients -----------------------------
(* A board with one PWM for each client, and one on which both share a PWM; of *)
(* the command line's brightness out of range, two fail the BUG_ON (4, -2) and *)
(* two wrap to a pulse that passes it (9, -6).                                 *)
EXTENDS PwmClients

MCCommandLine == {-1, 1, 4, 9, -2, -6}
MCPwms == {"pwm10", "pwm11"}
MCWirings == {[beeper |-> "pwm11", bl |-> "pwm10"], [beeper |-> "pwm10", bl |-> "pwm10"]}
==============================================================================
