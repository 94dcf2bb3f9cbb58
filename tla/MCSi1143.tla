------------------------------- MODULE MCSi1143 -------------------------------
(* Two tasks at the attributes. *)
EXTENDS Si1143

CONSTANTS t1, t2
TwoTasks == {t1, t2}
==============================================================================
