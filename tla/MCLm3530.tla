------------------------------- MODULE MCLm3530 -------------------------------
(* Two tasks that write the ramp attributes, and the kernel's command lines. *)
EXTENDS Lm3530, TLC

CONSTANTS w1, w2
TwoWriters == {w1, w2}
WriterSymmetry == Permutations(TwoWriters)
MCCommandLine == {-3, -1, 0, 2}
===============================================================================
