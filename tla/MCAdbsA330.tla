----------------------------- MODULE MCAdbsA330 -----------------------------
(* A small instance of AdbsA330 for TLC. *)
EXTENDS AdbsA330

\* Movements on both axes, in both directions, one of them diagonal, up to the
\* extremes of the eight-bit registers.
MCDeltas == {[x |-> 127, y |-> 0], [x |-> -1, y |-> 0], [x |-> 0, y |-> 1],
             [x |-> 0, y |-> -1], [x |-> -128, y |-> 1]}
=============================================================================
