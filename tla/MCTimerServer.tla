--------------------------- MODULE MCTimerServer ---------------------------
(* Instances of TimerServer for TLC. *)
EXTENDS TimerServer, TLC

Symmetry == Permutations(Client)
===========================================================================
