--------------------------- MODULE MCResultRelay ---------------------------
(* ResultRelay for TLC: one client gets two matrices, the other one. *)
EXTENDS ResultRelay
CONSTANTS c1, c2
RoundsIn == [c \in Client |-> IF c = c1 THEN 2 ELSE 1]
============================================================================
