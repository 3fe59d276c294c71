--------------------------- MODULE MCAcceptLoop ---------------------------
(* Instances of AcceptLoop for TLC. *)
EXTENDS AcceptLoop, TLC

Symmetry == Permutations(Client)
===========================================================================
