--------------------------- MODULE MCGrepShared ----------------------------
(* A tree of four directories and two files for TLC. *)
EXTENDS GrepShared
CONSTANTS d0, d1, d2, d3, f1, f2
Tree == (d0 :> <<d1>>) @@ (d1 :> <<d2, d3>>) @@ (d2 :> <<f1>>) @@ (d3 :> <<f2>>)
============================================================================
