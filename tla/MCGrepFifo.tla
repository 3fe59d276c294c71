---------------------------- MODULE MCGrepFifo -----------------------------
(* A tree of four directories and three files for TLC. *)
EXTENDS GrepFifo
CONSTANTS d0, d1, d2, d3, f1, f2, f3
Tree == (d0 :> <<d1, f1, d2>>) @@ (d1 :> <<f2, d3>>) @@ (d2 :> <<>>) @@ (d3 :> <<f3>>)
TreeDirs == [d \in Dir |-> SelectSeq(Tree[d], LAMBDA e : e \in Dir)]
TreeFiles == [d \in Dir |-> SelectSeq(Tree[d], LAMBDA e : e \in File)]
===========================================================================
