--------------------------- MODULE MCGrepThread ----------------------------
(* A tree of three directories and three files for TLC. *)
EXTENDS GrepThread
CONSTANTS d0, d1, d2, f1, f2, f3
SubdirsOf == (d0 :> <<d1>>) @@ (d1 :> <<d2>>) @@ (d2 :> <<>>)
FilesOf == (d0 :> <<f1>>) @@ (d1 :> <<f2, f3>>) @@ (d2 :> <<>>)
HitsIn == (f1 :> 1) @@ (f2 :> 1) @@ (f3 :> 0)
============================================================================
