------------------------- MODULE MCMatrixPipeline -------------------------
(* Instances of MatrixPipeline for TLC. *)
EXTENDS MatrixPipeline, TLC

\* Square matrices.
Square == [r \in Request |-> 2]

\* Requests, keys and solvers are interchangeable.
Symmetry == Permutations(Request) \cup Permutations(Key) \cup Permutations(Method)

\* A bound on the states explored: at most one client leaves, and while its P3
\* is at the sends. Nothing else looks at the client, so that leaving earlier
\* makes no difference.
OneLeaves ==
  /\ \A r, q \in Request : client[r] = "left" /\ client[q] = "left" => r = q
  /\ \A r \in Request : client[r] = "left" => pc[r]["P3"] \in {"send", "log", "write", "retire", "gone"}

\* A bound on the states explored: the two keys of a request have different names.
\* The two directories have tables of their own, so this is a mere renaming.
TwoNames == \A r \in Request : key[r][1] # None => key[r][1] # key[r][2]
=============================================================================
