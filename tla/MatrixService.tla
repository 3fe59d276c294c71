--------------------------- MODULE MatrixService ---------------------------
(***************************************************************************)
(* What the matrix server of "FINAL PROJECT" promises a client, with the   *)
(* processes, keys and segments left out: each request gets a matrix of    *)
(* its own, that matrix is solved by all methods, and the reply holds that *)
(* matrix with the solutions of that matrix. A request whose client has    *)
(* gone is dropped, but only after it was solved.                          *)
(***************************************************************************)
CONSTANTS Request, Method, None

VARIABLES stage, reply

Stage == {"received", "generated", "solved", "replied", "dropped"}

Init ==
  /\ stage = [r \in Request |-> "received"]
  /\ reply = [r \in Request |-> None]

Advance(r, from, to) ==
  /\ stage[r] = from
  /\ stage' = [stage EXCEPT ![r] = to]

Generate(r) == Advance(r, "received", "generated") /\ UNCHANGED reply
Solve(r)    == Advance(r, "generated", "solved") /\ UNCHANGED reply
Drop(r)     == Advance(r, "solved", "dropped") /\ UNCHANGED reply

\* mat: whose matrix the client is shown; sol: whose matrix each solution solves.
Reply(r) ==
  /\ Advance(r, "solved", "replied")
  /\ reply' = [reply EXCEPT ![r] = [mat |-> r, sol |-> [i \in Method |-> r]]]

Next == \E r \in Request : Generate(r) \/ Solve(r) \/ Drop(r) \/ Reply(r)

Fairness == \A r \in Request :
              WF_<<stage, reply>>(Generate(r) \/ Solve(r) \/ Drop(r) \/ Reply(r))

Spec == Init /\ [][Next]_<<stage, reply>>
FairSpec == Spec /\ Fairness
===========================================================================
