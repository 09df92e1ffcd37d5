------------------------------ MODULE Ancestry ------------------------------
(***************************************************************************)
(* The directories above an entry: what holds it, what holds that, and so  *)
(* on up to `top`; as paths have them (path.dirname, applied again).       *)
(***************************************************************************)

\* S has what holds n, or n is the top.
Holds(S, n, top, parent) == n # top => parent[n] \in S

\* What is in every set that has what holds n and what holds its members.
Ancestors(nodes, top, parent) ==
    [n \in nodes |->
        {d \in nodes : \A S \in SUBSET nodes :
            Holds(S, n, top, parent) /\ (\A m \in S : Holds(S, m, top, parent)) => d \in S}]
=============================================================================
