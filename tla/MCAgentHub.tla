----------------------------- MODULE MCAgentHub -----------------------------
(* Instances of AgentHub for TLC.                                          *)
EXTENDS AgentHub, TLC

CONSTANTS n1, c1, c2, c3, k1, k2, r1, r2

OneNode == [c \in Conns |-> n1]
ToOneNode == [k \in Calls |-> n1]
DistinctIds == (k1 :> r1) @@ (k2 :> r2)
SharedId == [k \in Calls |-> r1]
Symmetry == Permutations(Conns)
=============================================================================
