---------------------------- MODULE MCCommandRun ----------------------------
(* Instances of CommandRun for TLC.                                        *)
EXTENDS CommandRun, TLC

CONSTANTS c1, c2, n1, n2

\* c1 runs on both nodes, c2 on the first one.
BothAndOne == (c1 :> {n1, n2}) @@ (c2 :> {n1})
OnBoth == (c1 :> {n1, n2})
=============================================================================
