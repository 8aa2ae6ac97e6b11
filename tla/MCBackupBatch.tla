--------------------------- MODULE MCBackupBatch ---------------------------
(* Instances of BackupBatch for TLC.                                       *)
EXTENDS BackupBatch, TLC

CONSTANTS b1, b2, b3, u1, u2, u3, n1, n2

\* b1 backs up two containers of different nodes, b2 one of the first node.
TwoBatches == (b1 :> {u1, u2}) @@ (b2 :> {u3})
TwoNodes == (u1 :> n1) @@ (u2 :> n2) @@ (u3 :> n1)
\* Three one-unit batches, for the report timers.
ThreeBatches == (b1 :> {u1}) @@ (b2 :> {u2}) @@ (b3 :> {u3})
OneNode == [u \in Units |-> n1]
=============================================================================
