----------------------------- MODULE MCRestore -----------------------------
(* Restores: what the master does with them (Restore) and what a node does *)
(* (NodeRestore).  They share no variable: Restore sees a node through the *)
(* outcomes of its answers.  An execution is one of a single part.         *)
EXTENDS Restore, NodeRestore, TLC

CONSTANTS w1, w2, s1, r1, r2, x, y

\* A fan-out of one backup to two nodes beside a single restore.
FanOutRuns == (w1 :> r1) @@ (w2 :> r1) @@ (s1 :> r2)
FanOutTasks == (w1 :> {x}) @@ (w2 :> {x}) @@ (s1 :> {x})
\* A fan-out of two backups to one node and one to another.
SmallTasks == (w1 :> {x, y}) @@ (w2 :> {x})
SmallRuns == (w1 :> r1) @@ (w2 :> r1)
SingleRun == (s1 :> r2)
SingleTask == (s1 :> {x})

\* Two archives that publish the same port, with the same or another name and
\* image, of which one may not pull.
Snap(n, i, p, a) == [name |-> n, image |-> i, port |-> p, pull |-> a]
Pairs ==
    {[r \in Restores |-> IF r = "first" THEN Snap("app", "img1", 1, a) ELSE Snap(n, i, 1, TRUE)] :
        a \in BOOLEAN, n \in {"app", "web"}, i \in {"img1", "img2"}}
OneArchive == {[r \in Restores |-> Snap("app", "img1", 1, TRUE)]}

VARIABLE part
restoreParts == <<vars, nrVars, part>>

OnMaster == part = "master" /\ UNCHANGED <<nrVars, part>>
OnNode == part = "node" /\ UNCHANGED <<vars, part>>

BothInit ==
    /\ part \in {"master", "node"}
    /\ Init /\ NodeRestoreInit
    /\ part # "master" => \A b \in Backups : stage[b] = "whole"
    /\ part # "node" => /\ snap = CHOOSE s \in Snapshots : TRUE
                        /\ taken = {} /\ network /\ images = {}

BothNext ==
    \/ OnMaster /\ Next
    \/ OnNode /\ NodeRestoreNext

BothSpec == BothInit /\ [][BothNext]_restoreParts
\* The fairness of the master's part.
BothLiveSpec ==
    /\ BothSpec
    /\ \A w \in Workers :
        /\ SF_vars(part = "master" /\ WorkerSteps(w))
        /\ WF_vars(part = "master" /\ DrainEnds(w))
        /\ SF_vars(part = "master" /\ (PullSucceeds(w) \/ (PullFails(w) /\ pc'[w] = "final")))
=============================================================================
