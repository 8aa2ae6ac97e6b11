---------------------------- MODULE UpdateSchedule ----------------------------
(***************************************************************************)
(* The cron of the panel (scheduler.go, Start, rebuild) and a scheduled    *)
(* container update of named containers (runContainerUpdate), with the     *)
(* administrator who edits the schedule (settings/service.go).             *)
(*                                                                         *)
(* The job runs inside the cron, with the row as it was at the last        *)
(* rebuild.  The rebuild of every minute stops the cron and waits for its  *)
(* jobs.  What a job does to the containers is module ContainerUpdate.     *)
(***************************************************************************)
EXTENDS Naturals, FiniteSets

CONSTANTS
    UpdNodes,
    Bases,          \* names of containers but for the separator Compose uses
    MaxEdits,       \* bound: edits by administrators
    MaxFaults       \* bound: failed scans, failed reads of the table
Separators == {"_", "-"}
Names == [node : UpdNodes, base : Bases, sep : Separators]

ASSUME ScheduleConstants == MaxEdits \in Nat /\ MaxFaults \in Nat

VARIABLES
    row,        \* the schedule's row; targets is its configuration
    cron,       \* "running", or "stopping" while the rebuild waits for the jobs
    entry,      \* the row a running cron has a job for, or Absent
    updJob,     \* the job
    live,       \* live[n]: names of the containers of a node
    reach,      \* the nodes that are online
    edits, slips

uVars == <<row, cron, entry, updJob, live, reach, edits, slips>>

Absent == [on |-> FALSE, targets |-> {}, deleted |-> TRUE]
Row(on, targets) == [on |-> on, targets |-> targets, deleted |-> FALSE]
NoJob == [pc |-> "none", row |-> Absent, left |-> {}, removed |-> {}, relinked |-> {}]
On(n, names) == {t \in names : t.node = n}
Same(t, u) == t.node = u.node /\ t.base = u.base

UpdInit ==
    /\ live \in {[n \in UpdNodes |-> {[node |-> n, base |-> b, sep |-> "_"] : b \in Bases}]}
    /\ row = Row(TRUE, UNION {live[n] : n \in UpdNodes})
    /\ cron = "running" /\ entry = row
    /\ updJob = NoJob
    /\ reach = UpdNodes
    /\ edits = 0 /\ slips = 0

Slip == slips < MaxFaults /\ slips' = slips + 1

-----------------------------------------------------------------------------
(* Nodes and administrators.                                               *)

\* A node goes offline or comes back.
Reach ==
    /\ \E n \in UpdNodes : reach' = IF n \in reach THEN reach \ {n} ELSE reach \union {n}
    /\ UNCHANGED <<row, cron, entry, updJob, live, edits, slips>>

\* A container is removed for good, or its project moves from Compose v1 to v2.
Change ==
    /\ \E n \in UpdNodes : \E t \in live[n] :
        live' = [live EXCEPT ![n] = (@ \ {t}) \union
                    (IF t.sep = "_" THEN {[t EXCEPT !.sep = "-"]} ELSE {})]
    /\ UNCHANGED <<row, cron, entry, updJob, reach, edits, slips>>

\* UpdateSchedule and DeleteSchedule of settings: the whole row at once.  The cron
\* is not told.
Edit ==
    /\ edits < MaxEdits /\ edits' = edits + 1
    /\ ~row.deleted
    /\ \/ \E on \in BOOLEAN, targets \in SUBSET UNION {live[n] : n \in UpdNodes} : row' = Row(on, targets)
       \/ row' = Absent
    /\ UNCHANGED <<cron, entry, updJob, live, reach, slips>>

-----------------------------------------------------------------------------
(* Faulty variants of definitions below, each a bug the code could have.   *)

\* A scan that failed passes for one that found nothing.
ScanNodeFailedEmpty ==
    /\ updJob.pc = "scan"
    /\ \E n \in updJob.left, ok \in BOOLEAN :
        /\ updJob' = [updJob EXCEPT !.left = @ \ {n},
                          !.removed = @ \union {t \in On(n, updJob.row.targets) :
                                                n \notin reach \/ ~ok \/ ~\E u \in live[n] : Same(t, u)}]
        /\ IF n \in reach /\ ~ok THEN Slip ELSE ok /\ slips' = slips
    /\ UNCHANGED <<row, cron, entry, live, reach, edits>>

\* A schedule that already has a job keeps it.
RebuildStartOnlyNew ==
    /\ cron = "stopping" /\ updJob = NoJob
    /\ cron' = "running"
    /\ entry' = IF entry = Absent /\ row.on THEN row ELSE entry
    /\ UNCHANGED <<row, updJob, live, reach, edits, slips>>

-----------------------------------------------------------------------------
(* The cron.                                                               *)

RebuildStop ==
    /\ cron = "running" /\ cron' = "stopping"
    /\ UNCHANGED <<row, entry, updJob, live, reach, edits, slips>>

\* The jobs are done: a new cron, with what the table has, or empty if it cannot
\* be read.
RebuildStart ==
    /\ cron = "stopping" /\ updJob = NoJob
    /\ cron' = "running"
    /\ \/ entry' = (IF row.on THEN row ELSE Absent) /\ slips' = slips
       \/ entry' = Absent /\ Slip
    /\ UNCHANGED <<row, updJob, live, reach, edits>>

-----------------------------------------------------------------------------
(* runContainerUpdate.                                                     *)

\* The schedule's instant: a stopped cron lets it pass.
Fire ==
    /\ cron = "running" /\ entry # Absent /\ updJob = NoJob
    /\ {t.node : t \in entry.targets} # {}
    /\ updJob' = [NoJob EXCEPT !.pc = "scan", !.row = entry, !.left = {t.node : t \in entry.targets}]
    /\ UNCHANGED <<row, cron, entry, live, reach, edits, slips>>

\* reconcileConfiguredContainerNames, of a complete scan: a name that is gone is
\* relinked to the only name that differs in the separator, or removed.
Matches(t, items) == {u \in items : Same(t, u)}
Reconciled(n, items) ==
    LET gone == On(n, updJob.row.targets) \ items IN
    [updJob EXCEPT !.left = @ \ {n},
                   !.removed = @ \union {t \in gone : Cardinality(Matches(t, items)) # 1},
                   !.relinked = @ \union {t \in gone : Cardinality(Matches(t, items)) = 1}]

\* One node: offline and failed scans reconcile nothing.
ScanNode ==
    /\ updJob.pc = "scan"
    /\ \E n \in updJob.left :
        \/ n \in reach /\ updJob' = Reconciled(n, live[n]) /\ slips' = slips
        \/ n \notin reach /\ updJob' = [updJob EXCEPT !.left = @ \ {n}] /\ slips' = slips
        \/ n \in reach /\ updJob' = [updJob EXCEPT !.left = @ \ {n}] /\ Slip
    /\ UNCHANGED <<row, cron, entry, live, reach, edits>>

Relinked(t) == IF t \in updJob.relinked THEN [t EXCEPT !.sep = IF @ = "_" THEN "-" ELSE "_"] ELSE t
Remaining == {Relinked(t) : t \in updJob.row.targets \ updJob.removed}

\* persistReconciledContainerTargets, if there is something to persist: the row of
\* the last rebuild is written back, disabled when no target is left.
Persist ==
    /\ updJob.pc = "scan" /\ updJob.left = {}
    /\ row' = IF row.deleted \/ updJob.removed \union updJob.relinked = {} THEN row
              ELSE Row(Remaining # {}, Remaining)
    /\ updJob' = NoJob
    /\ UNCHANGED <<cron, entry, live, reach, edits, slips>>

UpdNext ==
    \/ Reach \/ Change \/ Edit \/ RebuildStop \/ RebuildStart \/ Fire \/ ScanNode \/ Persist

UpdSpec == UpdInit /\ [][UpdNext]_uVars

\* The ticker of Start, and the timeouts of scans and updates, end what is begun.
UpdFairness ==
    /\ WF_uVars(RebuildStop) /\ WF_uVars(RebuildStart)
    /\ WF_uVars(ScanNode \/ Persist)

UpdLiveSpec == UpdSpec /\ UpdFairness

-----------------------------------------------------------------------------
(* Properties.                                                             *)

Alive(t) == \E u \in live[t.node] : Same(t, u)

\* "Offline/unavailable nodes never enter these maps": what a run removes from the
\* schedule it ran with is gone for good; a container that lives, under either of
\* its names, on a node that answered or did not, stays a target.
LivingKept ==
    [][Persist /\ ~row.deleted =>
        \A t \in updJob.row.targets : t \in row.targets /\ Alive(t) =>
            \E u \in row'.targets : Same(t, u)]_uVars

\* An edit takes effect without Sync, which nothing calls: again and again the
\* cron runs what the table says, though every container update stops it.
EditsArm == []<>(entry = (IF row.on THEN row ELSE Absent))

\* "Offline/unavailable nodes never enter these maps, so their configuration is
\* preserved" (scheduler.go): what an administrator configured meanwhile for a node
\* that did not enter the maps is what the row has after the run.
OfflinePreserved ==
    [][Persist => \A n \in UpdNodes :
        On(n, updJob.removed \union updJob.relinked) = {} => On(n, row'.targets) = On(n, row.targets)]_uVars
=============================================================================
