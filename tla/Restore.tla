------------------------------ MODULE Restore ------------------------------
(***************************************************************************)
(* Restores (master/internal/backup: ensureStaged, runRestore,             *)
(* fanOutRestore, runNodeRestore, drainRestore; the agent's                *)
(* handleRestore).  A worker is one goroutine: runNodeRestore of a target  *)
(* node, which restores its backups one after the other with a row each,   *)
(* or a single runRestore, which only notifies.  Workers of one fan-out    *)
(* share a cache of staged backups; every worker shares the staged files,  *)
(* which a pull from a target writes in place.                             *)
(*                                                                         *)
(* Envelope IDs name (backup, node), so two workers must not restore the   *)
(* same backup to the same node at once (AgentHubSharedId shows why).      *)
(***************************************************************************)
EXTENDS Naturals, Sequences, FiniteSets

CONSTANTS Backups, Runs,
          Workers,
          Singles,     \* the workers that are single restores
          RunOf,       \* [Workers -> Runs]
          TasksOf,     \* [Workers -> SUBSET Backups]
          NoBackup, NoWorker,
          Concurrency, \* restoreConcurrency (at most 4)
          MaxEvicts,   \* bound: staged files removed by others
          MaxCuts      \* bound: connections lost

ASSUME RestoreConstants ==
    /\ Singles \subseteq Workers
    /\ RunOf \in [Workers -> Runs]
    /\ TasksOf \in [Workers -> SUBSET Backups]
    /\ \A w \in Singles : Cardinality(TasksOf[w]) = 1
    /\ \A w \in Singles, v \in Workers : RunOf[v] = RunOf[w] => v = w
    /\ NoBackup \notin Backups /\ NoWorker \notin Workers
    /\ Concurrency \in Nat \ {0} /\ MaxEvicts \in Nat /\ MaxCuts \in Nat

VARIABLES
    stage,    \* the staged files: "none", "part" or "whole"
    opener,   \* the worker whose os.Create was the last on a staged file
    pc,       \* program counter of a worker
    cur,      \* the backup it is restoring
    left,     \* its tasks still to come
    mutex,    \* stageMu of a run
    staged,   \* the cache of a run
    chan,     \* the channel of the worker's request
    closed,   \* has a disconnect closed it?
    agent,    \* the agent's side of a request, per worker and backup
    heard,    \* the result the worker took from the channel
    row,      \* restore_jobs.status, per worker and backup
    told,     \* what a single restore answered or notified
    evicts, cuts

vars == <<stage, opener, pc, cur, left, mutex, staged, chan, closed, agent,
          heard, row, told, evicts, cuts>>
fileVars == <<stage, opener>>
lockVars == <<mutex, staged>>
linkVars == <<chan, closed, agent>>
bounds == <<evicts, cuts>>

Outcomes == {"ok", "partial", "failed"}
Active == {"start", "ensure", "stat", "pull", "copy", "send", "drain", "final"}
Free(r) == mutex[r] = NoWorker

TypeOK ==
    /\ stage \in [Backups -> {"none", "part", "whole"}]
    /\ opener \in [Backups -> Workers \union {NoWorker}]
    /\ pc \in [Workers -> Active \union {"idle", "queued", "done"}]
    /\ cur \in [Workers -> Backups \union {NoBackup}]
    /\ left \in [Workers -> SUBSET Backups]
    /\ mutex \in [Runs -> Workers \union {NoWorker}]
    /\ staged \in [Runs -> SUBSET Backups]
    /\ chan \in [Workers -> Seq({"progress"} \union Outcomes)]
    /\ closed \in [Workers -> BOOLEAN]
    /\ agent \in [Workers -> [Backups ->
                    Outcomes \union {"idle", "asked", "reading", "broken"}]]
    /\ heard \in [Workers -> Outcomes \union {"none"}]
    /\ row \in [Workers -> [Backups -> Outcomes \union {"absent", "running"}]]
    /\ told \in [Workers -> {"none", "ok", "failed"}]
    /\ evicts \in 0..MaxEvicts /\ cuts \in 0..MaxCuts

Init ==
    /\ stage \in [Backups -> {"none", "whole"}]
    /\ opener = [b \in Backups |-> NoWorker]
    /\ pc = [w \in Workers |-> "idle"]
    /\ cur = [w \in Workers |-> NoBackup]
    /\ left = TasksOf
    /\ mutex = [r \in Runs |-> NoWorker]
    /\ staged = [r \in Runs |-> {}]
    /\ chan = [w \in Workers |-> <<>>]
    /\ closed = [w \in Workers |-> FALSE]
    /\ agent = [w \in Workers |-> [b \in Backups |-> "idle"]]
    /\ heard = [w \in Workers |-> "none"]
    /\ row = [w \in Workers |-> [b \in Backups |-> "absent"]]
    /\ told = [w \in Workers |-> "none"]
    /\ evicts = 0 /\ cuts = 0

-----------------------------------------------------------------------------
(* Faulty variants of the actions below, each a bug the code could have.   *)
(* No specification uses them: they show that the properties notice.       *)

\* ensure looks at the cache and does not hold stageMu while it pulls.
EnsureUnlocked(w) ==
    /\ pc[w] = "ensure"
    /\ pc' = [pc EXCEPT ![w] = IF cur[w] \in staged[RunOf[w]] THEN "send" ELSE "stat"]
    /\ UNCHANGED <<fileVars, cur, left, lockVars, linkVars, heard, row, told, bounds>>

\* A download that failed without a result counts as a restore.
DrainEndsPartial(w) ==
    /\ pc[w] = "drain"
    /\ pc' = [pc EXCEPT ![w] = "final"]
    /\ heard' = [heard EXCEPT ![w] = "partial"]
    /\ UNCHANGED <<fileVars, cur, left, lockVars, linkVars, row, told, bounds>>

\* The return on an unstaged archive leaves stageMu locked.
EnsureFailsLocked(w, ok) ==
    /\ mutex' = [mutex EXCEPT ![RunOf[w]] = IF ok THEN NoWorker ELSE @]
    /\ staged' = [staged EXCEPT ![RunOf[w]] = IF ok THEN @ \union {cur[w]} ELSE @]
    /\ pc' = [pc EXCEPT ![w] = IF ok THEN "send" ELSE "final"]
    /\ heard' = [heard EXCEPT ![w] = IF ok THEN @ ELSE "failed"]

-----------------------------------------------------------------------------
(* The worker.                                                             *)

\* RestoreContainers or Restore: the goroutines of a run.  fanOutRestore
\* takes a slot of its semaphore before it starts one.
Request(r) ==
    /\ \A w \in Workers : RunOf[w] = r => pc[w] = "idle"
    /\ pc' = [w \in Workers |-> IF RunOf[w] = r THEN "queued" ELSE pc[w]]
    /\ UNCHANGED <<fileVars, cur, left, lockVars, linkVars, heard, row, told, bounds>>

Acquire(w) ==
    /\ pc[w] = "queued"
    /\ Cardinality({v \in Workers : RunOf[v] = RunOf[w] /\ pc[v] \in Active}) < Concurrency
    /\ pc' = [pc EXCEPT ![w] = "start"]
    /\ UNCHANGED <<fileVars, cur, left, lockVars, linkVars, heard, row, told, bounds>>

\* The next task: its row is created running before anything is staged.
CreateRestoreJob(w, b) ==
    /\ pc[w] = "start" /\ b \in left[w]
    /\ pc' = [pc EXCEPT ![w] = "ensure"]
    /\ cur' = [cur EXCEPT ![w] = b]
    /\ left' = [left EXCEPT ![w] = @ \ {b}]
    /\ row' = [row EXCEPT ![w][b] = IF w \in Singles THEN @ ELSE "running"]
    /\ UNCHANGED <<fileVars, lockVars, linkVars, heard, told, bounds>>

WorkerDone(w) ==
    /\ pc[w] = "start" /\ left[w] = {}
    /\ pc' = [pc EXCEPT ![w] = "done"]
    /\ UNCHANGED <<fileVars, cur, left, lockVars, linkVars, heard, row, told, bounds>>

\* ensure: stageMu is held across the whole of ensureStaged; a cached backup
\* is not looked at again.
EnsureLock(w) ==
    LET r == RunOf[w]
    IN  /\ pc[w] = "ensure" /\ Free(r)
        /\ IF cur[w] \in staged[r]
           THEN /\ pc' = [pc EXCEPT ![w] = "send"]
                /\ UNCHANGED mutex
           ELSE /\ pc' = [pc EXCEPT ![w] = "stat"]
                /\ mutex' = [mutex EXCEPT ![r] = w]
        /\ UNCHANGED <<fileVars, cur, left, staged, linkVars, heard, row, told, bounds>>

\* ensure returns true and remembers it, or false.
EnsureReturns(w, ok) ==
    LET r == RunOf[w]
    IN  /\ mutex' = [mutex EXCEPT ![r] = NoWorker]
        /\ staged' = [staged EXCEPT ![r] = IF ok THEN @ \union {cur[w]} ELSE @]
        /\ pc' = [pc EXCEPT ![w] = IF ok THEN "send" ELSE "final"]
        /\ heard' = [heard EXCEPT ![w] = IF ok THEN @ ELSE "failed"]

\* os.Stat: any file will do.
Stat(w) ==
    /\ pc[w] = "stat"
    /\ IF stage[cur[w]] # "none"
       THEN EnsureReturns(w, TRUE)
       ELSE /\ pc' = [pc EXCEPT ![w] = "pull"]
            /\ UNCHANGED <<lockVars, heard>>
    /\ UNCHANGED <<fileVars, cur, left, linkVars, row, told, bounds>>

\* A target serves the archive: os.Create truncates, io.Copy follows.
PullOpens(w) ==
    /\ pc[w] = "pull"
    /\ pc' = [pc EXCEPT ![w] = "copy"]
    /\ stage' = [stage EXCEPT ![cur[w]] = "part"]
    /\ opener' = [opener EXCEPT ![cur[w]] = w]
    /\ UNCHANGED <<cur, left, lockVars, linkVars, heard, row, told, bounds>>

\* The copy of the last opener leaves a whole file, an earlier one wrote into
\* a file that was truncated under it.
PullSucceeds(w) ==
    /\ pc[w] = "copy"
    /\ stage' = [stage EXCEPT ![cur[w]] =
                   IF opener[cur[w]] = w /\ @ = "part" THEN "whole" ELSE @]
    /\ opener' = [opener EXCEPT ![cur[w]] = IF @ = w THEN NoWorker ELSE @]
    /\ EnsureReturns(w, TRUE)
    /\ UNCHANGED <<cur, left, linkVars, row, told, bounds>>

\* The target fails before or during the copy, which leaves what was copied;
\* the next target is tried, or none is left.
PullFails(w) ==
    /\ pc[w] \in {"pull", "copy"}
    /\ \/ /\ pc' = [pc EXCEPT ![w] = "pull"] /\ pc[w] = "copy"
          /\ UNCHANGED <<lockVars, heard>>
       \/ EnsureReturns(w, FALSE)
    /\ UNCHANGED <<fileVars, cur, left, linkVars, row, told, bounds>>

\* Subscribe and Send.
Send(w) ==
    /\ pc[w] = "send"
    /\ \/ /\ pc' = [pc EXCEPT ![w] = "drain"]
          /\ agent' = [agent EXCEPT ![w][cur[w]] = "asked"]
          /\ UNCHANGED heard
       \/ /\ pc' = [pc EXCEPT ![w] = "final"]
          /\ UNCHANGED agent
          /\ heard' = [heard EXCEPT ![w] = "failed"]
    /\ UNCHANGED <<fileVars, cur, left, lockVars, chan, closed, row, told, bounds>>

\* The wait is over with result o, and so is the channel.
Unsubscribe(w, o) ==
    /\ pc' = [pc EXCEPT ![w] = "final"]
    /\ heard' = [heard EXCEPT ![w] = o]
    /\ chan' = [chan EXCEPT ![w] = <<>>]
    /\ closed' = [closed EXCEPT ![w] = FALSE]

\* drainRestore skips progress; runRestore takes whatever comes first, and
\* a progress message decodes as a result that is not OK.
Drain(w) ==
    LET m == Head(chan[w])
    IN  /\ pc[w] = "drain" /\ chan[w] # <<>>
        /\ IF m = "progress" /\ w \notin Singles
           THEN /\ chan' = [chan EXCEPT ![w] = Tail(@)]
                /\ UNCHANGED <<pc, closed, heard>>
           ELSE Unsubscribe(w, IF m = "progress" THEN "failed" ELSE m)
        /\ UNCHANGED <<fileVars, cur, left, lockVars, agent, row, told, bounds>>

\* The agent disconnected, or the timer fired: failed.
DrainEnds(w) ==
    /\ pc[w] = "drain"
    /\ Unsubscribe(w, "failed")
    /\ UNCHANGED <<fileVars, cur, left, lockVars, agent, row, told, bounds>>

\* finalizeRestoreJob, or the notification of a single restore.
finalizeRestoreJob(w) ==
    /\ pc[w] = "final"
    /\ pc' = [pc EXCEPT ![w] = IF w \in Singles THEN "done" ELSE "start"]
    /\ cur' = [cur EXCEPT ![w] = NoBackup]
    /\ IF w \in Singles
       THEN /\ told' = [told EXCEPT ![w] = IF heard[w] = "failed" THEN "failed" ELSE "ok"]
            /\ UNCHANGED row
       ELSE /\ row' = [row EXCEPT ![w][cur[w]] = heard[w]]
            /\ UNCHANGED told
    /\ heard' = [heard EXCEPT ![w] = "none"]
    /\ UNCHANGED <<fileVars, left, lockVars, linkVars, bounds>>

-----------------------------------------------------------------------------
(* The agent and the environment.                                          *)

\* A message reaches the worker while it listens on an open channel for b.
Deliver(w, b, m) ==
    chan' = [chan EXCEPT ![w] =
               IF pc[w] = "drain" /\ cur[w] = b /\ ~closed[w] THEN Append(@, m) ELSE @]

\* The download: a missing file is a 404; a partial one breaks the archive
\* reader, after the progress report of its first read.
Download(w, b) ==
    /\ agent[w][b] = "asked"
    /\ agent' = [agent EXCEPT ![w][b] =
         CASE stage[b] = "none"  -> "failed"
           [] stage[b] = "part"  -> "broken"
           [] stage[b] = "whole" -> "reading"]
    /\ Deliver(w, b, IF stage[b] = "none" THEN "failed" ELSE "progress")
    /\ UNCHANGED <<fileVars, pc, cur, left, lockVars, closed, heard, row, told, bounds>>

\* A single restore does not recreate: at best its data is restored.
AgentEnds(w, b, o) ==
    /\ \/ agent[w][b] = "reading" /\ (w \in Singles => o # "ok")
       \/ agent[w][b] = "broken" /\ o = "failed"
    /\ agent' = [agent EXCEPT ![w][b] = o]
    /\ Deliver(w, b, o)
    /\ UNCHANGED <<fileVars, pc, cur, left, lockVars, closed, heard, row, told, bounds>>

\* cancelClientSubs; what the agent sends later is not delivered.
Disconnect(w) ==
    /\ pc[w] = "drain" /\ ~closed[w] /\ cuts < MaxCuts
    /\ closed' = [closed EXCEPT ![w] = TRUE]
    /\ cuts' = cuts + 1
    /\ UNCHANGED <<fileVars, pc, cur, left, lockVars, chan, agent, heard, row,
                   told, evicts>>

\* runBackup, retention, the reaper or the admin removes a staged file.
Evict(b) ==
    /\ stage[b] # "none" /\ evicts < MaxEvicts
    /\ stage' = [stage EXCEPT ![b] = "none"]
    /\ evicts' = evicts + 1
    /\ UNCHANGED <<opener, pc, cur, left, lockVars, linkVars, heard, row, told, cuts>>

WorkerSteps(w) ==
    \/ Acquire(w) \/ WorkerDone(w) \/ EnsureLock(w) \/ Stat(w)
    \/ PullOpens(w) \/ PullSucceeds(w) \/ PullFails(w) \/ Send(w)
    \/ Drain(w) \/ DrainEnds(w) \/ finalizeRestoreJob(w)
    \/ \E b \in Backups : CreateRestoreJob(w, b)

Next ==
    \/ \E r \in Runs : Request(r)
    \/ \E w \in Workers :
         \/ WorkerSteps(w) \/ Disconnect(w)
         \/ \E b \in Backups : Download(w, b) \/ \E o \in Outcomes : AgentEnds(w, b, o)
    \/ \E b \in Backups : Evict(b)

Spec == Init /\ [][Next]_vars

\* Goroutines run, timers fire, a pull ends (the HTTP and SFTP clients have
\* timeouts) and a target list is finite; agents may never answer.
Fairness == \A w \in Workers :
    /\ SF_vars(WorkerSteps(w))
    /\ WF_vars(DrainEnds(w))
    /\ SF_vars(PullSucceeds(w) \/ (PullFails(w) /\ pc'[w] = "final"))

LiveSpec == Spec /\ Fairness

-----------------------------------------------------------------------------
(* Properties.                                                             *)

\* A restore job's row says what the agent did: it is ok or partial only when
\* the agent reported exactly that for this backup.
RowMatchesAgent ==
    \A w \in Workers, b \in Backups :
        row[w][b] \in {"ok", "partial"} => agent[w][b] = row[w][b]

\* And types: whatever agents send, no progress message is taken for an outcome
\* outside the single restores.
RestoreInv == TypeOK /\ RowMatchesAgent

\* The workers of a fan-out never pull the same archive at the same time.
OnePullPerRun ==
    \A v, w \in Workers :
        /\ RunOf[v] = RunOf[w] /\ cur[v] = cur[w]
        /\ pc[v] \in {"pull", "copy"} /\ pc[w] \in {"pull", "copy"}
        => v = w

\* Every requested restore comes to an end, and with a final row for each of its
\* backups: no worker waits forever for its slot, the staging mutex, the target or
\* the agent, and none gives up between two backups.
EveryTaskEnds(w) == w \in Singles \/ \A b \in TasksOf[w] : row[w][b] \in Outcomes
EveryWorkerEnds == \A w \in Workers : pc[w] = "queued" ~> (pc[w] = "done" /\ EveryTaskEnds(w))

(* service.go:660-664: ensureStaged makes sure the staged archive exists,  *)
(* trying each target until one serves the file.                           *)
EnsuredIsWhole ==
    \A w \in Workers : pc[w] = "send" => stage[cur[w]] = "whole"

(* messages.go:39: progress is streamed 0..N times before the final result *)
(* of a restore, so it never ends the wait for that result.                *)
ProgressIsNotResult ==
    [][\A w \in Workers :
         Drain(w) /\ Head(chan[w]) = "progress" => pc'[w] = "drain"]_vars
=============================================================================
