----------------------------- MODULE BackupJob -----------------------------
(***************************************************************************)
(* Archive backups (master/internal/backup: runBackup, the reaper,         *)
(* retention, Delete; agentapi.Upload; the agent's handleBackup).          *)
(*                                                                         *)
(* A job owns a database row and a staged file on the master.  The agent   *)
(* either streams the archive to S3 itself (a direct job) or posts it in   *)
(* chunks that the master appends to the staged file, which is then pushed *)
(* to every target.  The uploads are HTTP requests: they do not stop when  *)
(* the job's WebSocket RPC does.  The reaper, retention and the admin      *)
(* remove rows and files beside the running jobs.                          *)
(*                                                                         *)
(* A staged file is the sequence of the chunks appended to it (0 is a      *)
(* chunk cut short); the archive is intact when that is 1..Chunks.         *)
(***************************************************************************)
EXTENDS Naturals, Sequences, FiniteSets

CONSTANTS Jobs, Targets,
          TargetsOf,   \* [Jobs -> SUBSET Targets]
          Direct,      \* jobs eligible for direct S3 upload
          Chunks,      \* number of chunks an archive is posted in
          KeepCount,   \* backup_retention.keep_count; 0 keeps everything
          LongJobs,    \* may a live job outlast the reaper's max age?
          MaxCrashes   \* bound: restarts of the master

ASSUME BackupConstants ==
    /\ TargetsOf \in [Jobs -> SUBSET Targets]
    /\ \A j \in Direct : j \in Jobs /\ \E t \in Targets : TargetsOf[j] = {t}
    /\ Chunks \in Nat \ {0}
    /\ KeepCount \in Nat
    /\ LongJobs \in BOOLEAN
    /\ MaxCrashes \in Nat

VARIABLES
    order,    \* jobs in the order their rows were created
    row,      \* backups.status, "absent" when there is no row
    old,      \* is created_at older than the reaper's max age?
    job,      \* program counter of runBackup
    path,     \* how the current attempt travels: "direct" or "master"
    s3,       \* the agent's direct upload
    up,       \* the agent's chunked upload
    next,     \* the chunk it posts next
    stage,    \* the staged file
    linked,   \* is the file an open chunk request writes to still linked?
    remote,   \* what each target stores for the job
    pushed, failed,  \* targets whose push succeeded, failed
    victims,  \* rows this job's retention pass still has to evict
    cut,      \* the victim whose data is gone but whose row is not
    delq,     \* deleteRemoteAsync goroutines not finished
    toMark, toEvict, \* the reaper's rows: to mark failed, to evict
    erased,   \* backups whose data retention or the admin deleted
    crashes

vars == <<order, row, old, job, path, s3, up, next, stage, linked, remote,
          pushed, failed, victims, cut, delq, toMark, toEvict, erased, crashes>>
uploadVars == <<s3, up, next>>
fileVars == <<stage, linked>>
pushVars == <<remote, pushed, failed>>
evictVars == <<victims, cut, delq, erased>>
reapVars == <<toMark, toEvict>>

NoFile == [here |-> FALSE, parts |-> <<>>]
Whole == [i \in 1..Chunks |-> i]
Intact(j) == stage[j].here /\ stage[j].parts = Whole

\* runBackup is a goroutine of this process lifetime.
Live(j) == job[j] \notin {"none", "done", "dead"}

TypeOK ==
    /\ order \in Seq(Jobs)
    /\ row \in [Jobs -> {"absent", "running", "ok", "failed"}]
    /\ old \in [Jobs -> BOOLEAN]
    /\ job \in [Jobs -> {"none", "sending", "waiting", "failing", "dropping",
                         "pushing", "retaining", "evicting", "done", "dead"}]
    /\ path \in [Jobs -> {"direct", "master"}]
    /\ s3 \in [Jobs -> {"idle", "running", "done", "failed"}]
    /\ up \in [Jobs -> {"idle", "posting", "open", "done", "failed"}]
    /\ next \in [Jobs -> 1..(Chunks + 1)]
    /\ stage \in [Jobs -> [here : BOOLEAN, parts : Seq(0..Chunks)]]
    /\ linked \in [Jobs -> BOOLEAN]
    /\ remote \in [Jobs -> [Targets -> {"absent", "whole", "corrupt"}]]
    /\ pushed \in [Jobs -> SUBSET Targets] /\ failed \in [Jobs -> SUBSET Targets]
    /\ victims \in [Jobs -> SUBSET Jobs] /\ cut \in [Jobs -> SUBSET Jobs]
    /\ delq \subseteq Jobs /\ toMark \subseteq Jobs /\ toEvict \subseteq Jobs
    /\ erased \subseteq Jobs
    /\ crashes \in 0..MaxCrashes

Init ==
    /\ order = <<>>
    /\ row = [j \in Jobs |-> "absent"]
    /\ old = [j \in Jobs |-> FALSE]
    /\ job = [j \in Jobs |-> "none"]
    /\ path = [j \in Jobs |-> IF j \in Direct THEN "direct" ELSE "master"]
    /\ s3 = [j \in Jobs |-> "idle"]
    /\ up = [j \in Jobs |-> "idle"]
    /\ next = [j \in Jobs |-> 1]
    /\ stage = [j \in Jobs |-> NoFile]
    /\ linked = [j \in Jobs |-> FALSE]
    /\ remote = [j \in Jobs |-> [t \in Targets |-> "absent"]]
    /\ pushed = [j \in Jobs |-> {}] /\ failed = [j \in Jobs |-> {}]
    /\ victims = [j \in Jobs |-> {}] /\ cut = [j \in Jobs |-> {}]
    /\ delq = {} /\ toMark = {} /\ toEvict = {} /\ erased = {}
    /\ crashes = 0

\* os.Remove(b.StagePath): an open request keeps writing to the unlinked file.
RemoveStage(j) ==
    /\ stage' = [stage EXCEPT ![j] = NoFile]
    /\ linked' = [linked EXCEPT ![j] = FALSE]

\* UpdateBackup: sets the status whatever it was; no row, no effect.
UpdateBackup(j, s) ==
    row' = [row EXCEPT ![j] = IF @ = "absent" THEN "absent" ELSE s]

-----------------------------------------------------------------------------
(* Faulty variants of the actions below, each a bug the code could have.   *)
(* No specification uses them: they show that the properties notice.       *)

\* The stage goes as soon as the pushes ended, whatever they returned.
FinishPushesAlways(j) ==
    /\ job[j] = "pushing"
    /\ pushed[j] \union failed[j] = TargetsOf[j]
    /\ job' = [job EXCEPT ![j] = "retaining"]
    /\ RemoveStage(j)
    /\ UNCHANGED <<order, row, old, path, uploadVars, pushVars, evictVars,
                   reapVars, crashes>>

\* The reaper's SELECT without its age limit.
ReapSelectYoung ==
    /\ toMark = {} /\ toEvict = {}
    /\ LET stale == {j \in Jobs : row[j] = "running"}
       IN  stale # {} /\ toMark' = stale /\ toEvict' = stale
    /\ UNCHANGED <<order, row, old, job, path, uploadVars, fileVars, pushVars,
                   evictVars, crashes>>

\* The reaper's SELECT without its status filter.
ReapSelectAny ==
    /\ toMark = {} /\ toEvict = {}
    /\ LET stale == {j \in Jobs : row[j] # "absent" /\ old[j]}
       IN  stale # {} /\ toMark' = stale /\ toEvict' = stale
    /\ UNCHANGED <<order, row, old, job, path, uploadVars, fileVars, pushVars,
                   evictVars, crashes>>

\* The reaper's UPDATE matches nothing.
ReapMarkNothing(j) ==
    /\ j \in toMark
    /\ toMark' = toMark \ {j}
    /\ UNCHANGED <<order, row, old, job, path, uploadVars, fileVars, pushVars,
                   evictVars, toEvict, crashes>>

-----------------------------------------------------------------------------
(* The job.                                                                *)

createBackupJob(j) ==
    /\ job[j] = "none"
    /\ job' = [job EXCEPT ![j] = "sending"]
    /\ row' = [row EXCEPT ![j] = "running"]
    /\ order' = Append(order, j)
    /\ UNCHANGED <<old, path, uploadVars, fileVars, pushVars, evictVars,
                   reapVars, crashes>>

\* Hub.Send of the backup request; the agent starts handleBackup.
SendRequest(j) ==
    /\ job[j] = "sending"
    /\ job' = [job EXCEPT ![j] = "waiting"]
    /\ IF path[j] = "direct"
       THEN s3' = [s3 EXCEPT ![j] = "running"] /\ UNCHANGED up
       ELSE up' = [up EXCEPT ![j] = "posting"] /\ UNCHANGED s3
    /\ UNCHANGED <<order, row, old, path, next, fileVars, pushVars, evictVars,
                   reapVars, crashes>>

\* Send failed, the agent reported an error, the connection was lost or the
\* timer fired.  A failed direct attempt drops the stage and is retried
\* through the master, everything else fails the job.
AttemptFails(j) ==
    /\ job[j] \in {"sending", "waiting"}
    /\ IF path[j] = "direct"
       THEN /\ path' = [path EXCEPT ![j] = "master"]
            /\ job' = [job EXCEPT ![j] = "sending"]
            /\ RemoveStage(j)
       ELSE /\ job' = [job EXCEPT ![j] = "failing"]
            /\ UNCHANGED <<path, fileVars>>
    /\ UNCHANGED <<order, row, old, uploadVars, pushVars, evictVars, reapVars,
                   crashes>>

RecordFailed(j) ==
    /\ job[j] = "failing"
    /\ job' = [job EXCEPT ![j] = "dropping"]
    /\ UpdateBackup(j, "failed")
    /\ UNCHANGED <<order, old, path, uploadVars, fileVars, pushVars, evictVars,
                   reapVars, crashes>>

DropStage(j) ==
    /\ job[j] = "dropping"
    /\ job' = [job EXCEPT ![j] = "done"]
    /\ RemoveStage(j)
    /\ UNCHANGED <<order, row, old, path, uploadVars, pushVars, evictVars,
                   reapVars, crashes>>

\* The agent's BackupResult arrives: the row says ok before any push starts.
RecordOK(j) ==
    /\ job[j] = "waiting"
    /\ UpdateBackup(j, "ok")
    /\ \/ /\ path[j] = "direct" /\ s3[j] = "done"
          /\ job' = [job EXCEPT ![j] = "retaining"]
          /\ pushed' = [pushed EXCEPT ![j] = TargetsOf[j]]
       \/ /\ path[j] = "master" /\ up[j] = "done"
          /\ job' = [job EXCEPT ![j] = "pushing"]
          /\ UNCHANGED pushed
    /\ UNCHANGED <<order, old, path, uploadVars, fileVars, remote, failed,
                   evictVars, reapVars, crashes>>

\* pushArchiveReliable to one target, all its attempts: it copies the staged
\* file as it is, and fails when there is none or the target refuses.
Push(j, t) ==
    /\ job[j] = "pushing"
    /\ t \in TargetsOf[j] \ (pushed[j] \union failed[j])
    /\ \/ /\ stage[j].here
          /\ pushed' = [pushed EXCEPT ![j] = @ \union {t}]
          /\ remote' = [remote EXCEPT ![j][t] = IF Intact(j) THEN "whole" ELSE "corrupt"]
          /\ UNCHANGED failed
       \/ /\ failed' = [failed EXCEPT ![j] = @ \union {t}]
          /\ UNCHANGED <<pushed, remote>>
    /\ UNCHANGED <<order, row, old, job, path, uploadVars, fileVars, evictVars,
                   reapVars, crashes>>

\* All pushes returned: keep the stage only if no target took the archive.
FinishPushes(j) ==
    /\ job[j] = "pushing"
    /\ pushed[j] \union failed[j] = TargetsOf[j]
    /\ job' = [job EXCEPT ![j] = "retaining"]
    /\ IF failed[j] # {} THEN UpdateBackup(j, "ok") ELSE UNCHANGED row
    /\ IF pushed[j] # {} THEN RemoveStage(j) ELSE UNCHANGED fileVars
    /\ UNCHANGED <<order, old, path, uploadVars, pushVars, evictVars, reapVars,
                   crashes>>

\* The node's rows, newest first, past the first KeepCount.  Every row counts
\* as a version, whatever its status.
Rows == {i \in 1..Len(order) : row[order[i]] # "absent"}
Newer(i) == {k \in Rows : k > i}
Excess == {order[i] : i \in {k \in Rows : Cardinality(Newer(k)) >= KeepCount}}

applyRetention(j) ==
    /\ job[j] = "retaining"
    /\ IF KeepCount = 0
       THEN job' = [job EXCEPT ![j] = "done"] /\ UNCHANGED victims
       ELSE /\ job' = [job EXCEPT ![j] = "evicting"]
            /\ victims' = [victims EXCEPT ![j] = Excess]
    /\ UNCHANGED <<order, row, old, path, uploadVars, fileVars, pushVars, cut,
                   delq, erased, reapVars, crashes>>

\* deleteRemoteAsync is started and the stage removed, then the row deleted.
EvictData(j, v) ==
    /\ job[j] = "evicting" /\ cut[j] = {} /\ v \in victims[j]
    /\ victims' = [victims EXCEPT ![j] = @ \ {v}]
    /\ cut' = [cut EXCEPT ![j] = {v}]
    /\ delq' = delq \union {v}
    /\ erased' = erased \union {v}
    /\ RemoveStage(v)
    /\ UNCHANGED <<order, row, old, job, path, uploadVars, pushVars, reapVars,
                   crashes>>

EvictRow(j) ==
    /\ job[j] = "evicting" /\ cut[j] # {}
    /\ row' = [v \in Jobs |-> IF v \in cut[j] THEN "absent" ELSE row[v]]
    /\ cut' = [cut EXCEPT ![j] = {}]
    /\ UNCHANGED <<order, old, job, path, uploadVars, fileVars, pushVars,
                   victims, delq, erased, reapVars, crashes>>

RetentionDone(j) ==
    /\ job[j] = "evicting" /\ victims[j] = {} /\ cut[j] = {}
    /\ job' = [job EXCEPT ![j] = "done"]
    /\ UNCHANGED <<order, row, old, path, uploadVars, fileVars, pushVars,
                   evictVars, reapVars, crashes>>

deleteRemote(v) ==
    /\ v \in delq
    /\ delq' = delq \ {v}
    /\ remote' = [remote EXCEPT ![v] = [t \in Targets |->
                     IF t \in TargetsOf[v] THEN "absent" ELSE @[t]]]
    /\ UNCHANGED <<order, row, old, job, path, uploadVars, fileVars, pushed,
                   failed, victims, cut, erased, reapVars, crashes>>

\* The admin's DELETE /api/backups/{id}, of any row: remote copies, stage, row.
Delete(v) ==
    /\ row[v] # "absent"
    /\ row' = [row EXCEPT ![v] = "absent"]
    /\ remote' = [remote EXCEPT ![v] = [t \in Targets |->
                     IF t \in TargetsOf[v] THEN "absent" ELSE @[t]]]
    /\ erased' = erased \union {v}
    /\ RemoveStage(v)
    /\ UNCHANGED <<order, old, job, path, uploadVars, pushed, failed, victims,
                   cut, delq, reapVars, crashes>>

-----------------------------------------------------------------------------
(* The agent's uploads.                                                    *)

\* Upload opens the staged file: chunk 0 truncates, every other one appends
\* and creates the file when it is missing.  Without a row it is a 404.
ChunkOpen(j) ==
    /\ up[j] = "posting"
    /\ IF row[j] = "absent"
       THEN up' = [up EXCEPT ![j] = "failed"] /\ UNCHANGED fileVars
       ELSE /\ up' = [up EXCEPT ![j] = "open"]
            /\ stage' = [stage EXCEPT ![j] =
                 [here |-> TRUE, parts |-> IF next[j] = 1 THEN <<>> ELSE @.parts]]
            /\ linked' = [linked EXCEPT ![j] = TRUE]
    /\ UNCHANGED <<order, row, old, job, path, s3, next, pushVars, evictVars,
                   reapVars, crashes>>

AppendPart(j, p) ==
    stage' = [stage EXCEPT ![j].parts = IF linked[j] THEN Append(@, p) ELSE @]

ChunkWritten(j) ==
    /\ up[j] = "open"
    /\ AppendPart(j, next[j])
    /\ next' = [next EXCEPT ![j] = @ + 1]
    /\ up' = [up EXCEPT ![j] = IF next[j] = Chunks THEN "done" ELSE "posting"]
    /\ UNCHANGED <<order, row, old, job, path, s3, linked, pushVars, evictVars,
                   reapVars, crashes>>

\* The connection breaks within a chunk, or the producer failed: the agent
\* gives up, what was copied stays in the file.
ChunkBreaks(j) ==
    /\ up[j] = "open"
    /\ AppendPart(j, 0)
    /\ up' = [up EXCEPT ![j] = "failed"]
    /\ UNCHANGED <<order, row, old, job, path, s3, next, linked, pushVars,
                   evictVars, reapVars, crashes>>

UploadS3(j) ==
    /\ s3[j] = "running"
    /\ \/ /\ s3' = [s3 EXCEPT ![j] = "done"]
          /\ remote' = [remote EXCEPT ![j] = [t \in Targets |->
                           IF t \in TargetsOf[j] THEN "whole" ELSE @[t]]]
       \/ /\ s3' = [s3 EXCEPT ![j] = "failed"]
          /\ UNCHANGED remote
    /\ UNCHANGED <<order, row, old, job, path, up, next, fileVars, pushed,
                   failed, evictVars, reapVars, crashes>>

-----------------------------------------------------------------------------
(* The reaper: SELECT, one guarded UPDATE per row, then one Remove per row *)
(* of the SELECT, whether its UPDATE hit or not.                           *)

\* Time passes.  LongJobs = FALSE assumes every live job ends in time.
GrowOld(j) ==
    /\ row[j] # "absent" /\ ~old[j]
    /\ LongJobs \/ ~Live(j)
    /\ old' = [old EXCEPT ![j] = TRUE]
    /\ UNCHANGED <<order, row, job, path, uploadVars, fileVars, pushVars,
                   evictVars, reapVars, crashes>>

ReapSelect ==
    /\ toMark = {} /\ toEvict = {}
    /\ LET stale == {j \in Jobs : row[j] = "running" /\ old[j]}
       IN  stale # {} /\ toMark' = stale /\ toEvict' = stale
    /\ UNCHANGED <<order, row, old, job, path, uploadVars, fileVars, pushVars,
                   evictVars, crashes>>

ReapMark(j) ==
    /\ j \in toMark
    /\ toMark' = toMark \ {j}
    /\ row' = [row EXCEPT ![j] = IF @ = "running" THEN "failed" ELSE @]
    /\ UNCHANGED <<order, old, job, path, uploadVars, fileVars, pushVars,
                   evictVars, toEvict, crashes>>

ReapEvict(j) ==
    /\ toMark = {} /\ j \in toEvict
    /\ toEvict' = toEvict \ {j}
    /\ RemoveStage(j)
    /\ UNCHANGED <<order, row, old, job, path, uploadVars, pushVars, evictVars,
                   toMark, crashes>>

\* The master restarts.  Goroutines and open requests die, files, rows and
\* remote objects stay; the agents go on posting chunks.
Crash ==
    /\ crashes < MaxCrashes
    /\ crashes' = crashes + 1
    /\ job' = [j \in Jobs |-> IF Live(j) THEN "dead" ELSE job[j]]
    /\ victims' = [j \in Jobs |-> {}] /\ cut' = [j \in Jobs |-> {}]
    /\ delq' = {} /\ toMark' = {} /\ toEvict' = {}
    /\ up' = [j \in Jobs |-> IF up[j] = "open" THEN "failed" ELSE up[j]]
    /\ stage' = [j \in Jobs |-> IF up[j] = "open" /\ linked[j]
                   THEN [stage[j] EXCEPT !.parts = Append(@, 0)] ELSE stage[j]]
    /\ UNCHANGED <<order, row, old, path, s3, next, linked, pushVars, erased>>

JobSteps(j) ==
    \/ SendRequest(j) \/ AttemptFails(j) \/ RecordFailed(j) \/ DropStage(j)
    \/ RecordOK(j) \/ FinishPushes(j) \/ applyRetention(j)
    \/ EvictRow(j) \/ RetentionDone(j)
    \/ \E t \in Targets : Push(j, t)
    \/ \E v \in Jobs : EvictData(j, v)
ReapSteps == ReapSelect \/ \E j \in Jobs : ReapMark(j) \/ ReapEvict(j)

Next ==
    \/ \E j \in Jobs :
         \/ createBackupJob(j) \/ JobSteps(j)
         \/ ChunkOpen(j) \/ ChunkWritten(j) \/ ChunkBreaks(j) \/ UploadS3(j)
         \/ GrowOld(j) \/ Delete(j) \/ deleteRemote(j)
    \/ ReapSteps
    \/ Crash

Spec == Init /\ [][Next]_vars

\* Goroutines of the master run (the waiter has a timer), time passes, the
\* reaper ticks every five minutes.  Nothing is assumed of the agent.
Fairness ==
    /\ \A j \in Jobs : WF_vars(JobSteps(j)) /\ WF_vars(GrowOld(j))
    /\ WF_vars(ReapSteps)

LiveSpec == Spec /\ Fairness

-----------------------------------------------------------------------------
(* Properties.                                                             *)

\* A backup listed ok can be restored: unless its data was deleted on
\* purpose, the intact archive is staged or on a target, and every target
\* reported green stores it intact.
OkMeansRestorable ==
    \A j \in Jobs : row[j] = "ok" /\ j \notin erased =>
        /\ Intact(j) \/ \E t \in TargetsOf[j] : remote[j][t] = "whole"
        /\ \A t \in pushed[j] : remote[j][t] = "whole"

\* What every state of the jobs satisfies.
JobInv == TypeOK /\ OkMeansRestorable

\* A backup that was recorded failed never turns into a success.
FailedStaysFailed ==
    [][\A j \in Jobs : row[j] = "failed" => row'[j] \in {"failed", "absent"}]_vars

\* The archive of a job that ended ok without storing it on any target is
\* not removed by anything but retention or the admin.
UnpushedStageKept ==
    [][\A j \in Jobs :
         row[j] = "ok" /\ job[j] \in {"done", "dead"} /\ pushed[j] = {}
           /\ j \notin erased' /\ Intact(j)
         => stage'[j] = stage[j]]_vars

\* Every row ends: a job that never finished, because its process died, is
\* finalized by the reaper.
RunningRowsEnd == \A j \in Jobs : row[j] = "running" ~> row[j] # "running"

(* reaper.go:12-16, store/backups.go:80-84: a running row past the max age *)
(* cannot belong to a live job.                                            *)
ReapedIsOrphan == \A j \in toEvict : ~Live(j)

(* store/backups.go:87-88: a job that legitimately finished between the    *)
(* SELECT and the UPDATE is untouched.                                     *)
FinishedJobUntouched ==
    [][\A j \in Jobs : ReapEvict(j) /\ stage[j].here => row[j] # "ok"]_vars

(* service.go:605-609: when the stage is evicted, at least one target      *)
(* holds the archive.                                                      *)
EvictedStageIsOnTarget ==
    [][\A j \in Jobs : FinishPushes(j) /\ stage[j].here /\ ~stage'[j].here
         => \E t \in TargetsOf[j] : remote[j][t] = "whole"]_vars

(* service.go:617-619: the partial stage of a failed job is dropped, so it *)
(* does not pile up.                                                       *)
FailedLeavesNoStage ==
    \A j \in Jobs : job[j] = "done" /\ row[j] = "failed" => ~stage[j].here

(* service.go:1632-1639: keep_count means N versions of each container: a  *)
(* good backup is only evicted when KeepCount newer ones are there.        *)
EvictionKeepsVersions ==
    [][\A j, v \in Jobs : EvictData(j, v) /\ row[v] = "ok" =>
         \E i \in Rows : /\ order[i] = v
                         /\ Cardinality({k \in Newer(i) : row[order[k]] = "ok"}) >= KeepCount]_vars
=============================================================================
