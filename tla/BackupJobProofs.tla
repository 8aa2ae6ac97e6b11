-------------------------- MODULE BackupJobProofs --------------------------
(* Archive backups, for any jobs, targets, number of chunks, of versions   *)
(* kept and of restarts: as long as no live job outlasts the reaper's age  *)
(* (~LongJobs), a backup listed ok can be restored, a failed one stays     *)
(* failed, and an archive no target took is kept.                          *)
EXTENDS BackupJob, TLAPS

File == [here : BOOLEAN, parts : Seq(0..Chunks)]
JobStates == {"none", "sending", "waiting", "failing", "dropping", "pushing", "retaining",
              "evicting", "done", "dead"}
Stored == {"absent", "whole", "corrupt"}

\* The first n chunks, as they are posted.
Posted(n) == [i \in 1..n |-> i]

(* What the row may say while the goroutine lives, and that the reaper has *)
(* only its hands on jobs that are over without a success.                 *)
Life(j) ==
    /\ job[j] = "none" => row[j] = "absent"
    /\ job[j] \in {"sending", "waiting", "failing"} => row[j] \in {"running", "absent"}
    /\ job[j] = "dropping" => row[j] \in {"failed", "absent"}
    /\ job[j] = "pushing" => row[j] \in {"ok", "absent"}
    /\ old[j] => job[j] \in {"done", "dead"}
    /\ j \in toMark \union toEvict => job[j] \in {"done", "dead"} /\ row[j] # "ok"

(* A direct attempt comes first and posts nothing; the chunks of the       *)
(* attempt through the master are in the staged file, in order.            *)
Posting(j) ==
    /\ path[j] = "direct" => j \in Direct
    /\ path[j] = "direct" \/ job[j] \in {"none", "sending"} => up[j] = "idle" /\ next[j] = 1
    /\ up[j] \in {"posting", "open"} => next[j] <= Chunks
    /\ job[j] = "waiting" /\ path[j] = "master" /\ j \notin erased =>
        /\ up[j] = "posting" /\ next[j] > 1 =>
              stage[j].here /\ stage[j].parts = Posted(next[j] - 1)
        /\ up[j] = "open" => stage[j].here /\ linked[j] /\ stage[j].parts = Posted(next[j] - 1)
        /\ up[j] = "done" => Intact(j)

(* Where the archive of a success is, until it is deleted on purpose.      *)
Stores(j) ==
    /\ pushed[j] \subseteq TargetsOf[j]
    /\ job[j] \in {"none", "sending", "waiting", "failing", "dropping"} => pushed[j] = {}
    /\ s3[j] = "done" /\ path[j] = "direct" /\ j \notin erased =>
        \A t \in TargetsOf[j] : remote[j][t] = "whole"
    /\ row[j] = "ok" /\ path[j] = "direct" /\ j \notin erased =>
        s3[j] = "done" /\ pushed[j] = TargetsOf[j]
    /\ job[j] = "pushing" => path[j] = "master"
    /\ (row[j] = "ok" \/ job[j] = "pushing") /\ path[j] = "master" /\ j \notin erased =>
        /\ up[j] = "done"
        /\ job[j] = "pushing" \/ pushed[j] = {} => Intact(j)
        /\ \A t \in pushed[j] : remote[j][t] = "whole"

Sound(j) == Life(j) /\ Posting(j) /\ Stores(j)

\* Nothing deletes without a note of it.
Noted == delq \subseteq erased /\ \A j \in Jobs : cut[j] \subseteq erased

JobMaster == TypeOK /\ Noted /\ \A j \in Jobs : Sound(j)

-----------------------------------------------------------------------------

LEMMA NoFileType == NoFile \in File /\ ~NoFile.here
  BY DEF NoFile, File

LEMMA NextPosted ==
  ASSUME NEW n \in Nat
  PROVE  Posted(n) \in Seq(Nat) /\ Append(Posted(n), n + 1) = Posted(n + 1)
<1>1. Posted(n) \in Seq(Nat) /\ Len(Posted(n)) = n
  BY DEF Posted
<1>2. DOMAIN Append(Posted(n), n + 1) = 1..(n + 1) /\ Append(Posted(n), n + 1) \in Seq(Nat)
  BY <1>1
<1>3. \A i \in 1..(n + 1) : Append(Posted(n), n + 1)[i] = i
  BY <1>1 DEF Posted
<1> QED BY <1>1, <1>2, <1>3 DEF Posted

LEMMA PostedEnds == Posted(Chunks) = Whole /\ Posted(0) = <<>>
  BY DEF Posted, Whole

LEMMA JobInit == Init => JobMaster
<1> SUFFICES ASSUME Init PROVE JobMaster
  OBVIOUS
<1> USE BackupConstants DEF Init
<1>1. stage \in [Jobs -> File]
  BY NoFileType
<1>2. TypeOK
  BY <1>1 DEF TypeOK, File
<1>3. Noted
  BY DEF Noted
<1>4. \A j \in Jobs : Sound(j)
  BY DEF Sound, Life, Posting, Stores
<1> QED BY <1>2, <1>3, <1>4 DEF JobMaster

-----------------------------------------------------------------------------
(* Types.                                                                  *)

LEMMA RemoveStageTypes ==
  ASSUME stage \in [Jobs -> File], linked \in [Jobs -> BOOLEAN], NEW j \in Jobs, RemoveStage(j)
  PROVE  stage' \in [Jobs -> File] /\ linked' \in [Jobs -> BOOLEAN]
  BY NoFileType DEF RemoveStage

LEMMA AppendTypes ==
  ASSUME stage \in [Jobs -> File], NEW j \in Jobs, NEW p \in 0..Chunks, AppendPart(j, p)
  PROVE  /\ stage' \in [Jobs -> File]
         /\ stage'[j].here = stage[j].here
         /\ stage'[j].parts = IF linked[j] THEN Append(stage[j].parts, p) ELSE stage[j].parts
         /\ \A k \in Jobs \ {j} : stage'[k] = stage[k]
<1> DEFINE q == IF linked[j] THEN Append(stage[j].parts, p) ELSE stage[j].parts
           new == [stage[j] EXCEPT !.parts = q]
<1>1. stage[j] \in File /\ stage[j].parts \in Seq(0..Chunks)
  BY DEF File
<1>2. q \in Seq(0..Chunks)
  <2> DEFINE P == 0..Chunks
             s == stage[j].parts
  <2>1. s \in Seq(P) /\ p \in P
    BY <1>1
  <2> HIDE DEF P, s
  <2>2. Append(s, p) \in Seq(P)
    BY <2>1
  <2> QED BY <2>1, <2>2 DEF P, s
<1>3. new \in File /\ new.here = stage[j].here /\ new.parts = q
  BY <1>1, <1>2 DEF File
<1>4. stage' = [stage EXCEPT ![j] = new]
  BY DEF AppendPart
<1> HIDE DEF q, new
<1>5. stage' \in [Jobs -> File] /\ stage'[j] = new /\ \A k \in Jobs \ {j} : stage'[k] = stage[k]
  BY <1>3, <1>4
<1> QED BY <1>3, <1>5 DEF q

LEMMA ErasedRemoteTypes ==
  ASSUME remote \in [Jobs -> [Targets -> Stored]], NEW v \in Jobs,
         remote' = [remote EXCEPT ![v] = [t \in Targets |->
                       IF t \in TargetsOf[v] THEN "absent" ELSE @[t]]]
  PROVE  remote' \in [Jobs -> [Targets -> Stored]] /\ \A k \in Jobs \ {v} : remote'[k] = remote[k]
<1> DEFINE new == [t \in Targets |-> IF t \in TargetsOf[v] THEN "absent" ELSE remote[v][t]]
<1>1. new \in [Targets -> Stored] /\ remote' = [remote EXCEPT ![v] = new]
  BY DEF Stored
<1> HIDE DEF new
<1> QED BY <1>1

LEMMA JobTypes ==
  ASSUME JobMaster, NEW j \in Jobs,
         \/ createBackupJob(j) \/ SendRequest(j) \/ AttemptFails(j) \/ RecordFailed(j) \/ DropStage(j)
         \/ RecordOK(j) \/ FinishPushes(j) \/ applyRetention(j) \/ EvictRow(j) \/ RetentionDone(j)
         \/ \E t \in Targets : Push(j, t)
         \/ \E v \in Jobs : EvictData(j, v)
  PROVE  TypeOK'
<1>0. TypeOK /\ Sound(j)
  BY DEF JobMaster
<1>f. stage \in [Jobs -> File] /\ linked \in [Jobs -> BOOLEAN]
  BY <1>0 DEF TypeOK, File
<1> USE BackupConstants DEF uploadVars, fileVars, pushVars, evictVars, reapVars
<1>1. CASE createBackupJob(j)
  <2>1. order' \in Seq(Jobs)
    BY <1>0, <1>1 DEF createBackupJob, TypeOK
  <2> QED BY <1>0, <1>1, <2>1 DEF createBackupJob, TypeOK
<1>2. CASE SendRequest(j)
  <2>1. CASE path[j] = "direct"
    BY <1>0, <1>2, <2>1 DEF SendRequest, TypeOK
  <2>2. CASE path[j] # "direct"
    BY <1>0, <1>2, <2>2 DEF SendRequest, TypeOK
  <2> QED BY <2>1, <2>2
<1>3. CASE AttemptFails(j)
  <2>1. CASE path[j] = "direct"
    <3>1. stage' \in [Jobs -> File] /\ linked' \in [Jobs -> BOOLEAN]
      BY <1>3, <1>f, <2>1, RemoveStageTypes DEF AttemptFails
    <3> QED BY <1>0, <1>3, <2>1, <3>1 DEF AttemptFails, TypeOK, File
  <2>2. CASE path[j] # "direct"
    BY <1>0, <1>3, <2>2 DEF AttemptFails, TypeOK
  <2> QED BY <2>1, <2>2
<1>4. CASE RecordFailed(j)
  BY <1>0, <1>4 DEF RecordFailed, UpdateBackup, TypeOK
<1>5. CASE DropStage(j)
  <2>1. stage' \in [Jobs -> File] /\ linked' \in [Jobs -> BOOLEAN]
    BY <1>5, <1>f, RemoveStageTypes DEF DropStage
  <2> QED BY <1>0, <1>5, <2>1 DEF DropStage, TypeOK, File
<1>6. CASE RecordOK(j)
  <2>1. row' \in [Jobs -> {"absent", "running", "ok", "failed"}]
    BY <1>0, <1>6 DEF RecordOK, UpdateBackup, TypeOK
  <2>2. CASE job' = [job EXCEPT ![j] = "retaining"] /\ pushed' = [pushed EXCEPT ![j] = TargetsOf[j]]
    BY <1>0, <1>6, <2>1, <2>2 DEF RecordOK, TypeOK
  <2>3. CASE job' = [job EXCEPT ![j] = "pushing"] /\ pushed' = pushed
    BY <1>0, <1>6, <2>1, <2>3 DEF RecordOK, TypeOK
  <2> QED BY <1>6, <2>2, <2>3 DEF RecordOK
<1>7. CASE FinishPushes(j)
  <2>1. row' \in [Jobs -> {"absent", "running", "ok", "failed"}]
    <3>1. CASE failed[j] # {}
      BY <1>0, <1>7, <3>1 DEF FinishPushes, UpdateBackup, TypeOK
    <3>2. CASE failed[j] = {}
      BY <1>0, <1>7, <3>2 DEF FinishPushes, TypeOK
    <3> QED BY <3>1, <3>2
  <2>2. stage' \in [Jobs -> File] /\ linked' \in [Jobs -> BOOLEAN]
    <3>1. CASE pushed[j] # {}
      BY <1>7, <1>f, <3>1, RemoveStageTypes DEF FinishPushes
    <3>2. CASE pushed[j] = {}
      BY <1>7, <1>f, <3>2 DEF FinishPushes
    <3> QED BY <3>1, <3>2
  <2> QED BY <1>0, <1>7, <2>1, <2>2 DEF FinishPushes, TypeOK, File
<1>8. CASE applyRetention(j)
  <2>1. CASE KeepCount = 0
    BY <1>0, <1>8, <2>1 DEF applyRetention, TypeOK
  <2>2. CASE KeepCount # 0
    <3>1. order \in Seq(Jobs)
      BY <1>0 DEF TypeOK
    <3>2. Excess \subseteq Jobs
      BY <3>1 DEF Excess, Rows
    <3>3. victims' = [victims EXCEPT ![j] = Excess] /\ job' = [job EXCEPT ![j] = "evicting"]
      BY <1>8, <2>2 DEF applyRetention
    <3>4. victims' \in [Jobs -> SUBSET Jobs]
      BY <1>0, <3>2, <3>3 DEF TypeOK
    <3>5. job' \in [Jobs -> JobStates]
      BY <1>0, <3>3 DEF TypeOK, JobStates
    <3> QED BY <1>0, <1>8, <3>4, <3>5 DEF applyRetention, TypeOK, JobStates
  <2> QED BY <2>1, <2>2
<1>9. CASE EvictRow(j)
  <2>1. row' \in [Jobs -> {"absent", "running", "ok", "failed"}]
    BY <1>0, <1>9 DEF EvictRow, TypeOK
  <2> QED BY <1>0, <1>9, <2>1 DEF EvictRow, TypeOK
<1>10. CASE RetentionDone(j)
  BY <1>0, <1>10 DEF RetentionDone, TypeOK
<1>11. ASSUME NEW t \in Targets, Push(j, t) PROVE TypeOK'
  <2>1. CASE failed' = [failed EXCEPT ![j] = @ \union {t}] /\ UNCHANGED <<pushed, remote>>
    BY <1>0, <1>11, <2>1 DEF Push, TypeOK
  <2>2. CASE /\ pushed' = [pushed EXCEPT ![j] = @ \union {t}] /\ failed' = failed
             /\ remote' = [remote EXCEPT ![j][t] = IF Intact(j) THEN "whole" ELSE "corrupt"]
    <3> DEFINE v == IF Intact(j) THEN "whole" ELSE "corrupt"
    <3>1. remote \in [Jobs -> [Targets -> Stored]] /\ v \in Stored
      BY <1>0 DEF TypeOK, Stored
    <3>2. remote' = [remote EXCEPT ![j][t] = v]
      BY <2>2
    <3> HIDE DEF v
    <3>3. remote' \in [Jobs -> [Targets -> Stored]]
      BY <3>1, <3>2
    <3> QED BY <1>0, <1>11, <2>2, <3>3 DEF Push, TypeOK, Stored
  <2> QED BY <1>11, <2>1, <2>2 DEF Push
<1>12. ASSUME NEW v \in Jobs, EvictData(j, v) PROVE TypeOK'
  <2>1. stage' \in [Jobs -> File] /\ linked' \in [Jobs -> BOOLEAN]
    BY <1>12, <1>f, RemoveStageTypes DEF EvictData
  <2>2. victims' \in [Jobs -> SUBSET Jobs] /\ cut' \in [Jobs -> SUBSET Jobs]
    BY <1>0, <1>12 DEF EvictData, TypeOK
  <2>3. delq' \subseteq Jobs /\ erased' \subseteq Jobs
    BY <1>0, <1>12 DEF EvictData, TypeOK
  <2>4. UNCHANGED <<order, row, old, job, path, uploadVars, pushVars, reapVars, crashes>>
    BY <1>12 DEF EvictData
  <2> QED BY <1>0, <2>1, <2>2, <2>3, <2>4 DEF TypeOK, File
<1> QED BY <1>1, <1>2, <1>3, <1>4, <1>5, <1>6, <1>7, <1>8, <1>9, <1>10, <1>11, <1>12

LEMMA OtherTypes ==
  ASSUME JobMaster, NEW j \in Jobs,
         \/ ChunkOpen(j) \/ ChunkWritten(j) \/ ChunkBreaks(j) \/ UploadS3(j)
         \/ GrowOld(j) \/ Delete(j) \/ deleteRemote(j) \/ ReapMark(j) \/ ReapEvict(j)
  PROVE  TypeOK'
<1>0. TypeOK /\ Sound(j)
  BY DEF JobMaster
<1>f. stage \in [Jobs -> File] /\ linked \in [Jobs -> BOOLEAN]
  BY <1>0 DEF TypeOK, File
<1>r. remote \in [Jobs -> [Targets -> Stored]]
  BY <1>0 DEF TypeOK, Stored
<1> USE BackupConstants DEF uploadVars, fileVars, pushVars, evictVars, reapVars
<1>1. CASE ChunkOpen(j)
  <2>1. CASE row[j] = "absent"
    BY <1>0, <1>1, <2>1 DEF ChunkOpen, TypeOK
  <2>2. CASE row[j] # "absent"
    <3> DEFINE new == [here |-> TRUE, parts |-> IF next[j] = 1 THEN <<>> ELSE stage[j].parts]
    <3>1. new \in File
      <4> DEFINE q == IF next[j] = 1 THEN <<>> ELSE stage[j].parts
      <4>1. stage[j].parts \in Seq(0..Chunks) /\ <<>> \in Seq(0..Chunks)
        BY <1>f DEF File
      <4>2. q \in Seq(0..Chunks)
        BY <4>1
      <4> HIDE DEF q
      <4>3. [here |-> TRUE, parts |-> q] \in File
        BY <4>2 DEF File
      <4> QED BY <4>3 DEF q
    <3>2. stage' = [stage EXCEPT ![j] = new]
      BY <1>1, <2>2 DEF ChunkOpen
    <3> HIDE DEF new
    <3>3. stage' \in [Jobs -> File]
      BY <1>f, <3>1, <3>2
    <3> QED BY <1>0, <1>1, <2>2, <3>3 DEF ChunkOpen, TypeOK, File
  <2> QED BY <2>1, <2>2
<1>2. CASE ChunkWritten(j)
  <2>1. next[j] \in 0..Chunks /\ next[j] + 1 \in 1..(Chunks + 1)
    BY <1>0, <1>2 DEF ChunkWritten, TypeOK, Sound, Posting
  <2>2. stage' \in [Jobs -> File]
    BY <1>2, <1>f, <2>1, AppendTypes DEF ChunkWritten
  <2>3. up' \in [Jobs -> {"idle", "posting", "open", "done", "failed"}]
    BY <1>0, <1>2 DEF ChunkWritten, TypeOK
  <2>4. next' \in [Jobs -> 1..(Chunks + 1)]
    BY <1>0, <1>2, <2>1 DEF ChunkWritten, TypeOK
  <2> QED BY <1>0, <1>2, <2>2, <2>3, <2>4 DEF ChunkWritten, TypeOK, File
<1>3. CASE ChunkBreaks(j)
  <2>1. stage' \in [Jobs -> File]
    BY <1>3, <1>f, AppendTypes DEF ChunkBreaks
  <2> QED BY <1>0, <1>3, <2>1 DEF ChunkBreaks, TypeOK, File
<1>4. CASE UploadS3(j)
  <2>0. s3' \in [Jobs -> {"idle", "running", "done", "failed"}]
    <3>1. s3' = [s3 EXCEPT ![j] = "done"] \/ s3' = [s3 EXCEPT ![j] = "failed"]
      BY <1>4 DEF UploadS3
    <3> QED BY <1>0, <3>1 DEF TypeOK
  <2>a. UNCHANGED <<order, row, old, job, path, up, next, fileVars, pushed, failed, evictVars, reapVars,
                    crashes>>
    BY <1>4 DEF UploadS3
  <2>1. CASE UNCHANGED remote
    BY <1>0, <2>0, <2>a, <2>1 DEF TypeOK
  <2>2. CASE remote' = [remote EXCEPT ![j] = [t \in Targets |-> IF t \in TargetsOf[j] THEN "whole" ELSE @[t]]]
    <3> DEFINE new == [t \in Targets |-> IF t \in TargetsOf[j] THEN "whole" ELSE remote[j][t]]
    <3>1. new \in [Targets -> Stored] /\ remote' = [remote EXCEPT ![j] = new]
      BY <1>r, <2>2 DEF Stored
    <3> HIDE DEF new
    <3>2. remote' \in [Jobs -> [Targets -> Stored]]
      BY <1>r, <3>1
    <3> QED BY <1>0, <2>0, <2>a, <3>2 DEF TypeOK, Stored
  <2> QED BY <1>4, <2>1, <2>2 DEF UploadS3
<1>5. CASE GrowOld(j)
  BY <1>0, <1>5 DEF GrowOld, TypeOK
<1>6. CASE Delete(j)
  <2>1. stage' \in [Jobs -> File] /\ linked' \in [Jobs -> BOOLEAN]
    BY <1>6, <1>f, RemoveStageTypes DEF Delete
  <2>2. remote' \in [Jobs -> [Targets -> Stored]]
    BY <1>6, <1>r, ErasedRemoteTypes DEF Delete
  <2> QED BY <1>0, <1>6, <2>1, <2>2 DEF Delete, TypeOK, File, Stored
<1>7. CASE deleteRemote(j)
  <2>1. remote' \in [Jobs -> [Targets -> Stored]]
    BY <1>7, <1>r, ErasedRemoteTypes DEF deleteRemote
  <2> QED BY <1>0, <1>7, <2>1 DEF deleteRemote, TypeOK, Stored
<1>8. CASE ReapMark(j)
  BY <1>0, <1>8 DEF ReapMark, TypeOK
<1>9. CASE ReapEvict(j)
  <2>1. stage' \in [Jobs -> File] /\ linked' \in [Jobs -> BOOLEAN]
    BY <1>9, <1>f, RemoveStageTypes DEF ReapEvict
  <2> QED BY <1>0, <1>9, <2>1 DEF ReapEvict, TypeOK, File
<1> QED BY <1>1, <1>2, <1>3, <1>4, <1>5, <1>6, <1>7, <1>8, <1>9

LEMMA CrashTypes ==
  ASSUME JobMaster, ReapSelect \/ Crash PROVE TypeOK'
<1>0. TypeOK
  BY DEF JobMaster
<1> USE BackupConstants DEF uploadVars, fileVars, pushVars, evictVars, reapVars
<1>1. CASE ReapSelect
  BY <1>0, <1>1 DEF ReapSelect, TypeOK
<1>2. CASE Crash
  <2>1. job' \in [Jobs -> JobStates]
    BY <1>0, <1>2 DEF Crash, TypeOK, JobStates
  <2>2. up' \in [Jobs -> {"idle", "posting", "open", "done", "failed"}]
    BY <1>0, <1>2 DEF Crash, TypeOK
  <2>3. stage' \in [Jobs -> File]
    <3>1. ASSUME NEW k \in Jobs
          PROVE  stage[k] \in File /\ [stage[k] EXCEPT !.parts = Append(stage[k].parts, 0)] \in File
      <4>1. stage[k] \in File /\ stage[k].parts \in Seq(0..Chunks) /\ 0 \in 0..Chunks
        BY <1>0 DEF TypeOK, File
      <4>2. Append(stage[k].parts, 0) \in Seq(0..Chunks)
        <5> DEFINE P == 0..Chunks
                   s == stage[k].parts
        <5>1. s \in Seq(P) /\ 0 \in P
          BY <4>1
        <5> HIDE DEF P, s
        <5>2. Append(s, 0) \in Seq(P)
          BY <5>1
        <5> QED BY <5>2 DEF P, s
      <4> QED BY <4>1, <4>2 DEF File
    <3>2. stage' = [k \in Jobs |-> IF up[k] = "open" /\ linked[k]
                     THEN [stage[k] EXCEPT !.parts = Append(stage[k].parts, 0)] ELSE stage[k]]
      BY <1>2 DEF Crash
    <3> QED BY <3>1, <3>2
  <2>4. crashes' \in 0..MaxCrashes
    BY <1>0, <1>2 DEF Crash, TypeOK
  <2>5. UNCHANGED <<order, row, old, path, s3, next, linked, pushVars, erased>>
        /\ victims' = [k \in Jobs |-> {}] /\ cut' = [k \in Jobs |-> {}]
        /\ delq' = {} /\ toMark' = {} /\ toEvict' = {}
    BY <1>2 DEF Crash
  <2> QED BY <1>0, <2>1, <2>2, <2>3, <2>4, <2>5 DEF TypeOK, JobStates, File
<1> QED BY <1>1, <1>2

-----------------------------------------------------------------------------
(* Soundness.                                                              *)

\* What a step leaves of the other jobs.
Apart(j) ==
    /\ \A k \in Jobs \ {j} :
         /\ row'[k] = row[k] /\ old'[k] = old[k] /\ job'[k] = job[k] /\ path'[k] = path[k]
         /\ s3'[k] = s3[k] /\ up'[k] = up[k] /\ next'[k] = next[k] /\ stage'[k] = stage[k]
         /\ linked'[k] = linked[k] /\ remote'[k] = remote[k] /\ pushed'[k] = pushed[k]
    /\ toMark' \subseteq toMark /\ toEvict' \subseteq toEvict /\ erased \subseteq erased'

LEMMA ApartSound ==
  ASSUME JobMaster, NEW j \in Jobs, Apart(j), Sound(j)'
  PROVE  \A k \in Jobs : Sound(k)'
<1> SUFFICES ASSUME NEW k \in Jobs \ {j} PROVE Sound(k)'
  OBVIOUS
<1>1. Life(k)'
  BY DEF JobMaster, Sound, Life, Apart
<1>2. Posting(k)'
  BY DEF JobMaster, Sound, Posting, Apart, Intact
<1>3. Stores(k)'
  BY DEF JobMaster, Sound, Stores, Apart, Intact
<1> QED BY <1>1, <1>2, <1>3 DEF Sound

\* The goroutine up to its result.
LEMMA AttemptSteps ==
  ASSUME ~LongJobs, JobMaster, NEW j \in Jobs,
         createBackupJob(j) \/ SendRequest(j) \/ AttemptFails(j) \/ RecordFailed(j) \/ DropStage(j)
  PROVE  \A k \in Jobs : Sound(k)'
<1>0. TypeOK /\ Sound(j)
  BY DEF JobMaster
<1> USE BackupConstants DEF uploadVars, fileVars, pushVars, evictVars, reapVars
<1>1. CASE createBackupJob(j)
  <2>1. Apart(j) /\ job[j] = "none" /\ job'[j] = "sending" /\ row'[j] = "running"
    BY <1>0, <1>1 DEF createBackupJob, TypeOK, Apart
  <2>2. Life(j)' /\ Posting(j)' /\ Stores(j)'
    BY <1>0, <1>1, <2>1 DEF createBackupJob, Sound, Life, Posting, Stores, Intact
  <2> QED BY <2>1, <2>2, ApartSound DEF Sound
<1>2. CASE SendRequest(j)
  <2>0. job[j] = "sending" /\ job'[j] = "waiting" /\ \A k \in Jobs \ {j} : job'[k] = job[k]
    BY <1>0, <1>2 DEF SendRequest, TypeOK
  <2>1. CASE path[j] = "direct"
    <3>1. Apart(j) /\ s3'[j] = "running"
      BY <1>0, <1>2, <2>0, <2>1 DEF SendRequest, TypeOK, Apart
    <3>2. Life(j)' /\ Posting(j)' /\ Stores(j)'
      BY <1>0, <1>2, <2>0, <2>1, <3>1 DEF SendRequest, Sound, Life, Posting, Stores, Intact
    <3> QED BY <3>1, <3>2, ApartSound DEF Sound
  <2>2. CASE path[j] # "direct"
    <3>1. Apart(j) /\ up'[j] = "posting"
      BY <1>0, <1>2, <2>0, <2>2 DEF SendRequest, TypeOK, Apart
    <3>2. Life(j)' /\ Posting(j)' /\ Stores(j)'
      BY <1>0, <1>2, <2>0, <2>2, <3>1 DEF SendRequest, Sound, Life, Posting, Stores, Intact
    <3> QED BY <3>1, <3>2, ApartSound DEF Sound
  <2> QED BY <2>1, <2>2
<1>3. CASE AttemptFails(j)
  <2>1. CASE path[j] = "direct"
    <3>1. Apart(j) /\ path'[j] = "master" /\ job'[j] = "sending" /\ job[j] \in {"sending", "waiting"}
      BY <1>0, <1>3, <2>1 DEF AttemptFails, RemoveStage, TypeOK, Apart
    <3>2. Life(j)' /\ Posting(j)' /\ Stores(j)'
      BY <1>0, <1>3, <2>1, <3>1 DEF AttemptFails, Sound, Life, Posting, Stores
    <3> QED BY <3>1, <3>2, ApartSound DEF Sound
  <2>2. CASE path[j] # "direct"
    <3>1. Apart(j) /\ job'[j] = "failing" /\ job[j] \in {"sending", "waiting"}
      BY <1>0, <1>3, <2>2 DEF AttemptFails, TypeOK, Apart
    <3>2. Life(j)' /\ Posting(j)' /\ Stores(j)'
      BY <1>0, <1>3, <2>2, <3>1 DEF AttemptFails, Sound, Life, Posting, Stores
    <3> QED BY <3>1, <3>2, ApartSound DEF Sound
  <2> QED BY <2>1, <2>2
<1>4. CASE RecordFailed(j)
  <2>1. Apart(j) /\ job'[j] = "dropping" /\ job[j] = "failing" /\ row'[j] \in {"failed", "absent"}
    BY <1>0, <1>4 DEF RecordFailed, UpdateBackup, TypeOK, Apart
  <2>2. Life(j)' /\ Posting(j)' /\ Stores(j)'
    BY <1>0, <1>4, <2>1 DEF RecordFailed, Sound, Life, Posting, Stores
  <2> QED BY <2>1, <2>2, ApartSound DEF Sound
<1>5. CASE DropStage(j)
  <2>1. Apart(j) /\ job'[j] = "done" /\ job[j] = "dropping"
    BY <1>0, <1>5 DEF DropStage, RemoveStage, TypeOK, Apart
  <2>2. Life(j)' /\ Posting(j)' /\ Stores(j)'
    BY <1>0, <1>5, <2>1 DEF DropStage, Sound, Life, Posting, Stores
  <2> QED BY <2>1, <2>2, ApartSound DEF Sound
<1> QED BY <1>1, <1>2, <1>3, <1>4, <1>5

\* The goroutine from its result on, as far as the others' files are not touched.
LEMMA ResultSteps ==
  ASSUME ~LongJobs, JobMaster, NEW j \in Jobs,
         \/ RecordOK(j) \/ FinishPushes(j) \/ applyRetention(j) \/ RetentionDone(j)
         \/ \E t \in Targets : Push(j, t)
  PROVE  \A k \in Jobs : Sound(k)'
<1>0. TypeOK /\ Sound(j) /\ TargetsOf[j] \subseteq Targets
  BY BackupConstants DEF JobMaster
<1> USE DEF uploadVars, fileVars, pushVars, evictVars, reapVars
<1>1. CASE RecordOK(j)
  <2>0. /\ job[j] = "waiting" /\ row'[j] \in {"ok", "absent"} /\ \A k \in Jobs \ {j} : row'[k] = row[k]
        /\ UNCHANGED <<order, old, path, uploadVars, fileVars, remote, failed, evictVars, reapVars, crashes>>
    BY <1>0, <1>1 DEF RecordOK, UpdateBackup, TypeOK
  <2>1. CASE /\ path[j] = "direct" /\ s3[j] = "done" /\ job' = [job EXCEPT ![j] = "retaining"]
             /\ pushed' = [pushed EXCEPT ![j] = TargetsOf[j]]
    <3>1. Apart(j) /\ job'[j] = "retaining" /\ pushed'[j] = TargetsOf[j]
      BY <1>0, <2>0, <2>1 DEF TypeOK, Apart
    <3>2. Life(j)' /\ Posting(j)' /\ Stores(j)'
      BY <1>0, <2>0, <2>1, <3>1 DEF Sound, Life, Posting, Stores
    <3> QED BY <3>1, <3>2, ApartSound DEF Sound
  <2>2. CASE /\ path[j] = "master" /\ up[j] = "done" /\ job' = [job EXCEPT ![j] = "pushing"]
             /\ pushed' = pushed
    <3>1. Apart(j) /\ job'[j] = "pushing"
      BY <1>0, <2>0, <2>2 DEF TypeOK, Apart
    <3>2. Life(j)' /\ Posting(j)' /\ Stores(j)'
      BY <1>0, <2>0, <2>2, <3>1 DEF Sound, Life, Posting, Stores, Intact
    <3> QED BY <3>1, <3>2, ApartSound DEF Sound
  <2> QED BY <1>1, <2>1, <2>2 DEF RecordOK
<1>2. CASE FinishPushes(j)
  <2>0. /\ job[j] = "pushing" /\ job'[j] = "retaining" /\ \A k \in Jobs \ {j} : job'[k] = job[k]
        /\ UNCHANGED <<order, old, path, uploadVars, pushVars, evictVars, reapVars, crashes>>
    BY <1>0, <1>2 DEF FinishPushes, TypeOK
  <2>1. row'[j] = row[j] /\ \A k \in Jobs \ {j} : row'[k] = row[k]
    <3>1. row[j] \in {"ok", "absent"}
      BY <1>0, <2>0 DEF Sound, Life
    <3>2. CASE failed[j] # {}
      BY <1>0, <1>2, <3>1, <3>2 DEF FinishPushes, UpdateBackup, TypeOK
    <3>3. CASE failed[j] = {}
      BY <1>2, <3>3 DEF FinishPushes
    <3> QED BY <3>2, <3>3
  <2>2. /\ \A k \in Jobs \ {j} : stage'[k] = stage[k] /\ linked'[k] = linked[k]
        /\ pushed[j] = {} => stage'[j] = stage[j] /\ linked'[j] = linked[j]
    <3>1. CASE pushed[j] # {}
      BY <1>0, <1>2, <3>1 DEF FinishPushes, RemoveStage, TypeOK
    <3>2. CASE pushed[j] = {}
      BY <1>2, <3>2 DEF FinishPushes
    <3> QED BY <3>1, <3>2
  <2>3. Apart(j)
    BY <2>0, <2>1, <2>2 DEF Apart
  <2>4. Life(j)' /\ Posting(j)' /\ Stores(j)'
    BY <1>0, <2>0, <2>1, <2>2 DEF Sound, Life, Posting, Stores, Intact
  <2> QED BY <2>3, <2>4, ApartSound DEF Sound
<1>3. CASE applyRetention(j) \/ RetentionDone(j)
  <2>1. /\ job[j] \in {"retaining", "evicting"} /\ job'[j] \in {"evicting", "done"}
        /\ \A k \in Jobs \ {j} : job'[k] = job[k]
        /\ UNCHANGED <<row, old, path, uploadVars, fileVars, pushVars, erased, reapVars>>
    <3>1. CASE job' = [job EXCEPT ![j] = "done"]
      BY <1>0, <1>3, <3>1 DEF applyRetention, RetentionDone, TypeOK
    <3>2. CASE job' = [job EXCEPT ![j] = "evicting"]
      BY <1>0, <1>3, <3>2 DEF applyRetention, RetentionDone, TypeOK
    <3> QED BY <1>3, <3>1, <3>2 DEF applyRetention, RetentionDone
  <2>2. Apart(j)
    BY <2>1 DEF Apart
  <2>3. Life(j)' /\ Posting(j)' /\ Stores(j)'
    BY <1>0, <2>1 DEF Sound, Life, Posting, Stores, Intact
  <2> QED BY <2>2, <2>3, ApartSound DEF Sound
<1>4. ASSUME NEW t \in Targets, Push(j, t) PROVE \A k \in Jobs : Sound(k)'
  <2>0. /\ job[j] = "pushing" /\ t \in TargetsOf[j]
        /\ UNCHANGED <<order, row, old, job, path, uploadVars, fileVars, evictVars, reapVars, crashes>>
    BY <1>4 DEF Push
  <2>1. CASE failed' = [failed EXCEPT ![j] = @ \union {t}] /\ UNCHANGED <<pushed, remote>>
    <3>1. Apart(j)
      BY <2>0, <2>1 DEF Apart
    <3>2. Life(j)' /\ Posting(j)' /\ Stores(j)'
      BY <1>0, <2>0, <2>1 DEF Sound, Life, Posting, Stores, Intact
    <3> QED BY <3>1, <3>2, ApartSound DEF Sound
  <2>2. CASE /\ pushed' = [pushed EXCEPT ![j] = @ \union {t}] /\ failed' = failed
             /\ remote' = [remote EXCEPT ![j][t] = IF Intact(j) THEN "whole" ELSE "corrupt"]
    <3>1. /\ pushed'[j] = pushed[j] \union {t} /\ \A k \in Jobs \ {j} : pushed'[k] = pushed[k]
          /\ \A k \in Jobs \ {j} : remote'[k] = remote[k]
          /\ \A u \in Targets \ {t} : remote'[j][u] = remote[j][u]
          /\ Intact(j) => remote'[j][t] = "whole"
      BY <1>0, <2>2 DEF TypeOK
    <3>2. Apart(j)
      BY <2>0, <3>1 DEF Apart
    <3>3. Life(j)' /\ Posting(j)'
      BY <1>0, <2>0 DEF Sound, Life, Posting, Intact
    <3>4. Stores(j)'
      BY <1>0, <2>0, <3>1 DEF Sound, Stores, Intact
    <3> QED BY <3>2, <3>3, <3>4, ApartSound DEF Sound
  <2> QED BY <1>4, <2>1, <2>2 DEF Push
<1> QED BY <1>1, <1>2, <1>3, <1>4

\* What is deleted on purpose.
LEMMA DeleteSteps ==
  ASSUME ~LongJobs, JobMaster, NEW j \in Jobs,
         \/ EvictRow(j) \/ Delete(j) \/ deleteRemote(j)
         \/ \E v \in Jobs : EvictData(v, j)
  PROVE  \A k \in Jobs : Sound(k)'
<1>0. TypeOK /\ Sound(j) /\ Noted
  BY DEF JobMaster
<1> USE DEF uploadVars, fileVars, pushVars, evictVars, reapVars
<1>1. CASE EvictRow(j)
  <2>1. /\ UNCHANGED <<order, old, job, path, uploadVars, fileVars, pushVars, victims, delq, erased,
                        reapVars, crashes>>
        /\ \A k \in Jobs : row'[k] = IF k \in cut[j] THEN "absent" ELSE row[k]
    BY <1>1 DEF EvictRow
  <2> SUFFICES ASSUME NEW k \in Jobs PROVE Sound(k)'
    OBVIOUS
  <2>2. Sound(k)
    BY DEF JobMaster
  <2>3. Life(k)' /\ Posting(k)' /\ Stores(k)'
    BY <2>1, <2>2 DEF Sound, Life, Posting, Stores, Intact
  <2> QED BY <2>3 DEF Sound
<1>2. CASE Delete(j)
  <2>1. /\ UNCHANGED <<order, old, job, path, uploadVars, pushed, failed, toMark, toEvict>>
        /\ row[j] # "absent" /\ row'[j] = "absent" /\ j \in erased' /\ erased \subseteq erased'
        /\ \A k \in Jobs \ {j} : row'[k] = row[k] /\ stage'[k] = stage[k] /\ linked'[k] = linked[k]
    BY <1>0, <1>2 DEF Delete, RemoveStage, TypeOK
  <2>2. \A k \in Jobs \ {j} : remote'[k] = remote[k]
    BY <1>0, <1>2, ErasedRemoteTypes DEF Delete, TypeOK, Stored
  <2>3. Apart(j)
    BY <2>1, <2>2 DEF Apart
  <2>4. Life(j)' /\ Posting(j)' /\ Stores(j)'
    BY <1>0, <2>1 DEF Sound, Life, Posting, Stores
  <2> QED BY <2>3, <2>4, ApartSound DEF Sound
<1>3. CASE deleteRemote(j)
  <2>1. /\ UNCHANGED <<order, row, old, job, path, uploadVars, fileVars, pushed, failed, victims, cut,
                        erased, reapVars, crashes>>
        /\ j \in erased
    BY <1>0, <1>3 DEF deleteRemote, Noted
  <2>2. \A k \in Jobs \ {j} : remote'[k] = remote[k]
    BY <1>0, <1>3, ErasedRemoteTypes DEF deleteRemote, TypeOK, Stored
  <2>3. Apart(j)
    BY <2>1, <2>2 DEF Apart
  <2>4. Life(j)' /\ Posting(j)' /\ Stores(j)'
    BY <1>0, <2>1 DEF Sound, Life, Posting, Stores
  <2> QED BY <2>3, <2>4, ApartSound DEF Sound
<1>4. ASSUME NEW v \in Jobs, EvictData(v, j) PROVE \A k \in Jobs : Sound(k)'
  <2>1. /\ UNCHANGED <<order, row, old, job, path, uploadVars, pushVars, reapVars, crashes>>
        /\ j \in erased' /\ erased \subseteq erased'
        /\ \A k \in Jobs \ {j} : stage'[k] = stage[k] /\ linked'[k] = linked[k]
    BY <1>0, <1>4 DEF EvictData, RemoveStage, TypeOK
  <2>2. Apart(j)
    BY <2>1 DEF Apart
  <2>3. Life(j)' /\ Posting(j)' /\ Stores(j)'
    BY <1>0, <2>1 DEF Sound, Life, Posting, Stores
  <2> QED BY <2>2, <2>3, ApartSound DEF Sound
<1> QED BY <1>1, <1>2, <1>3, <1>4

\* The agent's uploads.
LEMMA UploadSteps ==
  ASSUME ~LongJobs, JobMaster, NEW j \in Jobs,
         ChunkOpen(j) \/ ChunkWritten(j) \/ ChunkBreaks(j) \/ UploadS3(j)
  PROVE  \A k \in Jobs : Sound(k)'
<1>0. TypeOK /\ Sound(j) /\ TargetsOf[j] \subseteq Targets /\ stage \in [Jobs -> File]
      /\ next[j] \in 1..(Chunks + 1) /\ Chunks \in Nat
  BY BackupConstants DEF JobMaster, TypeOK, File
<1> USE DEF uploadVars, fileVars, pushVars, evictVars, reapVars
<1>1. CASE ChunkOpen(j)
  <2>0. /\ up[j] = "posting" /\ path[j] # "direct" /\ job[j] \notin {"none", "sending"} /\ next[j] <= Chunks
        /\ UNCHANGED <<order, row, old, job, path, s3, next, pushVars, evictVars, reapVars, crashes>>
    BY <1>0, <1>1 DEF ChunkOpen, Sound, Posting
  <2>1. CASE row[j] = "absent"
    <3>1. Apart(j) /\ up'[j] = "failed" /\ stage' = stage /\ linked' = linked
      BY <1>0, <1>1, <2>0, <2>1 DEF ChunkOpen, TypeOK, Apart
    <3>2. Life(j)' /\ Posting(j)' /\ Stores(j)'
      BY <1>0, <2>0, <3>1 DEF Sound, Life, Posting, Stores
    <3> QED BY <3>1, <3>2, ApartSound DEF Sound
  <2>2. CASE row[j] # "absent"
    <3>1. /\ Apart(j) /\ up'[j] = "open" /\ linked'[j]
          /\ stage'[j].here /\ stage'[j].parts = IF next[j] = 1 THEN <<>> ELSE stage[j].parts
      BY <1>0, <1>1, <2>0, <2>2 DEF ChunkOpen, TypeOK, Apart
    <3>2. Life(j)' /\ Stores(j)'
      BY <1>0, <2>0, <3>1 DEF Sound, Life, Stores
    <3>3. ASSUME job[j] = "waiting", path[j] = "master", j \notin erased
          PROVE  stage'[j].parts = Posted(next[j] - 1)
      <4>1. CASE next[j] = 1
        BY <3>1, <4>1, PostedEnds
      <4>2. CASE next[j] # 1
        BY <1>0, <2>0, <3>1, <3>3, <4>2 DEF Sound, Posting
      <4> QED BY <4>1, <4>2
    <3>4. Posting(j)'
      BY <1>0, <2>0, <3>1, <3>3 DEF Sound, Posting
    <3> QED BY <3>1, <3>2, <3>4, ApartSound DEF Sound
  <2> QED BY <2>1, <2>2
<1>2. CASE ChunkWritten(j)
  <2>0. /\ up[j] = "open" /\ path[j] # "direct" /\ job[j] \notin {"none", "sending"} /\ next[j] <= Chunks
        /\ UNCHANGED <<order, row, old, job, path, s3, linked, pushVars, evictVars, reapVars, crashes>>
        /\ next[j] \in 0..Chunks /\ AppendPart(j, next[j])
    BY <1>0, <1>2 DEF ChunkWritten, Sound, Posting
  <2>1. /\ stage'[j].here = stage[j].here /\ \A k \in Jobs \ {j} : stage'[k] = stage[k]
        /\ linked[j] => stage'[j].parts = Append(stage[j].parts, next[j])
    BY <1>0, <2>0, AppendTypes
  <2>2. /\ next'[j] = next[j] + 1 /\ up'[j] = IF next[j] = Chunks THEN "done" ELSE "posting"
        /\ \A k \in Jobs \ {j} : next'[k] = next[k] /\ up'[k] = up[k]
    BY <1>0, <1>2 DEF ChunkWritten, TypeOK
  <2>3. Apart(j)
    BY <2>0, <2>1, <2>2 DEF Apart
  <2>4. Life(j)' /\ Stores(j)'
    BY <1>0, <2>0 DEF Sound, Life, Stores
  <2>5. ASSUME job[j] = "waiting", path[j] = "master", j \notin erased
        PROVE  stage'[j].here /\ stage'[j].parts = Posted(next[j])
    <3>1. stage[j].here /\ linked[j] /\ stage[j].parts = Posted(next[j] - 1)
      BY <1>0, <2>0, <2>5 DEF Sound, Posting
    <3>2. next[j] - 1 \in Nat /\ (next[j] - 1) + 1 = next[j]
      BY <1>0
    <3>3. Append(Posted(next[j] - 1), next[j]) = Posted(next[j])
      BY <3>2, NextPosted
    <3> QED BY <2>1, <3>1, <3>3
  <2>6. Posting(j)'
    <3>1. CASE next[j] = Chunks
      BY <1>0, <2>0, <2>2, <2>5, <3>1, PostedEnds DEF Sound, Posting, Intact
    <3>2. CASE next[j] # Chunks
      <4>1. next[j] + 1 <= Chunks /\ (next[j] + 1) - 1 = next[j]
        BY <1>0, <2>0, <3>2
      <4> QED BY <1>0, <2>0, <2>2, <2>5, <3>2, <4>1 DEF Sound, Posting
    <3> QED BY <3>1, <3>2
  <2> QED BY <2>3, <2>4, <2>6, ApartSound DEF Sound
<1>3. CASE ChunkBreaks(j)
  <2>0. /\ up[j] = "open" /\ path[j] # "direct" /\ job[j] \notin {"none", "sending"}
        /\ UNCHANGED <<order, row, old, job, path, s3, next, linked, pushVars, evictVars, reapVars, crashes>>
    BY <1>0, <1>3 DEF ChunkBreaks, Sound, Posting
  <2>1. up'[j] = "failed" /\ \A k \in Jobs \ {j} : up'[k] = up[k]
    BY <1>0, <1>3 DEF ChunkBreaks, TypeOK
  <2>2. \A k \in Jobs \ {j} : stage'[k] = stage[k]
    BY <1>0, <1>3, AppendTypes DEF ChunkBreaks
  <2>3. Apart(j)
    BY <2>0, <2>1, <2>2 DEF Apart
  <2>4. Life(j)' /\ Posting(j)' /\ Stores(j)'
    BY <1>0, <2>0, <2>1 DEF Sound, Life, Posting, Stores
  <2> QED BY <2>3, <2>4, ApartSound DEF Sound
<1>4. CASE UploadS3(j)
  <2>0. s3[j] = "running"
        /\ UNCHANGED <<order, row, old, job, path, up, next, fileVars, pushed, failed, evictVars, reapVars,
                       crashes>>
    BY <1>4 DEF UploadS3
  <2>1. CASE s3' = [s3 EXCEPT ![j] = "failed"] /\ remote' = remote
    <3>1. Apart(j) /\ s3'[j] = "failed"
      BY <1>0, <2>0, <2>1 DEF TypeOK, Apart
    <3>2. Life(j)' /\ Posting(j)' /\ Stores(j)'
      BY <1>0, <2>0, <2>1, <3>1 DEF Sound, Life, Posting, Stores, Intact
    <3> QED BY <3>1, <3>2, ApartSound DEF Sound
  <2>2. CASE /\ s3' = [s3 EXCEPT ![j] = "done"]
             /\ remote' = [remote EXCEPT ![j] = [t \in Targets |-> IF t \in TargetsOf[j] THEN "whole" ELSE @[t]]]
    <3>1. /\ s3'[j] = "done" /\ \A k \in Jobs \ {j} : s3'[k] = s3[k] /\ remote'[k] = remote[k]
          /\ \A t \in TargetsOf[j] : remote'[j][t] = "whole"
      BY <1>0, <2>2 DEF TypeOK
    <3>2. Apart(j)
      BY <2>0, <3>1 DEF Apart
    <3>3. Life(j)' /\ Posting(j)' /\ Stores(j)'
      BY <1>0, <2>0, <3>1 DEF Sound, Life, Posting, Stores, Intact
    <3> QED BY <3>2, <3>3, ApartSound DEF Sound
  <2> QED BY <1>4, <2>1, <2>2 DEF UploadS3
<1> QED BY <1>1, <1>2, <1>3, <1>4

\* Time, the reaper and a restart.
LEMMA ReapSoundSteps ==
  ASSUME ~LongJobs, JobMaster,
         \/ \E j \in Jobs : GrowOld(j) \/ ReapMark(j) \/ ReapEvict(j)
         \/ ReapSelect \/ Crash
  PROVE  \A k \in Jobs : Sound(k)'
<1>0. TypeOK /\ \A k \in Jobs : Sound(k)
  BY DEF JobMaster
<1> USE DEF uploadVars, fileVars, pushVars, evictVars, reapVars
<1>1. ASSUME NEW j \in Jobs, GrowOld(j) PROVE \A k \in Jobs : Sound(k)'
  <2>1. /\ Apart(j) /\ job[j] \in {"done", "dead"}
        /\ UNCHANGED <<order, row, job, path, uploadVars, fileVars, pushVars, evictVars, reapVars, crashes>>
    BY <1>0, <1>1 DEF GrowOld, TypeOK, Apart, Live, Sound, Life
  <2>2. Life(j)' /\ Posting(j)' /\ Stores(j)'
    BY <1>0, <2>1 DEF Sound, Life, Posting, Stores, Intact
  <2> QED BY <2>1, <2>2, ApartSound DEF Sound
<1>2. ASSUME NEW j \in Jobs, ReapMark(j) PROVE \A k \in Jobs : Sound(k)'
  <2>1. /\ Apart(j) /\ job[j] \in {"done", "dead"} /\ row[j] # "ok" /\ row'[j] # "ok"
        /\ UNCHANGED <<order, old, job, path, uploadVars, fileVars, pushVars, evictVars, toEvict, crashes>>
        /\ toMark' \subseteq toMark
    BY <1>0, <1>2 DEF ReapMark, TypeOK, Apart, Sound, Life
  <2>2. Life(j)' /\ Posting(j)' /\ Stores(j)'
    BY <1>0, <2>1 DEF Sound, Life, Posting, Stores, Intact
  <2> QED BY <2>1, <2>2, ApartSound DEF Sound
<1>3. ASSUME NEW j \in Jobs, ReapEvict(j) PROVE \A k \in Jobs : Sound(k)'
  <2>1. /\ Apart(j) /\ job[j] \in {"done", "dead"} /\ row[j] # "ok"
        /\ UNCHANGED <<order, row, old, job, path, uploadVars, pushVars, evictVars, toMark, crashes>>
        /\ toEvict' \subseteq toEvict
    BY <1>0, <1>3 DEF ReapEvict, RemoveStage, TypeOK, Apart, Sound, Life
  <2>2. Life(j)' /\ Posting(j)' /\ Stores(j)'
    BY <1>0, <2>1 DEF Sound, Life, Posting, Stores
  <2> QED BY <2>1, <2>2, ApartSound DEF Sound
<1>4. CASE ReapSelect
  <2> SUFFICES ASSUME NEW k \in Jobs PROVE Sound(k)'
    OBVIOUS
  <2>1. /\ UNCHANGED <<order, row, old, job, path, uploadVars, fileVars, pushVars, evictVars, crashes>>
        /\ k \in toMark' \union toEvict' => row[k] = "running" /\ old[k]
    BY <1>4 DEF ReapSelect
  <2>2. Life(k)' /\ Posting(k)' /\ Stores(k)'
    BY <1>0, <2>1 DEF Sound, Life, Posting, Stores, Intact
  <2> QED BY <2>2 DEF Sound
<1>5. CASE Crash
  <2> SUFFICES ASSUME NEW k \in Jobs PROVE Sound(k)'
    OBVIOUS
  <2>1. /\ UNCHANGED <<order, row, old, path, s3, next, linked, pushVars, erased>>
        /\ toMark' = {} /\ toEvict' = {}
        /\ job'[k] = IF Live(k) THEN "dead" ELSE job[k]
        /\ up'[k] = IF up[k] = "open" THEN "failed" ELSE up[k]
        /\ up[k] # "open" => stage'[k] = stage[k]
    BY <1>5 DEF Crash
  <2>2. job'[k] \in {"none", "done", "dead"}
    BY <2>1 DEF Live
  <2>3. Life(k)' /\ Posting(k)'
    BY <1>0, <2>1, <2>2 DEF Sound, Life, Posting, Live
  <2>4. Stores(k)'
    BY <1>0, <2>1, <2>2 DEF Sound, Stores, Intact, Live
  <2> QED BY <2>3, <2>4 DEF Sound
<1> QED BY <1>1, <1>2, <1>3, <1>4, <1>5

LEMMA NotedStep ==
  ASSUME JobMaster, Next PROVE Noted'
<1>0. TypeOK /\ Noted
  BY DEF JobMaster
<1>1. ASSUME NEW j \in Jobs, NEW v \in Jobs, EvictData(j, v) PROVE Noted'
  BY <1>0, <1>1 DEF EvictData, TypeOK, Noted
<1>2. ASSUME NEW j \in Jobs, EvictRow(j) PROVE Noted'
  BY <1>0, <1>2 DEF EvictRow, TypeOK, Noted
<1>3. ASSUME NEW v \in Jobs, Delete(v) \/ deleteRemote(v) PROVE Noted'
  BY <1>0, <1>3 DEF Delete, deleteRemote, Noted
<1>4. CASE Crash
  BY <1>4 DEF Crash, Noted
<1>5. CASE UNCHANGED <<delq, cut, erased>>
  BY <1>0, <1>5 DEF Noted
<1> QED
  BY <1>1, <1>2, <1>3, <1>4, <1>5
  DEF Next, JobSteps, ReapSteps, createBackupJob, SendRequest, AttemptFails, RecordFailed, DropStage,
      RecordOK, FinishPushes, applyRetention, RetentionDone, Push, ChunkOpen, ChunkWritten, ChunkBreaks,
      UploadS3, GrowOld, ReapSelect, ReapMark, ReapEvict, evictVars

LEMMA JobStep == ~LongJobs /\ JobMaster /\ [Next]_vars => JobMaster'
<1> SUFFICES ASSUME ~LongJobs, JobMaster, [Next]_vars PROVE JobMaster'
  OBVIOUS
<1>1. CASE UNCHANGED vars
  BY <1>1 DEF vars, JobMaster, TypeOK, Noted, Sound, Life, Posting, Stores, Intact
<1>2. ASSUME Next PROVE TypeOK'
  BY <1>2, JobTypes, OtherTypes, CrashTypes DEF Next, JobSteps, ReapSteps
<1>3. ASSUME Next PROVE \A k \in Jobs : Sound(k)'
  BY <1>3, AttemptSteps, ResultSteps, DeleteSteps, UploadSteps, ReapSoundSteps
  DEF Next, JobSteps, ReapSteps
<1> QED BY <1>1, <1>2, <1>3, NotedStep DEF JobMaster

LEMMA JobInvariant ==
  ASSUME ~LongJobs
  PROVE  Spec => []JobMaster
<1>1. JobMaster /\ [Next]_vars => JobMaster'
  BY JobStep
<1> QED BY <1>1, JobInit, PTL DEF Spec

-----------------------------------------------------------------------------
(* The theorems.                                                           *)

\* A backup listed ok can be restored, whatever else runs, fails or restarts.
THEOREM ListedCanBeRestored ==
  ASSUME ~LongJobs
  PROVE  Spec => []JobInv
<1>1. JobMaster => OkMeansRestorable
  <2> SUFFICES ASSUME JobMaster, NEW j \in Jobs, row[j] = "ok", j \notin erased
               PROVE  /\ Intact(j) \/ \E t \in TargetsOf[j] : remote[j][t] = "whole"
                      /\ \A t \in pushed[j] : remote[j][t] = "whole"
    BY DEF OkMeansRestorable
  <2>1. Stores(j) /\ Posting(j) /\ path[j] \in {"direct", "master"}
    BY DEF JobMaster, Sound, TypeOK
  <2>2. CASE path[j] = "direct"
    BY <2>1, <2>2, BackupConstants DEF Stores, Posting
  <2>3. CASE path[j] = "master"
    BY <2>1, <2>3 DEF Stores
  <2> QED BY <2>1, <2>2, <2>3
<1>2. JobMaster => JobInv
  BY <1>1 DEF JobMaster, JobInv
<1> QED BY <1>2, JobInvariant, PTL

\* A failure that was recorded stays one.
THEOREM FailuresLast ==
  ASSUME ~LongJobs
  PROVE  Spec => FailedStaysFailed
<1>1. JobMaster /\ [Next]_vars =>
        [\A j \in Jobs : row[j] = "failed" => row'[j] \in {"failed", "absent"}]_vars
  <2> SUFFICES ASSUME JobMaster, Next, NEW j \in Jobs, row[j] = "failed"
               PROVE  row'[j] \in {"failed", "absent"}
    BY DEF vars
  <2>0. TypeOK /\ Life(j)
    BY DEF JobMaster, Sound
  <2>1. ASSUME NEW k \in Jobs, createBackupJob(k) PROVE row'[j] \in {"failed", "absent"}
    BY <2>0, <2>1 DEF createBackupJob, TypeOK, Life
  <2>2. ASSUME NEW k \in Jobs, RecordFailed(k) \/ Delete(k) \/ ReapMark(k) \/ EvictRow(k)
        PROVE  row'[j] \in {"failed", "absent"}
    BY <2>0, <2>2 DEF RecordFailed, UpdateBackup, Delete, ReapMark, EvictRow, TypeOK
  <2>3. ASSUME NEW k \in Jobs, RecordOK(k) PROVE row'[j] \in {"failed", "absent"}
    BY <2>0, <2>3 DEF RecordOK, UpdateBackup, TypeOK, Life
  <2>4. ASSUME NEW k \in Jobs, FinishPushes(k) PROVE row'[j] \in {"failed", "absent"}
    <3>1. row' = row \/ UpdateBackup(k, "ok")
      BY <2>4 DEF FinishPushes
    <3>2. j # k
      BY <2>0, <2>4 DEF FinishPushes, Life
    <3> QED BY <2>0, <3>1, <3>2 DEF UpdateBackup, TypeOK
  <2>5. CASE row' = row
    BY <2>5
  <2> QED
    BY <2>1, <2>2, <2>3, <2>4, <2>5
    DEF Next, JobSteps, ReapSteps, SendRequest, AttemptFails, DropStage, applyRetention, RetentionDone,
        Push, EvictData, ChunkOpen, ChunkWritten, ChunkBreaks, UploadS3, GrowOld, deleteRemote,
        ReapSelect, ReapEvict, Crash
<1> QED BY <1>1, JobInvariant, PTL DEF Spec, FailedStaysFailed

\* The only copy of an archive stays where it is.
THEOREM OnlyCopyStays ==
  ASSUME ~LongJobs
  PROVE  Spec => UnpushedStageKept
<1>1. JobMaster /\ [Next]_vars =>
        [\A j \in Jobs :
           row[j] = "ok" /\ job[j] \in {"done", "dead"} /\ pushed[j] = {} /\ j \notin erased' /\ Intact(j)
             => stage'[j] = stage[j]]_vars
  <2> SUFFICES ASSUME JobMaster, Next, NEW j \in Jobs,
                      row[j] = "ok", job[j] \in {"done", "dead"}, pushed[j] = {}, j \notin erased'
               PROVE  stage'[j] = stage[j]
    BY DEF vars
  <2>0. TypeOK /\ Sound(j) /\ path[j] \in {"direct", "master"} /\ stage \in [Jobs -> File]
    BY DEF JobMaster, TypeOK, File
  <2>1. erased \subseteq erased'
    BY DEF Next, JobSteps, ReapSteps, createBackupJob, SendRequest, AttemptFails, RecordFailed, DropStage,
      RecordOK, FinishPushes, applyRetention, RetentionDone, Push, ChunkOpen, ChunkWritten, ChunkBreaks,
      UploadS3, GrowOld, ReapSelect, ReapMark, ReapEvict, Crash, EvictData, EvictRow, Delete,
      deleteRemote, evictVars
  <2>2. up[j] \in {"idle", "done"} /\ j \notin toEvict
    BY <2>0, <2>1 DEF Sound, Life, Posting, Stores
  <2>3. ASSUME NEW k \in Jobs, DropStage(k) \/ AttemptFails(k) \/ FinishPushes(k) \/ ReapEvict(k)
        PROVE  stage'[j] = stage[j]
    <3>1. j # k /\ (stage' = stage \/ RemoveStage(k))
      BY <2>2, <2>3 DEF DropStage, AttemptFails, FinishPushes, ReapEvict, fileVars
    <3> QED BY <2>0, <3>1 DEF RemoveStage
  <2>4. ASSUME NEW k \in Jobs, ChunkOpen(k) PROVE stage'[j] = stage[j]
    BY <2>0, <2>2, <2>4 DEF ChunkOpen, fileVars
  <2>5. ASSUME NEW k \in Jobs, ChunkWritten(k) \/ ChunkBreaks(k) PROVE stage'[j] = stage[j]
    BY <2>0, <2>2, <2>5 DEF ChunkWritten, ChunkBreaks, AppendPart
  <2>6. ASSUME NEW k \in Jobs, Delete(k) \/ \E i \in Jobs : EvictData(i, k) PROVE stage'[j] = stage[j]
    <3>1. j # k /\ RemoveStage(k)
      BY <2>6 DEF Delete, EvictData
    <3> QED BY <2>0, <3>1 DEF RemoveStage
  <2>7. CASE Crash
    BY <2>2, <2>7 DEF Crash
  <2>8. CASE stage' = stage
    BY <2>8
  <2> QED
    BY <2>3, <2>4, <2>5, <2>6, <2>7, <2>8
    DEF Next, JobSteps, ReapSteps, createBackupJob, SendRequest, RecordFailed, RecordOK, applyRetention,
        RetentionDone, Push, EvictRow, UploadS3, GrowOld, deleteRemote, ReapSelect, ReapMark, fileVars
<1> QED BY <1>1, JobInvariant, PTL DEF Spec, UnpushedStageKept
=============================================================================
