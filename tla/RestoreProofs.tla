--------------------------- MODULE RestoreProofs ----------------------------
(* Restores, on the master and on the node: the row of a restore says what *)
(* became of it, one container is filled at a time, a restore that failed  *)
(* has no container left on its node, and the first change under a restore *)
(* does not stop it, for every set of restores, archives and ports and any *)
(* number of mishaps.                                                      *)
EXTENDS Restore, NodeRestore, FiniteSetTheorems, TLAPS

-----------------------------------------------------------------------------
(* The restore of a batch, on the master.                                  *)

Answers == {"progress"} \union Outcomes
Places == Active \union {"idle", "queued", "done"}
AgentStates == Outcomes \union {"idle", "asked", "reading", "broken"}
RowStates == Outcomes \union {"absent", "running"}
Good == {"ok", "partial"}

\* A worker between the creation of a row and its last update.
AtTask(w) == pc[w] \in {"ensure", "stat", "pull", "copy", "send", "drain", "final"}

(* The task at hand has a row that is not yet final; a result is heard at  *)
(* the end of the wait and not before, and a good one, heard or still in   *)
(* the channel, is the one the agent ended the task at hand with.          *)
Working(w) == AtTask(w) => cur[w] \in Backups /\ row[w][cur[w]] \in {"absent", "running"}
Hearing(w) ==
    /\ pc[w] = "final" => heard[w] \in Outcomes
    /\ pc[w] # "final" => heard[w] = "none"
    /\ heard[w] \in Good => agent[w][cur[w]] = heard[w]
Waiting(w) ==
    /\ chan[w] # <<>> => pc[w] = "drain"
    /\ \A i \in 1..Len(chan[w]) : chan[w][i] \in Good => agent[w][cur[w]] = chan[w][i]

\* Who looks for a staged file, or pulls it, holds the mutex of its run.
Holding(w) == pc[w] \in {"stat", "pull", "copy"} => mutex[RunOf[w]] = w

Recorded(w) ==
    \A b \in Backups :
        /\ row[w][b] \in Good => agent[w][b] = row[w][b]
        /\ w \in Singles => row[w][b] = "absent"

Sound(w) == Working(w) /\ Hearing(w) /\ Waiting(w) /\ Holding(w) /\ Recorded(w)
MasterInv == TypeOK /\ \A w \in Workers : Sound(w)

LEMMA MasterInit == Init => MasterInv
<1> SUFFICES ASSUME Init PROVE MasterInv
  OBVIOUS
<1>1. TypeOK
  BY RestoreConstants DEF Init, TypeOK, Active, Outcomes
<1>2. ASSUME NEW w \in Workers PROVE Sound(w)
  BY <1>2
  DEF Init, Sound, Working, AtTask, Hearing, Waiting, Holding, Recorded, Good
<1> QED BY <1>1, <1>2 DEF MasterInv

\* The steps of one worker disturb no other, as long as it only takes a mutex that
\* is free and gives back its own.
LEMMA OthersSound ==
  ASSUME MasterInv, NEW w \in Workers,
         \A v \in Workers \ {w} :
            /\ pc'[v] = pc[v] /\ cur'[v] = cur[v] /\ heard'[v] = heard[v]
            /\ chan'[v] = chan[v] /\ agent'[v] = agent[v] /\ row'[v] = row[v],
         \A r \in Runs : mutex'[r] = mutex[r] \/ mutex[r] = NoWorker \/ mutex[r] = w
  PROVE  \A v \in Workers \ {w} : Sound(v)'
<1> SUFFICES ASSUME NEW v \in Workers \ {w} PROVE Sound(v)'
  OBVIOUS
<1>1. Sound(v) /\ RunOf[v] \in Runs /\ v # NoWorker
  BY RestoreConstants DEF MasterInv
<1>2. Holding(v)'
  BY <1>1 DEF Sound, Holding
<1>3. Working(v)' /\ Hearing(v)' /\ Waiting(v)' /\ Recorded(v)'
  BY <1>1 DEF Sound, Working, AtTask, Hearing, Waiting, Recorded
<1> QED BY <1>2, <1>3 DEF Sound

\* The types of what ensure and the wait for a result leave behind.
LEMMA ReturnTypes ==
  ASSUME TypeOK, NEW w \in Workers, NEW ok \in BOOLEAN, cur[w] \in Backups, EnsureReturns(w, ok)
  PROVE  /\ pc' \in [Workers -> Active \union {"idle", "queued", "done"}]
         /\ mutex' \in [Runs -> Workers \union {NoWorker}] /\ staged' \in [Runs -> SUBSET Backups]
         /\ heard' \in [Workers -> Outcomes \union {"none"}]
<1>1. pc' \in [Workers -> Active \union {"idle", "queued", "done"}]
  BY DEF EnsureReturns, TypeOK, Active
<1>2. mutex' \in [Runs -> Workers \union {NoWorker}] /\ staged' \in [Runs -> SUBSET Backups]
  BY RestoreConstants DEF EnsureReturns, TypeOK
<1>3. heard' \in [Workers -> Outcomes \union {"none"}]
  BY DEF EnsureReturns, TypeOK, Outcomes
<1> QED BY <1>1, <1>2, <1>3

LEMMA WaitTypes ==
  ASSUME TypeOK, NEW w \in Workers, NEW o \in Outcomes, Unsubscribe(w, o)
  PROVE  /\ pc' \in [Workers -> Active \union {"idle", "queued", "done"}]
         /\ chan' \in [Workers -> Seq({"progress"} \union Outcomes)] /\ closed' \in [Workers -> BOOLEAN]
         /\ heard' \in [Workers -> Outcomes \union {"none"}]
<1>1. pc' \in [Workers -> Active \union {"idle", "queued", "done"}]
  BY DEF Unsubscribe, TypeOK, Active
<1>2. chan' \in [Workers -> Seq({"progress"} \union Outcomes)] /\ closed' \in [Workers -> BOOLEAN]
  BY DEF Unsubscribe, TypeOK
<1>3. heard' \in [Workers -> Outcomes \union {"none"}]
  BY DEF Unsubscribe, TypeOK
<1> QED BY <1>1, <1>2, <1>3

LEMMA MasterTypes ==
  MasterInv /\ Next => TypeOK'
<1> SUFFICES ASSUME MasterInv, Next PROVE TypeOK'
  OBVIOUS
<1>a. TypeOK /\ \A w \in Workers : Working(w) /\ Hearing(w)
  BY DEF MasterInv, Sound
<1> USE RestoreConstants DEF TypeOK
<1>1. ASSUME NEW r \in Runs, Request(r) PROVE TypeOK'
  BY <1>1, <1>a DEF Request, fileVars, lockVars, linkVars, bounds
<1>2. ASSUME NEW w \in Workers, Acquire(w) PROVE TypeOK'
  BY <1>2, <1>a DEF Acquire, fileVars, lockVars, linkVars, bounds, Active
<1>3. ASSUME NEW w \in Workers, NEW b \in Backups, CreateRestoreJob(w, b) PROVE TypeOK'
  BY <1>3, <1>a DEF CreateRestoreJob, fileVars, lockVars, linkVars, bounds, Active
<1>4. ASSUME NEW w \in Workers, WorkerDone(w) PROVE TypeOK'
  BY <1>4, <1>a DEF WorkerDone, fileVars, lockVars, linkVars, bounds
<1>5. ASSUME NEW w \in Workers, EnsureLock(w) PROVE TypeOK'
  <2>1. pc' \in [Workers -> Active \union {"idle", "queued", "done"}]
    <3>1. "send" \in Active /\ "stat" \in Active
      BY DEF Active
    <3>2. pc' = [pc EXCEPT ![w] = "send"] \/ pc' = [pc EXCEPT ![w] = "stat"]
      BY <1>5 DEF EnsureLock
    <3> QED BY <1>a, <3>1, <3>2
  <2>2. mutex' \in [Runs -> Workers \union {NoWorker}]
    BY <1>5, <1>a DEF EnsureLock
  <2> QED BY <1>5, <1>a, <2>1, <2>2 DEF EnsureLock, fileVars, linkVars, bounds
<1>6. ASSUME NEW w \in Workers, Stat(w) PROVE TypeOK'
  <2>1. cur[w] \in Backups
    BY <1>6, <1>a DEF Stat, Working, AtTask
  <2>2. CASE stage[cur[w]] # "none"
    BY <1>6, <1>a, <2>1, <2>2, ReturnTypes DEF Stat, fileVars, linkVars, bounds
  <2>3. CASE stage[cur[w]] = "none"
    BY <1>6, <1>a, <2>3 DEF Stat, fileVars, lockVars, linkVars, bounds, Active
  <2> QED BY <2>2, <2>3
<1>7. ASSUME NEW w \in Workers, PullOpens(w) PROVE TypeOK'
  BY <1>7, <1>a DEF PullOpens, Working, AtTask, lockVars, linkVars, bounds, Active
<1>8. ASSUME NEW w \in Workers, PullSucceeds(w) PROVE TypeOK'
  <2>1. cur[w] \in Backups
    BY <1>8, <1>a DEF PullSucceeds, Working, AtTask
  <2>2. stage' \in [Backups -> {"none", "part", "whole"}]
        /\ opener' \in [Backups -> Workers \union {NoWorker}]
    BY <1>8, <1>a, <2>1 DEF PullSucceeds
  <2> QED BY <1>8, <1>a, <2>1, <2>2, ReturnTypes DEF PullSucceeds, linkVars, bounds
<1>9. ASSUME NEW w \in Workers, PullFails(w) PROVE TypeOK'
  <2>1. cur[w] \in Backups
    BY <1>9, <1>a DEF PullFails, Working, AtTask
  <2>2. CASE EnsureReturns(w, FALSE)
    BY <1>9, <1>a, <2>1, <2>2, ReturnTypes DEF PullFails, fileVars, linkVars, bounds
  <2>3. CASE ~EnsureReturns(w, FALSE)
    <3>1. pc' = [pc EXCEPT ![w] = "pull"] /\ UNCHANGED <<lockVars, heard>>
      BY <1>9, <2>3 DEF PullFails
    <3>2. pc' \in [Workers -> Active \union {"idle", "queued", "done"}]
      BY <1>a, <3>1 DEF Active
    <3> QED BY <1>9, <1>a, <3>1, <3>2 DEF PullFails, fileVars, lockVars, linkVars, bounds
  <2> QED BY <2>2, <2>3
<1>10. ASSUME NEW w \in Workers, Send(w) PROVE TypeOK'
  <2>1. cur[w] \in Backups
    BY <1>10, <1>a DEF Send, Working, AtTask
  <2>2. pc' \in [Workers -> Active \union {"idle", "queued", "done"}]
    <3>1. "drain" \in Active /\ "final" \in Active
      BY DEF Active
    <3>2. pc' = [pc EXCEPT ![w] = "drain"] \/ pc' = [pc EXCEPT ![w] = "final"]
      BY <1>10 DEF Send
    <3> QED BY <1>a, <3>1, <3>2
  <2>3. agent' \in [Workers -> [Backups -> Outcomes \union {"idle", "asked", "reading", "broken"}]]
    <3> DEFINE S == Outcomes \union {"idle", "asked", "reading", "broken"}
    <3>1. agent \in [Workers -> [Backups -> S]] /\ "asked" \in S
      BY <1>a
    <3> HIDE DEF S
    <3>2. agent' = agent \/ agent' = [agent EXCEPT ![w][cur[w]] = "asked"]
      BY <1>10 DEF Send
    <3>3. CASE agent' = agent
      BY <3>1, <3>3 DEF S
    <3>4. CASE agent' = [agent EXCEPT ![w][cur[w]] = "asked"]
      <4>1. agent' \in [Workers -> [Backups -> S]]
        BY <2>1, <3>1, <3>4
      <4> QED BY <4>1 DEF S
    <3> QED BY <3>2, <3>3, <3>4
  <2>4. heard' \in [Workers -> Outcomes \union {"none"}]
    BY <1>10, <1>a DEF Send, Outcomes
  <2> QED BY <1>10, <1>a, <2>2, <2>3, <2>4 DEF Send, fileVars, lockVars, bounds
<1>11. ASSUME NEW w \in Workers, Drain(w) PROVE TypeOK'
  <2>1. CASE Head(chan[w]) = "progress" /\ w \notin Singles
    <3>1. chan[w] \in Seq({"progress"} \union Outcomes) /\ chan[w] # <<>>
      BY <1>11, <1>a DEF Drain
    <3>2. Tail(chan[w]) \in Seq({"progress"} \union Outcomes)
      BY <3>1
    <3>3. chan' = [chan EXCEPT ![w] = Tail(chan[w])] /\ UNCHANGED <<pc, closed, heard>>
      BY <1>11, <2>1 DEF Drain
    <3>4. chan' \in [Workers -> Seq({"progress"} \union Outcomes)]
      BY <1>a, <3>2, <3>3
    <3> QED BY <1>11, <1>a, <3>3, <3>4 DEF Drain, fileVars, lockVars, bounds
  <2>2. CASE ~(Head(chan[w]) = "progress" /\ w \notin Singles)
    <3> DEFINE o == IF Head(chan[w]) = "progress" THEN "failed" ELSE Head(chan[w])
    <3>1. o \in Outcomes
      BY <1>11, <1>a DEF Drain, Outcomes
    <3>2. Unsubscribe(w, o)
      BY <1>11, <2>2 DEF Drain
    <3> QED BY <1>11, <1>a, <3>1, <3>2, WaitTypes DEF Drain, fileVars, lockVars, bounds
  <2> QED BY <2>1, <2>2
<1>12. ASSUME NEW w \in Workers, DrainEnds(w) PROVE TypeOK'
  <2>1. "failed" \in Outcomes
    BY DEF Outcomes
  <2> QED BY <1>12, <1>a, <2>1, WaitTypes DEF DrainEnds, fileVars, lockVars, bounds
<1>13. ASSUME NEW w \in Workers, finalizeRestoreJob(w) PROVE TypeOK'
  <2>1. cur[w] \in Backups /\ heard[w] \in Outcomes
    BY <1>13, <1>a DEF finalizeRestoreJob, Working, AtTask, Hearing
  <2>2. pc' \in [Workers -> Active \union {"idle", "queued", "done"}]
        /\ cur' \in [Workers -> Backups \union {NoBackup}]
    BY <1>13, <1>a DEF finalizeRestoreJob, Active
  <2>3. row' \in [Workers -> [Backups -> Outcomes \union {"absent", "running"}]]
    <3> DEFINE S == Outcomes \union {"absent", "running"}
               h == heard[w]
    <3>1. row \in [Workers -> [Backups -> S]] /\ h \in S
      BY <1>a, <2>1
    <3>2. row' = row \/ row' = [row EXCEPT ![w][cur[w]] = h]
      BY <1>13 DEF finalizeRestoreJob
    <3> HIDE DEF S, h
    <3>3. row' \in [Workers -> [Backups -> S]]
      BY <2>1, <3>1, <3>2
    <3> QED BY <3>3 DEF S
  <2>4. told' \in [Workers -> {"none", "ok", "failed"}]
        /\ heard' \in [Workers -> Outcomes \union {"none"}]
    BY <1>13, <1>a DEF finalizeRestoreJob
  <2> QED BY <1>13, <1>a, <2>2, <2>3, <2>4 DEF finalizeRestoreJob, fileVars, lockVars, linkVars, bounds
<1>14. ASSUME NEW w \in Workers, NEW b \in Backups, Download(w, b) PROVE TypeOK'
  BY <1>14, <1>a DEF Download, Deliver, fileVars, lockVars, bounds, Outcomes
<1>15. ASSUME NEW w \in Workers, NEW b \in Backups, NEW o \in Outcomes, AgentEnds(w, b, o) PROVE TypeOK'
  BY <1>15, <1>a DEF AgentEnds, Deliver, fileVars, lockVars, bounds, Outcomes
<1>16. ASSUME NEW w \in Workers, Disconnect(w) PROVE TypeOK'
  BY <1>16, <1>a DEF Disconnect, fileVars, lockVars
<1>17. ASSUME NEW b \in Backups, Evict(b) PROVE TypeOK'
  BY <1>17, <1>a DEF Evict, lockVars, linkVars
<1> QED
  BY <1>1, <1>2, <1>3, <1>4, <1>5, <1>6, <1>7, <1>8, <1>9, <1>10, <1>11, <1>12, <1>13,
     <1>14, <1>15, <1>16, <1>17
  DEF Next, WorkerSteps

LEMMA MasterSteps ==
  ASSUME MasterInv, Next
  PROVE  \A w \in Workers : Sound(w)'
<1>a. TypeOK /\ \A w \in Workers : Sound(w) /\ RunOf[w] \in Runs /\ w # NoWorker
  BY RestoreConstants DEF MasterInv
<1>n. Good \subseteq Outcomes /\ "failed" \in Outcomes /\ "failed" \notin Good /\ "none" \notin Good
      /\ "progress" \notin Good /\ "none" \notin Outcomes
  BY DEF Good, Outcomes
\* A step of w that starts none of its neighbours.
<1> DEFINE Alone(w) ==
             /\ \A v \in Workers \ {w} :
                  /\ pc'[v] = pc[v] /\ cur'[v] = cur[v] /\ heard'[v] = heard[v]
                  /\ chan'[v] = chan[v] /\ agent'[v] = agent[v] /\ row'[v] = row[v]
             /\ \A r \in Runs : mutex'[r] = mutex[r] \/ mutex[r] = NoWorker \/ mutex[r] = w
<1>q. ASSUME NEW w \in Workers, Alone(w), Sound(w)' PROVE \A v \in Workers : Sound(v)'
  BY <1>q, OthersSound
<1> HIDE DEF Alone
<1>1. ASSUME NEW r \in Runs, Request(r) PROVE \A v \in Workers : Sound(v)'
  <2> SUFFICES ASSUME NEW v \in Workers PROVE Sound(v)'
    OBVIOUS
  <2>1. UNCHANGED <<cur, mutex, chan, agent, heard, row>>
        /\ (pc'[v] = pc[v] \/ (pc[v] = "idle" /\ pc'[v] = "queued"))
    BY <1>1, <1>a DEF Request, TypeOK, lockVars, linkVars
  <2> QED BY <2>1, <1>a DEF Sound, Working, AtTask, Hearing, Waiting, Holding, Recorded
<1>2. ASSUME NEW w \in Workers, Acquire(w) \/ WorkerDone(w) PROVE \A v \in Workers : Sound(v)'
  <2>1. UNCHANGED <<cur, mutex, chan, agent, heard, row>> /\ pc[w] \in {"queued", "start"}
        /\ pc'[w] \in {"start", "done"} /\ \A v \in Workers \ {w} : pc'[v] = pc[v]
    BY <1>2, <1>a DEF Acquire, WorkerDone, TypeOK, lockVars, linkVars
  <2>2. Sound(w)'
    BY <2>1, <1>a DEF Sound, Working, AtTask, Hearing, Waiting, Holding, Recorded
  <2> QED BY <2>1, <2>2, <1>q DEF Alone
<1>3. ASSUME NEW w \in Workers, NEW b \in Backups, CreateRestoreJob(w, b)
      PROVE  \A v \in Workers : Sound(v)'
  <2>1. UNCHANGED <<mutex, chan, agent, heard>> /\ pc[w] = "start" /\ pc'[w] = "ensure" /\ cur'[w] = b
        /\ \A v \in Workers \ {w} : pc'[v] = pc[v] /\ cur'[v] = cur[v]
    BY <1>3, <1>a DEF CreateRestoreJob, TypeOK, lockVars, linkVars
  <2>2. /\ \A v \in Workers \ {w} : row'[v] = row[v]
        /\ \A c \in Backups \ {b} : row'[w][c] = row[w][c]
        /\ row'[w][b] = IF w \in Singles THEN row[w][b] ELSE "running"
    BY <1>3, <1>a DEF CreateRestoreJob, TypeOK
  <2>3. Working(w)' /\ Recorded(w)'
    BY <1>a, <2>1, <2>2 DEF Sound, Working, Recorded, Good
  <2>4. Hearing(w)' /\ Waiting(w)' /\ Holding(w)'
    BY <1>a, <1>n, <2>1 DEF Sound, Hearing, Waiting, Holding
  <2> QED BY <2>1, <2>2, <2>3, <2>4, <1>q DEF Alone, Sound
<1>4. ASSUME NEW w \in Workers, EnsureLock(w) PROVE \A v \in Workers : Sound(v)'
  <2>1. UNCHANGED <<cur, chan, agent, heard, row>> /\ pc[w] = "ensure"
        /\ mutex[RunOf[w]] = NoWorker
    BY <1>4 DEF EnsureLock, Free, linkVars
  <2>2. CASE cur[w] \in staged[RunOf[w]]
    <3>1. mutex' = mutex /\ pc'[w] = "send" /\ \A v \in Workers \ {w} : pc'[v] = pc[v]
      BY <1>4, <1>a, <2>2 DEF EnsureLock, TypeOK
    <3>2. Sound(w)'
      BY <2>1, <3>1, <1>a DEF Sound, Working, AtTask, Hearing, Waiting, Holding, Recorded
    <3> QED BY <2>1, <3>1, <3>2, <1>q DEF Alone
  <2>3. CASE cur[w] \notin staged[RunOf[w]]
    <3>1. pc'[w] = "stat" /\ \A v \in Workers \ {w} : pc'[v] = pc[v]
      BY <1>4, <1>a, <2>3 DEF EnsureLock, TypeOK
    <3>2. mutex'[RunOf[w]] = w /\ \A r \in Runs \ {RunOf[w]} : mutex'[r] = mutex[r]
      BY <1>4, <1>a, <2>3 DEF EnsureLock, TypeOK
    <3>3. Working(w)' /\ Hearing(w)' /\ Waiting(w)' /\ Recorded(w)'
      BY <2>1, <3>1, <1>a DEF Sound, Working, AtTask, Hearing, Waiting, Recorded
    <3>4. Holding(w)'
      BY <3>2 DEF Holding
    <3>5. \A r \in Runs : mutex'[r] = mutex[r] \/ mutex[r] = NoWorker \/ mutex[r] = w
      BY <2>1, <3>2
    <3> QED BY <2>1, <3>1, <3>3, <3>4, <3>5, <1>q DEF Alone, Sound
  <2> QED BY <2>2, <2>3
\* The ways out of ensure.
<1>e. ASSUME NEW w \in Workers, NEW ok \in BOOLEAN, pc[w] \in {"stat", "pull", "copy"},
             EnsureReturns(w, ok), UNCHANGED <<cur, chan, agent, row>>
      PROVE  \A v \in Workers : Sound(v)'
  <2>1. /\ mutex[RunOf[w]] = w /\ pc'[w] = (IF ok THEN "send" ELSE "final")
        /\ heard'[w] = (IF ok THEN heard[w] ELSE "failed")
        /\ \A v \in Workers \ {w} : pc'[v] = pc[v] /\ heard'[v] = heard[v]
        /\ \A r \in Runs \ {RunOf[w]} : mutex'[r] = mutex[r]
    BY <1>e, <1>a DEF EnsureReturns, TypeOK, Sound, Holding
  <2>2. Working(w)' /\ Waiting(w)' /\ Holding(w)' /\ Recorded(w)'
    BY <1>e, <1>a, <2>1 DEF Sound, Working, AtTask, Waiting, Holding, Recorded
  <2>3. Hearing(w)'
    BY <1>e, <1>a, <1>n, <2>1 DEF Sound, Hearing
  <2> QED BY <1>e, <2>1, <2>2, <2>3, <1>q DEF Alone, Sound
\* The steps inside ensure.
<1>f. ASSUME NEW w \in Workers, pc[w] \in {"stat", "pull", "copy"},
             \E p \in {"pull", "copy"} : pc' = [pc EXCEPT ![w] = p],
             UNCHANGED <<cur, mutex, chan, agent, heard, row>>
      PROVE  \A v \in Workers : Sound(v)'
  <2>1. pc'[w] \in {"pull", "copy"} /\ \A v \in Workers \ {w} : pc'[v] = pc[v]
    BY <1>f, <1>a DEF TypeOK
  <2>2. Sound(w)'
    BY <1>f, <1>a, <2>1 DEF Sound, Working, AtTask, Hearing, Waiting, Holding, Recorded
  <2> QED BY <1>f, <2>1, <2>2, <1>q DEF Alone
<1>5. ASSUME NEW w \in Workers, Stat(w) PROVE \A v \in Workers : Sound(v)'
  BY <1>5, <1>e, <1>f DEF Stat, linkVars, lockVars
<1>6. ASSUME NEW w \in Workers, PullOpens(w) PROVE \A v \in Workers : Sound(v)'
  BY <1>6, <1>f DEF PullOpens, linkVars, lockVars
<1>7. ASSUME NEW w \in Workers, PullSucceeds(w) PROVE \A v \in Workers : Sound(v)'
  BY <1>7, <1>e DEF PullSucceeds, linkVars
<1>8. ASSUME NEW w \in Workers, PullFails(w) PROVE \A v \in Workers : Sound(v)'
  BY <1>8, <1>e, <1>f DEF PullFails, linkVars, lockVars
<1>9. ASSUME NEW w \in Workers, Send(w) PROVE \A v \in Workers : Sound(v)'
  <2>0. cur[w] \in Backups /\ row[w][cur[w]] \in {"absent", "running"} /\ heard[w] = "none"
        /\ chan[w] = <<>>
    BY <1>9, <1>a DEF Send, Sound, Working, AtTask, Hearing, Waiting
  <2>1. UNCHANGED <<cur, mutex, chan, row>> /\ pc[w] = "send"
    BY <1>9 DEF Send, lockVars
  <2>2. CASE pc' = [pc EXCEPT ![w] = "drain"] /\ heard' = heard
             /\ agent' = [agent EXCEPT ![w][cur[w]] = "asked"]
    <3>1. pc'[w] = "drain" /\ \A v \in Workers \ {w} : pc'[v] = pc[v]
      BY <2>2, <1>a DEF TypeOK
    <3>2. /\ \A v \in Workers \ {w} : agent'[v] = agent[v]
          /\ \A b \in Backups \ {cur[w]} : agent'[w][b] = agent[w][b]
      BY <2>0, <2>2, <1>a DEF TypeOK
    <3>3. Recorded(w)'
      BY <2>0, <2>1, <3>2, <1>a DEF Sound, Recorded, Good
    <3>4. Working(w)' /\ Hearing(w)' /\ Holding(w)'
      BY <2>0, <2>1, <2>2, <3>1, <1>n DEF Working, AtTask, Hearing, Holding
    <3>5. Waiting(w)'
      BY <2>0, <2>1, <3>1 DEF Waiting
    <3> QED BY <2>1, <2>2, <3>1, <3>2, <3>3, <3>4, <3>5, <1>q DEF Alone, Sound
  <2>3. CASE pc' = [pc EXCEPT ![w] = "final"] /\ agent' = agent
             /\ heard' = [heard EXCEPT ![w] = "failed"]
    <3>1. pc'[w] = "final" /\ heard'[w] = "failed"
          /\ \A v \in Workers \ {w} : pc'[v] = pc[v] /\ heard'[v] = heard[v]
      BY <2>3, <1>a DEF TypeOK
    <3>2. Working(w)' /\ Recorded(w)' /\ Holding(w)'
      BY <2>0, <2>1, <2>3, <3>1, <1>a DEF Sound, Working, AtTask, Recorded, Holding
    <3>3. Hearing(w)'
      BY <3>1, <1>n DEF Hearing
    <3>4. Waiting(w)'
      BY <2>0, <2>1, <3>1 DEF Waiting
    <3> QED BY <2>1, <2>3, <3>1, <3>2, <3>3, <3>4, <1>q DEF Alone, Sound
  <2> QED BY <1>9, <2>2, <2>3 DEF Send
\* The end of a wait with a result the agent gave, or none.
<1>u. ASSUME NEW w \in Workers, NEW o \in Outcomes, pc[w] = "drain", Unsubscribe(w, o),
             o \in Good => agent[w][cur[w]] = o, UNCHANGED <<cur, mutex, agent, row>>
      PROVE  \A v \in Workers : Sound(v)'
  <2>1. /\ pc'[w] = "final" /\ heard'[w] = o /\ chan'[w] = <<>>
        /\ \A v \in Workers \ {w} : pc'[v] = pc[v] /\ heard'[v] = heard[v] /\ chan'[v] = chan[v]
    BY <1>u, <1>a DEF Unsubscribe, TypeOK
  <2>2. Working(w)' /\ Hearing(w)' /\ Holding(w)' /\ Recorded(w)'
    BY <1>u, <1>a, <2>1 DEF Sound, Working, AtTask, Hearing, Holding, Recorded
  <2>3. Waiting(w)'
    BY <2>1 DEF Waiting
  <2> QED BY <1>u, <2>1, <2>2, <2>3, <1>q DEF Alone, Sound
<1>10. ASSUME NEW w \in Workers, Drain(w) PROVE \A v \in Workers : Sound(v)'
  <2> DEFINE m == Head(chan[w])
  <2>0. chan[w] \in Seq(Answers) /\ chan[w] # <<>> /\ m \in Answers /\ 1 \in 1..Len(chan[w])
        /\ m = chan[w][1] /\ pc[w] = "drain"
    BY <1>10, <1>a DEF Drain, TypeOK, Answers
  <2>1. UNCHANGED <<cur, mutex, agent, row>>
    BY <1>10 DEF Drain, lockVars
  <2>2. m \in Good => agent[w][cur[w]] = m
    BY <1>a, <2>0 DEF Sound, Waiting
  <2>3. CASE m = "progress" /\ w \notin Singles
    <3>1. chan' = [chan EXCEPT ![w] = Tail(chan[w])] /\ UNCHANGED <<pc, heard>>
      BY <1>10, <2>3 DEF Drain
    <3>2. chan'[w] = Tail(chan[w]) /\ \A v \in Workers \ {w} : chan'[v] = chan[v]
      BY <3>1, <1>a DEF TypeOK
    <3>3. \A i \in 1..Len(Tail(chan[w])) : i + 1 \in 1..Len(chan[w]) /\ Tail(chan[w])[i] = chan[w][i + 1]
      BY <2>0
    <3>4. Waiting(w)'
      BY <1>a, <2>0, <2>1, <3>1, <3>2, <3>3 DEF Sound, Waiting
    <3>5. Working(w)' /\ Hearing(w)' /\ Holding(w)' /\ Recorded(w)'
      BY <1>a, <2>1, <3>1 DEF Sound, Working, AtTask, Hearing, Holding, Recorded
    <3> QED BY <2>1, <3>1, <3>2, <3>4, <3>5, <1>q DEF Alone, Sound
  <2>4. CASE ~(m = "progress" /\ w \notin Singles)
    <3>1. Unsubscribe(w, IF m = "progress" THEN "failed" ELSE m)
      BY <1>10, <2>4 DEF Drain
    <3>2. CASE m = "progress"
      BY <1>n, <2>0, <2>1, <3>1, <3>2, <1>u
    <3>3. CASE m # "progress"
      BY <2>0, <2>1, <2>2, <3>1, <3>3, <1>u DEF Answers
    <3> QED BY <3>2, <3>3
  <2> QED BY <2>3, <2>4
<1>11. ASSUME NEW w \in Workers, DrainEnds(w) PROVE \A v \in Workers : Sound(v)'
  BY <1>11, <1>n, <1>u DEF DrainEnds, lockVars
<1>12. ASSUME NEW w \in Workers, finalizeRestoreJob(w) PROVE \A v \in Workers : Sound(v)'
  <2>0. cur[w] \in Backups /\ heard[w] \in Outcomes /\ pc[w] = "final" /\ chan[w] = <<>>
        /\ (heard[w] \in Good => agent[w][cur[w]] = heard[w])
    BY <1>12, <1>a DEF finalizeRestoreJob, Sound, Working, AtTask, Hearing, Waiting
  <2>1. /\ UNCHANGED <<mutex, chan, agent>> /\ pc'[w] \in {"start", "done"} /\ heard'[w] = "none"
        /\ \A v \in Workers \ {w} : pc'[v] = pc[v] /\ cur'[v] = cur[v] /\ heard'[v] = heard[v]
    BY <1>12, <1>a DEF finalizeRestoreJob, TypeOK, lockVars, linkVars
  <2>2. /\ \A v \in Workers \ {w} : row'[v] = row[v]
        /\ \A b \in Backups \ {cur[w]} : row'[w][b] = row[w][b]
        /\ row'[w][cur[w]] = IF w \in Singles THEN row[w][cur[w]] ELSE heard[w]
    BY <1>12, <1>a, <2>0 DEF finalizeRestoreJob, TypeOK
  <2>3. Recorded(w)'
    BY <1>a, <2>0, <2>1, <2>2 DEF Sound, Recorded
  <2>4. Working(w)' /\ Hearing(w)' /\ Waiting(w)' /\ Holding(w)'
    BY <1>n, <2>0, <2>1 DEF Working, AtTask, Hearing, Waiting, Holding
  <2> QED BY <2>1, <2>2, <2>3, <2>4, <1>q DEF Alone, Sound
\* The agent moves on with b, and says m of it.
<1>g. ASSUME NEW w \in Workers, NEW b \in Backups, NEW s \in AgentStates, NEW m \in Answers,
             agent[w][b] \notin Good, agent' = [agent EXCEPT ![w][b] = s], Deliver(w, b, m),
             m \in Good => m = s, UNCHANGED <<pc, cur, mutex, heard, row>>
      PROVE  \A v \in Workers : Sound(v)'
  <2>1. /\ agent'[w][b] = s /\ \A c \in Backups \ {b} : agent'[w][c] = agent[w][c]
        /\ \A v \in Workers \ {w} : agent'[v] = agent[v] /\ chan'[v] = chan[v]
        /\ \/ chan'[w] = chan[w]
           \/ chan'[w] = Append(chan[w], m) /\ pc[w] = "drain" /\ cur[w] = b
    BY <1>g, <1>a DEF Deliver, TypeOK
  <2>2. Recorded(w)' /\ Working(w)' /\ Holding(w)'
    BY <1>g, <1>a, <2>1 DEF Sound, Recorded, Working, AtTask, Holding
  <2>3. Hearing(w)'
    <3>1. heard[w] \in Good => pc[w] = "final" /\ cur[w] \in Backups \ {b}
      BY <1>g, <1>a, <1>n DEF Sound, Hearing, Working, AtTask
    <3> QED BY <1>g, <1>a, <2>1, <3>1 DEF Sound, Hearing
  <2>4. Waiting(w)'
    <3>1. chan[w] \in Seq(Answers) /\ Waiting(w) /\ Working(w)
      BY <1>a DEF TypeOK, Answers, Sound
    <3>2. \A i \in 1..Len(chan[w]) : chan[w][i] \in Good => agent'[w][cur[w]] = chan[w][i]
      <4> SUFFICES ASSUME NEW i \in 1..Len(chan[w]), chan[w][i] \in Good
                   PROVE  agent'[w][cur[w]] = chan[w][i]
        OBVIOUS
      <4>1. chan[w] # <<>>
        BY <3>1
      <4>2. agent[w][cur[w]] = chan[w][i] /\ cur[w] \in Backups
        BY <3>1, <4>1 DEF Waiting, Working, AtTask
      <4> QED BY <1>g, <2>1, <4>2
    <3>3. CASE chan'[w] = chan[w]
      BY <1>g, <3>1, <3>2, <3>3 DEF Waiting
    <3>4. CASE chan'[w] = Append(chan[w], m) /\ pc[w] = "drain" /\ cur[w] = b
      <4>1. \A i \in 1..Len(chan'[w]) :
               (i \in 1..Len(chan[w]) /\ chan'[w][i] = chan[w][i]) \/ chan'[w][i] = m
        BY <3>1, <3>4
      <4> QED BY <1>g, <2>1, <3>2, <3>4, <4>1 DEF Waiting
    <3> QED BY <2>1, <3>3, <3>4
  <2> QED BY <1>g, <2>1, <2>2, <2>3, <2>4, <1>q DEF Alone, Sound
<1>13. ASSUME NEW w \in Workers, NEW b \in Backups, Download(w, b)
       PROVE  \A v \in Workers : Sound(v)'
  <2>1. /\ UNCHANGED <<pc, cur, mutex, heard, row>> /\ agent[w][b] = "asked" /\ "asked" \notin Good
        /\ Deliver(w, b, IF stage[b] = "none" THEN "failed" ELSE "progress")
        /\ \E s \in {"failed", "broken", "reading"} : agent' = [agent EXCEPT ![w][b] = s]
    <3>1. stage[b] \in {"none", "part", "whole"}
      BY <1>a DEF TypeOK
    <3> QED BY <1>13, <3>1 DEF Download, lockVars, Good
  <2> DEFINE m == IF stage[b] = "none" THEN "failed" ELSE "progress"
  <2>2. m \in Answers /\ m \notin Good
    BY <1>n DEF Answers
  <2>3. {"failed", "broken", "reading"} \subseteq AgentStates
    BY DEF AgentStates, Outcomes
  <2> HIDE DEF m
  <2>4. Deliver(w, b, m)
    BY <2>1 DEF m
  <2> QED BY <2>1, <2>2, <2>3, <2>4, <1>g
<1>14. ASSUME NEW w \in Workers, NEW b \in Backups, NEW o \in Outcomes, AgentEnds(w, b, o)
       PROVE  \A v \in Workers : Sound(v)'
  <2>1. /\ UNCHANGED <<pc, cur, mutex, heard, row>> /\ agent[w][b] \notin Good
        /\ agent' = [agent EXCEPT ![w][b] = o] /\ Deliver(w, b, o)
    BY <1>14 DEF AgentEnds, lockVars, Good
  <2>2. o \in AgentStates /\ o \in Answers
    BY DEF AgentStates, Answers
  <2> QED BY <2>1, <2>2, <1>g
<1>15. ASSUME UNCHANGED <<pc, cur, mutex, chan, agent, heard, row>> PROVE \A v \in Workers : Sound(v)'
  BY <1>15, <1>a DEF Sound, Working, AtTask, Hearing, Waiting, Holding, Recorded
<1>16. ASSUME NEW w \in Workers, Disconnect(w) PROVE \A v \in Workers : Sound(v)'
  BY <1>15, <1>16 DEF Disconnect, lockVars
<1>17. ASSUME NEW b \in Backups, Evict(b) PROVE \A v \in Workers : Sound(v)'
  BY <1>15, <1>17 DEF Evict, lockVars, linkVars
<1> QED
  BY <1>1, <1>2, <1>3, <1>4, <1>5, <1>6, <1>7, <1>8, <1>9, <1>10, <1>11, <1>12, <1>13,
     <1>14, <1>16, <1>17
  DEF Next, WorkerSteps

LEMMA MasterStep == MasterInv /\ [Next]_vars => MasterInv'
<1>1. CASE UNCHANGED vars
  BY <1>1
  DEF vars, MasterInv, TypeOK, Sound, Working, AtTask, Hearing, Waiting, Holding, Recorded
<1> QED BY <1>1, MasterTypes, MasterSteps DEF MasterInv

LEMMA MasterInvariant == Spec => []MasterInv
  BY MasterInit, MasterStep, PTL DEF Spec

(* runRestore, runNodeRestore and drainRestore: the row of a restore is ok *)
(* or partial only when the agent reported exactly that for this backup,   *)
(* whatever was lost, late or restarted.                                   *)
THEOREM RowsMatchAgents == Spec => []RestoreInv
<1>1. MasterInv => RestoreInv
  BY DEF MasterInv, Sound, Recorded, RestoreInv, RowMatchesAgent, Good
<1> QED BY <1>1, MasterInvariant, PTL

(* stageMu of fanOutRestore: two workers of a fan-out never pull or copy   *)
(* the same archive at the same time.                                      *)
THEOREM PullsAreExclusive == Spec => []OnePullPerRun
<1>1. MasterInv => OnePullPerRun
  BY RestoreConstants DEF MasterInv, Sound, Holding, OnePullPerRun
<1> QED BY <1>1, MasterInvariant, PTL

-----------------------------------------------------------------------------
(* The restore of a container, on the node.                                *)

Boxes == [by : Restores \union {NoOne, Leftover}, running : BOOLEAN,
          port : HostPorts \union {0}, bridge : BOOLEAN]
Tasks == [pc : {"download", "probe", "networks", "create", "start", "again", "restart", "answered"},
          port : HostPorts \union {0}, bridge : BOOLEAN, pulled : BOOLEAN, skipped : BOOLEAN]

HostTypes ==
    /\ snap \in Snapshots
    /\ box \in [SnapNames -> Boxes]
    /\ task \in [Restores -> Tasks]
    /\ status \in [Restores -> {"running", "ok", "partial", "failed"}]

\* The master waits until the agent has answered.
Waits == \A r \in Restores : task[r].pc # "answered" => status[r] = "running"

(* A container of a restore carries the name of its archive, and it is     *)
(* either made and about to be started, or running and answered as ok.     *)
OwnContainer(r, n) ==
    /\ n = snap[r].name
    /\ \/ task[r].pc \in {"start", "restart"} /\ ~box[n].running
       \/ task[r].pc = "answered" /\ status[r] = "ok" /\ box[n].running
Owned == \A r \in Restores : \A n \in SnapNames : box[n].by = r => OwnContainer(r, n)

NodeInv == HostTypes /\ Waits /\ Owned

LEMMA EmptyHost == NoBox \in Boxes /\ NoBox.by = NoOne /\ ~NoBox.running
  BY DEF NoBox, Boxes

LEMMA FreshTask == NewTask \in Tasks /\ NewTask.pc = "download"
  BY DEF NewTask, Tasks

LEMMA NamesAreNames ==
  ASSUME HostTypes, NEW r \in Restores
  PROVE  snap[r].name \in SnapNames /\ snap[r].port \in HostPorts
  BY NodeRestoreConstants DEF HostTypes, SnapNames

LEMMA NodeInit == NodeRestoreInit => NodeInv
<1> SUFFICES ASSUME NodeRestoreInit PROVE NodeInv
  OBVIOUS
<1>1. HostTypes
  BY EmptyHost, FreshTask DEF NodeRestoreInit, HostTypes
<1>2. Waits
  BY DEF NodeRestoreInit, Waits
<1>3. Owned
  BY EmptyHost, NodeRestoreConstants DEF NodeRestoreInit, Owned
<1> QED BY <1>1, <1>2, <1>3 DEF NodeInv

(* What a step of r may do to the containers: leave them, remove them, or  *)
(* make or start one of its own.                                           *)
Touches(r) ==
    /\ box' \in [SnapNames -> Boxes]
    /\ \A n \in SnapNames : box'[n] = box[n] \/ box'[n] = NoBox \/ box'[n].by = r

\* The restore is at t and recorded as s, and its container is what OwnContainer asks.
Statuses == {"running", "ok", "partial", "failed"}
Reaches(r, t, s) ==
    /\ task' = [task EXCEPT ![r] = t] /\ status' = [status EXCEPT ![r] = s]
    /\ t.pc # "answered" => s = "running"
    /\ \A n \in SnapNames : box'[n].by = r =>
        /\ n = snap[r].name
        /\ \/ t.pc \in {"start", "restart"} /\ ~box'[n].running
           \/ t.pc = "answered" /\ s = "ok" /\ box'[n].running

LEMMA StepOfOne ==
  ASSUME NodeInv, NEW r \in Restores, snap' = snap, Touches(r),
         NEW t \in Tasks, NEW s \in Statuses, Reaches(r, t, s)
  PROVE  NodeInv'
<1> USE DEF Reaches
<1>1. HostTypes'
  BY DEF NodeInv, HostTypes, Touches, Statuses
<1>2. /\ task'[r] = t /\ status'[r] = s
      /\ \A q \in Restores \ {r} : task'[q] = task[q] /\ status'[q] = status[q]
  BY DEF NodeInv, HostTypes
<1>3. Waits'
  BY <1>2 DEF NodeInv, Waits
<1>4. Owned'
  <2> SUFFICES ASSUME NEW q \in Restores, NEW n \in SnapNames, box'[n].by = q
               PROVE  OwnContainer(q, n)'
    BY DEF Owned
  <2>1. CASE q = r
    BY <1>2, <2>1 DEF OwnContainer
  <2>2. CASE q # r
    <3>1. box'[n] = box[n]
      BY <2>2, EmptyHost, NodeRestoreConstants DEF Touches
    <3>2. OwnContainer(q, n)
      BY <3>1 DEF NodeInv, Owned
    <3> QED BY <1>2, <2>2, <3>1, <3>2 DEF OwnContainer
  <2> QED BY <2>1, <2>2
<1> QED BY <1>1, <1>3, <1>4 DEF NodeInv

(* The step of a restore that goes on.                                     *)
LEMMA GoesStep ==
  ASSUME NodeInv, NEW r \in Restores, snap' = snap, Touches(r),
         task[r].pc # "answered", NEW t \in Tasks, t.pc # "answered", Goes(r, t),
         \A n \in SnapNames : box'[n].by = r =>
            n = snap[r].name /\ t.pc \in {"start", "restart"} /\ ~box'[n].running
  PROVE  NodeInv'
<1>1. status[r] = "running"
  BY DEF NodeInv, Waits
<1>2. status' = [status EXCEPT ![r] = "running"]
  BY <1>1 DEF Goes, NodeInv, HostTypes
<1>3. task' = [task EXCEPT ![r] = t]
  BY DEF Goes
<1>4. Reaches(r, t, "running") /\ "running" \in Statuses
  BY <1>2, <1>3 DEF Reaches, Statuses
<1> QED BY <1>4, StepOfOne

(* The step of a restore that is answered.                                 *)
LEMMA AnsweredStep ==
  ASSUME NodeInv, NEW r \in Restores, snap' = snap, Touches(r),
         NEW ok \in BOOLEAN, NEW recreated \in BOOLEAN, Answered(r, ok, recreated),
         \A n \in SnapNames : box'[n].by = r =>
            ok /\ recreated /\ n = snap[r].name /\ box'[n].running
  PROVE  NodeInv'
<1> DEFINE t == [task[r] EXCEPT !.pc = "answered"]
           s == IF ~ok THEN "failed" ELSE IF recreated THEN "ok" ELSE "partial"
<1>1. task[r] \in Tasks
  BY DEF NodeInv, HostTypes
<1>2. t \in Tasks /\ t.pc = "answered"
  BY <1>1 DEF Tasks
<1>3. task' = [task EXCEPT ![r] = t] /\ status' = [status EXCEPT ![r] = s]
  BY DEF Answered
<1>4. s \in Statuses /\ (ok /\ recreated => s = "ok")
  BY DEF Statuses
<1> HIDE DEF t, s
<1>5. Reaches(r, t, s)
  BY <1>2, <1>3, <1>4 DEF Reaches
<1> QED BY <1>2, <1>4, <1>5, StepOfOne

(* A restore owns nothing before it creates and between its two attempts.  *)
LEMMA OwnsNothing ==
  ASSUME NodeInv, NEW r \in Restores, NEW n \in SnapNames,
         task[r].pc \notin {"start", "restart", "answered"}
  PROVE  box[n].by # r
  BY DEF NodeInv, Owned, OwnContainer

LEMMA BoxUnchanged ==
  ASSUME NodeInv, NEW r \in Restores, box' = box
  PROVE  Touches(r)
  BY DEF NodeInv, HostTypes, Touches

(* Once removed, no container of r is left, under any name.                *)
LEMMA RemovedLeavesNone ==
  ASSUME NodeInv, NEW r \in Restores, box' = Removed(r)
  PROVE  Touches(r) /\ \A n \in SnapNames : box'[n].by # r
<1> DEFINE name == snap[r].name
<1>1. name \in SnapNames /\ box \in [SnapNames -> Boxes]
  BY NamesAreNames DEF NodeInv, HostTypes
<1>2. box' = [box EXCEPT ![name] = IF box[name].by = r THEN NoBox ELSE box[name]]
  BY DEF Removed
<1>3. Touches(r)
  BY <1>1, <1>2, EmptyHost DEF Touches
<1>4. NoBox.by # r
  BY EmptyHost, NodeRestoreConstants
<1>5. ASSUME NEW n \in SnapNames PROVE box'[n].by # r
  <2>1. CASE n = name
    BY <1>1, <1>2, <1>4, <2>1
  <2>2. CASE n # name
    BY <1>1, <1>2, <2>2 DEF NodeInv, Owned, OwnContainer
  <2> QED BY <2>1, <2>2
<1> QED BY <1>3, <1>5

(* A container that r makes is the only one of r.                          *)
LEMMA MadeIsOwn ==
  ASSUME NodeInv, NEW r \in Restores, NEW bridge \in BOOLEAN, Make(r, bridge),
         task[r].pc \notin {"start", "restart", "answered"}
  PROVE  /\ Touches(r)
         /\ \A n \in SnapNames : box'[n].by = r => n = snap[r].name /\ ~box'[n].running
<1> DEFINE name == snap[r].name
           new == [by |-> r, running |-> FALSE, port |-> task[r].port, bridge |-> bridge]
<1>1. name \in SnapNames /\ box \in [SnapNames -> Boxes] /\ task[r] \in Tasks
  BY NamesAreNames DEF NodeInv, HostTypes
<1>2. new \in Boxes /\ new.by = r /\ ~new.running
  BY <1>1 DEF Tasks, Boxes
<1>3. box' = [box EXCEPT ![name] = new]
  BY DEF Make
<1> HIDE DEF name, new
<1>4. Touches(r)
  BY <1>1, <1>2, <1>3 DEF Touches
<1>5. ASSUME NEW n \in SnapNames, box'[n].by = r PROVE n = name /\ ~box'[n].running
  <2>1. CASE n = name
    BY <1>1, <1>2, <1>3, <2>1
  <2>2. CASE n # name
    BY <1>1, <1>3, <1>5, <2>2, OwnsNothing
  <2> QED BY <2>1, <2>2
<1> QED BY <1>4, <1>5 DEF name

(* Until the container is made: nothing is owned, and nothing is made.     *)
LEMMA BeforeCreate ==
  ASSUME NodeInv, NEW r \in Restores, Extract(r) \/ Probe(r) \/ EnsureNetworks(r) \/ PullImage(r)
  PROVE  NodeInv'
<1>1. box' = box /\ snap' = snap /\ task[r].pc \in {"download", "probe", "networks", "create"}
  BY DEF Extract, Probe, EnsureNetworks, PullImage, hostVars
<1>2. Touches(r) /\ \A n \in SnapNames : box'[n].by # r
  BY <1>1, BoxUnchanged, OwnsNothing
<1>3. ASSUME Failed(r) PROVE NodeInv'
  BY <1>1, <1>2, <1>3, AnsweredStep DEF Failed
<1>4. ASSUME NEW t \in Tasks, Goes(r, t), t.pc # "answered" PROVE NodeInv'
  BY <1>1, <1>2, <1>4, GoesStep
<1>5. task[r] \in Tasks
  BY DEF NodeInv, HostTypes
<1>6. CASE Extract(r)
  <2>1. /\ [task[r] EXCEPT !.pc = "probe"] \in Tasks
        /\ [task[r] EXCEPT !.pc = "probe"].pc # "answered"
        /\ [task[r] EXCEPT !.pc = "probe", !.skipped = TRUE] \in Tasks
        /\ [task[r] EXCEPT !.pc = "probe", !.skipped = TRUE].pc # "answered"
    BY <1>5 DEF Tasks
  <2> QED BY <1>3, <1>4, <1>6, <2>1 DEF Extract
<1>7. CASE Probe(r)
  <2>1. CASE box[snap[r].name] # NoBox
    BY <1>1, <1>2, <1>7, <2>1, AnsweredStep DEF Probe
  <2>2. CASE box[snap[r].name] = NoBox
    <3>1. PICK p \in HostPorts : Goes(r, [task[r] EXCEPT !.pc = "networks", !.port = p])
      BY <1>7, <2>2, NamesAreNames DEF Probe, FreePorts, NodeInv
    <3>2. /\ [task[r] EXCEPT !.pc = "networks", !.port = p] \in Tasks
          /\ [task[r] EXCEPT !.pc = "networks", !.port = p].pc # "answered"
      BY <1>5 DEF Tasks
    <3> QED BY <1>4, <3>1, <3>2
  <2> QED BY <2>1, <2>2
<1>8. CASE EnsureNetworks(r)
  <2>1. /\ [task[r] EXCEPT !.pc = "create"] \in Tasks
        /\ [task[r] EXCEPT !.pc = "create"].pc # "answered"
    BY <1>5 DEF Tasks
  <2> QED BY <1>4, <1>8, <2>1 DEF EnsureNetworks
<1>9. CASE PullImage(r)
  <2>1. /\ [task[r] EXCEPT !.pulled = TRUE] \in Tasks
        /\ [task[r] EXCEPT !.pulled = TRUE].pc # "answered"
    BY <1>1, <1>5 DEF Tasks
  <2> QED BY <1>3, <1>4, <1>9, <2>1 DEF PullImage
<1> QED BY <1>6, <1>7, <1>8, <1>9

(* The two attempts to create: with the fallback to bridge, and after a    *)
(* start that failed.                                                      *)
LEMMA CreateStep ==
  ASSUME NodeInv, NEW r \in Restores, Create(r) \/ CreateWithoutNetwork(r) \/ CreateAgain(r)
  PROVE  NodeInv'
<1>1. snap' = snap /\ task[r].pc \in {"create", "again"}
  BY DEF Create, CreateWithoutNetwork, CreateAgain, hostVars
<1>2. task[r] \in Tasks
  BY DEF NodeInv, HostTypes
<1>3. ASSUME box' = box, Failed(r) PROVE NodeInv'
  <2>1. Touches(r) /\ \A n \in SnapNames : box'[n].by # r
    BY <1>1, <1>3, BoxUnchanged, OwnsNothing
  <2> QED BY <1>1, <1>3, <2>1, AnsweredStep DEF Failed
<1>4. ASSUME NEW bridge \in BOOLEAN, Make(r, bridge), NEW t \in Tasks, Goes(r, t),
             t.pc \in {"start", "restart"}
      PROVE  NodeInv'
  <2>1. /\ Touches(r)
        /\ \A n \in SnapNames : box'[n].by = r => n = snap[r].name /\ ~box'[n].running
    BY <1>1, <1>4, MadeIsOwn
  <2> QED BY <1>1, <1>4, <2>1, GoesStep
<1>5. /\ [task[r] EXCEPT !.pc = "start"] \in Tasks
      /\ [task[r] EXCEPT !.pc = "start"].pc = "start"
      /\ [task[r] EXCEPT !.pc = "start", !.bridge = TRUE] \in Tasks
      /\ [task[r] EXCEPT !.pc = "start", !.bridge = TRUE].pc = "start"
      /\ [task[r] EXCEPT !.pc = "restart"] \in Tasks
      /\ [task[r] EXCEPT !.pc = "restart"].pc = "restart"
      /\ task[r].bridge \in BOOLEAN
  BY <1>2 DEF Tasks
<1>6. CASE Create(r)
  BY <1>3, <1>4, <1>5, <1>6 DEF Create
<1>7. CASE CreateWithoutNetwork(r)
  BY <1>3, <1>4, <1>5, <1>7 DEF CreateWithoutNetwork
<1>8. CASE CreateAgain(r)
  BY <1>3, <1>4, <1>5, <1>8 DEF CreateAgain
<1> QED BY <1>6, <1>7, <1>8

(* The container is started, or removed.                                   *)
LEMMA StartStep ==
  ASSUME NodeInv, NEW r \in Restores,
         Start(r) \/ StartNetworkMissing(r) \/ StartPortTaken(r) \/ StartFails(r)
  PROVE  NodeInv'
<1>1. snap' = snap /\ task[r].pc \in {"start", "restart"}
  BY DEF Start, StartNetworkMissing, StartPortTaken, StartFails, hostVars
<1>2. task[r] \in Tasks
  BY DEF NodeInv, HostTypes
<1>3. ASSUME box' = Removed(r), Failed(r) PROVE NodeInv'
  BY <1>1, <1>3, RemovedLeavesNone, AnsweredStep DEF Failed
<1>4. ASSUME box' = Removed(r), NEW t \in Tasks, t.pc = "again", Goes(r, t) PROVE NodeInv'
  BY <1>1, <1>4, RemovedLeavesNone, GoesStep
<1>5. CASE Start(r)
  <2> DEFINE name == snap[r].name
  <2>1. /\ name \in SnapNames /\ box \in [SnapNames -> Boxes] /\ box[name].by = r
        /\ box' = [box EXCEPT ![name].running = TRUE] /\ Answered(r, TRUE, TRUE)
    BY <1>5, NamesAreNames DEF Start, Started, NodeInv, HostTypes
  <2>2. box[name] \in Boxes
    BY <2>1
  <2> DEFINE new == [box[name] EXCEPT !.running = TRUE]
  <2>3. new \in Boxes /\ new.by = r /\ new.running
    BY <2>1, <2>2 DEF Boxes
  <2>4. box' = [box EXCEPT ![name] = new]
    BY <2>1
  <2> HIDE DEF name, new
  <2>5. Touches(r)
    BY <2>1, <2>3, <2>4 DEF Touches
  <2>6. ASSUME NEW n \in SnapNames, box'[n].by = r PROVE n = name /\ box'[n].running
    <3>1. CASE n = name
      BY <2>1, <2>3, <2>4, <3>1
    <3>2. CASE n # name
      BY <2>1, <2>4, <2>6, <3>2 DEF NodeInv, Owned, OwnContainer, name
    <3> QED BY <3>1, <3>2
  <2>7. \A n \in SnapNames : box'[n].by = r => TRUE /\ TRUE /\ n = snap[r].name /\ box'[n].running
    BY <2>6 DEF name
  <2>8. Answered(r, TRUE, TRUE)
    BY <2>1
  <2> QED BY <1>1, <2>5, <2>7, <2>8, AnsweredStep
<1>6. CASE StartNetworkMissing(r)
  <2>1. /\ [task[r] EXCEPT !.pc = "again", !.bridge = TRUE] \in Tasks
        /\ [task[r] EXCEPT !.pc = "again", !.bridge = TRUE].pc = "again"
    BY <1>2 DEF Tasks
  <2> QED BY <1>4, <1>6, <2>1 DEF StartNetworkMissing
<1>7. CASE StartPortTaken(r)
  <2>1. ASSUME NEW p \in FreePorts
        PROVE  /\ [task[r] EXCEPT !.pc = "again", !.port = p] \in Tasks
               /\ [task[r] EXCEPT !.pc = "again", !.port = p].pc = "again"
    BY <1>2 DEF Tasks, FreePorts
  <2> QED BY <1>3, <1>4, <1>7, <2>1 DEF StartPortTaken
<1>8. CASE StartFails(r)
  BY <1>3, <1>8 DEF StartFails
<1> QED BY <1>5, <1>6, <1>7, <1>8

(* The rest of the host, the death of the agent and a repeated request.    *)
LEMMA HostStep ==
  ASSUME NodeInv, Preflight \/ OthersAct \/ PortFreed \/ AgentDies
  PROVE  NodeInv'
<1>1. CASE Preflight \/ PortFreed
  BY <1>1 DEF Preflight, PortFreed, hostVars, NodeInv, HostTypes, Waits, Owned, OwnContainer
<1>2. CASE OthersAct
  <2>1. UNCHANGED <<snap, task, status>>
    BY <1>2 DEF OthersAct
  <2>2. /\ box' \in [SnapNames -> Boxes]
        /\ \A n \in SnapNames : box'[n] = box[n] \/ box'[n] = NoBox
    <3>1. CASE box' = box
      BY <3>1 DEF NodeInv, HostTypes
    <3>2. CASE \E n \in SnapNames : box' = [box EXCEPT ![n] = NoBox]
      BY <3>2, EmptyHost DEF NodeInv, HostTypes
    <3> QED BY <1>2, <3>1, <3>2 DEF OthersAct
  <2>3. HostTypes' /\ Waits'
    BY <2>1, <2>2 DEF NodeInv, HostTypes, Waits
  <2>4. Owned'
    <3> SUFFICES ASSUME NEW q \in Restores, NEW n \in SnapNames, box'[n].by = q
                 PROVE  OwnContainer(q, n)'
      BY DEF Owned
    <3>1. box'[n] = box[n]
      BY <2>2, EmptyHost, NodeRestoreConstants
    <3> QED BY <2>1, <3>1 DEF NodeInv, Owned, OwnContainer
  <2> QED BY <2>3, <2>4 DEF NodeInv
<1>3. CASE AgentDies
  <2>1. /\ snap' = snap
        /\ task' = [r \in Restores |-> [task[r] EXCEPT !.pc = "answered"]]
        /\ status' = [r \in Restores |-> IF task[r].pc = "answered" THEN status[r] ELSE "failed"]
        /\ box' = [n \in SnapNames |->
              IF box[n].by \in Restores /\ ~box[n].running THEN [box[n] EXCEPT !.by = Leftover]
              ELSE box[n]]
    BY <1>3 DEF AgentDies, hostVars
  <2>2. \A n \in SnapNames : box[n] \in Boxes /\ [box[n] EXCEPT !.by = Leftover] \in Boxes
                             /\ [box[n] EXCEPT !.by = Leftover].by = Leftover
    BY DEF NodeInv, HostTypes, Boxes
  <2>3. \A r \in Restores : /\ [task[r] EXCEPT !.pc = "answered"] \in Tasks
                            /\ [task[r] EXCEPT !.pc = "answered"].pc = "answered"
    BY DEF NodeInv, HostTypes, Tasks
  <2>4. status' \in [Restores -> {"running", "ok", "partial", "failed"}]
    BY <2>1 DEF NodeInv, HostTypes
  <2>5. HostTypes'
    BY <2>1, <2>2, <2>3, <2>4 DEF NodeInv, HostTypes
  <2>6. Waits'
    BY <2>1, <2>3 DEF Waits
  <2>7. Owned'
    <3> SUFFICES ASSUME NEW q \in Restores, NEW n \in SnapNames, box'[n].by = q
                 PROVE  OwnContainer(q, n)'
      BY DEF Owned
    <3>1. Leftover # q
      BY NodeRestoreConstants
    <3>2. box'[n] = box[n] /\ box[n].running
      BY <2>1, <2>2, <3>1
    <3>3. n = snap[q].name /\ task[q].pc = "answered" /\ status[q] = "ok"
      BY <3>2 DEF NodeInv, Owned, OwnContainer
    <3>4. task'[q].pc = "answered" /\ status'[q] = "ok"
      BY <2>1, <2>3, <3>3
    <3> QED BY <2>1, <3>2, <3>3, <3>4 DEF OwnContainer
  <2> QED BY <2>5, <2>6, <2>7 DEF NodeInv
<1> QED BY <1>1, <1>2, <1>3

LEMMA AskAgainStep ==
  ASSUME NodeInv, NEW r \in Restores, AskAgain(r)
  PROVE  NodeInv'
<1>1. /\ snap' = snap /\ box' = box /\ task[r].pc = "answered" /\ status[r] = "failed"
      /\ task' = [task EXCEPT ![r] = NewTask] /\ status' = [status EXCEPT ![r] = "running"]
  BY DEF AskAgain
<1>2. \A n \in SnapNames : box'[n].by # r
  BY <1>1 DEF NodeInv, Owned, OwnContainer
<1>3. Touches(r)
  BY <1>1, BoxUnchanged
<1>4. Reaches(r, NewTask, "running") /\ "running" \in Statuses
  BY <1>1, <1>2, FreshTask DEF Reaches, Statuses
<1> QED BY <1>1, <1>3, <1>4, FreshTask, StepOfOne

LEMMA NodeInvStep == NodeInv /\ [NodeRestoreNext]_nrVars => NodeInv'
<1>1. NodeInv /\ UNCHANGED nrVars => NodeInv'
  BY DEF nrVars, NodeInv, HostTypes, Waits, Owned, OwnContainer
<1>2. ASSUME NodeInv, NEW r \in Restores, RestoreSteps(r) PROVE NodeInv'
  BY <1>2, BeforeCreate, CreateStep, StartStep DEF RestoreSteps
<1>3. ASSUME NodeInv, \E r \in Restores : RestoreSteps(r) \/ AskAgain(r) PROVE NodeInv'
  BY <1>2, <1>3, AskAgainStep
<1> QED BY <1>1, <1>3, HostStep DEF NodeRestoreNext

(* recreateContainer and its fallbacks, and the status the master makes of *)
(* the answer: a failed restore leaves no container, whichever of its      *)
(* attempts failed, however many restores share its name, and whatever the *)
(* host and its other services did meanwhile.                              *)
THEOREM FailedRestoresLeaveNothing == NodeRestoreSpec => []FailedLeavesNothing
<1>1. NodeInv => FailedLeavesNothing
  <2> SUFFICES ASSUME NodeInv, NEW r \in Restores, status[r] = "failed", NEW n \in SnapNames
               PROVE  box[n].by # r
    BY DEF FailedLeavesNothing
  <2>1. task[r].pc \notin {"start", "restart"}
    BY DEF NodeInv, Waits
  <2> QED BY <2>1 DEF NodeInv, Owned, OwnContainer
<1> QED BY NodeInit, NodeInvStep, <1>1, PTL DEF NodeRestoreSpec

-----------------------------------------------------------------------------
(* One change is absorbed.                                                 *)

(* The changes made so far under a restore: every act of another service   *)
(* or of an administrator, and every restore that took a port.             *)
Oks == {q \in Restores : status[q] = "ok"}
Changes == rivals + Cardinality(Oks)
Busy == {p \in HostPorts : ~Bindable(p)}

Unfit(r) == ~Bindable(task[r].port)             \* the start will be refused the port
Cut(r) == ~(task[r].bridge \/ network)          \* ... or the network
Alone(r) == ~Shared(r) /\ snap[r].pull

(* How many changes a restore that nothing failed has seen: one for every  *)
(* obstacle to its first start, and one more for its second.               *)
Fits(r) ==
    /\ task[r].pulled => snap[r].image \in images
    /\ task[r].pc \in {"start", "restart"} => box[snap[r].name].by = r
    /\ task[r].pc = "networks" /\ Unfit(r) => Changes >= 1
    /\ task[r].pc \in {"create", "start"} =>
        /\ Unfit(r) \/ Cut(r) => Changes >= 1
        /\ Unfit(r) /\ Cut(r) => Changes >= 2
    /\ task[r].pc \in {"again", "restart"} =>
        /\ Changes >= 1
        /\ Unfit(r) \/ Cut(r) => Changes >= 2
    /\ status[r] = "failed" => Changes >= 2

\* Without mishaps every container is that of a restore, or no container.
Tidy == \A n \in SnapNames : box[n].by # Leftover /\ (box[n].by = NoOne => box[n] = NoBox)

Counts ==
    /\ rivals \in Nat /\ IsFiniteSet(Oks)
    /\ IsFiniteSet(Busy) /\ Cardinality(Busy) <= 1 + Changes

Undisturbed == Counts /\ Tidy /\ \A r \in Restores : Alone(r) => Fits(r)
AbsorbInv == NodeInv /\ mishaps \in Nat /\ (mishaps = 0 => Undisturbed)

LEMMA ChangesCount == ASSUME Counts PROVE Changes \in Nat
  BY FS_CardinalityType DEF Counts, Changes

\* No port, or none but x, that could be bound no longer can.
Frees == \A p \in HostPorts \union {0} : Bindable(p) => Bindable(p)'
FreesBut(x) == \A p \in HostPorts \union {0} : p # x /\ Bindable(p) => Bindable(p)'

(* What the host does to those that wait: nothing, or one change that      *)
(* takes one port or the network.                                          *)
Weathers ==
    /\ Changes \in Nat /\ Changes' \in Nat
    /\ \/ Changes' >= Changes /\ Frees /\ (network => network')
       \/ Changes' >= Changes + 1 /\ Frees
       \/ Changes' >= Changes + 1 /\ (network => network')

LEMMA Bystander ==
  ASSUME NodeInv, NEW r \in Restores, Fits(r), Weathers, snap' = snap, images \subseteq images',
         task'[r] = task[r], status'[r] = status[r],
         task[r].pc \in {"start", "restart"} => box'[snap[r].name].by = r
  PROVE  Fits(r)'
<1>1. task[r].port \in HostPorts \union {0}
  BY DEF NodeInv, HostTypes, Tasks
<1> DEFINE K == Changes
           L == Changes'
           cut == Cut(r)
           unfit == Unfit(r)
<1>2. K \in Nat /\ L \in Nat /\ L >= K
  BY DEF Weathers
<1>3. /\ (Unfit(r)' => unfit) \/ L >= K + 1
      /\ (Cut(r)' => cut) \/ L >= K + 1
      /\ (Unfit(r)' => unfit) \/ (Cut(r)' => cut)
  BY <1>1 DEF Weathers, Frees, Unfit, Cut
<1>4. /\ task[r].pc = "networks" /\ unfit => K >= 1
      /\ task[r].pc \in {"create", "start"} => (unfit \/ cut => K >= 1) /\ (unfit /\ cut => K >= 2)
      /\ task[r].pc \in {"again", "restart"} => K >= 1 /\ (unfit \/ cut => K >= 2)
      /\ status[r] = "failed" => K >= 2
      /\ task[r].pulled => snap[r].image \in images
  BY DEF Fits
<1> HIDE DEF K, L, cut, unfit
<1>5. /\ task[r].pc = "networks" /\ Unfit(r)' => L >= 1
      /\ task[r].pc \in {"create", "start"} =>
            (Unfit(r)' \/ Cut(r)' => L >= 1) /\ (Unfit(r)' /\ Cut(r)' => L >= 2)
      /\ task[r].pc \in {"again", "restart"} => L >= 1 /\ (Unfit(r)' \/ Cut(r)' => L >= 2)
      /\ status[r] = "failed" => L >= 2
  BY <1>2, <1>3, <1>4
<1> QED BY <1>4, <1>5 DEF Fits, L

\* The number of ports in use stays within the changes and the one that was in use.
LEMMA BusyStep ==
  ASSUME Counts, rivals' \in Nat, IsFiniteSet(Oks'), Changes' \in Nat,
         \/ Frees /\ Changes' >= Changes
         \/ \E x \in HostPorts \union {0} : FreesBut(x) /\ Changes' >= Changes + 1
  PROVE  Counts'
<1> DEFINE c == Cardinality(Busy)
           d == Cardinality(Busy')
<1>1. Changes \in Nat /\ c \in Nat /\ c <= 1 + Changes
  BY ChangesCount, FS_CardinalityType DEF Counts
<1>2. CASE Frees /\ Changes' >= Changes
  <2>1. Busy' \in SUBSET Busy
    BY <1>2 DEF Frees, Busy
  <2>2. IsFiniteSet(Busy') /\ d <= c /\ d \in Nat
    BY <2>1, FS_Subset, FS_CardinalityType DEF Counts
  <2>3. d <= 1 + Changes'
    BY <1>1, <1>2, <2>2
  <2> QED BY <2>2, <2>3 DEF Counts
<1>3. ASSUME NEW x \in HostPorts \union {0}, FreesBut(x), Changes' >= Changes + 1 PROVE Counts'
  <2> DEFINE e == Cardinality(Busy \union {x})
  <2>1. Busy' \in SUBSET (Busy \union {x})
    BY <1>3 DEF FreesBut, Busy
  <2>2. IsFiniteSet(Busy \union {x}) /\ e <= c + 1 /\ e \in Nat
    <3>1. IsFiniteSet(Busy \union {x}) /\ e = IF x \in Busy THEN c ELSE c + 1
      BY FS_AddElement DEF Counts
    <3> HIDE DEF c, e
    <3>2. e <= c + 1 /\ e \in Nat
      BY <1>1, <3>1
    <3> QED BY <3>1, <3>2
  <2>3. IsFiniteSet(Busy') /\ d <= e /\ d \in Nat
    BY <2>1, <2>2, FS_Subset, FS_CardinalityType
  <2>4. d <= 1 + Changes'
    BY <1>1, <1>3, <2>2, <2>3
  <2> QED BY <2>3, <2>4 DEF Counts
<1> QED BY <1>2, <1>3

Smooth == NodeInv /\ mishaps = 0 /\ mishaps' = 0 /\ Undisturbed

\* A step of q, of which the others see only what happens to the host.
LEMMA OneMoves ==
  ASSUME Smooth, NEW q \in Restores, snap' = snap, images \subseteq images', Weathers, Counts', Tidy',
         \A r \in Restores \ {q} : task'[r] = task[r] /\ status'[r] = status[r],
         \A n \in SnapNames : n # snap[q].name => box'[n] = box[n],
         Alone(q) => Fits(q)'
  PROVE  Undisturbed'
<1>1. ASSUME NEW r \in Restores, Alone(r)' PROVE Fits(r)'
  <2>1. Alone(r)
    BY <1>1 DEF Alone, Shared
  <2>2. CASE r # q
    <3>1. Fits(r) /\ NodeInv
      BY <2>1 DEF Smooth, Undisturbed
    <3>2. snap[q].name # snap[r].name /\ snap[r].name \in SnapNames
      BY <2>1, <2>2, <3>1, NamesAreNames DEF Alone, Shared, NodeInv
    <3>3. task[r].pc \in {"start", "restart"} => box'[snap[r].name].by = r
      BY <3>1, <3>2 DEF Fits
    <3> QED BY <2>2, <3>1, <3>3, Bystander
  <2> QED BY <2>1, <2>2
<1> QED BY <1>1 DEF Undisturbed

(* What a restore that is at t and recorded as s needs to fit, while no    *)
(* change was counted.                                                     *)
Suits(q, t, s) ==
    /\ t.pulled => snap[q].image \in images'
    /\ t.pc \in {"start", "restart"} => box'[snap[q].name].by = q
    /\ t.pc = "networks" /\ ~Bindable(t.port) => Changes >= 1
    /\ t.pc \in {"create", "start"} =>
        /\ ~Bindable(t.port) \/ ~(t.bridge \/ network') => Changes >= 1
        /\ ~Bindable(t.port) /\ ~(t.bridge \/ network') => Changes >= 2
    /\ t.pc \in {"again", "restart"} =>
        /\ Changes >= 1
        /\ ~Bindable(t.port) \/ ~(t.bridge \/ network') => Changes >= 2
    /\ s = "failed" => Changes >= 2

\* The container under the restore's own name stays, goes, or is made and not started.
OwnBox(q) ==
    /\ \A n \in SnapNames : n # snap[q].name => box'[n] = box[n]
    /\ \/ box'[snap[q].name] \in {box[snap[q].name], NoBox}
       \/ box'[snap[q].name].by = q /\ ~box'[snap[q].name].running

LEMMA OwnBoxFrees ==
  ASSUME Smooth, NEW q \in Restores, taken' = taken, snap' = snap, OwnBox(q)
  PROVE  Frees /\ Tidy'
<1>1. \A n \in SnapNames : box'[n] \in {box[n], NoBox} \/ (box'[n].by = q /\ ~box'[n].running)
  BY DEF OwnBox
<1>2. Frees
  BY <1>1, EmptyHost DEF Frees, Bindable
<1>3. Tidy'
  BY <1>1, EmptyHost, NodeRestoreConstants DEF Tidy, Smooth, Undisturbed, NoOne, Leftover
<1> QED BY <1>2, <1>3

(* A step that changes nothing for the others: the host's ports, network   *)
(* and images at worst improve.                                            *)
LEMMA CalmStep ==
  ASSUME Smooth, NEW q \in Restores, snap' = snap, rivals' = rivals, taken' = taken,
         network => network', images \subseteq images', OwnBox(q),
         NEW t \in Tasks, NEW s, s # "ok", status[q] # "ok",
         task' = [task EXCEPT ![q] = t], status' = [status EXCEPT ![q] = s],
         Alone(q) => Suits(q, t, s)
  PROVE  Undisturbed'
<1>1. task'[q] = t /\ status'[q] = s
      /\ \A r \in Restores \ {q} : task'[r] = task[r] /\ status'[r] = status[r]
  BY DEF Smooth, NodeInv, HostTypes
<1>2. Frees /\ Tidy'
  BY OwnBoxFrees
<1>3. Oks' = Oks
  BY <1>1 DEF Oks
<1>4. Changes' = Changes /\ Changes \in Nat
  BY <1>3, ChangesCount DEF Changes, Smooth, Undisturbed
<1>5. Counts'
  BY <1>2, <1>3, <1>4, BusyStep DEF Smooth, Undisturbed, Counts
<1>6. ASSUME Alone(q) PROVE Fits(q)'
  <2>1. Suits(q, t, s)
    BY <1>6
  <2>2. Unfit(q)' => ~Bindable(t.port)
    BY <1>1, <1>2 DEF Frees, Unfit, Tasks
  <2>3. Cut(q)' => ~(t.bridge \/ network')
    BY <1>1 DEF Cut
  <2> QED BY <1>1, <1>4, <2>1, <2>2, <2>3 DEF Suits, Fits
<1>7. Weathers
  BY <1>2, <1>4 DEF Weathers
<1> QED BY <1>1, <1>2, <1>5, <1>6, <1>7, OneMoves DEF OwnBox

LEMMA Moving ==
  ASSUME NodeInv, NEW q \in Restores, task[q].pc # "answered"
  PROVE  status[q] = "running" /\ status = [status EXCEPT ![q] = "running"]
  BY DEF NodeInv, Waits, HostTypes

LEMMA GoesCalm ==
  ASSUME Smooth, NEW q \in Restores, snap' = snap, rivals' = rivals, taken' = taken,
         network => network', images \subseteq images', OwnBox(q), task[q].pc # "answered",
         NEW t \in Tasks, Goes(q, t), Alone(q) => Suits(q, t, "running")
  PROVE  Undisturbed'
<1>1. status[q] = "running" /\ status = [status EXCEPT ![q] = "running"]
  BY Moving DEF Smooth
<1>2. task' = [task EXCEPT ![q] = t] /\ status' = [status EXCEPT ![q] = "running"]
  BY <1>1 DEF Goes
<1> QED BY <1>1, <1>2, CalmStep

LEMMA AnswersCalm ==
  ASSUME Smooth, NEW q \in Restores, snap' = snap, rivals' = rivals, taken' = taken,
         network' = network, images' = images, OwnBox(q), task[q].pc # "answered",
         \/ Failed(q) /\ (Alone(q) => Changes >= 2)
         \/ Answered(q, TRUE, FALSE)
  PROVE  Undisturbed'
<1> DEFINE t == [task[q] EXCEPT !.pc = "answered"]
<1>1. task[q] \in Tasks
  BY DEF Smooth, NodeInv, HostTypes
<1>2. t \in Tasks /\ t.pc = "answered" /\ t.pulled = task[q].pulled
  BY <1>1 DEF Tasks
<1>3. PICK s \in {"failed", "partial"} :
        /\ task' = [task EXCEPT ![q] = t] /\ status' = [status EXCEPT ![q] = s]
        /\ s = "failed" /\ Alone(q) => Changes >= 2
  BY DEF Failed, Answered
<1> HIDE DEF t
<1>4. status[q] = "running"
  BY Moving DEF Smooth
<1>5. Alone(q) => Fits(q)
  BY DEF Smooth, Undisturbed
<1>6. Alone(q) => Suits(q, t, s)
  BY <1>2, <1>3, <1>5 DEF Suits, Fits
<1> QED BY <1>2, <1>3, <1>4, <1>6, CalmStep

LEMMA BoxStays ==
  ASSUME NEW q \in Restores, box' = box
  PROVE  OwnBox(q)
  BY DEF OwnBox

LEMMA BoxRemoved ==
  ASSUME Smooth, NEW q \in Restores, box' = Removed(q)
  PROVE  OwnBox(q)
<1>1. snap[q].name \in SnapNames /\ box \in [SnapNames -> Boxes]
  BY NamesAreNames DEF Smooth, NodeInv, HostTypes
<1> QED BY <1>1 DEF Removed, OwnBox

LEMMA BoxMade ==
  ASSUME Smooth, NEW q \in Restores, NEW bridge, Make(q, bridge)
  PROVE  OwnBox(q) /\ box'[snap[q].name].by = q
<1>1. snap[q].name \in SnapNames /\ box \in [SnapNames -> Boxes]
  BY NamesAreNames DEF Smooth, NodeInv, HostTypes
<1> QED BY <1>1 DEF Make, OwnBox

\* No other restore makes a container of that name.
LEMMA NameFree ==
  ASSUME Smooth, NEW q \in Restores, Alone(q), task[q].pc \notin {"start", "restart", "answered"}
  PROVE  box[snap[q].name] = NoBox
<1> DEFINE name == snap[q].name
<1>1. name \in SnapNames
  BY NamesAreNames DEF Smooth, NodeInv
<1>2. box[name].by \in Restores \union {NoOne, Leftover}
  BY <1>1 DEF Smooth, NodeInv, HostTypes, Boxes
<1>3. ASSUME NEW r \in Restores, box[name].by = r PROVE FALSE
  <2>1. name = snap[r].name
    BY <1>1, <1>3 DEF Smooth, NodeInv, Owned, OwnContainer
  <2>2. r = q
    BY <2>1 DEF Alone, Shared
  <2> QED BY <1>1, <1>3, <2>2, OwnsNothing DEF Smooth
<1> QED BY <1>1, <1>2, <1>3 DEF Smooth, Undisturbed, Tidy

\* Services and restores take one port each.
ManyPorts == IsFiniteSet(HostPorts) /\ Cardinality(HostPorts) >= 3

LEMMA NoPortLeft ==
  ASSUME ManyPorts, Smooth, FreePorts = {}
  PROVE  Changes >= 2
<1>1. Busy = HostPorts
  BY DEF FreePorts, Busy
<1> DEFINE c == Cardinality(HostPorts)
<1>2. c \in Nat /\ c >= 3
  BY FS_CardinalityType DEF ManyPorts
<1>3. c <= 1 + Changes /\ Changes \in Nat
  BY <1>1, ChangesCount DEF Smooth, Undisturbed, Counts
<1> HIDE DEF c
<1> QED BY <1>2, <1>3

LEMMA NoMishap == ASSUME Smooth, Mishap PROVE FALSE
  BY DEF Smooth, Mishap

LEMMA ExtractFits == ASSUME Smooth, NEW q \in Restores, Extract(q) PROVE Undisturbed'
<1> DEFINE t == [task[q] EXCEPT !.pc = "probe"]
<1>1. /\ Goes(q, t) /\ task[q].pc = "download" /\ rivals' = rivals
      /\ snap' = snap /\ box' = box /\ UNCHANGED hostVars
  BY NoMishap DEF Extract, Quiet
<1>2. t \in Tasks /\ t.pc = "probe" /\ t.pulled = task[q].pulled
  BY DEF Smooth, NodeInv, HostTypes, Tasks
<1> HIDE DEF t
<1>3. Alone(q) => Suits(q, t, "running")
  BY <1>1, <1>2 DEF Smooth, Undisturbed, Fits, Suits, hostVars
<1> QED BY <1>1, <1>2, <1>3, BoxStays, GoesCalm DEF hostVars

LEMMA ProbeFits == ASSUME ManyPorts, Smooth, NEW q \in Restores, Probe(q) PROVE Undisturbed'
<1>1. /\ task[q].pc = "probe" /\ snap' = snap /\ box' = box
      /\ taken' = taken /\ network' = network /\ images' = images /\ rivals' = rivals
  BY DEF Probe, Quiet, hostVars
<1>2. CASE box[snap[q].name] # NoBox
  BY <1>1, <1>2, BoxStays, AnswersCalm DEF Probe
<1>3. CASE box[snap[q].name] = NoBox
  <2>1. PICK p \in HostPorts :
            /\ Goes(q, [task[q] EXCEPT !.pc = "networks", !.port = p])
            /\ Bindable(p) \/ FreePorts = {}
    BY <1>3, NamesAreNames DEF Probe, FreePorts, Smooth, NodeInv
  <2> DEFINE t == [task[q] EXCEPT !.pc = "networks", !.port = p]
  <2>2. t \in Tasks /\ t.pc = "networks" /\ t.port = p /\ t.pulled = task[q].pulled
    BY DEF Smooth, NodeInv, HostTypes, Tasks
  <2>3. Goes(q, t)
    BY <2>1
  <2> HIDE DEF t
  <2>4. ~Bindable(p) => Changes >= 1
    BY <2>1, NoPortLeft, ChangesCount DEF Smooth, Undisturbed
  <2>5. Alone(q) => Suits(q, t, "running")
    BY <1>1, <2>2, <2>4 DEF Smooth, Undisturbed, Fits, Suits
  <2> QED BY <1>1, <2>2, <2>3, <2>5, BoxStays, GoesCalm
<1> QED BY <1>2, <1>3

LEMMA EnsureNetworksFits == ASSUME Smooth, NEW q \in Restores, EnsureNetworks(q) PROVE Undisturbed'
<1> DEFINE t == [task[q] EXCEPT !.pc = "create"]
<1>1. /\ Goes(q, t) /\ task[q].pc = "networks" /\ network' = TRUE /\ rivals' = rivals
      /\ snap' = snap /\ box' = box /\ taken' = taken /\ images' = images
  BY NoMishap DEF EnsureNetworks, Quiet
<1>2. t \in Tasks /\ t.pc = "create" /\ t.pulled = task[q].pulled /\ t.port = task[q].port
  BY DEF Smooth, NodeInv, HostTypes, Tasks
<1> HIDE DEF t
<1>3. Alone(q) => Suits(q, t, "running")
  BY <1>1, <1>2 DEF Smooth, Undisturbed, Fits, Suits, Unfit
<1> QED BY <1>1, <1>2, <1>3, BoxStays, GoesCalm

LEMMA PullImageFits == ASSUME Smooth, NEW q \in Restores, PullImage(q) PROVE Undisturbed'
<1> DEFINE t == [task[q] EXCEPT !.pulled = TRUE]
<1>1. /\ Goes(q, t) /\ task[q].pc = "create" /\ network' = network /\ rivals' = rivals
      /\ snap' = snap /\ box' = box /\ taken' = taken /\ images' = images \union {snap[q].image}
  BY NoMishap DEF PullImage, Quiet
<1>2. t \in Tasks /\ t.pc = "create" /\ t.port = task[q].port /\ t.bridge = task[q].bridge
  BY <1>1 DEF Smooth, NodeInv, HostTypes, Tasks
<1> HIDE DEF t
<1>3. Alone(q) => Suits(q, t, "running")
  BY <1>1, <1>2 DEF Smooth, Undisturbed, Fits, Suits, Unfit, Cut
<1> QED BY <1>1, <1>2, <1>3, BoxStays, GoesCalm

LEMMA CreateFits == ASSUME Smooth, NEW q \in Restores, Create(q) PROVE Undisturbed'
<1> DEFINE t == [task[q] EXCEPT !.pc = "start"]
<1>1. /\ task[q].pc = "create" /\ snap' = snap /\ rivals' = rivals
      /\ taken' = taken /\ network' = network /\ images' = images
  BY NoMishap DEF Create, Quiet, hostVars
<1>2. \/ Make(q, FALSE) /\ Goes(q, t)
      \/ box' = box /\ Failed(q) /\ snap[q].image \in images /\ box[snap[q].name] # NoBox
      \/ box' = box /\ Failed(q) /\ snap[q].image \notin images /\ (task[q].pulled \/ ~snap[q].pull)
  BY NoMishap DEF Create
<1>3. t \in Tasks /\ t.pc = "start" /\ t.pulled = task[q].pulled
      /\ t.port = task[q].port /\ t.bridge = task[q].bridge
  BY DEF Smooth, NodeInv, HostTypes, Tasks
<1> HIDE DEF t
<1>4. CASE Make(q, FALSE) /\ Goes(q, t)
  <2>1. OwnBox(q) /\ box'[snap[q].name].by = q
    BY <1>4, BoxMade
  <2>2. Alone(q) => Suits(q, t, "running")
    BY <1>1, <1>3, <2>1 DEF Smooth, Undisturbed, Fits, Suits, Unfit, Cut
  <2> QED BY <1>1, <1>3, <1>4, <2>1, <2>2, GoesCalm
<1>5. CASE box' = box /\ Failed(q) /\ snap[q].image \in images /\ box[snap[q].name] # NoBox
  BY <1>1, <1>5, NameFree, BoxStays, AnswersCalm
<1>6. CASE box' = box /\ Failed(q) /\ snap[q].image \notin images /\ (task[q].pulled \/ ~snap[q].pull)
  <2>1. ~Alone(q)
    BY <1>6 DEF Smooth, Undisturbed, Fits, Alone
  <2> QED BY <1>1, <1>6, <2>1, BoxStays, AnswersCalm
<1> QED BY <1>2, <1>4, <1>5, <1>6

LEMMA CreateAgainFits == ASSUME Smooth, NEW q \in Restores, CreateAgain(q) PROVE Undisturbed'
<1> DEFINE t == [task[q] EXCEPT !.pc = "restart"]
<1>1. /\ task[q].pc = "again" /\ snap' = snap /\ rivals' = rivals
      /\ taken' = taken /\ network' = network /\ images' = images
  BY DEF CreateAgain, Quiet, hostVars
<1>2. t \in Tasks /\ t.pc = "restart" /\ t.pulled = task[q].pulled
      /\ t.port = task[q].port /\ t.bridge = task[q].bridge
  BY DEF Smooth, NodeInv, HostTypes, Tasks
<1>3. CASE box[snap[q].name] = NoBox
  <2>1. Make(q, task[q].bridge) /\ Goes(q, t)
    BY <1>3 DEF CreateAgain
  <2> HIDE DEF t
  <2>2. OwnBox(q) /\ box'[snap[q].name].by = q
    BY <2>1, BoxMade
  <2>3. Alone(q) => Suits(q, t, "running")
    BY <1>1, <1>2, <2>2 DEF Smooth, Undisturbed, Fits, Suits, Unfit, Cut
  <2> QED BY <1>1, <1>2, <2>1, <2>2, <2>3, GoesCalm
<1>4. CASE box[snap[q].name] # NoBox
  <2>1. box' = box /\ Failed(q) /\ ~Alone(q)
    BY <1>1, <1>4, NameFree DEF CreateAgain
  <2> QED BY <1>1, <2>1, BoxStays, AnswersCalm
<1> QED BY <1>3, <1>4

LEMMA StartNetworkMissingFits ==
  ASSUME Smooth, NEW q \in Restores, StartNetworkMissing(q) PROVE Undisturbed'
<1> DEFINE t == [task[q] EXCEPT !.pc = "again", !.bridge = TRUE]
<1>1. /\ task[q].pc = "start" /\ snap' = snap /\ rivals' = rivals
      /\ taken' = taken /\ network' = network /\ images' = images
      /\ ~network /\ ~task[q].bridge /\ box' = Removed(q) /\ Goes(q, t)
  BY DEF StartNetworkMissing, Quiet, hostVars
<1>2. t \in Tasks /\ t.pc = "again" /\ t.pulled = task[q].pulled /\ t.port = task[q].port /\ t.bridge
  BY DEF Smooth, NodeInv, HostTypes, Tasks
<1> HIDE DEF t
<1>3. Alone(q) => Suits(q, t, "running")
  BY <1>1, <1>2 DEF Smooth, Undisturbed, Fits, Suits, Unfit, Cut
<1> QED BY <1>1, <1>2, <1>3, BoxRemoved, GoesCalm

LEMMA StartPortTakenFits ==
  ASSUME ManyPorts, Smooth, NEW q \in Restores, StartPortTaken(q) PROVE Undisturbed'
<1>1. /\ task[q].pc = "start" /\ snap' = snap /\ rivals' = rivals
      /\ taken' = taken /\ network' = network /\ images' = images
      /\ ~Bindable(task[q].port) /\ box' = Removed(q)
  BY DEF StartPortTaken, Quiet, hostVars
<1>2. CASE FreePorts = {}
  BY <1>1, <1>2, NoPortLeft, BoxRemoved, AnswersCalm DEF StartPortTaken
<1>3. CASE FreePorts # {}
  <2>1. PICK p \in FreePorts : Goes(q, [task[q] EXCEPT !.pc = "again", !.port = p])
    BY <1>3 DEF StartPortTaken
  <2> DEFINE t == [task[q] EXCEPT !.pc = "again", !.port = p]
  <2>2. /\ t \in Tasks /\ t.pc = "again" /\ t.pulled = task[q].pulled
        /\ t.bridge = task[q].bridge /\ t.port = p
    BY DEF Smooth, NodeInv, HostTypes, Tasks, FreePorts
  <2>3. Goes(q, t)
    BY <2>1
  <2> HIDE DEF t
  <2>4. Bindable(p)
    BY DEF FreePorts
  <2>5. Alone(q) => Suits(q, t, "running")
    BY <1>1, <2>2, <2>4 DEF Smooth, Undisturbed, Fits, Suits, Unfit, Cut
  <2> QED BY <1>1, <2>2, <2>3, <2>5, BoxRemoved, GoesCalm
<1> QED BY <1>2, <1>3

LEMMA StartFailsFits == ASSUME Smooth, NEW q \in Restores, StartFails(q) PROVE Undisturbed'
<1>1. /\ task[q].pc \in {"start", "restart"} /\ snap' = snap /\ rivals' = rivals
      /\ taken' = taken /\ network' = network /\ images' = images
      /\ box' = Removed(q) /\ Failed(q)
  BY DEF StartFails, Quiet, hostVars
<1>2. \/ box[snap[q].name].by # q
      \/ task[q].pc = "restart" /\ (~Bindable(task[q].port) \/ ~(task[q].bridge \/ network))
  BY NoMishap DEF StartFails
<1>3. Alone(q) => Changes >= 2
  BY <1>1, <1>2 DEF Smooth, Undisturbed, Fits, Unfit, Cut
<1> QED BY <1>1, <1>3, BoxRemoved, AnswersCalm

\* The one step of a restore that counts as a change for the others.
LEMMA StartFits == ASSUME Smooth, NEW q \in Restores, Start(q) PROVE Undisturbed'
<1> DEFINE name == snap[q].name
           x == box[name].port
<1>1. /\ task[q].pc \in {"start", "restart"} /\ snap' = snap /\ rivals' = rivals
      /\ taken' = taken /\ network' = network /\ images' = images
      /\ box' = [box EXCEPT ![name].running = TRUE] /\ Answered(q, TRUE, TRUE)
      /\ box[name].by = q
  BY DEF Start, Started, Quiet, hostVars
<1>2. /\ name \in SnapNames /\ box \in [SnapNames -> Boxes] /\ box[name] \in Boxes
      /\ x \in HostPorts \union {0} /\ task[q] \in Tasks
  BY NamesAreNames DEF Smooth, NodeInv, HostTypes, Boxes
<1>3. /\ \A n \in SnapNames : n # name => box'[n] = box[n]
      /\ box'[name] = [box[name] EXCEPT !.running = TRUE]
      /\ box'[name].by = q /\ box'[name].port = x
  BY <1>1, <1>2 DEF Boxes
<1>4. /\ task'[q].pc = "answered" /\ task'[q].pulled = task[q].pulled /\ status'[q] = "ok"
      /\ \A r \in Restores \ {q} : task'[r] = task[r] /\ status'[r] = status[r]
  BY <1>1, <1>2 DEF Smooth, NodeInv, HostTypes, Answered, Tasks
<1>5. status[q] = "running"
  BY <1>1, Moving DEF Smooth
<1>6. Oks' = Oks \union {q} /\ q \notin Oks
  BY <1>4, <1>5 DEF Oks
<1>7. Changes' = Changes + 1 /\ Changes \in Nat /\ IsFiniteSet(Oks')
  <2> DEFINE k == Cardinality(Oks)
             l == Cardinality(Oks')
  <2>1. k \in Nat /\ IsFiniteSet(Oks') /\ l = k + 1 /\ rivals \in Nat
    BY <1>6, FS_AddElement, FS_CardinalityType DEF Smooth, Undisturbed, Counts
  <2> HIDE DEF k, l
  <2>2. rivals' + l = rivals + k + 1 /\ rivals + k \in Nat
    BY <1>1, <2>1
  <2>3. Changes = rivals + k /\ Changes' = rivals' + l
    BY DEF Changes, k, l
  <2> QED BY <2>1, <2>2, <2>3
<1> HIDE DEF name, x
<1>8. FreesBut(x)
  BY <1>1, <1>2, <1>3 DEF FreesBut, Bindable
<1>9. Counts'
  BY <1>1, <1>2, <1>7, <1>8, BusyStep DEF Smooth, Undisturbed, Counts
<1>10. Tidy'
  BY <1>1, <1>2, <1>3, NodeRestoreConstants DEF Smooth, Undisturbed, Tidy, NoOne, Leftover
<1>11. Weathers
  BY <1>1, <1>7 DEF Weathers
<1>12. Alone(q) => Fits(q)'
  BY <1>1, <1>4 DEF Smooth, Undisturbed, Fits
<1> QED BY <1>1, <1>3, <1>4, <1>9, <1>10, <1>11, <1>12, OneMoves DEF name

LEMMA HostFits ==
  ASSUME Smooth, Preflight \/ OthersAct \/ PortFreed PROVE Undisturbed'
<1>1. snap' = snap /\ task' = task /\ status' = status /\ images' = images
  BY DEF Preflight, OthersAct, PortFreed, hostVars
<1>2. box' = box
  BY NoMishap DEF Preflight, OthersAct, PortFreed, hostVars
<1>3. Oks' = Oks
  BY <1>1 DEF Oks
<1>4. Counts /\ Changes \in Nat
  BY ChangesCount DEF Smooth, Undisturbed
<1>5. Counts' /\ Weathers
  <2>1. CASE Preflight \/ PortFreed
    <3>1. rivals' = rivals /\ network' = network /\ taken' \subseteq taken
      BY <2>1 DEF Preflight, PortFreed, hostVars
    <3>2. Frees /\ Changes' = Changes
      BY <1>1, <1>2, <1>3, <3>1 DEF Frees, Bindable, Changes
    <3> QED BY <1>3, <1>4, <3>1, <3>2, BusyStep DEF Weathers, Counts
  <2>2. CASE OthersAct
    <3>1. rivals' = rivals + 1
      BY <2>2, NoMishap DEF OthersAct, Rival
    <3>2. Changes' = Changes + 1
      <4> DEFINE k == Cardinality(Oks)
      <4>1. k \in Nat /\ rivals \in Nat /\ Changes = rivals + k /\ Changes' = rivals' + k
        BY <1>3, <1>4, FS_CardinalityType DEF Counts, Changes
      <4> HIDE DEF k
      <4> QED BY <3>1, <4>1
    <3>3. CASE \E p \in FreePorts : taken' = taken \union {p} /\ network' = network
      <4>1. PICK p \in FreePorts : taken' = taken \union {p}
        BY <3>3
      <4>2. FreesBut(p) /\ p \in HostPorts \union {0}
        BY <1>1, <1>2, <4>1 DEF FreesBut, Bindable, FreePorts
      <4> QED BY <1>3, <1>4, <3>1, <3>2, <3>3, <4>2, BusyStep DEF Weathers, Counts
    <3>4. CASE taken' = taken
      <4>1. Frees
        BY <1>1, <1>2, <3>4 DEF Frees, Bindable
      <4> QED BY <1>3, <1>4, <3>1, <3>2, <4>1, BusyStep DEF Weathers, Counts
    <3> QED BY <2>2, <3>3, <3>4, NoMishap DEF OthersAct
  <2> QED BY <2>1, <2>2
<1>6. Tidy'
  BY <1>1, <1>2 DEF Smooth, Undisturbed, Tidy
<1>7. ASSUME NEW r \in Restores, Alone(r)' PROVE Fits(r)'
  <2>1. Fits(r) /\ NodeInv
    BY <1>1, <1>7 DEF Alone, Shared, Smooth, Undisturbed
  <2>2. task[r].pc \in {"start", "restart"} => box'[snap[r].name].by = r
    BY <1>2, <2>1 DEF Fits
  <2> QED BY <1>1, <1>5, <2>1, <2>2, Bystander
<1> QED BY <1>5, <1>6, <1>7 DEF Undisturbed

LEMMA AskAgainFits == ASSUME Smooth, NEW q \in Restores, AskAgain(q) PROVE Undisturbed'
<1>1. /\ snap' = snap /\ box' = box /\ taken' = taken /\ network' = network /\ images' = images
      /\ rivals' = rivals + 1 /\ status[q] = "failed"
      /\ task' = [task EXCEPT ![q] = NewTask] /\ status' = [status EXCEPT ![q] = "running"]
  BY DEF AskAgain, Rival, hostVars
<1>2. /\ task'[q] = NewTask /\ status'[q] = "running"
      /\ \A r \in Restores \ {q} : task'[r] = task[r] /\ status'[r] = status[r]
  BY <1>1 DEF Smooth, NodeInv, HostTypes
<1>3. Oks' = Oks
  BY <1>1, <1>2 DEF Oks
<1>4. Frees
  BY <1>1 DEF Frees, Bindable
<1>5. Counts /\ Changes \in Nat /\ Changes' = Changes + 1
  <2> DEFINE k == Cardinality(Oks)
  <2>1. Counts /\ k \in Nat /\ rivals \in Nat /\ Changes = rivals + k /\ Changes' = rivals' + k
    BY <1>3, FS_CardinalityType DEF Smooth, Undisturbed, Counts, Changes
  <2> HIDE DEF k
  <2> QED BY <1>1, <2>1
<1>6. Counts' /\ Weathers
  BY <1>1, <1>3, <1>4, <1>5, BusyStep DEF Weathers, Counts
<1>7. Tidy'
  BY <1>1 DEF Smooth, Undisturbed, Tidy
<1>8. Fits(q)'
  BY <1>2, FreshTask DEF Fits, NewTask
<1> QED BY <1>1, <1>2, <1>6, <1>7, <1>8, OneMoves

LEMMA AbsorbInit == ASSUME ManyPorts, NodeRestoreInit PROVE AbsorbInv
<1>1. NodeInv
  BY NodeInit
<1>2. /\ mishaps = 0 /\ rivals = 0 /\ Oks = {} /\ box = [n \in SnapNames |-> NoBox]
      /\ taken \in SUBSET HostPorts /\ Cardinality(taken) <= 1
      /\ task = [r \in Restores |-> NewTask] /\ status = [r \in Restores |-> "running"]
  BY DEF NodeRestoreInit, Oks
<1>3. Busy = taken
  BY <1>2, EmptyHost DEF Busy, Bindable
<1>4. Counts
  <2>1. Cardinality(Oks) = 0 /\ IsFiniteSet(Oks) /\ Changes = 0
    BY <1>2, FS_EmptySet DEF Changes
  <2>2. IsFiniteSet(taken)
    BY <1>2, FS_Subset DEF ManyPorts
  <2> QED BY <1>2, <1>3, <2>1, <2>2 DEF Counts
<1>5. Tidy
  BY <1>2, EmptyHost DEF Tidy, NoOne, Leftover
<1>6. \A r \in Restores : Fits(r)
  BY <1>2, FreshTask DEF Fits, NewTask
<1> QED BY <1>1, <1>2, <1>4, <1>5, <1>6 DEF AbsorbInv, Undisturbed

LEMMA AbsorbStep ==
  ASSUME ManyPorts, AbsorbInv, NodeInv', [NodeRestoreNext]_nrVars
  PROVE  AbsorbInv'
<1>1. mishaps' \in Nat /\ (mishaps' = 0 => mishaps = 0)
  <2>1. mishaps' = mishaps \/ mishaps' = mishaps + 1
    BY DEF NodeRestoreNext, RestoreSteps, nrVars, Mishap, Quiet, Preflight, OthersAct, PortFreed,
        AgentDies, AskAgain, Extract, Probe, EnsureNetworks, Create, PullImage, CreateWithoutNetwork,
        Start, StartNetworkMissing, StartPortTaken, CreateAgain, StartFails
  <2> QED BY <2>1 DEF AbsorbInv
<1>2. ASSUME mishaps' = 0 PROVE Undisturbed'
  <2>1. Smooth
    BY <1>1, <1>2 DEF AbsorbInv, Smooth
  <2>2. ASSUME NEW q \in Restores, RestoreSteps(q) PROVE Undisturbed'
    BY <2>1, <2>2, NoMishap, ExtractFits, ProbeFits, EnsureNetworksFits, CreateFits, PullImageFits,
       StartFits, StartNetworkMissingFits, StartPortTakenFits, CreateAgainFits, StartFailsFits
       DEF RestoreSteps, CreateWithoutNetwork
  <2>3. CASE UNCHANGED nrVars
    <3>1. Undisturbed
      BY <2>1 DEF Smooth
    <3> QED BY <2>3, <3>1 DEF nrVars, Undisturbed, Counts, Tidy, Alone, Shared, Fits, Oks, Busy,
                              Changes, Unfit, Cut, Bindable
  <2>4. ~AgentDies
    BY <2>1, NoMishap DEF AgentDies
  <2> QED BY <2>1, <2>2, <2>3, <2>4, HostFits, AskAgainFits DEF NodeRestoreNext
<1> QED BY <1>1, <1>2 DEF AbsorbInv

(* recreateContainer remaps a port before it creates and once more when    *)
(* docker rejects it, and falls back to bridge: a restore that may pull    *)
(* its image and shares its name with no other is failed by two changes at *)
(* least, each a port or network another took, a repeated request or a     *)
(* restore that took a port, unless docker, a disk or a download failed.   *)
(* The host has three ports or more, of which at most one was in use.      *)
THEOREM OneChangeIsAbsorbed ==
  ASSUME ManyPorts
  PROVE  NodeRestoreSpec => []OneRivalAbsorbed
<1>1. NodeRestoreInit => AbsorbInv
  BY AbsorbInit
<1>2. AbsorbInv /\ [NodeRestoreNext]_nrVars => AbsorbInv'
  BY NodeInvStep, AbsorbStep DEF AbsorbInv
<1>3. AbsorbInv => OneRivalAbsorbed
  <2> SUFFICES ASSUME AbsorbInv, NEW r \in Restores, status[r] = "failed", mishaps = 0,
                      ~Shared(r), snap[r].pull
               PROVE  rivals + Cardinality({q \in Restores \ {r} : status[q] = "ok"}) >= 2
    BY DEF OneRivalAbsorbed
  <2>1. Changes >= 2
    BY DEF AbsorbInv, Undisturbed, Alone, Fits
  <2>2. Oks = {q \in Restores \ {r} : status[q] = "ok"}
    BY DEF Oks
  <2> QED BY <2>1, <2>2 DEF Changes
<1> QED BY <1>1, <1>2, <1>3, PTL DEF NodeRestoreSpec
=============================================================================
