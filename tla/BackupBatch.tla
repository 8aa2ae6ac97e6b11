---------------------------- MODULE BackupBatch ----------------------------
(***************************************************************************)
(* Scheduled backups (master/internal/scheduler): a fire of a schedule     *)
(* spawns a batch goroutine that runs its units one after the other,       *)
(* retries those whose node was away until a window has elapsed, and       *)
(* queues its section of the combined report.  The report goes out from a  *)
(* debounce timer once no batch is in flight.                              *)
(*                                                                         *)
(* A unit's run is what the scheduler sees of RunBackupSync and            *)
(* RunResticContainerBackupSync: the Online check, the Send, the wait, and *)
(* which error each turns into.  A timer is named by the batch that armed  *)
(* it; one that has fired is a goroutine waiting for reportMu.             *)
(***************************************************************************)
EXTENDS Integers, FiniteSets

CONSTANTS Batches,   \* fires of schedules
          Units,     \* (node, container) pairs, one per run of a batch
          UnitsOf,   \* [Batches -> SUBSET Units], disjoint
          Nodes, NodeOf,
          Restic,    \* incremental units (RunResticContainerBackupSync)
          Direct,    \* archive units with a direct S3 attempt first
          NoUnit, NoBatch,
          MaxDrops   \* bound: connections lost

ASSUME BatchConstants ==
    /\ IsFiniteSet(Batches)
    /\ UnitsOf \in [Batches -> SUBSET Units]
    /\ \A a, b \in Batches : a # b => UnitsOf[a] \intersect UnitsOf[b] = {}
    /\ NodeOf \in [Units -> Nodes]
    /\ Restic \subseteq Units /\ Direct \subseteq Units \ Restic
    /\ NoUnit \notin Units /\ NoBatch \notin Batches
    /\ MaxDrops \in Nat

VARIABLES
    pc,       \* program counter of runBackupBatch
    todo,     \* the units the current pass has not come to
    cur,      \* the unit being run
    run,      \* where that run is
    direct,   \* units whose direct attempt is still ahead or under way
    err,      \* errs[i]
    cause,    \* did the unit's last failure come from its connection?
    late,     \* the batch's offlineRetryWindow has elapsed
    online,   \* Hub.Online
    cut,      \* units whose channel a disconnect has closed
    drops,
    inFlight, \* backupInFlight
    pending,  \* reportPending
    timer,    \* the timer a batch armed
    handle,   \* reportTimer
    sent,     \* the reports pushed: sets of sections
    newest    \* the batch that queued its section last

vars == <<pc, todo, cur, run, direct, err, cause, late, online, cut, drops,
          inFlight, pending, timer, handle, sent, newest>>
unitVars == <<cur, run, direct, err, cause>>
linkVars == <<online, cut, drops>>
reportVars == <<inFlight, pending, timer, handle, sent, newest>>

TypeOK ==
    /\ pc \in [Batches -> {"idle", "spawned", "first", "retry", "sleeping",
                           "ended", "marked", "queued"}]
    /\ todo \in [Batches -> SUBSET Units]
    /\ cur \in [Batches -> Units \union {NoUnit}]
    /\ run \in [Units -> {"idle", "checked", "sent"}]
    /\ direct \subseteq Direct
    /\ err \in [Units -> {"unset", "nil", "offline", "disconnected", "other"}]
    /\ cause \in [Units -> BOOLEAN]
    /\ late \in [Batches -> BOOLEAN]
    /\ online \in [Nodes -> BOOLEAN]
    /\ cut \subseteq Units
    /\ drops \in 0..MaxDrops
    /\ inFlight \in 0..Cardinality(Batches)
    /\ pending \subseteq Batches
    /\ timer \in [Batches -> {"none", "armed", "stopped", "fired", "done"}]
    /\ handle \in Batches \union {NoBatch}
    /\ sent \subseteq SUBSET Batches
    /\ newest \in Batches \union {NoBatch}

Init ==
    /\ pc = [b \in Batches |-> "idle"]
    /\ todo = [b \in Batches |-> {}]
    /\ cur = [b \in Batches |-> NoUnit]
    /\ run = [u \in Units |-> "idle"]
    /\ direct = Direct
    /\ err = [u \in Units |-> "unset"]
    /\ cause = [u \in Units |-> FALSE]
    /\ late = [b \in Batches |-> FALSE]
    /\ online \in [Nodes -> BOOLEAN]
    /\ cut = {} /\ drops = 0
    /\ inFlight = 0
    /\ pending = {}
    /\ timer = [b \in Batches |-> "none"]
    /\ handle = NoBatch
    /\ sent = {}
    /\ newest = NoBatch

-----------------------------------------------------------------------------
(* Faulty variants of the actions below, each a bug the code could have.   *)
(* No specification uses them: they show that the properties notice.       *)

\* The batch is not counted when it starts.
trackBackupStartUncounted(b) ==
    /\ pc[b] = "spawned"
    /\ pc' = [pc EXCEPT ![b] = "first"]
    /\ todo' = [todo EXCEPT ![b] = UnitsOf[b]]
    /\ UNCHANGED <<unitVars, late, linkVars, reportVars>>

\* One retry pass and no loop around it.
PassEndsOnce(b) ==
    /\ pc[b] \in {"first", "retry"} /\ todo[b] = {} /\ cur[b] = NoUnit
    /\ pc' = [pc EXCEPT ![b] = IF @ = "first" THEN "retry" ELSE "ended"]
    /\ todo' = [todo EXCEPT ![b] = IF pc[b] = "first" THEN UnitsOf[b] ELSE {}]
    /\ UNCHANGED <<unitVars, late, linkVars, reportVars>>

\* The timer is only armed when reportTimer is nil: one that fired while
\* another batch was running, and did nothing, is never replaced.
queueBackupReportArmsOnce(b) ==
    /\ pc[b] = "marked"
    /\ pc' = [pc EXCEPT ![b] = "queued"]
    /\ inFlight' = inFlight - 1
    /\ pending' = pending \union {b}
    /\ newest' = b
    /\ \/ /\ inFlight' > 0 \/ handle # NoBatch
          /\ UNCHANGED <<timer, handle>>
       \/ /\ inFlight' <= 0 /\ handle = NoBatch
          /\ timer' = [timer EXCEPT ![b] = "armed"]
          /\ handle' = b
    /\ UNCHANGED <<todo, unitVars, late, linkVars, sent>>

\* The flush does not look at the batches in flight.
flushBackupReportsBusy(b) ==
    /\ timer[b] = "fired"
    /\ timer' = [timer EXCEPT ![b] = "done"]
    /\ sent' = IF pending = {} THEN sent ELSE sent \union {pending}
    /\ pending' = {}
    /\ handle' = NoBatch
    /\ UNCHANGED <<pc, todo, unitVars, late, linkVars, inFlight, newest>>

-----------------------------------------------------------------------------
(* The batch.                                                              *)

retryable(e) == e \in {"offline", "disconnected"}
InProgress(b) == pc[b] \in {"first", "retry"}
\* trackBackupStart has run and queueBackupReport has not.
Tracked(b) == pc[b] \in {"first", "retry", "sleeping", "ended", "marked"}

\* cron calls runBackup, which only starts the goroutine.
runBackup(b) ==
    /\ pc[b] = "idle"
    /\ pc' = [pc EXCEPT ![b] = "spawned"]
    /\ UNCHANGED <<todo, unitVars, late, linkVars, reportVars>>

trackBackupStart(b) ==
    /\ pc[b] = "spawned"
    /\ pc' = [pc EXCEPT ![b] = "first"]
    /\ todo' = [todo EXCEPT ![b] = UnitsOf[b]]
    /\ inFlight' = inFlight + 1
    /\ UNCHANGED <<unitVars, late, linkVars, pending, timer, handle, sent, newest>>

\* The next unit of the pass: the first pass runs all, a retry pass those with
\* a retryable error whose node is back.  run begins with its Online check.
TakeUnit(b, u) ==
    /\ InProgress(b) /\ cur[b] = NoUnit /\ u \in todo[b]
    /\ todo' = [todo EXCEPT ![b] = @ \ {u}]
    /\ \/ /\ pc[b] = "first" \/ retryable(err[u])
          /\ online[NodeOf[u]]
          /\ cur' = [cur EXCEPT ![b] = u]
          /\ run' = [run EXCEPT ![u] = "checked"]
          /\ direct' = direct \union ({u} \intersect Direct)
          /\ UNCHANGED <<err, cause>>
       \/ /\ pc[b] = "first" /\ ~online[NodeOf[u]]
          /\ err' = [err EXCEPT ![u] = "offline"]
          /\ cause' = [cause EXCEPT ![u] = TRUE]
          /\ UNCHANGED <<cur, run, direct>>
       \/ /\ pc[b] = "retry" /\ ~(retryable(err[u]) /\ online[NodeOf[u]])
          /\ UNCHANGED unitVars
    /\ UNCHANGED <<pc, late, linkVars, reportVars>>

\* The run of u is over with error e, caused by the connection or not.
Settle(b, u, e, c) ==
    /\ cur' = [cur EXCEPT ![b] = NoUnit]
    /\ run' = [run EXCEPT ![u] = "idle"]
    /\ err' = [err EXCEPT ![u] = e]
    /\ cause' = [cause EXCEPT ![u] = c]
    /\ UNCHANGED direct

\* Between the two attempts of a direct unit nothing is checked again.
FallBack(u) ==
    /\ u \in direct
    /\ direct' = direct \ {u}
    /\ run' = [run EXCEPT ![u] = "checked"]
    /\ UNCHANGED <<cur, err, cause>>

\* Hub.Send.  A restic run turns ErrOffline into ErrNodeOffline, an archive
\* run wraps it ("node unreachable: %w").
UnitSend(b, u) ==
    /\ cur[b] = u /\ run[u] = "checked"
    /\ \/ /\ online[NodeOf[u]]
          /\ run' = [run EXCEPT ![u] = "sent"]
          /\ cut' = cut \ {u}
          /\ UNCHANGED <<cur, direct, err, cause>>
       \/ /\ ~online[NodeOf[u]]
          /\ \/ FallBack(u)
             \/ /\ u \notin direct
                /\ Settle(b, u, IF u \in Restic THEN "offline" ELSE "other", TRUE)
          /\ UNCHANGED cut
    /\ UNCHANGED <<pc, todo, late, online, drops, reportVars>>

\* The channel was closed by the disconnect.
UnitCut(b, u) ==
    /\ cur[b] = u /\ run[u] = "sent" /\ u \in cut
    /\ FallBack(u) \/ (u \notin direct /\ Settle(b, u, "disconnected", TRUE))
    /\ UNCHANGED <<pc, todo, late, linkVars, reportVars>>

\* The agent answers, or its answer never comes and the timer fires.
UnitEnds(b, u, ok) ==
    /\ cur[b] = u /\ run[u] = "sent"
    /\ \/ ok /\ u \notin cut /\ Settle(b, u, "nil", FALSE)
       \/ ~ok /\ FallBack(u)
       \/ ~ok /\ u \notin direct /\ Settle(b, u, "other", FALSE)
    /\ UNCHANGED <<pc, todo, late, linkVars, reportVars>>

\* The loop of retryOfflineUnits: its condition, a pass, the pending check.
PassEnds(b) ==
    /\ InProgress(b) /\ todo[b] = {} /\ cur[b] = NoUnit
    /\ \/ /\ pc[b] = "first"
          /\ pc' = [pc EXCEPT ![b] = "retry"]
          /\ todo' = [todo EXCEPT ![b] = UnitsOf[b]]
       \/ /\ pc[b] = "retry"
          /\ pc' = [pc EXCEPT ![b] = IF \E u \in UnitsOf[b] : retryable(err[u])
                                     THEN "sleeping" ELSE "ended"]
          /\ UNCHANGED todo
    /\ UNCHANGED <<unitVars, late, linkVars, reportVars>>

WakeUp(b) ==
    /\ pc[b] = "sleeping"
    /\ pc' = [pc EXCEPT ![b] = IF late[b] THEN "ended" ELSE "retry"]
    /\ todo' = [todo EXCEPT ![b] = IF late[b] THEN {} ELSE UnitsOf[b]]
    /\ UNCHANGED <<unitVars, late, linkVars, reportVars>>

WindowElapses(b) ==
    /\ pc[b] \in {"retry", "sleeping"} /\ ~late[b]
    /\ late' = [late EXCEPT ![b] = TRUE]
    /\ UNCHANGED <<pc, todo, unitVars, linkVars, reportVars>>

MarkScheduleRun(b) ==
    /\ pc[b] = "ended"
    /\ pc' = [pc EXCEPT ![b] = "marked"]
    /\ UNCHANGED <<todo, unitVars, late, linkVars, reportVars>>

-----------------------------------------------------------------------------
(* The combined report.                                                    *)

\* Timer.Stop has no effect on a timer that has fired.
queueBackupReport(b) ==
    /\ pc[b] = "marked"
    /\ pc' = [pc EXCEPT ![b] = "queued"]
    /\ inFlight' = inFlight - 1
    /\ pending' = pending \union {b}
    /\ newest' = b
    /\ \/ /\ inFlight' > 0
          /\ UNCHANGED <<timer, handle>>
       \/ /\ inFlight' <= 0
          /\ timer' = [x \in Batches |->
               CASE x = b -> "armed"
                 [] x = handle /\ timer[x] = "armed" -> "stopped"
                 [] OTHER -> timer[x]]
          /\ handle' = b
    /\ UNCHANGED <<todo, unitVars, late, linkVars, sent>>

TimerFires(b) ==
    /\ timer[b] = "armed"
    /\ timer' = [timer EXCEPT ![b] = "fired"]
    /\ UNCHANGED <<pc, todo, unitVars, late, linkVars, inFlight, pending,
                   handle, sent, newest>>

\* Takes whatever is pending and forgets whatever timer reportTimer names.
flushBackupReports(b) ==
    /\ timer[b] = "fired"
    /\ timer' = [timer EXCEPT ![b] = "done"]
    /\ \/ /\ inFlight > 0 \/ pending = {}
          /\ UNCHANGED <<pending, handle, sent>>
       \/ /\ inFlight = 0 /\ pending # {}
          /\ sent' = sent \union {pending}
          /\ pending' = {}
          /\ handle' = NoBatch
    /\ UNCHANGED <<pc, todo, unitVars, late, linkVars, inFlight, newest>>

-----------------------------------------------------------------------------
(* The connections of the nodes.                                           *)

NodeDrops(n) ==
    /\ online[n] /\ drops < MaxDrops
    /\ online' = [online EXCEPT ![n] = FALSE]
    /\ cut' = cut \union {u \in Units : NodeOf[u] = n /\ run[u] = "sent"}
    /\ drops' = drops + 1
    /\ UNCHANGED <<pc, todo, unitVars, late, reportVars>>

NodeReturns(n) ==
    /\ ~online[n]
    /\ online' = [online EXCEPT ![n] = TRUE]
    /\ UNCHANGED <<pc, todo, unitVars, late, cut, drops, reportVars>>

UnitSteps(b, u) == \/ TakeUnit(b, u) \/ UnitSend(b, u) \/ UnitCut(b, u)
                   \/ \E ok \in BOOLEAN : UnitEnds(b, u, ok)
BatchSteps(b) == \/ trackBackupStart(b) \/ PassEnds(b) \/ WakeUp(b)
                 \/ MarkScheduleRun(b) \/ queueBackupReport(b)
                 \/ \E u \in UnitsOf[b] : UnitSteps(b, u)

Next ==
    \/ \E b \in Batches : \/ runBackup(b) \/ BatchSteps(b) \/ WindowElapses(b)
                          \/ TimerFires(b) \/ flushBackupReports(b)
    \/ \E n \in Nodes : NodeDrops(n) \/ NodeReturns(n)

Spec == Init /\ [][Next]_vars

\* Goroutines run, the agent's answer or the timer of the wait ends every
\* attempt, the window elapses, timers fire.
Fairness == \A b \in Batches : /\ WF_vars(BatchSteps(b))
                                   /\ WF_vars(WindowElapses(b))
                                   /\ WF_vars(TimerFires(b))
                                   /\ WF_vars(flushBackupReports(b))

LiveSpec == Spec /\ Fairness

-----------------------------------------------------------------------------
(* Properties.                                                             *)

\* Every section that was queued is in exactly one place: waiting for the next
\* report, or in the single report that carried it.
SectionsExactlyOnce ==
    \A b \in Batches :
        LET reports == Cardinality({r \in sent : b \in r})
        IN  IF b \in pending THEN pc[b] = "queued" /\ reports = 0
            ELSE reports = IF pc[b] = "queued" THEN 1 ELSE 0

\* Both, for every step of every batch: the counter of batches in flight and the
\* timers stay in their ranges while sections move from batch to report.
BatchInv == TypeOK /\ SectionsExactlyOnce

\* No report goes out while a batch that has been counted is still running.
QuietWhenReporting ==
    [][\A b \in Batches : flushBackupReports(b) /\ sent' # sent
         => \A a \in Batches : ~Tracked(a)]_vars

\* A unit that has been backed up is not run again by the retry loop.
SucceededNotRerun ==
    [][\A u \in Units : err[u] = "nil" => run'[u] = "idle" /\ err'[u] = "nil"]_vars

\* What no step of a batch or of a report timer may do.
BatchStepsSound == QuietWhenReporting /\ SucceededNotRerun

\* A batch gives up on a node that was away only when the window has elapsed.
RetriedUntilLate ==
    \A b \in Batches : \A u \in UnitsOf[b] :
        pc[b] \in {"ended", "marked", "queued"} /\ retryable(err[u]) => late[b]

\* Every fire of a schedule ends up in a report.
EveryBatchReported ==
    \A b \in Batches : pc[b] = "spawned" ~> \E r \in sent : b \in r

(* scheduler.go:280-283 and service.go:107-109: a unit whose node dropped  *)
(* around the fire or during the backup is transient and is retried once   *)
(* the node reconnects, until the window elapses.                          *)
DropsAreRetried ==
    \A b \in Batches : \A u \in UnitsOf[b] :
        pc[b] \in {"ended", "marked", "queued"} /\ cause[u] => late[b]

(* scheduler.go:226-229: the report only goes out when nothing has run for *)
(* reportFlushDelay: the timer that sends it was armed by the last section.*)
ReportIsDebounced ==
    [][\A b \in Batches : flushBackupReports(b) /\ sent' # sent => b = newest]_vars
=============================================================================
