----------------------------- MODULE HealthAlert -----------------------------
(***************************************************************************)
(* The health panel of one node (master/internal/health, store/health.go): *)
(* Netdata is installed and removed by administrators, a poller fetches    *)
(* its charts, keeps a sample and evaluates an alert rule.                 *)
(*                                                                         *)
(* A rule is read before the fetches of a poll and written after them.  A  *)
(* metric is 0 or High, and 0 also when its chart could not be fetched.    *)
(* Times are ages: since is how long ago breach_since is, at most Window.  *)
(***************************************************************************)
EXTENDS Naturals

CONSTANTS
    Window,         \* window_sec, in ticks of the clock
    MaxChanges,     \* bound: requests of administrators
    MaxTrouble      \* bound: charts not fetched, restarts, disconnections

ASSUME HealthConstants == Window \in Nat \ {0} /\ MaxChanges \in Nat /\ MaxTrouble \in Nat

VARIABLES
    hnode,      \* row of health_nodes, and whether Netdata runs on the host
    rule,       \* row of health_alerts; id 0 if there is none
    metric,     \* what the node's metric is
    poll,       \* the poller
    sampled,    \* the metric cache has a sample of the node
    request,    \* the install or uninstall under way
    alerts,     \* announcements of the rule since it was last evaluated as calm
    lastId, changes, trouble

hVars == <<hnode, rule, metric, poll, sampled, request, alerts, lastId, changes, trouble>>

High == 2
Thresholds == {1, High}
NotBreaching == Window + 1
NoRule == [id |-> 0, on |-> FALSE, threshold |-> 1, since |-> NotBreaching, told |-> FALSE]
NewRule(id) == [NoRule EXCEPT !.id = id, !.on = TRUE]
IdlePoll == [pc |-> "idle", rule |-> NoRule, value |-> 0]

HealthInit ==
    /\ hnode = [enabled |-> FALSE, installed |-> FALSE, netdata |-> FALSE]
    /\ rule = NoRule
    /\ metric = 0
    /\ poll = IdlePoll
    /\ sampled = FALSE
    /\ request = "none"
    /\ alerts = 0 /\ lastId = 0 /\ changes = 0 /\ trouble = 0

Changes == changes < MaxChanges /\ changes' = changes + 1
Troubled == trouble < MaxTrouble /\ trouble' = trouble + 1
Calmly == trouble' = trouble

-----------------------------------------------------------------------------
(* Faulty variants of definitions below, each a bug the code could have.   *)

\* The announcement is sent and its time not stored.
EvaluateForgets ==
    /\ poll.pc = "evaluate"
    /\ LET r == poll.rule
           breaching == poll.value > r.threshold
           mine == r.id # 0 /\ r.id = rule.id IN
        /\ poll' = IdlePoll
        /\ alerts' = IF mine /\ breaching /\ r.since = Window THEN alerts + 1
                   ELSE IF mine /\ ~breaching THEN 0 ELSE alerts
        /\ rule' = IF mine /\ breaching /\ r.since = NotBreaching THEN [rule EXCEPT !.since = 0, !.told = FALSE]
                   ELSE IF mine /\ ~breaching THEN [rule EXCEPT !.since = NotBreaching] ELSE rule
    /\ sampled' = TRUE
    /\ UNCHANGED <<hnode, metric, request, lastId, changes, trouble>>

\* The first breach counts as announced.
BreachTold == [rule EXCEPT !.since = 0, !.told = TRUE]

-----------------------------------------------------------------------------
(* The node and the clock.                                                 *)

Aged(r) == IF r.since < Window THEN [r EXCEPT !.since = @ + 1] ELSE r

HealthTick ==
    /\ rule.since < Window
    /\ rule' = Aged(rule)
    /\ poll' = [poll EXCEPT !.rule = Aged(@)]
    /\ UNCHANGED <<hnode, metric, sampled, request, alerts, lastId, changes, trouble>>

MetricMoves ==
    /\ metric' \in {0, High} \ {metric}
    /\ UNCHANGED <<hnode, rule, poll, sampled, request, alerts, lastId, changes, trouble>>

\* The panel restarts: its poll and its cache are gone, the rules are not.
HealthRestarts ==
    /\ Troubled
    /\ poll' = IdlePoll /\ sampled' = FALSE /\ request' = "none"
    /\ UNCHANGED <<hnode, rule, metric, alerts, lastId, changes>>

-----------------------------------------------------------------------------
(* Administrators.                                                         *)

\* installOne: the script runs, and the node is probed until Netdata answers.
InstallBegins ==
    /\ request = "none" /\ Changes
    /\ request' = "installing"
    /\ UNCHANGED <<hnode, rule, metric, poll, sampled, alerts, lastId, trouble>>

\* The script runs and Netdata answers, or either fails.
InstallRuns ==
    /\ request = "installing"
    /\ \/ request' = "installed" /\ hnode' = [hnode EXCEPT !.netdata = TRUE] /\ Calmly
       \/ request' = "none" /\ hnode' \in {hnode, [hnode EXCEPT !.netdata = TRUE]} /\ Troubled
    /\ UNCHANGED <<rule, metric, poll, sampled, alerts, lastId, changes>>

\* EnableHealthNode, and SeedDefaultAlerts if the node has no rule.
InstallEnds ==
    /\ request = "installed"
    /\ request' = "none"
    /\ hnode' = [hnode EXCEPT !.enabled = TRUE, !.installed = TRUE]
    /\ IF rule.id = 0
       THEN rule' = NewRule(lastId + 1) /\ lastId' = lastId + 1 /\ alerts' = 0
       ELSE UNCHANGED <<rule, lastId, alerts>>
    /\ UNCHANGED <<metric, poll, sampled, changes, trouble>>

UninstallBegins ==
    /\ request = "none" /\ Changes
    /\ request' = "removing"
    /\ UNCHANGED <<hnode, rule, metric, poll, sampled, alerts, lastId, trouble>>

\* uninstallOne asks for an exit 0, and ExecSync reports one when the connection is
\* lost while the script runs.
UninstallRuns ==
    /\ request = "removing"
    /\ \/ request' = "removed" /\ hnode' = [hnode EXCEPT !.netdata = FALSE] /\ Calmly
       \/ request' \in {"removed", "none"} /\ hnode' \in {hnode, [hnode EXCEPT !.netdata = FALSE]}
          /\ Troubled
    /\ UNCHANGED <<rule, metric, poll, sampled, alerts, lastId, changes>>

\* UninstallHealthNode and cache.Delete; the rules are kept.
UninstallEnds ==
    /\ request = "removed"
    /\ request' = "none"
    /\ hnode' = [hnode EXCEPT !.enabled = FALSE, !.installed = FALSE]
    /\ sampled' = FALSE
    /\ UNCHANGED <<rule, metric, poll, alerts, lastId, changes, trouble>>

\* PutHealthAlert: an edit keeps what the poller wrote.
Edited(r, on, threshold) == [r EXCEPT !.on = on, !.threshold = threshold]

PutAlert ==
    /\ Changes
    /\ \E on \in BOOLEAN, threshold \in Thresholds :
        IF rule.id # 0
        THEN /\ rule' = Edited(rule, on, threshold)
             /\ UNCHANGED <<lastId, alerts>>
        ELSE /\ rule' = Edited(NewRule(lastId + 1), on, threshold)
             /\ lastId' = lastId + 1 /\ alerts' = 0
    /\ UNCHANGED <<hnode, metric, poll, sampled, request, trouble>>

\* DeleteAlert, or ResetTemplate on an installed node.
ReplaceAlerts ==
    /\ rule.id # 0 /\ Changes
    /\ \/ rule' = NoRule /\ UNCHANGED lastId
       \/ hnode.installed /\ rule' = NewRule(lastId + 1) /\ lastId' = lastId + 1
    /\ alerts' = 0
    /\ UNCHANGED <<hnode, metric, poll, sampled, request, trouble>>

-----------------------------------------------------------------------------
(* pollOnce.                                                               *)

\* Nodes and enabled rules are read.
PollBegins ==
    /\ poll.pc = "idle" /\ hnode.enabled
    /\ poll' = [pc |-> "fetch", rule |-> IF rule.on THEN rule ELSE NoRule, value |-> 0]
    /\ UNCHANGED <<hnode, rule, metric, sampled, request, alerts, lastId, changes, trouble>>

\* fetchSample: all charts, some of them, or nothing, which ends the poll.
Fetch ==
    /\ poll.pc = "fetch"
    /\ \/ /\ hnode.netdata
          /\ poll' = [poll EXCEPT !.pc = "evaluate", !.value = metric] /\ Calmly
       \/ /\ hnode.netdata /\ Troubled
          /\ poll' = [poll EXCEPT !.pc = "evaluate", !.value = 0]
       \/ /\ IF hnode.netdata THEN Troubled ELSE Calmly
          /\ poll' = IdlePoll
    /\ UNCHANGED <<hnode, rule, metric, sampled, request, alerts, lastId, changes>>

\* TouchHealthAlertState finds the rule by its id: nothing if it is gone.
Touch(r, touched) == IF r.id = rule.id THEN touched ELSE rule

\* The first breach begins the window.
Breach == [rule EXCEPT !.since = 0, !.told = FALSE]

\* The sample is kept.  A calm one clears the window; what holds for longer and was
\* not announced since it began is announced, and then stored.
Evaluate ==
    LET r == poll.rule
        mine == r.id # 0 /\ r.id = rule.id
        breaching == poll.value > r.threshold IN
    /\ poll.pc = "evaluate"
    /\ CASE r.id # 0 /\ breaching /\ r.since = NotBreaching ->
                rule' = Touch(r, Breach) /\ poll' = IdlePoll /\ alerts' = alerts
         [] breaching /\ r.since = Window /\ ~r.told ->
                rule' = rule /\ poll' = [poll EXCEPT !.pc = "announced"]
                /\ alerts' = IF mine THEN alerts + 1 ELSE alerts
         [] ~breaching ->
                rule' = Touch(r, [rule EXCEPT !.since = NotBreaching])
                /\ poll' = IdlePoll /\ alerts' = IF mine THEN 0 ELSE alerts
         [] OTHER -> rule' = rule /\ poll' = IdlePoll /\ alerts' = alerts
    /\ sampled' = TRUE
    /\ UNCHANGED <<hnode, metric, request, lastId, changes, trouble>>

StoreAnnounced ==
    /\ poll.pc = "announced"
    /\ rule' = Touch(poll.rule, [rule EXCEPT !.since = poll.rule.since, !.told = TRUE])
    /\ poll' = IdlePoll
    /\ UNCHANGED <<hnode, metric, sampled, request, alerts, lastId, changes, trouble>>

PollSteps == PollBegins \/ Fetch \/ Evaluate \/ StoreAnnounced
RequestSteps == InstallRuns \/ InstallEnds \/ UninstallRuns \/ UninstallEnds

HealthNext ==
    \/ HealthTick \/ MetricMoves \/ HealthRestarts
    \/ InstallBegins \/ UninstallBegins \/ RequestSteps \/ PutAlert \/ ReplaceAlerts
    \/ PollSteps

HealthSpec == HealthInit /\ [][HealthNext]_hVars

\* The poller's loop, the timeouts of the installation, the clock.
HealthFairness ==
    WF_hVars(PollSteps) /\ WF_hVars(RequestSteps) /\ WF_hVars(HealthTick)

HealthLiveSpec == HealthSpec /\ HealthFairness

-----------------------------------------------------------------------------
(* Properties.                                                             *)

\* "once per outage (announce-once, re-arm on recovery)": between two samples that
\* are evaluated as calm a rule is announced once, and once more for each restart
\* that falls between the message and the row.
AnnouncedOnce == alerts <= 1 + trouble

\* A breach that lasts, of an enabled rule on a watched node that answers, is
\* announced, whatever was edited, reinstalled or restarted before.
Breached == rule.on /\ metric > rule.threshold /\ hnode.enabled /\ hnode.netdata
BreachAnnounced == <>[]Breached => <>[](alerts > 0)

\* "drop stale metrics so the card clears immediately" (health/service.go): a node
\* without Netdata shows no sample.
CardCleared == [](sampled => hnode.enabled \/ request # "none")

\* "Only a node whose uninstall script exits 0 is marked uninstalled", "so the UI
\* never claims a node is clean while Netdata still runs" (health/service.go).
UninstalledIsClean == [][UninstallEnds => ~hnode.netdata]_hVars
=============================================================================
