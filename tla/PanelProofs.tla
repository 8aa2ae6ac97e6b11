---------------------------- MODULE PanelProofs -----------------------------
(* What runs by itself in the master: a container that lives stays a       *)
(* target of its schedule, the health poller announces a breach once, the  *)
(* container alarm an outage once, and the browser hub keeps its table,    *)
(* its channels and its buffers in step, for every set of containers,      *)
(* nodes and browsers, every window and any number of requests, failures   *)
(* and restarts.                                                           *)
EXTENDS MCPanel, FiniteSetTheorems, TLAPS

-----------------------------------------------------------------------------
(* The schedule of container updates.                                      *)

Rows == [on : BOOLEAN, targets : SUBSET Names, deleted : BOOLEAN]
UpdJobs == [pc : {"none", "scan"}, row : Rows, left : SUBSET UpdNodes,
            removed : SUBSET Names, relinked : SUBSET Names]

UpdTypes ==
    /\ row \in Rows /\ entry \in Rows
    /\ updJob \in UpdJobs
    /\ live \in [UpdNodes -> SUBSET Names]

\* No two containers of a node are the same under two names.
OneName ==
    \A n \in UpdNodes : \A t, u \in live[n] :
        t.node = n /\ (t.base = u.base => t = u)

(* What a run is going to remove is gone, and stays gone.                  *)
RemovedAreGone == \A t \in updJob.removed : ~Alive(t)

UpdInv == UpdTypes /\ OneName /\ RemovedAreGone

LEMMA RowFacts ==
  /\ Absent \in Rows
  /\ \A on \in BOOLEAN, targets \in SUBSET Names : Row(on, targets) \in Rows
  BY DEF Absent, Row, Rows

LEMMA UpdInitially == UpdInit => UpdInv
<1> SUFFICES ASSUME UpdInit PROVE UpdInv
  OBVIOUS
<1>1. live = [n \in UpdNodes |-> {[node |-> n, base |-> b, sep |-> "_"] : b \in Bases}]
  BY DEF UpdInit
<1> DEFINE first(n) == {[node |-> n, base |-> b, sep |-> "_"] : b \in Bases}
<1>2. \A n \in UpdNodes : first(n) \subseteq Names
  <2> SUFFICES ASSUME NEW n \in UpdNodes, NEW t \in first(n) PROVE t \in Names
    OBVIOUS
  <2>1. PICK b \in Bases : t = [node |-> n, base |-> b, sep |-> "_"]
    OBVIOUS
  <2> QED BY <2>1 DEF Names, Separators
<1>3. \A n \in UpdNodes : live[n] = first(n)
  BY <1>1
<1>4. live \in [UpdNodes -> SUBSET Names]
  <2> HIDE DEF first
  <2> QED BY <1>1, <1>2 DEF first
<1>5. UNION {live[n] : n \in UpdNodes} \subseteq Names
  BY <1>4
<1>6. row \in Rows /\ entry \in Rows
  BY <1>5, RowFacts DEF UpdInit
<1>7. updJob \in UpdJobs /\ updJob.removed = {}
  BY RowFacts DEF UpdInit, NoJob, UpdJobs
<1>8. OneName
  <2> SUFFICES ASSUME NEW n \in UpdNodes, NEW t \in live[n], NEW u \in live[n]
               PROVE  t.node = n /\ (t.base = u.base => t = u)
    BY DEF OneName
  <2>1. t \in first(n) /\ u \in first(n)
    BY <1>3
  <2>2. PICK b \in Bases : t = [node |-> n, base |-> b, sep |-> "_"]
    BY <2>1
  <2>3. PICK c \in Bases : u = [node |-> n, base |-> c, sep |-> "_"]
    BY <2>1
  <2> QED BY <2>2, <2>3
<1> QED BY <1>4, <1>6, <1>7, <1>8 DEF UpdInv, UpdTypes, RemovedAreGone

\* A container removed or renamed leaves no new one to live.
LEMMA ChangeKeeps == ASSUME UpdInv, Change PROVE UpdInv'
<1>1. PICK n \in UpdNodes : \E t \in live[n] :
        live' = [live EXCEPT ![n] = (@ \ {t}) \union
                    (IF t.sep = "_" THEN {[t EXCEPT !.sep = "-"]} ELSE {})]
  BY DEF Change
<1>2. PICK t \in live[n] :
        live' = [live EXCEPT ![n] = (@ \ {t}) \union
                    (IF t.sep = "_" THEN {[t EXCEPT !.sep = "-"]} ELSE {})]
  BY <1>1
<1> DEFINE new == IF t.sep = "_" THEN {[t EXCEPT !.sep = "-"]} ELSE {}
<1>3. t \in Names /\ t.node = n /\ \A u \in live[n] : u.base = t.base => u = t
  BY DEF UpdInv, UpdTypes, OneName
<1>4. new \subseteq Names /\ \A u \in new : u.node = t.node /\ u.base = t.base
  BY <1>3 DEF Names, Separators
<1>5. \A u, v \in new : u = v
  OBVIOUS
<1>6. live' = [live EXCEPT ![n] = (live[n] \ {t}) \union new]
  BY <1>2
<1> HIDE DEF new
<1>7. live'[n] = (live[n] \ {t}) \union new /\ \A m \in UpdNodes \ {n} : live'[m] = live[m]
  BY <1>6 DEF UpdInv, UpdTypes
<1>8. live' \in [UpdNodes -> SUBSET Names]
  BY <1>4, <1>6 DEF UpdInv, UpdTypes
<1>9. OneName'
  <2> SUFFICES ASSUME NEW m \in UpdNodes, NEW u \in live'[m], NEW v \in live'[m]
               PROVE  u.node = m /\ (u.base = v.base => u = v)
    BY DEF OneName
  <2>1. CASE m # n
    BY <1>7, <2>1 DEF UpdInv, OneName
  <2>2. CASE m = n
    <3>1. u \in live[n] \ {t} \/ u \in new
      BY <1>7, <2>2
    <3>2. v \in live[n] \ {t} \/ v \in new
      BY <1>7, <2>2
    <3> QED BY <1>3, <1>4, <1>5, <2>2, <3>1, <3>2 DEF UpdInv, OneName
  <2> QED BY <2>1, <2>2
<1>10. RemovedAreGone'
  <2> SUFFICES ASSUME NEW r \in updJob.removed, NEW u \in live'[r.node], Same(r, u)
               PROVE  FALSE
    BY DEF RemovedAreGone, Alive, Change
  <2>1. r \in Names /\ r.node \in UpdNodes /\ \A v \in live[r.node] : ~Same(r, v)
    BY DEF UpdInv, UpdTypes, UpdJobs, Names, RemovedAreGone, Alive
  <2>2. CASE u \in live[r.node]
    BY <2>1, <2>2
  <2>3. CASE u \notin live[r.node]
    <3>1. r.node = n /\ u \in new
      BY <1>7, <2>1, <2>3
    <3> QED BY <1>3, <1>4, <2>1, <3>1 DEF Same
  <2> QED BY <2>2, <2>3
<1> QED BY <1>8, <1>9, <1>10 DEF Change, UpdInv, UpdTypes

\* Of a complete scan: only what is gone is removed.
LEMMA ReconciledFits ==
  ASSUME UpdInv, NEW n \in UpdNodes
  PROVE  LET j == Reconciled(n, live[n]) IN
         /\ j \in UpdJobs
         /\ \A t \in j.removed : ~Alive(t)
<1> DEFINE gone == On(n, updJob.row.targets) \ live[n]
           none == {t \in gone : Cardinality(Matches(t, live[n])) # 1}
           one == {t \in gone : Cardinality(Matches(t, live[n])) = 1}
           j == Reconciled(n, live[n])
<1>1. updJob \in UpdJobs /\ gone \subseteq Names /\ \A t \in gone : t.node = n
  BY DEF UpdInv, UpdTypes, UpdJobs, Rows, On
<1>2. ASSUME NEW t \in none PROVE ~Alive(t)
  <2> SUFFICES ASSUME NEW u \in live[n], Same(t, u) PROVE FALSE
    BY <1>1 DEF Alive
  <2>1. \A v \in live[n] : Same(t, v) => v = u
    BY DEF UpdInv, OneName, Same
  <2>2. Matches(t, live[n]) = {u}
    BY <2>1 DEF Matches
  <2> QED BY <2>2, FS_Singleton
<1>3. j = [updJob EXCEPT !.left = updJob.left \ {n}, !.removed = updJob.removed \union none,
                         !.relinked = updJob.relinked \union one]
  BY DEF Reconciled
<1>4. none \subseteq Names /\ one \subseteq Names
  BY <1>1
<1> HIDE DEF none, one
<1>5. j \in UpdJobs /\ j.removed = updJob.removed \union none
  BY <1>1, <1>3, <1>4 DEF UpdJobs
<1> QED BY <1>2, <1>5 DEF UpdInv, RemovedAreGone

LEMMA ScanNodeKeeps == ASSUME UpdInv, ScanNode PROVE UpdInv'
<1>1. PICK n \in updJob.left :
        updJob' = Reconciled(n, live[n]) \/ updJob' = [updJob EXCEPT !.left = @ \ {n}]
  BY DEF ScanNode
<1>2. n \in UpdNodes
  BY DEF UpdInv, UpdTypes, UpdJobs
<1>3. updJob' \in UpdJobs /\ \A t \in updJob'.removed : ~Alive(t)
  <2>1. CASE updJob' = Reconciled(n, live[n])
    BY <1>2, <2>1, ReconciledFits
  <2>2. CASE updJob' = [updJob EXCEPT !.left = @ \ {n}]
    BY <2>2 DEF UpdInv, UpdTypes, UpdJobs, RemovedAreGone
  <2> QED BY <1>1, <2>1, <2>2
<1> QED BY <1>3 DEF ScanNode, UpdInv, UpdTypes, OneName, RemovedAreGone, Alive

LEMMA PersistKeeps ==
  ASSUME UpdInv, Persist
  PROVE  /\ UpdInv'
         /\ ~row.deleted =>
              \A t \in updJob.row.targets : t \in row.targets /\ Alive(t) =>
                  \E u \in row'.targets : Same(t, u)
<1>1. \A t \in Names : Relinked(t) \in Names /\ Same(t, Relinked(t))
  BY DEF Relinked, Names, Separators, Same
<1>2. updJob.row.targets \subseteq Names
  BY DEF UpdInv, UpdTypes, UpdJobs, Rows
<1>3. Remaining \subseteq Names
  BY <1>1, <1>2 DEF Remaining
<1>4. row' = row \/ row' = Row(Remaining # {}, Remaining)
  BY DEF Persist
<1>5. row' \in Rows
  BY <1>3, <1>4, RowFacts DEF UpdInv, UpdTypes
<1>6. NoJob \in UpdJobs /\ NoJob.removed = {}
  BY RowFacts DEF NoJob, UpdJobs
<1>7. UpdInv'
  BY <1>5, <1>6 DEF Persist, UpdInv, UpdTypes, OneName, RemovedAreGone
<1>8. ASSUME NEW t \in updJob.row.targets, t \in row.targets, Alive(t)
      PROVE  \E u \in row'.targets : Same(t, u)
  <2>1. CASE row' = row
    BY <1>8, <2>1 DEF Same
  <2>2. CASE row' = Row(Remaining # {}, Remaining)
    <3>1. t \notin updJob.removed
      BY <1>8 DEF UpdInv, RemovedAreGone
    <3>2. Relinked(t) \in Remaining
      BY <3>1 DEF Remaining
    <3>3. row'.targets = Remaining
      BY <2>2 DEF Row
    <3> QED BY <1>1, <1>2, <3>2, <3>3
  <2> QED BY <1>4, <2>1, <2>2
<1> QED BY <1>7, <1>8

LEMMA UpdStep ==
  ASSUME UpdInv, [UpdNext]_uVars
  PROVE  UpdInv'
<1>1. CASE UNCHANGED uVars \/ Reach \/ RebuildStop
  BY <1>1 DEF uVars, Reach, RebuildStop, UpdInv, UpdTypes, OneName, RemovedAreGone, Alive
<1>2. CASE Edit
  <2>1. row' \in Rows
    <3>1. UNION {live[n] : n \in UpdNodes} \subseteq Names
      BY DEF UpdInv, UpdTypes
    <3> QED BY <1>2, <3>1, RowFacts DEF Edit
  <2> QED BY <1>2, <2>1 DEF Edit, UpdInv, UpdTypes, OneName, RemovedAreGone, Alive
<1>3. CASE RebuildStart
  <2>1. entry' \in Rows
    BY <1>3, RowFacts DEF RebuildStart, UpdInv, UpdTypes
  <2> QED BY <1>3, <2>1 DEF RebuildStart, UpdInv, UpdTypes, OneName, RemovedAreGone, Alive
<1>4. CASE Fire
  <2> DEFINE nodes == {t.node : t \in entry.targets}
  <2>1. nodes \subseteq UpdNodes
    BY DEF UpdInv, UpdTypes, Rows, Names
  <2>2. updJob' = [NoJob EXCEPT !.pc = "scan", !.row = entry, !.left = nodes]
    BY <1>4 DEF Fire
  <2> HIDE DEF nodes
  <2>3. updJob' \in UpdJobs /\ updJob'.removed = {}
    BY <2>1, <2>2 DEF NoJob, UpdJobs, UpdInv, UpdTypes
  <2> QED BY <1>4, <2>3 DEF Fire, UpdInv, UpdTypes, OneName, RemovedAreGone
<1> QED BY <1>1, <1>2, <1>3, <1>4, ChangeKeeps, ScanNodeKeeps, PersistKeeps DEF UpdNext

(* reconcileConfiguredContainerNames and persistReconciledContainerTargets: *)
(* whatever is renamed, removed, edited, offline or not scanned while a     *)
(* scheduled update runs, a container that lives stays a target of its      *)
(* schedule, under the name it has or the other one.                        *)
THEOREM LivingStay == UpdSpec => LivingKept
<1> DEFINE Kept == Persist /\ ~row.deleted =>
                     \A t \in updJob.row.targets : t \in row.targets /\ Alive(t) =>
                         \E u \in row'.targets : Same(t, u)
<1>1. UpdInv /\ [UpdNext]_uVars => UpdInv'
  BY UpdStep
<1>2. UpdInv => [Kept]_uVars
  BY PersistKeeps
<1> QED BY UpdInitially, <1>1, <1>2, PTL DEF UpdSpec, LivingKept

-----------------------------------------------------------------------------
(* The health poller.                                                      *)

Rules == [id : Nat, on : BOOLEAN, threshold : Thresholds, since : 0 .. NotBreaching, told : BOOLEAN]

RuleTypes ==
    /\ rule \in Rules /\ (rule.id = 0 => rule.since = NotBreaching)
    /\ poll \in [pc : {"idle", "fetch", "evaluate", "announced"}, rule : Rules, value : Nat]
    /\ (poll.rule.id = 0 => poll.rule.since = NotBreaching)
    /\ metric \in {0, High}
    /\ alerts \in Nat /\ trouble \in Nat /\ lastId \in Nat

\* The poll is about the rule in the table.
Mine == poll.pc # "idle" /\ poll.rule.id # 0 /\ poll.rule.id = rule.id

(* The copy of a poll is as old as its rule: only the poller and the clock *)
(* change when the breach began and whether it was announced.  A rule that *)
(* is made anew gets an id that no copy has.                               *)
CopyIsCurrent ==
    /\ Mine => poll.rule.since = rule.since /\ poll.rule.told = rule.told
    /\ rule.id <= lastId /\ poll.rule.id <= lastId
    /\ poll.pc = "announced" => poll.rule.since = Window

(* A rule that the poller may announce has an announcement to spare: only  *)
(* one that is told, or about to be, has none, unless it was calm since.   *)
SpareAlert ==
    /\ ~rule.told /\ ~(Mine /\ poll.pc = "announced") => alerts <= trouble
    /\ rule.since = NotBreaching => alerts <= trouble

AlertInv == RuleTypes /\ CopyIsCurrent /\ SpareAlert /\ AnnouncedOnce

LEMMA AlertInit == HealthInit => AlertInv
  BY HealthConstants
  DEF HealthInit, AlertInv, RuleTypes, CopyIsCurrent, SpareAlert, AnnouncedOnce, Mine,
      Rules, NoRule, IdlePoll, NotBreaching, Thresholds, High

(* A rule that is made anew is calm and has its new id.                    *)
LEMMA MadeAnew ==
  ASSUME NEW id \in Nat, NEW on \in BOOLEAN, NEW threshold \in Thresholds
  PROVE  /\ NewRule(id) \in Rules /\ NewRule(id).id = id
         /\ NewRule(id).since = NotBreaching /\ NewRule(id).told = FALSE
         /\ Edited(NewRule(id), on, threshold) \in Rules
         /\ Edited(NewRule(id), on, threshold).id = id
         /\ Edited(NewRule(id), on, threshold).since = NotBreaching
<1>1. NotBreaching \in 0 .. NotBreaching /\ 1 \in Thresholds
  BY HealthConstants DEF NotBreaching, Thresholds, High
<1>2. NoRule \in Rules /\ NoRule.since = NotBreaching /\ NoRule.told = FALSE
  BY <1>1 DEF NoRule, Rules
<1> HIDE DEF NoRule
<1>3. /\ NewRule(id) \in Rules /\ NewRule(id).id = id
      /\ NewRule(id).since = NotBreaching /\ NewRule(id).told = FALSE
  BY <1>2 DEF NewRule, Rules
<1> HIDE DEF NewRule
<1>4. /\ Edited(NewRule(id), on, threshold) \in Rules
      /\ Edited(NewRule(id), on, threshold).id = id
      /\ Edited(NewRule(id), on, threshold).since = NotBreaching
  BY <1>3 DEF Rules, Edited
<1> QED BY <1>3, <1>4

(* A poll that is over is about no rule.                                   *)
LEMMA IdleIsNobodys ==
  /\ IdlePoll \in [pc : {"idle", "fetch", "evaluate", "announced"}, rule : Rules, value : Nat]
  /\ NoRule \in Rules /\ NoRule.id = 0 /\ NoRule.since = NotBreaching
  /\ IdlePoll.pc = "idle" /\ IdlePoll.rule.id = 0 /\ IdlePoll.rule.since = NotBreaching
<1>1. NotBreaching \in 0 .. NotBreaching /\ 1 \in Thresholds
  BY HealthConstants DEF NotBreaching, Thresholds, High
<1> QED BY <1>1 DEF IdlePoll, NoRule, Rules

(* The step of everything else keeps AlertInv if the rule is made anew.    *)
LEMMA AnewStep ==
  ASSUME AlertInv, rule' \in Rules, rule'.id = lastId + 1, rule'.since = NotBreaching,
         lastId' = lastId + 1, alerts' = 0, UNCHANGED <<poll, metric, trouble>>
  PROVE  AlertInv'
<1> USE DEF AlertInv, RuleTypes, CopyIsCurrent, SpareAlert, AnnouncedOnce, Mine
<1>1. lastId \in Nat /\ poll.rule.id \in Nat /\ poll.rule.id <= lastId /\ trouble \in Nat
  BY DEF Rules
<1>2. rule'.id # 0 /\ rule'.id # poll.rule.id
  BY <1>1
<1>3. RuleTypes'
  BY <1>1, <1>2
<1>4. ~Mine'
  BY <1>2
<1> QED BY <1>1, <1>3, <1>4

(* Administrators, the clock and restarts.                                 *)
LEMMA OthersStep ==
  AlertInv /\ (HealthTick \/ MetricMoves \/ HealthRestarts \/ InstallBegins \/ UninstallBegins
               \/ RequestSteps \/ PutAlert \/ ReplaceAlerts) => AlertInv'
<1> SUFFICES ASSUME AlertInv PROVE
      HealthTick \/ MetricMoves \/ HealthRestarts \/ InstallBegins \/ UninstallBegins
        \/ RequestSteps \/ PutAlert \/ ReplaceAlerts => AlertInv'
  OBVIOUS
<1> USE HealthConstants
    DEF AlertInv, RuleTypes, CopyIsCurrent, SpareAlert, AnnouncedOnce, Mine,
        Rules, NotBreaching, Thresholds, High
<1>1. CASE HealthTick
  BY <1>1 DEF HealthTick, Aged, NoRule
<1>2. CASE MetricMoves
  BY <1>2 DEF MetricMoves
<1>3. CASE HealthRestarts
  BY <1>3 DEF HealthRestarts, Troubled, IdlePoll, NoRule
<1>4. CASE InstallBegins \/ UninstallBegins
  BY <1>4 DEF InstallBegins, UninstallBegins
<1>5. CASE InstallRuns \/ UninstallRuns
  BY <1>5 DEF InstallRuns, UninstallRuns, Troubled, Calmly
<1>6. CASE InstallEnds
  <2>1. CASE rule.id = 0
    <3>1. /\ rule' = NewRule(lastId + 1) /\ lastId' = lastId + 1 /\ alerts' = 0
          /\ UNCHANGED <<poll, metric, trouble>>
      BY <1>6, <2>1 DEF InstallEnds
    <3> HIDE DEF AlertInv
    <3>2. lastId + 1 \in Nat /\ TRUE \in BOOLEAN /\ 1 \in Thresholds
      BY DEF AlertInv
    <3> QED BY <3>1, <3>2, MadeAnew, AnewStep
  <2>2. CASE rule.id # 0
    BY <1>6, <2>2 DEF InstallEnds
  <2> QED BY <2>1, <2>2
<1>7. CASE UninstallEnds
  BY <1>7 DEF UninstallEnds
<1>8. CASE PutAlert
  <2>1. PICK on \in BOOLEAN, threshold \in Thresholds :
          IF rule.id # 0
          THEN /\ rule' = Edited(rule, on, threshold)
               /\ UNCHANGED <<lastId, alerts>>
          ELSE /\ rule' = Edited(NewRule(lastId + 1), on, threshold)
               /\ lastId' = lastId + 1 /\ alerts' = 0
    BY <1>8 DEF PutAlert
  <2>2. UNCHANGED <<poll, metric, trouble>>
    BY <1>8 DEF PutAlert
  <2>3. CASE rule.id # 0
    <3>2. rule \in Rules /\ rule' = Edited(rule, on, threshold)
      BY <2>1, <2>3
    <3>1. rule' \in Rules /\ rule'.id = rule.id /\ rule'.since = rule.since /\ rule'.told = rule.told
      <4> HIDE DEF AlertInv, Thresholds, NotBreaching
      <4> QED BY <3>2 DEF Edited
    <3> QED BY <2>1, <2>2, <2>3, <3>1
  <2>4. CASE rule.id = 0
    <3>1. lastId + 1 \in Nat
      OBVIOUS
    <3>2. /\ rule' = Edited(NewRule(lastId + 1), on, threshold)
          /\ lastId' = lastId + 1 /\ alerts' = 0
      BY <2>1, <2>4
    <3> HIDE DEF AlertInv, Rules, Thresholds, NotBreaching
    <3>3. rule' \in Rules /\ rule'.id = lastId + 1 /\ rule'.since = NotBreaching
      <4>1. PICK id \in Nat : id = lastId + 1
        BY <3>1
      <4>2. on \in BOOLEAN /\ threshold \in Thresholds
        OBVIOUS
      <4>3. /\ Edited(NewRule(id), on, threshold) \in Rules
            /\ Edited(NewRule(id), on, threshold).id = id
            /\ Edited(NewRule(id), on, threshold).since = NotBreaching
        BY ONLY <4>2, MadeAnew, Zenon
      <4>4. rule' = Edited(NewRule(id), on, threshold)
        BY ONLY <3>2, <4>1
      <4> QED BY ONLY <4>1, <4>3, <4>4
    <3> QED BY <2>2, <3>2, <3>3, AnewStep
  <2> QED BY <2>3, <2>4
<1>9. CASE ReplaceAlerts
  <2>1. rule.id # 0 /\ alerts' = 0 /\ UNCHANGED <<poll, metric, trouble>>
    BY <1>9 DEF ReplaceAlerts
  <2>2. CASE rule' = NoRule /\ UNCHANGED lastId
    <3>1. rule' \in Rules /\ rule'.id = 0 /\ rule'.since = NotBreaching
      BY <2>2, IdleIsNobodys
    <3>2. ~Mine' /\ lastId' \in Nat
      BY <2>2, <3>1
    <3>3. RuleTypes'
      BY <2>1, <2>2, <3>1
    <3>4. CopyIsCurrent'
      BY <2>1, <2>2, <3>1, <3>2
    <3> QED BY <2>1, <3>3, <3>4
  <2>3. CASE rule' = NewRule(lastId + 1) /\ lastId' = lastId + 1
    <3> HIDE DEF AlertInv
    <3>1. lastId + 1 \in Nat /\ TRUE \in BOOLEAN /\ 1 \in Thresholds
      BY DEF AlertInv
    <3> QED BY <2>1, <2>3, <3>1, MadeAnew, AnewStep
  <2> QED BY <1>9, <2>2, <2>3 DEF ReplaceAlerts
<1> QED
  BY <1>1, <1>2, <1>3, <1>4, <1>5, <1>6, <1>7, <1>8, <1>9 DEF RequestSteps

(* A poll that ends without touching its rule keeps AlertInv, unless it is *)
(* about to store what it announced.                                       *)
LEMMA PollEndsStep ==
  ASSUME AlertInv, poll' = IdlePoll, UNCHANGED <<rule, alerts, lastId, metric>>,
         trouble' \in Nat, trouble <= trouble',
         poll.pc # "announced" \/ poll.rule.id # rule.id
  PROVE  AlertInv'
<1>1. ~Mine'
  BY IdleIsNobodys DEF Mine
<1>2. RuleTypes'
  BY IdleIsNobodys DEF AlertInv, RuleTypes
<1>3. ~(Mine /\ poll.pc = "announced")
  BY DEF Mine
<1>4. lastId \in Nat /\ trouble \in Nat /\ alerts \in Nat
  BY DEF AlertInv, RuleTypes
<1>5. CopyIsCurrent'
  BY <1>1, <1>4, IdleIsNobodys DEF AlertInv, CopyIsCurrent
<1>6. SpareAlert'
  BY <1>1, <1>3, <1>4 DEF AlertInv, SpareAlert
<1>7. AnnouncedOnce'
  BY <1>4 DEF AlertInv, AnnouncedOnce
<1> QED BY <1>2, <1>5, <1>6, <1>7 DEF AlertInv

(* Failures only add to what may be announced.                             *)
LEMMA StillWithin ==
  ASSUME NEW a \in Nat, NEW t \in Nat, NEW u \in Nat, a <= 1 + t, t <= u
  PROVE  a <= 1 + u
  OBVIOUS

(* pollOnce.                                                               *)
LEMMA PollStep == AlertInv /\ PollSteps => AlertInv'
<1> SUFFICES ASSUME AlertInv PROVE PollSteps => AlertInv'
  OBVIOUS
<1> USE HealthConstants
    DEF AlertInv, RuleTypes, CopyIsCurrent, SpareAlert, AnnouncedOnce, Mine,
        Rules, NotBreaching, Thresholds, High
<1>1. CASE PollBegins
  BY <1>1 DEF PollBegins, NoRule
<1>2. CASE Fetch
  <2>1. /\ poll.pc = "fetch" /\ UNCHANGED <<rule, metric, alerts, lastId>>
        /\ trouble' \in Nat /\ trouble <= trouble'
    BY <1>2 DEF Fetch, Troubled, Calmly
  <2>4. AnnouncedOnce'
    <3>1. alerts \in Nat /\ trouble \in Nat /\ alerts <= 1 + trouble
      OBVIOUS
    <3>2. alerts' = alerts /\ trouble' \in Nat /\ trouble <= trouble'
      BY <2>1
    <3>3. alerts <= 1 + trouble'
      BY ONLY <3>1, <3>2, StillWithin
    <3> QED BY ONLY <3>2, <3>3 DEF AnnouncedOnce
  <2>2. CASE poll' = IdlePoll
    BY <2>1, <2>2, PollEndsStep
  <2>3. CASE \E v \in {0, metric} : poll' = [poll EXCEPT !.pc = "evaluate", !.value = v]
    <3>1. PICK v \in {0, metric} : poll' = [poll EXCEPT !.pc = "evaluate", !.value = v]
      BY <2>3
    <3>2. v \in Nat /\ poll \in [pc : {"idle", "fetch", "evaluate", "announced"}, rule : Rules, value : Nat]
      BY <3>1
    <3> HIDE DEF AlertInv, Rules
    <3>3. /\ poll' \in [pc : {"idle", "fetch", "evaluate", "announced"}, rule : Rules, value : Nat]
          /\ poll'.pc = "evaluate" /\ poll'.rule = poll.rule
      BY <3>1, <3>2
    <3>4. Mine' = Mine
      BY <2>1, <3>3
    <3>5. alerts \in Nat /\ trouble \in Nat
      BY DEF AlertInv
    <3>6. poll.rule.id = 0 => poll.rule.since = NotBreaching
      BY DEF AlertInv
    <3>7. RuleTypes'
      BY <2>1, <3>3, <3>5, <3>6 DEF AlertInv
    <3>8. CopyIsCurrent'
      BY <2>1, <3>3, <3>4 DEF AlertInv
    <3>9. poll.pc # "announced" /\ poll'.pc # "announced"
      BY <2>1, <3>3
    <3> HIDE DEF Mine, RuleTypes, CopyIsCurrent
    <3>10. SpareAlert'
      BY <2>1, <3>5, <3>9 DEF AlertInv
    <3> QED BY <2>4, <3>7, <3>8, <3>10 DEF AlertInv
  <2> QED BY <1>2, <2>2, <2>3 DEF Fetch
<1>3. CASE Evaluate
  <2> DEFINE r == poll.rule
             mine == r.id # 0 /\ r.id = rule.id
             breaching == poll.value > r.threshold
  <2>1. poll.pc = "evaluate" /\ UNCHANGED <<lastId, trouble, metric>>
    BY <1>3 DEF Evaluate
  <2>2. CASE r.id # 0 /\ breaching /\ r.since = NotBreaching
    <3>1. rule' = Touch(r, Breach) /\ poll' = IdlePoll /\ alerts' = alerts
      BY <1>3, <2>2 DEF Evaluate
    <3>2. CASE r.id = rule.id
      <4>1. rule' = [rule EXCEPT !.since = 0, !.told = FALSE]
        BY <3>1, <3>2 DEF Touch, Breach
      <4>2. 0 \in 0 .. NotBreaching /\ FALSE \in BOOLEAN /\ rule \in Rules
        OBVIOUS
      <4>5. rule' \in Rules /\ rule'.id = rule.id /\ rule'.since = 0
        BY <4>1, <4>2
      <4>3. alerts <= trouble
        BY <2>1, <2>2, <3>2
      <4> QED BY <2>1, <2>2, <3>1, <3>2, <4>3, <4>5, IdleIsNobodys
    <3>3. CASE r.id # rule.id
      <4>1. rule' = rule
        BY <3>1, <3>3 DEF Touch
      <4> QED BY <2>1, <3>1, <4>1, IdleIsNobodys, PollEndsStep
    <3> QED BY <3>2, <3>3
  <2>3. CASE breaching /\ r.since = Window /\ ~r.told
    <3>1. ~(r.id # 0 /\ breaching /\ r.since = NotBreaching)
      BY <2>3
    <3>2. /\ rule' = rule /\ poll' = [poll EXCEPT !.pc = "announced"]
          /\ alerts' = IF mine THEN alerts + 1 ELSE alerts
      BY <1>3, <2>3, <3>1 DEF Evaluate
    <3> QED BY <2>1, <2>3, <3>2
  <2>4. CASE ~breaching
    <3>1. /\ rule' = Touch(r, [rule EXCEPT !.since = NotBreaching])
          /\ poll' = IdlePoll /\ alerts' = IF mine THEN 0 ELSE alerts
      BY <1>3, <2>4 DEF Evaluate
    <3>2. CASE r.id = rule.id
      <4>1. rule' = [rule EXCEPT !.since = NotBreaching]
        BY <3>1, <3>2 DEF Touch
      <4>2. rule' \in Rules /\ rule'.id = rule.id /\ rule'.since = NotBreaching
        BY <4>1
      <4>3. alerts' \in Nat /\ alerts' <= trouble
        BY <3>1, <3>2, <2>1
      <4> QED BY <2>1, <3>1, <4>2, <4>3, IdleIsNobodys
    <3>3. CASE r.id # rule.id
      <4>1. rule' = rule /\ alerts' = alerts
        BY <3>1, <3>3 DEF Touch
      <4> QED BY <2>1, <3>1, <4>1, IdleIsNobodys, PollEndsStep
    <3> QED BY <3>2, <3>3
  <2>5. CASE /\ ~(r.id # 0 /\ breaching /\ r.since = NotBreaching)
             /\ ~(breaching /\ r.since = Window /\ ~r.told)
             /\ breaching
    <3>1. rule' = rule /\ poll' = IdlePoll /\ alerts' = alerts
      BY <1>3, <2>5 DEF Evaluate
    <3> QED BY <2>1, <3>1, PollEndsStep
  <2> QED BY <2>2, <2>3, <2>4, <2>5
<1>4. CASE StoreAnnounced
  <2>1. /\ poll.pc = "announced" /\ poll' = IdlePoll
        /\ rule' = Touch(poll.rule, [rule EXCEPT !.since = poll.rule.since, !.told = TRUE])
        /\ UNCHANGED <<lastId, trouble, metric, alerts>>
    BY <1>4 DEF StoreAnnounced
  <2>2. CASE poll.rule.id = rule.id
    <3>1. rule' = [rule EXCEPT !.since = poll.rule.since, !.told = TRUE]
      BY <2>1, <2>2 DEF Touch
    <3>2. poll.rule.id # 0 /\ poll.rule.since = rule.since
      BY <2>1, <2>2
    <3>3. rule' \in Rules /\ rule'.id = rule.id /\ rule'.since = rule.since /\ rule'.told
      BY <3>1, <3>2
    <3> QED BY <2>1, <2>2, <3>2, <3>3, IdleIsNobodys
  <2>3. CASE poll.rule.id # rule.id
    <3>1. rule' = rule
      BY <2>1, <2>3 DEF Touch
    <3> QED BY <2>1, <2>3, <3>1, PollEndsStep
  <2> QED BY <2>2, <2>3
<1> QED
  BY <1>1, <1>2, <1>3, <1>4 DEF PollSteps

(* evaluate: between two samples that are calm a rule is announced once,   *)
(* and once more for each failure or restart, whatever was edited, deleted *)
(* or installed while the poll was under way.                              *)
THEOREM BreachAnnouncedOnce == HealthSpec => []AnnouncedOnce
<1>1. AlertInv /\ [HealthNext]_hVars => AlertInv'
  <2>1. AlertInv /\ UNCHANGED hVars => AlertInv'
    BY DEF hVars, AlertInv, RuleTypes, CopyIsCurrent, SpareAlert, AnnouncedOnce, Mine
  <2> QED BY <2>1, OthersStep, PollStep DEF HealthNext
<1>2. AlertInv => AnnouncedOnce
  BY DEF AlertInv
<1> QED BY AlertInit, <1>1, <1>2, PTL DEF HealthSpec

-----------------------------------------------------------------------------
(* The container alarm.                                                    *)

(* What OutageOnce needs to be inductive: a container that the next scan   *)
(* may announce has an announcement to spare.  Only a container that is    *)
(* crashed and whose shown name is among the known ones has not.           *)
SpareAnnouncement ==
    \A c \in Watched :
        state[c] # "crashed" \/ shown[c] \notin notified => outage[c] <= incidents

AlarmInv ==
    /\ incidents \in Nat
    /\ outage \in [Watched -> Nat]
    /\ state \in [Watched -> States]
    /\ shown \in [Watched -> Shown]
    /\ OutageOnce /\ SpareAnnouncement

LEMMA AlarmInit == MonitorInit => AlarmInv
  BY DEF MonitorInit, AlarmInv, OutageOnce, SpareAnnouncement, States

LEMMA AlarmStep == AlarmInv /\ [MonitorNext]_mVars => AlarmInv'
<1> SUFFICES ASSUME AlarmInv, [MonitorNext]_mVars PROVE AlarmInv'
  OBVIOUS
<1> USE DEF AlarmInv, OutageOnce, SpareAnnouncement, Incident
<1>1. CASE Reported
  <2>1. PICK c \in Watched : \E s \in States \ {state[c]} :
        /\ state' = [state EXCEPT ![c] = s]
        /\ IF s = "absent" THEN Incident ELSE incidents' = incidents
        /\ IF s \in {"running", "stopped"}
           THEN outage' = [outage EXCEPT ![c] = 0] /\ told' = [told EXCEPT ![c] = FALSE]
           ELSE UNCHANGED <<outage, told>>
    BY <1>1 DEF Reported
  <2>2. UNCHANGED <<shown, notified>>
    BY <1>1 DEF Reported
  <2>3. ASSUME NEW s \in States \ {state[c]},
               state' = [state EXCEPT ![c] = s],
               IF s = "absent" THEN Incident ELSE incidents' = incidents,
               IF s \in {"running", "stopped"}
               THEN outage' = [outage EXCEPT ![c] = 0] ELSE outage' = outage
        PROVE AlarmInv'
    BY <2>2, <2>3 DEF States
  <2> QED BY <2>1, <2>3
<1>2. CASE SetContainerName
  BY <1>2 DEF SetContainerName
<1>3. CASE MonitorRestarts
  BY <1>3 DEF MonitorRestarts
<1>4. CASE MonitorScan
  BY <1>4 DEF MonitorScan, Known, Bad
<1>5. CASE NotifyBad
  BY <1>5 DEF NotifyBad
<1>6. CASE UNCHANGED mVars
  BY <1>6 DEF mVars
<1> QED
  BY <1>1, <1>2, <1>3, <1>4, <1>5, <1>6 DEF MonitorNext

(* scan: while a container stays crashed it is announced once, and once    *)
(* more at most for every rename, restart of the panel, failed message or  *)
(* report that missed its row.                                             *)
THEOREM OutagesAnnouncedOnce == MonitorSpec => []OutageOnce
<1>1. AlarmInv => OutageOnce
  BY DEF AlarmInv
<1> QED BY AlarmInit, AlarmStep, <1>1, PTL DEF MonitorSpec

-----------------------------------------------------------------------------
(* The browser hub.                                                        *)

(* What BrowserInv needs to be inductive: the channel of a browser is open *)
(* from its registration to CloseSend, which is after it left the table.   *)
ChannelFollowsServe ==
    \A b \in Browsers :
        /\ serve[b] \in {"reading", "leaving", "left"} => send[b] = "open"
        /\ b \in clients => serve[b] \in {"reading", "leaving"}

TableInv == BrowserTypeOK /\ ChannelFollowsServe

LEMMA TableInit == BrowserInit => TableInv
  BY BrowserConstants DEF BrowserInit, TableInv, BrowserTypeOK, ChannelFollowsServe

LEMMA TableStep == TableInv /\ [BrowserNext]_browserVars => TableInv'
<1> SUFFICES ASSUME TableInv, [BrowserNext]_browserVars PROVE TableInv'
  OBVIOUS
<1> USE BrowserConstants DEF TableInv, BrowserTypeOK, ChannelFollowsServe
<1>1. ASSUME NEW b \in Browsers,
             Register(b) \/ SocketDies(b) \/ ServeSteps(b) \/ Write(b) \/ WriteFails(b)
      PROVE TableInv'
  <2>1. CASE Register(b)
    BY <2>1 DEF Register
  <2>2. CASE SocketDies(b)
    BY <2>2 DEF SocketDies
  <2>3. CASE ReadFails(b)
    BY <2>3 DEF ReadFails
  <2>4. CASE Leave(b)
    BY <2>4 DEF Leave
  <2>5. CASE CloseSend(b)
    BY <2>5 DEF CloseSend
  <2>6. CASE Write(b)
    BY <2>6 DEF Write
  <2>7. CASE WriteFails(b)
    BY <2>7 DEF WriteFails
  <2> QED
    BY <1>1, <2>1, <2>2, <2>3, <2>4, <2>5, <2>6, <2>7 DEF ServeSteps
<1>2. ASSUME NEW s \in Senders, Copy(s) \/ BroadcastDone(s)
      PROVE TableInv'
  BY <1>2 DEF Copy, BroadcastDone
<1>3. ASSUME NEW s \in Senders, NEW b \in Browsers, Deliver(s, b) \/ DeliverPanics(s, b)
      PROVE TableInv'
  <2>1. CASE Deliver(s, b)
    <3>1. copy' \in [Senders -> SUBSET Browsers]
      BY <2>1 DEF Deliver
    <3>2. queued' \in [Browsers -> 0..SendCap]
      BY <2>1 DEF Deliver
    <3> QED BY <2>1, <3>1, <3>2 DEF Deliver
  <2>2. CASE DeliverPanics(s, b)
    BY <2>2 DEF DeliverPanics
  <2> QED BY <1>3, <2>1, <2>2
<1>4. CASE UNCHANGED browserVars
  BY <1>4 DEF browserVars
<1> QED
  BY <1>1, <1>2, <1>3, <1>4 DEF BrowserNext

(* ServeBrowser and Broadcast: a browser in the table has an open channel, *)
(* and no buffer outgrows its capacity, however browsers come, stall, go   *)
(* and are broadcast to.                                                   *)
THEOREM BrowserSafe == BrowserSpec => []BrowserInv
<1>1. TableInv => BrowserInv
  BY DEF TableInv, ChannelFollowsServe, BrowserInv, RegisteredOpen, BrowserTypeOK
<1> QED BY TableInit, TableStep, <1>1, PTL DEF BrowserSpec

-----------------------------------------------------------------------------
(* The parts together.                                                     *)

(* An execution of the panel is one of each part, as the parts share no    *)
(* variable: what is proved of a part, of the batches too, holds of it.    *)
THEOREM PanelRunsParts ==
  PanelSpec => Spec /\ UpdSpec /\ HealthSpec /\ MonitorSpec /\ BrowserSpec
<1>1. PanelInit => Init /\ UpdInit /\ HealthInit /\ MonitorInit /\ BrowserInit
  BY DEF PanelInit
<1>2. [PanelNext]_panelParts =>
        /\ [Next]_vars /\ [UpdNext]_uVars /\ [HealthNext]_hVars
        /\ [MonitorNext]_mVars /\ [BrowserNext]_browserVars
  BY DEF PanelNext, panelParts, OnBatches, OnUpdates, OnHealth, OnMonitor, OnBrowsers
<1> QED BY <1>1, <1>2, PTL
     DEF PanelSpec, Spec, UpdSpec, HealthSpec, MonitorSpec, BrowserSpec
=============================================================================
