------------------------- MODULE BackupBatchProofs -------------------------
(* Scheduled backups, for every finite set of batches, any units, nodes    *)
(* and number of lost connections: every section is reported once, a       *)
(* report waits for the batches in flight, a unit that was backed up is    *)
(* not run again, and a node that was away is retried until it is late.    *)
EXTENDS BackupBatch, FiniteSetTheorems, TLAPS

PcStates == {"idle", "spawned", "first", "retry", "sleeping", "ended", "marked", "queued"}
RunStates == {"idle", "checked", "sent"}
Errors == {"unset", "nil", "offline", "disconnected", "other"}
GaveUp(b) == pc[b] \in {"ended", "marked", "queued"}

-----------------------------------------------------------------------------
(* The units of a batch.                                                   *)

\* A batch runs one of its units at a time, within a pass, and one that the pass
\* has left behind; a unit the first pass has not come to has no result.
Passing(b) ==
    /\ todo[b] \subseteq UnitsOf[b]
    /\ cur[b] # NoUnit => InProgress(b) /\ cur[b] \in UnitsOf[b] /\ cur[b] \notin todo[b]
    /\ \A u \in UnitsOf[b] :
         pc[b] \in {"idle", "spawned"} \/ (pc[b] = "first" /\ u \in todo[b]) => err[u] = "unset"
    /\ \A u \in UnitsOf[b] : GaveUp(b) /\ retryable(err[u]) => late[b]

\* What was backed up does not run.
Resting == \A u \in Units : err[u] = "nil" => run[u] = "idle"

(* The counter counts, and a section is in one place: that is what         *)
(* SectionsExactlyOnce says, without cardinalities.                        *)
Counted == inFlight = Cardinality({b \in Batches : Tracked(b)})
Sections ==
    /\ \A b \in pending : pc[b] = "queued" /\ \A r \in sent : b \notin r
    /\ \A r \in sent : \A b \in r : pc[b] = "queued"
    /\ \A r, s \in sent : r # s => r \intersect s = {}
    /\ \A b \in Batches : pc[b] = "queued" => b \in pending \/ \E r \in sent : b \in r

SchedInv == TypeOK /\ Resting /\ (\A b \in Batches : Passing(b)) /\ Counted /\ Sections

-----------------------------------------------------------------------------

LEMMA SomeBatches ==
  ASSUME NEW T \in SUBSET Batches
  PROVE  IsFiniteSet(T) /\ Cardinality(T) \in 0..Cardinality(Batches)
<1>1. IsFiniteSet(Batches)
  BY BatchConstants
<1>2. IsFiniteSet(T) /\ Cardinality(T) <= Cardinality(Batches)
  BY <1>1, FS_Subset
<1>3. Cardinality(T) \in Nat /\ Cardinality(Batches) \in Nat
  BY <1>1, <1>2, FS_CardinalityType
<1> QED BY <1>2, <1>3

\* A batch that becomes tracked adds one to the count, one that stops takes one away.
LEMMA OneMore ==
  ASSUME NEW b \in Batches, ~Tracked(b), Tracked(b)',
         \A a \in Batches \ {b} : Tracked(a)' <=> Tracked(a)
  PROVE  Cardinality({a \in Batches : Tracked(a)'}) = Cardinality({a \in Batches : Tracked(a)}) + 1
<1> DEFINE S == {a \in Batches : Tracked(a)}
           T == {a \in Batches : Tracked(a)'}
<1>1. IsFiniteSet(S)
  BY SomeBatches
<1>2. b \notin S /\ T = S \cup {b}
  OBVIOUS
<1> HIDE DEF S, T
<1>3. Cardinality(T) = Cardinality(S) + 1
  BY <1>1, <1>2, FS_AddElement
<1> QED BY <1>3 DEF S, T

LEMMA OneLess ==
  ASSUME NEW b \in Batches, Tracked(b), ~Tracked(b)',
         \A a \in Batches \ {b} : Tracked(a)' <=> Tracked(a)
  PROVE  Cardinality({a \in Batches : Tracked(a)'}) = Cardinality({a \in Batches : Tracked(a)}) - 1
<1> DEFINE S == {a \in Batches : Tracked(a)}
           T == {a \in Batches : Tracked(a)'}
<1>1. IsFiniteSet(S)
  BY SomeBatches
<1>2. b \in S /\ T = S \ {b}
  OBVIOUS
<1> HIDE DEF S, T
<1>3. Cardinality(T) = Cardinality(S) - 1
  BY <1>1, <1>2, FS_RemoveElement
<1> QED BY <1>3 DEF S, T

\* No batch is tracked when the counter is at zero.
LEMMA NoneTracked ==
  ASSUME Counted, inFlight = 0
  PROVE  \A b \in Batches : ~Tracked(b)
<1> DEFINE T == {b \in Batches : Tracked(b)}
<1>1. IsFiniteSet(T) /\ Cardinality(T) = 0
  BY SomeBatches DEF Counted
<1> HIDE DEF T
<1>2. T = {}
  BY <1>1, FS_EmptySet
<1> QED BY <1>2 DEF T

LEMMA SchedInit == Init => SchedInv
<1> SUFFICES ASSUME Init PROVE SchedInv
  OBVIOUS
<1> USE DEF Init
<1>1. {b \in Batches : Tracked(b)} = {}
  BY DEF Tracked
<1>2. Counted
  BY <1>1, FS_EmptySet DEF Counted
<1>3. inFlight \in 0..Cardinality(Batches)
  BY <1>2, SomeBatches DEF Counted
<1>4. TypeOK
  BY <1>3, BatchConstants DEF TypeOK
<1>5. Resting /\ Sections
  BY DEF Resting, Sections
<1>6. \A b \in Batches : Passing(b)
  BY BatchConstants DEF Passing, GaveUp
<1> QED BY <1>2, <1>4, <1>5, <1>6 DEF SchedInv

-----------------------------------------------------------------------------
(* Which steps disturb what.                                               *)

\* The report is not disturbed by a step that leaves its variables alone and moves
\* no batch in or out of the tracked ones and the queue.
LEMMA ReportsKept ==
  ASSUME SchedInv, UNCHANGED reportVars,
         \A b \in Batches : (Tracked(b)' <=> Tracked(b)) /\ (pc'[b] = "queued" <=> pc[b] = "queued")
  PROVE  Counted' /\ Sections' /\ inFlight' \in 0..Cardinality(Batches)
<1>1. {b \in Batches : Tracked(b)}' = {b \in Batches : Tracked(b)}
  OBVIOUS
<1>2. Counted' /\ inFlight' \in 0..Cardinality(Batches)
  BY <1>1 DEF SchedInv, Counted, reportVars, TypeOK
<1>3. pending \subseteq Batches /\ sent \subseteq SUBSET Batches
  BY DEF SchedInv, TypeOK
<1>4. Sections'
  BY <1>3 DEF SchedInv, Sections, reportVars
<1> QED BY <1>2, <1>4

\* The units are not disturbed by a step that leaves their results alone and moves
\* no batch.
LEMMA UnitsKept ==
  ASSUME SchedInv, UNCHANGED <<pc, todo, unitVars>>,
         \A b \in Batches : late[b] => late'[b]
  PROVE  Resting' /\ \A b \in Batches : Passing(b)'
BY DEF SchedInv, Resting, Passing, GaveUp, InProgress, retryable, unitVars

\* The step of one unit of b.
UnitMoves(b, u) ==
    /\ \A v \in Units \ {u} : run'[v] = run[v] /\ err'[v] = err[v]
    /\ \A a \in Batches \ {b} : cur'[a] = cur[a] /\ todo'[a] = todo[a]
    /\ err[u] = "nil" => err'[u] = "nil" /\ run'[u] = run[u]
    /\ err'[u] = "nil" => run'[u] = "idle"
    /\ todo'[b] \subseteq todo[b] /\ u \notin todo'[b]
    /\ cur'[b] \in {u, NoUnit}

LEMMA UnitMovesKeep ==
  ASSUME SchedInv, NEW b \in Batches, NEW u \in UnitsOf[b], InProgress(b),
         UnitMoves(b, u), UNCHANGED <<pc, late>>
  PROVE  Resting' /\ \A a \in Batches : Passing(a)'
<1>1. Resting'
  BY DEF SchedInv, Resting, UnitMoves
<1>2. Passing(b)'
  <2>1. Passing(b) /\ UnitsOf[b] \subseteq Units
    BY BatchConstants DEF SchedInv
  <2>2. pc[b] \in {"first", "retry"}
    BY DEF InProgress
  <2> QED BY <2>1, <2>2 DEF Passing, UnitMoves, GaveUp, InProgress
<1>3. ASSUME NEW a \in Batches \ {b} PROVE Passing(a)'
  <2>1. Passing(a) /\ UnitsOf[a] \subseteq Units \ {u}
    BY BatchConstants DEF SchedInv
  <2> QED BY <2>1 DEF Passing, UnitMoves, GaveUp, InProgress, retryable
<1> QED BY <1>1, <1>2, <1>3

-----------------------------------------------------------------------------
(* The steps.                                                              *)

\* The results of the last action of a unit.
LEMMA SettleTypes ==
  ASSUME TypeOK, NEW b \in Batches, NEW u \in UnitsOf[b],
         NEW e \in {"nil", "offline", "disconnected", "other"}, NEW c \in BOOLEAN, Settle(b, u, e, c)
  PROVE  /\ cur' \in [Batches -> Units \union {NoUnit}] /\ run' \in [Units -> RunStates]
         /\ err' \in [Units -> Errors] /\ cause' \in [Units -> BOOLEAN] /\ direct' \subseteq Direct
         /\ \A v \in Units \ {u} : run'[v] = run[v] /\ err'[v] = err[v]
         /\ \A a \in Batches \ {b} : cur'[a] = cur[a]
         /\ cur'[b] = NoUnit /\ run'[u] = "idle" /\ err'[u] = e
<1>1. u \in Units
  BY BatchConstants
<1> QED BY <1>1 DEF Settle, TypeOK, RunStates, Errors

LEMMA FallBackTypes ==
  ASSUME TypeOK, NEW b \in Batches, NEW u \in UnitsOf[b], FallBack(u)
  PROVE  /\ cur' \in [Batches -> Units \union {NoUnit}] /\ run' \in [Units -> RunStates]
         /\ err' \in [Units -> Errors] /\ cause' \in [Units -> BOOLEAN] /\ direct' \subseteq Direct
         /\ \A v \in Units \ {u} : run'[v] = run[v]
         /\ err' = err /\ cur' = cur
<1>1. u \in Units
  BY BatchConstants
<1> QED BY <1>1 DEF FallBack, TypeOK, RunStates, Errors

LEMMA TakeUnitStep ==
  ASSUME SchedInv, NEW b \in Batches, NEW u \in UnitsOf[b], TakeUnit(b, u)
  PROVE  TypeOK' /\ UnitMoves(b, u)
<1>1. u \in Units /\ TypeOK /\ todo[b] \subseteq UnitsOf[b]
  BY BatchConstants DEF SchedInv, Passing
<1>2. todo' \in [Batches -> SUBSET Units]
  BY <1>1 DEF TakeUnit, TypeOK
<1>3. todo'[b] = todo[b] \ {u} /\ \A a \in Batches \ {b} : todo'[a] = todo[a]
  BY <1>1 DEF TakeUnit, TypeOK
<1>4. cur[b] = NoUnit /\ u \in todo[b] /\ InProgress(b) /\ (pc[b] = "first" => err[u] = "unset")
  BY DEF TakeUnit, SchedInv, Passing
<1>5. CASE /\ pc[b] = "first" \/ retryable(err[u])
           /\ cur' = [cur EXCEPT ![b] = u] /\ run' = [run EXCEPT ![u] = "checked"]
           /\ direct' = direct \union ({u} \intersect Direct) /\ UNCHANGED <<err, cause>>
  <2>1. TypeOK'
    BY <1>1, <1>2, <1>5 DEF TakeUnit, TypeOK, linkVars, reportVars
  <2>2. err[u] # "nil"
    BY <1>4, <1>5 DEF retryable
  <2>3. /\ cur'[b] = u /\ \A a \in Batches \ {b} : cur'[a] = cur[a]
        /\ \A v \in Units \ {u} : run'[v] = run[v]
    BY <1>1, <1>5 DEF TypeOK
  <2> QED BY <1>3, <1>5, <2>1, <2>2, <2>3 DEF UnitMoves
<1>6. CASE /\ pc[b] = "first" /\ err' = [err EXCEPT ![u] = "offline"]
           /\ cause' = [cause EXCEPT ![u] = TRUE] /\ UNCHANGED <<cur, run, direct>>
  <2>1. TypeOK'
    BY <1>1, <1>2, <1>6 DEF TakeUnit, TypeOK, linkVars, reportVars
  <2>2. err[u] # "nil"
    BY <1>4, <1>6
  <2>3. err'[u] = "offline" /\ \A v \in Units \ {u} : err'[v] = err[v]
    BY <1>1, <1>6 DEF TypeOK
  <2> QED BY <1>3, <1>4, <1>6, <2>1, <2>2, <2>3 DEF UnitMoves
<1>7. CASE UNCHANGED unitVars
  <2>1. TypeOK'
    BY <1>1, <1>2, <1>7 DEF TakeUnit, TypeOK, unitVars, linkVars, reportVars
  <2> QED BY <1>1, <1>3, <1>4, <1>7, <2>1 DEF UnitMoves, unitVars, SchedInv, Resting
<1> QED BY <1>5, <1>6, <1>7 DEF TakeUnit

\* A run that has begun is of a unit without a success, and stays the one of its batch.
LEMMA RunningUnit ==
  ASSUME SchedInv, NEW b \in Batches, NEW u \in UnitsOf[b], cur[b] = u, run[u] # "idle"
  PROVE  u \in Units /\ u # NoUnit /\ InProgress(b) /\ u \notin todo[b] /\ err[u] # "nil"
BY BatchConstants DEF SchedInv, Passing, Resting

LEMMA RunEnds ==
  ASSUME SchedInv, NEW b \in Batches, NEW u \in UnitsOf[b], cur[b] = u, run[u] # "idle",
         UNCHANGED <<pc, todo, late, reportVars, online, drops>>, cut' \subseteq cut,
         \/ FallBack(u)
         \/ \E e \in {"nil", "offline", "disconnected", "other"}, c \in BOOLEAN : Settle(b, u, e, c)
  PROVE  TypeOK' /\ UnitMoves(b, u)
<1>1. TypeOK /\ u \in Units /\ u \notin todo[b] /\ err[u] # "nil"
  BY RunningUnit DEF SchedInv
<1>2. CASE FallBack(u)
  BY <1>1, <1>2, FallBackTypes DEF TypeOK, UnitMoves, RunStates, Errors, reportVars
<1>3. ASSUME NEW e \in {"nil", "offline", "disconnected", "other"}, NEW c \in BOOLEAN,
             Settle(b, u, e, c)
      PROVE  TypeOK' /\ UnitMoves(b, u)
  BY <1>1, <1>3, SettleTypes DEF TypeOK, UnitMoves, RunStates, Errors, reportVars
<1> QED BY <1>2, <1>3

LEMMA UnitStep ==
  ASSUME SchedInv, NEW b \in Batches, NEW u \in UnitsOf[b], UnitSteps(b, u)
  PROVE  /\ TypeOK' /\ UnitMoves(b, u) /\ InProgress(b)
         /\ UNCHANGED <<pc, late, reportVars>>
<1>1. CASE TakeUnit(b, u)
  BY <1>1, TakeUnitStep DEF TakeUnit
<1>2. CASE UnitSend(b, u)
  <2>1. InProgress(b) /\ u \in Units /\ u \notin todo[b] /\ err[u] # "nil" /\ TypeOK
    BY <1>2, RunningUnit DEF UnitSend, SchedInv
  <2>2. UNCHANGED <<pc, todo, late, online, drops, reportVars>>
    BY <1>2 DEF UnitSend
  <2>3. CASE run' = [run EXCEPT ![u] = "sent"] /\ cut' = cut \ {u}
             /\ UNCHANGED <<cur, direct, err, cause>>
    <3>1. TypeOK'
      BY <2>1, <2>2, <2>3 DEF TypeOK, reportVars
    <3>2. UnitMoves(b, u)
      BY <1>2, <2>1, <2>2, <2>3 DEF TypeOK, UnitMoves, UnitSend
    <3> QED BY <2>1, <2>2, <3>1, <3>2
  <2>4. CASE cut' = cut /\ (FallBack(u) \/ Settle(b, u, IF u \in Restic THEN "offline" ELSE "other", TRUE))
    <3>1. FallBack(u) \/ \E e \in {"nil", "offline", "disconnected", "other"}, c \in BOOLEAN : Settle(b, u, e, c)
      BY <2>4
    <3>2. cur[b] = u /\ run[u] # "idle"
      BY <1>2 DEF UnitSend
    <3> QED BY <2>1, <2>2, <2>4, <3>1, <3>2, RunEnds
  <2> QED BY <1>2, <2>3, <2>4 DEF UnitSend
<1>3. CASE UnitCut(b, u)
  <2>1. FallBack(u) \/ \E e \in {"nil", "offline", "disconnected", "other"}, c \in BOOLEAN : Settle(b, u, e, c)
    BY <1>3 DEF UnitCut
  <2>2. UNCHANGED <<pc, todo, late, reportVars, online, drops, cut>> /\ cur[b] = u /\ run[u] # "idle"
    BY <1>3 DEF UnitCut, linkVars
  <2> QED BY <2>1, <2>2, RunEnds, RunningUnit
<1>4. ASSUME NEW ok \in BOOLEAN, UnitEnds(b, u, ok)
      PROVE  /\ TypeOK' /\ UnitMoves(b, u) /\ InProgress(b)
             /\ UNCHANGED <<pc, late, reportVars>>
  <2>1. FallBack(u) \/ \E e \in {"nil", "offline", "disconnected", "other"}, c \in BOOLEAN : Settle(b, u, e, c)
    BY <1>4 DEF UnitEnds
  <2>2. UNCHANGED <<pc, todo, late, reportVars, online, drops, cut>> /\ cur[b] = u /\ run[u] # "idle"
    BY <1>4 DEF UnitEnds, linkVars
  <2> QED BY <2>1, <2>2, RunEnds, RunningUnit
<1> QED BY <1>1, <1>2, <1>3, <1>4 DEF UnitSteps

\* A batch moves on, and none of its units does.
LEMMA BatchMoves ==
  ASSUME SchedInv, NEW b \in Batches, UNCHANGED <<unitVars, late>>,
         NEW p \in PcStates, pc' = [pc EXCEPT ![b] = p],
         NEW S \in SUBSET UnitsOf[b], todo' = [todo EXCEPT ![b] = S],
         cur[b] = NoUnit, p \notin {"idle", "spawned"},
         p = "first" => pc[b] = "spawned",
         ~GaveUp(b) /\ p \in {"ended", "marked", "queued"} =>
            late[b] \/ \A u \in UnitsOf[b] : ~retryable(err[u])
  PROVE  /\ Resting' /\ \A a \in Batches : Passing(a)'
         /\ pc' \in [Batches -> PcStates] /\ todo' \in [Batches -> SUBSET Units]
         /\ pc'[b] = p /\ \A a \in Batches \ {b} : pc'[a] = pc[a]
<1>1. TypeOK /\ Passing(b) /\ UnitsOf[b] \subseteq Units
  BY BatchConstants DEF SchedInv
<1>2. /\ pc' \in [Batches -> PcStates] /\ todo' \in [Batches -> SUBSET Units]
      /\ pc'[b] = p /\ \A a \in Batches \ {b} : pc'[a] = pc[a]
      /\ todo'[b] = S /\ \A a \in Batches \ {b} : todo'[a] = todo[a]
  BY <1>1 DEF TypeOK, PcStates
<1>3. Resting'
  BY DEF SchedInv, Resting, unitVars
<1>4. Passing(b)'
  BY <1>1, <1>2 DEF Passing, GaveUp, InProgress, retryable, unitVars
<1>5. \A a \in Batches \ {b} : Passing(a)'
  BY <1>2 DEF SchedInv, Passing, GaveUp, InProgress, retryable, unitVars
<1> QED BY <1>2, <1>3, <1>4, <1>5

LEMMA StartStep ==
  ASSUME SchedInv, NEW b \in Batches, runBackup(b) \/ trackBackupStart(b)
  PROVE  SchedInv'
<1>0. TypeOK /\ Passing(b) /\ UnitsOf[b] \in SUBSET UnitsOf[b] /\ UnitsOf[b] \subseteq Units
  BY BatchConstants DEF SchedInv
<1>1. CASE runBackup(b)
  <2>1. UNCHANGED <<todo, unitVars, late, linkVars, reportVars>> /\ pc[b] = "idle"
        /\ pc' = [pc EXCEPT ![b] = "spawned"]
    BY <1>1 DEF runBackup
  <2>2. pc'[b] = "spawned" /\ \A a \in Batches \ {b} : pc'[a] = pc[a]
    BY <1>0, <2>1 DEF TypeOK
  <2>3. \A a \in Batches : (Tracked(a)' <=> Tracked(a)) /\ (pc'[a] = "queued" <=> pc[a] = "queued")
    BY <2>1, <2>2 DEF Tracked
  <2>4. Counted' /\ Sections'
    BY <2>1, <2>3, ReportsKept
  <2>5. TypeOK'
    BY <1>0, <2>1 DEF TypeOK, unitVars, linkVars, reportVars
  <2>6. Resting'
    BY <2>1 DEF SchedInv, Resting, unitVars
  <2>7. \A a \in Batches : Passing(a)'
    BY <2>1, <2>2 DEF SchedInv, Passing, GaveUp, InProgress, retryable, unitVars
  <2> QED BY <2>4, <2>5, <2>6, <2>7 DEF SchedInv
<1>2. CASE trackBackupStart(b)
  <2>1. /\ UNCHANGED <<unitVars, late, linkVars, pending, timer, handle, sent, newest>>
        /\ pc[b] = "spawned" /\ pc' = [pc EXCEPT ![b] = "first"]
        /\ todo' = [todo EXCEPT ![b] = UnitsOf[b]] /\ inFlight' = inFlight + 1
    BY <1>2 DEF trackBackupStart
  <2>2. cur[b] = NoUnit
    BY <1>0, <2>1 DEF Passing, InProgress
  <2>3. /\ Resting' /\ \A a \in Batches : Passing(a)'
        /\ pc' \in [Batches -> PcStates] /\ todo' \in [Batches -> SUBSET Units]
        /\ pc'[b] = "first" /\ \A a \in Batches \ {b} : pc'[a] = pc[a]
    BY <1>0, <2>1, <2>2, BatchMoves DEF PcStates
  <2>4. Counted'
    <3>1. Cardinality({a \in Batches : Tracked(a)'}) = Cardinality({a \in Batches : Tracked(a)}) + 1
      BY <2>1, <2>3, OneMore DEF Tracked
    <3> QED BY <2>1, <3>1 DEF SchedInv, Counted
  <2>5. inFlight' \in 0..Cardinality(Batches)
    <3>1. Cardinality({a \in Batches : Tracked(a)'}) \in 0..Cardinality(Batches)
      BY SomeBatches
    <3> QED BY <2>4, <3>1 DEF Counted
  <2>6. Sections'
    BY <1>0, <2>1, <2>3 DEF SchedInv, Sections, TypeOK
  <2>7. TypeOK'
    BY <1>0, <2>1, <2>3, <2>5 DEF TypeOK, PcStates, unitVars, linkVars
  <2> QED BY <2>3, <2>4, <2>6, <2>7 DEF SchedInv
<1> QED BY <1>1, <1>2

\* Between the start and the report.
LEMMA PassStep ==
  ASSUME SchedInv, NEW b \in Batches, PassEnds(b) \/ WakeUp(b) \/ MarkScheduleRun(b)
  PROVE  SchedInv'
<1>0. TypeOK /\ Passing(b) /\ UnitsOf[b] \in SUBSET UnitsOf[b] /\ {} \in SUBSET UnitsOf[b]
      /\ todo[b] \in SUBSET UnitsOf[b]
  BY DEF SchedInv, Passing
<1>1. UNCHANGED <<unitVars, late, linkVars, reportVars>>
  BY DEF PassEnds, WakeUp, MarkScheduleRun
<1>2. ASSUME Tracked(b), NEW p \in PcStates, pc' = [pc EXCEPT ![b] = p], p \in {"retry", "sleeping", "ended", "marked"},
             NEW S \in SUBSET UnitsOf[b], todo' = [todo EXCEPT ![b] = S],
             cur[b] = NoUnit,
             ~GaveUp(b) /\ p \in {"ended", "marked", "queued"} =>
                late[b] \/ \A u \in UnitsOf[b] : ~retryable(err[u])
      PROVE  SchedInv'
  <2>1. /\ Resting' /\ \A a \in Batches : Passing(a)'
        /\ pc' \in [Batches -> PcStates] /\ todo' \in [Batches -> SUBSET Units]
        /\ pc'[b] = p /\ \A a \in Batches \ {b} : pc'[a] = pc[a]
    BY <1>1, <1>2, BatchMoves
  <2>2. \A a \in Batches : (Tracked(a)' <=> Tracked(a)) /\ (pc'[a] = "queued" <=> pc[a] = "queued")
    BY <1>2, <2>1 DEF Tracked
  <2>3. Counted' /\ Sections'
    BY <1>1, <2>2, ReportsKept
  <2>4. TypeOK'
    BY <1>0, <1>1, <2>1 DEF TypeOK, PcStates, unitVars, linkVars, reportVars
  <2> QED BY <2>1, <2>3, <2>4 DEF SchedInv
<1>3. todo = [todo EXCEPT ![b] = todo[b]]
  BY <1>0 DEF TypeOK
<1>4. CASE PassEnds(b)
  <2>1. CASE pc[b] = "first"
    BY <1>0, <1>2, <1>4, <2>1 DEF PassEnds, Tracked, PcStates
  <2>2. CASE pc[b] = "retry"
    <3>1. CASE \E u \in UnitsOf[b] : retryable(err[u])
      BY <1>0, <1>2, <1>3, <1>4, <2>2, <3>1 DEF PassEnds, Tracked, PcStates
    <3>2. CASE ~\E u \in UnitsOf[b] : retryable(err[u])
      BY <1>0, <1>2, <1>3, <1>4, <2>2, <3>2 DEF PassEnds, Tracked, PcStates
    <3> QED BY <3>1, <3>2
  <2> QED BY <1>4, <2>1, <2>2 DEF PassEnds
<1>5. CASE WakeUp(b)
  <2>1. pc[b] = "sleeping" /\ cur[b] = NoUnit
    BY <1>0, <1>5 DEF WakeUp, Passing, InProgress
  <2>2. CASE late[b]
    BY <1>0, <1>2, <1>5, <2>1, <2>2 DEF WakeUp, Tracked, PcStates
  <2>3. CASE ~late[b]
    BY <1>0, <1>2, <1>5, <2>1, <2>3 DEF WakeUp, Tracked, PcStates
  <2> QED BY <2>2, <2>3
<1>6. CASE MarkScheduleRun(b)
  <2>1. pc[b] = "ended" /\ cur[b] = NoUnit /\ pc' = [pc EXCEPT ![b] = "marked"] /\ todo' = todo
    BY <1>0, <1>6 DEF MarkScheduleRun, Passing, InProgress
  <2> QED BY <1>0, <1>2, <1>3, <2>1 DEF GaveUp, Tracked, PcStates
<1> QED BY <1>4, <1>5, <1>6

\* The section of b moves from the batch to the queue.
LEMMA QueueStep ==
  ASSUME SchedInv, NEW b \in Batches, queueBackupReport(b)
  PROVE  SchedInv'
<1>0. TypeOK /\ Passing(b) /\ todo[b] \in SUBSET UnitsOf[b]
  BY DEF SchedInv, Passing
<1>1. /\ UNCHANGED <<todo, unitVars, late, linkVars, sent>> /\ pc[b] = "marked"
      /\ pc' = [pc EXCEPT ![b] = "queued"] /\ inFlight' = inFlight - 1
      /\ pending' = pending \union {b} /\ newest' = b
  BY DEF queueBackupReport
<1>2. cur[b] = NoUnit /\ todo' = [todo EXCEPT ![b] = todo[b]]
  BY <1>0, <1>1 DEF Passing, InProgress, TypeOK
<1>3. /\ Resting' /\ \A a \in Batches : Passing(a)'
      /\ pc' \in [Batches -> PcStates]
      /\ pc'[b] = "queued" /\ \A a \in Batches \ {b} : pc'[a] = pc[a]
  BY <1>0, <1>1, <1>2, BatchMoves DEF PcStates, GaveUp
<1>4. Counted'
  <2>1. Cardinality({a \in Batches : Tracked(a)'}) = Cardinality({a \in Batches : Tracked(a)}) - 1
    BY <1>1, <1>3, OneLess DEF Tracked
  <2> QED BY <1>1, <2>1 DEF SchedInv, Counted
<1>5. inFlight' \in 0..Cardinality(Batches)
  <2>1. Cardinality({a \in Batches : Tracked(a)'}) \in 0..Cardinality(Batches)
    BY SomeBatches
  <2> QED BY <1>4, <2>1 DEF Counted
<1>6. Sections'
  BY <1>0, <1>1, <1>3 DEF SchedInv, Sections, TypeOK
<1>7. /\ timer' \in [Batches -> {"none", "armed", "stopped", "fired", "done"}]
      /\ handle' \in Batches \union {NoBatch}
  BY <1>0 DEF queueBackupReport, TypeOK
<1>8. TypeOK'
  BY <1>0, <1>1, <1>3, <1>5, <1>7 DEF TypeOK, PcStates, unitVars, linkVars
<1> QED BY <1>3, <1>4, <1>6, <1>8 DEF SchedInv

\* And from the queue to a report.
LEMMA FlushStep ==
  ASSUME SchedInv, NEW b \in Batches, flushBackupReports(b)
  PROVE  SchedInv'
<1>0. TypeOK
  BY DEF SchedInv
<1>1. UNCHANGED <<pc, todo, unitVars, late, linkVars, inFlight, newest>>
      /\ timer' = [timer EXCEPT ![b] = "done"]
  BY DEF flushBackupReports
<1>2. Resting' /\ \A a \in Batches : Passing(a)'
  BY <1>1, UnitsKept
<1>3. Counted'
  BY <1>1 DEF SchedInv, Counted, Tracked
<1>4. CASE UNCHANGED <<pending, handle, sent>>
  <2>1. TypeOK'
    BY <1>0, <1>1, <1>4 DEF TypeOK, unitVars, linkVars
  <2>2. Sections'
    BY <1>1, <1>4 DEF SchedInv, Sections
  <2> QED BY <1>2, <1>3, <2>1, <2>2 DEF SchedInv
<1>5. CASE sent' = sent \union {pending} /\ pending' = {} /\ handle' = NoBatch
  <2>1. TypeOK'
    BY <1>0, <1>1, <1>5 DEF TypeOK, unitVars, linkVars
  <2>2. Sections'
    BY <1>1, <1>5 DEF SchedInv, Sections
  <2> QED BY <1>2, <1>3, <2>1, <2>2 DEF SchedInv
<1> QED BY <1>4, <1>5 DEF flushBackupReports

\* The connections, the window and the timers.
LEMMA AroundStep ==
  ASSUME SchedInv,
         \/ \E b \in Batches : WindowElapses(b) \/ TimerFires(b)
         \/ \E n \in Nodes : NodeDrops(n) \/ NodeReturns(n)
  PROVE  SchedInv'
<1>0. TypeOK
  BY DEF SchedInv
<1>1. /\ UNCHANGED <<pc, todo, unitVars, inFlight, pending, sent>>
      /\ TypeOK' /\ \A b \in Batches : late[b] => late'[b]
  <2>1. ASSUME NEW b \in Batches, WindowElapses(b)
        PROVE  /\ UNCHANGED <<pc, todo, unitVars, inFlight, pending, sent>>
               /\ TypeOK' /\ \A a \in Batches : late[a] => late'[a]
    BY <1>0, <2>1 DEF WindowElapses, TypeOK, unitVars, linkVars, reportVars
  <2>2. ASSUME NEW b \in Batches, TimerFires(b)
        PROVE  /\ UNCHANGED <<pc, todo, unitVars, inFlight, pending, sent>>
               /\ TypeOK' /\ \A a \in Batches : late[a] => late'[a]
    BY <1>0, <2>2 DEF TimerFires, TypeOK, unitVars, linkVars
  <2>3. ASSUME NEW n \in Nodes, NodeDrops(n) \/ NodeReturns(n)
        PROVE  /\ UNCHANGED <<pc, todo, unitVars, inFlight, pending, sent>>
               /\ TypeOK' /\ \A a \in Batches : late[a] => late'[a]
    <3>1. UNCHANGED <<pc, todo, unitVars, late, reportVars>>
      BY <2>3 DEF NodeDrops, NodeReturns
    <3>2. online' \in [Nodes -> BOOLEAN] /\ cut' \subseteq Units
      BY <1>0, <2>3 DEF NodeDrops, NodeReturns, TypeOK
    <3>3. drops' \in 0..MaxDrops
      BY <1>0, <2>3, BatchConstants DEF NodeDrops, NodeReturns, TypeOK
    <3> QED BY <1>0, <3>1, <3>2, <3>3 DEF TypeOK, unitVars, reportVars
  <2> QED BY <2>1, <2>2, <2>3
<1>2. Resting' /\ \A a \in Batches : Passing(a)'
  BY <1>1, UnitsKept
<1>3. Counted' /\ Sections'
  BY <1>1 DEF SchedInv, Counted, Tracked, Sections
<1> QED BY <1>1, <1>2, <1>3 DEF SchedInv

LEMMA SchedStep == SchedInv /\ [Next]_vars => SchedInv'
<1> SUFFICES ASSUME SchedInv, [Next]_vars PROVE SchedInv'
  OBVIOUS
<1>1. ASSUME NEW b \in Batches, NEW u \in UnitsOf[b], UnitSteps(b, u) PROVE SchedInv'
  <2>1. TypeOK' /\ Resting' /\ \A a \in Batches : Passing(a)'
    BY <1>1, UnitStep, UnitMovesKeep
  <2>2. Counted' /\ Sections'
    BY <1>1, UnitStep, ReportsKept DEF Tracked
  <2> QED BY <2>1, <2>2 DEF SchedInv
<1>2. CASE UNCHANGED vars
  BY <1>2 DEF vars, SchedInv, TypeOK, Resting, Passing, GaveUp, InProgress, retryable, Counted,
              Tracked, Sections
<1> QED
  BY <1>1, <1>2, StartStep, PassStep, QueueStep, FlushStep, AroundStep DEF Next, BatchSteps

LEMMA SchedInvariant == Spec => []SchedInv
  BY SchedInit, SchedStep, PTL DEF Spec

-----------------------------------------------------------------------------
(* The theorems.                                                           *)

LEMMA OncePerSection == SchedInv => SectionsExactlyOnce
<1> SUFFICES ASSUME SchedInv, NEW b \in Batches
             PROVE  LET reports == Cardinality({r \in sent : b \in r})
                    IN  IF b \in pending THEN pc[b] = "queued" /\ reports = 0
                        ELSE reports = IF pc[b] = "queued" THEN 1 ELSE 0
  BY DEF SectionsExactlyOnce
<1> DEFINE R == {r \in sent : b \in r}
<1>1. Sections
  BY DEF SchedInv
<1>2. Cardinality({}) = 0 /\ \A r : Cardinality({r}) = 1
  BY FS_EmptySet, FS_Singleton
<1>3. CASE \A r \in sent : b \notin r
  <2>1. R = {}
    BY <1>3
  <2> QED BY <1>1, <1>2, <1>3, <2>1 DEF Sections
<1>4. ASSUME NEW r \in sent, b \in r
      PROVE  pc[b] = "queued" /\ b \notin pending /\ Cardinality(R) = 1
  <2>1. R = {r}
    BY <1>1, <1>4 DEF Sections
  <2> QED BY <1>1, <1>2, <1>4, <2>1 DEF Sections
<1> QED BY <1>3, <1>4

\* The section of every batch is in exactly one place, whatever timers fire.
THEOREM SectionsOnce == Spec => []BatchInv
<1>1. SchedInv => BatchInv
  BY OncePerSection DEF SchedInv, BatchInv
<1> QED BY <1>1, SchedInvariant, PTL

\* A unit whose node was away is given up only when the window has elapsed.
THEOREM GivenUpLate == Spec => []RetriedUntilLate
<1>1. SchedInv => RetriedUntilLate
  BY DEF SchedInv, Passing, GaveUp, RetriedUntilLate
<1> QED BY <1>1, SchedInvariant, PTL

\* No report while a batch runs, and no second run of what was backed up.
THEOREM ReportsAndRetries == Spec => BatchStepsSound
<1>1. SchedInv /\ [Next]_vars =>
        [\A b \in Batches : flushBackupReports(b) /\ sent' # sent => \A a \in Batches : ~Tracked(a)]_vars
  BY NoneTracked DEF SchedInv, flushBackupReports
<1>2. SchedInv /\ [Next]_vars =>
        [\A u \in Units : err[u] = "nil" => run'[u] = "idle" /\ err'[u] = "nil"]_vars
  <2> SUFFICES ASSUME SchedInv, Next, NEW u \in Units, err[u] = "nil"
               PROVE  run'[u] = "idle" /\ err'[u] = "nil"
    BY DEF vars
  <2>1. run[u] = "idle"
    BY DEF SchedInv, Resting
  <2>2. ASSUME NEW b \in Batches, NEW v \in UnitsOf[b], UnitSteps(b, v)
        PROVE  run'[u] = "idle" /\ err'[u] = "nil"
    BY <2>1, <2>2, UnitStep DEF UnitMoves
  <2>3. CASE UNCHANGED <<run, err>>
    BY <2>1, <2>3
  <2> QED
    BY <2>2, <2>3
    DEF Next, BatchSteps, runBackup, trackBackupStart, PassEnds, WakeUp, MarkScheduleRun,
        queueBackupReport, WindowElapses, TimerFires, flushBackupReports, NodeDrops, NodeReturns,
        unitVars
<1> QED
  BY <1>1, <1>2, SchedInvariant, PTL
  DEF Spec, BatchStepsSound, QuietWhenReporting, SucceededNotRerun
=============================================================================
