--------------------------- MODULE ContainerMonitor ---------------------------
(***************************************************************************)
(* The alarm for containers in a bad state (monitor/monitor.go): the loop  *)
(* reads the inventory, finds what is bad by the name it is shown under,   *)
(* and announces what was not bad at the last scan.                        *)
(*                                                                         *)
(* State is "running", "crashed" (exited with a code, dead, restarting),   *)
(* "stopped" (exited with code 0) or "absent" from the inventory.          *)
(***************************************************************************)
EXTENDS Naturals

CONSTANTS
    Watched,        \* containers of a node
    Shown,          \* names they may be shown under
    MaxIncidents    \* bound: renames, restarts, failed messages, missing rows

States == {"running", "crashed", "stopped", "absent"}
ASSUME MonitorConstants == MaxIncidents \in Nat

VARIABLES
    state,          \* state[c]: what the inventory says
    shown,          \* shown[c]: display name, or its own
    notified,       \* names that were bad at the last scan
    outbox,         \* the message being sent
    outage,         \* outage[c]: scans since c crashed announced it so often
    told,           \* told[c]: a message has named c since it crashed
    incidents

mVars == <<state, shown, notified, outbox, outage, told, incidents>>

MonitorInit ==
    /\ state = [c \in Watched |-> "running"]
    /\ shown \in {f \in [Watched -> Shown] : \A c, d \in Watched : f[c] = f[d] => c = d}
    /\ notified = {} /\ outbox = {}
    /\ outage = [c \in Watched |-> 0]
    /\ told = [c \in Watched |-> FALSE]
    /\ incidents = 0

Incident == incidents < MaxIncidents /\ incidents' = incidents + 1

-----------------------------------------------------------------------------
(* Faulty variant of a definition below: only what was announced last is   *)
(* known, so that an ongoing outage drops out.                             *)

KnownFresh(bad) == {shown[c] : c \in bad} \ notified

-----------------------------------------------------------------------------
(* Reports of the agent, administrators, the process.                      *)

\* A row that is absent for a report and crashed in the next is one outage.
Reported ==
    /\ \E c \in Watched : \E s \in States \ {state[c]} :
        /\ state' = [state EXCEPT ![c] = s]
        /\ IF s = "absent" THEN Incident ELSE incidents' = incidents
        /\ IF s \in {"running", "stopped"}
           THEN outage' = [outage EXCEPT ![c] = 0] /\ told' = [told EXCEPT ![c] = FALSE]
           ELSE UNCHANGED <<outage, told>>
    /\ UNCHANGED <<shown, notified, outbox>>

\* SetContainerName: any name, also one that another container is shown under.
SetContainerName ==
    /\ Incident
    /\ \E c \in Watched, n \in Shown : shown' = [shown EXCEPT ![c] = n]
    /\ UNCHANGED <<state, notified, outbox, outage, told>>

MonitorRestarts ==
    /\ Incident
    /\ notified' = {} /\ outbox' = {}
    /\ UNCHANGED <<state, shown, outage, told>>

-----------------------------------------------------------------------------
(* scan.                                                                   *)

Bad == {c \in Watched : state[c] = "crashed"}

\* The known names become the bad ones: who recovered drops out.
Known(bad) == {shown[c] : c \in bad}

MonitorScan ==
    /\ outbox = {}
    /\ LET fresh == {c \in Bad : shown[c] \notin notified} IN
        /\ outbox' = {shown[c] : c \in fresh}
        /\ outage' = [c \in Watched |-> IF c \in fresh THEN outage[c] + 1 ELSE outage[c]]
    /\ notified' = Known(Bad)
    /\ UNCHANGED <<state, shown, told, incidents>>

\* Notify: one message for all of them; its error is dropped.
NotifyBad ==
    /\ outbox # {}
    /\ \/ /\ told' = [c \in Watched |-> told[c] \/ (c \in Bad /\ shown[c] \in outbox)]
          /\ incidents' = incidents
       \/ Incident /\ told' = told
    /\ outbox' = {}
    /\ UNCHANGED <<state, shown, notified, outage>>

MonitorNext == Reported \/ SetContainerName \/ MonitorRestarts \/ MonitorScan \/ NotifyBad

MonitorSpec == MonitorInit /\ [][MonitorNext]_mVars
MonitorFairness == WF_mVars(MonitorScan \/ NotifyBad)

MonitorLiveSpec == MonitorSpec /\ MonitorFairness

-----------------------------------------------------------------------------
(* Properties.                                                             *)

\* "Each container is announced once until it recovers": more often only after a
\* rename, a restart of the panel or a report without the container.
OutageOnce == \A c \in Watched : outage[c] <= 1 + incidents

\* "Each container is announced once until it recovers": a message names every
\* container that stays crashed.
EveryCrashTold == \A c \in Watched : (<>[](state[c] = "crashed")) => <>(told[c])
=============================================================================
