----------------------------- MODULE NodeRestore -----------------------------
(***************************************************************************)
(* Container restores as a node carries them out (agent/backup.go,         *)
(* handleRestore and recreateContainer): every request runs in a goroutine *)
(* of its own, beside other restores, other services and the               *)
(* administrators of the host, with Docker as the only arbiter.  The       *)
(* preflight that predicts collisions, and the status the master makes of  *)
(* an answer, are here too (backup/service.go, Preflight,                  *)
(* mapRestoreResult).                                                      *)
(***************************************************************************)
EXTENDS Naturals, FiniteSets

CONSTANTS
    Restores,       \* requests for this node
    Snapshots,      \* what the archives may say: functions from Restores
    HostPorts,      \* ports of the host
    MaxRivals,      \* bound: ports taken and networks removed by others, repeated requests
    MaxMishaps      \* bound: failures of downloads, disks and Docker, restarts, containers removed

NoOne == "free"     \* a name without a container, and what made none
Leftover == "left"  \* made by a restore that was killed

Snapshot == [name : STRING, image : STRING, port : HostPorts, pull : BOOLEAN]
ASSUME NodeRestoreConstants ==
    /\ \A s \in Snapshots : \A r \in Restores :
        /\ s[r].port \in HostPorts /\ s[r].pull \in BOOLEAN
    /\ {NoOne, Leftover} \intersect Restores = {}
    /\ MaxRivals \in Nat /\ MaxMishaps \in Nat

VARIABLES
    snap,       \* snap[r]: name, image, published port and AutoPull of a restore
    box,        \* box[n]: the container under a name
    taken,      \* ports other services listen on
    network,    \* the network of the snapshots exists
    images,     \* images on the host
    task,       \* task[r]: where a restore stands, and what it will create
    status,     \* status[r]: what the master recorded
    report,     \* what the preflight said of all the archives, until a restore begins
    rivals, mishaps

nrVars == <<snap, box, taken, network, images, task, status, report, rivals, mishaps>>
hostVars == <<taken, network, images>>

NoBox == [by |-> NoOne, running |-> FALSE, port |-> 0, bridge |-> FALSE]
NoReport == [made |-> FALSE, conflicts |-> {}, imagePresent |-> FALSE]
NewTask == [pc |-> "download", port |-> 0, bridge |-> FALSE, pulled |-> FALSE, skipped |-> FALSE]
SnapNames == UNION {{s[r].name : r \in Restores} : s \in Snapshots}
SnapImages == UNION {{s[r].image : r \in Restores} : s \in Snapshots}

NodeRestoreInit ==
    /\ snap \in Snapshots
    /\ box = [n \in SnapNames |-> NoBox]
    /\ taken \in {T \in SUBSET HostPorts : Cardinality(T) <= 1}
    /\ network \in BOOLEAN
    /\ images \in SUBSET SnapImages
    /\ task = [r \in Restores |-> NewTask]
    /\ status = [r \in Restores |-> "running"]
    /\ report = NoReport
    /\ rivals = 0 /\ mishaps = 0

Rival == rivals < MaxRivals /\ rivals' = rivals + 1
Mishap == mishaps < MaxMishaps /\ mishaps' = mishaps + 1
Quiet == UNCHANGED <<rivals, mishaps>>

\* portBindable: nobody listens.
Bindable(p) == p \notin taken /\ \A n \in SnapNames : ~(box[n].running /\ box[n].port = p)
FreePorts == {p \in HostPorts : Bindable(p)}

-----------------------------------------------------------------------------
(* mapRestoreResult over the answer of the agent.                          *)

Answered(r, ok, recreated) ==
    /\ task' = [task EXCEPT ![r].pc = "answered"]
    /\ status' = [status EXCEPT ![r] = IF ~ok THEN "failed" ELSE IF recreated THEN "ok" ELSE "partial"]
Failed(r) == Answered(r, FALSE, FALSE)
Goes(r, there) == task' = [task EXCEPT ![r] = there] /\ status' = status

Removed(r) == [box EXCEPT ![snap[r].name] = IF @.by = r THEN NoBox ELSE @]

-----------------------------------------------------------------------------
(* Faulty variants of definitions below, each a bug the code could have.   *)

\* The fallback over a port starts without removing the container first, and gives
\* up on the name that is taken.
StartPortTakenKeeps(r) ==
    /\ task[r].pc = "start" /\ box[snap[r].name].by = r /\ ~Bindable(task[r].port)
    /\ box' = box
    /\ Failed(r)
    /\ Quiet /\ UNCHANGED <<snap, hostVars, report>>

\* A port that was taken between the check and the start is an error.
StartPortTakenFails(r) ==
    /\ task[r].pc = "start" /\ box[snap[r].name].by = r /\ ~Bindable(task[r].port)
    /\ box' = Removed(r)
    /\ Failed(r)
    /\ Quiet /\ UNCHANGED <<snap, hostVars, report>>

-----------------------------------------------------------------------------
(* handleRestore.                                                          *)

\* One pass over the stream.  An entry that cannot be written is skipped; a broken
\* download or archive is an error.
Extract(r) ==
    /\ task[r].pc = "download"
    /\ \/ Goes(r, [task[r] EXCEPT !.pc = "probe"]) /\ Quiet
       \/ Goes(r, [task[r] EXCEPT !.pc = "probe", !.skipped = TRUE]) /\ Mishap /\ rivals' = rivals
       \/ Failed(r) /\ Mishap /\ rivals' = rivals
    /\ report' = NoReport
    /\ UNCHANGED <<snap, box, hostVars>>

\* A container of that name stays as it is; otherwise remapPorts moves a port that
\* is in use, if there is another.
Probe(r) ==
    LET wanted == snap[r].port IN
    /\ task[r].pc = "probe"
    /\ IF box[snap[r].name] # NoBox THEN Answered(r, TRUE, FALSE)
       ELSE \E p \in IF Bindable(wanted) \/ FreePorts = {} THEN {wanted} ELSE FreePorts :
                Goes(r, [task[r] EXCEPT !.pc = "networks", !.port = p])
    /\ Quiet /\ UNCHANGED <<snap, box, hostVars, report>>

\* ensureNetworks: there already, made now, or a note and nothing.
EnsureNetworks(r) ==
    /\ task[r].pc = "networks"
    /\ Goes(r, [task[r] EXCEPT !.pc = "create"])
    /\ \/ network' = TRUE /\ Quiet
       \/ ~network /\ network' = FALSE /\ Mishap /\ rivals' = rivals
    /\ UNCHANGED <<snap, box, taken, images, report>>

\* Docker makes the container: the name must be free.
Make(r, bridge) ==
    box' = [box EXCEPT ![snap[r].name] =
                [by |-> r, running |-> FALSE, port |-> task[r].port, bridge |-> bridge]]

Create(r) ==
    LET s == snap[r] IN
    /\ task[r].pc = "create"
    /\ \/ /\ s.image \in images /\ box[s.name] = NoBox
          /\ Make(r, FALSE) /\ Goes(r, [task[r] EXCEPT !.pc = "start"]) /\ Quiet
       \/ /\ s.image \in images /\ box' = box
          /\ Failed(r) /\ IF box[s.name] # NoBox THEN Quiet ELSE Mishap /\ rivals' = rivals
       \/ /\ s.image \notin images /\ (task[r].pulled \/ ~s.pull) /\ box' = box
          /\ Failed(r) /\ Quiet
    /\ UNCHANGED <<snap, hostVars, report>>

\* AutoPull, once.
PullImage(r) ==
    /\ task[r].pc = "create" /\ snap[r].image \notin images /\ snap[r].pull /\ ~task[r].pulled
    /\ \/ images' = images \union {snap[r].image} /\ Goes(r, [task[r] EXCEPT !.pulled = TRUE]) /\ Quiet
       \/ images' = images /\ Failed(r) /\ Mishap /\ rivals' = rivals
    /\ UNCHANGED <<snap, box, taken, network, report>>

\* Docker looks for the network at start; should it do so at create, the 404 passes
\* for a missing image, and only after a pull comes the fallback to bridge.
CreateWithoutNetwork(r) ==
    /\ task[r].pc = "create" /\ ~network
    /\ IF snap[r].pull /\ box[snap[r].name] = NoBox
       THEN /\ Make(r, TRUE) /\ Goes(r, [task[r] EXCEPT !.pc = "start", !.bridge = TRUE])
            /\ images' = images \union {snap[r].image}
       ELSE box' = box /\ Failed(r) /\ images' = images
    /\ Mishap /\ UNCHANGED <<snap, taken, network, report, rivals>>

Started(r) ==
    /\ box[snap[r].name].by = r /\ Bindable(task[r].port) /\ (task[r].bridge \/ network)
    /\ box' = [box EXCEPT ![snap[r].name].running = TRUE]
    /\ Answered(r, TRUE, TRUE)

Start(r) ==
    /\ task[r].pc \in {"start", "restart"}
    /\ Started(r)
    /\ Quiet /\ UNCHANGED <<snap, hostVars, report>>

\* The network is looked for at start: removed, and once more on the default bridge.
StartNetworkMissing(r) ==
    /\ task[r].pc = "start" /\ box[snap[r].name].by = r /\ ~network /\ ~task[r].bridge
    /\ box' = Removed(r)
    /\ Goes(r, [task[r] EXCEPT !.pc = "again", !.bridge = TRUE])
    /\ Quiet /\ UNCHANGED <<snap, hostVars, report>>

\* "port is already allocated": removed, and once more on a port that is free.
StartPortTaken(r) ==
    /\ task[r].pc = "start" /\ box[snap[r].name].by = r /\ ~Bindable(task[r].port)
    /\ box' = Removed(r)
    /\ IF FreePorts = {} THEN Failed(r)
       ELSE \E p \in FreePorts : Goes(r, [task[r] EXCEPT !.pc = "again", !.port = p])
    /\ Quiet /\ UNCHANGED <<snap, hostVars, report>>

CreateAgain(r) ==
    /\ task[r].pc = "again"
    /\ IF box[snap[r].name] = NoBox
       THEN Make(r, task[r].bridge) /\ Goes(r, [task[r] EXCEPT !.pc = "restart"])
       ELSE box' = box /\ Failed(r)
    /\ Quiet /\ UNCHANGED <<snap, hostVars, report>>

\* Any other error, and any error of the second start: removed, and failed.
StartFails(r) ==
    /\ task[r].pc \in {"start", "restart"}
    /\ LET missing == box[snap[r].name].by # r
           again == task[r].pc = "restart" /\ (~Bindable(task[r].port) \/ ~(task[r].bridge \/ network)) IN
       IF missing \/ again THEN Quiet ELSE Mishap /\ rivals' = rivals
    /\ box' = Removed(r)
    /\ Failed(r)
    /\ UNCHANGED <<snap, hostVars, report>>

RestoreSteps(r) ==
    \/ Extract(r) \/ Probe(r) \/ EnsureNetworks(r) \/ Create(r) \/ PullImage(r)
    \/ CreateWithoutNetwork(r) \/ Start(r) \/ StartNetworkMissing(r) \/ StartPortTaken(r)
    \/ CreateAgain(r) \/ StartFails(r)

-----------------------------------------------------------------------------
(* The preflight, and the rest of the host.                                *)

\* handlePreflight: each port once; of the images the last is kept.
PreflightAnswer(last) ==
    [made |-> TRUE,
     conflicts |-> {p \in {snap[r].port : r \in Restores} : ~Bindable(p)},
     imagePresent |-> snap[last].image \in images]

\* All items of the archives go in one request.
Preflight ==
    /\ \A r \in Restores : task[r].pc = "download"
    /\ \E last \in Restores : report' = PreflightAnswer(last)
    /\ report' # report
    /\ UNCHANGED <<snap, box, hostVars, task, status, rivals, mishaps>>

OthersAct ==
    /\ \/ /\ \E p \in FreePorts : taken' = taken \union {p}
          /\ Rival /\ UNCHANGED <<box, network, images, mishaps>>
       \/ /\ network /\ \A n \in SnapNames : box[n].running => box[n].bridge
          /\ network' = FALSE
          /\ Rival /\ UNCHANGED <<box, taken, images, mishaps>>
       \/ /\ \E n \in SnapNames : box[n] # NoBox /\ box' = [box EXCEPT ![n] = NoBox]
          /\ Mishap /\ UNCHANGED <<taken, network, images, rivals>>
    /\ UNCHANGED <<snap, task, status, report>>

PortFreed ==
    /\ \E p \in taken : taken' = taken \ {p}
    /\ UNCHANGED <<snap, box, network, images, task, status, report, rivals, mishaps>>

\* The agent restarts: the master fails what it was waiting for.
AgentDies ==
    /\ \E r \in Restores : task[r].pc # "answered"
    /\ Mishap /\ rivals' = rivals
    /\ task' = [r \in Restores |-> [task[r] EXCEPT !.pc = "answered"]]
    /\ status' = [r \in Restores |-> IF task[r].pc = "answered" THEN status[r] ELSE "failed"]
    /\ box' = [n \in SnapNames |->
                IF box[n].by \in Restores /\ ~box[n].running THEN [box[n] EXCEPT !.by = Leftover] ELSE box[n]]
    /\ UNCHANGED <<snap, hostVars, report>>

\* An administrator asks for a failed restore again.
AskAgain(r) ==
    /\ task[r].pc = "answered" /\ status[r] = "failed"
    /\ Rival /\ mishaps' = mishaps
    /\ task' = [task EXCEPT ![r] = NewTask]
    /\ status' = [status EXCEPT ![r] = "running"]
    /\ UNCHANGED <<snap, box, hostVars, report>>

NodeRestoreNext ==
    \/ Preflight \/ OthersAct \/ PortFreed \/ AgentDies
    \/ \E r \in Restores : RestoreSteps(r) \/ AskAgain(r)

NodeRestoreSpec == NodeRestoreInit /\ [][NodeRestoreNext]_nrVars

-----------------------------------------------------------------------------
(* Properties.                                                             *)

\* A restore that the agent answered with an error has no container left on the
\* host, so that the name is free for the next attempt, whatever fallback it was in.
FailedLeavesNothing ==
    \A r \in Restores : status[r] = "failed" => \A n \in SnapNames : box[n].by # r

\* "we proactively remap occupied ports ..., and if docker still rejects a port at
\* start, force a full remap and retry once": a restore that may pull its image is not
\* failed by a single change that another restore or the host made under it.
Shared(r) == \E q \in Restores \ {r} : snap[q].name = snap[r].name
OneRivalAbsorbed ==
    \A r \in Restores :
        status[r] = "failed" /\ mishaps = 0 /\ ~Shared(r) /\ snap[r].pull =>
            rivals + Cardinality({q \in Restores \ {r} : status[q] = "ok"}) >= 2

\* "ok (data restored AND rebuilt)" (mapRestoreResult): nothing of the archive is missing.
OkMeansRestored == \A r \in Restores : status[r] = "ok" => ~task[r].skipped

\* "keep image/size items as-is (the agent aggregates them for the disk/image
\* check)" (Preflight): the image is present only if every archive's is.
PreflightImages ==
    [][report' # report /\ report'.imagePresent =>
        \A r \in Restores : snap[r].image \in images]_nrVars

\* "Don't clobber a same-named container that already runs here" (recreateContainer):
\* data-only means that there is a container that uses the data.
PartialMeansUsed ==
    [][\A r \in Restores : status[r] # "partial" /\ status'[r] = "partial" => box[snap[r].name].by # Leftover]_nrVars
=============================================================================
