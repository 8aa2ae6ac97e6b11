--------------------------- MODULE ContainerUpdate ---------------------------
(***************************************************************************)
(* Containers of one node: the agent's image operations (agent/docker.go), *)
(* the master's inventory and scan cache (store/containers.go) and the     *)
(* requests of administrators and of the scheduled update                  *)
(* (container/service.go; scheduler.go, runContainerUpdateNode).           *)
(*                                                                         *)
(* Operations exclude each other by containerOpMu; scans and inventory     *)
(* reports do not take it.  Who asked may stop waiting while the agent     *)
(* goes on.  Every recreation gives a container a new id.  The containers  *)
(* are services of Compose files, one each, with images of a registry.     *)
(***************************************************************************)
EXTENDS ImageTags, Integers, FiniteSets, TLC

CONSTANTS
    Containers,
    Repo,           \* Repo[c]: the tags its image repository may publish
    StartTag(_),    \* StartTag(c): the tag its Compose file starts with
    AdminActions,   \* operations administrators may ask for
    MaxAdmin,       \* bound: requests of administrators
    MaxPublished,   \* bound: pushes to the registry
    MaxFaults       \* bound: failures of pulls, Compose, listings, processes, connections

ByRun == "run"      \* the scheduled update
ByAdmin == "admin"  \* POST /api/containers/action, /scan-updates
Nobody == "nobody"  \* who asked has stopped waiting
Askers == {ByRun, ByAdmin}
AllTags == UNION {Repo[c] : c \in Containers}

ASSUME ContainerConstants ==
    /\ \A c \in Containers : StartTag(c) \in Repo[c] /\ Repo[c] \subseteq Tag /\ IsFiniteSet(Repo[c])
    /\ AdminActions \subseteq {"update", "upgrade", "rebuild", "restart", "stop", "start", "delete"}
    /\ MaxAdmin \in Nat /\ MaxPublished \in Nat /\ MaxFaults \in Nat

VARIABLES
    registry,   \* registry[t]: content of a published tag, 0 if it is not
    image,      \* image[t]: content the tag names on the host, 0 if none
    file,       \* file[c]: tag of the service in its Compose file
    host,       \* host[c]: the container
    queue,      \* requests the agent's goroutines hold, waiting for containerOpMu
    op,         \* the request that has it, and how far it is
    answer,     \* answer[a]: what an asker waits for or got
    run,        \* the scheduled update
    scan,       \* scan[a]: a scan on its way
    inv,        \* inv[c]: row of the containers table
    cache,      \* cache[c]: has_update of its row of container_scan, -1 without one
    used        \* the bounded events so far

regVars == <<registry, image, file, host>>
cVars == <<regVars, queue, op, answer, run, scan, inv, cache, used>>

None == "none"
NoOp == [pc |-> "free"]
NoAnswer == [pc |-> "idle", act |-> None, named |-> {}, updated |-> {}]
IdleRun == [pc |-> "idle", todo |-> {}, now |-> {}]
NoScan == [pc |-> "idle", seen |-> {}]

Listed(c) == host[c].state # "gone"
PublishedTags(c) == SetToSeq({t \in Repo[c] : registry[t] # 0})
Use(what, max) == used[what] < max /\ used' = [used EXCEPT ![what] = @ + 1]
OneFault == Use("fault", MaxFaults)
NoFault == used' = used

ContainerInit ==
    /\ registry = [t \in AllTags |-> IF \E c \in Containers : t = StartTag(c) THEN 1 ELSE 0]
    /\ image = registry
    /\ file = [c \in Containers |-> StartTag(c)]
    /\ host = [c \in Containers |-> [tag |-> StartTag(c), content |-> 1, id |-> 0, state |-> "running"]]
    /\ queue = {} /\ op = NoOp
    /\ answer = [a \in Askers |-> NoAnswer]
    /\ run = IdleRun /\ scan = [a \in Askers |-> NoScan]
    /\ inv = host
    /\ cache = [c \in Containers |-> -1]
    /\ used = [fault |-> 0, published |-> 0, admin |-> 0]

-----------------------------------------------------------------------------
(* Faulty variants of definitions below, each a bug the code could have.   *)

\* A Compose file that already names the image is taken for an upgrade done.
RewriteOnce ==
    /\ op.pc = "rewrite"
    /\ \/ /\ file[op.c] = op.new
          /\ op' = [op EXCEPT !.pc = "next", !.todo = {t \in @ : t.c # op.c}]
          /\ file' = file
       \/ /\ file[op.c] # op.new /\ file[op.c].major = op.new.major
          /\ op' = [op EXCEPT !.pc = "compose"]
          /\ file' = [file EXCEPT ![op.c] = op.new]
    /\ UNCHANGED <<registry, image, host, queue, answer, run, scan, inv, cache, used>>

\* The pull is left to Compose, after the rewrite.
PullLater ==
    /\ op.pc = "pull"
    /\ op' = [op EXCEPT !.pc = IF op.act = "upgrade" THEN "rewrite" ELSE "compose", !.want = host[op.c].content]
    /\ UNCHANGED <<regVars, queue, answer, run, scan, inv, cache, used>>

-----------------------------------------------------------------------------
(* The registry, and what ends a wait.                                     *)

\* Someone publishes a new tag or moves one, to content of its own.
Publish ==
    /\ Use("published", MaxPublished)
    /\ \E t \in AllTags : registry' = [registry EXCEPT ![t] = used'.published + 1]
    /\ UNCHANGED <<image, file, host, queue, op, answer, run, scan, inv, cache>>

Lost(a) == IF answer[a].pc = "waiting" THEN [answer[a] EXCEPT !.pc = "lost"] ELSE answer[a]
LostScan(a) == IF scan[a].pc = "idle" THEN NoScan ELSE [NoScan EXCEPT !.pc = "failed"]

\* The agent's process ends, and with it its goroutines and what they run.
AgentRestarts ==
    /\ op # NoOp \/ queue # {}
    /\ OneFault
    /\ queue' = {} /\ op' = NoOp
    /\ answer' = [a \in Askers |-> Lost(a)]
    /\ scan' = [a \in Askers |-> LostScan(a)]
    /\ UNCHANGED <<regVars, run, inv, cache>>

ForgetAsker(a) ==
    /\ queue' = {IF q.by = a THEN [q EXCEPT !.by = Nobody] ELSE q : q \in queue}
    /\ op' = IF op # NoOp /\ op.by = a THEN [op EXCEPT !.by = Nobody] ELSE op

\* The timeout passes or the connection is lost; the agent goes on.
StopsWaiting(a) ==
    /\ answer[a].pc = "waiting" /\ OneFault
    /\ answer' = [answer EXCEPT ![a] = Lost(a)]
    /\ ForgetAsker(a)
    /\ UNCHANGED <<regVars, run, scan, inv, cache>>

\* The master's process ends: its run and the scan it waits for are gone.
MasterRestarts ==
    /\ run # IdleRun /\ OneFault
    /\ run' = IdleRun
    /\ answer' = [answer EXCEPT ![ByRun] = NoAnswer]
    /\ scan' = [scan EXCEPT ![ByRun] = NoScan]
    /\ ForgetAsker(ByRun)
    /\ UNCHANGED <<regVars, inv, cache>>

-----------------------------------------------------------------------------
(* handleContainerOp.  A target is a container and the id it was asked by. *)

Request(a, act, targets, new) == [by |-> a, act |-> act, todo |-> targets, new |-> new]

\* containerOpMu is taken and the working set resolved: the targets asked for, or
\* the running containers when an update names none.
Lock ==
    /\ op = NoOp
    /\ \E q \in queue :
        /\ queue' = queue \ {q}
        /\ op' = [pc |-> "next", by |-> q.by, act |-> q.act, new |-> q.new, c |-> None,
                  old |-> 0, want |-> 0, forced |-> FALSE, updated |-> {},
                  todo |-> IF q.todo # {} THEN q.todo
                           ELSE {[c |-> c, id |-> host[c].id] :
                                    c \in {x \in Containers : host[x].state = "running"}}]
    /\ UNCHANGED <<regVars, answer, run, scan, inv, cache, used>>

Ends(updated) ==
    [op EXCEPT !.pc = "next", !.todo = {t \in @ : t.c # op.c},
               !.updated = IF updated THEN @ \union {op.c} ELSE @]
Present(t) == Listed(t.c) /\ host[t.c].id = t.id

\* act, for a target the Docker API does not know by that id, and for what an
\* update skips because it does not run.
Refuse ==
    /\ op.pc = "next"
    /\ \E t \in op.todo :
        /\ Present(t) => op.act = "update" /\ host[t.c].state # "running"
        /\ op' = [op EXCEPT !.todo = @ \ {t}]
    /\ UNCHANGED <<regVars, queue, answer, run, scan, inv, cache, used>>

\* act for start, stop, restart and delete: one call of the Docker API.
Simple ==
    /\ op.pc = "next" /\ op.act \in {"restart", "start", "stop", "delete"}
    /\ \E t \in op.todo :
        /\ Present(t)
        /\ host' = [host EXCEPT ![t.c].state =
                        CASE op.act \in {"restart", "start"} -> "running"
                          [] op.act = "stop" -> "exited"
                          [] OTHER -> "gone"]
        /\ op' = [op EXCEPT !.todo = @ \ {t}, !.updated = @ \union {t.c}]
    /\ UNCHANGED <<registry, image, file, queue, answer, run, scan, inv, cache, used>>

\* updateOne, rebuildAction and upgradeAction up to the pull.
Begin ==
    /\ op.pc = "next" /\ op.act \in {"update", "rebuild", "upgrade"}
    /\ \E t \in op.todo :
        /\ Present(t) /\ (op.act = "update" => host[t.c].state = "running")
        /\ op' = [op EXCEPT !.pc = "pull", !.c = t.c, !.old = host[t.c].content,
                            !.forced = op.act = "upgrade"]
    /\ UNCHANGED <<regVars, queue, answer, run, scan, inv, cache, used>>

\* What is pulled: the image asked for, or the one the container was made from.
Pulled == IF op.act = "upgrade" THEN op.new ELSE host[op.c].tag

Pull ==
    /\ op.pc = "pull"
    /\ \/ /\ registry[Pulled] # 0 /\ NoFault
          /\ image' = [image EXCEPT ![Pulled] = registry[Pulled]]
          /\ op' = [op EXCEPT !.pc = IF op.act = "upgrade" THEN "rewrite" ELSE "compose",
                              !.want = registry[Pulled]]
       \/ /\ registry[Pulled] = 0 /\ NoFault
          /\ op' = Ends(FALSE) /\ image' = image
       \/ /\ registry[Pulled] # 0 /\ OneFault
          /\ op' = Ends(FALSE) /\ image' = image
    /\ UNCHANGED <<registry, file, host, queue, answer, run, scan, inv, cache>>

\* rewriteComposeImage: refused across major versions.
Rewrite ==
    /\ op.pc = "rewrite"
    /\ IF Semver(file[op.c]) /\ Semver(op.new) /\ file[op.c].major # op.new.major
       THEN file' = file /\ op' = Ends(FALSE)
       ELSE file' = [file EXCEPT ![op.c] = op.new] /\ op' = [op EXCEPT !.pc = "compose"]
    /\ UNCHANGED <<registry, image, host, queue, answer, run, scan, inv, cache, used>>

\* docker compose up takes a running container for up to date if its tag is the
\* file's: it may overlook that the tag has new content, unless it is forced.
UpToDate == file[op.c] = host[op.c].tag /\ host[op.c].state = "running" /\ ~op.forced

\* Once more with --force-recreate if the container does not run what was pulled.
Checked(content) ==
    IF op.forced \/ content = op.want THEN [op EXCEPT !.pc = "ready"]
    ELSE [op EXCEPT !.pc = "compose", !.forced = TRUE]

\* Compose stops the old container, or has nothing to do, or fails.
Compose ==
    /\ op.pc = "compose"
    /\ \/ /\ UpToDate => image[file[op.c]] # host[op.c].content
          /\ host' = [host EXCEPT ![op.c].state = "exited"] /\ NoFault
          /\ op' = [op EXCEPT !.pc = "recreate"]
       \/ UpToDate /\ host' = host /\ NoFault /\ op' = Checked(host[op.c].content)
       \/ host' = host /\ OneFault /\ op' = Ends(FALSE)
    /\ UNCHANGED <<registry, image, file, queue, answer, run, scan, inv, cache>>

\* The new container takes the name and starts, or does not.
Recreate ==
    LET New(s) == [tag |-> file[op.c], content |-> image[file[op.c]], id |-> host[op.c].id + 1, state |-> s] IN
    /\ op.pc = "recreate"
    /\ \/ host' = [host EXCEPT ![op.c] = New("running")] /\ op' = Checked(image[file[op.c]]) /\ NoFault
       \/ host' = [host EXCEPT ![op.c] = New("exited")] /\ op' = Ends(FALSE) /\ OneFault
    /\ UNCHANGED <<registry, image, file, queue, answer, run, scan, inv, cache>>

\* waitContainerReady: running, and healthy if it has a healthcheck.
Ready ==
    /\ op.pc = "ready"
    /\ \/ host' = host /\ op' = Ends(op.act = "upgrade" \/ host[op.c].content # op.old) /\ NoFault
       \/ host' = [host EXCEPT ![op.c].state = "exited"] /\ op' = Ends(FALSE) /\ OneFault
    /\ UNCHANGED <<registry, image, file, queue, answer, run, scan, inv, cache>>

\* The result is sent; it reaches who still waits for it.
Answer ==
    /\ op.pc = "next" /\ op.todo = {}
    /\ op' = NoOp
    /\ answer' = IF op.by = Nobody THEN answer
                 ELSE [answer EXCEPT ![op.by].pc = "answered", ![op.by].updated = op.updated]
    /\ UNCHANGED <<regVars, queue, run, scan, inv, cache, used>>

-----------------------------------------------------------------------------
(* Inventory and scans.                                                    *)

\* reportContainers and ReplaceNodeContainers: a scan result survives only for a
\* name whose image is the one reported before.
Report ==
    /\ inv' = host /\ inv' # inv
    /\ cache' = [c \in Containers |->
                    IF Listed(c) /\ inv[c].state # "gone"
                       /\ inv[c].tag = host[c].tag /\ inv[c].content = host[c].content
                    THEN cache[c] ELSE -1]
    /\ UNCHANGED <<regVars, queue, op, answer, run, scan, used>>

\* ScanUpdates, or the first step of a scheduled run.
AskScan(a) ==
    /\ scan[a].pc = "idle"
    /\ IF a = ByRun THEN run.pc = "idle" /\ run' = [run EXCEPT !.pc = "scan"] /\ NoFault
       ELSE run' = run /\ Use("admin", MaxAdmin)
    /\ scan' = [scan EXCEPT ![a] = [NoScan EXCEPT !.pc = "sent"]]
    /\ UNCHANGED <<regVars, queue, op, answer, inv, cache>>

\* scanContainers lists the containers, and then asks the registry about each
\* image; a probe or a listing may fail.
ScanList(a) ==
    /\ scan[a].pc = "sent"
    /\ scan' = [scan EXCEPT ![a] = [@ EXCEPT !.pc = "probe",
                    !.seen = {[c |-> c, tag |-> host[c].tag, content |-> host[c].content, state |-> host[c].state] :
                                c \in {x \in Containers : Listed(x)}}]]
    /\ UNCHANGED <<regVars, queue, op, answer, run, inv, cache, used>>

VerdictOn(s, listed) == Verdict(s.tag, PublishedTags(s.c), listed, registry @@ (NoTag :> 0), s.content)

ScanProbe(a) ==
    /\ scan[a].pc = "probe"
    /\ \/ /\ \E listed \in BOOLEAN :
            /\ IF listed THEN NoFault ELSE OneFault
            /\ scan' = [scan EXCEPT ![a] = [@ EXCEPT !.pc = "done",
                            !.seen = {[c |-> s.c, v |-> VerdictOn(s, listed), 
                                       run |-> Candidate(VerdictOn(s, listed), s.tag, s.state = "running")] : s \in scan[a].seen}]]
       \/ scan' = [scan EXCEPT ![a] = LostScan(a)] /\ OneFault
    /\ UNCHANGED <<regVars, queue, op, answer, run, inv, cache>>

\* UpdateContainerScan replaces the node's rows; a failed scan clears them.  The
\* run takes the candidates whose id the inventory knows.
ScanStore(a) ==
    /\ scan[a].pc \in {"done", "failed"}
    /\ cache' = [c \in Containers |->
                    IF \E s \in scan[a].seen : s.c = c
                    THEN (CHOOSE s \in scan[a].seen : s.c = c).v.has ELSE -1]
    /\ run' = IF a # ByRun THEN run
              ELSE IF scan[a].pc = "failed" THEN IdleRun
              ELSE [pc |-> "act", now |-> {},
                    todo |-> {[c |-> s.c, id |-> inv[s.c].id, new |-> s.v.suggest] :
                                s \in {x \in scan[a].seen : x.run /\ inv[x.c].state # "gone"}}]
    /\ scan' = [scan EXCEPT ![a] = NoScan]
    /\ UNCHANGED <<regVars, queue, op, answer, inv, used>>

-----------------------------------------------------------------------------
(* Who asks for operations.                                                *)

Targets(cands) == {[c |-> d.c, id |-> d.id] : d \in cands}

\* upgradeScannedContainer for one version bump, or updateScannedContainers for all
\* the others together, once no bump is left.
RunAsks ==
    LET bumps == {d \in run.todo : d.new # NoTag} IN
    /\ run.pc = "act" /\ run.now = {} /\ run.todo # {}
    /\ \E now \in IF bumps # {} THEN {{d} : d \in bumps} ELSE {run.todo} :
        /\ run' = [run EXCEPT !.now = now, !.todo = @ \ now]
        /\ queue' = queue \union {IF bumps # {} THEN Request(ByRun, "upgrade", Targets(now), (CHOOSE d \in now : TRUE).new)
                                  ELSE Request(ByRun, "update", Targets(now), NoTag)}
    /\ answer' = [answer EXCEPT ![ByRun] = [NoAnswer EXCEPT !.pc = "waiting"]]
    /\ UNCHANGED <<regVars, op, scan, inv, cache, used>>

\* InvalidateContainerScanContainers after an answer; after an error the next
\* candidate is taken and the rows are left.
RunTakes ==
    /\ run.pc = "act" /\ run.now # {} /\ answer[ByRun].pc \in {"answered", "lost"}
    /\ cache' = [c \in Containers |->
                    IF answer[ByRun].pc = "answered" /\ \E d \in run.now : d.c = c THEN -1 ELSE cache[c]]
    /\ run' = [run EXCEPT !.now = {}]
    /\ answer' = [answer EXCEPT ![ByRun] = NoAnswer]
    /\ UNCHANGED <<regVars, queue, op, scan, inv, used>>

RunEnds ==
    /\ run.pc = "act" /\ run.now = {} /\ run.todo = {}
    /\ run' = IdleRun
    /\ UNCHANGED <<regVars, queue, op, answer, scan, inv, cache, used>>

\* Action: an administrator names a container as the inventory shows it, or none
\* of them for an update.
AdminAsks ==
    /\ answer[ByAdmin].pc = "idle" /\ Use("admin", MaxAdmin)
    /\ \E act \in AdminActions, c \in Containers, all \in BOOLEAN :
        LET named == IF all THEN {} ELSE {[c |-> c, id |-> inv[c].id]} IN
        /\ inv[c].state # "gone" /\ (all => act = "update")
        /\ \E new \in IF act = "upgrade" THEN {t \in Repo[c] : registry[t] # 0} ELSE {NoTag} :
            queue' = queue \union {Request(ByAdmin, act, named, new)}
        /\ answer' = [answer EXCEPT ![ByAdmin] = [NoAnswer EXCEPT !.pc = "waiting", !.act = act, !.named = named]]
    /\ UNCHANGED <<regVars, op, run, scan, inv, cache>>

\* dispatch forgets the scan results of what it was asked about, by the ids the
\* inventory has now, and of what was updated.
AdminTakes ==
    LET got == answer[ByAdmin]
        forget == {c \in Containers : got.named = {} \/ c \in got.updated
                                      \/ \E t \in got.named : inv[c].id = t.id /\ c = t.c} IN
    /\ got.pc \in {"answered", "lost"}
    /\ cache' = [c \in Containers |->
                    IF got.pc = "answered" /\ got.act \in {"update", "upgrade", "rebuild"} /\ c \in forget
                    THEN -1 ELSE cache[c]]
    /\ answer' = [answer EXCEPT ![ByAdmin] = NoAnswer]
    /\ UNCHANGED <<regVars, queue, op, run, scan, inv, used>>

-----------------------------------------------------------------------------
AgentSteps == Lock \/ Refuse \/ Simple \/ Begin \/ Pull \/ Rewrite \/ Compose \/ Recreate \/ Ready \/ Answer
RunSteps == RunAsks \/ RunTakes \/ RunEnds \/ AskScan(ByRun) \/ ScanStore(ByRun)

ContainerNext ==
    \/ Publish \/ AgentRestarts \/ MasterRestarts
    \/ AgentSteps \/ Report \/ RunAsks \/ RunTakes \/ RunEnds
    \/ AdminAsks \/ AdminTakes
    \/ \E a \in Askers : StopsWaiting(a) \/ AskScan(a) \/ ScanList(a) \/ ScanProbe(a) \/ ScanStore(a)

ContainerSpec == ContainerInit /\ [][ContainerNext]_cVars

\* The agent works, reports every 30 s and scans; the schedule fires again.
ContainerFairness ==
    /\ WF_cVars(AgentSteps) /\ WF_cVars(Report)
    /\ WF_cVars(RunSteps) /\ WF_cVars(AdminTakes)
    /\ \A a \in Askers : WF_cVars(ScanList(a) \/ ScanProbe(a))
    /\ WF_cVars(ScanStore(ByAdmin))

ContainerLiveSpec == ContainerSpec /\ ContainerFairness

-----------------------------------------------------------------------------
(* Properties.                                                             *)

\* "Pull before rewriting the Compose file so a registry/auth failure leaves the
\* service definition untouched": whatever fails or dies, a Compose file never
\* names an image the host does not have, and stays in its major version.
FileIsRunnable ==
    \A c \in Containers :
        /\ image[file[c]] # 0
        /\ Semver(StartTag(c)) => file[c].major = StartTag(c).major

\* Once the registry rests, the scheduled update brings every running container
\* to what a scan has nothing to say against, whatever failed, crashed or was
\* asked for meanwhile, and the panel stops announcing an update for it.
Wanted(c) == Candidate(VerdictOn([c |-> c, tag |-> host[c].tag, content |-> host[c].content], TRUE),
                       host[c].tag, host[c].state = "running")
UpdatesConverge ==
    <>[](\A c \in Containers :
            /\ ~Wanted(c)
            /\ Listed(c) => cache[c] \in {-1, VerdictOn([c |-> c, tag |-> host[c].tag,
                                                         content |-> host[c].content], TRUE).has})

\* "Versioned tags may move only to a newer compatible tag in the same
\* major/flavour" (agent/docker.go): the scheduled update never moves a container
\* to an older tag.
NeverBackwards ==
    [][\A c \in Containers :
        op.pc = "recreate" /\ op.by = ByRun /\ op.act = "upgrade" =>
            ~Less(host'[c].tag, host[c].tag)]_cVars
=============================================================================
