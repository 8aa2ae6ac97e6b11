----------------------------- MODULE AgentLink ------------------------------
(***************************************************************************)
(* How a host gets and keeps its identity: the install script writes the   *)
(* enrollment token and forgets the old identity, the agent exchanges the  *)
(* token for an agent token (POST /api/agent/enroll), saves it, and dials  *)
(* /agent/ws with it until the connection breaks; a 401 makes it enroll    *)
(* again.  Administrators create, regenerate and delete nodes meanwhile.   *)
(*                                                                         *)
(* A token is represented by the node it opens, or Stale when the table    *)
(* no longer holds it: nothing else can be done with one.                  *)
(***************************************************************************)
EXTENDS Naturals, FiniteSets

CONSTANTS
    Hosts,      \* machines on which the install script is run
    NodeIds,    \* rows the nodes table may hold
    MaxAdmin,   \* bound: requests of administrators and runs of the script
    MaxLinkFaults  \* bound: connections and answers lost, processes restarted

NoToken == "no token"
Stale == "stale"
Offline == "offline"

ASSUME LinkConstants ==
    /\ {NoToken, Stale, Offline} \intersect NodeIds = {}
    /\ Offline \notin Hosts
    /\ MaxAdmin \in Nat /\ MaxLinkFaults \in Nat

VARIABLES
    row,        \* row[n]: "new" (not created yet), "present" or "deleted"
    inventory,  \* nodes with rows in the containers table
    client,     \* client[n]: the host whose connection the hub has for n
    conf,       \* conf[h]: the enrollment token in config.conf
    saved,      \* saved[h]: the agent token in state.json
    proc,       \* proc[h]: the process: its step, its config and its state in memory
    link,       \* link[h]: the node as which h is connected
    enrolling,  \* requests POST /api/agent/enroll in progress
    install,    \* install[h]: the next step of the script on h
    admin,
    linkFaults

linkVars == <<row, inventory, client, conf, saved, proc, link, enrolling, install, admin,
              linkFaults>>
panelVars == <<row, inventory>>
connVars == <<client, link>>

Tokens == NodeIds \union {NoToken, Stale}
Present == {n \in NodeIds : row[n] = "present"}

LinkTypeOK ==
    /\ row \in [NodeIds -> {"new", "present", "deleted"}]
    /\ inventory \subseteq NodeIds
    /\ client \in [NodeIds -> Hosts \union {Offline}]
    /\ link \in [Hosts -> NodeIds \union {Offline}]
    /\ conf \in [Hosts -> Tokens] /\ saved \in [Hosts -> Tokens]
    /\ proc \in [Hosts -> [pc : {"none", "loop", "asked", "serving"},
                            token : Tokens, held : Tokens]]
    /\ enrolling \subseteq [host : Hosts, token : Tokens, node : NodeIds \union {Offline},
                            awaited : BOOLEAN]
    /\ install \in [Hosts -> {"idle", "clear", "restart"}]
    /\ admin \in 0 .. MaxAdmin /\ linkFaults \in 0 .. MaxLinkFaults

LinkInit ==
    /\ row \in [NodeIds -> {"new", "present"}]
    /\ inventory = {}
    /\ client = [n \in NodeIds |-> Offline] /\ link = [h \in Hosts |-> Offline]
    /\ conf = [h \in Hosts |-> NoToken] /\ saved = [h \in Hosts |-> NoToken]
    /\ proc = [h \in Hosts |-> [pc |-> "none", token |-> NoToken, held |-> NoToken]]
    /\ enrolling = {}
    /\ install = [h \in Hosts |-> "idle"]
    /\ admin = 0 /\ linkFaults = 0

-----------------------------------------------------------------------------
(* Tokens that stop being known.                                           *)

Void(token, n) == IF token = n THEN Stale ELSE token

\* No copy of the enrollment token of n opens it any more.
EnrollmentVoid(n) ==
    /\ conf' = [h \in Hosts |-> Void(conf[h], n)]
    /\ enrolling' = {[e EXCEPT !.token = Void(@, n)] : e \in enrolling}

\* h goes offline; the hub notices the lost connection, unless it is replaced.
Unlink(h) ==
    /\ link' = [link EXCEPT ![h] = Offline]
    /\ client' = [n \in NodeIds |-> IF client[n] = h THEN Offline ELSE client[n]]

\* The answers that the agent of h no longer waits for.
Abandoned(h) == {IF e.host = h THEN [e EXCEPT !.awaited = FALSE] ELSE e : e \in enrolling}

-----------------------------------------------------------------------------
(* Faulty variants, each a bug the code could have.                        *)

\* A 401 is retried like any other failure.
RefusedKeeps(h) ==
    /\ proc[h].pc = "loop" /\ proc[h].held = Stale
    /\ UNCHANGED linkVars

\* SetAgentToken brings a deleted row back.
EnrollWriteUpserts(e) ==
    LET Earlier(token) == Void(token, e.node) IN
    /\ e.node # Offline
    /\ enrolling' = enrolling \ {e}
    /\ proc' = [h \in Hosts |->
                    IF e.awaited /\ h = e.host
                    THEN [proc[h] EXCEPT !.pc = "loop", !.held = e.node]
                    ELSE [proc[h] EXCEPT !.held = Earlier(@)]]
    /\ saved' = [h \in Hosts |->
                    IF e.awaited /\ h = e.host THEN e.node ELSE Earlier(saved[h])]
    /\ UNCHANGED <<panelVars, connVars, conf, install, admin, linkFaults>>

-----------------------------------------------------------------------------
(* The panel: nodes/service.go over store/nodes.go.                        *)

Create(n) ==
    /\ admin < MaxAdmin /\ row[n] = "new"
    /\ row' = [row EXCEPT ![n] = "present"]
    /\ admin' = admin + 1
    /\ UNCHANGED <<inventory, connVars, conf, saved, proc, enrolling, install, linkFaults>>

\* The node keeps its agent token: only the enrollment token is replaced.
Regenerate(n) ==
    /\ admin < MaxAdmin /\ row[n] = "present"
    /\ admin' = admin + 1
    /\ EnrollmentVoid(n)
    /\ proc' = [h \in Hosts |-> [proc[h] EXCEPT !.token = Void(@, n)]]
    /\ UNCHANGED <<panelVars, connVars, saved, install, linkFaults>>

\* Delete removes the rows and leaves a connection of the node alone.
Delete(n) ==
    /\ admin < MaxAdmin /\ row[n] = "present"
    /\ row' = [row EXCEPT ![n] = "deleted"]
    /\ inventory' = inventory \ {n}
    /\ admin' = admin + 1
    /\ EnrollmentVoid(n)
    /\ proc' = [h \in Hosts |-> [proc[h] EXCEPT !.token = Void(@, n), !.held = Void(@, n)]]
    /\ saved' = [h \in Hosts |-> Void(saved[h], n)]
    /\ UNCHANGED <<connVars, install, linkFaults>>

\* Enroll looks the token up ...
EnrollRead(e) ==
    /\ e.node = Offline
    /\ IF e.token \in Present
       THEN /\ enrolling' = (enrolling \ {e}) \union {[e EXCEPT !.node = e.token]}
            /\ proc' = proc
       ELSE /\ enrolling' = enrolling \ {e}
            /\ proc' = IF e.awaited THEN [proc EXCEPT ![e.host].pc = "loop"] ELSE proc
    /\ UNCHANGED <<panelVars, connVars, conf, saved, install, admin, linkFaults>>

\* ... and then replaces the agent token of the row, if there still is one; an
\* agent that waits for the answer saves the token (an answer that is lost is a
\* request given up before).
EnrollWrite(e) ==
    LET Earlier(token) == Void(token, e.node)
        token == IF e.node \in Present THEN e.node ELSE Stale
    IN
    /\ e.node # Offline
    /\ enrolling' = enrolling \ {e}
    /\ proc' = [h \in Hosts |->
                    IF e.awaited /\ h = e.host
                    THEN [proc[h] EXCEPT !.pc = "loop", !.held = token]
                    ELSE [proc[h] EXCEPT !.held = Earlier(@)]]
    /\ saved' = [h \in Hosts |->
                    IF e.awaited /\ h = e.host THEN token ELSE Earlier(saved[h])]
    /\ UNCHANGED <<panelVars, connVars, conf, install, admin, linkFaults>>

\* OnContainers: a connected agent sends its list every so often.
StoreInventory(h) ==
    /\ link[h] # Offline
    /\ inventory' = inventory \union {link[h]}
    /\ UNCHANGED <<row, connVars, conf, saved, proc, enrolling, install, admin, linkFaults>>

-----------------------------------------------------------------------------
(* The agent: Run and connectAndServe.                                     *)

\* ensureEnrolled without a token.
Ask(h) ==
    /\ proc[h].pc = "loop" /\ proc[h].held = NoToken
    /\ proc' = [proc EXCEPT ![h].pc = "asked"]
    /\ enrolling' = enrolling \union {[host |-> h, token |-> proc[h].token,
                                       node |-> Offline, awaited |-> TRUE]}
    /\ UNCHANGED <<panelVars, connVars, conf, saved, install, admin, linkFaults>>

\* AgentWS knows the token: ServeAgent closes the connection the node had.
Dial(h) ==
    /\ proc[h].pc = "loop" /\ proc[h].held \in NodeIds
    /\ LET n == proc[h].held
           prev == client[n]
       IN /\ link' = [g \in Hosts |-> IF g = h THEN n ELSE IF g = prev THEN Offline ELSE link[g]]
          /\ client' = [client EXCEPT ![n] = h]
          /\ proc' = [g \in Hosts |->
                          IF g = h THEN [proc[g] EXCEPT !.pc = "serving"]
                          ELSE IF g = prev THEN [proc[g] EXCEPT !.pc = "loop"] ELSE proc[g]]
    /\ UNCHANGED <<panelVars, conf, saved, enrolling, install, admin, linkFaults>>

\* AgentWS answers 401: the token is forgotten, in memory and on disk.
Refused(h) ==
    /\ proc[h].pc = "loop" /\ proc[h].held = Stale
    /\ proc' = [proc EXCEPT ![h].held = NoToken]
    /\ saved' = [saved EXCEPT ![h] = NoToken]
    /\ UNCHANGED <<panelVars, connVars, conf, enrolling, install, admin, linkFaults>>

\* The connection breaks, or the answer to the enrollment does not come.
Broken(h) ==
    /\ proc[h].pc \in {"asked", "serving"} /\ linkFaults < MaxLinkFaults
    /\ linkFaults' = linkFaults + 1
    /\ proc' = [proc EXCEPT ![h].pc = "loop"]
    /\ enrolling' = Abandoned(h)
    /\ Unlink(h)
    /\ UNCHANGED <<panelVars, conf, saved, install, admin>>

\* systemd starts the agent: Run reads both files.
Boot(h) ==
    /\ proc' = [proc EXCEPT ![h] = [pc |-> "loop", token |-> conf[h], held |-> saved[h]]]
    /\ enrolling' = Abandoned(h)
    /\ Unlink(h)

\* A reboot, or the exit at the end of an update of the agent.
Reboot(h) ==
    /\ proc[h].pc # "none" /\ linkFaults < MaxLinkFaults
    /\ linkFaults' = linkFaults + 1
    /\ Boot(h)
    /\ UNCHANGED <<panelVars, conf, saved, install, admin>>

\* The script writes config.conf beside the agent that may be running,
InstallConf(h, n) ==
    /\ admin < MaxAdmin /\ install[h] = "idle" /\ n \in Present
    /\ admin' = admin + 1
    /\ conf' = [conf EXCEPT ![h] = n]
    /\ install' = [install EXCEPT ![h] = "clear"]
    /\ UNCHANGED <<panelVars, connVars, saved, proc, enrolling, linkFaults>>

\* removes state.json
InstallClear(h) ==
    /\ install[h] = "clear"
    /\ saved' = [saved EXCEPT ![h] = NoToken]
    /\ install' = [install EXCEPT ![h] = "restart"]
    /\ UNCHANGED <<panelVars, connVars, conf, proc, enrolling, admin, linkFaults>>

\* and restarts the unit.
InstallRestart(h) ==
    /\ install[h] = "restart"
    /\ install' = [install EXCEPT ![h] = "idle"]
    /\ Boot(h)
    /\ UNCHANGED <<panelVars, conf, saved, admin, linkFaults>>

-----------------------------------------------------------------------------
LinkNext ==
    \/ \E n \in NodeIds : Create(n) \/ Regenerate(n) \/ Delete(n)
    \/ \E e \in enrolling : EnrollRead(e) \/ EnrollWrite(e)
    \/ \E h \in Hosts :
        \/ StoreInventory(h) \/ Ask(h) \/ Dial(h) \/ Refused(h) \/ Broken(h) \/ Reboot(h)
        \/ InstallClear(h) \/ InstallRestart(h)
        \/ \E n \in NodeIds : InstallConf(h, n)

\* The agent's loop never ends, a handler and a script run to their end.
LinkProgress(h) ==
    \/ Ask(h) \/ Dial(h) \/ Refused(h)
    \/ InstallClear(h) \/ InstallRestart(h)
    \/ \E e \in enrolling : e.host = h /\ (EnrollRead(e) \/ EnrollWrite(e))

LinkSpec == LinkInit /\ [][LinkNext]_linkVars
LinkFairness == \A h \in Hosts : WF_linkVars(LinkProgress(h))

LinkLiveSpec == LinkSpec /\ LinkFairness

-----------------------------------------------------------------------------
(* A host whose configuration holds the current token of a node, and holds *)
(* it alone, ends up connected and stays so, whatever was lost, restarted, *)
(* regenerated, deleted or taken over on the way: no token and no half-    *)
(* finished enrollment keeps it out.                                       *)
Entitled(h) ==
    /\ proc[h].token \in Present
    /\ \A g \in Hosts \ {h} : proc[g].token # proc[h].token
EntitledConnects == \A h \in Hosts : <>[](Entitled(h) => link[h] # Offline)

(* A node that was deleted may keep the connection it has, and once that   *)
(* is lost nothing brings the node back: no saved token, no enrollment     *)
(* that was under way, no second host.                                     *)
DeletedStaysOut ==
    [][\A n \in NodeIds :
        (row[n] = "deleted" /\ client[n] = Offline) => client'[n] = Offline]_linkVars

(* No inventory of a node that is gone, as the comment of DeleteNode asks  *)
(* ("Keeping inventory rows after the owning node is gone pollutes         *)
(* container counts"): the connection of the node outlives it.             *)
NoOrphans == \A n \in inventory : row[n] # "deleted"

(* After a run of the script the agent has the identity of its token, as   *)
(* the script's comment says: an enrollment under way puts the old one back. *)
InstalledIdentity ==
    \A h \in Hosts :
        (link[h] # Offline /\ install[h] = "idle" /\ proc[h].token \in Present) =>
            link[h] = proc[h].token
=============================================================================
