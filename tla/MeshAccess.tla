----------------------------- MODULE MeshAccess -----------------------------
(***************************************************************************)
(* The managed SSH mesh (master/internal/mesh/service.go): a round every   *)
(* five minutes gives each online node a key, authorizes it on the others  *)
(* and replaces their firewall rule; administrators provision keys and     *)
(* replace rules at the same time.  A rule is replaced by a shell script   *)
(* that an agent runs in a goroutine of its own: three files and a restart *)
(* that reads them.                                                        *)
(***************************************************************************)
EXTENDS Naturals, FiniteSets

CONSTANTS
    MeshNodes,  \* managed nodes; a node stands for its IPv4 address too
    Puts,       \* requests PUT /api/mesh/access
    V4, V6,     \* custom sources by family
    Bodies,     \* the configurations administrators put
    MaxFaults   \* bound: commands that fail or are killed, connections lost, nodes added

Sync == "sync"              \* the round of StartAutoProvision
Provision == "provision"    \* one request POST /api/mesh/provision
Rounds == {Sync, Provision}
Issuers == Puts \union {Sync}

ASSUME MeshConstants ==
    /\ Puts \intersect Rounds = {}
    /\ \A b \in Bodies : b.nodes \subseteq MeshNodes /\ b.src \subseteq V4 \union V6
    /\ MaxFaults \in Nat

VARIABLES
    rows,       \* nodes with a row in the table
    conn,       \* nodes with a live agent connection
    access,     \* the setting mesh_ssh_access
    hasKey,     \* nodes with a key pair at meshKeyPath
    authorized, \* authorized[n]: nodes whose key is in the authorized_keys of n
    files,      \* files[n]: the allowlists and the port list under /etc/nodepanel
    rule,       \* rule[n]: the nftables table of n
    round,      \* round[r]: where a round stands
    put,        \* put[p]: where a request stands
    script,     \* script[i][n]: the script of issuer i on node n
    faults

meshVars == <<rows, conn, access, hasKey, authorized, files, rule, round, put, script,
              faults>>
tableVars == <<rows, conn>>
keyVars == <<hasKey, authorized>>
fwVars == <<files, rule>>

Rule == [v4 : SUBSET (MeshNodes \union V4), v6 : SUBSET V6, ports : {"none", "mesh", "both"}]
NoRule == [v4 |-> {}, v6 |-> {}, ports |-> "none"]
Off == [enabled |-> FALSE, nodes |-> {}, src |-> {}]
IdleRound == [pc |-> "idle", todo |-> {}, members |-> {}, pairs |-> {},
              snap |-> Off, defs |-> {}]
IdlePut == [pc |-> "idle", body |-> Off, prev |-> {}, todo |-> {}, defs |-> {}]
NoScript == [next |-> "none", want |-> NoRule, heard |-> FALSE]
ScriptSteps == {"none", "allow4", "rest", "restart"}

\* The loops go through a list in its order: one fixed order of any set.
First(S) == CHOOSE x \in S : TRUE

\* sourcesForNode and the choice of ports: a node of the custom selection gets
\* the custom sources on both ports, the others the managed nodes on the mesh port.
Desired(cfg, defs, n) ==
    IF cfg.enabled /\ n \in cfg.nodes
    THEN [v4 |-> cfg.src \intersect V4, v6 |-> cfg.src \intersect V6, ports |-> "both"]
    ELSE [v4 |-> defs, v6 |-> {}, ports |-> "mesh"]

MeshTypeOK ==
    /\ rows \subseteq MeshNodes /\ conn \subseteq MeshNodes /\ hasKey \subseteq MeshNodes
    /\ access \in Bodies \union {Off}
    /\ authorized \in [MeshNodes -> SUBSET MeshNodes]
    /\ files \in [MeshNodes -> Rule] /\ rule \in [MeshNodes -> Rule]
    /\ \A r \in Rounds :
        /\ round[r].pc \in {"idle", "keys", "install", "apply", "done"}
        /\ round[r].todo \subseteq MeshNodes /\ round[r].members \subseteq MeshNodes
        /\ round[r].pairs \subseteq MeshNodes \X MeshNodes
    /\ \A p \in Puts : put[p].pc \in {"idle", "read", "saved", "applying", "done"}
    /\ \A i \in Issuers, n \in MeshNodes :
        script[i][n].next \in ScriptSteps /\ script[i][n].want \in Rule
    /\ faults \in 0 .. MaxFaults

MeshInit ==
    /\ rows \in SUBSET MeshNodes
    /\ conn = rows
    /\ access = Off
    /\ hasKey = {} /\ authorized = [n \in MeshNodes |-> {}]
    /\ files = [n \in MeshNodes |-> NoRule] /\ rule = [n \in MeshNodes |-> NoRule]
    /\ round = [r \in Rounds |-> IdleRound]
    /\ put = [p \in Puts |-> IdlePut]
    /\ script = [i \in Issuers |-> [n \in MeshNodes |-> NoScript]]
    /\ faults = 0

\* The checks of PutAccess: known nodes, and an enabled restriction is not empty.
Acceptable(b, table) ==
    b.nodes \subseteq table /\ (b.enabled => b.nodes # {} /\ b.src # {})

-----------------------------------------------------------------------------
(* Faulty variants of the actions below, each a bug the code could have.   *)

\* Nodes that have a key already are taken for provisioned.
KeysDoneNew(r) ==
    /\ round[r].pc = "keys" /\ round[r].todo = {}
    /\ LET new == {n \in round[r].members : authorized[n] = {}} IN
       round' = [round EXCEPT ![r].pc = "install",
                              ![r].pairs = {q \in new \X new : q[1] # q[2]}]
    /\ UNCHANGED <<tableVars, access, keyVars, fwVars, put, script, faults>>

\* A script that starts by restarting the unit.
LaunchRestart(want) == [next |-> "restarted", want |-> want, heard |-> TRUE]

-----------------------------------------------------------------------------
(* Scripts on a node.                                                      *)

\* applyMeshFirewall up to the send; an empty list is refused.
Applicable(want, n) == n \in conn /\ want.v4 \union want.v6 # {}
Launch(want) == [next |-> "allow4", want |-> want, heard |-> TRUE]

\* The agent executes the next command of the script.
ScriptStep(i, n) ==
    LET s == script[i][n] IN
    /\ s.next # "none"
    /\ \/ /\ s.next = "allow4"
          /\ files' = [files EXCEPT ![n].v4 = s.want.v4]
          /\ script' = [script EXCEPT ![i][n].next = "rest"]
          /\ rule' = rule
       \/ /\ s.next = "rest"
          /\ files' = [files EXCEPT ![n] = [s.want EXCEPT !.v4 = files[n].v4]]
          /\ script' = [script EXCEPT ![i][n].next = "restart"]
          /\ rule' = rule
       \/ /\ s.next = "restart"
          /\ rule' = [rule EXCEPT ![n] = files[n]]
          /\ script' = [script EXCEPT ![i][n] = NoScript]
          /\ files' = files
    /\ UNCHANGED <<tableVars, access, keyVars, round, put, faults>>

\* A command fails (set -e) or the forty seconds are over: the rest is not run.
ScriptFails(i, n) ==
    /\ script[i][n].next # "none" /\ faults < MaxFaults
    /\ script' = [script EXCEPT ![i][n] = NoScript]
    /\ faults' = faults + 1
    /\ UNCHANGED <<tableVars, access, keyVars, fwVars, round, put>>

Waiting(i) == \E n \in MeshNodes : script[i][n].next # "none" /\ script[i][n].heard

-----------------------------------------------------------------------------
(* syncAutoMesh and Provision.                                             *)

\* selectedNodes: all online nodes; Provision wants two of them.
RoundStart(r) ==
    /\ round[r].pc = "idle"
    /\ rows \intersect conn # {}
    /\ r = Provision => Cardinality(rows \intersect conn) >= 2
    /\ round' = [round EXCEPT ![r] = [IdleRound EXCEPT !.pc = "keys",
                                                       !.todo = rows \intersect conn]]
    /\ UNCHANGED <<tableVars, access, keyVars, fwVars, put, script, faults>>

Tried(ok) == IF ok THEN faults' = faults ELSE faults < MaxFaults /\ faults' = faults + 1

\* ensureMeshKey on the next node; a node without an answer is no member.
EnsureKey(r) ==
    /\ round[r].pc = "keys"
    /\ round[r].todo # {}
    /\ LET n == First(round[r].todo) IN \E ok \in BOOLEAN :
        /\ ok => n \in conn
        /\ IF n \in conn THEN Tried(ok) ELSE faults' = faults
        /\ hasKey' = IF ok THEN hasKey \union {n} ELSE hasKey
        /\ round' = [round EXCEPT ![r].todo = @ \ {n},
                                  ![r].members = IF ok THEN @ \union {n} ELSE @]
    /\ UNCHANGED <<tableVars, access, authorized, fwVars, put, script>>

KeysDone(r) ==
    /\ round[r].pc = "keys" /\ round[r].todo = {}
    /\ round' = [round EXCEPT ![r].pc = IF round[r].members = {} THEN "idle" ELSE "install",
                              ![r].pairs = {q \in round[r].members \X round[r].members :
                                                q[1] # q[2]}]
    /\ UNCHANGED <<tableVars, access, keyVars, fwVars, put, script, faults>>

\* installPubKey: q[2] is authorized on q[1].  A failure is logged by the round
\* and ends the node's turn in Provision.
InstallKey(r) ==
    /\ round[r].pc = "install"
    /\ round[r].pairs # {}
    /\ LET q == First(round[r].pairs) IN \E ok \in BOOLEAN :
        /\ ok => q[1] \in conn
        /\ IF q[1] \in conn THEN Tried(ok) ELSE faults' = faults
        /\ authorized' = [authorized EXCEPT ![q[1]] = IF ok THEN @ \union {q[2]} ELSE @]
        /\ round' = [round EXCEPT ![r].pairs =
                        IF ok \/ r = Sync THEN @ \ {q} ELSE {x \in @ : x[1] # q[1]}]
    /\ UNCHANGED <<tableVars, access, hasKey, fwVars, put, script>>

\* Status asks the online nodes for their keys, which creates them.
Status ==
    /\ \E n \in (rows \intersect conn) \ hasKey : hasKey' = hasKey \union {n}
    /\ UNCHANGED <<tableVars, access, authorized, fwVars, round, put, script, faults>>

ProvisionEnds ==
    /\ round[Provision].pc = "install" /\ round[Provision].pairs = {}
    /\ round' = [round EXCEPT ![Provision] = [IdleRound EXCEPT !.pc = "done"]]
    /\ UNCHANGED <<tableVars, access, keyVars, fwVars, put, script, faults>>

\* The addresses and the configuration are read once, for all the nodes below.
LoadAccess ==
    /\ round[Sync].pc = "install" /\ round[Sync].pairs = {}
    /\ round' = [round EXCEPT ![Sync].pc = IF rows = {} THEN "idle" ELSE "apply",
                              ![Sync].snap = access, ![Sync].defs = rows,
                              ![Sync].todo = round[Sync].members]
    /\ UNCHANGED <<tableVars, access, keyVars, fwVars, put, script, faults>>

\* The firewall of one member after the other.  A script whose answer was lost
\* has been killed when a later round comes back to its node.
SyncApply ==
    LET r == round[Sync] IN
    /\ r.pc = "apply" /\ r.todo # {} /\ ~Waiting(Sync)
    /\ LET n == First(r.todo)
           want == Desired(r.snap, r.defs, n) IN
        /\ script[Sync][n].next = "none"
        /\ script' = IF Applicable(want, n)
                     THEN [script EXCEPT ![Sync][n] = Launch(want)] ELSE script
        /\ round' = [round EXCEPT ![Sync].todo = @ \ {n}]
    /\ UNCHANGED <<tableVars, access, keyVars, fwVars, put, faults>>

SyncEnds ==
    /\ round[Sync].pc = "apply" /\ round[Sync].todo = {} /\ ~Waiting(Sync)
    /\ round' = [round EXCEPT ![Sync] = IdleRound]
    /\ UNCHANGED <<tableVars, access, keyVars, fwVars, put, script, faults>>

-----------------------------------------------------------------------------
(* PutAccess.                                                              *)

\* Validation against the table, and the previous configuration.
PutRead(p, b) ==
    /\ put[p].pc = "idle" /\ Acceptable(b, rows)
    /\ put' = [put EXCEPT ![p] = [pc |-> "read", body |-> b, prev |-> access.nodes,
                                  todo |-> {}, defs |-> rows]]
    /\ UNCHANGED <<tableVars, access, keyVars, fwVars, round, script, faults>>

\* The setting is saved; the old and the new selection are to be applied.
PutSave(p) ==
    /\ put[p].pc = "read"
    /\ access' = put[p].body
    /\ put' = [put EXCEPT ![p].pc = "saved",
                          ![p].todo = (put[p].prev \union put[p].body.nodes)
                                          \intersect put[p].defs]
    /\ UNCHANGED <<tableVars, keyVars, fwVars, round, script, faults>>

\* One goroutine per affected node; an offline one is left to the rounds.
PutApply(p) ==
    LET Want(n) == Desired(put[p].body, put[p].defs, n) IN
    /\ put[p].pc = "saved"
    /\ script' = [script EXCEPT ![p] = [n \in MeshNodes |->
                    IF n \in put[p].todo /\ Applicable(Want(n), n)
                    THEN Launch(Want(n)) ELSE @[n]]]
    /\ put' = [put EXCEPT ![p].pc = "applying"]
    /\ UNCHANGED <<tableVars, access, keyVars, fwVars, round, faults>>

PutEnds(p) ==
    /\ put[p].pc = "applying" /\ ~Waiting(p)
    /\ put' = [put EXCEPT ![p] = [IdlePut EXCEPT !.pc = "done"]]
    /\ UNCHANGED <<tableVars, access, keyVars, fwVars, round, script, faults>>

-----------------------------------------------------------------------------
(* Nodes.                                                                  *)

\* A connection ends: every caller that waits for this node gets an error, and
\* the scripts go on.
Unheard(n) == script' = [i \in Issuers |-> [script[i] EXCEPT ![n].heard = FALSE]]

Cut(n) ==
    /\ n \in conn /\ faults < MaxFaults
    /\ conn' = conn \ {n} /\ faults' = faults + 1
    /\ Unheard(n)
    /\ UNCHANGED <<rows, access, keyVars, fwVars, round, put>>

Reconnect(n) ==
    /\ n \in rows \ conn
    /\ conn' = conn \union {n}
    /\ UNCHANGED <<rows, access, keyVars, fwVars, round, put, script, faults>>

NodeJoins(n) ==
    /\ n \notin rows /\ faults < MaxFaults
    /\ rows' = rows \union {n} /\ conn' = conn \union {n} /\ faults' = faults + 1
    /\ UNCHANGED <<access, keyVars, fwVars, round, put, script>>

MeshNext ==
    \/ \E i \in Issuers, n \in MeshNodes : ScriptStep(i, n) \/ ScriptFails(i, n)
    \/ \E r \in Rounds : RoundStart(r) \/ EnsureKey(r) \/ KeysDone(r) \/ InstallKey(r)
    \/ Status \/ ProvisionEnds \/ LoadAccess \/ SyncApply \/ SyncEnds
    \/ \E p \in Puts, b \in Bodies : PutRead(p, b)
    \/ \E p \in Puts : PutSave(p) \/ PutApply(p) \/ PutEnds(p)
    \/ \E n \in MeshNodes : Cut(n) \/ Reconnect(n) \/ NodeJoins(n)

MeshSpec == MeshInit /\ [][MeshNext]_meshVars

\* The ticker ticks, goroutines run, scripts end within their forty seconds.
SyncSteps ==
    \/ RoundStart(Sync) \/ EnsureKey(Sync) \/ KeysDone(Sync) \/ InstallKey(Sync)
    \/ LoadAccess \/ SyncApply \/ SyncEnds

MeshFairness ==
    /\ WF_meshVars(SyncSteps)
    /\ \A i \in Issuers, n \in MeshNodes : WF_meshVars(ScriptStep(i, n))
    /\ \A p \in Puts : WF_meshVars(PutSave(p) \/ PutApply(p) \/ PutEnds(p))

MeshLiveSpec == MeshSpec /\ MeshFairness

-----------------------------------------------------------------------------
(* Properties.                                                             *)

\* The rounds keep the firewalls converged (StartAutoProvision): a node that
\* stays connected ends with the rule of the saved configuration, whatever
\* administrators, failed scripts and stale rounds did to it before.
RulesConverge ==
    \A n \in MeshNodes :
        <>[](n \in rows \intersect conn) => <>[](rule[n] = Desired(access, rows, n))

\* Nodes that stay connected can reach each other with their mesh keys.
KeysConverge ==
    \A n, m \in MeshNodes :
        n # m /\ <>[]({n, m} \subseteq rows \intersect conn) => <>[](m \in authorized[n])

\* A mesh that is left alone heals: firewalls and keys.
MeshConverges == RulesConverge /\ KeysConverge

\* Replacing a rule never installs a table that drops everything: "existing
\* access remains intact if the replacement is bad".
NeverLockedOut == \A n \in MeshNodes : rule[n].ports # "none" => rule[n].v4 \union rule[n].v6 # {}

=============================================================================
