------------------------------ MODULE MCNodes ------------------------------
(* What the panel does on its nodes: enrollment and connections, the SSH   *)
(* mesh, remote commands.  They share no variable; an execution is one of  *)
(* a single part, chosen at the start, while the others stay as they begin.*)
EXTENDS MCCommandRun, MeshAccess, AgentLink

CONSTANTS x4, x6

OnSelected(N, S) == [enabled |-> TRUE, nodes |-> N, src |-> S]
TwoBodies == {OnSelected({n1}, {x4}), Off}
MixedBodies == {OnSelected({n1}, {x4}), OnSelected({n1}, {x6})}

VARIABLE part
nodeParts == <<meshVars, linkVars, vars, part>>

OnMesh == part = "mesh" /\ UNCHANGED <<linkVars, vars, part>>
OnLink == part = "link" /\ UNCHANGED <<meshVars, vars, part>>
OnCommands == part = "commands" /\ UNCHANGED <<meshVars, linkVars, part>>

NodesInit ==
    /\ part \in {"mesh", "link", "commands"}
    /\ MeshInit /\ LinkInit /\ Init
    /\ part # "mesh" => rows = {}
    /\ part # "link" => row = [n \in NodeIds |-> "new"]

NodesNext ==
    \/ OnMesh /\ MeshNext
    \/ OnLink /\ LinkNext
    \/ OnCommands /\ Next

NodesSpec == NodesInit /\ [][NodesNext]_nodeParts

\* The fairness of the parts, each where its part runs.
NodesFairness ==
    /\ WF_meshVars(part = "mesh" /\ SyncSteps)
    /\ \A i \in Issuers, n \in MeshNodes : WF_meshVars(part = "mesh" /\ ScriptStep(i, n))
    /\ \A p \in Puts : WF_meshVars(part = "mesh" /\ (PutSave(p) \/ PutApply(p) \/ PutEnds(p)))
    /\ \A h \in Hosts : WF_linkVars(part = "link" /\ LinkProgress(h))
    /\ \A c \in Commands, n \in Nodes :
        /\ WF_vars(part = "commands" /\ ExecSteps(c, n))
        /\ WF_vars(part = "commands" /\ Timeout(c, n))

NodesLiveSpec == NodesSpec /\ NodesFairness

\* The variables of the mesh and of the links keep their types.
NodesTypeOK == MeshTypeOK /\ LinkTypeOK
=============================================================================
