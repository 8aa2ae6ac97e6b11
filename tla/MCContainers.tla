---------------------------- MODULE MCContainers ----------------------------
(* Containers of a node under updates (ContainerUpdate), and the verdicts  *)
(* of scans over every small listing (TagScan).  They share no variable;   *)
(* an execution is one of a single part.                                   *)
EXTENDS ContainerUpdate, TagScan
CONSTANTS app, web

Version(ma, mi) == [kind |-> "semver", major |-> ma, minor |-> mi, sfx |-> 1, raw |-> 0]
Latest == [kind |-> "floating", major |-> 0, minor |-> 0, sfx |-> 1, raw |-> 0]
\* One service with released versions, one that follows a floating tag.
StartOf(c) == IF c = app THEN Version(1, 0) ELSE Latest
OneRepo == [c \in Containers |-> {Version(1, 0), Version(1, 1), Version(1, 2)}]
RepoOf == [c \in Containers |-> IF c = app THEN {Version(1, 0), Version(1, 1), Version(2, 0)} ELSE {Latest}]

\* Releases and pre-releases, a spelling, a flavour, the next major version.
Spelled(ma, mi, s, r) == [kind |-> "semver", major |-> ma, minor |-> mi, sfx |-> s, raw |-> r]
FewTags == {Spelled(1, 0, 1, 0), Spelled(1, 1, 1, 0), Spelled(1, 1, 1, 1), Spelled(1, 1, 3, 0),
            Spelled(1, 0, 3, 0), Spelled(1, 1, 4, 0), Spelled(2, 0, 1, 0), Spelled(1, 1, 2, 0), Latest}

VARIABLE part
containerParts == <<cVars, tagVars, part>>

OnContainers == part = "containers" /\ UNCHANGED <<tagVars, part>>
OnTags == part = "tags" /\ UNCHANGED <<cVars, part>>

BothInit ==
    /\ part \in {"containers", "tags"}
    /\ ContainerInit /\ TagInit
    /\ part # "tags" => /\ cur = Latest /\ tags = <<>> /\ listed /\ local = 1
                        /\ dig = [t \in Tags |-> 1]

BothNext ==
    \/ OnContainers /\ ContainerNext
    \/ OnTags /\ TagNext

BothSpec == BothInit /\ [][BothNext]_containerParts

\* The fairness of the containers.
BothLiveSpec ==
    /\ BothSpec
    /\ WF_cVars(part = "containers" /\ AgentSteps) /\ WF_cVars(part = "containers" /\ Report)
    /\ WF_cVars(part = "containers" /\ RunSteps) /\ WF_cVars(part = "containers" /\ AdminTakes)
    /\ \A a \in Askers : WF_cVars(part = "containers" /\ (ScanList(a) \/ ScanProbe(a)))
    /\ WF_cVars(part = "containers" /\ ScanStore(ByAdmin))
=============================================================================
