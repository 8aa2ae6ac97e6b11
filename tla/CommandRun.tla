----------------------------- MODULE CommandRun -----------------------------
(***************************************************************************)
(* Remote commands (master/internal/commands): Run stores a command and    *)
(* starts one execNode goroutine per node, which subscribes, sends, stores *)
(* the output it receives and reports the node's exit; markFinished        *)
(* aggregates the exits under finMu and finalises the command.             *)
(*                                                                         *)
(* The hub is seen through what it promises (RpcContract): a Send may fail,*)
(* a message is dropped when the channel is full, a disconnect closes the  *)
(* channel behind what it buffers.  An exit is zero or not.                *)
(***************************************************************************)
EXTENDS Naturals, Sequences

CONSTANTS Commands, Nodes,
          NodesOf,     \* [Commands -> SUBSET Nodes], none empty
          MaxLines,    \* bound: output messages of a node
          ChanCap,     \* capacity of a subscription channel (64)
          MaxCrashes   \* bound: restarts of the master

ASSUME CommandConstants ==
    /\ NodesOf \in [Commands -> (SUBSET Nodes) \ {{}}]
    /\ MaxLines \in Nat /\ ChanCap \in Nat \ {0} /\ MaxCrashes \in Nat

VARIABLES
    status,   \* commands.status
    pc,       \* program counter of execNode
    chan,     \* its channel: output lines and exits
    closed,   \* has the hub closed it?
    exit,     \* its local exit
    lines,    \* command_lines: how many lines are stored
    agent,    \* the node's side: idle, running, or the exit it ended with
    said,     \* output messages the agent has sent
    done,     \* the exit broadcast as command.done
    exits,    \* finState: the exits tracked for a command
    verdict,  \* the status markFinished computed under finMu
    crashes

vars == <<status, pc, chan, closed, exit, lines, agent, said, done, exits,
          verdict, crashes>>
nodeVars == <<chan, closed, exit, lines, agent, said, done>>

NoExit == "none"
Exits == {"zero", "nonzero"}
PerNode(S) == [Commands -> [Nodes -> S]]
AllNodes(x) == [c \in Commands |-> [n \in Nodes |-> x]]

TypeOK ==
    /\ status \in [Commands -> {"absent", "running", "completed", "failed"}]
    /\ pc \in PerNode({"idle", "sending", "waiting", "reporting", "marking",
                       "finishing", "done", "dead"})
    /\ chan \in PerNode(Seq({"line"} \union Exits))
    /\ \A c \in Commands, n \in Nodes : Len(chan[c][n]) <= ChanCap
    /\ closed \in PerNode(BOOLEAN)
    /\ exit \in PerNode(Exits)
    /\ lines \in PerNode(0..(MaxLines + 1))
    /\ agent \in PerNode(Exits \union {"idle", "running"})
    /\ said \in PerNode(0..MaxLines)
    /\ done \in PerNode(Exits \union {NoExit})
    /\ exits \in PerNode(Exits \union {NoExit})
    /\ verdict \in [Commands -> {"none", "completed", "failed"}]
    /\ crashes \in 0..MaxCrashes

Init ==
    /\ status = [c \in Commands |-> "absent"]
    /\ pc = AllNodes("idle")
    /\ chan = AllNodes(<<>>) /\ closed = AllNodes(FALSE)
    /\ exit = AllNodes("zero") /\ lines = AllNodes(0)
    /\ agent = AllNodes("idle") /\ said = AllNodes(0)
    /\ done = AllNodes(NoExit)
    /\ exits = AllNodes(NoExit)
    /\ verdict = [c \in Commands |-> "none"]
    /\ crashes = 0

-----------------------------------------------------------------------------
(* Faulty variants of definitions below, each a bug the code could have.   *)
(* No specification uses them: they show that the properties notice.       *)

\* The wait for the agent has no deadline.
TimeoutNever(c, n) ==
    /\ pc[c][n] = "waiting" /\ closed[c][n] /\ chan[c][n] = <<>>
    /\ pc' = [pc EXCEPT ![c][n] = "reporting"]
    /\ UNCHANGED <<status, nodeVars, exits, verdict, crashes>>

\* The first failing node finalises the command.
CompleteOnFailure(c, now) ==
    \/ \A n \in NodesOf[c] : now[n] # NoExit
    \/ \E n \in NodesOf[c] : now[n] = "nonzero"

\* agg is overwritten by every exit of the loop.
AggregateLast(c, now) ==
    LET last == CHOOSE n \in NodesOf[c] : now[n] # NoExit
    IN  IF now[last] = "zero" THEN "completed" ELSE "failed"

-----------------------------------------------------------------------------
(* The master.                                                             *)

Run(c) ==
    /\ status[c] = "absent"
    /\ status' = [status EXCEPT ![c] = "running"]
    /\ pc' = [pc EXCEPT ![c] = [n \in Nodes |->
                 IF n \in NodesOf[c] THEN "sending" ELSE "idle"]]
    /\ UNCHANGED <<nodeVars, exits, verdict, crashes>>

Send(c, n) ==
    /\ pc[c][n] = "sending"
    /\ pc' = [pc EXCEPT ![c][n] = "waiting"]
    /\ agent' = [agent EXCEPT ![c][n] = "running"]
    /\ UNCHANGED <<status, chan, closed, exit, lines, said, done, exits,
                   verdict, crashes>>

\* An offline node: one line on stderr, command.done with exit -1, return.
SendFails(c, n) ==
    /\ pc[c][n] = "sending"
    /\ pc' = [pc EXCEPT ![c][n] = "done"]
    /\ lines' = [lines EXCEPT ![c][n] = @ + 1]
    /\ done' = [done EXCEPT ![c][n] = "nonzero"]
    /\ UNCHANGED <<status, chan, closed, exit, agent, said, exits, verdict,
                   crashes>>

Receive(c, n) ==
    LET m == Head(chan[c][n])
    IN  /\ pc[c][n] = "waiting" /\ chan[c][n] # <<>>
        /\ chan' = [chan EXCEPT ![c][n] = Tail(@)]
        /\ \/ /\ m = "line"
              /\ lines' = [lines EXCEPT ![c][n] = @ + 1]
              /\ UNCHANGED <<pc, exit>>
           \/ /\ m \in Exits
              /\ exit' = [exit EXCEPT ![c][n] = m]
              /\ pc' = [pc EXCEPT ![c][n] = "reporting"]
              /\ UNCHANGED lines
        /\ UNCHANGED <<status, closed, agent, said, done, exits, verdict, crashes>>

\* goto done with the exit still 0.
ReceiveClosed(c, n) ==
    /\ pc[c][n] = "waiting" /\ closed[c][n] /\ chan[c][n] = <<>>
    /\ pc' = [pc EXCEPT ![c][n] = "reporting"]
    /\ UNCHANGED <<status, nodeVars, exits, verdict, crashes>>

\* maxRunDuration has passed: also with the exit still 0.
Timeout(c, n) ==
    /\ pc[c][n] = "waiting"
    /\ pc' = [pc EXCEPT ![c][n] = "reporting"]
    /\ UNCHANGED <<status, nodeVars, exits, verdict, crashes>>

BroadcastDone(c, n) ==
    /\ pc[c][n] = "reporting"
    /\ pc' = [pc EXCEPT ![c][n] = "marking"]
    /\ done' = [done EXCEPT ![c][n] = exit[c][n]]
    /\ UNCHANGED <<status, chan, closed, exit, lines, agent, said, exits,
                   verdict, crashes>>

Complete(c, now) == \A n \in NodesOf[c] : now[n] # NoExit
Aggregate(c, now) ==
    IF \A n \in NodesOf[c] : now[n] \in {"zero", NoExit} THEN "completed" ELSE "failed"
TrackerAfter(c, now) ==
    IF Complete(c, now) THEN [n \in Nodes |-> NoExit] ELSE now

\* The critical section of finMu.
markFinished(c, n) ==
    LET now == [exits[c] EXCEPT ![n] = exit[c][n]]
        complete == Complete(c, now)
    IN  /\ pc[c][n] = "marking"
        /\ pc' = [pc EXCEPT ![c][n] = IF complete THEN "finishing" ELSE "done"]
        /\ verdict' = [verdict EXCEPT ![c] = IF complete THEN Aggregate(c, now) ELSE @]
        /\ exits' = [exits EXCEPT ![c] = TrackerAfter(c, now)]
        /\ UNCHANGED <<status, nodeVars, crashes>>

\* FinishCommand, after finMu has been released.
FinishCommand(c, n) ==
    /\ pc[c][n] = "finishing"
    /\ pc' = [pc EXCEPT ![c][n] = "done"]
    /\ status' = [status EXCEPT ![c] = verdict[c]]
    /\ UNCHANGED <<nodeVars, exits, verdict, crashes>>

-----------------------------------------------------------------------------
(* The node, the hub and the process.                                      *)

\* What route does with a message: dropped when the channel is full.
Routed(queue, m) == IF Len(queue) < ChanCap THEN Append(queue, m) ELSE queue

\* A message for a goroutine that has unsubscribed goes nowhere.
Route(c, n, m) ==
    chan' = [chan EXCEPT ![c][n] =
               IF pc[c][n] = "waiting" /\ ~closed[c][n] THEN Routed(@, m) ELSE @]

AgentSays(c, n) ==
    /\ agent[c][n] = "running" /\ said[c][n] < MaxLines
    /\ said' = [said EXCEPT ![c][n] = @ + 1]
    /\ Route(c, n, "line")
    /\ UNCHANGED <<status, pc, closed, exit, lines, agent, done, exits,
                   verdict, crashes>>

AgentExits(c, n, e) ==
    /\ agent[c][n] = "running"
    /\ agent' = [agent EXCEPT ![c][n] = e]
    /\ Route(c, n, e)
    /\ UNCHANGED <<status, pc, closed, exit, lines, said, done, exits,
                   verdict, crashes>>

\* cancelClientSubs: every wait on the node is closed, the commands run on.
Disconnect(n) ==
    /\ \E c \in Commands : pc[c][n] = "waiting" /\ ~closed[c][n]
    /\ closed' = [c \in Commands |->
         [closed[c] EXCEPT ![n] = @ \/ pc[c][n] = "waiting"]]
    /\ UNCHANGED <<status, pc, chan, exit, lines, agent, said, done, exits,
                   verdict, crashes>>

\* finState is memory, commands.status is not.
Crash ==
    /\ crashes < MaxCrashes
    /\ crashes' = crashes + 1
    /\ pc' = [c \in Commands |-> [n \in Nodes |->
                IF pc[c][n] \in {"idle", "done"} THEN pc[c][n] ELSE "dead"]]
    /\ chan' = AllNodes(<<>>) /\ closed' = AllNodes(FALSE)
    /\ exit' = AllNodes("zero")
    /\ exits' = AllNodes(NoExit)
    /\ verdict' = [c \in Commands |-> "none"]
    /\ UNCHANGED <<status, lines, agent, said, done>>

ExecSteps(c, n) ==
    \/ Send(c, n) \/ SendFails(c, n) \/ Receive(c, n) \/ ReceiveClosed(c, n)
    \/ Timeout(c, n) \/ BroadcastDone(c, n) \/ markFinished(c, n)
    \/ FinishCommand(c, n)

Next ==
    \/ \E c \in Commands : Run(c)
    \/ \E c \in Commands, n \in Nodes :
          \/ ExecSteps(c, n) \/ AgentSays(c, n)
          \/ \E e \in Exits : AgentExits(c, n, e)
    \/ \E n \in Nodes : Disconnect(n)
    \/ Crash

Spec == Init /\ [][Next]_vars

\* Goroutines run and the timer of execNode fires; agents may never answer.
Fairness == \A c \in Commands, n \in Nodes :
    WF_vars(ExecSteps(c, n)) /\ WF_vars(Timeout(c, n))

LiveSpec == Spec /\ Fairness

-----------------------------------------------------------------------------
(* Properties.                                                             *)

Finished(c) == status[c] \in {"completed", "failed"}

\* A command is finished only when none of its nodes is still at work, so
\* that a browser sees no output after command.finished.
FinishedAfterAll ==
    \A c \in Commands : Finished(c) =>
        \A n \in NodesOf[c] : pc[c][n] \in {"done", "dead"} /\ done[c][n] # NoExit

\* A failure that the browser was shown fails the command.
CompletedShowsNoFailure ==
    \A c \in Commands : status[c] = "completed" =>
        \A n \in NodesOf[c] : done[c][n] = "zero"

\* finState only holds commands that are still running.
TrackerOnlyWhileRunning ==
    \A c \in Commands : (\E n \in Nodes : exits[c][n] # NoExit) => status[c] = "running"

\* Both, and types: no channel outgrows its capacity whatever the agents say.
CommandInv == TypeOK /\ CompletedShowsNoFailure /\ TrackerOnlyWhileRunning

\* Every node of a command comes to a command.done, whatever its agent does,
\* unless the master dies first.
EveryNodeReports ==
    \A c \in Commands : \A n \in NodesOf[c] :
        status[c] = "running" ~> done[c][n] # NoExit \/ pc[c][n] = "dead"

(* commands/service.go:117: markFinished finalises the command once all    *)
(* targeted nodes have reported.                                           *)
ReportedCommandsFinish ==
    \A c \in Commands :
        (\A n \in NodesOf[c] : done[c][n] # NoExit) ~> Finished(c)

(* commands/service.go:117, seen from the other side: a finished command   *)
(* has heard the end of the run from every targeted node.                  *)
FinishedMeansReported ==
    \A c \in Commands : Finished(c) => \A n \in NodesOf[c] : agent[c][n] \in Exits
=============================================================================
