---------------------------- MODULE NodesProofs -----------------------------
(* Nodes and their agents: the verdict of a command covers all its nodes,  *)
(* a deleted node does not come back, and a rule of the mesh is made of    *)
(* nodes and configured sources only, for any commands, hosts, nodes,      *)
(* capacities and any number of requests, faults and restarts.             *)
EXTENDS MCNodes, TLAPS

-----------------------------------------------------------------------------
(* Remote commands.                                                        *)

Messages == {"line"} \union Exits
Statuses == {"absent", "running", "completed", "failed"}
Places == {"idle", "sending", "waiting", "reporting", "marking", "finishing", "done", "dead"}
AgentStates == Exits \union {"idle", "running"}
Shown == Exits \union {NoExit}

(* The lines a node may still bring: a message in its channel is a line    *)
(* the agent has said, or its exit.                                        *)
Counted(c, n) ==
    /\ pc[c][n] \in {"idle", "sending"} => agent[c][n] = "idle" /\ lines[c][n] = 0
    /\ agent[c][n] = "idle" => chan[c][n] = <<>> /\ lines[c][n] <= 1
    /\ agent[c][n] = "running" => lines[c][n] + Len(chan[c][n]) <= said[c][n]
    /\ lines[c][n] + Len(chan[c][n]) <= said[c][n] + 1

(* Who is at work is a node of a running command.                          *)
AtWork(c, n) ==
    /\ pc[c][n] \notin {"idle", "done", "dead"} => status[c] = "running" /\ n \in NodesOf[c]
    /\ status[c] = "absent" => pc[c][n] = "idle"
    /\ pc[c][n] = "marking" => done[c][n] = exit[c][n]

(* The tracker holds the exits of nodes that are done, as they were shown. *)
Tracked(c, n) ==
    exits[c][n] # NoExit =>
        /\ status[c] = "running" /\ pc[c][n] = "done" /\ done[c][n] = exits[c][n]

(* One node finalises, when all others are done; the tracker is then gone. *)
Finalising(c, n) ==
    pc[c][n] = "finishing" =>
        /\ verdict[c] \in {"completed", "failed"}
        /\ done[c][n] # NoExit
        /\ \A m \in NodesOf[c] \ {n} : pc[c][m] = "done" /\ done[c][m] # NoExit
        /\ verdict[c] = "completed" => \A m \in NodesOf[c] : done[c][m] = "zero"
        /\ \A m \in Nodes : exits[c][m] = NoExit

Verdicts ==
    /\ \A c \in Commands, n \in Nodes : AtWork(c, n) /\ Tracked(c, n) /\ Finalising(c, n)
    /\ FinishedAfterAll /\ CompletedShowsNoFailure

Counting == \A c \in Commands, n \in Nodes : Counted(c, n)

RunInv == TypeOK /\ Counting /\ Verdicts

LEMMA NodesAreNodes == \A c \in Commands : NodesOf[c] \subseteq Nodes
  BY CommandConstants

LEMMA RunInit == Init => RunInv
<1> SUFFICES ASSUME Init PROVE RunInv
  OBVIOUS
<1>1. TypeOK
  BY CommandConstants DEF Init, TypeOK, PerNode, AllNodes, Exits, NoExit
<1>2. Counting
  BY DEF Init, Counting, Counted, AllNodes
<1>3. Verdicts
  BY NodesAreNodes
  DEF Init, Verdicts, AtWork, Tracked, Finalising, FinishedAfterAll, CompletedShowsNoFailure,
      Finished, AllNodes, NoExit
<1> QED BY <1>1, <1>2, <1>3 DEF RunInv

-----------------------------------------------------------------------------
(* Channels.                                                               *)

LEMMA RouteKeeps ==
  ASSUME TypeOK, NEW c \in Commands, NEW n \in Nodes, NEW m \in Messages, Route(c, n, m)
  PROVE  /\ chan' \in PerNode(Seq(Messages))
         /\ \A d \in Commands, k \in Nodes : Len(chan'[d][k]) <= ChanCap
         /\ \A d \in Commands, k \in Nodes : ~(d = c /\ k = n) => chan'[d][k] = chan[d][k]
         /\ \/ chan'[c][n] = chan[c][n]
            \/ Len(chan'[c][n]) = Len(chan[c][n]) + 1
<1> DEFINE old == chan[c][n]
           new == IF pc[c][n] = "waiting" /\ ~closed[c][n] THEN Routed(old, m) ELSE old
<1>1. chan \in [Commands -> [Nodes -> Seq(Messages)]] /\ old \in Seq(Messages)
  BY DEF TypeOK, PerNode, Messages
<1>2. Len(old) <= ChanCap /\ Len(old) \in Nat /\ ChanCap \in Nat
  BY <1>1, CommandConstants DEF TypeOK
<1>3. /\ new \in Seq(Messages) /\ Len(new) <= ChanCap
      /\ new = old \/ Len(new) = Len(old) + 1
  BY <1>1, <1>2 DEF Routed
<1>4. chan' = [chan EXCEPT ![c][n] = new]
  BY DEF Route
<1> HIDE DEF new
<1>5. chan' \in [Commands -> [Nodes -> Seq(Messages)]] /\ chan'[c][n] = new
  BY <1>1, <1>3, <1>4
<1>6. \A d \in Commands, k \in Nodes : ~(d = c /\ k = n) => chan'[d][k] = chan[d][k]
  BY <1>1, <1>4
<1>7. \A d \in Commands, k \in Nodes : Len(chan[d][k]) <= ChanCap
  BY DEF TypeOK
<1>8. \A d \in Commands, k \in Nodes : Len(chan'[d][k]) <= ChanCap
  BY <1>3, <1>5, <1>6, <1>7
<1> QED BY <1>3, <1>5, <1>6, <1>8 DEF PerNode

LEMMA TakeKeeps ==
  ASSUME TypeOK, NEW c \in Commands, NEW n \in Nodes, chan[c][n] # <<>>,
         chan' = [chan EXCEPT ![c][n] = Tail(chan[c][n])]
  PROVE  /\ chan' \in PerNode(Seq(Messages))
         /\ \A d \in Commands, k \in Nodes : Len(chan'[d][k]) <= ChanCap
         /\ \A d \in Commands, k \in Nodes : ~(d = c /\ k = n) => chan'[d][k] = chan[d][k]
         /\ Len(chan'[c][n]) + 1 = Len(chan[c][n])
<1> DEFINE old == chan[c][n]
           new == Tail(old)
<1>1. chan \in [Commands -> [Nodes -> Seq(Messages)]] /\ old \in Seq(Messages) /\ old # <<>>
  BY DEF TypeOK, PerNode, Messages
<1>2. Len(old) <= ChanCap /\ Len(old) \in Nat /\ ChanCap \in Nat
  BY <1>1, CommandConstants DEF TypeOK
<1>3. new \in Seq(Messages) /\ Len(new) + 1 = Len(old) /\ Len(new) <= ChanCap
  BY <1>1, <1>2
<1> HIDE DEF new
<1>4. chan' = [chan EXCEPT ![c][n] = new]
  BY DEF new
<1>5. chan' \in [Commands -> [Nodes -> Seq(Messages)]] /\ chan'[c][n] = new
  BY <1>1, <1>3, <1>4
<1>6. \A d \in Commands, k \in Nodes : ~(d = c /\ k = n) => chan'[d][k] = chan[d][k]
  BY <1>1, <1>4
<1>7. \A d \in Commands, k \in Nodes : Len(chan[d][k]) <= ChanCap
  BY DEF TypeOK
<1>8. \A d \in Commands, k \in Nodes : Len(chan'[d][k]) <= ChanCap
  BY <1>3, <1>5, <1>6, <1>7
<1> QED BY <1>3, <1>5, <1>6, <1>8 DEF PerNode

-----------------------------------------------------------------------------
(* Types and counts.                                                       *)

\* Everything but the channels and the counters.
PlainTypes ==
    /\ status \in [Commands -> Statuses]
    /\ pc \in PerNode(Places)
    /\ closed \in PerNode(BOOLEAN) /\ exit \in PerNode(Exits)
    /\ agent \in PerNode(AgentStates)
    /\ done \in PerNode(Shown) /\ exits \in PerNode(Shown)
    /\ verdict \in [Commands -> {"none", "completed", "failed"}]
    /\ crashes \in 0..MaxCrashes

LEMMA SetAt ==
  ASSUME NEW S, NEW f, f \in PerNode(S), NEW c \in Commands, NEW n \in Nodes, NEW v \in S
  PROVE  /\ [f EXCEPT ![c][n] = v] \in PerNode(S)
         /\ [f EXCEPT ![c][n] = v][c][n] = v
         /\ \A d \in Commands, k \in Nodes :
              ~(d = c /\ k = n) => [f EXCEPT ![c][n] = v][d][k] = f[d][k]
  BY DEF PerNode

LEMMA PlainStep == RunInv /\ Next => PlainTypes'
<1> SUFFICES ASSUME RunInv, Next PROVE PlainTypes'
  OBVIOUS
<1>0. TypeOK
  BY DEF RunInv
<1>a. /\ status \in [Commands -> Statuses] /\ pc \in PerNode(Places)
      /\ closed \in PerNode(BOOLEAN) /\ exit \in PerNode(Exits)
      /\ agent \in PerNode(AgentStates) /\ done \in PerNode(Shown) /\ exits \in PerNode(Shown)
      /\ verdict \in [Commands -> {"none", "completed", "failed"}] /\ crashes \in 0..MaxCrashes
  BY <1>0 DEF TypeOK, Statuses, Places, AgentStates, Shown
<1>b. /\ Exits \subseteq AgentStates /\ Exits \subseteq Shown
      /\ "running" \in AgentStates /\ "nonzero" \in Shown /\ NoExit \in Shown
      /\ "zero" \in Exits
  BY DEF Exits, AgentStates, Shown
<1>c. /\ "idle" \in Places /\ "sending" \in Places /\ "waiting" \in Places
      /\ "reporting" \in Places /\ "marking" \in Places /\ "finishing" \in Places
      /\ "done" \in Places /\ "dead" \in Places
  BY DEF Places
<1>1. ASSUME NEW c \in Commands, Run(c) PROVE PlainTypes'
  <2>1. status' \in [Commands -> Statuses]
    BY <1>1, <1>a DEF Run, Statuses
  <2>2. pc' \in PerNode(Places)
    BY <1>1, <1>a DEF Run, Places, PerNode
  <2> QED BY <1>1, <1>a, <2>1, <2>2 DEF Run, nodeVars, PlainTypes
<1>2. ASSUME NEW c \in Commands, NEW n \in Nodes, Send(c, n) PROVE PlainTypes'
  <2>1. agent' \in PerNode(AgentStates)
    BY <1>2, <1>a, <1>b, SetAt DEF Send
  <2>2. pc' \in PerNode(Places)
    BY <1>2, <1>a, <1>c, SetAt DEF Send
  <2> QED BY <1>2, <1>a, <2>1, <2>2 DEF Send, PlainTypes
<1>3. ASSUME NEW c \in Commands, NEW n \in Nodes, SendFails(c, n) PROVE PlainTypes'
  <2>1. done' \in PerNode(Shown)
    BY <1>3, <1>a, <1>b, SetAt DEF SendFails
  <2>2. pc' \in PerNode(Places)
    BY <1>3, <1>a, <1>c, SetAt DEF SendFails
  <2> QED BY <1>3, <1>a, <2>1, <2>2 DEF SendFails, PlainTypes
<1>4. ASSUME NEW c \in Commands, NEW n \in Nodes, Receive(c, n) PROVE PlainTypes'
  <2>0. \/ pc' = pc /\ exit' = exit
        \/ /\ pc' = [pc EXCEPT ![c][n] = "reporting"]
           /\ \E m \in Exits : exit' = [exit EXCEPT ![c][n] = m]
    BY <1>4 DEF Receive
  <2>1. exit' \in PerNode(Exits)
    BY <2>0, <1>a, SetAt
  <2>2. pc' \in PerNode(Places)
    <3>1. CASE pc' = pc
      BY <1>a, <3>1
    <3>2. CASE pc' = [pc EXCEPT ![c][n] = "reporting"]
      BY <1>a, <1>c, <3>2, SetAt
    <3> QED BY <2>0, <3>1, <3>2
  <2> QED BY <1>4, <1>a, <2>1, <2>2 DEF Receive, PlainTypes
<1>5. ASSUME NEW c \in Commands, NEW n \in Nodes, ReceiveClosed(c, n) \/ Timeout(c, n)
      PROVE PlainTypes'
  <2>1. pc' = [pc EXCEPT ![c][n] = "reporting"]
    BY <1>5 DEF ReceiveClosed, Timeout
  <2>2. pc' \in PerNode(Places)
    BY <2>1, <1>a, <1>c, SetAt
  <2> QED BY <1>5, <1>a, <2>2 DEF ReceiveClosed, Timeout, nodeVars, PlainTypes
<1>6. ASSUME NEW c \in Commands, NEW n \in Nodes, BroadcastDone(c, n) PROVE PlainTypes'
  <2>1. exit[c][n] \in Shown
    BY <1>a, <1>b DEF PerNode
  <2>2. done' \in PerNode(Shown)
    BY <1>6, <1>a, <2>1, SetAt DEF BroadcastDone
  <2>3. pc' \in PerNode(Places)
    BY <1>6, <1>a, <1>c, SetAt DEF BroadcastDone
  <2> QED BY <1>6, <1>a, <2>2, <2>3 DEF BroadcastDone, PlainTypes
<1>7. ASSUME NEW c \in Commands, NEW n \in Nodes, markFinished(c, n) PROVE PlainTypes'
  <2> DEFINE now == [exits[c] EXCEPT ![n] = exit[c][n]]
  <2>1. now \in [Nodes -> Shown]
    BY <1>a, <1>b DEF PerNode
  <2>2. TrackerAfter(c, now) \in [Nodes -> Shown]
    BY <1>b, <2>1 DEF TrackerAfter
  <2>3. Aggregate(c, now) \in {"completed", "failed"}
    BY DEF Aggregate
  <2> HIDE DEF now
  <2>4. exits' \in PerNode(Shown)
    BY <1>7, <1>a, <2>2 DEF markFinished, now, PerNode
  <2>5. verdict' = [verdict EXCEPT ![c] =
          IF Complete(c, now) THEN Aggregate(c, now) ELSE verdict[c]]
    BY <1>7 DEF markFinished, now
  <2>6. verdict' \in [Commands -> {"none", "completed", "failed"}]
    BY <1>a, <2>3, <2>5
  <2>7. pc' = [pc EXCEPT ![c][n] = IF Complete(c, now) THEN "finishing" ELSE "done"]
    BY <1>7 DEF markFinished, now
  <2>8. pc' \in PerNode(Places)
    BY <1>a, <1>c, <2>7, SetAt
  <2> QED BY <1>7, <1>a, <2>4, <2>6, <2>8 DEF markFinished, nodeVars, PlainTypes
<1>8. ASSUME NEW c \in Commands, NEW n \in Nodes, FinishCommand(c, n) PROVE PlainTypes'
  <2>1. verdict[c] \in {"completed", "failed"}
    BY <1>8 DEF FinishCommand, RunInv, Verdicts, Finalising
  <2>2. status' \in [Commands -> Statuses]
    BY <1>8, <1>a, <2>1 DEF FinishCommand, Statuses
  <2>3. pc' \in PerNode(Places)
    BY <1>8, <1>a, <1>c, SetAt DEF FinishCommand
  <2> QED BY <1>8, <1>a, <2>2, <2>3 DEF FinishCommand, nodeVars, PlainTypes
<1>9. ASSUME NEW c \in Commands, NEW n \in Nodes, AgentSays(c, n) PROVE PlainTypes'
  BY <1>9, <1>a DEF AgentSays, PlainTypes
<1>10. ASSUME NEW c \in Commands, NEW n \in Nodes, NEW e \in Exits, AgentExits(c, n, e)
       PROVE PlainTypes'
  <2>1. agent' \in PerNode(AgentStates)
    BY <1>10, <1>a, <1>b, SetAt DEF AgentExits
  <2> QED BY <1>10, <1>a, <2>1 DEF AgentExits, PlainTypes
<1>11. ASSUME NEW n \in Nodes, Disconnect(n) PROVE PlainTypes'
  <2>1. closed' = [c \in Commands |->
          [closed[c] EXCEPT ![n] = closed[c][n] \/ pc[c][n] = "waiting"]]
    BY <1>11 DEF Disconnect
  <2>2. closed \in [Commands -> [Nodes -> BOOLEAN]]
    BY <1>a DEF PerNode
  <2>3. \A c \in Commands :
          [closed[c] EXCEPT ![n] = closed[c][n] \/ pc[c][n] = "waiting"] \in [Nodes -> BOOLEAN]
    BY <2>2
  <2>4. closed' \in PerNode(BOOLEAN)
    BY <2>1, <2>3 DEF PerNode
  <2> QED BY <1>11, <1>a, <2>4 DEF Disconnect, PlainTypes
<1>12. ASSUME Crash PROVE PlainTypes'
  <2>1. pc' \in PerNode(Places)
    BY <1>12, <1>a DEF Crash, PerNode, Places
  <2>2. /\ closed' \in PerNode(BOOLEAN) /\ exit' \in PerNode(Exits) /\ exits' \in PerNode(Shown)
        /\ verdict' \in [Commands -> {"none", "completed", "failed"}]
    BY <1>12, <1>b DEF Crash, AllNodes, PerNode
  <2>3. crashes' \in 0..MaxCrashes
    BY <1>12, <1>a, CommandConstants DEF Crash
  <2> QED BY <1>12, <1>a, <2>1, <2>2, <2>3 DEF Crash, PlainTypes
<1> QED
  BY <1>1, <1>2, <1>3, <1>4, <1>5, <1>6, <1>7, <1>8, <1>9, <1>10, <1>11, <1>12
  DEF Next, ExecSteps

CountTypes ==
    /\ chan \in PerNode(Seq(Messages))
    /\ \A c \in Commands, n \in Nodes : Len(chan[c][n]) <= ChanCap
    /\ lines \in PerNode(0..(MaxLines + 1)) /\ said \in PerNode(0..MaxLines)

LEMMA CountStep == RunInv /\ Next => CountTypes' /\ Counting'
<1> SUFFICES ASSUME RunInv, Next PROVE CountTypes' /\ Counting'
  OBVIOUS
<1>0. TypeOK /\ Counting /\ Verdicts
  BY DEF RunInv
<1>a. CountTypes /\ pc \in PerNode(Places) /\ agent \in PerNode(AgentStates) /\ MaxLines \in Nat
  BY <1>0, CommandConstants DEF TypeOK, CountTypes, Messages, Places, AgentStates
<1>b. \A c \in Commands, n \in Nodes :
        /\ lines[c][n] \in 0..(MaxLines + 1) /\ said[c][n] \in 0..MaxLines
        /\ chan[c][n] \in Seq(Messages) /\ Len(chan[c][n]) \in Nat /\ Counted(c, n)
        /\ chan[c][n] = <<>> => Len(chan[c][n]) = 0
  BY <1>0, <1>a DEF CountTypes, PerNode, Counting
<1>c. /\ "running" \in AgentStates /\ Exits \subseteq AgentStates
      /\ \A e \in Exits : e \in Messages /\ e # "idle" /\ e # "running"
      /\ "line" \in Messages
      /\ "waiting" \in Places /\ "done" \in Places /\ "reporting" \in Places
      /\ "marking" \in Places
  BY DEF AgentStates, Exits, Messages, Places
\* A step of the program counters alone.
<1>p. ASSUME UNCHANGED <<chan, lines, agent, said>>,
             \A c \in Commands, n \in Nodes :
               pc'[c][n] \in {"idle", "sending"} => pc[c][n] \in {"idle", "sending"}
      PROVE  CountTypes' /\ Counting'
  BY <1>p, <1>a, <1>b DEF CountTypes, Counting, Counted
<1>1. ASSUME NEW c \in Commands, Run(c) PROVE CountTypes' /\ Counting'
  <2>1. \A n \in Nodes : pc[c][n] = "idle"
    BY <1>1, <1>0 DEF Run, Verdicts, AtWork
  <2>2. \A d \in Commands \ {c} : pc'[d] = pc[d]
    BY <1>1, <1>a DEF Run, PerNode
  <2> QED BY <1>1, <1>p, <2>1, <2>2 DEF Run, nodeVars
<1>2. ASSUME NEW c \in Commands, NEW n \in Nodes, Send(c, n) PROVE CountTypes' /\ Counting'
  <2>1. /\ agent'[c][n] = "running" /\ pc'[c][n] = "waiting"
        /\ \A d \in Commands, k \in Nodes : ~(d = c /\ k = n) =>
             agent'[d][k] = agent[d][k] /\ pc'[d][k] = pc[d][k]
    BY <1>2, <1>a, <1>c, SetAt DEF Send
  <2>2. UNCHANGED <<chan, lines, said>> /\ pc[c][n] = "sending"
    BY <1>2 DEF Send
  <2>3. Counted(c, n)'
    <3>1. lines[c][n] = 0 /\ chan[c][n] = <<>>
      BY <1>b, <2>2 DEF Counted
    <3>2. lines'[c][n] = 0 /\ Len(chan'[c][n]) = 0 /\ said'[c][n] \in Nat
      BY <1>a, <1>b, <2>2, <3>1
    <3> QED BY <2>1, <3>2 DEF Counted
  <2>4. \A d \in Commands, k \in Nodes : ~(d = c /\ k = n) => Counted(d, k)'
    BY <1>b, <2>1, <2>2 DEF Counted
  <2> QED BY <1>a, <2>2, <2>3, <2>4 DEF CountTypes, Counting
<1>3. ASSUME NEW c \in Commands, NEW n \in Nodes, SendFails(c, n) PROVE CountTypes' /\ Counting'
  <2>1. lines[c][n] = 0 /\ lines[c][n] + 1 \in 0..(MaxLines + 1) /\ chan[c][n] = <<>>
        /\ agent[c][n] = "idle"
    <3>1. pc[c][n] = "sending"
      BY <1>3 DEF SendFails
    <3>2. lines[c][n] = 0 /\ agent[c][n] = "idle" /\ chan[c][n] = <<>>
      BY <1>b, <3>1 DEF Counted
    <3> QED BY <1>a, <3>2
  <2>2. lines' \in PerNode(0..(MaxLines + 1)) /\ lines'[c][n] = 1
    <3>1. lines' = [lines EXCEPT ![c][n] = 1]
      BY <1>3, <2>1 DEF SendFails
    <3>2. 1 \in 0..(MaxLines + 1) /\ lines \in PerNode(0..(MaxLines + 1))
      BY <1>a DEF CountTypes
    <3> QED BY <3>1, <3>2 DEF PerNode
  <2>3. \A d \in Commands, k \in Nodes : ~(d = c /\ k = n) =>
             lines'[d][k] = lines[d][k] /\ pc'[d][k] = pc[d][k]
    BY <1>3, <1>a, <1>c, <2>1, SetAt DEF SendFails, CountTypes
  <2>4. UNCHANGED <<chan, agent, said>> /\ pc'[c][n] = "done"
    BY <1>3, <1>a, <1>c, SetAt DEF SendFails
  <2>5. Counted(c, n)'
    <3>1. agent'[c][n] = "idle" /\ chan'[c][n] = <<>>
      BY <2>1, <2>4
    <3>2. Len(chan'[c][n]) = 0 /\ said'[c][n] \in Nat
      BY <1>a, <1>b, <2>1, <2>4
    <3> QED BY <2>2, <2>4, <3>1, <3>2 DEF Counted
  <2>6. \A d \in Commands, k \in Nodes : ~(d = c /\ k = n) => Counted(d, k)'
    BY <1>b, <2>3, <2>4 DEF Counted
  <2> QED BY <1>a, <2>2, <2>4, <2>5, <2>6 DEF CountTypes, Counting
<1>4. ASSUME NEW c \in Commands, NEW n \in Nodes, Receive(c, n) PROVE CountTypes' /\ Counting'
  <2>1. chan[c][n] # <<>> /\ pc[c][n] = "waiting" /\ UNCHANGED <<agent, said>>
    BY <1>4 DEF Receive
  <2>2. /\ chan' \in PerNode(Seq(Messages))
        /\ \A d \in Commands, k \in Nodes : Len(chan'[d][k]) <= ChanCap
        /\ \A d \in Commands, k \in Nodes : ~(d = c /\ k = n) => chan'[d][k] = chan[d][k]
        /\ Len(chan'[c][n]) + 1 = Len(chan[c][n])
    BY <1>4, <1>0, <2>1, TakeKeeps DEF Receive
  <2>3. \/ lines' = lines /\ pc' = [pc EXCEPT ![c][n] = "reporting"]
        \/ lines' = [lines EXCEPT ![c][n] = lines[c][n] + 1] /\ pc' = pc
    BY <1>4 DEF Receive
  <2>4. Len(chan'[c][n]) \in Nat
    BY <2>2 DEF PerNode
  <2>5. lines[c][n] + 1 \in 0..(MaxLines + 1)
    <3>1. lines[c][n] + Len(chan[c][n]) <= said[c][n] + 1
      BY <1>b DEF Counted
    <3> DEFINE a == lines[c][n]
               b == Len(chan[c][n])
               s == said[c][n]
    <3>2. a \in Nat /\ b \in Nat /\ s \in Nat /\ b >= 1 /\ s <= MaxLines /\ MaxLines \in Nat
      BY <1>a, <1>b, <2>2, <2>4
    <3>3. a + b <= s + 1
      BY <3>1
    <3> HIDE DEF a, b, s
    <3>4. a + 1 \in 0..(MaxLines + 1)
      BY <3>2, <3>3
    <3> QED BY <3>4 DEF a
  <2>6. /\ lines' \in PerNode(0..(MaxLines + 1))
        /\ lines'[c][n] \in {lines[c][n], lines[c][n] + 1}
        /\ \A d \in Commands, k \in Nodes : ~(d = c /\ k = n) => lines'[d][k] = lines[d][k]
    <3> DEFINE v == lines[c][n] + 1
    <3>1. lines \in PerNode(0..(MaxLines + 1))
      BY <1>a DEF CountTypes
    <3> HIDE DEF v
    <3>2. lines' = lines \/ lines' = [lines EXCEPT ![c][n] = v]
      BY <2>3 DEF v
    <3>3. v \in 0..(MaxLines + 1)
      BY <2>5 DEF v
    <3>4. /\ lines' \in PerNode(0..(MaxLines + 1)) /\ lines'[c][n] \in {lines[c][n], v}
          /\ \A d \in Commands, k \in Nodes : ~(d = c /\ k = n) => lines'[d][k] = lines[d][k]
      BY <3>1, <3>2, <3>3 DEF PerNode
    <3> QED BY <3>4 DEF v
  <2>7. /\ pc'[c][n] \in {"waiting", "reporting"}
        /\ \A d \in Commands, k \in Nodes : ~(d = c /\ k = n) => pc'[d][k] = pc[d][k]
    BY <1>a, <1>c, <2>1, <2>3 DEF PerNode
  <2>8. agent[c][n] # "idle"
    BY <1>b, <2>1 DEF Counted
  <2>9. Counted(c, n)'
    <3> DEFINE a == lines[c][n]
               b == Len(chan[c][n])
               s == said[c][n]
               a2 == lines'[c][n]
               b2 == Len(chan'[c][n])
    <3>1. a \in Nat /\ b \in Nat /\ s \in Nat /\ b2 \in Nat /\ a + b <= s + 1 /\ b2 + 1 = b
          /\ a2 \in {a, a + 1} /\ (agent[c][n] = "running" => a + b <= s)
      BY <1>a, <1>b, <2>2, <2>4, <2>6 DEF Counted
    <3> HIDE DEF a, b, s, a2, b2
    <3>2. a2 + b2 <= s + 1 /\ (agent[c][n] = "running" => a2 + b2 <= s)
      BY <3>1
    <3>3. agent'[c][n] = agent[c][n] /\ said'[c][n] = s
      BY <2>1 DEF s
    <3> QED BY <2>7, <2>8, <3>2, <3>3 DEF Counted, a2, b2
  <2>10. ASSUME NEW d \in Commands, NEW k \in Nodes, ~(d = c /\ k = n) PROVE Counted(d, k)'
    <3>1. /\ pc'[d][k] = pc[d][k] /\ lines'[d][k] = lines[d][k] /\ chan'[d][k] = chan[d][k]
          /\ agent'[d][k] = agent[d][k] /\ said'[d][k] = said[d][k] /\ Counted(d, k)
      BY <1>b, <2>1, <2>2, <2>6, <2>7, <2>10
    <3> QED BY <3>1 DEF Counted
  <2> QED BY <1>a, <2>1, <2>2, <2>6, <2>9, <2>10 DEF CountTypes, Counting
<1>5. ASSUME NEW c \in Commands, NEW n \in Nodes, ReceiveClosed(c, n) \/ Timeout(c, n)
      PROVE CountTypes' /\ Counting'
  <2>1. pc' = [pc EXCEPT ![c][n] = "reporting"] /\ UNCHANGED <<chan, lines, agent, said>>
    BY <1>5 DEF ReceiveClosed, Timeout, nodeVars
  <2> QED BY <1>a, <1>c, <1>p, <2>1, SetAt
<1>6. ASSUME NEW c \in Commands, NEW n \in Nodes, BroadcastDone(c, n) PROVE CountTypes' /\ Counting'
  <2>1. pc' = [pc EXCEPT ![c][n] = "marking"] /\ UNCHANGED <<chan, lines, agent, said>>
    BY <1>6 DEF BroadcastDone
  <2> QED BY <1>a, <1>c, <1>p, <2>1, SetAt
<1>7. ASSUME NEW c \in Commands, NEW n \in Nodes, markFinished(c, n) PROVE CountTypes' /\ Counting'
  <2>1. \/ pc' = [pc EXCEPT ![c][n] = "finishing"]
        \/ pc' = [pc EXCEPT ![c][n] = "done"]
    BY <1>7 DEF markFinished
  <2>2. UNCHANGED <<chan, lines, agent, said>>
    BY <1>7 DEF markFinished, nodeVars
  <2>3. "finishing" \in Places /\ "done" \in Places
    BY DEF Places
  <2>4. \A d \in Commands, k \in Nodes :
          pc'[d][k] \in {"idle", "sending"} => pc[d][k] \in {"idle", "sending"}
    BY <1>a, <2>1, <2>3, SetAt
  <2> QED BY <1>p, <2>2, <2>4
<1>8. ASSUME NEW c \in Commands, NEW n \in Nodes, FinishCommand(c, n) PROVE CountTypes' /\ Counting'
  <2>1. pc' = [pc EXCEPT ![c][n] = "done"] /\ UNCHANGED <<chan, lines, agent, said>>
    BY <1>8 DEF FinishCommand, nodeVars
  <2> QED BY <1>a, <1>c, <1>p, <2>1, SetAt
<1>9. ASSUME NEW c \in Commands, NEW n \in Nodes, AgentSays(c, n) PROVE CountTypes' /\ Counting'
  <2>1. UNCHANGED <<pc, lines, agent>> /\ Route(c, n, "line") /\ agent[c][n] = "running"
        /\ said[c][n] < MaxLines /\ said' = [said EXCEPT ![c][n] = said[c][n] + 1]
    BY <1>9 DEF AgentSays
  <2>2. /\ chan' \in PerNode(Seq(Messages))
        /\ \A d \in Commands, k \in Nodes : Len(chan'[d][k]) <= ChanCap
        /\ \A d \in Commands, k \in Nodes : ~(d = c /\ k = n) => chan'[d][k] = chan[d][k]
        /\ chan'[c][n] = chan[c][n] \/ Len(chan'[c][n]) = Len(chan[c][n]) + 1
    BY <1>0, <1>c, <2>1, RouteKeeps
  <2>3. said[c][n] + 1 \in 0..MaxLines
    BY <1>a, <1>b, <2>1
  <2>4. /\ said' \in PerNode(0..MaxLines) /\ said'[c][n] = said[c][n] + 1
        /\ \A d \in Commands, k \in Nodes : ~(d = c /\ k = n) => said'[d][k] = said[d][k]
    <3> DEFINE v == said[c][n] + 1
    <3>1. said \in PerNode(0..MaxLines) /\ v \in 0..MaxLines /\ said' = [said EXCEPT ![c][n] = v]
      BY <1>a, <2>1, <2>3 DEF CountTypes
    <3> HIDE DEF v
    <3>2. /\ said' \in PerNode(0..MaxLines) /\ said'[c][n] = v
          /\ \A d \in Commands, k \in Nodes : ~(d = c /\ k = n) => said'[d][k] = said[d][k]
      BY <3>1 DEF PerNode
    <3> QED BY <3>2 DEF v
  <2>5. Counted(c, n)'
    <3>1. /\ pc[c][n] \notin {"idle", "sending"}
          /\ lines[c][n] + Len(chan[c][n]) <= said[c][n]
      BY <1>b, <2>1 DEF Counted
    <3> DEFINE a == lines[c][n]
               b == Len(chan[c][n])
               b2 == Len(chan'[c][n])
               s == said[c][n]
    <3>2. a \in Nat /\ b \in Nat /\ s \in Nat
      BY <1>a, <1>b
    <3>3. b2 = b \/ b2 = b + 1
      BY <2>2
    <3>4. a + b <= s
      BY <3>1
    <3> HIDE DEF a, b, b2, s
    <3>5. a + b2 <= s + 1
      BY <3>2, <3>3, <3>4
    <3>6. lines'[c][n] = a /\ said'[c][n] = s + 1 /\ agent'[c][n] = "running"
          /\ pc'[c][n] \notin {"idle", "sending"}
      BY <2>1, <2>4, <3>1 DEF a, s
    <3>7. a + b2 <= (s + 1) + 1
      BY <3>2, <3>3, <3>5
    <3> QED BY <3>5, <3>6, <3>7 DEF Counted, b2
  <2>6. \A d \in Commands, k \in Nodes : ~(d = c /\ k = n) => Counted(d, k)'
    BY <1>b, <2>1, <2>2, <2>4 DEF Counted
  <2> QED BY <1>a, <2>1, <2>2, <2>4, <2>5, <2>6 DEF CountTypes, Counting
<1>10. ASSUME NEW c \in Commands, NEW n \in Nodes, NEW e \in Exits, AgentExits(c, n, e)
       PROVE CountTypes' /\ Counting'
  <2>1. UNCHANGED <<pc, lines, said>> /\ Route(c, n, e) /\ agent[c][n] = "running"
        /\ agent' = [agent EXCEPT ![c][n] = e]
    BY <1>10 DEF AgentExits
  <2>2. /\ chan' \in PerNode(Seq(Messages))
        /\ \A d \in Commands, k \in Nodes : Len(chan'[d][k]) <= ChanCap
        /\ \A d \in Commands, k \in Nodes : ~(d = c /\ k = n) => chan'[d][k] = chan[d][k]
        /\ chan'[c][n] = chan[c][n] \/ Len(chan'[c][n]) = Len(chan[c][n]) + 1
    BY <1>0, <1>c, <2>1, RouteKeeps
  <2>3. /\ agent'[c][n] = e
        /\ \A d \in Commands, k \in Nodes : ~(d = c /\ k = n) => agent'[d][k] = agent[d][k]
    BY <1>a, <1>c, <2>1, SetAt
  <2>4. pc[c][n] \notin {"idle", "sending"} /\ e # "idle" /\ e # "running"
    BY <1>b, <1>c, <2>1 DEF Counted
  <2>5. Counted(c, n)'
    BY <1>b, <2>1, <2>2, <2>3, <2>4 DEF Counted
  <2>6. \A d \in Commands, k \in Nodes : ~(d = c /\ k = n) => Counted(d, k)'
    BY <1>b, <2>1, <2>2, <2>3 DEF Counted
  <2> QED BY <1>a, <2>1, <2>2, <2>5, <2>6 DEF CountTypes, Counting
<1>11. ASSUME NEW n \in Nodes, Disconnect(n) PROVE CountTypes' /\ Counting'
  BY <1>11, <1>p DEF Disconnect
<1>12. ASSUME Crash PROVE CountTypes' /\ Counting'
  <2>1. \A c \in Commands, n \in Nodes : chan'[c][n] = <<>>
    BY <1>12 DEF Crash, AllNodes
  <2>2. UNCHANGED <<lines, agent, said>>
    BY <1>12 DEF Crash
  <2>3. \A c \in Commands, n \in Nodes :
          pc'[c][n] \in {"idle", "sending"} => pc[c][n] \in {"idle", "sending"}
    BY <1>12 DEF Crash
  <2>4. chan' \in PerNode(Seq(Messages))
    BY <1>12 DEF Crash, AllNodes, PerNode
  <2>5. \A c \in Commands, n \in Nodes : Counted(c, n)'
    BY <1>b, <2>1, <2>2, <2>3 DEF Counted
  <2>6. \A c \in Commands, n \in Nodes : Len(chan'[c][n]) <= ChanCap
    BY <2>1, CommandConstants
  <2> QED BY <1>a, <2>2, <2>4, <2>5, <2>6 DEF CountTypes, Counting
<1> QED
  BY <1>1, <1>2, <1>3, <1>4, <1>5, <1>6, <1>7, <1>8, <1>9, <1>10, <1>11, <1>12
  DEF Next, ExecSteps

-----------------------------------------------------------------------------
(* Verdicts.                                                               *)

\* A goroutine that moves on without finalising disturbs nobody else.
LEMMA LocalStep ==
  ASSUME Verdicts, NEW c \in Commands, NEW n \in Nodes,
         pc[c][n] \notin {"idle", "done", "dead"},
         pc'[c][n] \notin {"idle", "finishing"},
         pc'[c][n] = "marking" => done'[c][n] = exit'[c][n],
         UNCHANGED <<status, exits, verdict>>,
         \A d \in Commands, k \in Nodes : ~(d = c /\ k = n) =>
            /\ pc'[d][k] = pc[d][k] /\ done'[d][k] = done[d][k] /\ exit'[d][k] = exit[d][k]
  PROVE  Verdicts'
<1>1. status[c] = "running" /\ n \in NodesOf[c] /\ exits[c][n] = NoExit
  BY DEF Verdicts, AtWork, Tracked
<1>2. \A d \in Commands, k \in Nodes : AtWork(d, k)'
  BY <1>1 DEF Verdicts, AtWork
<1>3. \A d \in Commands, k \in Nodes : Tracked(d, k)'
  BY <1>1 DEF Verdicts, Tracked
<1>4. ASSUME NEW k \in Nodes PROVE pc'[c][k] # "finishing"
  <2>1. CASE k = n
    BY <2>1
  <2>2. CASE k # n
    <3>1. pc'[c][k] = pc[c][k]
      BY <2>2
    <3>2. pc[c][k] # "finishing"
      BY <1>1, <2>2 DEF Verdicts, Finalising
    <3> QED BY <3>1, <3>2
  <2> QED BY <2>1, <2>2
<1>5. ASSUME NEW d \in Commands, NEW k \in Nodes PROVE Finalising(d, k)'
  <2>1. CASE d = c
    BY <1>4, <2>1 DEF Finalising
  <2>2. CASE d # c
    <3>1. \A m \in Nodes : pc'[d][m] = pc[d][m] /\ done'[d][m] = done[d][m]
      BY <2>2
    <3>2. Finalising(d, k)
      BY DEF Verdicts
    <3> QED BY <3>1, <3>2, NodesAreNodes DEF Finalising
  <2> QED BY <2>1, <2>2
<1>6. FinishedAfterAll' /\ CompletedShowsNoFailure'
  <2>1. \A d \in Commands \ {c} : \A m \in NodesOf[d] :
          pc'[d][m] = pc[d][m] /\ done'[d][m] = done[d][m]
    BY NodesAreNodes
  <2> QED BY <1>1, <2>1 DEF Verdicts, FinishedAfterAll, CompletedShowsNoFailure, Finished
<1> QED BY <1>2, <1>3, <1>5, <1>6 DEF Verdicts

LEMMA MarkStep ==
  ASSUME RunInv, NEW c \in Commands, NEW n \in Nodes, markFinished(c, n)
  PROVE  Verdicts'
<1> DEFINE now == [exits[c] EXCEPT ![n] = exit[c][n]]
<1>0. TypeOK /\ Verdicts /\ pc[c][n] = "marking" /\ UNCHANGED <<status, done, exit>>
  BY DEF RunInv, markFinished, nodeVars
<1>a. /\ pc \in PerNode(Places) /\ exit \in PerNode(Exits) /\ exits \in PerNode(Shown)
      /\ verdict \in [Commands -> {"none", "completed", "failed"}]
  BY <1>0 DEF TypeOK, Places, Shown
<1>1. status[c] = "running" /\ n \in NodesOf[c] /\ done[c][n] = exit[c][n] /\ done[c][n] # NoExit
  <2>1. AtWork(c, n)
    BY <1>0 DEF Verdicts
  <2>2. exit[c][n] \in Exits
    BY <1>a DEF PerNode
  <2> QED BY <1>0, <2>1, <2>2 DEF AtWork, Exits, NoExit
<1>2. now[n] = exit[c][n] /\ \A k \in Nodes \ {n} : now[k] = exits[c][k]
  BY <1>a DEF PerNode
<1>3. /\ pc' = [pc EXCEPT ![c][n] = IF Complete(c, now) THEN "finishing" ELSE "done"]
      /\ verdict' = [verdict EXCEPT ![c] =
           IF Complete(c, now) THEN Aggregate(c, now) ELSE verdict[c]]
      /\ exits' = [exits EXCEPT ![c] = TrackerAfter(c, now)]
  BY DEF markFinished
<1> HIDE DEF now
<1>4. /\ pc'[c][n] = IF Complete(c, now) THEN "finishing" ELSE "done"
      /\ \A d \in Commands, k \in Nodes : ~(d = c /\ k = n) => pc'[d][k] = pc[d][k]
  <2>1. "finishing" \in Places /\ "done" \in Places
    BY DEF Places
  <2> QED BY <1>a, <1>3, <2>1, SetAt
<1>5. /\ exits'[c] = TrackerAfter(c, now)
      /\ \A d \in Commands \ {c} : exits'[d] = exits[d] /\ verdict'[d] = verdict[d]
      /\ Complete(c, now) => verdict'[c] = Aggregate(c, now)
  BY <1>a, <1>3 DEF PerNode
\* n is at work, so that no other node of c finalises.
<1>6. \A k \in Nodes \ {n} : pc[c][k] # "finishing"
  BY <1>0, <1>1 DEF Verdicts, Finalising
<1>7. \A d \in Commands, k \in Nodes : AtWork(d, k)'
  BY <1>0, <1>1, <1>4 DEF Verdicts, AtWork
<1>8. ASSUME NEW d \in Commands, NEW k \in Nodes PROVE Tracked(d, k)'
  <2>0. Tracked(d, k) /\ Tracked(c, k)
    BY <1>0 DEF Verdicts
  <2>1. CASE d # c
    BY <1>0, <1>4, <1>5, <2>0, <2>1 DEF Tracked
  <2>2. CASE d = c /\ Complete(c, now)
    BY <1>5, <2>2 DEF Tracked, TrackerAfter
  <2>3. CASE d = c /\ ~Complete(c, now) /\ k # n
    BY <1>0, <1>2, <1>4, <1>5, <2>0, <2>3 DEF Tracked, TrackerAfter
  <2>4. CASE d = c /\ ~Complete(c, now) /\ k = n
    BY <1>0, <1>1, <1>2, <1>4, <1>5, <2>4 DEF Tracked, TrackerAfter
  <2> QED BY <2>1, <2>2, <2>3, <2>4
<1>9. ASSUME NEW d \in Commands, NEW k \in Nodes PROVE Finalising(d, k)'
  <2>1. CASE d # c
    <3>1. /\ \A m \in Nodes : pc'[d][m] = pc[d][m] /\ exits'[d][m] = exits[d][m]
          /\ verdict'[d] = verdict[d]
      BY <1>4, <1>5, <2>1
    <3>2. Finalising(d, k)
      BY <1>0 DEF Verdicts
    <3> QED BY <1>0, <3>1, <3>2, NodesAreNodes DEF Finalising
  <2>2. CASE d = c /\ k # n
    BY <1>4, <1>6, <2>2 DEF Finalising
  <2>3. CASE d = c /\ k = n /\ Complete(c, now)
    <3>1. \A m \in NodesOf[c] \ {n} :
            now[m] = exits[c][m] /\ now[m] # NoExit /\ pc[c][m] = "done" /\ done[c][m] = now[m]
      BY <1>0, <1>2, <2>3, NodesAreNodes DEF Complete, Verdicts, Tracked
    <3>2. \A m \in NodesOf[c] : done[c][m] = now[m]
      BY <1>1, <1>2, <3>1
    <3>3. \A m \in NodesOf[c] \ {n} : pc'[c][m] = "done" /\ done'[c][m] # NoExit
      BY <1>0, <1>4, <3>1, NodesAreNodes
    <3>4. verdict'[c] \in {"completed", "failed"}
      BY <1>5, <2>3 DEF Aggregate
    <3>5. verdict'[c] = "completed" => \A m \in NodesOf[c] : done'[c][m] = "zero"
      BY <1>0, <1>5, <2>3, <3>2 DEF Aggregate, Complete
    <3>6. \A m \in Nodes : exits'[c][m] = NoExit
      BY <1>5, <2>3 DEF TrackerAfter
    <3> QED BY <1>0, <1>1, <2>3, <3>3, <3>4, <3>5, <3>6 DEF Finalising
  <2>4. CASE d = c /\ k = n /\ ~Complete(c, now)
    BY <1>4, <2>4 DEF Finalising
  <2> QED BY <2>1, <2>2, <2>3, <2>4
<1>10. FinishedAfterAll' /\ CompletedShowsNoFailure'
  <2>1. \A d \in Commands : d # c => \A m \in NodesOf[d] : pc'[d][m] = pc[d][m]
    BY <1>4, NodesAreNodes
  <2> QED BY <1>0, <1>1, <2>1 DEF Verdicts, FinishedAfterAll, CompletedShowsNoFailure, Finished
<1> QED BY <1>7, <1>8, <1>9, <1>10 DEF Verdicts

\* The one write of the row, made when every other node is done.
LEMMA FinishStep ==
  ASSUME RunInv, NEW c \in Commands, NEW n \in Nodes, FinishCommand(c, n)
  PROVE  Verdicts'
<1>0. TypeOK /\ Verdicts /\ pc[c][n] = "finishing" /\ UNCHANGED <<done, exit, exits, verdict>>
  BY DEF RunInv, FinishCommand, nodeVars
<1>a. pc \in PerNode(Places) /\ status \in [Commands -> Statuses]
  BY <1>0 DEF TypeOK, Places, Statuses
<1>1. /\ verdict[c] \in {"completed", "failed"} /\ done[c][n] # NoExit
      /\ \A m \in NodesOf[c] \ {n} : pc[c][m] = "done" /\ done[c][m] # NoExit
      /\ verdict[c] = "completed" => \A m \in NodesOf[c] : done[c][m] = "zero"
      /\ \A m \in Nodes : exits[c][m] = NoExit
  BY <1>0 DEF Verdicts, Finalising
<1>2. status'[c] = verdict[c] /\ \A d \in Commands \ {c} : status'[d] = status[d]
  BY <1>a DEF FinishCommand
<1>3. /\ pc'[c][n] = "done"
      /\ \A d \in Commands, k \in Nodes : ~(d = c /\ k = n) => pc'[d][k] = pc[d][k]
  <2>1. "done" \in Places /\ pc' = [pc EXCEPT ![c][n] = "done"]
    BY DEF Places, FinishCommand
  <2> QED BY <1>a, <2>1, SetAt
<1>4. \A m \in NodesOf[c] : pc'[c][m] = "done"
  BY <1>1, <1>3, NodesAreNodes
<1>5. ASSUME NEW d \in Commands, NEW k \in Nodes PROVE AtWork(d, k)'
  <2>0. AtWork(d, k)
    BY <1>0 DEF Verdicts
  <2>1. CASE d # c
    BY <1>0, <1>2, <1>3, <2>0, <2>1 DEF AtWork
  <2>2. CASE d = c /\ k \in NodesOf[c]
    BY <1>1, <1>2, <1>4, <2>2 DEF AtWork
  <2>3. CASE d = c /\ k \notin NodesOf[c]
    <3>1. k # n
      BY <1>0, <2>3 DEF Verdicts, AtWork
    <3>2. pc'[c][k] = pc[c][k] /\ pc[c][k] \in {"idle", "done", "dead"}
      BY <1>3, <2>0, <2>3, <3>1 DEF AtWork
    <3> QED BY <1>1, <1>2, <2>3, <3>2 DEF AtWork
  <2> QED BY <2>1, <2>2, <2>3
<1>6. ASSUME NEW d \in Commands, NEW k \in Nodes PROVE Tracked(d, k)'
  <2>1. Tracked(d, k)
    BY <1>0 DEF Verdicts
  <2> QED BY <1>0, <1>1, <1>2, <1>3, <2>1 DEF Tracked
<1>7. ASSUME NEW d \in Commands, NEW k \in Nodes PROVE Finalising(d, k)'
  <2>0. Finalising(d, k)
    BY <1>0 DEF Verdicts
  <2>1. CASE d # c
    <3>1. \A m \in Nodes : pc'[d][m] = pc[d][m]
      BY <1>3, <2>1
    <3> QED BY <1>0, <2>0, <3>1, NodesAreNodes DEF Finalising
  <2>2. CASE d = c
    <3>1. pc'[c][k] # "finishing"
      <4>1. k # n => pc[c][k] # "finishing"
        BY <1>0, <1>1 DEF Verdicts, AtWork
      <4> QED BY <1>3, <4>1
    <3> QED BY <2>2, <3>1 DEF Finalising
  <2> QED BY <2>1, <2>2
<1>8. FinishedAfterAll' /\ CompletedShowsNoFailure'
  <2>1. \A d \in Commands : d # c => \A m \in NodesOf[d] : pc'[d][m] = pc[d][m]
    BY <1>3, NodesAreNodes
  <2>2. \A m \in NodesOf[c] : done[c][m] # NoExit
    BY <1>1
  <2> QED BY <1>0, <1>1, <1>2, <1>4, <2>1, <2>2
    DEF Verdicts, FinishedAfterAll, CompletedShowsNoFailure, Finished
<1> QED BY <1>5, <1>6, <1>7, <1>8 DEF Verdicts

LEMMA VerdictStep == RunInv /\ Next => Verdicts'
<1> SUFFICES ASSUME RunInv, Next PROVE Verdicts'
  OBVIOUS
<1>0. TypeOK /\ Verdicts
  BY DEF RunInv
<1>a. /\ status \in [Commands -> Statuses] /\ pc \in PerNode(Places)
      /\ exit \in PerNode(Exits) /\ done \in PerNode(Shown) /\ exits \in PerNode(Shown)
      /\ verdict \in [Commands -> {"none", "completed", "failed"}]
  BY <1>0 DEF TypeOK, Statuses, Places, Shown
<1>c. /\ "idle" \in Places /\ "sending" \in Places /\ "waiting" \in Places
      /\ "reporting" \in Places /\ "marking" \in Places /\ "finishing" \in Places
      /\ "done" \in Places /\ "dead" \in Places
  BY DEF Places
<1>d. Exits \subseteq Shown /\ "nonzero" \in Shown /\ NoExit \in Shown /\ NoExit \notin Exits
  BY DEF Shown, Exits, NoExit
<1>q. ASSUME UNCHANGED <<status, pc, exit, done, exits, verdict>> PROVE Verdicts'
  BY <1>q, <1>0
  DEF Verdicts, AtWork, Tracked, Finalising, FinishedAfterAll, CompletedShowsNoFailure, Finished
<1>1. ASSUME NEW c \in Commands, Run(c) PROVE Verdicts'
  <2>1. /\ status'[c] = "running" /\ \A n \in Nodes : pc[c][n] = "idle"
        /\ \A n \in Nodes : pc'[c][n] = IF n \in NodesOf[c] THEN "sending" ELSE "idle"
    BY <1>1, <1>0, <1>a DEF Run, Verdicts, AtWork, PerNode
  <2>2. \A d \in Commands \ {c} : pc'[d] = pc[d] /\ status'[d] = status[d]
    BY <1>1, <1>a DEF Run, PerNode
  <2>3. UNCHANGED <<done, exit, exits, verdict>>
    BY <1>1 DEF Run, nodeVars
  <2>4. \A d \in Commands, k \in Nodes : AtWork(d, k)'
    BY <1>0, <2>1, <2>2, <2>3 DEF Verdicts, AtWork
  <2>5. \A d \in Commands, k \in Nodes : Tracked(d, k)'
    BY <1>0, <2>1, <2>2, <2>3 DEF Verdicts, Tracked
  <2>6. \A d \in Commands, k \in Nodes : Finalising(d, k)'
    BY <1>0, <2>1, <2>2, <2>3 DEF Verdicts, Finalising
  <2>7. FinishedAfterAll' /\ CompletedShowsNoFailure'
    BY <1>0, <2>1, <2>2, <2>3 DEF Verdicts, FinishedAfterAll, CompletedShowsNoFailure, Finished
  <2> QED BY <2>4, <2>5, <2>6, <2>7 DEF Verdicts
<1>2. ASSUME NEW c \in Commands, NEW n \in Nodes, Send(c, n) PROVE Verdicts'
  <2>1. pc[c][n] = "sending" /\ pc' = [pc EXCEPT ![c][n] = "waiting"]
        /\ UNCHANGED <<status, exit, done, exits, verdict>>
    BY <1>2 DEF Send
  <2>2. pc'[c][n] = "waiting"
        /\ \A d \in Commands, k \in Nodes : ~(d = c /\ k = n) => pc'[d][k] = pc[d][k]
    BY <1>a, <1>c, <2>1 DEF PerNode
  <2> QED BY <1>0, <2>1, <2>2, LocalStep
<1>3. ASSUME NEW c \in Commands, NEW n \in Nodes, SendFails(c, n) PROVE Verdicts'
  <2>1. pc[c][n] = "sending" /\ pc' = [pc EXCEPT ![c][n] = "done"]
        /\ done' = [done EXCEPT ![c][n] = "nonzero"] /\ UNCHANGED <<status, exit, exits, verdict>>
    BY <1>3 DEF SendFails
  <2>2. pc'[c][n] = "done"
        /\ \A d \in Commands, k \in Nodes : ~(d = c /\ k = n) => pc'[d][k] = pc[d][k]
    BY <1>a, <1>c, <2>1 DEF PerNode
  <2>3. \A d \in Commands, k \in Nodes : ~(d = c /\ k = n) => done'[d][k] = done[d][k]
    BY <1>a, <1>d, <2>1 DEF PerNode
  <2> QED BY <1>0, <2>1, <2>2, <2>3, LocalStep
<1>4. ASSUME NEW c \in Commands, NEW n \in Nodes, Receive(c, n) PROVE Verdicts'
  <2>1. pc[c][n] = "waiting" /\ UNCHANGED <<status, done, exits, verdict>>
    BY <1>4 DEF Receive
  <2>2. \/ pc' = pc /\ exit' = exit
        \/ /\ pc' = [pc EXCEPT ![c][n] = "reporting"]
           /\ \E m \in Exits : exit' = [exit EXCEPT ![c][n] = m]
    BY <1>4 DEF Receive
  <2>3. /\ pc'[c][n] \in {"waiting", "reporting"}
        /\ \A d \in Commands, k \in Nodes : ~(d = c /\ k = n) => pc'[d][k] = pc[d][k]
    BY <1>a, <1>c, <2>1, <2>2 DEF PerNode
  <2>4. \A d \in Commands, k \in Nodes : ~(d = c /\ k = n) => exit'[d][k] = exit[d][k]
    BY <1>a, <2>2 DEF PerNode
  <2> QED BY <1>0, <2>1, <2>3, <2>4, LocalStep
<1>5. ASSUME NEW c \in Commands, NEW n \in Nodes, ReceiveClosed(c, n) \/ Timeout(c, n)
      PROVE Verdicts'
  <2>1. pc[c][n] = "waiting" /\ pc' = [pc EXCEPT ![c][n] = "reporting"]
        /\ UNCHANGED <<status, exit, done, exits, verdict>>
    BY <1>5 DEF ReceiveClosed, Timeout, nodeVars
  <2>2. pc'[c][n] = "reporting"
        /\ \A d \in Commands, k \in Nodes : ~(d = c /\ k = n) => pc'[d][k] = pc[d][k]
    BY <1>a, <1>c, <2>1 DEF PerNode
  <2> QED BY <1>0, <2>1, <2>2, LocalStep
<1>6. ASSUME NEW c \in Commands, NEW n \in Nodes, BroadcastDone(c, n) PROVE Verdicts'
  <2>1. pc[c][n] = "reporting" /\ pc' = [pc EXCEPT ![c][n] = "marking"]
        /\ done' = [done EXCEPT ![c][n] = exit[c][n]] /\ UNCHANGED <<status, exit, exits, verdict>>
    BY <1>6 DEF BroadcastDone
  <2>2. pc'[c][n] = "marking"
        /\ \A d \in Commands, k \in Nodes : ~(d = c /\ k = n) => pc'[d][k] = pc[d][k]
    BY <1>a, <1>c, <2>1 DEF PerNode
  <2>3. exit[c][n] \in Shown
    BY <1>a, <1>d DEF PerNode
  <2>4. /\ done'[c][n] = exit[c][n]
        /\ \A d \in Commands, k \in Nodes : ~(d = c /\ k = n) => done'[d][k] = done[d][k]
    BY <1>a, <2>1, <2>3 DEF PerNode
  <2> QED BY <1>0, <2>1, <2>2, <2>4, LocalStep
<1>7. ASSUME NEW c \in Commands, NEW n \in Nodes, markFinished(c, n) PROVE Verdicts'
  BY <1>7, MarkStep
<1>8. ASSUME NEW c \in Commands, NEW n \in Nodes, FinishCommand(c, n) PROVE Verdicts'
  BY <1>8, FinishStep
<1>9. ASSUME NEW c \in Commands, NEW n \in Nodes, AgentSays(c, n) PROVE Verdicts'
  BY <1>9, <1>q DEF AgentSays
<1>10. ASSUME NEW c \in Commands, NEW n \in Nodes, NEW e \in Exits, AgentExits(c, n, e)
       PROVE Verdicts'
  BY <1>10, <1>q DEF AgentExits
<1>11. ASSUME NEW n \in Nodes, Disconnect(n) PROVE Verdicts'
  BY <1>11, <1>q DEF Disconnect
<1>12. ASSUME Crash PROVE Verdicts'
  <2>1. \A c \in Commands, n \in Nodes :
          /\ pc'[c][n] = IF pc[c][n] \in {"idle", "done"} THEN pc[c][n] ELSE "dead"
          /\ exits'[c][n] = NoExit
    BY <1>12 DEF Crash, AllNodes
  <2>2. UNCHANGED <<status, done>>
    BY <1>12 DEF Crash
  <2>3. \A c \in Commands, n \in Nodes : AtWork(c, n)'
    BY <1>0, <2>1, <2>2 DEF Verdicts, AtWork
  <2>4. \A c \in Commands, n \in Nodes : Tracked(c, n)' /\ Finalising(c, n)'
    BY <2>1 DEF Tracked, Finalising
  <2>5. FinishedAfterAll' /\ CompletedShowsNoFailure'
    BY <1>0, <2>1, <2>2, NodesAreNodes
    DEF Verdicts, FinishedAfterAll, CompletedShowsNoFailure, Finished
  <2> QED BY <2>3, <2>4, <2>5 DEF Verdicts
<1> QED
  BY <1>1, <1>2, <1>3, <1>4, <1>5, <1>6, <1>7, <1>8, <1>9, <1>10, <1>11, <1>12
  DEF Next, ExecSteps

-----------------------------------------------------------------------------
(* Theorems.                                                               *)

LEMMA RunStep == RunInv /\ [Next]_vars => RunInv'
<1> SUFFICES ASSUME RunInv, [Next]_vars PROVE RunInv'
  OBVIOUS
<1>1. CASE Next
  <2>1. PlainTypes' /\ CountTypes' /\ Counting' /\ Verdicts'
    BY <1>1, PlainStep, CountStep, VerdictStep
  <2>2. TypeOK'
    BY <2>1 DEF PlainTypes, CountTypes, TypeOK, Statuses, Places, AgentStates, Shown, Messages
  <2> QED BY <2>1, <2>2 DEF RunInv
<1>2. CASE UNCHANGED vars
  BY <1>2
  DEF vars, RunInv, TypeOK, Counting, Counted, Verdicts, AtWork, Tracked, Finalising,
      FinishedAfterAll, CompletedShowsNoFailure, Finished, PerNode
<1> QED BY <1>1, <1>2

LEMMA RunInvariant == Spec => []RunInv
  BY RunInit, RunStep, PTL DEF Spec

(* What TLC checks on a small instance: types, which bound each channel    *)
(* whatever the agents say, a verdict no shown failure contradicts, and a  *)
(* tracker that holds only running commands.                               *)
THEOREM CommandSafe == Spec => []CommandInv
<1>1. RunInv => CommandInv
  BY DEF RunInv, CommandInv, Verdicts, Tracked, TrackerOnlyWhileRunning
<1> QED BY <1>1, RunInvariant, PTL

(* No node of a finished command is still at work: markFinished cannot     *)
(* finalise it early, in whatever order the goroutines take finMu.         *)
THEOREM VerdictCoversAll == Spec => []FinishedAfterAll
<1>1. RunInv => FinishedAfterAll
  BY DEF RunInv, Verdicts
<1> QED BY <1>1, RunInvariant, PTL

-----------------------------------------------------------------------------
(* Enrollment and deletion.                                                *)

Procs == [pc : {"none", "loop", "asked", "serving"}, token : Tokens, held : Tokens]
Requests == [host : Hosts, token : Tokens, node : NodeIds \union {Offline}, awaited : BOOLEAN]

(* What is written on the hosts and in the table.                          *)
TokenTypes ==
    /\ row \in [NodeIds -> {"new", "present", "deleted"}]
    /\ client \in [NodeIds -> Hosts \union {Offline}]
    /\ conf \in [Hosts -> Tokens] /\ saved \in [Hosts -> Tokens]
    /\ proc \in [Hosts -> Procs]
    /\ enrolling \subseteq Requests

(* No agent token of a deleted node is left, in memory or on a disk.       *)
NoTokenLeft ==
    \A n \in NodeIds : row[n] = "deleted" =>
        \A h \in Hosts : proc[h].held # n /\ saved[h] # n

LinkInv == TokenTypes /\ NoTokenLeft

LEMMA TokenFacts ==
  /\ NoToken \in Tokens /\ Stale \in Tokens /\ NodeIds \subseteq Tokens
  /\ Stale \notin NodeIds /\ NoToken \notin NodeIds /\ Offline \notin NodeIds
  BY LinkConstants DEF Tokens

LEMMA VoidFacts ==
  ASSUME NEW token \in Tokens, NEW n \in NodeIds
  PROVE  /\ Void(token, n) \in Tokens /\ Void(token, n) # n
         /\ Void(token, n) \in {token, Stale}
  BY TokenFacts DEF Void

LEMMA HeldTypes ==
  ASSUME LinkInv, NEW h \in Hosts
  PROVE  proc[h] \in Procs /\ proc[h].token \in Tokens /\ proc[h].held \in Tokens /\ saved[h] \in Tokens
  BY DEF LinkInv, TokenTypes, Procs

LEMMA LinkInitially == LinkInit => LinkInv
  BY TokenFacts DEF LinkInit, LinkInv, TokenTypes, NoTokenLeft, Procs, Requests

LEMMA AbandonedRequests ==
  ASSUME LinkInv, NEW h \in Hosts
  PROVE  Abandoned(h) \subseteq Requests
<1>1. \A e \in Requests : [e EXCEPT !.awaited = FALSE] \in Requests
  BY DEF Requests
<1> QED BY <1>1 DEF LinkInv, TokenTypes, Abandoned

LEMMA VoidedRequests ==
  ASSUME LinkInv, NEW n \in NodeIds, EnrollmentVoid(n)
  PROVE  enrolling' \subseteq Requests /\ conf' \in [Hosts -> Tokens]
<1>1. \A e \in Requests : [e EXCEPT !.token = Void(e.token, n)] \in Requests
  BY VoidFacts DEF Requests
<1>2. enrolling' = {[e EXCEPT !.token = Void(e.token, n)] : e \in enrolling}
  BY DEF EnrollmentVoid
<1>3. enrolling' \subseteq Requests
  BY <1>1, <1>2 DEF LinkInv, TokenTypes
<1>4. conf' \in [Hosts -> Tokens]
  BY VoidFacts DEF EnrollmentVoid, LinkInv, TokenTypes
<1> QED BY <1>3, <1>4

LEMMA UnlinkTypes ==
  ASSUME LinkInv, NEW h \in Hosts, Unlink(h)
  PROVE  /\ client' \in [NodeIds -> Hosts \union {Offline}]
         /\ \A n \in NodeIds : client'[n] \in {client[n], Offline}
  BY DEF Unlink, LinkInv, TokenTypes

(* Administrators.                                                         *)
LEMMA AdminStep ==
  ASSUME LinkInv, NEW n \in NodeIds, Create(n) \/ Regenerate(n) \/ Delete(n)
  PROVE  LinkInv' /\ client' = client
<1> USE DEF connVars, panelVars
<1>1. client' = client
  BY DEF Create, Regenerate, Delete
<1>2. CASE Create(n)
  <2>1. TokenTypes'
    BY <1>1, <1>2 DEF Create, LinkInv, TokenTypes
  <2>2. NoTokenLeft'
    BY <1>2 DEF Create, LinkInv, TokenTypes, NoTokenLeft
  <2> QED BY <1>1, <2>1, <2>2 DEF LinkInv
<1>3. CASE Regenerate(n)
  <2>1. /\ \A h \in Hosts : [proc[h] EXCEPT !.token = Void(proc[h].token, n)] \in Procs
        /\ \A h \in Hosts : [proc[h] EXCEPT !.token = Void(proc[h].token, n)].held = proc[h].held
    <3> SUFFICES ASSUME NEW h \in Hosts
                 PROVE  /\ [proc[h] EXCEPT !.token = Void(proc[h].token, n)] \in Procs
                        /\ [proc[h] EXCEPT !.token = Void(proc[h].token, n)].held = proc[h].held
      OBVIOUS
    <3>1. PICK a \in Tokens : a = Void(proc[h].token, n)
      BY HeldTypes, VoidFacts
    <3> QED BY <3>1, HeldTypes DEF Procs
  <2>2. /\ proc' = [h \in Hosts |-> [proc[h] EXCEPT !.token = Void(proc[h].token, n)]]
        /\ row' = row /\ saved' = saved
    BY <1>3 DEF Regenerate
  <2>3. TokenTypes'
    <3>1. enrolling' \subseteq Requests /\ conf' \in [Hosts -> Tokens]
      BY <1>3, VoidedRequests DEF Regenerate
    <3> QED BY <1>1, <2>1, <2>2, <3>1 DEF LinkInv, TokenTypes
  <2>4. NoTokenLeft'
    BY <2>1, <2>2 DEF LinkInv, NoTokenLeft
  <2> QED BY <1>1, <2>3, <2>4 DEF LinkInv
<1>4. CASE Delete(n)
  <2> DEFINE voided(h) == [proc[h] EXCEPT !.token = Void(proc[h].token, n), !.held = Void(proc[h].held, n)]
  <2>1. \A h \in Hosts : voided(h) \in Procs /\ voided(h).held = Void(proc[h].held, n)
    <3> SUFFICES ASSUME NEW h \in Hosts
                 PROVE  voided(h) \in Procs /\ voided(h).held = Void(proc[h].held, n)
      OBVIOUS
    <3>1. PICK a \in Tokens, b \in Tokens : a = Void(proc[h].token, n) /\ b = Void(proc[h].held, n)
      BY HeldTypes, VoidFacts
    <3> QED BY <3>1, HeldTypes DEF Procs
  <2>2. /\ proc' = [h \in Hosts |-> voided(h)]
        /\ row' = [row EXCEPT ![n] = "deleted"]
        /\ saved' = [h \in Hosts |-> Void(saved[h], n)]
    BY <1>4 DEF Delete
  <2> HIDE DEF voided
  <2>3. TokenTypes'
    <3>1. enrolling' \subseteq Requests /\ conf' \in [Hosts -> Tokens]
      BY <1>4, VoidedRequests DEF Delete
    <3>2. saved' \in [Hosts -> Tokens]
      BY <2>2, VoidFacts DEF LinkInv, TokenTypes
    <3> QED BY <1>1, <2>1, <2>2, <3>1, <3>2 DEF LinkInv, TokenTypes
  <2>4. NoTokenLeft'
    <3> SUFFICES ASSUME NEW m \in NodeIds, row'[m] = "deleted", NEW h \in Hosts
                 PROVE  proc'[h].held # m /\ saved'[h] # m
      BY DEF NoTokenLeft
    <3>1. proc'[h].held = Void(proc[h].held, n) /\ saved'[h] = Void(saved[h], n)
      BY <2>1, <2>2
    <3>2. proc[h].held \in Tokens /\ saved[h] \in Tokens
      BY DEF LinkInv, TokenTypes, Procs
    <3>3. CASE m = n
      BY <3>1, <3>2, <3>3, VoidFacts
    <3>4. CASE m # n
      <4>1. proc[h].held # m /\ saved[h] # m
        BY <2>2, <3>4 DEF LinkInv, TokenTypes, NoTokenLeft
      <4> QED BY <3>1, <4>1, TokenFacts DEF Void
    <3> QED BY <3>3, <3>4
  <2> QED BY <1>1, <2>3, <2>4 DEF LinkInv
<1> QED BY <1>2, <1>3, <1>4

(* An enrollment: the token it gives out is that of a row that is present. *)
LEMMA EnrollStep ==
  ASSUME LinkInv, NEW e \in enrolling, EnrollRead(e) \/ EnrollWrite(e)
  PROVE  LinkInv' /\ client' = client
<1> USE DEF connVars, panelVars
<1>1. e \in Requests /\ e.host \in Hosts /\ client' = client /\ row' = row /\ conf' = conf
  BY DEF LinkInv, TokenTypes, Requests, EnrollRead, EnrollWrite
<1>2. CASE EnrollRead(e)
  <2>1. saved' = saved
    BY <1>2 DEF EnrollRead
  <2>2. enrolling' \subseteq Requests
    <3>1. e.token \in Present => [e EXCEPT !.node = e.token] \in Requests
      BY <1>1 DEF Requests, Present
    <3> QED BY <1>2, <3>1 DEF EnrollRead, LinkInv, TokenTypes
  <2>3. proc' = proc \/ proc' = [proc EXCEPT ![e.host].pc = "loop"]
    BY <1>2 DEF EnrollRead
  <2>4. proc' \in [Hosts -> Procs] /\ \A h \in Hosts : proc'[h].held = proc[h].held
    BY <1>1, <2>3 DEF LinkInv, TokenTypes, Procs
  <2>5. TokenTypes'
    BY <1>1, <2>1, <2>2, <2>4 DEF LinkInv, TokenTypes
  <2>6. NoTokenLeft'
    BY <1>1, <2>1, <2>4 DEF LinkInv, NoTokenLeft
  <2> QED BY <1>1, <2>5, <2>6 DEF LinkInv
<1>3. CASE EnrollWrite(e)
  <2> DEFINE token == IF e.node \in Present THEN e.node ELSE Stale
             mine(h) == e.awaited /\ h = e.host
  <2>1. e.node \in NodeIds /\ enrolling' = enrolling \ {e}
    BY <1>1, <1>3 DEF EnrollWrite, Requests
  <2>2. /\ proc' = [h \in Hosts |->
                      IF mine(h) THEN [proc[h] EXCEPT !.pc = "loop", !.held = token]
                      ELSE [proc[h] EXCEPT !.held = Void(proc[h].held, e.node)]]
        /\ saved' = [h \in Hosts |-> IF mine(h) THEN token ELSE Void(saved[h], e.node)]
    BY <1>3 DEF EnrollWrite
  <2>3. token \in Tokens /\ (token = Stale \/ (token \in NodeIds /\ row[token] = "present"))
    BY <2>1, TokenFacts DEF Present
  <2> HIDE DEF token, mine
  <2>4. \A h \in Hosts :
          /\ proc'[h] \in Procs /\ saved'[h] \in Tokens
          /\ proc'[h].held \in {token, proc[h].held, Stale}
          /\ saved'[h] \in {token, saved[h], Stale}
    <3> SUFFICES ASSUME NEW h \in Hosts
                 PROVE  /\ proc'[h] \in Procs /\ saved'[h] \in Tokens
                        /\ proc'[h].held \in {token, proc[h].held, Stale}
                        /\ saved'[h] \in {token, saved[h], Stale}
      OBVIOUS
    <3>1. PICK a \in Tokens : a = Void(proc[h].held, e.node) /\ a \in {proc[h].held, Stale}
      BY <2>1, HeldTypes, VoidFacts
    <3>2. Void(saved[h], e.node) \in Tokens /\ Void(saved[h], e.node) \in {saved[h], Stale}
      BY <2>1, HeldTypes, VoidFacts
    <3>3. saved'[h] \in Tokens /\ saved'[h] \in {token, saved[h], Stale}
      BY <2>2, <2>3, <3>2
    <3>4. CASE mine(h)
      <4>1. proc'[h] = [proc[h] EXCEPT !.pc = "loop", !.held = token]
        BY <2>2, <3>4
      <4> QED BY <2>3, <3>3, <4>1, HeldTypes DEF Procs
    <3>5. CASE ~mine(h)
      <4>1. proc'[h] = [proc[h] EXCEPT !.held = a]
        BY <2>2, <3>1, <3>5
      <4> QED BY <3>1, <3>3, <4>1, HeldTypes DEF Procs
    <3> QED BY <3>4, <3>5
  <2>5. TokenTypes'
    <3>1. proc' \in [Hosts -> Procs] /\ saved' \in [Hosts -> Tokens]
      BY <2>2, <2>4
    <3> QED BY <1>1, <2>1, <3>1 DEF LinkInv, TokenTypes
  <2>6. NoTokenLeft'
    <3> SUFFICES ASSUME NEW m \in NodeIds, row[m] = "deleted", NEW h \in Hosts
                 PROVE  proc'[h].held # m /\ saved'[h] # m
      BY <1>1 DEF NoTokenLeft
    <3>1. token # m /\ Stale # m
      BY <2>3, TokenFacts
    <3>2. proc[h].held # m /\ saved[h] # m
      BY DEF LinkInv, NoTokenLeft
    <3> QED BY <2>4, <3>1, <3>2
  <2> QED BY <1>1, <2>5, <2>6 DEF LinkInv
<1> QED BY <1>2, <1>3

(* The agent of a host and the install script: what is held was held or    *)
(* saved before.                                                           *)
LEMMA HostKeeps ==
  ASSUME LinkInv, NEW h \in Hosts, row' = row, conf' \in [Hosts -> Tokens],
         client' \in [NodeIds -> Hosts \union {Offline}], enrolling' \subseteq Requests,
         saved' = saved \/ saved' = [saved EXCEPT ![h] = NoToken],
         proc' \in [Hosts -> Procs],
         \A g \in Hosts : proc'[g].held \in {proc[g].held, saved[g], NoToken}
  PROVE  LinkInv'
<1>1. \A g \in Hosts : saved'[g] \in {saved[g], NoToken}
  BY DEF LinkInv, TokenTypes
<1>2. saved' \in [Hosts -> Tokens]
  BY TokenFacts DEF LinkInv, TokenTypes
<1>3. TokenTypes'
  BY <1>2 DEF LinkInv, TokenTypes
<1>4. NoTokenLeft'
  BY <1>1, TokenFacts DEF LinkInv, NoTokenLeft
<1> QED BY <1>3, <1>4 DEF LinkInv

LEMMA BootKeeps ==
  ASSUME LinkInv, NEW h \in Hosts, Boot(h)
  PROVE  /\ proc' \in [Hosts -> Procs] /\ enrolling' \subseteq Requests
         /\ \A g \in Hosts : proc'[g].held \in {proc[g].held, saved[g], NoToken}
         /\ client' \in [NodeIds -> Hosts \union {Offline}]
         /\ \A n \in NodeIds : client'[n] \in {client[n], Offline}
<1> DEFINE new == [pc |-> "loop", token |-> conf[h], held |-> saved[h]]
<1>1. new \in Procs /\ new.held = saved[h]
  BY DEF LinkInv, TokenTypes, Procs
<1>2. proc' = [proc EXCEPT ![h] = new]
  BY DEF Boot
<1> HIDE DEF new
<1>3. proc' \in [Hosts -> Procs] /\ \A g \in Hosts : proc'[g].held \in {proc[g].held, saved[g], NoToken}
  BY <1>1, <1>2 DEF LinkInv, TokenTypes
<1> QED BY <1>3, AbandonedRequests, UnlinkTypes DEF Boot

(* Everything on a host but Dial.                                          *)
LEMMA HostStep ==
  ASSUME LinkInv, NEW h \in Hosts,
         \/ StoreInventory(h) \/ Ask(h) \/ Refused(h) \/ Broken(h) \/ Reboot(h)
         \/ InstallClear(h) \/ InstallRestart(h)
         \/ \E n \in NodeIds : InstallConf(h, n)
  PROVE  LinkInv' /\ \A n \in NodeIds : client'[n] \in {client[n], Offline}
<1> USE DEF connVars, panelVars
<1>1. CASE StoreInventory(h)
  BY <1>1 DEF StoreInventory, LinkInv, TokenTypes, NoTokenLeft
<1>2. CASE Ask(h)
  <2>1. proc' \in [Hosts -> Procs] /\ \A g \in Hosts : proc'[g].held = proc[g].held
    BY <1>2 DEF Ask, LinkInv, TokenTypes, Procs
  <2>2. enrolling' \subseteq Requests
    <3>1. [host |-> h, token |-> proc[h].token, node |-> Offline, awaited |-> TRUE] \in Requests
      BY HeldTypes DEF Requests
    <3> QED BY <1>2, <3>1 DEF Ask, LinkInv, TokenTypes
  <2>3. UNCHANGED <<row, conf, client, saved>>
    BY <1>2 DEF Ask
  <2> QED BY <2>1, <2>2, <2>3, HostKeeps DEF LinkInv, TokenTypes
<1>3. CASE Refused(h)
  <2>1. proc' \in [Hosts -> Procs] /\ \A g \in Hosts : proc'[g].held \in {proc[g].held, NoToken}
    BY <1>3, TokenFacts DEF Refused, LinkInv, TokenTypes, Procs
  <2>2. UNCHANGED <<row, conf, client, enrolling>> /\ saved' = [saved EXCEPT ![h] = NoToken]
    BY <1>3 DEF Refused
  <2> QED BY <2>1, <2>2, HostKeeps DEF LinkInv, TokenTypes
<1>4. CASE Broken(h)
  <2>1. proc' \in [Hosts -> Procs] /\ \A g \in Hosts : proc'[g].held = proc[g].held
    BY <1>4 DEF Broken, LinkInv, TokenTypes, Procs
  <2>2. UNCHANGED <<row, conf, saved>> /\ enrolling' = Abandoned(h) /\ Unlink(h)
    BY <1>4 DEF Broken
  <2> QED BY <2>1, <2>2, AbandonedRequests, UnlinkTypes, HostKeeps DEF LinkInv, TokenTypes
<1>5. CASE Reboot(h) \/ InstallRestart(h)
  <2>1. UNCHANGED <<row, conf, saved>> /\ Boot(h)
    BY <1>5 DEF Reboot, InstallRestart
  <2> QED BY <2>1, BootKeeps, HostKeeps DEF LinkInv, TokenTypes
<1>6. CASE InstallClear(h)
  BY <1>6, HostKeeps DEF InstallClear, LinkInv, TokenTypes
<1>7. CASE \E n \in NodeIds : InstallConf(h, n)
  <2>1. UNCHANGED <<row, client, saved, proc, enrolling>>
    BY <1>7 DEF InstallConf
  <2>2. conf' \in [Hosts -> Tokens]
    BY <1>7, TokenFacts DEF InstallConf, LinkInv, TokenTypes
  <2> QED BY <2>1, <2>2, HostKeeps DEF LinkInv, TokenTypes
<1> QED BY <1>1, <1>2, <1>3, <1>4, <1>5, <1>6, <1>7

(* AgentWS lets in whoever holds a token of the table.                     *)
LEMMA DialStep ==
  ASSUME LinkInv, NEW h \in Hosts, Dial(h)
  PROVE  /\ LinkInv'
         /\ \A n \in NodeIds : row[n] = "deleted" => client'[n] = client[n]
<1> DEFINE n == proc[h].held
<1>1. n \in NodeIds /\ row[n] # "deleted"
  BY DEF Dial, LinkInv, NoTokenLeft
<1>2. client' = [client EXCEPT ![n] = h] /\ UNCHANGED <<row, conf, saved, enrolling>>
  BY DEF Dial, panelVars
<1>3. proc' \in [Hosts -> Procs] /\ \A g \in Hosts : proc'[g].held = proc[g].held
  BY DEF Dial, LinkInv, TokenTypes, Procs
<1>4. client' \in [NodeIds -> Hosts \union {Offline}]
  BY <1>1, <1>2 DEF LinkInv, TokenTypes
<1>5. \A m \in NodeIds : row[m] = "deleted" => client'[m] = client[m]
  BY <1>1, <1>2 DEF LinkInv, TokenTypes
<1> QED BY <1>2, <1>3, <1>4, <1>5, HostKeeps DEF LinkInv, TokenTypes

StaysOut == \A n \in NodeIds :
                (row[n] = "deleted" /\ client[n] = Offline) => client'[n] = Offline

LEMMA LinkStep == LinkInv /\ [LinkNext]_linkVars => LinkInv' /\ StaysOut
<1> SUFFICES ASSUME LinkInv, [LinkNext]_linkVars PROVE LinkInv' /\ StaysOut
  OBVIOUS
<1>1. CASE UNCHANGED linkVars
  BY <1>1 DEF linkVars, LinkInv, TokenTypes, NoTokenLeft, StaysOut
<1>2. CASE \E n \in NodeIds : Create(n) \/ Regenerate(n) \/ Delete(n)
  BY <1>2, AdminStep DEF StaysOut
<1>3. CASE \E e \in enrolling : EnrollRead(e) \/ EnrollWrite(e)
  BY <1>3, EnrollStep DEF StaysOut
<1>4. ASSUME NEW h \in Hosts, Dial(h) PROVE LinkInv' /\ StaysOut
  BY <1>4, DialStep DEF StaysOut
<1>5. ASSUME NEW h \in Hosts,
             \/ StoreInventory(h) \/ Ask(h) \/ Refused(h) \/ Broken(h) \/ Reboot(h)
             \/ InstallClear(h) \/ InstallRestart(h)
             \/ \E n \in NodeIds : InstallConf(h, n)
      PROVE  LinkInv' /\ StaysOut
  BY <1>5, HostStep DEF StaysOut
<1> QED BY <1>1, <1>2, <1>3, <1>4, <1>5 DEF LinkNext

(* A node that was deleted may keep the connection it has; once that is    *)
(* lost nothing brings it back: no token on a disk or in a process, no     *)
(* enrollment that had read the row before it went, no second host.        *)
THEOREM DeletedNodesStayOut == LinkSpec => DeletedStaysOut
  BY LinkInitially, LinkStep, PTL DEF LinkSpec, DeletedStaysOut, StaysOut

(* The other variables.                                                    *)
LinkTables ==
    /\ inventory \subseteq NodeIds
    /\ link \in [Hosts -> NodeIds \union {Offline}]
    /\ install \in [Hosts -> {"idle", "clear", "restart"}]
    /\ admin \in 0 .. MaxAdmin /\ linkFaults \in 0 .. MaxLinkFaults

LEMMA LinkTablesStep == LinkTables /\ [LinkNext]_linkVars => LinkTables'
<1> SUFFICES ASSUME LinkTables, [LinkNext]_linkVars PROVE LinkTables'
  OBVIOUS
<1> USE DEF LinkTables, connVars, panelVars
<1>1. CASE UNCHANGED linkVars
  BY <1>1 DEF linkVars
<1>2. ASSUME NEW n \in NodeIds, Create(n) \/ Regenerate(n) \/ Delete(n) PROVE LinkTables'
  <2>1. admin < MaxAdmin /\ admin' = admin + 1 /\ UNCHANGED <<link, install, linkFaults>>
    BY <1>2 DEF Create, Regenerate, Delete
  <2>2. inventory' = inventory \/ inventory' = inventory \ {n}
    BY <1>2 DEF Create, Regenerate, Delete
  <2>3. admin' \in 0 .. MaxAdmin
    BY <2>1, LinkConstants
  <2> QED BY <2>1, <2>2, <2>3
<1>3. ASSUME NEW e \in enrolling, EnrollRead(e) \/ EnrollWrite(e) PROVE LinkTables'
  BY <1>3 DEF EnrollRead, EnrollWrite
<1>4. ASSUME NEW h \in Hosts, StoreInventory(h) \/ Ask(h) \/ Dial(h) \/ Refused(h) PROVE LinkTables'
  BY <1>4 DEF StoreInventory, Ask, Dial, Refused
<1>5. ASSUME NEW h \in Hosts, Broken(h) \/ Reboot(h) PROVE LinkTables'
  BY <1>5, LinkConstants DEF Broken, Reboot, Boot, Unlink
<1>6. ASSUME NEW h \in Hosts, InstallClear(h) \/ InstallRestart(h) \/ \E n \in NodeIds : InstallConf(h, n)
      PROVE  LinkTables'
  BY <1>6, LinkConstants DEF InstallClear, InstallRestart, InstallConf, Boot, Unlink
<1> QED BY <1>1, <1>2, <1>3, <1>4, <1>5, <1>6 DEF LinkNext

LEMMA LinkTyped == LinkSpec => []LinkTypeOK
<1>1. LinkInit => LinkTables
  BY LinkConstants DEF LinkInit, LinkTables
<1>2. LinkInv /\ LinkTables => LinkTypeOK
  BY DEF LinkInv, TokenTypes, LinkTables, Procs, Requests, LinkTypeOK
<1> QED BY LinkInitially, LinkStep, LinkTablesStep, <1>1, <1>2, PTL DEF LinkSpec

-----------------------------------------------------------------------------
(* The mesh.                                                               *)

Configs == Bodies \union {Off}
RoundStates == [pc : {"idle", "keys", "install", "apply", "done"}, todo : SUBSET MeshNodes,
                members : SUBSET MeshNodes, pairs : SUBSET (MeshNodes \X MeshNodes),
                snap : Configs, defs : SUBSET MeshNodes]
PutStates == [pc : {"idle", "read", "saved", "applying", "done"}, body : Configs,
              prev : SUBSET MeshNodes, todo : SUBSET MeshNodes, defs : SUBSET MeshNodes]
Scripts == [next : ScriptSteps, want : Rule, heard : BOOLEAN]

MeshTables ==
    /\ rows \subseteq MeshNodes /\ conn \subseteq MeshNodes /\ hasKey \subseteq MeshNodes
    /\ access \in Configs
    /\ authorized \in [MeshNodes -> SUBSET MeshNodes]
    /\ faults \in 0 .. MaxFaults
MeshHosts ==
    /\ files \in [MeshNodes -> Rule] /\ rule \in [MeshNodes -> Rule]
    /\ script \in [Issuers -> [MeshNodes -> Scripts]]
MeshWork == round \in [Rounds -> RoundStates] /\ put \in [Puts -> PutStates]

(* A configuration in use is one that was put, and what is read of it or   *)
(* of the table names nodes only: the rules made from them are rules.      *)
MeshInv == MeshTables /\ MeshHosts /\ MeshWork

LEMMA ConfigFacts ==
  /\ Off \in Configs
  /\ \A b \in Configs : b.nodes \subseteq MeshNodes /\ b.src \subseteq V4 \union V6
  BY MeshConstants DEF Configs, Off

LEMMA RuleFacts ==
  /\ NoRule \in Rule /\ NoScript \in Scripts
  /\ \A cfg \in Configs, defs \in SUBSET MeshNodes : \A n : Desired(cfg, defs, n) \in Rule
  /\ \A want \in Rule : Launch(want) \in Scripts
<1>1. NoRule \in Rule
  BY DEF NoRule, Rule
<1>2. NoScript \in Scripts
  BY <1>1 DEF NoScript, Scripts, ScriptSteps
<1>3. \A cfg \in Configs, defs \in SUBSET MeshNodes : \A n : Desired(cfg, defs, n) \in Rule
  BY ConfigFacts DEF Desired, Rule
<1>4. \A want \in Rule : Launch(want) \in Scripts
  BY DEF Launch, Scripts, ScriptSteps
<1> QED BY <1>1, <1>2, <1>3, <1>4

LEMMA FirstFacts == ASSUME NEW S, S # {} PROVE First(S) \in S
  BY DEF First

LEMMA IdleFacts == IdleRound \in RoundStates /\ IdlePut \in PutStates
  BY ConfigFacts DEF IdleRound, IdlePut, RoundStates, PutStates

LEMMA MeshInitially == MeshInit => MeshInv
<1> SUFFICES ASSUME MeshInit PROVE MeshInv
  OBVIOUS
<1>1. MeshTables
  BY ConfigFacts, MeshConstants DEF MeshInit, MeshTables
<1>2. MeshHosts
  BY RuleFacts DEF MeshInit, MeshHosts
<1>3. MeshWork
  BY IdleFacts DEF MeshInit, MeshWork
<1> QED BY <1>1, <1>2, <1>3 DEF MeshInv

(* The scripts on the nodes.                                               *)
LEMMA ScriptPut ==
  ASSUME MeshInv, NEW i \in Issuers, NEW n \in MeshNodes, NEW s \in Scripts,
         script' = [script EXCEPT ![i][n] = s]
  PROVE  script' \in [Issuers -> [MeshNodes -> Scripts]]
  BY DEF MeshInv, MeshHosts

LEMMA ScriptKeeps ==
  ASSUME MeshInv, NEW i \in Issuers, NEW n \in MeshNodes, ScriptStep(i, n) \/ ScriptFails(i, n)
  PROVE  MeshInv'
<1> USE DEF tableVars, keyVars, fwVars
<1>1. script[i][n] \in Scripts /\ files[n] \in Rule /\ script[i][n].want \in Rule
  BY DEF MeshInv, MeshHosts, Scripts
<1>2. MeshWork'
  BY DEF MeshInv, MeshWork, ScriptStep, ScriptFails
<1>3. MeshTables'
  BY MeshConstants DEF MeshInv, MeshTables, ScriptStep, ScriptFails
<1>4. CASE /\ files' = [files EXCEPT ![n].v4 = script[i][n].want.v4]
           /\ script' = [script EXCEPT ![i][n].next = "rest"] /\ rule' = rule
  <2>1. [script[i][n] EXCEPT !.next = "rest"] \in Scripts
    BY <1>1 DEF Scripts, ScriptSteps
  <2>2. [files[n] EXCEPT !.v4 = script[i][n].want.v4] \in Rule
    BY <1>1 DEF Rule
  <2> DEFINE s == [script[i][n] EXCEPT !.next = "rest"]
             f == [files[n] EXCEPT !.v4 = script[i][n].want.v4]
  <2>3. script' = [script EXCEPT ![i][n] = s] /\ files' = [files EXCEPT ![n] = f]
    BY <1>4
  <2> HIDE DEF s, f
  <2>4. s \in Scripts /\ f \in Rule
    BY <2>1, <2>2 DEF s, f
  <2>6. script' \in [Issuers -> [MeshNodes -> Scripts]]
    BY <2>3, <2>4, ScriptPut
  <2>5. MeshHosts'
    BY <1>4, <2>3, <2>4, <2>6 DEF MeshInv, MeshHosts
  <2> QED BY <1>2, <1>3, <2>5 DEF MeshInv
<1>5. CASE /\ files' = [files EXCEPT ![n] = [script[i][n].want EXCEPT !.v4 = files[n].v4]]
           /\ script' = [script EXCEPT ![i][n].next = "restart"] /\ rule' = rule
  <2> DEFINE s == [script[i][n] EXCEPT !.next = "restart"]
             f == [script[i][n].want EXCEPT !.v4 = files[n].v4]
  <2>1. s \in Scripts
    BY <1>1 DEF Scripts, ScriptSteps
  <2>2. f \in Rule
    BY <1>1 DEF Rule
  <2>3. script' = [script EXCEPT ![i][n] = s] /\ files' = [files EXCEPT ![n] = f]
    BY <1>5
  <2> HIDE DEF s, f
  <2>5. script' \in [Issuers -> [MeshNodes -> Scripts]]
    BY <2>1, <2>3, ScriptPut
  <2>4. MeshHosts'
    BY <1>5, <2>2, <2>3, <2>5 DEF MeshInv, MeshHosts
  <2> QED BY <1>2, <1>3, <2>4 DEF MeshInv
<1>6. CASE rule' = [rule EXCEPT ![n] = files[n]] /\ script' = [script EXCEPT ![i][n] = NoScript] /\ files' = files
  <2>1. MeshHosts'
    BY <1>1, <1>6, ScriptPut, RuleFacts DEF MeshInv, MeshHosts
  <2> QED BY <1>2, <1>3, <2>1 DEF MeshInv
<1>7. CASE ScriptFails(i, n)
  <2>1. MeshHosts'
    BY <1>7, ScriptPut, RuleFacts DEF ScriptFails, MeshInv, MeshHosts
  <2> QED BY <1>2, <1>3, <2>1 DEF MeshInv
<1> QED BY <1>4, <1>5, <1>6, <1>7 DEF ScriptStep

(* The rounds.                                                             *)
LEMMA RoundPut ==
  ASSUME MeshInv, NEW r \in Rounds, NEW s \in RoundStates, round' = [round EXCEPT ![r] = s], put' = put
  PROVE  MeshWork'
  BY DEF MeshInv, MeshWork

LEMMA RoundKeeps ==
  ASSUME MeshInv, NEW r \in Rounds, RoundStart(r) \/ EnsureKey(r) \/ KeysDone(r) \/ InstallKey(r)
  PROVE  MeshInv'
<1> USE DEF tableVars, keyVars, fwVars
<1>1. round[r] \in RoundStates /\ put' = put
  BY DEF MeshInv, MeshWork, RoundStart, EnsureKey, KeysDone, InstallKey
<1>2. MeshHosts'
  BY DEF MeshInv, MeshHosts, RoundStart, EnsureKey, KeysDone, InstallKey
<1>3. CASE RoundStart(r)
  <2> DEFINE s == [IdleRound EXCEPT !.pc = "keys", !.todo = rows \intersect conn]
  <2>1. s \in RoundStates
    BY IdleFacts DEF RoundStates, MeshInv, MeshTables
  <2>2. round' = [round EXCEPT ![r] = s]
    BY <1>3 DEF RoundStart
  <2> HIDE DEF s
  <2>3. MeshTables'
    BY <1>3 DEF RoundStart, MeshInv, MeshTables
  <2> QED BY <1>1, <1>2, <2>1, <2>2, <2>3, RoundPut DEF MeshInv
<1>4. CASE EnsureKey(r)
  <2> DEFINE n == First(round[r].todo)
  <2>1. n \in MeshNodes
    BY <1>1, <1>4, FirstFacts DEF EnsureKey, RoundStates
  <2>2. PICK ok \in BOOLEAN :
          /\ IF n \in conn THEN Tried(ok) ELSE faults' = faults
          /\ hasKey' = IF ok THEN hasKey \union {n} ELSE hasKey
          /\ round' = [round EXCEPT ![r].todo = @ \ {n}, ![r].members = IF ok THEN @ \union {n} ELSE @]
    BY <1>4 DEF EnsureKey
  <2> HIDE DEF n
  <2>3. faults' \in 0 .. MaxFaults
    BY <2>2, MeshConstants DEF Tried, MeshInv, MeshTables
  <2>4. MeshTables'
    BY <1>4, <2>1, <2>2, <2>3 DEF EnsureKey, MeshInv, MeshTables
  <2> DEFINE s == [round[r] EXCEPT !.todo = round[r].todo \ {n},
                                   !.members = IF ok THEN round[r].members \union {n} ELSE round[r].members]
  <2>5. s \in RoundStates
    BY <1>1, <2>1 DEF RoundStates
  <2>6. round' = [round EXCEPT ![r] = s]
    BY <2>2 DEF MeshInv, MeshWork
  <2> HIDE DEF s
  <2> QED BY <1>1, <1>2, <2>4, <2>5, <2>6, RoundPut DEF MeshInv
<1>5. CASE KeysDone(r)
  <2> DEFINE next == IF round[r].members = {} THEN "idle" ELSE "install"
             all == {q \in round[r].members \X round[r].members : q[1] # q[2]}
             s == [round[r] EXCEPT !.pc = next, !.pairs = all]
  <2>1. next \in {"idle", "install"} /\ all \subseteq MeshNodes \X MeshNodes
    BY <1>1 DEF RoundStates
  <2>2. round' = [round EXCEPT ![r].pc = next, ![r].pairs = all]
    BY <1>5 DEF KeysDone
  <2> HIDE DEF next, all
  <2>3. s \in RoundStates
    BY <1>1, <2>1 DEF RoundStates
  <2>4. round' = [round EXCEPT ![r] = s]
    BY <2>2 DEF MeshInv, MeshWork
  <2> HIDE DEF s
  <2>5. MeshTables'
    BY <1>5 DEF KeysDone, MeshInv, MeshTables
  <2> QED BY <1>1, <1>2, <2>3, <2>4, <2>5, RoundPut DEF MeshInv
<1>6. CASE InstallKey(r)
  <2> DEFINE q == First(round[r].pairs)
  <2>1. q \in MeshNodes \X MeshNodes
    BY <1>1, <1>6, FirstFacts DEF InstallKey, RoundStates
  <2>2. PICK ok \in BOOLEAN :
          /\ IF q[1] \in conn THEN Tried(ok) ELSE faults' = faults
          /\ authorized' = [authorized EXCEPT ![q[1]] = IF ok THEN @ \union {q[2]} ELSE @]
          /\ round' = [round EXCEPT ![r].pairs =
                          IF ok \/ r = Sync THEN @ \ {q} ELSE {x \in @ : x[1] # q[1]}]
    BY <1>6 DEF InstallKey
  <2> HIDE DEF q
  <2>3. faults' \in 0 .. MaxFaults
    BY <2>2, MeshConstants DEF Tried, MeshInv, MeshTables
  <2>4. q[1] \in MeshNodes /\ q[2] \in MeshNodes
    BY <2>1
  <2>5. authorized' \in [MeshNodes -> SUBSET MeshNodes]
    BY <2>2, <2>4 DEF MeshInv, MeshTables
  <2>6. MeshTables'
    BY <1>6, <2>3, <2>5 DEF InstallKey, MeshInv, MeshTables
  <2> DEFINE left == IF ok \/ r = Sync THEN round[r].pairs \ {q} ELSE {x \in round[r].pairs : x[1] # q[1]}
             s == [round[r] EXCEPT !.pairs = left]
  <2>7. round' = [round EXCEPT ![r] = s]
    BY <2>2
  <2>8. left \subseteq MeshNodes \X MeshNodes
    BY <1>1 DEF RoundStates
  <2> HIDE DEF left
  <2>9. s \in RoundStates
    BY <1>1, <2>8 DEF RoundStates
  <2> HIDE DEF s
  <2> QED BY <1>1, <1>2, <2>6, <2>7, <2>9, RoundPut DEF MeshInv
<1> QED BY <1>3, <1>4, <1>5, <1>6

LEMMA SyncKeeps ==
  ASSUME MeshInv, Status \/ ProvisionEnds \/ LoadAccess \/ SyncApply \/ SyncEnds
  PROVE  MeshInv'
<1> USE DEF tableVars, keyVars, fwVars
<1>1. MeshTables'
  BY DEF Status, ProvisionEnds, LoadAccess, SyncApply, SyncEnds, MeshInv, MeshTables
<1>2. Sync \in Rounds /\ Provision \in Rounds /\ Sync \in Issuers /\ round[Sync] \in RoundStates
  BY DEF Rounds, Issuers, MeshInv, MeshWork
<1>3. CASE Status \/ ProvisionEnds \/ SyncEnds
  <2>1. [IdleRound EXCEPT !.pc = "done"] \in RoundStates
    BY IdleFacts DEF RoundStates
  <2>2. MeshWork'
    BY <1>2, <1>3, <2>1, RoundPut, IdleFacts DEF Status, ProvisionEnds, SyncEnds, MeshInv, MeshWork
  <2> QED BY <1>1, <1>3, <2>2 DEF Status, ProvisionEnds, SyncEnds, MeshInv, MeshHosts
<1>4. CASE LoadAccess
  <2> DEFINE next == IF rows = {} THEN "idle" ELSE "apply"
             s == [round[Sync] EXCEPT !.pc = next, !.snap = access, !.defs = rows,
                                      !.todo = round[Sync].members]
  <2>1. next \in {"idle", "apply"}
    OBVIOUS
  <2>2. round' = [round EXCEPT ![Sync].pc = next, ![Sync].snap = access, ![Sync].defs = rows,
                               ![Sync].todo = round[Sync].members]
    BY <1>4 DEF LoadAccess
  <2> HIDE DEF next
  <2>3. s \in RoundStates
    BY <1>2, <2>1 DEF RoundStates, MeshInv, MeshTables
  <2>4. round' = [round EXCEPT ![Sync] = s]
    BY <1>2, <2>2 DEF MeshInv, MeshWork
  <2> HIDE DEF s
  <2>5. MeshWork'
    BY <1>2, <1>4, <2>3, <2>4, RoundPut DEF LoadAccess
  <2> QED BY <1>1, <1>4, <2>5 DEF LoadAccess, MeshInv, MeshHosts
<1>5. CASE SyncApply
  <2> DEFINE n == First(round[Sync].todo)
             want == Desired(round[Sync].snap, round[Sync].defs, n)
             s == [round[Sync] EXCEPT !.todo = round[Sync].todo \ {n}]
  <2>1. n \in MeshNodes
    BY <1>2, <1>5, FirstFacts DEF SyncApply, RoundStates
  <2>2. want \in Rule
    BY <1>2, RuleFacts DEF RoundStates
  <2>3. /\ \/ script' = script
           \/ script' = [script EXCEPT ![Sync][n] = Launch(want)]
        /\ round' = [round EXCEPT ![Sync] = s]
    BY <1>5 DEF SyncApply
  <2> HIDE DEF n, want
  <2>4. s \in RoundStates
    BY <1>2 DEF RoundStates
  <2> HIDE DEF s
  <2>5. MeshWork'
    BY <1>2, <1>5, <2>3, <2>4, RoundPut DEF SyncApply
  <2>6. Launch(want) \in Scripts
    BY <2>2, RuleFacts
  <2>7. script' \in [Issuers -> [MeshNodes -> Scripts]]
    BY <1>2, <2>1, <2>3, <2>6, ScriptPut DEF MeshInv, MeshHosts
  <2> QED BY <1>1, <1>5, <2>5, <2>7 DEF SyncApply, MeshInv, MeshHosts
<1> QED BY <1>3, <1>4, <1>5

(* PutAccess.                                                              *)
LEMMA PutPut ==
  ASSUME MeshInv, NEW p \in Puts, NEW s \in PutStates, put' = [put EXCEPT ![p] = s], round' = round
  PROVE  MeshWork'
  BY DEF MeshInv, MeshWork

LEMMA PutKeeps ==
  ASSUME MeshInv, NEW p \in Puts,
         (\E b \in Bodies : PutRead(p, b)) \/ PutSave(p) \/ PutApply(p) \/ PutEnds(p)
  PROVE  MeshInv'
<1> USE DEF tableVars, keyVars, fwVars
<1>1. put[p] \in PutStates /\ round' = round /\ p \in Issuers
  BY DEF MeshInv, MeshWork, Issuers, PutRead, PutSave, PutApply, PutEnds
<1>2. ASSUME NEW b \in Bodies, PutRead(p, b) PROVE MeshInv'
  <2> DEFINE s == [pc |-> "read", body |-> b, prev |-> access.nodes, todo |-> {}, defs |-> rows]
  <2>1. s \in PutStates
    BY ConfigFacts DEF PutStates, Configs, MeshInv, MeshTables
  <2>2. put' = [put EXCEPT ![p] = s]
    BY <1>2 DEF PutRead
  <2> HIDE DEF s
  <2> QED BY <1>1, <1>2, <2>1, <2>2, PutPut DEF PutRead, MeshInv, MeshTables, MeshHosts
<1>3. CASE PutSave(p)
  <2> DEFINE todo == (put[p].prev \union put[p].body.nodes) \intersect put[p].defs
             s == [put[p] EXCEPT !.pc = "saved", !.todo = todo]
  <2>1. todo \subseteq MeshNodes /\ access' \in Configs
    BY <1>1, <1>3 DEF PutSave, PutStates
  <2>2. put' = [put EXCEPT ![p].pc = "saved", ![p].todo = todo]
    BY <1>3 DEF PutSave
  <2> HIDE DEF todo
  <2>3. s \in PutStates
    BY <1>1, <2>1 DEF PutStates
  <2>4. put' = [put EXCEPT ![p] = s]
    BY <2>2 DEF MeshInv, MeshWork
  <2> HIDE DEF s
  <2> QED BY <1>1, <1>3, <2>1, <2>3, <2>4, PutPut DEF PutSave, MeshInv, MeshTables, MeshHosts
<1>4. CASE PutApply(p)
  <2> DEFINE Want(n) == Desired(put[p].body, put[p].defs, n)
             mine == [n \in MeshNodes |-> IF n \in put[p].todo /\ Applicable(Want(n), n)
                                          THEN Launch(Want(n)) ELSE script[p][n]]
             s == [put[p] EXCEPT !.pc = "applying"]
  <2>1. s \in PutStates
    BY <1>1 DEF PutStates
  <2>2. \A n \in MeshNodes : Launch(Want(n)) \in Scripts
    BY <1>1, RuleFacts DEF PutStates
  <2>3. script' = [script EXCEPT ![p] = mine] /\ put' = [put EXCEPT ![p] = s]
    BY <1>4 DEF PutApply
  <2> HIDE DEF Want, s
  <2>4. mine \in [MeshNodes -> Scripts]
    BY <1>1, <2>2 DEF MeshInv, MeshHosts
  <2> HIDE DEF mine
  <2>5. script' \in [Issuers -> [MeshNodes -> Scripts]]
    BY <1>1, <2>3, <2>4 DEF MeshInv, MeshHosts
  <2> QED BY <1>1, <1>4, <2>1, <2>3, <2>5, PutPut DEF PutApply, MeshInv, MeshTables, MeshHosts
<1>5. CASE PutEnds(p)
  <2>1. [IdlePut EXCEPT !.pc = "done"] \in PutStates
    BY IdleFacts DEF PutStates
  <2> QED BY <1>1, <1>5, <2>1, PutPut DEF PutEnds, MeshInv, MeshTables, MeshHosts
<1> QED BY <1>2, <1>3, <1>4, <1>5

(* Nodes come and go.                                                      *)
LEMMA NodeKeeps ==
  ASSUME MeshInv, NEW n \in MeshNodes, Cut(n) \/ Reconnect(n) \/ NodeJoins(n)
  PROVE  MeshInv'
<1> USE DEF tableVars, keyVars, fwVars
<1>1. MeshTables' /\ MeshWork' /\ UNCHANGED fwVars
  BY MeshConstants DEF Cut, Reconnect, NodeJoins, MeshInv, MeshTables, MeshWork
<1>2. script' \in [Issuers -> [MeshNodes -> Scripts]]
  <2>1. CASE Unheard(n)
    <3>1. \A i \in Issuers : [script[i] EXCEPT ![n].heard = FALSE] \in [MeshNodes -> Scripts]
      <4> SUFFICES ASSUME NEW i \in Issuers
                   PROVE  [script[i] EXCEPT ![n].heard = FALSE] \in [MeshNodes -> Scripts]
        OBVIOUS
      <4>1. script[i] \in [MeshNodes -> Scripts]
        BY DEF MeshInv, MeshHosts
      <4> DEFINE s == [script[i][n] EXCEPT !.heard = FALSE]
      <4>2. s \in Scripts
        BY <4>1 DEF Scripts
      <4> HIDE DEF s
      <4>3. [script[i] EXCEPT ![n] = s] \in [MeshNodes -> Scripts]
        BY <4>1, <4>2
      <4> QED BY <4>3 DEF s
    <3> QED BY <2>1, <3>1 DEF Unheard
  <2>2. CASE script' = script
    BY <2>2 DEF MeshInv, MeshHosts
  <2> QED BY <2>1, <2>2 DEF Cut, Reconnect, NodeJoins
<1> QED BY <1>1, <1>2 DEF MeshInv, MeshHosts

LEMMA MeshStep == MeshInv /\ [MeshNext]_meshVars => MeshInv'
<1> SUFFICES ASSUME MeshInv, [MeshNext]_meshVars PROVE MeshInv'
  OBVIOUS
<1>1. CASE UNCHANGED meshVars
  BY <1>1 DEF meshVars, MeshInv, MeshTables, MeshHosts, MeshWork
<1> QED BY <1>1, ScriptKeeps, RoundKeeps, SyncKeeps, PutKeeps, NodeKeeps DEF MeshNext

LEMMA MeshTyped == MeshSpec => []MeshTypeOK
<1>1. MeshInv => MeshTypeOK
  BY DEF MeshInv, MeshTables, MeshHosts, MeshWork, Configs, RoundStates, PutStates, Scripts, MeshTypeOK
<1> QED BY MeshInitially, MeshStep, <1>1, PTL DEF MeshSpec

-----------------------------------------------------------------------------
(* The parts together.                                                     *)

(* An execution of the nodes is one of each part, as long as the parts     *)
(* share no variable: what is proved of a part holds of it.                *)
LEMMA NodesRunParts == NodesSpec => MeshSpec /\ LinkSpec /\ Spec
<1>1. NodesInit => MeshInit /\ LinkInit /\ Init
  BY DEF NodesInit
<1>2. [NodesNext]_nodeParts => [MeshNext]_meshVars /\ [LinkNext]_linkVars /\ [Next]_vars
  BY DEF NodesNext, nodeParts, OnMesh, OnLink, OnCommands
<1> QED BY <1>1, <1>2, PTL DEF NodesSpec, MeshSpec, LinkSpec, Spec

(* What rounds, administrators, scripts and hosts write keeps its type: a  *)
(* rule names nodes and configured sources of its family only, whichever   *)
(* commands of a script fail, and a token is of the table or void.         *)
THEOREM NodesTyped == NodesSpec => []NodesTypeOK
<1>1. MeshTypeOK /\ LinkTypeOK => NodesTypeOK
  BY DEF NodesTypeOK
<1> QED BY NodesRunParts, MeshTyped, LinkTyped, <1>1, PTL
=============================================================================
