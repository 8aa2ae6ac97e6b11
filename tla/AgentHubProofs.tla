--------------------------- MODULE AgentHubProofs ---------------------------
(***************************************************************************)
(* Proofs about AgentHub, for any number of nodes, connections and calls   *)
(* and any buffer capacities.                                              *)
(***************************************************************************)
EXTENDS AgentHub, SequenceTheorems, TLAPS

USE HubConstants

(* What TypeOK needs to be inductive: the places where a step dereferences *)
(* a captured client or a looked-up subscription hold one.                 *)
Captured ==
    /\ \A k \in Calls : pc[k] = "captured" => via[k] \in Conns
    /\ \A c \in Conns : conn[c] = "routing" => held[c].to \in Calls

TypeInv == TypeOK /\ Captured

\* The initial state has every type, and nothing is captured in it.
LEMMA TypeInit == Init => TypeInv
  BY DEF Init, TypeInv, TypeOK, Captured, Nothing, Msgs, ConnStates, CallStates, Results

\* Every step keeps the types: one case per action of Next.
LEMMA TypeStep == TypeInv /\ [Next]_vars => TypeInv'
<1> SUFFICES ASSUME TypeInv, [Next]_vars PROVE TypeInv'
  OBVIOUS
<1> USE DEF TypeInv, TypeOK, Captured, callVars, connVars,
            Msgs, ConnStates, CallStates, Results
<1>1. ASSUME NEW k \in Calls, Subscribe(k) PROVE TypeInv'
  BY <1>1 DEF Subscribe
<1>2. ASSUME NEW k \in Calls, CallSteps(k) PROVE TypeInv'
  <2>1. CASE SendBind(k)
    BY <2>1 DEF SendBind
  <2>2. CASE SendOffline(k)
    BY <2>2 DEF SendOffline
  <2>3. CASE SendEnqueue(k)
    BY <2>3 DEF SendEnqueue
  <2>4. CASE Receive(k)
    <3>1. Tail(buf[k]) \in Seq(Msgs) /\ Len(Tail(buf[k])) <= ChanCap
      BY <2>4, HeadTailProperties DEF Receive
    <3>2. buf' \in [Calls -> Seq(Msgs)] /\ \A x \in Calls : Len(buf'[x]) <= ChanCap
      BY <2>4, <3>1 DEF Receive
    <3>3. pc' \in [Calls -> CallStates] /\ res' \in [Calls -> Results]
      <4>1. CASE UNCHANGED <<pc, res>>
        BY <4>1
      <4>2. CASE /\ pc' = [pc EXCEPT ![k] = "leaving"]
                 /\ res' = [res EXCEPT ![k] = "reply"]
        BY <4>2
      <4> QED BY <2>4, <4>1, <4>2 DEF Receive
    <3>4. \A x \in Calls : pc'[x] = "captured" => via'[x] \in Conns
      BY <2>4 DEF Receive
    <3> QED BY <2>4, <3>2, <3>3, <3>4 DEF Receive
  <2>5. CASE ReceiveClosed(k)
    BY <2>5 DEF ReceiveClosed
  <2>6. CASE Timeout(k)
    BY <2>6 DEF Timeout
  <2>7. CASE Unsubscribe(k)
    BY <2>7 DEF Unsubscribe
  <2> QED BY <1>2, <2>1, <2>2, <2>3, <2>4, <2>5, <2>6, <2>7 DEF CallSteps
<1>3. ASSUME NEW k \in Calls, AgentDrops(k) PROVE TypeInv'
  BY <1>3 DEF AgentDrops
<1>4. ASSUME ProcessDies PROVE TypeInv'
  <2>1. /\ pc' \in [Calls -> CallStates]
        /\ \A x \in Calls : pc'[x] # "captured"
    BY <1>4 DEF ProcessDies, InFlight
  <2>2. /\ conn' \in [Conns -> ConnStates]
        /\ \A c \in Conns : conn'[c] # "routing"
    BY <1>4 DEF ProcessDies
  <2>3. /\ out' \in [Conns -> Seq(Calls)] /\ \A c \in Conns : Len(out'[c]) <= OutCap
        /\ buf' \in [Calls -> Seq(Msgs)] /\ \A k \in Calls : Len(buf'[k]) <= ChanCap
    BY <1>4 DEF ProcessDies
  <2> QED BY <1>4, <2>1, <2>2, <2>3 DEF ProcessDies, Nothing
<1>5. ASSUME NEW c \in Conns, ServeSteps(c) PROVE TypeInv'
  <2>1. CASE OnConnect(c)
    BY <2>1 DEF OnConnect
  <2>2. CASE CancelClientSubs(c)
    BY <2>2 DEF CancelClientSubs
  <2>3. CASE Unregister(c)
    BY <2>3 DEF Unregister
  <2>4. CASE OnDisconnect(c)
    BY <2>4 DEF OnDisconnect
  <2>5. CASE ReadFails(c)
    BY <2>5 DEF ReadFails
  <2>6. CASE BeatWrites(c)
    BY <2>6 DEF BeatWrites
  <2>7. CASE RouteDeliver(c)
    BY <2>7 DEF RouteDeliver, Nothing
  <2>8. CASE RoutePanics(c)
    BY <2>8, <1>4 DEF RoutePanics
  <2> QED BY <1>5, <2>1, <2>2, <2>3, <2>4, <2>5, <2>6, <2>7, <2>8 DEF ServeSteps
<1>6. ASSUME NEW c \in Conns, Accept(c) PROVE TypeInv'
  BY <1>6 DEF Accept
<1>7. ASSUME NEW c \in Conns, SocketDies(c) \/ ReadBeat(c) PROVE TypeInv'
  <2>1. CASE SocketDies(c)
    BY <2>1 DEF SocketDies
  <2>2. CASE ReadBeat(c)
    BY <2>2 DEF ReadBeat
  <2> QED BY <1>7, <2>1, <2>2
<1>8. ASSUME NEW c \in Conns, WritePump(c) PROVE TypeInv'
  <2>1. Head(out[c]) \in Calls /\ Tail(out[c]) \in Seq(Calls)
        /\ Len(Tail(out[c])) <= OutCap
    BY <1>8, HeadTailProperties DEF WritePump
  <2>2. out' \in [Conns -> Seq(Calls)] /\ \A x \in Conns : Len(out'[x]) <= OutCap
    BY <1>8, <2>1 DEF WritePump
  <2>3. sock' \in [Conns -> BOOLEAN]
    BY <1>8 DEF WritePump
  <2>4. agent' \in [Calls -> {"none", "running", "ended"}]
    <3>1. CASE agent' = agent
      BY <3>1
    <3>2. CASE agent' = [agent EXCEPT ![Head(out[c])] = "running"]
      BY <2>1, <3>2
    <3> QED BY <1>8, <3>1, <3>2 DEF WritePump
  <2> QED BY <1>8, <2>2, <2>3, <2>4 DEF WritePump
<1>9. ASSUME NEW c \in Conns, NEW k \in Calls, NEW m \in Msgs, RouteLookup(c, k, m)
      PROVE TypeInv'
  <2>1. agent' \in [Calls -> {"none", "running", "ended"}]
    <3>1. agent' = agent \/ agent' = [agent EXCEPT ![k] = "ended"]
      BY <1>9 DEF RouteLookup
    <3> QED BY <3>1
  <2>2. CASE UNCHANGED <<conn, held>>
    BY <1>9, <2>1, <2>2 DEF RouteLookup
  <2>3. CASE /\ subs[ReqOf[k]] # NoCall
             /\ conn' = [conn EXCEPT ![c] = "routing"]
             /\ held' = [held EXCEPT ![c] = [to |-> subs[ReqOf[k]], msg |-> m]]
    <3>1. subs[ReqOf[k]] \in Calls
      BY <2>3
    <3> QED BY <1>9, <2>1, <2>3, <3>1 DEF RouteLookup
  <2> QED BY <1>9, <2>2, <2>3 DEF RouteLookup
<1>10. CASE UNCHANGED vars
  BY <1>10 DEF vars
<1> QED
  BY <1>1, <1>2, <1>3, <1>4, <1>5, <1>6, <1>7, <1>8, <1>9, <1>10 DEF Next, Kill

(* Every variable keeps its type and no buffer exceeds its capacity:       *)
(* Client.send and route never queue beyond the channels' capacities.      *)
THEOREM TypeCorrect == Spec => []TypeOK
<1>1. TypeInv => TypeOK
  BY DEF TypeInv
<1> QED BY TypeInit, TypeStep, <1>1, PTL DEF Spec

-----------------------------------------------------------------------------
(* The registry of connections and subscriptions.                          *)

\* A connection outside readPump and OnConnect has no open socket.
ClosedOnceEnded ==
    \A c \in Conns : sock[c] => Pumping(c) \/ conn[c] = "accepted"

\* A caller has a channel from Subscribe on; only callers in flight or gone
\* have one.
ChanFollowsCaller ==
    \A k \in Calls : /\ pc[k] = "idle" => chan[k] = "none"
                     /\ pc[k] # "idle" => chan[k] # "none"

RegistryInv ==
    /\ RegisteredServes /\ OpenIsRegistered /\ ClosedOnceEnded
    /\ ChanFollowsCaller /\ NoLeakedSub /\ NeverDeaf

\* No connection is registered and nobody is subscribed at the start.
LEMMA RegistryInit == Init => RegistryInv
  BY DEF Init, RegistryInv, RegisteredServes, OpenIsRegistered, ClosedOnceEnded,
         ChanFollowsCaller, NoLeakedSub, NeverDeaf, InFlight

(* The two halves are preserved separately: the connections do not depend  *)
(* on the subscriptions at all.                                            *)
ConnInv == RegisteredServes /\ OpenIsRegistered /\ ClosedOnceEnded
SubInv == ChanFollowsCaller /\ NoLeakedSub /\ NeverDeaf

\* Every step keeps the connections' half: only ServeAgent's own steps, a
\* replacement, a lost socket and a crash touch it.
LEMMA ConnStep == TypeInv /\ ConnInv /\ [Next]_vars => ConnInv'
<1> SUFFICES ASSUME TypeInv, ConnInv, [Next]_vars PROVE ConnInv'
  OBVIOUS
<1> USE DEF TypeInv, TypeOK, ConnInv, RegisteredServes, OpenIsRegistered,
            ClosedOnceEnded, Serving, Pumping
<1>1. ASSUME UNCHANGED <<clients, conn, sock>> PROVE ConnInv'
  BY <1>1
<1>0. ASSUME UNCHANGED <<clients, conn>>, \A x \in Conns : sock'[x] => sock[x]
      PROVE ConnInv'
  BY <1>0
<1>2. ASSUME NEW k \in Calls, Subscribe(k) \/ CallSteps(k) \/ AgentDrops(k)
      PROVE ConnInv'
  BY <1>1, <1>2 DEF Subscribe, CallSteps, SendBind, SendOffline, SendEnqueue,
       Receive, ReceiveClosed, Timeout, Unsubscribe, AgentDrops, connVars
<1>3. ASSUME ProcessDies PROVE ConnInv'
  BY <1>3 DEF ProcessDies
<1>4. ASSUME NEW c \in Conns, ServeSteps(c) PROVE ConnInv'
  <2>1. CASE OnConnect(c)
    BY <2>1 DEF OnConnect
  <2>2. CASE CancelClientSubs(c)
    BY <2>2 DEF CancelClientSubs
  <2>3. CASE Unregister(c)
    <3>1. UNCHANGED sock /\ ~sock[c]
      BY <2>3 DEF Unregister
    <3>2. CASE /\ clients[NodeOf[c]] = c
               /\ clients' = [clients EXCEPT ![NodeOf[c]] = NoConn]
               /\ conn' = [conn EXCEPT ![c] = "deleted"]
      BY <2>3, <3>1, <3>2 DEF Unregister
    <3>3. CASE /\ clients[NodeOf[c]] # c
               /\ conn' = [conn EXCEPT ![c] = "gone"]
               /\ UNCHANGED clients
      BY <2>3, <3>1, <3>3 DEF Unregister
    <3> QED BY <2>3, <3>2, <3>3 DEF Unregister
  <2>4. CASE OnDisconnect(c)
    BY <2>4 DEF OnDisconnect
  <2>5. CASE ReadFails(c)
    BY <2>5 DEF ReadFails
  <2>6. CASE BeatWrites(c)
    BY <2>6 DEF BeatWrites
  <2>7. CASE RouteDeliver(c)
    BY <2>7 DEF RouteDeliver
  <2>8. CASE RoutePanics(c)
    BY <2>8, <1>3 DEF RoutePanics
  <2> QED BY <1>4, <2>1, <2>2, <2>3, <2>4, <2>5, <2>6, <2>7, <2>8 DEF ServeSteps
<1>5. ASSUME NEW c \in Conns, Accept(c) PROVE ConnInv'
  BY <1>5 DEF Accept
<1>6. ASSUME NEW c \in Conns, SocketDies(c) \/ ReadBeat(c) PROVE ConnInv'
  <2>1. CASE SocketDies(c)
    BY <2>1, <1>0 DEF SocketDies
  <2>2. CASE ReadBeat(c)
    BY <2>2 DEF ReadBeat
  <2> QED BY <1>6, <2>1, <2>2
<1>7. ASSUME NEW c \in Conns, WritePump(c) PROVE ConnInv'
  <2>1. UNCHANGED <<clients, conn>> /\ \A x \in Conns : sock'[x] => sock[x]
    BY <1>7 DEF WritePump
  <2> QED BY <1>0, <2>1
<1>8. ASSUME NEW c \in Conns, NEW k \in Calls, NEW m \in Msgs, RouteLookup(c, k, m)
      PROVE ConnInv'
  <2>1. UNCHANGED <<clients, sock>>
    BY <1>8 DEF RouteLookup
  <2>2. CASE conn' = conn
    BY <1>0, <2>1, <2>2
  <2>3. CASE conn[c] = "reading" /\ conn' = [conn EXCEPT ![c] = "routing"]
    BY <2>1, <2>3
  <2> QED BY <1>8, <2>2, <2>3 DEF RouteLookup
<1>9. CASE UNCHANGED vars
  BY <1>1, <1>9 DEF vars
<1> QED
  BY <1>2, <1>3, <1>4, <1>5, <1>6, <1>7, <1>8, <1>9 DEF Next, Kill

\* Every step keeps the subscriptions' half, as long as no two callers use the
\* same envelope ID: otherwise Subscribe and Unsubscribe hit each other's sub.
LEMMA SubStep ==
  ASSUME DistinctReqs PROVE TypeInv /\ SubInv /\ [Next]_vars => SubInv'
<1> SUFFICES ASSUME TypeInv, SubInv, [Next]_vars PROVE SubInv'
  OBVIOUS
<1> USE DistinctReqs DEF DistinctReqs, TypeInv, TypeOK, SubInv,
            ChanFollowsCaller, NoLeakedSub, NeverDeaf, InFlight
<1>1. ASSUME UNCHANGED <<subs, pc, chan>> PROVE SubInv'
  BY <1>1
<1>2. ASSUME NEW k \in Calls, CallSteps(k) PROVE SubInv'
  <2>1. CASE SendBind(k)
    BY <2>1 DEF SendBind
  <2>2. CASE SendOffline(k)
    BY <2>2 DEF SendOffline
  <2>3. CASE SendEnqueue(k)
    BY <2>3 DEF SendEnqueue
  <2>4. CASE Receive(k)
    <3>1. UNCHANGED <<subs, chan>> /\ pc[k] = "waiting"
      BY <2>4 DEF Receive
    <3>2. CASE pc' = pc
      BY <3>1, <3>2
    <3>3. CASE pc' = [pc EXCEPT ![k] = "leaving"]
      BY <3>1, <3>3
    <3> QED BY <2>4, <3>2, <3>3 DEF Receive
  <2>5. CASE ReceiveClosed(k)
    BY <2>5 DEF ReceiveClosed
  <2>6. CASE Timeout(k)
    BY <2>6 DEF Timeout
  <2>7. CASE Unsubscribe(k)
    <3>1. subs[ReqOf[k]] \in {k, NoCall}
      BY <2>7 DEF Unsubscribe
    <3> QED BY <2>7, <3>1 DEF Unsubscribe
  <2> QED BY <1>2, <2>1, <2>2, <2>3, <2>4, <2>5, <2>6, <2>7 DEF CallSteps
<1>3. ASSUME ProcessDies PROVE SubInv'
  BY <1>3 DEF ProcessDies
<1>4. ASSUME NEW k \in Calls, Subscribe(k) PROVE SubInv'
  <2>1. subs[ReqOf[k]] = NoCall
    BY <1>4 DEF Subscribe
  <2> QED BY <1>4, <2>1 DEF Subscribe
<1>5. ASSUME NEW c \in Conns, CancelClientSubs(c) PROVE SubInv'
  <2> DEFINE doomed == {k \in Calls : bound[k] = c /\ subs[ReqOf[k]] = k}
  <2>1. /\ UNCHANGED pc
        /\ chan' = [k \in Calls |-> IF k \in doomed THEN "closed" ELSE chan[k]]
        /\ subs' = [r \in Reqs |-> IF subs[r] \in doomed THEN NoCall ELSE subs[r]]
    BY <1>5 DEF CancelClientSubs
  <2>2. ChanFollowsCaller'
    <3>1. \A k \in Calls : chan'[k] = "none" <=> chan[k] = "none"
      <4> SUFFICES ASSUME NEW k \in Calls PROVE chan'[k] = "none" <=> chan[k] = "none"
        OBVIOUS
      <4>1. k \in doomed => chan[k] = "open"
        BY DEF doomed
      <4> QED BY <2>1, <4>1
    <3> QED BY <2>1, <3>1
  <2>3. NeverDeaf'
    BY <2>1
  <2>4. \A r \in Reqs : subs'[r] # NoCall =>
           subs'[r] = subs[r] /\ subs[r] \in Calls /\ subs[r] \notin doomed
    BY <2>1
  <2>5. NoLeakedSub'
    <3> SUFFICES ASSUME NEW r \in Reqs, subs'[r] # NoCall
                 PROVE /\ ReqOf[subs'[r]] = r
                       /\ pc'[subs'[r]] \in {"subscribed", "captured", "waiting", "leaving"}
                       /\ chan'[subs'[r]] = "open"
      OBVIOUS
    <3>1. subs[r] # NoCall /\ chan'[subs[r]] = chan[subs[r]]
      BY <2>1, <2>4
    <3> QED BY <2>1, <2>4, <3>1
  <2> QED BY <2>2, <2>3, <2>5
<1>6. ASSUME NEW c \in Conns, ServeSteps(c) PROVE SubInv'
  BY <1>1, <1>3, <1>5, <1>6 DEF ServeSteps, OnConnect, Unregister, OnDisconnect,
       ReadFails, BeatWrites, RouteDeliver, RoutePanics, callVars
<1>7. ASSUME NEW k \in Calls, AgentDrops(k) PROVE SubInv'
  BY <1>1, <1>7 DEF AgentDrops, callVars
<1>8. ASSUME NEW c \in Conns,
             Accept(c) \/ SocketDies(c) \/ WritePump(c) \/ ReadBeat(c)
      PROVE SubInv'
  BY <1>1, <1>8 DEF Accept, SocketDies, WritePump, ReadBeat, callVars
<1>9. ASSUME NEW c \in Conns, NEW k \in Calls, NEW m \in Msgs, RouteLookup(c, k, m)
      PROVE SubInv'
  BY <1>1, <1>9 DEF RouteLookup, callVars
<1>10. CASE UNCHANGED vars
  BY <1>1, <1>10 DEF vars
<1> QED
  BY <1>2, <1>3, <1>4, <1>6, <1>7, <1>8, <1>9, <1>10 DEF Next, Kill

(* ServeAgent's registration and teardown: a node is Online only through a *)
(* connection that is still being served, and an open socket is always the *)
(* one registered for its node, in every interleaving of replacements,     *)
(* disconnects, teardowns and crashes.                                     *)
THEOREM RegistrationSafe == Spec => []RegistrationConsistent
<1>1. Init => ConnInv
  BY RegistryInit DEF RegistryInv, ConnInv
<1>2. ConnInv => RegistrationConsistent
  BY DEF ConnInv, RegistrationConsistent
<1> QED BY TypeInit, TypeStep, <1>1, ConnStep, <1>2, PTL DEF Spec

(* Subscribe/Unsubscribe/cancelClientSubs: with distinct envelope IDs no   *)
(* subscription outlives its caller.                                       *)
THEOREM SubsNeverLeak ==
  ASSUME DistinctReqs PROVE Spec => []NoLeakedSub
<1>1. Init => SubInv
  BY RegistryInit DEF RegistryInv, SubInv
<1>2. TypeInv /\ SubInv /\ [Next]_vars => SubInv'
  BY SubStep, DistinctReqs
<1>3. SubInv => NoLeakedSub
  BY DEF SubInv
<1> QED BY TypeInit, TypeStep, <1>1, <1>2, <1>3, PTL DEF Spec

(* With distinct envelope IDs a waiter whose channel is open is registered *)
(* under its ID, so that a reply and a disconnect can both reach it.       *)
THEOREM WaitersNeverDeaf ==
  ASSUME DistinctReqs PROVE Spec => []NeverDeaf
<1>1. Init => SubInv
  BY RegistryInit DEF RegistryInv, SubInv
<1>2. TypeInv /\ SubInv /\ [Next]_vars => SubInv'
  BY SubStep, DistinctReqs
<1>3. SubInv => NeverDeaf
  BY DEF SubInv
<1> QED BY TypeInit, TypeStep, <1>1, <1>2, <1>3, PTL DEF Spec

(* Both together: what a Send error, a timeout, a disconnect and a crash   *)
(* leave of the subscriptions agrees with who still waits.                 *)
THEOREM SubscriptionsSafe ==
  ASSUME DistinctReqs PROVE Spec => []SubscriptionsConsistent
<1>1. Spec => []NoLeakedSub
  BY SubsNeverLeak, DistinctReqs
<1>2. Spec => []NeverDeaf
  BY WaitersNeverDeaf, DistinctReqs
<1>3. NoLeakedSub /\ NeverDeaf => SubscriptionsConsistent
  BY DEF SubscriptionsConsistent
<1> QED BY <1>1, <1>2, <1>3, PTL
=============================================================================
