-------------------------- MODULE AgentHubContract --------------------------
(***************************************************************************)
(* Proof that AgentHub implements RpcContract, for any number of nodes,    *)
(* connections and calls and any capacities.                               *)
(***************************************************************************)
EXTENDS AgentHubProofs

-----------------------------------------------------------------------------
(* Requests: where one can be between Send and the agent.                  *)

\* Send has queued the request of k, and did not report an error.
Sent(k) == /\ pc[k] \in {"waiting", "leaving", "done", "lost"}
           /\ res[k] \notin {"offline", "slow"}

\* No request is queued twice, on one connection or on two.
QueuedOnce ==
    \A c, d \in Conns : \A i \in DOMAIN out[c], j \in DOMAIN out[d] :
        out[c][i] = out[d][j] => c = d /\ i = j

\* A queued request was sent and has not reached its agent.
QueuedNotExecuted ==
    \A c \in Conns : \A i \in DOMAIN out[c] :
        agent[out[c][i]] = "none" /\ Sent(out[c][i])

ExecutedWasSent == \A k \in Calls : agent[k] # "none" => Sent(k)

ResultAtTheEnd ==
    \A k \in Calls :
        pc[k] \in {"idle", "subscribed", "captured", "waiting"} => res[k] = "none"

RequestInv == QueuedOnce /\ QueuedNotExecuted /\ ExecutedWasSent /\ ResultAtTheEnd

\* Nothing is queued or executed at the start.
LEMMA RequestInit == Init => RequestInv
  BY DEF Init, RequestInv, QueuedOnce, QueuedNotExecuted, ExecutedWasSent, ResultAtTheEnd

\* Every step keeps the requests' invariant: SendEnqueue and WritePump move a
\* request, the callers' other steps only add a result to it.
LEMMA RequestStep == TypeInv /\ RequestInv /\ [Next]_vars => RequestInv'
<1> SUFFICES ASSUME TypeInv, RequestInv, [Next]_vars PROVE RequestInv'
  OBVIOUS
<1>0. /\ out \in [Conns -> Seq(Calls)]
      /\ pc \in [Calls -> CallStates] /\ res \in [Calls -> Results]
      /\ agent \in [Calls -> {"none", "running", "ended"}]
  BY DEF TypeInv, TypeOK
<1> USE <1>0 DEF RequestInv, QueuedOnce, QueuedNotExecuted, ExecutedWasSent,
                 ResultAtTheEnd, Sent
<1>1. ASSUME UNCHANGED <<out, pc, res, agent>> PROVE RequestInv'
  BY <1>1
(* A caller moves on and neither queues nor executes anything.             *)
<1>2. ASSUME NEW k \in Calls, UNCHANGED <<out, agent>>,
             pc' \in [Calls -> CallStates], res' \in [Calls -> Results],
             \A x \in Calls \ {k} : pc'[x] = pc[x] /\ res'[x] = res[x],
             Sent(k) => Sent(k)',
             pc'[k] \in {"idle", "subscribed", "captured", "waiting"} => res'[k] = "none"
      PROVE RequestInv'
  <2>1. \A x \in Calls : Sent(x) => Sent(x)'
    BY <1>2
  <2>2. \A c \in Conns : \A i \in DOMAIN out[c] : out[c][i] \in Calls
    OBVIOUS
  <2>3. QueuedOnce'
    BY <1>2
  <2>4. ResultAtTheEnd'
    <3> SUFFICES ASSUME NEW x \in Calls,
                        pc'[x] \in {"idle", "subscribed", "captured", "waiting"}
                 PROVE res'[x] = "none"
      OBVIOUS
    <3>1. CASE x = k
      BY <1>2, <3>1
    <3>2. CASE x # k
      BY <1>2, <3>2
    <3> QED BY <3>1, <3>2
  <2>5. QueuedNotExecuted' /\ ExecutedWasSent'
    BY <1>2, <2>1, <2>2
  <2> QED BY <2>3, <2>4, <2>5
<1>3. ASSUME NEW k \in Calls, Subscribe(k) PROVE RequestInv'
  BY <1>2, <1>3 DEF Subscribe, connVars, CallStates, Results
<1>4. ASSUME NEW k \in Calls, SendEnqueue(k) PROVE RequestInv'
  <2> DEFINE c == via[k]
  <2>1. c \in Conns /\ pc[k] = "captured" /\ ~Sent(k)
    BY <1>4 DEF SendEnqueue, TypeInv, Captured
  <2>2. CASE Len(out[c]) >= OutCap
    BY <1>2, <1>4, <2>1, <2>2 DEF SendEnqueue, CallStates, Results
  <2>3. CASE ~(Len(out[c]) >= OutCap)
    <3>1. /\ out' = [out EXCEPT ![c] = Append(@, k)]
          /\ pc' = [pc EXCEPT ![k] = "waiting"]
          /\ res' = res /\ agent' = agent
      BY <1>4, <2>3 DEF SendEnqueue
    <3>2. \A d \in Conns : \A i \in DOMAIN out'[d] :
             \/ i \in DOMAIN out[d] /\ out'[d][i] = out[d][i]
             \/ d = c /\ i = Len(out[c]) + 1 /\ out'[d][i] = k
      BY <2>1, <3>1
    <3>3. \A d \in Conns : \A i \in DOMAIN out[d] : out[d][i] \in Calls \ {k}
      <4> SUFFICES ASSUME NEW d \in Conns, NEW i \in DOMAIN out[d]
                   PROVE out[d][i] \in Calls /\ out[d][i] # k
        OBVIOUS
      <4>1. Sent(out[d][i])
        OBVIOUS
      <4> QED BY <2>1, <4>1
    <3>4. \A x \in Calls : Sent(x) => Sent(x)'
      BY <3>1
    <3>5. agent[k] = "none" /\ res[k] = "none" /\ Sent(k)'
      BY <2>1, <3>1
    <3>6. QueuedOnce'
      <4> SUFFICES ASSUME NEW d \in Conns, NEW e \in Conns,
                          NEW i \in DOMAIN out'[d], NEW j \in DOMAIN out'[e],
                          out'[d][i] = out'[e][j]
                   PROVE d = e /\ i = j
        OBVIOUS
      <4>1. CASE out'[d][i] = k
        <5>1. d = c /\ i = Len(out[c]) + 1
          BY <3>2, <3>3, <4>1
        <5>2. out'[e][j] = k /\ out'[e][j] \notin {out[e][x] : x \in DOMAIN out[e]}
          BY <3>3, <4>1
        <5>3. e = c /\ j = Len(out[c]) + 1
          BY <3>2, <5>2
        <5> QED BY <5>1, <5>3
      <4>2. CASE out'[d][i] # k
        BY <3>2, <4>2
      <4> QED BY <4>1, <4>2
    <3>7. QueuedNotExecuted'
      BY <3>1, <3>2, <3>3, <3>4, <3>5
    <3>8. ExecutedWasSent' /\ ResultAtTheEnd'
      BY <3>1, <3>4, <3>5
    <3> QED BY <3>6, <3>7, <3>8
  <2> QED BY <2>1, <2>2, <2>3
<1>5. ASSUME NEW k \in Calls, CallSteps(k) PROVE RequestInv'
  <2>1. CASE SendBind(k)
    BY <1>2, <2>1 DEF SendBind, connVars, CallStates
  <2>2. CASE SendOffline(k)
    BY <1>2, <2>2 DEF SendOffline, connVars, CallStates, Results
  <2>3. CASE Receive(k)
    <3>1. UNCHANGED <<out, agent>> /\ pc[k] = "waiting"
      BY <2>3 DEF Receive
    <3>2. CASE UNCHANGED <<pc, res>>
      BY <1>1, <3>1, <3>2
    <3>3. CASE /\ pc' = [pc EXCEPT ![k] = "leaving"]
               /\ res' = [res EXCEPT ![k] = "reply"]
      BY <1>2, <3>1, <3>3 DEF CallStates, Results
    <3> QED BY <2>3, <3>2, <3>3 DEF Receive
  <2>4. CASE ReceiveClosed(k)
    BY <1>2, <2>4 DEF ReceiveClosed, connVars, CallStates, Results
  <2>5. CASE Timeout(k)
    BY <1>2, <2>5 DEF Timeout, connVars, CallStates, Results
  <2>6. CASE Unsubscribe(k)
    BY <1>2, <2>6 DEF Unsubscribe, connVars, CallStates
  <2> QED BY <1>4, <1>5, <2>1, <2>2, <2>3, <2>4, <2>5, <2>6 DEF CallSteps
<1>6. ASSUME NEW c \in Conns, WritePump(c) PROVE RequestInv'
  <2> DEFINE h == Head(out[c])
  <2>1. out[c] \in Seq(Calls) /\ out[c] # <<>>
    BY <1>6 DEF WritePump
  <2>2. /\ h = out[c][1] /\ 1 \in DOMAIN out[c] /\ h \in Calls
        /\ Tail(out[c]) \in Seq(Calls)
        /\ \A i \in DOMAIN Tail(out[c]) :
             i + 1 \in DOMAIN out[c] /\ i + 1 # 1 /\ Tail(out[c])[i] = out[c][i + 1]
    BY <2>1, HeadTailProperties
  <2>3. out' = [out EXCEPT ![c] = Tail(@)] /\ pc' = pc /\ res' = res
    BY <1>6 DEF WritePump, callVars
  <2>4. \A x \in Calls \ {h} : agent'[x] = agent[x]
    <3>1. agent' = agent \/ agent' = [agent EXCEPT ![h] = "running"]
      BY <1>6 DEF WritePump
    <3> QED BY <2>2, <3>1
  <2>5. \A d \in Conns : \A i \in DOMAIN out'[d] :
           \E j \in DOMAIN out[d] : /\ out'[d][i] = out[d][j]
                                    /\ d = c => j = i + 1
                                    /\ d # c => j = i
    BY <2>2, <2>3
  <2>6. Sent(h)
    BY <2>2
  <2>7. QueuedOnce'
    <3> SUFFICES ASSUME NEW d \in Conns, NEW e \in Conns,
                        NEW i \in DOMAIN out'[d], NEW j \in DOMAIN out'[e],
                        out'[d][i] = out'[e][j]
                 PROVE d = e /\ i = j
      OBVIOUS
    <3>1. PICK m \in DOMAIN out[d] : /\ out'[d][i] = out[d][m]
                                     /\ d = c => m = i + 1
                                     /\ d # c => m = i
      BY <2>5
    <3>2. PICK n \in DOMAIN out[e] : /\ out'[e][j] = out[e][n]
                                     /\ e = c => n = j + 1
                                     /\ e # c => n = j
      BY <2>5
    <3>3. d = e /\ m = n
      <4>1. out[d][m] = out[e][n]
        BY <3>1, <3>2
      <4> QED BY <4>1
    <3>4. i \in Int /\ j \in Int
      BY <2>2, <2>3
    <3> QED BY <3>1, <3>2, <3>3, <3>4
  <2>8. \A d \in Conns : \A i \in DOMAIN out'[d] : out'[d][i] \in Calls \ {h}
    BY <2>2, <2>3
  <2>9. QueuedNotExecuted'
    <3> SUFFICES ASSUME NEW d \in Conns, NEW i \in DOMAIN out'[d]
                 PROVE (agent[out[d][i]] = "none" /\ Sent(out[d][i]))'
      OBVIOUS
    <3>1. PICK j \in DOMAIN out[d] : out'[d][i] = out[d][j]
      BY <2>5
    <3>2. out[d][j] \in Calls \ {h} /\ agent[out[d][j]] = "none" /\ Sent(out[d][j])
      BY <2>8, <3>1
    <3> QED BY <2>3, <2>4, <3>1, <3>2
  <2>10. ExecutedWasSent' /\ ResultAtTheEnd'
    BY <2>3, <2>4, <2>6
  <2> QED BY <2>7, <2>9, <2>10
(* The agent goes on with a request it has: it is in no queue any more.    *)
<1>7. ASSUME NEW k \in Calls, UNCHANGED <<out, pc, res>>, agent[k] = "running",
             agent' = agent \/ agent' = [agent EXCEPT ![k] = "ended"]
      PROVE RequestInv'
  <2>1. \A x \in Calls : agent'[x] = agent[x] \/ (x = k /\ agent'[x] = "ended")
    BY <1>7
  <2>2. \A c \in Conns : \A i \in DOMAIN out[c] : out[c][i] \in Calls \ {k}
    BY <1>7
  <2>3. QueuedOnce' /\ ResultAtTheEnd'
    BY <1>7
  <2>4. QueuedNotExecuted' /\ ExecutedWasSent'
    BY <1>7, <2>1, <2>2
  <2> QED BY <2>3, <2>4
<1>8. ASSUME NEW c \in Conns, NEW k \in Calls, NEW m \in Msgs, RouteLookup(c, k, m)
      PROVE RequestInv'
  <2>1. agent' = agent \/ agent' = [agent EXCEPT ![k] = "ended"]
    BY <1>8 DEF RouteLookup
  <2> QED BY <1>7, <1>8, <2>1 DEF RouteLookup, callVars
<1>9. ASSUME NEW k \in Calls, AgentDrops(k) PROVE RequestInv'
  BY <1>7, <1>9 DEF AgentDrops, callVars
<1>10. ASSUME ProcessDies PROVE RequestInv'
  <2>1. /\ res' = res /\ agent' = agent
        /\ \A c \in Conns : out'[c] = <<>>
    BY <1>10 DEF ProcessDies
  <2>2. \A x \in Calls : pc'[x] = pc[x] \/ pc'[x] = "lost"
    BY <1>10 DEF ProcessDies
  <2>3. QueuedOnce' /\ QueuedNotExecuted'
    BY <2>1
  <2>4. ExecutedWasSent' /\ ResultAtTheEnd'
    BY <2>1, <2>2
  <2> QED BY <2>3, <2>4
<1>11. ASSUME NEW c \in Conns, Accept(c) \/ ServeSteps(c) \/ SocketDies(c) \/ ReadBeat(c)
       PROVE RequestInv'
  BY <1>1, <1>10, <1>11 DEF Accept, ServeSteps, OnConnect, CancelClientSubs, Unregister,
     OnDisconnect, ReadFails, BeatWrites, RouteDeliver, RoutePanics, SocketDies,
     ReadBeat, callVars
<1>12. CASE UNCHANGED vars
  BY <1>1, <1>12 DEF vars
<1> QED
  BY <1>3, <1>5, <1>6, <1>8, <1>9, <1>10, <1>11, <1>12 DEF Next, Kill

(* A request whose Send failed is never executed: Client.send refuses it    *)
(* before it is queued, and Send returns ErrOffline before that.           *)
THEOREM RefusedNeverExecuted == Spec => []FailedSendNotExecuted
<1>1. TypeInv /\ RequestInv => FailedSendNotExecuted
  BY DEF TypeInv, TypeOK, RequestInv, QueuedNotExecuted, ExecutedWasSent, Sent,
         FailedSendNotExecuted
<1> QED BY TypeInit, TypeStep, RequestInit, RequestStep, <1>1, PTL DEF Spec

-----------------------------------------------------------------------------
(* Replies: a final message comes from an agent that has finished.         *)

FinalMeansEnded ==
    /\ \A k \in Calls : \A i \in DOMAIN buf[k] : buf[k][i] = "final" => agent[k] = "ended"
    /\ \A c \in Conns : conn[c] = "routing" /\ held[c].msg = "final"
                           => agent[held[c].to] = "ended"

ReplyInv == FinalMeansEnded /\ ReplyMeansExecuted

\* No message and no result exists at the start.
LEMMA ReplyInit == Init => ReplyInv
  BY DEF Init, ReplyInv, FinalMeansEnded, ReplyMeansExecuted

\* Every step keeps the replies genuine, as long as a reply can only be routed
\* to the caller that sent the request: distinct envelope IDs.
LEMMA ReplyStep ==
  ASSUME DistinctReqs
  PROVE  TypeInv /\ SubInv /\ RequestInv /\ ReplyInv /\ [Next]_vars => ReplyInv'
<1> SUFFICES ASSUME TypeInv, SubInv, RequestInv, ReplyInv, [Next]_vars PROVE ReplyInv'
  OBVIOUS
<1>0. /\ buf \in [Calls -> Seq(Msgs)] /\ res \in [Calls -> Results]
      /\ agent \in [Calls -> {"none", "running", "ended"}]
      /\ conn \in [Conns -> ConnStates]
      /\ held \in [Conns -> [to : Calls \union {NoCall}, msg : Msgs]]
      /\ \A c \in Conns : conn[c] = "routing" => held[c].to \in Calls
  BY DEF TypeInv, TypeOK, Captured
<1> USE <1>0 DEF ReplyInv, FinalMeansEnded, ReplyMeansExecuted
<1>1. ASSUME UNCHANGED <<buf, res, agent, held>>,
             \A c \in Conns : conn'[c] = "routing" => conn[c] = "routing"
      PROVE ReplyInv'
  BY <1>1
<1>2. ASSUME NEW k \in Calls, NEW r \in Results, r # "reply",
             res' = [res EXCEPT ![k] = r], UNCHANGED <<buf, agent, held, conn>>
      PROVE ReplyInv'
  BY <1>2
<1>3. ASSUME NEW k \in Calls, CallSteps(k) PROVE ReplyInv'
  <2>1. CASE SendBind(k)
    BY <1>1, <2>1 DEF SendBind, connVars
  <2>2. CASE SendOffline(k)
    BY <1>2, <2>2 DEF SendOffline, connVars, Results
  <2>3. CASE SendEnqueue(k)
    <3>1. res' = res \/ res' = [res EXCEPT ![k] = "slow"]
      BY <2>3 DEF SendEnqueue
    <3> QED BY <1>1, <1>2, <2>3, <3>1 DEF SendEnqueue, connVars, Results
  <2>4. CASE Receive(k)
    <3>1. /\ UNCHANGED <<agent, held, conn>> /\ buf[k] # <<>> /\ buf[k] \in Seq(Msgs)
          /\ buf' = [buf EXCEPT ![k] = Tail(@)]
      BY <2>4 DEF Receive, connVars
    <3>2. /\ Head(buf[k]) = buf[k][1] /\ 1 \in DOMAIN buf[k]
          /\ \A i \in DOMAIN Tail(buf[k]) :
               i + 1 \in DOMAIN buf[k] /\ Tail(buf[k])[i] = buf[k][i + 1]
      BY <3>1, HeadTailProperties
    <3>3. FinalMeansEnded'
      BY <3>1, <3>2
    <3>4. CASE res' = res
      BY <3>1, <3>3, <3>4
    <3>5. CASE Head(buf[k]) = "final" /\ res' = [res EXCEPT ![k] = "reply"]
      BY <3>1, <3>2, <3>3, <3>5
    <3> QED BY <2>4, <3>4, <3>5 DEF Receive
  <2>5. CASE ReceiveClosed(k)
    BY <1>2, <2>5 DEF ReceiveClosed, connVars, Results
  <2>6. CASE Timeout(k)
    BY <1>2, <2>6 DEF Timeout, connVars, Results
  <2>7. CASE Unsubscribe(k)
    BY <1>1, <2>7 DEF Unsubscribe, connVars
  <2> QED BY <1>3, <2>1, <2>2, <2>3, <2>4, <2>5, <2>6, <2>7 DEF CallSteps
<1>4. ASSUME NEW c \in Conns, WritePump(c) PROVE ReplyInv'
  <2> DEFINE h == Head(out[c])
  <2>1. h \in Calls /\ agent[h] = "none"
    <3>1. out[c] \in Seq(Calls) /\ out[c] # <<>>
      BY <1>4 DEF WritePump, TypeInv, TypeOK
    <3>2. h = out[c][1] /\ 1 \in DOMAIN out[c] /\ h \in Calls
      BY <3>1, HeadTailProperties
    <3> QED BY <3>2 DEF RequestInv, QueuedNotExecuted
  <2>2. UNCHANGED <<buf, res, held, conn>>
    BY <1>4 DEF WritePump, callVars
  <2>3. \A x \in Calls \ {h} : agent'[x] = agent[x]
    <3>1. agent' = agent \/ agent' = [agent EXCEPT ![h] = "running"]
      BY <1>4 DEF WritePump
    <3> QED BY <2>1, <3>1
  <2> QED BY <2>1, <2>2, <2>3
<1>5. ASSUME NEW c \in Conns, NEW k \in Calls, NEW m \in Msgs, RouteLookup(c, k, m)
      PROVE ReplyInv'
  <2> DEFINE s == subs[ReqOf[k]]
  <2>1. UNCHANGED <<buf, res>> /\ agent[k] = "running"
    BY <1>5 DEF RouteLookup, callVars
  <2>2. agent' = [agent EXCEPT ![k] = IF m = "final" THEN "ended" ELSE @]
    BY <1>5 DEF RouteLookup
  <2>3. \A x \in Calls : agent[x] = "ended" => agent'[x] = "ended"
    BY <2>2
  <2>4. CASE UNCHANGED <<conn, held>>
    BY <2>1, <2>3, <2>4
  <2>5. CASE s # NoCall /\ held' = [held EXCEPT ![c] = [to |-> s, msg |-> m]]
             /\ conn' = [conn EXCEPT ![c] = "routing"]
    <3>1. s = k
      <4>1. ReqOf[k] \in Reqs /\ s \in Calls
        BY <2>5, HubConstants DEF TypeInv, TypeOK
      <4>2. ReqOf[s] = ReqOf[k]
        BY <2>5, <4>1 DEF SubInv, NoLeakedSub
      <4> QED BY <4>1, <4>2, DistinctReqs DEF DistinctReqs
    <3>2. \A d \in Conns \ {c} : held'[d] = held[d] /\ conn'[d] = conn[d]
      BY <2>5
    <3>3. held'[c].to = k /\ held'[c].msg = m
      BY <2>5, <3>1
    <3>4. m = "final" => agent'[k] = "ended"
      BY <2>2
    <3>5. \A d \in Conns : conn'[d] = "routing" /\ held'[d].msg = "final"
                             => agent'[held'[d].to] = "ended"
      <4> SUFFICES ASSUME NEW d \in Conns, conn'[d] = "routing", held'[d].msg = "final"
                   PROVE agent'[held'[d].to] = "ended"
        OBVIOUS
      <4>1. CASE d = c
        BY <3>3, <3>4, <4>1
      <4>2. CASE d # c
        BY <2>3, <3>2, <4>2
      <4> QED BY <4>1, <4>2
    <3> QED BY <2>1, <2>3, <3>5
  <2> QED BY <1>5, <2>4, <2>5 DEF RouteLookup
<1>6. ASSUME NEW c \in Conns, RouteDeliver(c) PROVE ReplyInv'
  <2> DEFINE k == held[c].to
  <2>1. k \in Calls /\ UNCHANGED <<res, agent>> /\ held[c].msg \in Msgs
    BY <1>6 DEF RouteDeliver
  <2>2. \A x \in Calls : \A i \in DOMAIN buf'[x] :
           \/ i \in DOMAIN buf[x] /\ buf'[x][i] = buf[x][i]
           \/ x = k /\ buf'[x][i] = held[c].msg
    <3>1. CASE buf' = buf
      BY <3>1
    <3>2. CASE buf' = [buf EXCEPT ![k] = Append(@, held[c].msg)]
      BY <2>1, <3>2
    <3>3. buf' = buf \/ buf' = [buf EXCEPT ![k] = Append(@, held[c].msg)]
      BY <1>6, <2>1 DEF RouteDeliver
    <3> QED BY <3>1, <3>2, <3>3
  <2>3. \A d \in Conns : conn'[d] = "routing" => conn[d] = "routing" /\ held'[d] = held[d]
    BY <1>6 DEF RouteDeliver
  <2>4. held[c].msg = "final" => agent[k] = "ended"
    BY <1>6 DEF RouteDeliver
  <2> QED BY <2>1, <2>2, <2>3, <2>4
<1>7. ASSUME NEW k \in Calls, AgentDrops(k) PROVE ReplyInv'
  BY <1>7 DEF AgentDrops, callVars, connVars
<1>8. ASSUME ProcessDies PROVE ReplyInv'
  <2>1. /\ UNCHANGED <<res, agent>>
        /\ \A k \in Calls : buf'[k] = <<>>
        /\ \A c \in Conns : conn'[c] # "routing"
    BY <1>8 DEF ProcessDies
  <2> QED BY <2>1
<1>9. ASSUME NEW k \in Calls, Subscribe(k) PROVE ReplyInv'
  BY <1>1, <1>9 DEF Subscribe, connVars
<1>10. ASSUME NEW c \in Conns, Accept(c) \/ SocketDies(c) \/ ReadBeat(c)
       PROVE ReplyInv'
  BY <1>1, <1>10 DEF Accept, SocketDies, ReadBeat, callVars
<1>11. ASSUME NEW c \in Conns, ServeSteps(c) PROVE ReplyInv'
  <2>1. CASE OnConnect(c) \/ CancelClientSubs(c) \/ Unregister(c)
    <3>1. UNCHANGED <<buf, res, agent, held>>
      BY <2>1 DEF OnConnect, CancelClientSubs, Unregister, callVars
    <3>2. \A d \in Conns : conn'[d] = "routing" => conn[d] = "routing"
      BY <2>1 DEF OnConnect, CancelClientSubs, Unregister
    <3> QED BY <1>1, <3>1, <3>2
  <2>2. CASE OnDisconnect(c) \/ ReadFails(c) \/ BeatWrites(c)
    BY <1>1, <2>2 DEF OnDisconnect, ReadFails, BeatWrites, callVars
  <2> QED BY <1>6, <1>8, <1>11, <2>1, <2>2 DEF ServeSteps, RoutePanics
<1>12. CASE UNCHANGED vars
  BY <1>1, <1>12 DEF vars
<1> QED
  BY <1>3, <1>4, <1>5, <1>7, <1>8, <1>9, <1>10, <1>11, <1>12 DEF Next, Kill

(* With distinct envelope IDs a caller that reports a reply got it from an *)
(* agent that executed its own request and finished: route never hands a   *)
(* reply to another caller, and none is invented.                          *)
THEOREM RepliesGenuine ==
  ASSUME DistinctReqs PROVE Spec => []ReplyMeansExecuted
<1>1. Init => SubInv
  BY RegistryInit DEF RegistryInv, SubInv
<1>2. TypeInv /\ SubInv /\ [Next]_vars => SubInv'
  BY SubStep, DistinctReqs
<1>3. TypeInv /\ SubInv /\ RequestInv /\ ReplyInv /\ [Next]_vars => ReplyInv'
  BY ReplyStep, DistinctReqs
<1>4. ReplyInv => ReplyMeansExecuted
  BY DEF ReplyInv
<1> QED BY TypeInit, TypeStep, RequestInit, RequestStep, ReplyInit, <1>1, <1>2, <1>3,
           <1>4, PTL DEF Spec

-----------------------------------------------------------------------------
(* The refinement.                                                         *)

\* The contract starts with idle callers and nothing executed.
LEMMA ContractInit == Init => Rpc!RpcInit
  BY DEF Init, Rpc!RpcInit, callPhase, executedCalls

\* Every step of the hub is a step of the contract, or leaves what the caller
\* and the agents see unchanged.
LEMMA ContractStep ==
  TypeInv /\ RequestInv /\ ReplyInv /\ [Next]_vars => [Rpc!RpcNext]_(Rpc!rpcVars)
<1> SUFFICES ASSUME TypeInv, RequestInv, ReplyInv, [Next]_vars
             PROVE  [Rpc!RpcNext]_(Rpc!rpcVars)
  OBVIOUS
<1>0. /\ pc \in [Calls -> CallStates] /\ res \in [Calls -> Results]
      /\ agent \in [Calls -> {"none", "running", "ended"}]
  BY DEF TypeInv, TypeOK
<1> USE <1>0 DEF CallStates, Results
(* A step that changes neither phase, result nor execution is a stutter.   *)
<1>1. ASSUME \A k \in Calls : callPhase'[k] = callPhase[k], UNCHANGED res,
             executedCalls' = executedCalls
      PROVE [Rpc!RpcNext]_(Rpc!rpcVars)
  <2>1. callPhase' = callPhase
    BY <1>1 DEF callPhase
  <2> QED BY <1>1, <2>1 DEF Rpc!rpcVars
(* A caller that leaves with a result returns it.                          *)
<1>2. ASSUME NEW k \in Calls, NEW r \in Results \ {"none"},
             pc[k] \in {"subscribed", "captured", "waiting"},
             pc' = [pc EXCEPT ![k] = "leaving"], res' = [res EXCEPT ![k] = r],
             UNCHANGED agent,
             r \in {"offline", "slow"} => agent[k] = "none",
             r = "reply" => agent[k] # "none"
      PROVE [Rpc!RpcNext]_(Rpc!rpcVars)
  <2>1. Rpc!Return(k, r)
    <3>1. callPhase[k] = "pending"
      BY <1>2 DEF callPhase
    <3>2. callPhase' = [callPhase EXCEPT ![k] = "returned"]
      BY <1>2 DEF callPhase
    <3>3. executedCalls' = executedCalls
      BY <1>2 DEF executedCalls
    <3>4. k \in executedCalls <=> agent[k] # "none"
      BY DEF executedCalls
    <3> QED BY <1>2, <3>1, <3>2, <3>3, <3>4 DEF Rpc!Return
  <2> QED BY <2>1 DEF Rpc!RpcNext
<1>3. ASSUME NEW k \in Calls, Subscribe(k) PROVE [Rpc!RpcNext]_(Rpc!rpcVars)
  <2>1. Rpc!Invoke(k)
    <3>1. pc[k] = "idle" /\ pc' = [pc EXCEPT ![k] = "subscribed"]
          /\ UNCHANGED <<res, agent>>
      BY <1>3 DEF Subscribe
    <3>2. callPhase[k] = "idle" /\ callPhase' = [callPhase EXCEPT ![k] = "pending"]
      BY <3>1 DEF callPhase
    <3> QED BY <3>1, <3>2 DEF Rpc!Invoke, executedCalls
  <2> QED BY <2>1 DEF Rpc!RpcNext
<1>4. ASSUME NEW k \in Calls, CallSteps(k) PROVE [Rpc!RpcNext]_(Rpc!rpcVars)
  <2>0. UNCHANGED agent
    BY <1>4 DEF CallSteps, SendBind, SendOffline, SendEnqueue, Receive, ReceiveClosed,
         Timeout, Unsubscribe
  <2>1. CASE SendBind(k)
    BY <1>1, <2>0, <2>1 DEF SendBind, callPhase, executedCalls
  <2>2. CASE SendOffline(k)
    <3>1. agent[k] = "none"
      BY <2>2 DEF SendOffline, RequestInv, ExecutedWasSent, Sent
    <3> QED BY <1>2, <2>0, <2>2, <3>1 DEF SendOffline
  <2>3. CASE SendEnqueue(k)
    <3>1. pc[k] = "captured" /\ agent[k] = "none"
      BY <2>3 DEF SendEnqueue, RequestInv, ExecutedWasSent, Sent
    <3>2. CASE pc' = [pc EXCEPT ![k] = "leaving"] /\ res' = [res EXCEPT ![k] = "slow"]
      BY <1>2, <2>0, <3>1, <3>2
    <3>3. CASE pc' = [pc EXCEPT ![k] = "waiting"] /\ res' = res
      BY <1>1, <2>0, <3>1, <3>3 DEF callPhase, executedCalls
    <3> QED BY <2>3, <3>2, <3>3 DEF SendEnqueue
  <2>4. CASE Receive(k)
    <3>1. pc[k] = "waiting" /\ buf[k] # <<>> /\ buf[k] \in Seq(Msgs)
      BY <2>4 DEF Receive, TypeInv, TypeOK
    <3>2. CASE UNCHANGED <<pc, res>>
      BY <1>1, <2>0, <3>2 DEF callPhase, executedCalls
    <3>3. CASE /\ Head(buf[k]) = "final" /\ pc' = [pc EXCEPT ![k] = "leaving"]
               /\ res' = [res EXCEPT ![k] = "reply"]
      <4>1. agent[k] = "ended"
        BY <3>1, <3>3 DEF ReplyInv, FinalMeansEnded
      <4> QED BY <1>2, <2>0, <3>1, <3>3, <4>1
    <3> QED BY <2>4, <3>2, <3>3 DEF Receive
  <2>5. CASE ReceiveClosed(k)
    BY <1>2, <2>0, <2>5 DEF ReceiveClosed
  <2>6. CASE Timeout(k)
    BY <1>2, <2>0, <2>6 DEF Timeout
  <2>7. CASE Unsubscribe(k)
    BY <1>1, <2>0, <2>7 DEF Unsubscribe, callPhase, executedCalls
  <2> QED BY <1>4, <2>1, <2>2, <2>3, <2>4, <2>5, <2>6, <2>7 DEF CallSteps
<1>5. ASSUME NEW c \in Conns, WritePump(c) PROVE [Rpc!RpcNext]_(Rpc!rpcVars)
  <2> DEFINE h == Head(out[c])
  <2>1. UNCHANGED <<pc, res>> /\ callPhase' = callPhase
    BY <1>5 DEF WritePump, callVars, callPhase
  <2>2. CASE UNCHANGED agent
    BY <1>1, <2>1, <2>2 DEF executedCalls
  <2>3. CASE agent' = [agent EXCEPT ![h] = "running"]
    <3>1. h \in Calls /\ agent[h] = "none" /\ Sent(h)
      <4>1. out[c] \in Seq(Calls) /\ out[c] # <<>>
        BY <1>5 DEF WritePump, TypeInv, TypeOK
      <4>2. h = out[c][1] /\ 1 \in DOMAIN out[c] /\ h \in Calls
        BY <4>1, HeadTailProperties
      <4> QED BY <4>2 DEF RequestInv, QueuedNotExecuted
    <3>2. res[h] # "reply"
      BY <3>1 DEF ReplyInv, ReplyMeansExecuted
    <3>3. callPhase[h] # "idle"
      BY <3>1 DEF Sent, callPhase
    <3>4. h \notin executedCalls /\ executedCalls' = executedCalls \union {h}
      BY <2>3, <3>1 DEF executedCalls
    <3>5. Rpc!Execute(h)
      BY <2>1, <3>1, <3>2, <3>3, <3>4 DEF Rpc!Execute, Sent
    <3> QED BY <3>1, <3>5 DEF Rpc!RpcNext
  <2> QED BY <1>5, <2>2, <2>3 DEF WritePump
<1>6. ASSUME NEW k \in Calls, agent[k] = "running", UNCHANGED <<pc, res>>,
             agent' = [agent EXCEPT ![k] = "ended"] \/ agent' = agent
      PROVE [Rpc!RpcNext]_(Rpc!rpcVars)
  <2>1. executedCalls' = executedCalls
    BY <1>6 DEF executedCalls
  <2> QED BY <1>1, <1>6, <2>1 DEF callPhase
<1>7. ASSUME NEW c \in Conns, NEW k \in Calls, NEW m \in Msgs, RouteLookup(c, k, m)
      PROVE [Rpc!RpcNext]_(Rpc!rpcVars)
  <2>1. agent' = [agent EXCEPT ![k] = "ended"] \/ agent' = agent
    BY <1>7 DEF RouteLookup
  <2> QED BY <1>6, <1>7, <2>1 DEF RouteLookup, callVars
<1>8. ASSUME NEW k \in Calls, AgentDrops(k) PROVE [Rpc!RpcNext]_(Rpc!rpcVars)
  BY <1>6, <1>8 DEF AgentDrops, callVars
<1>9. ASSUME ProcessDies PROVE [Rpc!RpcNext]_(Rpc!rpcVars)
  <2>1. UNCHANGED <<res, agent>>
    BY <1>9 DEF ProcessDies
  <2>2. \A k \in Calls : pc'[k] = IF InFlight(k) THEN "lost" ELSE pc[k]
    BY <1>9 DEF ProcessDies
  <2>3. /\ callPhase' \in [Calls -> {"idle", "pending", "returned", "lost"}]
        /\ \A k \in Calls :
             \/ callPhase'[k] = callPhase[k] /\ callPhase[k] # "pending"
             \/ callPhase'[k] = "lost" /\ callPhase[k] \in {"pending", "returned"}
    BY <2>2 DEF callPhase, InFlight
  <2>4. Rpc!Die
    BY <2>1, <2>3 DEF Rpc!Die, executedCalls
  <2> QED BY <2>4 DEF Rpc!RpcNext
<1>10. ASSUME NEW c \in Conns, Accept(c) \/ SocketDies(c) \/ ReadBeat(c)
       PROVE [Rpc!RpcNext]_(Rpc!rpcVars)
  BY <1>1, <1>10 DEF Accept, SocketDies, ReadBeat, callVars, callPhase, executedCalls
<1>11. ASSUME NEW c \in Conns, ServeSteps(c) PROVE [Rpc!RpcNext]_(Rpc!rpcVars)
  <2>1. UNCHANGED <<pc, res, agent>> \/ ProcessDies
    BY <1>11 DEF ServeSteps, OnConnect, CancelClientSubs, Unregister, OnDisconnect,
         ReadFails, BeatWrites, RouteDeliver, RoutePanics, callVars
  <2> QED BY <1>1, <1>9, <2>1 DEF callPhase, executedCalls
<1>12. CASE UNCHANGED vars
  BY <1>1, <1>12 DEF vars, callPhase, executedCalls
<1> QED
  BY <1>3, <1>4, <1>5, <1>7, <1>8, <1>9, <1>10, <1>11, <1>12 DEF Next, Kill

(* The hub implements the RPC contract, for any number of callers and      *)
(* connections, as long as no two callers use one envelope ID.             *)
THEOREM HubImplementsRpc ==
  ASSUME DistinctReqs PROVE Spec => ImplementsRpc
<1>1. Init => SubInv
  BY RegistryInit DEF RegistryInv, SubInv
<1>2. TypeInv /\ SubInv /\ [Next]_vars => SubInv'
  BY SubStep, DistinctReqs
<1>3. TypeInv /\ SubInv /\ RequestInv /\ ReplyInv /\ [Next]_vars => ReplyInv'
  BY ReplyStep, DistinctReqs
<1> QED BY TypeInit, TypeStep, RequestInit, RequestStep, ReplyInit, <1>1, <1>2, <1>3,
           ContractInit, ContractStep, PTL DEF Spec, ImplementsRpc, Rpc!RpcSpec
=============================================================================
