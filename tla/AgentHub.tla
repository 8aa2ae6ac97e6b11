------------------------------ MODULE AgentHub ------------------------------
(***************************************************************************)
(* The master's agent hub (master/internal/agenthub): the table of agent   *)
(* WebSocket connections, the table of in-flight RPC subscriptions, the    *)
(* ServeAgent goroutine of every connection and the callers of             *)
(* Subscribe / Send / Unsubscribe.  The lifecycle callbacks of agentapi    *)
(* are part of it, because they run outside the hub's mutex and write the  *)
(* node's status in the database.                                          *)
(*                                                                         *)
(* One action is one critical section of h.mu, one channel operation or    *)
(* one database write.  A panic of the Go process (a send on a closed      *)
(* channel) and a kill are both a Crash: memory is lost, the status column *)
(* survives, the agents keep running and reconnect.                        *)
(***************************************************************************)
EXTENDS Naturals, Sequences

CONSTANTS Nodes,      \* node IDs
          Conns,      \* accepted WebSocket connections, each used once
          Calls,      \* RPC callers (goroutines), each runs one request
          Reqs,       \* envelope IDs
          NodeOf,     \* [Conns -> Nodes]: whose agent dialled the connection
          TargetOf,   \* [Calls -> Nodes]: the node the caller addresses
          ReqOf,      \* [Calls -> Reqs]: the envelope ID the caller uses
          Streaming,  \* calls that drain progress until the final reply
          NoConn, NoCall,
          OutCap,     \* capacity of Client.out (64 in the code)
          ChanCap,    \* capacity of a subscription channel (64)
          MaxCrashes  \* bound: how often the master process may die

ASSUME HubConstants ==
    /\ NodeOf \in [Conns -> Nodes]
    /\ TargetOf \in [Calls -> Nodes]
    /\ ReqOf \in [Calls -> Reqs]
    /\ Streaming \subseteq Calls
    /\ NoConn \notin Conns
    /\ NoCall \notin Calls
    /\ OutCap \in Nat \ {0}
    /\ ChanCap \in Nat \ {0}
    /\ MaxCrashes \in Nat

VARIABLES
    clients,    \* Hub.clients: the registered connection of a node
    subs,       \* Hub.subs: the call whose channel an envelope ID routes to
    bound,      \* sub.client of the channel a call created
    conn,       \* program counter of ServeAgent, per connection
    sock,       \* is the connection's socket still open on the master?
    out,        \* Client.out: envelopes (their callers) waiting for writePump
    held,       \* the reply a readPump has looked up but not delivered yet
    pc,         \* program counter of a caller
    via,        \* the client Send captured before it released the mutex
    chan,       \* the channel Subscribe made for a call
    buf,        \* the messages buffered in that channel
    res,        \* what the caller got back
    agent,      \* what the agent did with the call's request
    status,     \* nodes.status in the database
    crashes     \* how often the process died

vars == <<clients, subs, bound, conn, sock, out, held, pc, via, chan, buf,
          res, agent, status, crashes>>
callVars == <<subs, bound, pc, via, chan, buf, res>>
connVars == <<clients, conn, sock, held, status>>

Msgs == {"progress", "final"}
ConnStates == {"new", "accepted", "reading", "beat", "routing", "closing",
               "cancelled", "deleted", "gone"}
CallStates == {"idle", "subscribed", "captured", "waiting", "leaving",
               "done", "lost"}
Results == {"none", "reply", "offline", "slow", "closed", "timeout"}
Nothing == [to |-> NoCall, msg |-> "final"]

\* ServeAgent is still inside readPump, so its writePump runs too.
Pumping(c) == conn[c] \in {"reading", "beat", "routing"}
\* The goroutine has registered the connection and not reached its delete.
Serving(c) == Pumping(c) \/ conn[c] \in {"accepted", "closing", "cancelled"}
\* The caller has subscribed and its deferred Unsubscribe has not run.
InFlight(k) == pc[k] \in {"subscribed", "captured", "waiting", "leaving"}

TypeOK ==
    /\ clients \in [Nodes -> Conns \union {NoConn}]
    /\ subs \in [Reqs -> Calls \union {NoCall}]
    /\ bound \in [Calls -> Conns \union {NoConn}]
    /\ conn \in [Conns -> ConnStates]
    /\ sock \in [Conns -> BOOLEAN]
    /\ out \in [Conns -> Seq(Calls)] /\ \A c \in Conns : Len(out[c]) <= OutCap
    /\ held \in [Conns -> [to : Calls \union {NoCall}, msg : Msgs]]
    /\ pc \in [Calls -> CallStates]
    /\ via \in [Calls -> Conns \union {NoConn}]
    /\ chan \in [Calls -> {"none", "open", "closed"}]
    /\ buf \in [Calls -> Seq(Msgs)] /\ \A k \in Calls : Len(buf[k]) <= ChanCap
    /\ res \in [Calls -> Results]
    /\ agent \in [Calls -> {"none", "running", "ended"}]
    /\ status \in [Nodes -> {"unknown", "online", "offline"}]
    /\ crashes \in Nat

Init ==
    /\ clients = [n \in Nodes |-> NoConn]
    /\ subs = [r \in Reqs |-> NoCall]
    /\ bound = [k \in Calls |-> NoConn]
    /\ conn = [c \in Conns |-> "new"]
    /\ sock = [c \in Conns |-> FALSE]
    /\ out = [c \in Conns |-> <<>>]
    /\ held = [c \in Conns |-> Nothing]
    /\ pc = [k \in Calls |-> "idle"]
    /\ via = [k \in Calls |-> NoConn]
    /\ chan = [k \in Calls |-> "none"]
    /\ buf = [k \in Calls |-> <<>>]
    /\ res = [k \in Calls |-> "none"]
    /\ agent = [k \in Calls |-> "none"]
    /\ status = [n \in Nodes |-> "unknown"]
    /\ crashes = 0

-----------------------------------------------------------------------------
(* Faulty variants of the actions below, each a bug the code could have.   *)
(* No specification uses them: they show that the properties notice.       *)

\* Client.send without its default case, on a buffer that grows.
SendEnqueueUnbounded(k) ==
    /\ pc[k] = "captured"
    /\ pc' = [pc EXCEPT ![k] = "waiting"]
    /\ out' = [out EXCEPT ![via[k]] = Append(@, k)]
    /\ UNCHANGED <<connVars, subs, bound, via, chan, buf, res, agent, crashes>>

\* ErrSlowConsumer is decided after the envelope has been queued.
SendEnqueueLate(k) ==
    LET full == Len(out[via[k]]) >= OutCap
    IN  /\ pc[k] = "captured"
        /\ pc' = [pc EXCEPT ![k] = "leaving"]
        /\ res' = [res EXCEPT ![k] = "slow"]
        /\ out' = [out EXCEPT ![via[k]] = IF full THEN @ ELSE Append(@, k)]
        /\ UNCHANGED <<connVars, subs, bound, via, chan, buf, agent, crashes>>

\* The offline return comes before the deferred Unsubscribe.
SendOfflineLeaks(k) ==
    /\ pc[k] = "subscribed"
    /\ clients[TargetOf[k]] = NoConn
    /\ pc' = [pc EXCEPT ![k] = "done"]
    /\ res' = [res EXCEPT ![k] = "offline"]
    /\ UNCHANGED <<connVars, subs, bound, out, via, chan, buf, agent, crashes>>

\* A progress message is taken for the reply.
ReceiveFirst(k) ==
    /\ pc[k] = "waiting" /\ buf[k] # <<>>
    /\ buf' = [buf EXCEPT ![k] = Tail(@)]
    /\ pc' = [pc EXCEPT ![k] = "leaving"]
    /\ res' = [res EXCEPT ![k] = "reply"]
    /\ UNCHANGED <<connVars, subs, bound, out, via, chan, agent, crashes>>

\* The zero envelope of a closed channel is taken for the reply.
ReceiveClosedAsReply(k) ==
    /\ pc[k] = "waiting" /\ chan[k] = "closed" /\ buf[k] = <<>>
    /\ pc' = [pc EXCEPT ![k] = "leaving"]
    /\ res' = [res EXCEPT ![k] = "reply"]
    /\ UNCHANGED <<connVars, subs, bound, out, via, chan, buf, agent, crashes>>

\* The caller waits for the hub to cancel it and has no timer of its own.
TimeoutOnlyClosed(k) ==
    /\ pc[k] = "waiting" /\ chan[k] = "closed"
    /\ pc' = [pc EXCEPT ![k] = "leaving"]
    /\ res' = [res EXCEPT ![k] = "timeout"]
    /\ UNCHANGED <<connVars, subs, bound, out, via, chan, buf, agent, crashes>>

\* The teardown does not delete the connection from the table.
UnregisterKeeps(c) ==
    /\ conn[c] = "cancelled"
    /\ conn' = [conn EXCEPT ![c] = IF clients[NodeOf[c]] = c THEN "deleted" ELSE "gone"]
    /\ UNCHANGED <<callVars, clients, sock, out, held, agent, status, crashes>>

\* The teardown of a connection waits until it is the current one.
UnregisterWaits(c) ==
    /\ conn[c] = "cancelled" /\ clients[NodeOf[c]] = c
    /\ clients' = [clients EXCEPT ![NodeOf[c]] = NoConn]
    /\ conn' = [conn EXCEPT ![c] = "deleted"]
    /\ UNCHANGED <<callVars, sock, out, held, agent, status, crashes>>

\* Metrics do not touch the node's status.
BeatSilent(c) ==
    /\ conn[c] = "beat"
    /\ conn' = [conn EXCEPT ![c] = "reading"]
    /\ UNCHANGED <<callVars, clients, sock, out, held, agent, status, crashes>>

-----------------------------------------------------------------------------
(* The callers: Subscribe, Send (two steps: the mutex is released before   *)
(* the envelope is queued), the select of the waiter, Unsubscribe.         *)

Subscribe(k) ==
    /\ pc[k] = "idle"
    /\ pc' = [pc EXCEPT ![k] = "subscribed"]
    /\ chan' = [chan EXCEPT ![k] = "open"]
    /\ subs' = [subs EXCEPT ![ReqOf[k]] = k]
    /\ UNCHANGED <<connVars, bound, out, via, buf, res, agent, crashes>>

\* The sub Send binds is the one registered under env.ID at that moment.
SendBind(k) ==
    LET c == clients[TargetOf[k]]
        s == subs[ReqOf[k]]
    IN  /\ pc[k] = "subscribed"
        /\ c # NoConn
        /\ pc' = [pc EXCEPT ![k] = "captured"]
        /\ via' = [via EXCEPT ![k] = c]
        /\ bound' = [x \in Calls |-> IF x = s THEN c ELSE bound[x]]
        /\ UNCHANGED <<connVars, subs, out, chan, buf, res, agent, crashes>>

SendOffline(k) ==
    /\ pc[k] = "subscribed"
    /\ clients[TargetOf[k]] = NoConn
    /\ pc' = [pc EXCEPT ![k] = "leaving"]
    /\ res' = [res EXCEPT ![k] = "offline"]
    /\ UNCHANGED <<connVars, subs, bound, out, via, chan, buf, agent, crashes>>

\* Client.send never blocks: a full buffer is ErrSlowConsumer.
SendEnqueue(k) ==
    LET c == via[k]
        full == Len(out[c]) >= OutCap
    IN  /\ pc[k] = "captured"
        /\ pc' = [pc EXCEPT ![k] = IF full THEN "leaving" ELSE "waiting"]
        /\ res' = [res EXCEPT ![k] = IF full THEN "slow" ELSE @]
        /\ out' = [out EXCEPT ![c] = IF full THEN @ ELSE Append(@, k)]
        /\ UNCHANGED <<connVars, subs, bound, via, chan, buf, agent, crashes>>

Receive(k) ==
    /\ pc[k] = "waiting"
    /\ buf[k] # <<>>
    /\ buf' = [buf EXCEPT ![k] = Tail(@)]
    /\ \/ /\ Head(buf[k]) = "progress"
          /\ UNCHANGED <<pc, res>>
       \/ /\ Head(buf[k]) = "final"
          /\ pc' = [pc EXCEPT ![k] = "leaving"]
          /\ res' = [res EXCEPT ![k] = "reply"]
    /\ UNCHANGED <<connVars, subs, bound, out, via, chan, agent, crashes>>

\* A closed channel is reported only once its buffer is drained.
ReceiveClosed(k) ==
    /\ pc[k] = "waiting"
    /\ chan[k] = "closed" /\ buf[k] = <<>>
    /\ pc' = [pc EXCEPT ![k] = "leaving"]
    /\ res' = [res EXCEPT ![k] = "closed"]
    /\ UNCHANGED <<connVars, subs, bound, out, via, chan, buf, agent, crashes>>

Timeout(k) ==
    /\ pc[k] = "waiting"
    /\ pc' = [pc EXCEPT ![k] = "leaving"]
    /\ res' = [res EXCEPT ![k] = "timeout"]
    /\ UNCHANGED <<connVars, subs, bound, out, via, chan, buf, agent, crashes>>

\* Unsubscribe removes whatever sub the ID names now, and closes its channel.
Unsubscribe(k) ==
    LET s == subs[ReqOf[k]]
    IN  /\ pc[k] = "leaving"
        /\ pc' = [pc EXCEPT ![k] = "done"]
        /\ subs' = [subs EXCEPT ![ReqOf[k]] = NoCall]
        /\ chan' = [x \in Calls |-> IF x = s THEN "closed" ELSE chan[x]]
        /\ UNCHANGED <<connVars, bound, out, via, buf, res, agent, crashes>>

-----------------------------------------------------------------------------
(* ServeAgent, the goroutine of one connection.                            *)

\* Replaces and closes the previous connection inside one critical section.
Accept(c) ==
    LET n == NodeOf[c]
        prev == clients[n]
    IN  /\ conn[c] = "new"
        /\ conn' = [conn EXCEPT ![c] = "accepted"]
        /\ sock' = [x \in Conns |-> IF x = c THEN TRUE
                                    ELSE sock[x] /\ x # prev]
        /\ clients' = [clients EXCEPT ![n] = c]
        /\ UNCHANGED <<callVars, out, held, agent, status, crashes>>

\* agentapi's OnConnect: NodeHeartbeat writes status = 'online'.
OnConnect(c) ==
    /\ conn[c] = "accepted"
    /\ conn' = [conn EXCEPT ![c] = "reading"]
    /\ status' = [status EXCEPT ![NodeOf[c]] = "online"]
    /\ UNCHANGED <<callVars, clients, sock, out, held, agent, crashes>>

\* readPump returned, done is closed: cancel every sub bound to c.
CancelClientSubs(c) ==
    LET doomed == {k \in Calls : bound[k] = c /\ subs[ReqOf[k]] = k}
    IN  /\ conn[c] = "closing"
        /\ conn' = [conn EXCEPT ![c] = "cancelled"]
        /\ chan' = [k \in Calls |-> IF k \in doomed THEN "closed" ELSE chan[k]]
        /\ subs' = [r \in Reqs |-> IF subs[r] \in doomed THEN NoCall ELSE subs[r]]
        /\ UNCHANGED <<clients, bound, sock, out, held, pc, via, buf, res,
                       agent, status, crashes>>

\* Only the current connection is deleted, and only it calls OnDisconnect.
Unregister(c) ==
    LET n == NodeOf[c]
    IN  /\ conn[c] = "cancelled"
        /\ \/ /\ clients[n] = c
              /\ clients' = [clients EXCEPT ![n] = NoConn]
              /\ conn' = [conn EXCEPT ![c] = "deleted"]
           \/ /\ clients[n] # c
              /\ conn' = [conn EXCEPT ![c] = "gone"]
              /\ UNCHANGED clients
        /\ UNCHANGED <<callVars, sock, out, held, agent, status, crashes>>

OnDisconnect(c) ==
    /\ conn[c] = "deleted"
    /\ conn' = [conn EXCEPT ![c] = "gone"]
    /\ status' = [status EXCEPT ![NodeOf[c]] = "offline"]
    /\ UNCHANGED <<callVars, clients, sock, out, held, agent, crashes>>

\* The network or the agent drops the connection; the pong deadline passes.
SocketDies(c) ==
    /\ sock[c]
    /\ sock' = [sock EXCEPT ![c] = FALSE]
    /\ UNCHANGED <<callVars, clients, conn, out, held, agent, status, crashes>>

\* writePump: the write reaches the agent, vanishes in a half-open socket,
\* or fails and closes the connection.
WritePump(c) ==
    /\ Pumping(c)
    /\ out[c] # <<>>
    /\ out' = [out EXCEPT ![c] = Tail(@)]
    /\ \/ /\ sock[c]
          /\ agent' = [agent EXCEPT ![Head(out[c])] = "running"]
          /\ UNCHANGED sock
       \/ UNCHANGED <<agent, sock>>
       \/ /\ sock[c]
          /\ sock' = [sock EXCEPT ![c] = FALSE]
          /\ UNCHANGED agent
    /\ UNCHANGED <<callVars, clients, conn, held, status, crashes>>

ReadFails(c) ==
    /\ conn[c] = "reading" /\ ~sock[c]
    /\ conn' = [conn EXCEPT ![c] = "closing"]
    /\ UNCHANGED <<callVars, clients, sock, out, held, agent, status, crashes>>

\* A hello, metrics or containers message: readPump runs the handler inline,
\* and the handler (a GeoIP lookup, the single database connection) is slow.
ReadBeat(c) ==
    /\ conn[c] = "reading" /\ sock[c]
    /\ conn' = [conn EXCEPT ![c] = "beat"]
    /\ UNCHANGED <<callVars, clients, sock, out, held, agent, status, crashes>>

BeatWrites(c) ==
    /\ conn[c] = "beat"
    /\ conn' = [conn EXCEPT ![c] = "reading"]
    /\ status' = [status EXCEPT ![NodeOf[c]] = "online"]
    /\ UNCHANGED <<callVars, clients, sock, out, held, agent, crashes>>

\* A reply of the agent arrives on c and route looks up its subscription.
RouteLookup(c, k, m) ==
    LET s == subs[ReqOf[k]]
    IN  /\ conn[c] = "reading" /\ sock[c]
        /\ agent[k] = "running" /\ TargetOf[k] = NodeOf[c]
        /\ m = "progress" => k \in Streaming
        /\ agent' = [agent EXCEPT ![k] = IF m = "final" THEN "ended" ELSE @]
        /\ \/ /\ s # NoCall
              /\ conn' = [conn EXCEPT ![c] = "routing"]
              /\ held' = [held EXCEPT ![c] = [to |-> s, msg |-> m]]
           \/ /\ s = NoCall
              /\ UNCHANGED <<conn, held>>
        /\ UNCHANGED <<callVars, clients, sock, out, status, crashes>>

\* The select of route, without the mutex: deliver, or drop when full.
RouteDeliver(c) ==
    LET k == held[c].to
    IN  /\ conn[c] = "routing"
        /\ chan[k] = "open"
        /\ conn' = [conn EXCEPT ![c] = "reading"]
        /\ held' = [held EXCEPT ![c] = Nothing]
        /\ buf' = [buf EXCEPT ![k] = IF Len(@) < ChanCap
                                     THEN Append(@, held[c].msg) ELSE @]
        /\ UNCHANGED <<clients, subs, bound, sock, out, pc, via, chan, res,
                       agent, status, crashes>>

-----------------------------------------------------------------------------
(* The agent and the process.                                              *)

\* The agent restarts, or sendEnv drops the reply while disconnected.
AgentDrops(k) ==
    /\ agent[k] = "running"
    /\ agent' = [agent EXCEPT ![k] = "ended"]
    /\ UNCHANGED <<callVars, connVars, out, crashes>>

\* Everything the process held in memory is gone, the database is not.
ProcessDies ==
    /\ crashes' = crashes + 1
    /\ clients' = [n \in Nodes |-> NoConn]
    /\ subs' = [r \in Reqs |-> NoCall]
    /\ bound' = [k \in Calls |-> NoConn]
    /\ via' = [k \in Calls |-> NoConn]
    /\ conn' = [c \in Conns |-> IF conn[c] = "new" THEN "new" ELSE "gone"]
    /\ sock' = [c \in Conns |-> FALSE]
    /\ out' = [c \in Conns |-> <<>>]
    /\ held' = [c \in Conns |-> Nothing]
    /\ pc' = [k \in Calls |-> IF InFlight(k) THEN "lost" ELSE pc[k]]
    /\ chan' = [k \in Calls |-> IF chan[k] = "open" THEN "closed" ELSE chan[k]]
    /\ buf' = [k \in Calls |-> <<>>]
    /\ UNCHANGED <<res, agent, status>>

Kill == crashes < MaxCrashes /\ ProcessDies

\* The channel route looked up was closed before its select: Go panics on a
\* send to a closed channel, in a goroutine nobody recovers.
RoutePanics(c) ==
    /\ conn[c] = "routing"
    /\ chan[held[c].to] = "closed"
    /\ ProcessDies

CallSteps(k) ==
    \/ SendBind(k) \/ SendOffline(k) \/ SendEnqueue(k)
    \/ Receive(k) \/ ReceiveClosed(k) \/ Timeout(k) \/ Unsubscribe(k)
ServeSteps(c) ==
    \/ OnConnect(c) \/ CancelClientSubs(c) \/ Unregister(c) \/ OnDisconnect(c)
    \/ ReadFails(c) \/ BeatWrites(c) \/ RouteDeliver(c) \/ RoutePanics(c)

Next ==
    \/ \E k \in Calls : Subscribe(k) \/ CallSteps(k) \/ AgentDrops(k)
    \/ \E c \in Conns :
          \/ Accept(c) \/ ServeSteps(c) \/ SocketDies(c)
          \/ WritePump(c) \/ ReadBeat(c)
          \/ \E k \in Calls, m \in Msgs : RouteLookup(c, k, m)
    \/ Kill

Spec == Init /\ [][Next]_vars

\* Goroutines run, a caller's timer covers its whole wait (progress does not
\* restart it) and fires, an agent on an open socket keeps reporting
\* metrics and TCP delivers them in order.  Nothing is assumed of the
\* network, of new calls, of reconnects or of the agent's replies.
Fairness ==
    /\ \A k \in Calls : WF_vars(CallSteps(k)) /\ WF_vars(Timeout(k))
    /\ \A c \in Conns : WF_vars(ServeSteps(c)) /\ SF_vars(ReadBeat(c))

LiveSpec == Spec /\ Fairness

-----------------------------------------------------------------------------
(* Safety.                                                                 *)

\* The condition on the callers under which the hub keeps its promises.
DistinctReqs == \A k, l \in Calls : ReqOf[k] = ReqOf[l] => k = l

\* A node is never Online through a connection whose ServeAgent has passed
\* its delete, and the table never holds another node's connection.
RegisteredServes ==
    \A n \in Nodes : clients[n] # NoConn =>
        NodeOf[clients[n]] = n /\ Serving(clients[n])

\* A socket that is open is the registered connection of its node: the late
\* teardown of a replaced connection never unregisters its replacement, and a
\* replaced connection never stays open beside it.
OpenIsRegistered ==
    \A c \in Conns : sock[c] => clients[NodeOf[c]] = c

\* ServeAgent keeps the table and the sockets in step through replacements,
\* late teardowns and crashes.
RegistrationConsistent == RegisteredServes /\ OpenIsRegistered

\* No subscription outlives its caller, and a registered one has an open
\* channel.
NoLeakedSub ==
    \A r \in Reqs : subs[r] # NoCall =>
        ReqOf[subs[r]] = r /\ InFlight(subs[r]) /\ chan[subs[r]] = "open"

\* A waiter whose channel is open is registered: a reply can reach it and a
\* disconnect can cancel it.  Holds when callers use distinct envelope IDs.
NeverDeaf ==
    \A k \in Calls : InFlight(k) /\ chan[k] = "open" => subs[ReqOf[k]] = k

\* Subscribe, Send's error paths, Unsubscribe and cancelClientSubs keep the
\* waiters and the subscriptions in step.
SubscriptionsConsistent == NoLeakedSub /\ NeverDeaf

\* A request whose Send failed is never executed by an agent.
FailedSendNotExecuted ==
    \A k \in Calls :
        res[k] \in {"offline", "slow"} =>
            agent[k] = "none" /\ \A c \in Conns : \A i \in DOMAIN out[c] : out[c][i] # k

\* A caller that reports a reply got it from an agent that executed its own
\* request and finished.
ReplyMeansExecuted ==
    \A k \in Calls : res[k] = "reply" => agent[k] = "ended"

(* What the comments on sub (hub.go:26-28) and cancelClientSubs say: when  *)
(* the connection a request was sent on has died, its waiter's channel is  *)
(* closed, so that it does not sit until its timeout.                      *)
DeadConnectionCancels ==
    \A k \in Calls, c \in Conns :
        pc[k] = "waiting" /\ bound[k] = c /\ conn[c] \in {"deleted", "gone"}
            => chan[k] = "closed"

(* What route says (hub.go:115-119): a reply nobody takes is dropped, so   *)
(* that the read pump goes on.  It can only be dropped while the channel   *)
(* it was looked up for has not been closed.                               *)
RoutedChannelOpen ==
    \A c \in Conns : conn[c] = "routing" => chan[held[c].to] = "open"

-----------------------------------------------------------------------------
(* Liveness.                                                               *)

\* Every request comes back to its caller, whatever happens to the network.
EveryCallReturns ==
    \A k \in Calls : (pc[k] # "idle") ~> (pc[k] \in {"done", "lost"})

\* A dead connection is always torn down completely, callbacks included.
DeadConnectionsEnd ==
    \A c \in Conns : (conn[c] # "new" /\ ~sock[c]) ~> (conn[c] = "gone")

\* Whatever status a late OnDisconnect of a replaced connection wrote, a node
\* whose connection stays open ends up online in the database.
ConnectedShownOnline ==
    \A c \in Conns : (<>[]sock[c]) => <>[](status[NodeOf[c]] = "online")

(* What NodeHeartbeat's comment says (nodes.go:143-145): status stays      *)
(* accurate after reconnects and stale closes.                             *)
DisconnectedShownOffline ==
    \A n \in Nodes :
        <>[](clients[n] = NoConn /\ status[n] # "unknown")
            => <>[](status[n] = "offline")

-----------------------------------------------------------------------------
(* The hub implements the RPC contract its callers rely on.                *)

callPhase == [k \in Calls |->
    CASE pc[k] = "idle" -> "idle"
      [] pc[k] \in {"subscribed", "captured", "waiting"} -> "pending"
      [] pc[k] \in {"leaving", "done"} -> "returned"
      [] pc[k] = "lost" -> "lost"]
executedCalls == {k \in Calls : agent[k] # "none"}

Rpc == INSTANCE RpcContract
         WITH phase <- callPhase, result <- res, executed <- executedCalls

\* Every step of the hub is a step of the contract or a stutter.
ImplementsRpc == Rpc!RpcSpec
=============================================================================
