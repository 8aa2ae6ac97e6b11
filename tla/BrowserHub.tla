----------------------------- MODULE BrowserHub -----------------------------
(***************************************************************************)
(* The browser hub (master/internal/browserhub): ServeBrowser's read and   *)
(* write pumps for every browser, and Broadcast, which any goroutine of    *)
(* the master may call.  Broadcast copies the table under the read lock    *)
(* and sends after it has released it.  A send on a closed channel panics  *)
(* and ends the process, with everything in it.                            *)
(***************************************************************************)
EXTENDS Naturals

CONSTANTS Browsers,   \* accepted WebSocket connections
          Senders,    \* goroutines that call Broadcast
          SendCap     \* capacity of client.send (128)

ASSUME BrowserConstants == SendCap \in Nat \ {0}

VARIABLES
    clients,  \* Hub.clients
    serve,    \* program counter of ServeBrowser
    writer,   \* is writePump running?
    sock,     \* is the WebSocket open on the master?
    send,     \* client.send: "none", "open" or "closed"
    queued,   \* the messages it buffers
    cast,       \* program counter of a Broadcast
    copy,     \* its copy of the table, as far as it is not served
    up        \* has the process not panicked?

browserVars == <<clients, serve, writer, sock, send, queued, cast, copy, up>>

BrowserTypeOK ==
    /\ clients \subseteq Browsers
    /\ serve \in [Browsers -> {"new", "reading", "leaving", "left", "gone"}]
    /\ writer \in [Browsers -> BOOLEAN]
    /\ sock \in [Browsers -> BOOLEAN]
    /\ send \in [Browsers -> {"none", "open", "closed"}]
    /\ queued \in [Browsers -> 0..SendCap]
    /\ cast \in [Senders -> {"idle", "sending"}]
    /\ copy \in [Senders -> SUBSET Browsers]
    /\ up \in BOOLEAN

BrowserInit ==
    /\ clients = {}
    /\ serve = [b \in Browsers |-> "new"]
    /\ writer = [b \in Browsers |-> FALSE]
    /\ sock = [b \in Browsers |-> FALSE]
    /\ send = [b \in Browsers |-> "none"]
    /\ queued = [b \in Browsers |-> 0]
    /\ cast = [s \in Senders |-> "idle"]
    /\ copy = [s \in Senders |-> {}]
    /\ up = TRUE

-----------------------------------------------------------------------------
(* Faulty variants of the actions below, each a bug the code could have.   *)
(* No specification uses them: they show that the properties notice.       *)

\* The channel is closed before the browser leaves the table.
LeaveClosesFirst(b) ==
    /\ up /\ serve[b] = "leaving"
    /\ serve' = [serve EXCEPT ![b] = "left"]
    /\ send' = [send EXCEPT ![b] = "closed"]
    /\ UNCHANGED <<clients, writer, sock, queued, cast, copy, up>>

\* writePump returns without closing the connection.
WriteFailsOpen(b) ==
    /\ up /\ writer[b]
    /\ writer' = [writer EXCEPT ![b] = FALSE]
    /\ UNCHANGED <<clients, serve, sock, send, queued, cast, copy, up>>

-----------------------------------------------------------------------------
(* ServeBrowser.                                                           *)

Register(b) ==
    /\ up /\ serve[b] = "new"
    /\ serve' = [serve EXCEPT ![b] = "reading"]
    /\ clients' = clients \union {b}
    /\ send' = [send EXCEPT ![b] = "open"]
    /\ sock' = [sock EXCEPT ![b] = TRUE]
    /\ writer' = [writer EXCEPT ![b] = TRUE]
    /\ UNCHANGED <<queued, cast, copy, up>>

\* The browser goes away; the 90 s read deadline ends a half-open connection.
SocketDies(b) ==
    /\ sock[b]
    /\ sock' = [sock EXCEPT ![b] = FALSE]
    /\ UNCHANGED <<clients, serve, writer, send, queued, cast, copy, up>>

\* readPump returns and closes done.
ReadFails(b) ==
    /\ up /\ serve[b] = "reading" /\ ~sock[b]
    /\ serve' = [serve EXCEPT ![b] = "leaving"]
    /\ UNCHANGED <<clients, writer, sock, send, queued, cast, copy, up>>

Leave(b) ==
    /\ up /\ serve[b] = "leaving"
    /\ serve' = [serve EXCEPT ![b] = "left"]
    /\ clients' = clients \ {b}
    /\ UNCHANGED <<writer, sock, send, queued, cast, copy, up>>

CloseSend(b) ==
    /\ up /\ serve[b] = "left"
    /\ serve' = [serve EXCEPT ![b] = "gone"]
    /\ send' = [send EXCEPT ![b] = "closed"]
    /\ UNCHANGED <<clients, writer, sock, queued, cast, copy, up>>

Write(b) ==
    /\ up /\ writer[b] /\ queued[b] > 0
    /\ queued' = [queued EXCEPT ![b] = @ - 1]
    /\ UNCHANGED <<clients, serve, writer, sock, send, cast, copy, up>>

\* A write or a ping fails or passes its deadline, or done or send is closed:
\* the pump returns, and its deferred Close ends the read pump too.
WriteFails(b) ==
    /\ up /\ writer[b]
    /\ writer' = [writer EXCEPT ![b] = FALSE]
    /\ sock' = [sock EXCEPT ![b] = FALSE]
    /\ UNCHANGED <<clients, serve, send, queued, cast, copy, up>>

-----------------------------------------------------------------------------
(* Broadcast.                                                              *)

Copy(s) ==
    /\ up /\ cast[s] = "idle"
    /\ cast' = [cast EXCEPT ![s] = "sending"]
    /\ copy' = [copy EXCEPT ![s] = clients]
    /\ UNCHANGED <<clients, serve, writer, sock, send, queued, up>>

\* A browser whose buffer is full misses the message.
Deliver(s, b) ==
    /\ up /\ cast[s] = "sending" /\ b \in copy[s] /\ send[b] = "open"
    /\ copy' = [copy EXCEPT ![s] = @ \ {b}]
    /\ queued' = [queued EXCEPT ![b] = IF @ < SendCap THEN @ + 1 ELSE @]
    /\ UNCHANGED <<clients, serve, writer, sock, send, cast, up>>

DeliverPanics(s, b) ==
    /\ up /\ cast[s] = "sending" /\ b \in copy[s] /\ send[b] = "closed"
    /\ up' = FALSE
    /\ UNCHANGED <<clients, serve, writer, sock, send, queued, cast, copy>>

BroadcastDone(s) ==
    /\ up /\ cast[s] = "sending" /\ copy[s] = {}
    /\ cast' = [cast EXCEPT ![s] = "idle"]
    /\ UNCHANGED <<clients, serve, writer, sock, send, queued, copy, up>>

ServeSteps(b) == ReadFails(b) \/ Leave(b) \/ CloseSend(b)

BrowserNext ==
    \/ \E b \in Browsers : \/ Register(b) \/ SocketDies(b) \/ ServeSteps(b)
                           \/ Write(b) \/ WriteFails(b)
    \/ \E s \in Senders : \/ Copy(s) \/ BroadcastDone(s)
                          \/ \E b \in Browsers : Deliver(s, b) \/ DeliverPanics(s, b)

BrowserSpec == BrowserInit /\ [][BrowserNext]_browserVars

\* The pumps run; browsers and broadcasters need not.
BrowserFairness == \A b \in Browsers : WF_browserVars(ServeSteps(b))

BrowserLiveSpec == BrowserSpec /\ BrowserFairness

-----------------------------------------------------------------------------
(* Properties.                                                             *)

\* A browser in the table has an open channel: what Broadcast copies could be
\* sent to when it was copied.
RegisteredOpen == \A b \in clients : send[b] = "open"

\* And no buffer outgrows its capacity, however fast others broadcast.
BrowserInv == BrowserTypeOK /\ RegisteredOpen

\* A browser whose write pump has given up is not kept: it leaves the table,
\* unless the process ends first.
WriterlessLeave ==
    \A b \in Browsers : (b \in clients /\ ~writer[b]) ~> (b \notin clients \/ ~up)

(* hub.go:78-83: a browser that cannot take a message has it dropped.  The *)
(* drop needs a channel that is still open when Broadcast comes to it.     *)
SentToOpenOnly ==
    \A s \in Senders, b \in Browsers : b \in copy[s] => send[b] # "closed"
=============================================================================
