---------------------------- MODULE RpcContract ----------------------------
(***************************************************************************)
(* What the agent hub promises to the callers of Subscribe, Send and       *)
(* Unsubscribe: a request is executed at most once, a reply is only        *)
(* returned for a request the agent executed, and a request whose Send     *)
(* failed was not and never will be executed.  "closed" (the agent         *)
(* disconnected) and "timeout" promise nothing about execution.            *)
(***************************************************************************)
CONSTANTS Calls

VARIABLES phase,     \* "idle", "pending", "returned" or "lost"
          result,    \* what the caller got
          executed   \* the calls whose request an agent has executed

rpcVars == <<phase, result, executed>>

RpcInit ==
    /\ phase = [k \in Calls |-> "idle"]
    /\ result = [k \in Calls |-> "none"]
    /\ executed = {}

Invoke(k) ==
    /\ phase[k] = "idle"
    /\ phase' = [phase EXCEPT ![k] = "pending"]
    /\ UNCHANGED <<result, executed>>

\* Late executions, after a timeout or a disconnect, are allowed.
Execute(k) ==
    /\ k \notin executed
    /\ phase[k] # "idle"
    /\ result[k] \notin {"offline", "slow", "reply"}
    /\ executed' = executed \union {k}
    /\ UNCHANGED <<phase, result>>

Return(k, r) ==
    /\ phase[k] = "pending"
    /\ r \in {"offline", "slow", "reply", "closed", "timeout"}
    /\ r \in {"offline", "slow"} => k \notin executed
    /\ r = "reply" => k \in executed
    /\ phase' = [phase EXCEPT ![k] = "returned"]
    /\ result' = [result EXCEPT ![k] = r]
    /\ UNCHANGED executed

\* The process dies: every caller that had not returned goes with it.  One
\* that already has its result may die before it uses it.
Die ==
    /\ phase' \in [Calls -> {"idle", "pending", "returned", "lost"}]
    /\ \A k \in Calls :
          \/ phase'[k] = phase[k] /\ phase[k] # "pending"
          \/ phase'[k] = "lost" /\ phase[k] \in {"pending", "returned"}
    /\ UNCHANGED <<result, executed>>

RpcNext == \/ \E k \in Calls : Invoke(k) \/ Execute(k)
           \/ \E k \in Calls, r \in {"offline", "slow", "reply", "closed", "timeout"} : Return(k, r)
           \/ Die

RpcSpec == RpcInit /\ [][RpcNext]_rpcVars
=============================================================================
