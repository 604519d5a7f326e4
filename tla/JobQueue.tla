------------------------------- MODULE JobQueue -------------------------------
(***************************************************************************)
(* What the durable hook queue promises the client that submits a hook:    *)
(* an accepted event stays what it was when it was accepted, it ends at    *)
(* most once and stays ended, and no more than Capacity events are open.   *)
(* Workers, leases, retries, restarts and retention are not visible here.  *)
(***************************************************************************)
EXTENDS Naturals, FiniteSets

CONSTANTS
    Events,        \* event ids a client may submit
    Payloads,      \* what it may submit under an id
    Capacity,      \* open events the queue accepts
    NoPayload      \* the content of an event that was not accepted

VARIABLES
    outcome,       \* what has become of an event
    content        \* the payload it was accepted with

Init ==
    /\ outcome = [e \in Events |-> "unknown"]
    /\ content = [e \in Events |-> NoPayload]

Open == {e \in Events : outcome[e] = "open"}

Accept(e, p) ==
    /\ outcome[e] = "unknown"
    /\ Cardinality(Open) < Capacity
    /\ outcome' = [outcome EXCEPT ![e] = "open"]
    /\ content' = [content EXCEPT ![e] = p]

End(e, how) ==
    /\ outcome[e] = "open"
    /\ outcome' = [outcome EXCEPT ![e] = how]
    /\ UNCHANGED content

Next == \E e \in Events :
    \/ \E p \in Payloads : Accept(e, p)
    \/ \E how \in {"completed", "failed"} : End(e, how)

Spec == Init /\ [][Next]_<<outcome, content>>
================================================================================
