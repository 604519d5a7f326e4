------------------------------ MODULE EventQueue ------------------------------
(***************************************************************************)
(* What the transactional outbox promises its producers, with no leases,   *)
(* workers, clocks or retries: an appended event stays open until it is    *)
(* done or given up as dead, a dead event may be revived by an operator,   *)
(* and an open event does not stay open for ever.                          *)
(***************************************************************************)

CONSTANT Events                \* the rows that may ever be appended

VARIABLE queue                 \* what each row is to its producer

EventStates == {"absent", "open", "done", "dead"}

Init == queue = [e \in Events |-> "absent"]

\* A producer's transaction commits its events.
Enqueue(S) ==
    /\ \A e \in S : queue[e] = "absent"
    /\ queue' = [e \in Events |-> IF e \in S THEN "open" ELSE queue[e]]

\* The consumer has applied the event, once and for all.
Finish(e) ==
    /\ queue[e] = "open"
    /\ queue' = [queue EXCEPT ![e] = "done"]

\* The consumer has used up its attempts.
Bury(e) ==
    /\ queue[e] = "open"
    /\ queue' = [queue EXCEPT ![e] = "dead"]

\* An operator, or the automatic recovery pass, reopens dead events.
Revive(S) ==
    /\ S # {}
    /\ \A e \in S : queue[e] = "dead"
    /\ queue' = [e \in Events |-> IF e \in S THEN "open" ELSE queue[e]]

Next ==
    \/ \E e \in Events : Finish(e) \/ Bury(e)
    \/ \E S \in SUBSET Events : Enqueue(S) \/ Revive(S)

Spec ==
    /\ Init
    /\ [][Next]_queue
    /\ \A e \in Events : WF_queue(Finish(e) \/ Bury(e))
================================================================================
