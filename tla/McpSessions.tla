----------------------------- MODULE McpSessions -----------------------------
(***************************************************************************)
(* Admission of MCP sessions over streamable HTTP: the slots and the FIFO  *)
(* of HttpMcpSessionRegistry, driven by the requests that the ASGI handler *)
(* runs concurrently and by the snapshots other threads take.              *)
(*                                                                         *)
(* Every method of the registry runs under one lock, so it is one step and *)
(* is written as a function from a registry to the next one.  An           *)
(* initialize request takes a ticket; tickets are numbered by sequence,    *)
(* and the session that the SDK creates for a ticket has its number.  Time *)
(* is abstracted to the entries whose idle period is over; they stay until *)
(* a method that purges comes along.                                       *)
(***************************************************************************)
EXTENDS Naturals, Sequences, FiniteSets

CONSTANTS
    Tickets,       \* initialize requests, and the sessions they create
    MaxSessions    \* max_sessions

ASSUME McpAssumption ==
    /\ Tickets \subseteq Nat /\ IsFiniteSet(Tickets)
    /\ MaxSessions \in Nat \ {0}

VARIABLES
    reg,           \* the registry: slot per session, ticket, queue, reserved
    expired,       \* entries whose expires_at_monotonic has passed
    request,       \* where the handler of an initialize request is
    sdk,           \* sessions the SDK serves, and those it has dropped
    calls          \* sessions with other requests being handled

mcpVars == <<reg, expired, request, sdk, calls>>

McpInit ==
    /\ reg = [slot     |-> [s \in Tickets |-> "absent"],
              ticket   |-> [t \in Tickets |-> "none"],
              queue    |-> <<>>,
              reserved |-> 0]
    /\ expired = {}
    /\ request = [t \in Tickets |-> "new"]
    /\ sdk     = [s \in Tickets |-> "none"]
    /\ calls   = {}

--------------------------------------------------------------------------------
\* The methods of the registry.

HeldIn(r) == {s \in Tickets : r.slot[s] = "held"}

Active(r) == Cardinality(HeldIn(r)) + r.reserved

Full(r) == Active(r) >= MaxSessions

\* How many waiters the free slots admit.
Admits(r) ==
    IF Full(r) THEN 0
    ELSE IF Len(r.queue) <= MaxSessions - Active(r) THEN Len(r.queue)
    ELSE MaxSessions - Active(r)

\* Planted bugs: the last waiter is admitted first; nobody is admitted.
WakeLast(r) ==
    IF Full(r) \/ r.queue = <<>> THEN r
    ELSE LET n == Len(r.queue)
         IN  [r EXCEPT !.ticket   = [@ EXCEPT ![r.queue[n]] = "admitted"],
                       !.queue    = SubSeq(r.queue, 1, n - 1),
                       !.reserved = @ + 1]
WakeNobody(r) == r

\* _wake_next_locked: the first waiters reserve the free slots.
Wake(r) ==
    LET k     == Admits(r)
        woken == {r.queue[i] : i \in 1 .. k}
    IN  [r EXCEPT !.ticket   = [t \in Tickets |-> IF t \in woken THEN "admitted"
                                                  ELSE r.ticket[t]],
                  !.queue    = SubSeq(r.queue, k + 1, Len(r.queue)),
                  !.reserved = @ + k]

Drop(r, S) == [r EXCEPT !.slot = [s \in Tickets |-> IF s \in S THEN "absent" ELSE r.slot[s]]]

\* Planted bug: nobody is woken.
PurgeSilently(r) == Drop(r, expired)

\* _purge: removing expired entries admits waiters.
Purge(r) == IF expired = {} THEN r ELSE Wake(Drop(r, expired))

\* deque.remove.
Without(q, t) ==
    IF \E i \in DOMAIN q : q[i] = t
    THEN LET i == CHOOSE i \in DOMAIN q : q[i] = t
         IN  SubSeq(q, 1, i - 1) \o SubSeq(q, i + 1, Len(q))
    ELSE q

\* Planted bugs: a reservation is given back that the ticket does not have; it
\* is kept; only waiters are cancelled.
CancelFreesAnyway(r, t) ==
    IF r.ticket[t] \notin {"queued", "admitted"} THEN r
    ELSE Wake([r EXCEPT !.ticket   = [@ EXCEPT ![t] = "cancelled"],
                        !.queue    = Without(@, t),
                        !.reserved = @ - 1])
CancelKeepsReservation(r, t) ==
    IF r.ticket[t] \notin {"queued", "admitted"} THEN r
    ELSE Wake([r EXCEPT !.ticket = [@ EXCEPT ![t] = "cancelled"],
                        !.queue  = Without(@, t)])
CancelWaitersOnly(r, t) ==
    IF r.ticket[t] # "queued" THEN r
    ELSE Wake([r EXCEPT !.ticket = [@ EXCEPT ![t] = "cancelled"],
                        !.queue  = Without(@, t)])

\* A ticket leaves the queue or gives its reservation back.
Withdraw(r, t) ==
    [r EXCEPT !.ticket   = [@ EXCEPT ![t] = "cancelled"],
              !.queue    = Without(@, t),
              !.reserved = @ - (IF r.ticket[t] = "admitted" THEN 1 ELSE 0)]

\* cancel_initialize_slot: a ticket that is settled is left alone.
Cancel(r, t) ==
    IF r.ticket[t] \in {"queued", "admitted"} THEN Wake(Withdraw(r, t)) ELSE r

\* acquire_initialize_slot, once it has purged.
Take(r, t) ==
    IF r.queue = <<>> /\ ~Full(r)
    THEN [r EXCEPT !.ticket = [@ EXCEPT ![t] = "admitted"], !.reserved = @ + 1]
    ELSE [r EXCEPT !.ticket = [@ EXCEPT ![t] = "queued"], !.queue = Append(@, t)]

\* register, once it has purged: the reservation becomes the slot, unless a
\* tool call has already recorded the session.
Commit(r, t) ==
    IF r.slot[t] # "absent" THEN Cancel(r, t)
    ELSE IF r.ticket[t] # "admitted" THEN r
    ELSE [r EXCEPT !.ticket   = [@ EXCEPT ![t] = "committed"],
                   !.slot     = [@ EXCEPT ![t] = "held"],
                   !.reserved = @ - 1]

\* Planted bug: a session takes its slot back whether or not one is free.
RetakesAlways(r, s) == TRUE

\* A session without a slot takes one only when one is free.
Retakes(r, s) == r.slot[s] = "held" \/ ~Full(r)

Hold(r, s) == [r EXCEPT !.slot = [@ EXCEPT ![s] = "held"]]

--------------------------------------------------------------------------------
\* initialize requests.

\* The guard on earlier tickets only says that sequence numbers are handed out
\* in the order of these steps.
Acquire(t) ==
    /\ request[t] = "new"
    /\ \A u \in Tickets : u < t => request[u] # "new"
    /\ reg' = Take(Purge(reg), t)
    /\ expired' = {}
    /\ request' = [request EXCEPT ![t] = IF reg'.ticket[t] = "admitted"
                                         THEN "serving" ELSE "waiting"]
    /\ UNCHANGED <<sdk, calls>>

\* The waiter's event is set: some time later its task continues.
Resume(t) ==
    /\ request[t] = "waiting" /\ reg.ticket[t] = "admitted"
    /\ request' = [request EXCEPT ![t] = "serving"]
    /\ UNCHANGED <<reg, expired, sdk, calls>>

\* The wait times out, or the client disconnects; the ticket may have been
\* admitted meanwhile.
GiveUp(t) ==
    /\ request[t] = "waiting"
    /\ reg' = Cancel(reg, t)
    /\ request' = [request EXCEPT ![t] = "refused"]
    /\ UNCHANGED <<expired, sdk, calls>>

\* The SDK creates the session, and the client has its id before the handler
\* that sent it goes on.
Respond(t) ==
    /\ request[t] = "serving"
    /\ request' = [request EXCEPT ![t] = "responded"]
    /\ sdk' = [sdk EXCEPT ![t] = "live"]
    /\ UNCHANGED <<reg, expired, calls>>

Register(t) ==
    /\ request[t] = "responded"
    /\ reg' = Commit(Purge(reg), t)
    /\ expired' = {}
    /\ request' = [request EXCEPT ![t] = "done"]
    /\ UNCHANGED <<sdk, calls>>

\* The SDK refuses the request or raises, before or after it has created the
\* session.
InitializeFails(t) ==
    /\ request[t] \in {"serving", "responded"}
    /\ reg' = Cancel(reg, t)
    /\ request' = [request EXCEPT ![t] = "refused"]
    /\ UNCHANGED <<expired, sdk, calls>>

--------------------------------------------------------------------------------
\* Requests of a session.  The SDK looks the session up first, and the registry
\* hears of the request later, as often as it has several in flight.

BeginCall(s) ==
    /\ sdk[s] = "live" /\ s \notin calls
    /\ calls' = calls \cup {s}
    /\ UNCHANGED <<reg, expired, request, sdk>>

EndCall(s) ==
    /\ s \in calls
    /\ calls' = calls \ {s}
    /\ UNCHANGED <<reg, expired, request, sdk>>

\* confirm_validated_tool_call: a session without an entry gets a new one.
ConfirmToolCall(s) ==
    LET r == Purge(reg)
    IN  /\ s \in calls
        /\ expired' = {}
        /\ reg' = IF Retakes(r, s) THEN Hold(r, s) ELSE r
        /\ UNCHANGED <<request, sdk, calls>>

\* touch, after a successful request; of a tool call it records nothing.
Touch(s) ==
    LET r == Purge(reg)
    IN  /\ s \in calls
        /\ expired' = {}
        /\ \E tool \in BOOLEAN :
              reg' = IF ~tool /\ r.slot[s] # "absent" /\ Retakes(r, s) THEN Hold(r, s) ELSE r
        /\ UNCHANGED <<request, sdk, calls>>

\* mark_transport_loss: the entry stays, its slot goes.
LoseTransport(s) ==
    LET r == Purge(reg)
    IN  /\ s \in calls
        /\ expired' = {}
        /\ reg' = IF r.slot[s] = "absent" THEN r
                  ELSE Wake([r EXCEPT !.slot = [@ EXCEPT ![s] = "lost"]])
        /\ UNCHANGED <<request, sdk, calls>>

\* The SDK ends a session, on DELETE or with a broken transport.
SdkDrops(s) ==
    /\ sdk[s] = "live"
    /\ sdk' = [sdk EXCEPT ![s] = "gone"]
    /\ UNCHANGED <<reg, expired, request, calls>>

\* release, when the DELETE returns or a later request is answered with 404.
\* It wakes the next waiter and purges nothing.
Release(s) ==
    /\ sdk[s] = "gone"
    /\ reg' = Wake(Drop(reg, {s}))
    /\ expired' = expired \ {s}
    /\ UNCHANGED <<request, sdk, calls>>

\* The idle period of an entry is over: nothing happens yet.
GoesIdle(s) ==
    /\ reg.slot[s] # "absent" /\ s \notin expired
    /\ expired' = expired \cup {s}
    /\ UNCHANGED <<reg, request, sdk, calls>>

\* snapshot, from a health request in another thread.
Snapshot ==
    /\ expired # {}
    /\ reg' = Purge(reg)
    /\ expired' = {}
    /\ UNCHANGED <<request, sdk, calls>>

--------------------------------------------------------------------------------
Handler(t) == Resume(t) \/ GiveUp(t) \/ Respond(t) \/ Register(t) \/ InitializeFails(t)

SessionStep(s) ==
    \/ BeginCall(s)
    \/ EndCall(s)
    \/ ConfirmToolCall(s)
    \/ Touch(s)
    \/ LoseTransport(s)
    \/ SdkDrops(s)
    \/ Release(s)
    \/ GoesIdle(s)

McpNext ==
    \/ \E t \in Tickets : Acquire(t) \/ Handler(t) \/ SessionStep(t)
    \/ Snapshot

McpSpec == McpInit /\ [][McpNext]_mcpVars

\* The loop runs every task, a wait ends with its event or its timeout, and the
\* SDK answers or raises.
McpFairness == \A t \in Tickets : WF_mcpVars(Handler(t))

McpFairSpec == McpSpec /\ McpFairness

--------------------------------------------------------------------------------
McpTypeOK ==
    /\ reg \in [slot     : [Tickets -> {"absent", "held", "lost"}],
                ticket   : [Tickets -> {"none", "queued", "admitted", "committed",
                                        "cancelled"}],
                queue    : Seq(Tickets),
                reserved : Nat]
    /\ expired \subseteq {s \in Tickets : reg.slot[s] # "absent"}
    /\ request \in [Tickets -> {"new", "waiting", "serving", "responded", "done", "refused"}]
    /\ sdk \in [Tickets -> {"none", "live", "gone"}]
    /\ calls \subseteq {s \in Tickets : sdk[s] # "none"}

Admitted == {t \in Tickets : reg.ticket[t] = "admitted"}

\* No path of a ticket, nor any race of its timeout with its admission, leaks or
\* frees a reservation twice or loses a place: the counter is the number of
\* admitted tickets, each of which a handler still answers for, and the queue
\* holds the waiting tickets, each once, in the order they came.
TicketsAccounted ==
    /\ reg.reserved = Cardinality(Admitted)
    /\ \A t \in Admitted : request[t] \in {"waiting", "serving", "responded"}
    /\ \A i, j \in DOMAIN reg.queue : i < j => reg.queue[i] < reg.queue[j]
    /\ {reg.queue[i] : i \in DOMAIN reg.queue} =
           {t \in Tickets : reg.ticket[t] = "queued"}
    /\ \A t \in Tickets : reg.ticket[t] = "queued" => request[t] = "waiting"

\* Held slots and reservations together stay within the limit, whatever calls
\* come back to a session that has lost its slot.
SlotBound == Active(reg) <= MaxSessions

\* Nobody waits while a slot is free.
WaitersMeanFull == reg.queue # <<>> => Active(reg) = MaxSessions

\* docs/usage.md: waiting clients are admitted in FIFO order.  No later ticket
\* is admitted past an earlier one.
AdmittedInOrder == [][
    \A t, u \in Tickets :
        /\ t < u /\ reg.ticket[t] = "queued"
        /\ reg.ticket[u] # "admitted" /\ reg'.ticket[u] = "admitted"
        => reg'.ticket[t] # "queued"
    ]_mcpVars

\* Nor does a session take a slot past a waiting client: it comes from the
\* session's own reservation, or nobody is left waiting.
SlotsNotSnatched == [][
    \A s \in Tickets :
        reg.slot[s] # "held" /\ reg'.slot[s] = "held" =>
            reg.ticket[s] = "admitted" \/ reg'.queue = <<>>
    ]_mcpVars

\* Every initialize request that took a ticket is answered and leaves neither a
\* place in the queue nor a reservation behind.
EveryTicketSettles == \A t \in Tickets :
    reg.ticket[t] \in {"queued", "admitted"} ~> reg.ticket[t] \in {"committed", "cancelled"}
================================================================================
