----------------------------- MODULE MemoryOutbox -----------------------------
(***************************************************************************)
(* The memory_outbox table and the workers that lease its rows.            *)
(*                                                                         *)
(* Every repository write appends a row in its own transaction; a worker   *)
(* claims a batch of due rows under a lease, handles them in order and     *)
(* acknowledges, fails or defers each one in a transaction of its own.     *)
(* What a worker does with an event between its claim and its verdict is   *)
(* left to the modules that extend this one.                               *)
(*                                                                         *)
(* Rows are numbered in the order of (created_at, event_id), the order in  *)
(* which claim_outbox serves them.  Time is abstracted to two facts about  *)
(* a row: whether its available_at has come (due) and whether its          *)
(* claimed_at is older than the lease (expired).                           *)
(***************************************************************************)
EXTENDS Naturals, FiniteSets

CONSTANTS
    Events,        \* row numbers
    Workers,       \* projection worker processes
    BatchSize,     \* claim limit of a run
    MaxAttempts,   \* attempts after which a failure is terminal
    MaxFaults      \* bound: crashes, outages, lost leases and verdicts, requeues

ASSUME OutboxAssumption ==
    /\ Events \subseteq Nat \ {0}
    /\ BatchSize \in Nat \ {0}
    /\ MaxAttempts \in Nat \ {0}
    /\ MaxFaults \in Nat

NoToken == 0                   \* claim_token IS NULL

Statuses == {"absent", "pending", "processing", "completed", "failed",
             "dead_letter", "pruned"}

VARIABLES
    \* the table
    status,        \* status column; absent before the insert, pruned after the delete
    attempts,      \* attempts column
    token,         \* claim_token column
    fence,         \* the controller generation written into the token
    due,           \* rows whose available_at has come
    expired,       \* processing rows whose claimed_at is older than the lease
    \* the worker processes
    lease,         \* the token a worker still has to settle, per row
    mode,          \* where a worker is in run_once
    epoch,         \* how often a worker process has been restarted
    \* history and bounds
    claims,        \* claims of a row so far: tokens are never reissued
    strikes,       \* failures and lost leases of a row since its last requeue
    faults         \* faults spent, out of MaxFaults

rowVars    == <<status, attempts, token, fence, due, expired>>
workerVars == <<lease, mode, epoch>>
outboxVars == <<rowVars, workerVars, claims, strikes, faults>>

Generations == Workers \X Nat
Generation(w) == <<w, epoch[w]>>

--------------------------------------------------------------------------------
\* The batch in a worker's memory, in the order it was claimed.

Held(w) == {e \in Events : lease[w][e] # NoToken}

IsHead(w, e) == e \in Held(w) /\ \A f \in Held(w) : e <= f

\* The worker is done with e, whatever happened to the row.
LetGo(w, e) ==
    /\ lease' = [lease EXCEPT ![w][e] = NoToken]
    /\ mode' = [mode EXCEPT ![w] = IF Held(w) = {e} THEN "idle" ELSE mode[w]]
    /\ UNCHANGED epoch

\* Planted bug: the lease check forgets the token and the generation.
OwnsAnyLease(w, e) == status[e] = "processing" /\ lease[w][e] # NoToken

\* The lease check of every verdict: the row is still processing under the
\* worker's token, and a fenced token carries the worker's own generation.
Owns(w, e) ==
    /\ status[e] = "processing"
    /\ lease[w][e] # NoToken
    /\ token[e] = lease[w][e]
    /\ fence[e] = Generation(w)

SpendFault == faults < MaxFaults /\ faults' = faults + 1

--------------------------------------------------------------------------------
OutboxInit ==
    /\ status   = [e \in Events |-> "absent"]
    /\ attempts = [e \in Events |-> 0]
    /\ token    = [e \in Events |-> NoToken]
    /\ fence    = [e \in Events |-> <<>>]
    /\ due      = {}
    /\ expired  = {}
    /\ lease    = [w \in Workers |-> [e \in Events |-> NoToken]]
    /\ mode     = [w \in Workers |-> "idle"]
    /\ epoch    = [w \in Workers |-> 0]
    /\ claims   = [e \in Events |-> 0]
    /\ strikes  = [e \in Events |-> 0]
    /\ faults   = 0

FirstOf(S, k) == {e \in S : Cardinality({f \in S : f <= e}) <= k}

FreeRows == {e \in Events : status[e] = "absent"}

\* The inserts of one repository transaction, which take the next row numbers.
InsertRows(rows) ==
    /\ rows = FirstOf(FreeRows, Cardinality(rows))
    /\ status' = [e \in Events |-> IF e \in rows THEN "pending" ELSE status[e]]
    /\ due' = due \cup rows
    /\ UNCHANGED <<attempts, token, fence, expired, workerVars, claims, strikes, faults>>

\* Planted bug: expired leases are left alone.
RequeuedNever == {}

\* claim_outbox first requeues every expired lease, keeping its attempts...
Requeued == {e \in Events : status[e] = "processing" /\ e \in expired}

Claimable == {e \in due : status[e] \in {"pending", "failed"} \/ e \in Requeued}

\* Planted bug: the token is derived from the attempt, which a requeue resets.
AttemptToken(e) == attempts[e] + 1

\* uuid4: no token is ever issued twice.
FreshToken(e) == claims[e] + 1

\* ...then leases the oldest due rows, each under a fresh token.
ClaimOutbox(w) ==
    LET batch == FirstOf(Claimable, BatchSize)
    IN  /\ mode[w] = "idle"
        /\ batch \cup Requeued # {}
        /\ status' = [e \in Events |->
              IF e \in batch THEN "processing"
              ELSE IF e \in Requeued THEN "pending" ELSE status[e]]
        /\ attempts' = [e \in Events |->
              IF e \in batch THEN attempts[e] + 1 ELSE attempts[e]]
        /\ claims' = [e \in Events |->
              IF e \in batch THEN claims[e] + 1 ELSE claims[e]]
        /\ token' = [e \in Events |->
              IF e \in batch THEN FreshToken(e)
              ELSE IF e \in Requeued THEN NoToken ELSE token[e]]
        /\ fence' = [e \in Events |->
              IF e \in batch THEN Generation(w)
              ELSE IF e \in Requeued THEN <<>> ELSE fence[e]]
        /\ strikes' = [e \in Events |->
              IF e \in Requeued THEN strikes[e] + 1 ELSE strikes[e]]
        /\ expired' = expired \ Requeued
        /\ lease' = [lease EXCEPT ![w] =
              [e \in Events |-> IF e \in batch THEN FreshToken(e) ELSE NoToken]]
        /\ mode' = [mode EXCEPT ![w] = IF batch = {} THEN "idle" ELSE "projecting"]
        /\ UNCHANGED <<due, epoch, faults>>

\* Planted bug: the verdict leaves the token in the row.
ReleaseKeepingToken(e) ==
    /\ expired' = expired \ {e}
    /\ UNCHANGED <<token, fence>>

\* The row leaves processing: claimed_at and claim_token become NULL.
Release(e) ==
    /\ token' = [token EXCEPT ![e] = NoToken]
    /\ fence' = [fence EXCEPT ![e] = <<>>]
    /\ expired' = expired \ {e}

AckOutbox(w, e) ==
    /\ mode[w] = "projecting" /\ IsHead(w, e) /\ Owns(w, e)
    /\ status' = [status EXCEPT ![e] = "completed"]
    /\ Release(e)
    /\ LetGo(w, e)
    /\ UNCHANGED <<attempts, due, claims, strikes, faults>>

\* Planted bug: the last attempt is never made.
TerminalEarly(e) == attempts[e] + 1 >= MaxAttempts

Terminal(e) == attempts[e] >= MaxAttempts

\* A failure of the event itself is charged, and the last one is terminal; a
\* retry becomes available only after a delay.
FailOutbox(w, e) ==
    /\ mode[w] = "projecting" /\ IsHead(w, e) /\ Owns(w, e)
    /\ status' = [status EXCEPT ![e] = IF Terminal(e) THEN "dead_letter" ELSE "failed"]
    /\ due' = IF Terminal(e) THEN due ELSE due \ {e}
    /\ strikes' = [strikes EXCEPT ![e] = strikes[e] + 1]
    /\ Release(e)
    /\ LetGo(w, e)
    /\ UNCHANGED <<attempts, claims, faults>>

\* An infrastructure error ends the run: this row and the rest of the batch
\* are given back one by one.
StartDeferral(w) ==
    /\ mode[w] = "projecting"
    /\ SpendFault
    /\ mode' = [mode EXCEPT ![w] = "deferring"]
    /\ UNCHANGED <<rowVars, lease, epoch, claims, strikes>>

\* Planted bugs: giving a row back keeps the charge, or undoes it twice.
StillCharged(n) == n
UnchargedTwice(n) == n - 2

\* Giving a row back undoes the increment of the claim, MAX(attempts - 1, 0).
Uncharged(n) == IF n > 0 THEN n - 1 ELSE 0

DeferOutbox(w, e) ==
    /\ mode[w] = "deferring" /\ IsHead(w, e) /\ Owns(w, e)
    /\ status' = [status EXCEPT ![e] = "pending"]
    /\ attempts' = [attempts EXCEPT ![e] = Uncharged(attempts[e])]
    /\ due' = due \ {e}
    /\ Release(e)
    /\ LetGo(w, e)
    /\ UNCHANGED <<claims, strikes, faults>>

\* Recording the verdict raises, is logged, and the worker moves on to the next
\* row of its batch: OutboxLeaseLost if the row is not its own any more, or a
\* fault of the database, after which the row waits for its lease to elapse.
VerdictRaises(w, e) ==
    /\ mode[w] # "idle" /\ IsHead(w, e)
    /\ IF Owns(w, e) THEN SpendFault ELSE UNCHANGED faults
    /\ LetGo(w, e)
    /\ UNCHANGED <<rowVars, claims, strikes>>

\* The worker process dies and a new one, of a new generation, takes its place.
CrashWorker(w) ==
    /\ SpendFault
    /\ lease' = [lease EXCEPT ![w] = [e \in Events |-> NoToken]]
    /\ mode' = [mode EXCEPT ![w] = "idle"]
    /\ epoch' = [epoch EXCEPT ![w] = epoch[w] + 1]
    /\ UNCHANGED <<rowVars, claims, strikes>>

Orphaned(e) == \A w \in Workers : ~Owns(w, e)

\* claimed_at falls behind the lease.  Under a live worker this is a fault
\* (it was slow or suspended); a row nobody owns gets there for certain.
LeaseElapses(e) ==
    /\ status[e] = "processing" /\ e \notin expired
    /\ IF Orphaned(e) THEN UNCHANGED faults ELSE SpendFault
    /\ expired' = expired \cup {e}
    /\ UNCHANGED <<status, attempts, token, fence, due, workerVars, claims, strikes>>

BackoffElapses(e) ==
    /\ status[e] \in {"pending", "failed"} /\ e \notin due
    /\ due' = due \cup {e}
    /\ UNCHANGED <<status, attempts, token, fence, expired, workerVars, claims, strikes, faults>>

\* Dead letters go back to the queue with their attempts reset.
ReopenDead(S) ==
    /\ S # {} /\ \A e \in S : status[e] = "dead_letter"
    /\ status' = [e \in Events |-> IF e \in S THEN "pending" ELSE status[e]]
    /\ attempts' = [e \in Events |-> IF e \in S THEN 0 ELSE attempts[e]]
    /\ strikes' = [e \in Events |-> IF e \in S THEN 0 ELSE strikes[e]]
    /\ due' = due \cup S
    /\ UNCHANGED <<token, fence, expired, workerVars, claims>>

\* An operator does so with the requeue script.
RequeueDeadLetters(S) == SpendFault /\ ReopenDead(S)

\* Retention deletes completed rows only.
PruneCompleted(e) ==
    /\ status[e] = "completed"
    /\ status' = [status EXCEPT ![e] = "pruned"]
    /\ UNCHANGED <<attempts, token, fence, due, expired, workerVars, claims, strikes, faults>>

--------------------------------------------------------------------------------
Verdict(w) ==
    \E e \in Events : AckOutbox(w, e) \/ FailOutbox(w, e) \/ DeferOutbox(w, e) \/ VerdictRaises(w, e)

Clock == \E e \in Events : LeaseElapses(e) \/ BackoffElapses(e)

Operator ==
    \/ \E S \in SUBSET Events : RequeueDeadLetters(S)
    \/ \E e \in Events : PruneCompleted(e)

OutboxNext ==
    \/ \E rows \in SUBSET Events : InsertRows(rows)
    \/ \E w \in Workers : ClaimOutbox(w) \/ Verdict(w) \/ StartDeferral(w) \/ CrashWorker(w)
    \/ Clock
    \/ Operator

\* The sidecar loop keeps polling and handling what it claimed, a crashed
\* process is restarted by the launcher, and clocks move on.
OutboxFairness ==
    /\ \A w \in Workers : WF_outboxVars(ClaimOutbox(w)) /\ WF_outboxVars(Verdict(w))
    /\ \A e \in Events : /\ WF_outboxVars(LeaseElapses(e) /\ Orphaned(e))
                         /\ WF_outboxVars(BackoffElapses(e))

OutboxSpec == OutboxInit /\ [][OutboxNext]_outboxVars /\ OutboxFairness

--------------------------------------------------------------------------------
\* Every variable has its type: statuses, counters and tokens are in range.
OutboxTypeOK ==
    /\ status \in [Events -> Statuses]
    /\ attempts \in [Events -> Nat]
    /\ token \in [Events -> Nat]
    /\ fence \in [Events -> Generations \cup {<<>>}]
    /\ due \subseteq Events
    /\ expired \subseteq Events
    /\ lease \in [Workers -> [Events -> Nat]]
    /\ mode \in [Workers -> {"idle", "projecting", "deferring"}]
    /\ epoch \in [Workers -> Nat]
    /\ claims \in [Events -> Nat]
    /\ strikes \in [Events -> Nat]
    /\ faults \in Nat

\* A row carries a claim token exactly while it is processing, so that no
\* requeued, settled or deferred row can be settled by a former holder
\* (claim_outbox, ack_outbox, defer_outbox, fail_outbox).
TokenOnlyWhileProcessing ==
    \A e \in Events : (status[e] = "processing") <=> (token[e] # NoToken)

\* At most one worker holds the token of a row, through any sequence of lost
\* leases, restarts and requeues: even without the generation, no two workers
\* pass the lease check (claim_outbox, _assert_outbox_lease_owner).
OneOwner ==
    \A e \in Events : \A v, w \in Workers :
        token[e] # NoToken /\ lease[v][e] = token[e] /\ lease[w][e] = token[e] => v = w

\* The attempts of a row count its own failures and its lost leases since the
\* last requeue, plus the claim in progress or the one that succeeded: outages
\* are never charged (docs/architecture-authority.md, defer_outbox).
AttemptsAreStrikes ==
    \A e \in Events :
        attempts[e] = strikes[e]
            + (IF status[e] \in {"processing", "completed", "pruned"} THEN 1 ELSE 0)

\* A dead letter has used all its attempts, and a row waiting for a retry has
\* one left (fail_outbox).
DeadLettersAreExhausted ==
    \A e \in Events :
        /\ status[e] = "dead_letter" => attempts[e] >= MaxAttempts
        /\ status[e] = "failed" => attempts[e] < MaxAttempts

\* Only the worker that holds the token settles a row: a worker that outlived
\* its lease never completes, fails or defers a row that was claimed again.
OnlyOwnerSettles ==
    [][\A e \in Events :
          /\ status[e] = "processing" /\ status'[e] # "processing" /\ e \notin expired
          => \E w \in Workers : lease[w][e] = token[e] /\ lease'[w][e] = NoToken]_outboxVars

--------------------------------------------------------------------------------
\* The queue the producers see, for the refinement of EventQueue.
QueueState(e) ==
    CASE status[e] = "absent" -> "absent"
      [] status[e] \in {"pending", "processing", "failed"} -> "open"
      [] status[e] \in {"completed", "pruned"} -> "done"
      [] status[e] = "dead_letter" -> "dead"

Abstract == INSTANCE EventQueue WITH queue <- [e \in Events |-> QueueState(e)]

\* The leased table is an EventQueue: nothing is lost, nothing completed comes
\* back, and every open event is eventually done or dead.
ImplementsEventQueue == Abstract!Spec
================================================================================
