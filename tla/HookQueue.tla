------------------------------ MODULE HookQueue ------------------------------
(***************************************************************************)
(* The durable queue of editor hooks (HookJobQueue, the tables hook_jobs   *)
(* and hook_job_tombstones), the worker tasks that lease its jobs and the  *)
(* service process they live in.                                           *)
(*                                                                         *)
(* Time is abstracted to two facts about a job: its available_at has come  *)
(* (due), and its lease_expires_at has passed (lapsed).  A worker serves   *)
(* one kind, and the kind fixes the priority, so that the jobs a worker    *)
(* may claim are served in the order of their insertion.  An id is never   *)
(* accepted twice, so its number is also the sequence of its row.          *)
(***************************************************************************)
EXTENDS Naturals, FiniteSets

CONSTANTS
    Events,        \* scoped event ids, numbered as they are first accepted
    Payloads,      \* what may be submitted under an id
    Workers,       \* worker tasks of the service
    KindOf,        \* the kind of a payload: compact or idle
    Serves,        \* the kind a worker claims
    Capacity,      \* open jobs the queue accepts
    MaxAttempts,   \* max_attempts of a job
    MaxFaults      \* bound: failed jobs, busy writes, late renewals, stops, crashes

ASSUME HookQueueAssumption ==
    /\ Events \subseteq Nat
    /\ Capacity \in Nat \ {0}
    /\ MaxAttempts \in Nat \ {0}
    /\ MaxFaults \in Nat

CONSTANT None      \* no worker, no event, no payload
ASSUME NoneAssumption == None \notin Events \cup Workers \cup Payloads

VARIABLES
    \* the tables
    status,        \* status of the hook_jobs row, absent when there is none
    grave,         \* final_status of the tombstone, absent when there is none
    payload,       \* payload digest kept by the row and then by the tombstone
    attempts,
    owner,         \* lease_owner
    due,
    lapsed,
    \* the service process
    service,       \* up, draining after a stop request, down
    phase,         \* where a worker task is in its loop
    held,          \* the job of that turn
    beat,          \* the heartbeat task of that turn
    \* history and bounds
    failures,      \* failures recorded for a job
    returned,      \* leases of a job that were taken back
    runs,          \* executions of a job that succeeded
    disturbed,     \* jobs whose lease lapsed or whose result was not stored
    faults

tableVars   == <<status, grave, payload, attempts, owner, due, lapsed>>
workerVars  == <<phase, held, beat>>
historyVars == <<failures, returned, runs, disturbed>>
hookVars    == <<tableVars, service, workerVars, historyVars, faults>>

Zero == [e \in Events |-> 0]

HookInit ==
    /\ status    = [e \in Events |-> "absent"]
    /\ grave     = [e \in Events |-> "absent"]
    /\ payload   = [e \in Events |-> None]
    /\ attempts  = Zero
    /\ owner     = [e \in Events |-> None]
    /\ due       = {}
    /\ lapsed    = {}
    /\ service   = "up"
    /\ phase     = [w \in Workers |-> "idle"]
    /\ held      = [w \in Workers |-> None]
    /\ beat      = [w \in Workers |-> "off"]
    /\ failures  = Zero
    /\ returned  = Zero
    /\ runs      = Zero
    /\ disturbed = {}
    /\ faults    = 0

SpendFault == faults < MaxFaults /\ faults' = faults + 1

--------------------------------------------------------------------------------
\* Submissions.

Pending == {e \in Events : status[e] \in {"queued", "processing"}}

\* Planted bug: the tombstones are not consulted.
KnownByRow(e) == status[e] # "absent"

\* An id the queue has seen answers with its status, or with a collision when
\* the payload differs; either way nothing is written.
Known(e) == status[e] # "absent" \/ grave[e] # "absent"

HasRoom == Cardinality(Pending) < Capacity

\* The accepting flag is read before the insert runs in a thread, so that the
\* row may still appear while the service drains.
Enqueue(e, p) ==
    /\ service # "down"
    /\ \A f \in Events : f < e => payload[f] # None
    /\ ~Known(e)
    /\ HasRoom
    /\ status' = [status EXCEPT ![e] = "queued"]
    /\ payload' = [payload EXCEPT ![e] = p]
    /\ attempts' = [attempts EXCEPT ![e] = 0]
    /\ due' = due \cup {e}
    /\ UNCHANGED <<grave, owner, lapsed, service, workerVars, historyVars, faults>>

\* The retry delay of a failed job is over.
ComesDue(e) ==
    /\ status[e] = "queued" /\ e \notin due
    /\ due' = due \cup {e}
    /\ UNCHANGED <<status, grave, payload, attempts, owner, lapsed,
                   service, workerVars, historyVars, faults>>

\* Retention moves ended jobs to the tombstones, in one transaction.
Expire(S) ==
    /\ S # {}
    /\ \A e \in S : status[e] \in {"completed", "failed"}
    /\ status' = [e \in Events |-> IF e \in S THEN "absent" ELSE status[e]]
    /\ grave' = [e \in Events |-> IF e \in S THEN status[e] ELSE grave[e]]
    /\ UNCHANGED <<payload, attempts, owner, due, lapsed, service, workerVars,
                   historyVars, faults>>

--------------------------------------------------------------------------------
\* Leases.

\* Planted bugs: leases are taken back never, or whether or not they lapsed.
TakesBackNone == {}
TakesBackAll == {e \in Events : status[e] = "processing"}

\* Every claim first takes back the lapsed leases, of any kind.
TakesBack == {e \in lapsed : status[e] = "processing"}

Alive(w) == service # "down" /\ phase[w] \notin {"stopped", "dead"}
Working(w) == phase[w] \in {"executing", "completing", "failing"}

\* What the claim of w may take once the lapsed leases are back in the queue.
Claimable(w) ==
    {e \in Events : /\ \/ status[e] = "queued" /\ e \in due
                       \/ e \in TakesBack
                    /\ KindOf[payload[e]] = Serves[w]}

\* Planted bug: a lease that is taken back gives the attempt back too.
AttemptsRefunded(S) == [e \in Events |-> IF e \in S THEN attempts[e] - 1 ELSE attempts[e]]

\* A job whose lease is taken back keeps its attempts.
AttemptsKept(S) == attempts

\* The rows of S go back to the queue; e, unless None, is leased to w.
Lease(S, e, w) ==
    /\ status' = [f \in Events |-> IF f = e THEN "processing"
                                   ELSE IF f \in S THEN "queued" ELSE status[f]]
    /\ owner' = [f \in Events |-> IF f = e THEN w
                                  ELSE IF f \in S THEN None ELSE owner[f]]
    /\ attempts' = [f \in Events |-> AttemptsKept(S)[f] + IF f = e THEN 1 ELSE 0]
    /\ due' = due \cup S
    /\ lapsed' = lapsed \ (S \cup {e})
    /\ returned' = [f \in Events |-> returned[f] + IF f \in S THEN 1 ELSE 0]
    /\ UNCHANGED <<grave, payload, failures, runs>>

Claim(w, e) ==
    /\ service # "down" /\ phase[w] = "idle"
    /\ e \in Claimable(w) /\ \A f \in Claimable(w) : e <= f
    /\ Lease(TakesBack, e, w)
    /\ phase' = [phase EXCEPT ![w] = "executing"]
    /\ held' = [held EXCEPT ![w] = e]
    /\ beat' = [beat EXCEPT ![w] = "on"]
    /\ UNCHANGED <<service, disturbed, faults>>

\* A claim that finds no job; the task ends when it was asked to.
ClaimNothing(w) ==
    /\ service # "down" /\ phase[w] = "idle"
    /\ Claimable(w) = {}
    /\ TakesBack # {} \/ service = "draining"
    /\ Lease(TakesBack, None, w)
    /\ phase' = [phase EXCEPT ![w] = IF service = "draining" THEN "stopped" ELSE "idle"]
    /\ UNCHANGED <<service, held, beat, disturbed, faults>>

\* A claim whose write stays busy ends a task that was asked to stop.
ClaimBusy(w) ==
    /\ service = "draining" /\ phase[w] = "idle"
    /\ SpendFault
    /\ phase' = [phase EXCEPT ![w] = "stopped"]
    /\ UNCHANGED <<tableVars, service, held, beat, historyVars>>

\* Planted bug: any worker that holds the job may write to its row.
OwnsHeld(w) == held[w] # None /\ status[held[w]] = "processing"

\* The condition of renew_lease, complete and fail.
Owns(w) ==
    /\ held[w] # None
    /\ status[held[w]] = "processing"
    /\ owner[held[w]] = w

\* The heartbeat extends the lease, even one that has lapsed meanwhile.  Once
\* the lease is lost it returns, which changes nothing.
Renew(w) ==
    /\ Working(w) /\ beat[w] = "on"
    /\ Owns(w) /\ held[w] \in lapsed
    /\ lapsed' = lapsed \ {held[w]}
    /\ UNCHANGED <<status, grave, payload, attempts, owner, due, service,
                   workerVars, historyVars, faults>>

\* A renewal whose write stays busy ends the heartbeat with an exception.
RenewBusy(w) ==
    /\ Working(w) /\ beat[w] = "on"
    /\ SpendFault
    /\ beat' = [beat EXCEPT ![w] = "raised"]
    /\ UNCHANGED <<tableVars, service, phase, held, historyVars>>

Renewed(e) == \E w \in Workers : held[w] = e /\ owner[e] = w /\ beat[w] = "on"

\* The lease runs out: at once when nobody renews it, else because the
\* renewals come too late.
LapseUnattended(e) ==
    /\ status[e] = "processing" /\ e \notin lapsed /\ ~Renewed(e)
    /\ lapsed' = lapsed \cup {e}
    /\ disturbed' = disturbed \cup {e}
    /\ UNCHANGED <<status, grave, payload, attempts, owner, due, service,
                   workerVars, failures, returned, runs, faults>>

LapseWhileRenewed(e) ==
    /\ status[e] = "processing" /\ e \notin lapsed /\ Renewed(e)
    /\ SpendFault
    /\ lapsed' = lapsed \cup {e}
    /\ disturbed' = disturbed \cup {e}
    /\ UNCHANGED <<status, grave, payload, attempts, owner, due, service,
                   workerVars, failures, returned, runs>>

--------------------------------------------------------------------------------
\* One turn of a worker task.

\* Awaiting the cancelled heartbeat raises the exception it ended with, and the
\* task ends too.  Nothing is awaited between the verdict and the heartbeat.
EndTurn(w) ==
    /\ phase' = [phase EXCEPT ![w] = IF beat[w] = "raised" THEN "dead" ELSE "idle"]
    /\ held' = [held EXCEPT ![w] = None]
    /\ beat' = [beat EXCEPT ![w] = "off"]

Goto(w, next) == phase' = [phase EXCEPT ![w] = next] /\ UNCHANGED <<held, beat>>

ExecuteSucceeds(w) ==
    /\ phase[w] = "executing"
    /\ Goto(w, "completing")
    /\ runs' = [runs EXCEPT ![held[w]] = @ + 1]
    /\ UNCHANGED <<tableVars, service, failures, returned, disturbed, faults>>

ExecuteFails(w) ==
    /\ phase[w] = "executing"
    /\ SpendFault
    /\ Goto(w, "failing")
    /\ UNCHANGED <<tableVars, service, historyVars>>

\* Planted bug: the lease outlives the verdict.
SettleKeepsLease(w, verdict) ==
    /\ status' = [status EXCEPT ![held[w]] = verdict]
    /\ UNCHANGED <<owner, lapsed, grave, payload, attempts>>

\* The end of the lease that w owns.
Settle(w, verdict) ==
    /\ status' = [status EXCEPT ![held[w]] = verdict]
    /\ owner' = [owner EXCEPT ![held[w]] = None]
    /\ lapsed' = lapsed \ {held[w]}
    /\ UNCHANGED <<grave, payload, attempts>>

Complete(w) ==
    /\ phase[w] = "completing" /\ Owns(w)
    /\ Settle(w, "completed")
    /\ EndTurn(w)
    /\ UNCHANGED <<due, service, historyVars, faults>>

\* The lease is lost: the exception is handled as a failure of the job.
CompleteLeaseLost(w) ==
    /\ phase[w] = "completing" /\ ~Owns(w)
    /\ Goto(w, "failing")
    /\ UNCHANGED <<tableVars, service, historyVars, faults>>

\* The result is too large, or the write stays busy: a failure of the job too.
CompleteRaises(w) ==
    /\ phase[w] = "completing"
    /\ SpendFault
    /\ Goto(w, "failing")
    /\ disturbed' = disturbed \cup {held[w]}
    /\ UNCHANGED <<tableVars, service, failures, returned, runs>>

\* Planted bug: one attempt less than the job has.
RetriesOneShort(e) == attempts[e] + 1 < MaxAttempts

Retries(e) == attempts[e] < MaxAttempts

Fail(w) ==
    /\ phase[w] = "failing" /\ Owns(w)
    /\ Settle(w, IF Retries(held[w]) THEN "queued" ELSE "failed")
    /\ due' = due \ {held[w]}
    /\ failures' = [failures EXCEPT ![held[w]] = @ + 1]
    /\ EndTurn(w)
    /\ UNCHANGED <<service, returned, runs, disturbed, faults>>

FailLeaseLost(w) ==
    /\ phase[w] = "failing" /\ ~Owns(w)
    /\ EndTurn(w)
    /\ UNCHANGED <<tableVars, service, historyVars, faults>>

\* The failure is not recorded either: the row stays processing.
FailBusy(w) ==
    /\ phase[w] = "failing" /\ Owns(w)
    /\ SpendFault
    /\ EndTurn(w)
    /\ UNCHANGED <<tableVars, service, historyVars>>

--------------------------------------------------------------------------------
\* The service process.

RequestStop ==
    /\ service = "up"
    /\ SpendFault
    /\ service' = "draining"
    /\ UNCHANGED <<tableVars, workerVars, historyVars>>

\* The tasks have ended, the drain timed out and cancelled them, or a dead
\* task made the shutdown raise at once; or the process crashed.
ProcessEnds ==
    /\ service # "down"
    /\ IF service = "up" THEN SpendFault ELSE UNCHANGED faults
    /\ service' = "down"
    /\ phase' = [w \in Workers |-> "stopped"]
    /\ held' = [w \in Workers |-> None]
    /\ beat' = [w \in Workers |-> "off"]
    /\ UNCHANGED <<tableVars, historyVars>>

RecoversAll == {e \in Events : status[e] = "processing"}

\* recover_processing runs before the workers start.
Boot ==
    /\ service = "down"
    /\ Lease(RecoversAll, None, None)
    /\ service' = "up"
    /\ phase' = [w \in Workers |-> "idle"]
    /\ disturbed' = disturbed \cup RecoversAll
    /\ UNCHANGED <<held, beat, faults>>

--------------------------------------------------------------------------------
Turn(w) ==
    \/ \E e \in Events : Claim(w, e)
    \/ ClaimNothing(w)
    \/ ExecuteSucceeds(w)
    \/ Complete(w)
    \/ CompleteLeaseLost(w)
    \/ Fail(w)
    \/ FailLeaseLost(w)

Trouble(w) ==
    \/ ClaimBusy(w)
    \/ RenewBusy(w)
    \/ ExecuteFails(w)
    \/ CompleteRaises(w)
    \/ FailBusy(w)

HookNext ==
    \/ \E e \in Events, p \in Payloads : Enqueue(e, p)
    \/ \E e \in Events : ComesDue(e) \/ LapseUnattended(e) \/ LapseWhileRenewed(e)
    \/ \E S \in SUBSET Events : Expire(S)
    \/ \E w \in Workers : Turn(w) \/ Trouble(w) \/ Renew(w)
    \/ RequestStop
    \/ ProcessEnds
    \/ Boot

HookSpec == HookInit /\ [][HookNext]_hookVars

\* Tasks run and time passes; a stop ends and the service is started again.
HookFairness ==
    /\ \A w \in Workers : WF_hookVars(Turn(w))
    /\ \A e \in Events : WF_hookVars(ComesDue(e)) /\ WF_hookVars(LapseUnattended(e))
    /\ WF_hookVars(service = "draining" /\ ProcessEnds)
    /\ WF_hookVars(Boot)

HookFairSpec == HookSpec /\ HookFairness

--------------------------------------------------------------------------------
HookTypeOK ==
    /\ status \in [Events -> {"absent", "queued", "processing", "completed", "failed"}]
    /\ grave \in [Events -> {"absent", "completed", "failed"}]
    /\ payload \in [Events -> Payloads \cup {None}]
    /\ attempts \in [Events -> Nat]
    /\ owner \in [Events -> Workers \cup {None}]
    /\ due \subseteq Events /\ lapsed \subseteq Events
    /\ service \in {"up", "draining", "down"}
    /\ phase \in [Workers -> {"idle", "executing", "completing", "failing",
                              "stopped", "dead"}]
    /\ held \in [Workers -> Events \cup {None}]
    /\ beat \in [Workers -> {"off", "on", "raised"}]
    /\ failures \in [Events -> Nat] /\ returned \in [Events -> Nat]
    /\ runs \in [Events -> Nat]
    /\ disturbed \subseteq Events
    /\ faults \in 0 .. MaxFaults
    /\ \A w \in Workers : Working(w) <=> held[w] # None
    /\ \A e \in Events : owner[e] # None <=> status[e] = "processing"
    /\ lapsed \subseteq {e \in Events : status[e] = "processing"}

\* Whatever claims, failures, lapses and restarts a job has been through, its
\* attempts are the failures recorded for it and the leases taken back from its
\* workers, and one more while it is leased or once it has been completed.
AttemptsAccounted == \A e \in Events :
    attempts[e] = failures[e] + returned[e]
        + IF status[e] \in {"processing", "completed"} \/ grave[e] = "completed"
          THEN 1 ELSE 0

\* A job is failed for good only after max_attempts claims, and no job fails
\* more often than that, although a lease that is taken back costs an attempt.
AttemptBudget == \A e \in Events :
    /\ failures[e] <= MaxAttempts
    /\ "failed" \in {status[e], grave[e]} => attempts[e] >= MaxAttempts

\* The side effects of a hook happen once: a job whose lease never lapsed and
\* whose result was stored is executed by one worker at a time and succeeds at
\* most once, however often other jobs, stops and retries interleave.
UndisturbedRunsOnce == \A e \in Events \ disturbed :
    /\ runs[e] <= 1
    /\ \A v, w \in Workers : held[v] = e /\ held[w] = e /\ Working(v) /\ Working(w)
           => v = w

\* A verdict belongs to the current lease: a worker that is late with a job
\* another one has claimed since changes nothing.
OnlyHolderSettles == [][
    \A e \in Events :
        status[e] = "processing" /\ status'[e] \in {"completed", "failed"} =>
            /\ held[owner[e]] = e
            /\ phase[owner[e]] \in {"completing", "failing"}
            /\ held'[owner[e]] = None
    ]_hookVars

Ended(e) == "completed" \in {status[e], grave[e]} \/ "failed" \in {status[e], grave[e]}

\* No task that serves the kind of e is left.
Deserted(e) ==
    /\ e \in Pending
    /\ ~ \E w \in Workers : Serves[w] = KindOf[payload[e]] /\ Alive(w)

\* An accepted hook ends, through retries, lost leases and restarts, unless all
\* the workers of its kind are gone: a renewal whose write stays busy takes its
\* worker with it, while the queue goes on accepting.
EveryJobEnds == \A e \in Events : e \in Pending ~> Ended(e) \/ Deserted(e)

\* What a client is told of a job, from its row and its tombstone.
Seen(row, tomb) ==
    IF tomb # "absent" THEN tomb
    ELSE IF row \in {"queued", "processing"} THEN "open"
    ELSE IF row = "absent" THEN "unknown" ELSE row

JobState(e) == Seen(status[e], grave[e])

JQ == INSTANCE JobQueue WITH
    outcome <- [e \in Events |-> JobState(e)],
    content <- [e \in Events |-> payload[e]],
    NoPayload <- None

\* The queue keeps the promises of JobQueue to its clients.
ImplementsJobQueue == JQ!Spec
================================================================================
