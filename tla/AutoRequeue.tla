------------------------------ MODULE AutoRequeue ------------------------------
(***************************************************************************)
(* The automatic recovery of dead letters: AutoRequeueController.run_pass, *)
(* which runs in a thread of the projection worker process.                *)
(*                                                                         *)
(* A pass reads its counters from a JSON file, selects the dead letters    *)
(* with a transient error that it has requeued fewer than AutoLimit times, *)
(* backs the database up, requeues them in one transaction, and only then  *)
(* writes the counters back.  The process may die between any two of these *)
(* steps, and an operator may requeue the same rows meanwhile.  A state    *)
(* file that is missing or cannot be read counts as an empty one.          *)
(***************************************************************************)
EXTENDS MemoryOutbox

CONSTANTS
    Enabled,       \* BHM_PROJECTION_AUTO_REQUEUE
    AutoLimit      \* AUTO_REQUEUE_LIMIT

ASSUME AutoRequeueAssumption == Enabled \in BOOLEAN /\ AutoLimit \in Nat

VARIABLES
    error,         \* last_error of a failed row, as transient_reason sees it
    counts,        \* the state file: automatic requeues of a row
    rested,        \* the interval since the last recorded pass is over
    healthy,       \* what _qdrant_healthy would find
    pass,          \* where the recovery thread of a process is
    known,         \* the counters it has read
    selected,      \* the rows it is about to requeue
    \* history
    requeues,      \* automatic requeues of a row
    revivals,      \* requeues of a row, whoever did it
    witnessed,     \* the revivals a pass had seen when it selected
    lost,          \* passes that requeued rows and were never recorded
    blind          \* passes that found no readable state file

fileVars    == <<counts, rested>>
threadVars  == <<pass, known, selected, witnessed>>
historyVars == <<requeues, revivals, lost, blind>>
recoveryVars == <<error, fileVars, healthy, threadVars, historyVars>>
autoVars == <<recoveryVars, outboxVars>>

Zero == [e \in Events |-> 0]

AutoInit ==
    /\ OutboxInit
    /\ error     = [e \in Events |-> "none"]
    /\ counts    = Zero
    /\ rested    = TRUE
    /\ healthy   = TRUE
    /\ pass      = [w \in Workers |-> "idle"]
    /\ known     = [w \in Workers |-> Zero]
    /\ selected  = [w \in Workers |-> {}]
    /\ requeues  = Zero
    /\ revivals  = Zero
    /\ witnessed = [w \in Workers |-> Zero]
    /\ lost      = 0
    /\ blind     = 0

--------------------------------------------------------------------------------
\* Planted bugs: a limit that is one off, either way, and an ignored error.
EligibleOnceMore(w, e) ==
    status[e] = "dead_letter" /\ error[e] = "transient" /\ known[w][e] <= AutoLimit
EligibleOnceLess(w, e) ==
    status[e] = "dead_letter" /\ error[e] = "transient" /\ known[w][e] + 1 < AutoLimit
EligibleAnyError(w, e) == status[e] = "dead_letter" /\ known[w][e] < AutoLimit

Eligible(w, e) ==
    status[e] = "dead_letter" /\ error[e] = "transient" /\ known[w][e] < AutoLimit

\* The thread has nothing left to do until the next interval.
ThreadRests(w) ==
    /\ pass' = [pass EXCEPT ![w] = "idle"]
    /\ known' = [known EXCEPT ![w] = Zero]
    /\ selected' = [selected EXCEPT ![w] = {}]
    /\ witnessed' = [witnessed EXCEPT ![w] = Zero]

\* A pass begins only while Qdrant answers; otherwise nothing is changed.
Starts(w) ==
    /\ Enabled /\ healthy /\ pass[w] = "idle"
    /\ pass' = [pass EXCEPT ![w] = "select"]

ReadState(w) ==
    /\ Starts(w) /\ rested
    /\ known' = [known EXCEPT ![w] = counts]
    /\ UNCHANGED <<error, fileVars, healthy, selected, witnessed, historyVars, outboxVars>>

\* The state file is missing, unreadable or malformed: no event counts as
\* requeued and no pass as recorded, so the interval is over as well.
ReadNothing(w) ==
    /\ Starts(w) /\ SpendFault
    /\ known' = [known EXCEPT ![w] = Zero]
    /\ blind' = blind + 1
    /\ UNCHANGED <<error, fileVars, healthy, selected, witnessed, requeues, revivals, lost,
                   rowVars, workerVars, claims, strikes>>

\* A pass that finds nothing is recorded at once.
SelectRows(w) ==
    LET rows == {e \in Events : Eligible(w, e)}
    IN  /\ pass[w] = "select"
        /\ IF rows = {}
           THEN /\ counts' = known[w] /\ rested' = FALSE
                /\ ThreadRests(w)
           ELSE /\ pass' = [pass EXCEPT ![w] = "requeue"]
                /\ selected' = [selected EXCEPT ![w] = rows]
                /\ witnessed' = [witnessed EXCEPT ![w] = revivals]
                /\ UNCHANGED <<fileVars, known>>
        /\ UNCHANGED <<error, healthy, historyVars, outboxVars>>

\* UPDATE ... WHERE status = 'dead_letter' AND event_id IN (...), which may
\* find fewer rows than were selected.
RequeueRows(w) ==
    LET rows == {e \in selected[w] : status[e] = "dead_letter"}
        Counted(f) == [e \in Events |-> IF e \in rows THEN f[e] + 1 ELSE f[e]]
    IN  /\ pass[w] = "requeue"
        /\ IF rows = {} THEN UNCHANGED outboxVars ELSE ReopenDead(rows) /\ UNCHANGED faults
        /\ pass' = [pass EXCEPT ![w] = "record"]
        /\ requeues' = Counted(requeues)
        /\ revivals' = Counted(revivals)
        /\ UNCHANGED <<error, fileVars, healthy, known, selected, witnessed, lost, blind>>

\* The counters are written back, for every selected row.
RecordPass(w) ==
    /\ pass[w] = "record"
    /\ counts' = [e \in Events |-> known[w][e] + (IF e \in selected[w] THEN 1 ELSE 0)]
    /\ rested' = FALSE
    /\ ThreadRests(w)
    /\ UNCHANGED <<error, healthy, historyVars, outboxVars>>

Unrecorded(w) == lost' = IF pass[w] = "record" THEN lost + 1 ELSE lost

\* A read, the backup, the transaction or the write of the file fails: the loop
\* reports it and tries again later.
AbandonPass(w) ==
    /\ pass[w] # "idle"
    /\ SpendFault
    /\ ThreadRests(w)
    /\ Unrecorded(w)
    /\ UNCHANGED <<error, fileVars, healthy, requeues, revivals, blind,
                   rowVars, workerVars, claims, strikes>>

PassStep(w) == ReadState(w) \/ SelectRows(w) \/ RequeueRows(w) \/ RecordPass(w)

IntervalElapses ==
    /\ ~rested
    /\ rested' = TRUE
    /\ UNCHANGED <<error, counts, healthy, threadVars, historyVars, outboxVars>>

\* Qdrant goes away and comes back, as often as it likes.
QdrantTurns ==
    /\ healthy' = ~healthy
    /\ UNCHANGED <<error, fileVars, threadVars, historyVars, outboxVars>>

--------------------------------------------------------------------------------
\* The worker and the operator, as far as they concern the recovery.
Fail(w, e) ==
    /\ FailOutbox(w, e)
    /\ \E kind \in {"transient", "permanent"} : error' = [error EXCEPT ![e] = kind]
    /\ UNCHANGED <<fileVars, healthy, threadVars, historyVars>>

OperatorRequeues ==
    LET dead == {e \in Events : status[e] = "dead_letter"}
    IN  /\ RequeueDeadLetters(dead)
        /\ revivals' = [e \in Events |-> IF e \in dead THEN revivals[e] + 1 ELSE revivals[e]]
        /\ UNCHANGED <<error, fileVars, healthy, threadVars, requeues, lost, blind>>

ProcessDies(w) ==
    /\ CrashWorker(w)
    /\ ThreadRests(w)
    /\ Unrecorded(w)
    /\ UNCHANGED <<error, fileVars, healthy, requeues, revivals, blind>>

OutboxStep ==
    /\ \/ \E rows \in SUBSET Events : InsertRows(rows)
       \/ \E w \in Workers : ClaimOutbox(w) \/ StartDeferral(w)
       \/ \E w \in Workers, e \in Events :
             AckOutbox(w, e) \/ DeferOutbox(w, e) \/ VerdictRaises(w, e)
       \/ Clock
    /\ UNCHANGED recoveryVars

AutoNext ==
    \/ OutboxStep
    \/ \E w \in Workers, e \in Events : Fail(w, e)
    \/ \E w \in Workers : PassStep(w) \/ ReadNothing(w) \/ AbandonPass(w) \/ ProcessDies(w)
    \/ IntervalElapses
    \/ QdrantTurns
    \/ OperatorRequeues

\* The recovery thread of the sidecar keeps running its passes.  Nothing is
\* assumed of Qdrant.
AutoFairness == WF_autoVars(IntervalElapses) /\ \A w \in Workers : WF_autoVars(PassStep(w))

AutoSpec == AutoInit /\ [][AutoNext]_autoVars /\ AutoFairness

--------------------------------------------------------------------------------
\* Every variable has its type; no counter of the state file passes the limit.
AutoTypeOK ==
    /\ OutboxTypeOK
    /\ error \in [Events -> {"none", "transient", "permanent"}]
    /\ counts \in [Events -> 0..AutoLimit]
    /\ rested \in BOOLEAN
    /\ healthy \in BOOLEAN
    /\ pass \in [Workers -> {"idle", "select", "requeue", "record"}]
    /\ known \in [Workers -> [Events -> 0..AutoLimit]]
    /\ selected \in [Workers -> SUBSET Events]
    /\ requeues \in [Events -> Nat]
    /\ revivals \in [Events -> Nat]
    /\ witnessed \in [Workers -> [Events -> Nat]]
    /\ lost \in Nat
    /\ blind \in Nat

\* With one sidecar, an event is requeued automatically at most AutoLimit times
\* for each time the state file began empty, and once more for each pass that
\* was cut off before its counters were written (_read_state, run_pass).
RequeuesBounded == \A e \in Events : requeues[e] <= AutoLimit * (1 + blind) + lost

\* An event is requeued automatically at most AutoLimit times
\* (docs/ops/projection-drift-runbook.md, section 2).
RequeuedAtMostLimit == \A e \in Events : requeues[e] <= AutoLimit

\* A dead letter with a permanent error stays where it is, however long the
\* pass has been under way, unless someone else requeued it since the pass
\* selected it (transient_reason).
PermanentErrorsStay ==
    [][\A w \in Workers : \A e \in selected[w] :
          /\ RequeueRows(w) /\ status[e] = "dead_letter"
          /\ revivals[e] = witnessed[w][e]
          => error[e] = "transient"]_autoVars

\* While Qdrant is healthy, a dead letter with a transient error does not stay
\* dead before the state file has counted its AutoLimit requeues: neither
\* crashes nor failed backups nor lost files stop the recovery for good
\* (docs/ops/projection-drift-runbook.md, section 2).
TransientErrorsRecover ==
    \A e \in Events :
        Enabled /\ status[e] = "dead_letter" /\ error[e] = "transient"
            ~> status[e] # "dead_letter" \/ counts[e] = AutoLimit \/ ~healthy
================================================================================
