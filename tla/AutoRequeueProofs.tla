--------------------------- MODULE AutoRequeueProofs ---------------------------
(***************************************************************************)
(* What holds of the automatic recovery for any number of rows, any limit  *)
(* and any behaviour of the worker and the operator.  With any number of   *)
(* sidecars the outbox keeps its invariant and is still the queue of       *)
(* EventQueue, and a pass revives no dead letter whose error is permanent. *)
(* With a single one, an event is requeued at most AutoLimit times for     *)
(* each time the state file began empty, plus once per pass cut off.       *)
(***************************************************************************)
EXTENDS AutoRequeue, MemoryOutboxProofs

--------------------------------------------------------------------------------
(* Any number of sidecars: the outbox under the recovery. *)

\* What the recovery adds to the steps of the outbox: dead letters that it
\* reopens itself, and a fault that only ends a pass.
OutboxMoves ==
    \/ [OutboxNext]_outboxVars
    \/ \E S \in SUBSET Events : ReopenDead(S) /\ UNCHANGED faults
    \/ SpendFault /\ UNCHANGED <<rowVars, workerVars, claims, strikes>>

LEMMA AutoMoves ==
    ASSUME selected \in [Workers -> SUBSET Events], [AutoNext]_autoVars
    PROVE  OutboxMoves
<1>1. ASSUME OutboxStep PROVE OutboxNext
  BY <1>1 DEF OutboxStep, OutboxNext, Verdict
<1>2. ASSUME NEW w \in Workers, NEW e \in Events, Fail(w, e) PROVE OutboxNext
  BY <1>2 DEF Fail, OutboxNext, Verdict
<1>3. ASSUME NEW w \in Workers, PassStep(w) PROVE OutboxMoves
  <2>1. CASE ReadState(w) \/ SelectRows(w) \/ RecordPass(w)
    BY <2>1 DEF ReadState, SelectRows, RecordPass, OutboxMoves
  <2>2. CASE RequeueRows(w)
    <3> DEFINE rows == {e \in selected[w] : status[e] = "dead_letter"}
    <3>1. UNCHANGED outboxVars \/ (ReopenDead(rows) /\ UNCHANGED faults)
      BY <2>2 DEF RequeueRows
    <3>2. rows \in SUBSET Events
      OBVIOUS
    <3> HIDE DEF rows
    <3> QED BY <3>1, <3>2 DEF OutboxMoves
  <2> QED BY <1>3, <2>1, <2>2 DEF PassStep
<1>4. ASSUME NEW w \in Workers, ReadNothing(w) \/ AbandonPass(w) PROVE OutboxMoves
  BY <1>4 DEF ReadNothing, AbandonPass, OutboxMoves
<1>5. ASSUME NEW w \in Workers, ProcessDies(w) PROVE OutboxNext
  BY <1>5 DEF ProcessDies, OutboxNext
<1>6. ASSUME OperatorRequeues PROVE OutboxNext
  <2>1. PICK S \in SUBSET Events : RequeueDeadLetters(S)
    BY <1>6 DEF OperatorRequeues
  <2> QED BY <2>1 DEF OutboxNext, Operator
<1>7. IntervalElapses \/ QdrantTurns \/ UNCHANGED autoVars => UNCHANGED outboxVars
  BY DEF IntervalElapses, QdrantTurns, autoVars
<1> QED BY <1>1, <1>2, <1>3, <1>4, <1>5, <1>6, <1>7 DEF AutoNext, OutboxMoves

LEMMA MovesInv ==
    ASSUME Inv, OutboxMoves
    PROVE  Inv'
<1>1. faults \in Nat
  BY DEF Inv, OutboxTypeOK
<1>2. ASSUME NEW S \in SUBSET Events, ReopenDead(S), UNCHANGED faults PROVE Inv'
  BY <1>1, <1>2, ReopenInv
<1>3. ASSUME SpendFault, UNCHANGED <<rowVars, workerVars, claims, strikes>> PROVE Inv'
  BY <1>1, <1>3 DEF SpendFault, rowVars, workerVars, Inv, OutboxTypeOK, TokenOnlyWhileProcessing,
     TokensIssued, LeasesDistinct, AttemptsAreStrikes, DeadLettersAreExhausted
<1> QED BY <1>2, <1>3, NextInv DEF OutboxMoves

LEMMA MovesRefine ==
    ASSUME OutboxTypeOK, OutboxMoves
    PROVE  Abstract!Next \/ Queue' = Queue
<1>1. ASSUME NEW S \in SUBSET Events, ReopenDead(S) PROVE Abstract!Next
  BY <1>1, ReopenRefines
<1>2. UNCHANGED rowVars => Queue' = Queue
  BY DEF rowVars, Queue, QueueState
<1> QED BY <1>1, <1>2, NextRefines DEF OutboxMoves

--------------------------------------------------------------------------------
(* Any number of sidecars: what a pass has in its hands. *)

RecoveryTypes ==
    /\ error \in [Events -> {"none", "transient", "permanent"}]
    /\ counts \in [Events -> 0..AutoLimit]
    /\ rested \in BOOLEAN
    /\ healthy \in BOOLEAN
    /\ pass \in [Workers -> {"idle", "select", "requeue", "record"}]
    /\ known \in [Workers -> [Events -> 0..AutoLimit]]
    /\ selected \in [Workers -> SUBSET Events]
    /\ requeues \in [Events -> Nat]
    /\ revivals \in [Events -> Nat]
    /\ witnessed \in [Workers -> [Events -> Nat]]
    /\ lost \in Nat
    /\ blind \in Nat

\* What a pass has selected, it may still count.
SelectedBelowLimit ==
    \A w \in Workers : pass[w] # "idle" => \A e \in selected[w] : known[w][e] < AutoLimit

\* A thread at rest has selected nothing.
IdleSelectsNothing ==
    \A w \in Workers : pass[w] \in {"idle", "select"} => selected[w] = {}

\* A row that a pass has selected is still the dead letter with the transient
\* error it was then, or somebody has revived it since.
SelectedStayTransient ==
    \A w \in Workers : pass[w] = "requeue" => \A e \in selected[w] :
        /\ witnessed[w][e] <= revivals[e]
        /\ witnessed[w][e] = revivals[e] =>
              status[e] = "dead_letter" /\ error[e] = "transient"

PassInv ==
    /\ Inv /\ RecoveryTypes
    /\ SelectedBelowLimit /\ IdleSelectsNothing /\ SelectedStayTransient

LEMMA InitPassInv == AutoInit => PassInv
<1> SUFFICES ASSUME AutoInit PROVE PassInv
  OBVIOUS
<1>1. Inv
  BY InitInv DEF AutoInit
<1>2. RecoveryTypes
  BY AutoRequeueAssumption DEF AutoInit, RecoveryTypes, Zero
<1>3. SelectedBelowLimit /\ IdleSelectsNothing /\ SelectedStayTransient
  BY DEF AutoInit, SelectedBelowLimit, IdleSelectsNothing, SelectedStayTransient
<1> QED BY <1>1, <1>2, <1>3 DEF PassInv

\* A thread that rests holds nothing.
LEMMA RestKeepsThreads ==
    ASSUME RecoveryTypes, SelectedBelowLimit, IdleSelectsNothing, NEW w \in Workers, ThreadRests(w)
    PROVE  /\ pass' \in [Workers -> {"idle", "select", "requeue", "record"}]
           /\ known' \in [Workers -> [Events -> 0..AutoLimit]]
           /\ selected' \in [Workers -> SUBSET Events]
           /\ witnessed' \in [Workers -> [Events -> Nat]]
           /\ SelectedBelowLimit' /\ IdleSelectsNothing'
<1>1. Zero \in [Events -> 0..AutoLimit] /\ Zero \in [Events -> Nat]
  BY AutoRequeueAssumption DEF Zero
<1>2. /\ pass' \in [Workers -> {"idle", "select", "requeue", "record"}]
      /\ known' \in [Workers -> [Events -> 0..AutoLimit]]
      /\ selected' \in [Workers -> SUBSET Events]
      /\ witnessed' \in [Workers -> [Events -> Nat]]
  BY <1>1 DEF RecoveryTypes, ThreadRests
<1>3. /\ pass'[w] = "idle" /\ selected'[w] = {}
      /\ \A v \in Workers \ {w} :
            pass'[v] = pass[v] /\ known'[v] = known[v] /\ selected'[v] = selected[v]
  BY DEF RecoveryTypes, ThreadRests
<1>4. SelectedBelowLimit' /\ IdleSelectsNothing'
  BY <1>3 DEF SelectedBelowLimit, IdleSelectsNothing
<1> QED BY <1>2, <1>4

\* A step that leaves the threads and the file alone.
LEMMA ThreadsUntouched ==
    ASSUME RecoveryTypes, SelectedBelowLimit, IdleSelectsNothing,
           UNCHANGED <<counts, threadVars>>, rested' \in BOOLEAN, healthy' \in BOOLEAN,
           error' \in [Events -> {"none", "transient", "permanent"}],
           requeues' \in [Events -> Nat], revivals' \in [Events -> Nat], lost' \in Nat,
           blind' \in Nat
    PROVE  RecoveryTypes' /\ SelectedBelowLimit' /\ IdleSelectsNothing'
BY DEF threadVars, RecoveryTypes, SelectedBelowLimit, IdleSelectsNothing

\* A pass begins with the counters it has read, and nothing selected.
LEMMA StartKeepsThreads ==
    ASSUME RecoveryTypes, SelectedBelowLimit, IdleSelectsNothing, NEW w \in Workers, Starts(w),
           NEW f \in [Events -> 0..AutoLimit], known' = [known EXCEPT ![w] = f],
           blind' \in Nat,
           UNCHANGED <<error, counts, rested, healthy, selected, witnessed, requeues, revivals, lost>>
    PROVE  RecoveryTypes' /\ SelectedBelowLimit' /\ IdleSelectsNothing'
<1>1. pass' = [pass EXCEPT ![w] = "select"] /\ selected[w] = {}
  BY DEF Starts, IdleSelectsNothing
<1>2. RecoveryTypes'
  BY <1>1 DEF RecoveryTypes
<1>3. SelectedBelowLimit' /\ IdleSelectsNothing'
  BY <1>1 DEF RecoveryTypes, SelectedBelowLimit, IdleSelectsNothing
<1> QED BY <1>2, <1>3

LEMMA PassStepTypes ==
    ASSUME PassInv, NEW w \in Workers, PassStep(w)
    PROVE  RecoveryTypes' /\ SelectedBelowLimit' /\ IdleSelectsNothing'
<1>0. /\ RecoveryTypes /\ SelectedBelowLimit /\ IdleSelectsNothing
      /\ AutoLimit \in Nat
  BY AutoRequeueAssumption DEF PassInv
<1>1. CASE ReadState(w)
  <2>1. /\ Starts(w) /\ known' = [known EXCEPT ![w] = counts]
        /\ UNCHANGED <<error, counts, rested, healthy, selected, witnessed, requeues, revivals, lost,
                       blind>>
    BY <1>1 DEF ReadState, fileVars, historyVars
  <2>2. counts \in [Events -> 0..AutoLimit] /\ blind \in Nat
    BY <1>0 DEF RecoveryTypes
  <2> QED BY <1>0, <2>1, <2>2, StartKeepsThreads
<1>2. CASE SelectRows(w)
  <2> DEFINE rows == {e \in Events : Eligible(w, e)}
  <2>1. UNCHANGED <<error, healthy, requeues, revivals, lost, blind>>
    BY <1>2 DEF SelectRows, historyVars
  <2>2. CASE rows = {}
    <3>1. ThreadRests(w) /\ counts' = known[w] /\ rested' = FALSE
      BY <1>2, <2>2 DEF SelectRows
    <3>2. counts' \in [Events -> 0..AutoLimit]
      BY <1>0, <3>1 DEF RecoveryTypes
    <3> QED BY <1>0, <2>1, <3>1, <3>2, RestKeepsThreads DEF RecoveryTypes
  <2>3. CASE rows # {}
    <3>1. /\ pass' = [pass EXCEPT ![w] = "requeue"]
          /\ selected' = [selected EXCEPT ![w] = rows]
          /\ witnessed' = [witnessed EXCEPT ![w] = revivals]
          /\ UNCHANGED <<counts, rested, known>>
      BY <1>2, <2>3 DEF SelectRows, fileVars
    <3>2. \A e \in rows : known[w][e] < AutoLimit
      BY DEF Eligible
    <3>3. rows \subseteq Events
      OBVIOUS
    <3> HIDE DEF rows
    <3>4. RecoveryTypes'
      BY <1>0, <2>1, <3>1, <3>3 DEF RecoveryTypes
    <3>5. SelectedBelowLimit' /\ IdleSelectsNothing'
      BY <1>0, <3>1, <3>2 DEF RecoveryTypes, SelectedBelowLimit, IdleSelectsNothing
    <3> QED BY <3>4, <3>5
  <2> QED BY <2>2, <2>3
<1>3. CASE RequeueRows(w)
  <2>1. /\ pass[w] = "requeue" /\ pass' = [pass EXCEPT ![w] = "record"]
        /\ UNCHANGED <<error, counts, rested, healthy, known, selected, witnessed, lost, blind>>
    BY <1>3 DEF RequeueRows, fileVars
  <2>2. requeues' \in [Events -> Nat] /\ revivals' \in [Events -> Nat]
    BY <1>0, <1>3 DEF RequeueRows, RecoveryTypes
  <2>3. RecoveryTypes'
    BY <1>0, <2>1, <2>2 DEF RecoveryTypes
  <2>4. SelectedBelowLimit' /\ IdleSelectsNothing'
    BY <1>0, <2>1 DEF RecoveryTypes, SelectedBelowLimit, IdleSelectsNothing
  <2> QED BY <2>3, <2>4
<1>4. CASE RecordPass(w)
  <2>1. /\ pass[w] = "record" /\ ThreadRests(w) /\ rested' = FALSE
        /\ counts' = [e \in Events |-> known[w][e] + (IF e \in selected[w] THEN 1 ELSE 0)]
        /\ UNCHANGED <<error, healthy, requeues, revivals, lost, blind>>
    BY <1>4 DEF RecordPass, historyVars
  <2>2. ASSUME NEW e \in Events
        PROVE  known[w][e] + (IF e \in selected[w] THEN 1 ELSE 0) \in 0..AutoLimit
    <3>1. known[w][e] \in 0..AutoLimit /\ (e \in selected[w] => known[w][e] < AutoLimit)
      BY <1>0, <2>1 DEF RecoveryTypes, SelectedBelowLimit
    <3> QED BY <1>0, <3>1
  <2>3. counts' \in [Events -> 0..AutoLimit]
    BY <2>1, <2>2
  <2> QED BY <1>0, <2>1, <2>3, RestKeepsThreads DEF RecoveryTypes
<1> QED BY <1>1, <1>2, <1>3, <1>4 DEF PassStep

LEMMA NextRecoveryTypes ==
    ASSUME PassInv, [AutoNext]_autoVars
    PROVE  RecoveryTypes' /\ SelectedBelowLimit' /\ IdleSelectsNothing'
<1>0. RecoveryTypes /\ SelectedBelowLimit /\ IdleSelectsNothing
  BY DEF PassInv
<1>1. ASSUME OutboxStep \/ UNCHANGED autoVars
      PROVE  RecoveryTypes' /\ SelectedBelowLimit' /\ IdleSelectsNothing'
  <2>1. UNCHANGED <<error, counts, rested, healthy, threadVars, requeues, revivals, lost, blind>>
    BY <1>1 DEF OutboxStep, autoVars, recoveryVars, fileVars, historyVars
  <2> QED BY <1>0, <2>1, ThreadsUntouched DEF RecoveryTypes
<1>2. ASSUME NEW w \in Workers, NEW e \in Events, Fail(w, e)
      PROVE  RecoveryTypes' /\ SelectedBelowLimit' /\ IdleSelectsNothing'
  <2>1. UNCHANGED <<counts, rested, healthy, threadVars, requeues, revivals, lost, blind>>
    BY <1>2 DEF Fail, fileVars, historyVars
  <2>2. error' \in [Events -> {"none", "transient", "permanent"}]
    BY <1>0, <1>2 DEF Fail, RecoveryTypes
  <2> QED BY <1>0, <2>1, <2>2, ThreadsUntouched DEF RecoveryTypes
<1>3. ASSUME NEW w \in Workers, AbandonPass(w) \/ ProcessDies(w)
      PROVE  RecoveryTypes' /\ SelectedBelowLimit' /\ IdleSelectsNothing'
  <2>1. /\ ThreadRests(w) /\ Unrecorded(w)
        /\ UNCHANGED <<error, counts, rested, healthy, requeues, revivals, blind>>
    BY <1>3 DEF AbandonPass, ProcessDies, fileVars
  <2>2. lost' \in Nat
    BY <1>0, <2>1 DEF Unrecorded, RecoveryTypes
  <2> QED BY <1>0, <2>1, <2>2, RestKeepsThreads DEF RecoveryTypes
<1>4. ASSUME IntervalElapses
      PROVE  RecoveryTypes' /\ SelectedBelowLimit' /\ IdleSelectsNothing'
  <2>1. UNCHANGED <<error, counts, healthy, threadVars, requeues, revivals, lost, blind>> /\ rested' = TRUE
    BY <1>4 DEF IntervalElapses, historyVars
  <2> QED BY <1>0, <2>1, ThreadsUntouched DEF RecoveryTypes
<1>5. ASSUME OperatorRequeues
      PROVE  RecoveryTypes' /\ SelectedBelowLimit' /\ IdleSelectsNothing'
  <2>1. UNCHANGED <<error, counts, rested, healthy, threadVars, requeues, lost, blind>>
    BY <1>5 DEF OperatorRequeues, fileVars
  <2>2. revivals' \in [Events -> Nat]
    BY <1>0, <1>5 DEF OperatorRequeues, RecoveryTypes
  <2> QED BY <1>0, <2>1, <2>2, ThreadsUntouched DEF RecoveryTypes
<1>6. ASSUME NEW w \in Workers, ReadNothing(w)
      PROVE  RecoveryTypes' /\ SelectedBelowLimit' /\ IdleSelectsNothing'
  <2>1. /\ Starts(w) /\ known' = [known EXCEPT ![w] = Zero] /\ blind' = blind + 1
        /\ UNCHANGED <<error, counts, rested, healthy, selected, witnessed, requeues, revivals, lost>>
    BY <1>6 DEF ReadNothing, fileVars
  <2>2. Zero \in [Events -> 0..AutoLimit] /\ blind' \in Nat
    BY <1>0, <2>1, AutoRequeueAssumption DEF Zero, RecoveryTypes
  <2> QED BY <1>0, <2>1, <2>2, StartKeepsThreads
<1>7. ASSUME QdrantTurns
      PROVE  RecoveryTypes' /\ SelectedBelowLimit' /\ IdleSelectsNothing'
  <2>1. UNCHANGED <<error, counts, rested, threadVars, requeues, revivals, lost, blind>>
    BY <1>7 DEF QdrantTurns, fileVars, historyVars
  <2>2. healthy' \in BOOLEAN
    BY <1>7 DEF QdrantTurns
  <2> QED BY <1>0, <2>1, <2>2, ThreadsUntouched DEF RecoveryTypes
<1> QED BY <1>1, <1>2, <1>3, <1>4, <1>5, <1>6, <1>7, PassStepTypes DEF AutoNext

\* A dead letter stays dead with its error, or it is revived and that is counted.
LEMMA DeadLetterSteps ==
    ASSUME OutboxTypeOK, RecoveryTypes, [AutoNext]_autoVars, NEW e \in Events
    PROVE  \/ /\ revivals'[e] = revivals[e]
              /\ status[e] = "dead_letter" => status'[e] = "dead_letter" /\ error'[e] = error[e]
           \/ revivals'[e] = revivals[e] + 1
<1> DEFINE Goal ==
       \/ /\ revivals'[e] = revivals[e]
          /\ status[e] = "dead_letter" => status'[e] = "dead_letter" /\ error'[e] = error[e]
       \/ revivals'[e] = revivals[e] + 1
<1>1. ASSUME UNCHANGED <<status, error, revivals>> PROVE Goal
  BY <1>1
<1>2. ASSUME OutboxStep PROVE Goal
  <2>1. UNCHANGED <<error, revivals>>
    BY <1>2 DEF OutboxStep, recoveryVars, historyVars
  <2>2. ASSUME NEW rows \in SUBSET Events, InsertRows(rows), status[e] = "dead_letter"
        PROVE  status'[e] = "dead_letter"
    BY <2>2 DEF InsertRows, FirstOf, FreeRows
  <2>3. ASSUME NEW w \in Workers, ClaimOutbox(w), status[e] = "dead_letter"
        PROVE  status'[e] = "dead_letter"
    BY <2>3, ClaimRow DEF Requeued
  <2>4. ASSUME NEW w \in Workers, NEW f \in Events, status[e] = "dead_letter",
               AckOutbox(w, f) \/ DeferOutbox(w, f)
        PROVE  status'[e] = "dead_letter"
    BY <2>4, VerdictRow
  <2>5. ASSUME NEW w \in Workers, NEW f \in Events, VerdictRaises(w, f)
        PROVE  UNCHANGED status
    BY <2>5 DEF VerdictRaises, rowVars
  <2>6. ASSUME NEW w \in Workers, StartDeferral(w) PROVE UNCHANGED status
    BY <2>6 DEF StartDeferral, rowVars
  <2>7. Clock => UNCHANGED status
    BY DEF Clock, LeaseElapses, BackoffElapses
  <2> QED BY <1>2, <2>1, <2>2, <2>3, <2>4, <2>5, <2>6, <2>7 DEF OutboxStep
<1>3. ASSUME NEW w \in Workers, NEW f \in Events, Fail(w, f) PROVE Goal
  <2>1. FailOutbox(w, f) /\ UNCHANGED revivals /\ \E kind : error' = [error EXCEPT ![f] = kind]
    BY <1>3 DEF Fail, historyVars
  <2>2. status[f] = "processing" /\ (f # e => status'[e] = status[e])
    BY <2>1, VerdictRow
  <2>3. f # e => error'[e] = error[e]
    BY <2>1 DEF RecoveryTypes
  <2> QED BY <2>1, <2>2, <2>3
<1>4. ASSUME NEW w \in Workers, PassStep(w) PROVE Goal
  <2>1. CASE ReadState(w) \/ SelectRows(w) \/ RecordPass(w)
    BY <2>1 DEF ReadState, SelectRows, RecordPass, outboxVars, rowVars, historyVars
  <2>2. CASE RequeueRows(w)
    <3> DEFINE rows == {f \in selected[w] : status[f] = "dead_letter"}
    <3>1. /\ revivals'[e] = IF e \in rows THEN revivals[e] + 1 ELSE revivals[e]
          /\ UNCHANGED error
          /\ UNCHANGED outboxVars \/ ReopenDead(rows)
      BY <2>2 DEF RequeueRows
    <3>2. e \notin rows => status'[e] = status[e]
      BY <3>1 DEF outboxVars, rowVars, ReopenDead
    <3> QED BY <3>1, <3>2
  <2> QED BY <1>4, <2>1, <2>2 DEF PassStep
<1>5. ASSUME NEW w \in Workers, ReadNothing(w) \/ AbandonPass(w) \/ ProcessDies(w) PROVE Goal
  BY <1>5 DEF ReadNothing, AbandonPass, ProcessDies, CrashWorker, rowVars
<1>6. ASSUME OperatorRequeues PROVE Goal
  <2>1. /\ revivals'[e] = IF status[e] = "dead_letter" THEN revivals[e] + 1 ELSE revivals[e]
        /\ UNCHANGED error
    BY <1>6 DEF OperatorRequeues
  <2> QED BY <2>1
<1>7. IntervalElapses \/ QdrantTurns \/ UNCHANGED autoVars => UNCHANGED <<status, error, revivals>>
  BY DEF IntervalElapses, QdrantTurns, autoVars, recoveryVars, historyVars, outboxVars, rowVars
<1> QED BY <1>1, <1>2, <1>3, <1>4, <1>5, <1>6, <1>7 DEF AutoNext

\* Only a selection puts rows into the hands of a pass.
LEMMA SelectionSteps ==
    ASSUME RecoveryTypes, [AutoNext]_autoVars, NEW w \in Workers, pass'[w] = "requeue"
    PROVE  \/ pass[w] = "requeue" /\ selected'[w] = selected[w] /\ witnessed'[w] = witnessed[w]
           \/ /\ UNCHANGED <<status, error, revivals>> /\ witnessed'[w] = revivals
              /\ \A e \in selected'[w] : status[e] = "dead_letter" /\ error[e] = "transient"
<1> DEFINE Same == pass[w] = "requeue" /\ selected'[w] = selected[w] /\ witnessed'[w] = witnessed[w]
           Fresh == /\ UNCHANGED <<status, error, revivals>> /\ witnessed'[w] = revivals
                    /\ \A e \in selected'[w] : status[e] = "dead_letter" /\ error[e] = "transient"
<1>1. UNCHANGED threadVars => Same
  BY DEF threadVars
<1>2. ASSUME NEW v \in Workers, ThreadRests(v) PROVE Same
  <2>1. v # w
    BY <1>2 DEF ThreadRests, RecoveryTypes
  <2> QED BY <1>2, <2>1 DEF ThreadRests, RecoveryTypes
<1>3. ASSUME NEW v \in Workers, ReadState(v) \/ ReadNothing(v) PROVE Same
  <2>1. pass' = [pass EXCEPT ![v] = "select"] /\ UNCHANGED <<selected, witnessed>>
    BY <1>3 DEF ReadState, ReadNothing, Starts
  <2>2. v # w
    BY <2>1 DEF RecoveryTypes
  <2> QED BY <2>1, <2>2 DEF RecoveryTypes
<1>4. ASSUME NEW v \in Workers, PassStep(v) PROVE Same \/ Fresh
  <2>1. CASE ReadState(v)
    BY <1>3, <2>1
  <2>2. CASE SelectRows(v) /\ {e \in Events : Eligible(v, e)} # {}
    <3> DEFINE rows == {e \in Events : Eligible(v, e)}
    <3>1. /\ pass' = [pass EXCEPT ![v] = "requeue"]
          /\ selected' = [selected EXCEPT ![v] = rows]
          /\ witnessed' = [witnessed EXCEPT ![v] = revivals]
          /\ UNCHANGED <<status, error, revivals>>
      BY <2>2 DEF SelectRows, historyVars, outboxVars, rowVars
    <3>2. \A e \in rows : status[e] = "dead_letter" /\ error[e] = "transient"
      BY DEF Eligible
    <3> HIDE DEF rows
    <3>3. CASE v = w
      BY <3>1, <3>2, <3>3 DEF RecoveryTypes
    <3>4. CASE v # w
      BY <3>1, <3>4 DEF RecoveryTypes
    <3> QED BY <3>3, <3>4
  <2>3. CASE RequeueRows(v)
    <3>1. v # w
      BY <2>3 DEF RequeueRows, RecoveryTypes
    <3> QED BY <2>3, <3>1 DEF RequeueRows, RecoveryTypes
  <2> QED BY <1>2, <1>4, <2>1, <2>2, <2>3 DEF PassStep, SelectRows, RecordPass
<1>5. ASSUME NEW v \in Workers, AbandonPass(v) \/ ProcessDies(v) PROVE Same
  BY <1>2, <1>5 DEF AbandonPass, ProcessDies
<1>6. OutboxStep \/ (\E v \in Workers, e \in Events : Fail(v, e)) \/ IntervalElapses
         \/ QdrantTurns \/ OperatorRequeues \/ UNCHANGED autoVars => UNCHANGED threadVars
  BY DEF OutboxStep, Fail, IntervalElapses, QdrantTurns, OperatorRequeues, autoVars, recoveryVars
<1> QED BY <1>1, <1>3, <1>4, <1>5, <1>6 DEF AutoNext

LEMMA NextSelectedStayTransient ==
    ASSUME PassInv, RecoveryTypes', [AutoNext]_autoVars
    PROVE  SelectedStayTransient'
<1> SUFFICES ASSUME NEW w \in Workers, pass'[w] = "requeue", NEW e \in selected'[w]
             PROVE  /\ witnessed'[w][e] <= revivals'[e]
                    /\ witnessed'[w][e] = revivals'[e] =>
                          status'[e] = "dead_letter" /\ error'[e] = "transient"
  BY DEF SelectedStayTransient
<1>1. /\ OutboxTypeOK /\ RecoveryTypes /\ SelectedStayTransient
      /\ e \in Events /\ revivals[e] \in Nat
      /\ witnessed'[w][e] \in Nat
  BY DEF PassInv, Inv, RecoveryTypes
<1>2. CASE pass[w] = "requeue" /\ selected'[w] = selected[w] /\ witnessed'[w] = witnessed[w]
  <2>1. /\ witnessed[w][e] <= revivals[e]
        /\ witnessed[w][e] = revivals[e] => status[e] = "dead_letter" /\ error[e] = "transient"
    BY <1>1, <1>2 DEF SelectedStayTransient
  <2>2. CASE revivals'[e] = revivals[e] + 1
    BY <1>1, <1>2, <2>1, <2>2
  <2>3. CASE revivals'[e] # revivals[e] + 1
    BY <1>1, <1>2, <2>1, <2>3, DeadLetterSteps
  <2> QED BY <2>2, <2>3
<1>3. CASE /\ UNCHANGED <<status, error, revivals>> /\ witnessed'[w] = revivals
           /\ \A f \in selected'[w] : status[f] = "dead_letter" /\ error[f] = "transient"
  BY <1>1, <1>3
<1> QED BY <1>1, <1>2, <1>3, SelectionSteps

LEMMA NextPassInv == PassInv /\ [AutoNext]_autoVars => PassInv'
<1> SUFFICES ASSUME PassInv, [AutoNext]_autoVars PROVE PassInv'
  OBVIOUS
<1>1. Inv'
  BY AutoMoves, MovesInv DEF PassInv, RecoveryTypes
<1>2. RecoveryTypes' /\ SelectedBelowLimit' /\ IdleSelectsNothing'
  BY NextRecoveryTypes
<1> QED BY <1>1, <1>2, NextSelectedStayTransient DEF PassInv

--------------------------------------------------------------------------------
(* The theorems for any number of sidecars. *)

\* The leases, tokens and attempts of the outbox stay as they are without the
\* recovery: AutoRequeueController reopens rows in a way that no worker's
\* lease survives.
THEOREM RecoveryKeepsOutbox == AutoSpec => []Inv
<1>1. PassInv => Inv
  BY DEF PassInv
<1> QED BY <1>1, InitPassInv, NextPassInv, PTL DEF AutoSpec

\* Under the recovery too, only the holder of a live lease settles its row: a
\* requeue touches dead letters only (_assert_outbox_lease_owner, run_pass).
THEOREM RecoverySettlesNothing == AutoSpec => OnlyOwnerSettles
<1>1. PassInv /\ [AutoNext]_autoVars =>
        [\A e \in Events :
            /\ status[e] = "processing" /\ status'[e] # "processing" /\ e \notin expired
            => \E w \in Workers : lease[w][e] = token[e] /\ lease'[w][e] = NoToken]_outboxVars
  <2> SUFFICES ASSUME PassInv, [AutoNext]_autoVars, ~UNCHANGED outboxVars, NEW e \in Events,
                      status[e] = "processing", status'[e] # "processing", e \notin expired
               PROVE  \E w \in Workers : lease[w][e] = token[e] /\ lease'[w][e] = NoToken
    OBVIOUS
  <2>1. ~(\E S \in SUBSET Events : ReopenDead(S)) /\ ~UNCHANGED rowVars
    BY DEF ReopenDead, rowVars
  <2>2. OutboxNext
    BY <2>1, AutoMoves DEF OutboxMoves, PassInv, RecoveryTypes
  <2> QED BY <2>2, NextSettled DEF PassInv
<1> QED BY <1>1, InitPassInv, NextPassInv, PTL DEF AutoSpec, OnlyOwnerSettles

\* Every variable keeps its type, and no counter of the state file passes the
\* limit, however many processes write it (AutoRequeueController.run_pass).
THEOREM RecoveryTypesHold == AutoSpec => []AutoTypeOK
<1>1. PassInv => AutoTypeOK
  BY DEF PassInv, Inv, RecoveryTypes, AutoTypeOK
<1> QED BY <1>1, InitPassInv, NextPassInv, PTL DEF AutoSpec

\* A pass never requeues a dead letter with a permanent error, however long ago
\* it selected its rows, unless somebody else revived the row in between
\* (transient_reason, AutoRequeueController.run_pass).
THEOREM PermanentLettersStayDead == AutoSpec => PermanentErrorsStay
<1>1. PassInv /\ [AutoNext]_autoVars =>
        [\A w \in Workers : \A e \in selected[w] :
            /\ RequeueRows(w) /\ status[e] = "dead_letter"
            /\ revivals[e] = witnessed[w][e]
            => error[e] = "transient"]_autoVars
  BY DEF PassInv, SelectedStayTransient, RequeueRows
<1> QED BY <1>1, InitPassInv, NextPassInv, PTL DEF AutoSpec, PermanentErrorsStay

\* With the recovery and without, the outbox is step by step the queue its
\* producers see: a requeue of the recovery is a revival of dead events.
THEOREM RecoveryRefinesQueue == AutoSpec => Abstract!Init /\ [][Abstract!Next]_Queue
<1>1. PassInv /\ [AutoNext]_autoVars => [Abstract!Next]_Queue
  BY AutoMoves, MovesRefine DEF PassInv, Inv, RecoveryTypes
<1>2. AutoInit => Abstract!Init
  BY InitRefines DEF AutoInit
<1> QED BY <1>1, <1>2, InitPassInv, NextPassInv, PTL DEF AutoSpec

--------------------------------------------------------------------------------
(* A single sidecar: how often it requeues an event. *)

\* Requeues that no counter need show: a file that was read as empty forgets
\* AutoLimit of them at most, a pass that was cut off one.
Allowance == AutoLimit * blind + lost

\* Requeued by a pass that has not written its counters yet.
Pending(e) == IF \E w \in Workers : pass[w] = "record" /\ e \in selected[w] THEN 1 ELSE 0

\* Both the file and the counters of a pass under way account for the requeues:
\* after a file that could not be read these are two different accounts, and
\* either may be the next content of the file.
Accounted(e) ==
    /\ requeues[e] <= counts[e] + Allowance + Pending(e)
    /\ \A w \in Workers : pass[w] # "idle" =>
          requeues[e] <= known[w][e] + Allowance + Pending(e)

RequeuesAccounted == \A e \in Events : Accounted(e)

LEMMA AllowanceOK ==
    ASSUME RecoveryTypes
    PROVE  /\ AutoLimit \in Nat /\ Allowance \in Nat
           /\ AutoLimit * (1 + blind) + lost = AutoLimit + Allowance
<1>1. AutoLimit \in Nat /\ blind \in Nat /\ lost \in Nat
  BY AutoRequeueAssumption DEF RecoveryTypes
<1>2. AutoLimit * blind \in Nat
  BY <1>1
<1>3. AutoLimit * (1 + blind) = AutoLimit + AutoLimit * blind
  BY <1>1
<1> QED BY <1>1, <1>2, <1>3 DEF Allowance

\* What the counters may forget is never taken back.
LEMMA AllowanceSteps ==
    ASSUME RecoveryTypes, lost' \in {lost, lost + 1}, UNCHANGED blind
    PROVE  Allowance' = Allowance + (lost' - lost)
<1>1. AutoLimit \in Nat /\ blind \in Nat /\ lost \in Nat
  BY AutoRequeueAssumption DEF RecoveryTypes
<1>2. PICK p : p = AutoLimit * blind
  OBVIOUS
<1>3. p \in Nat
  BY <1>1, <1>2
<1>4. Allowance = p + lost /\ Allowance' = p + lost'
  BY <1>2 DEF Allowance
<1> QED BY <1>1, <1>3, <1>4

\* What the accounts add up, as numbers.
LEMMA AccountTypes ==
    ASSUME RecoveryTypes, NEW e \in Events
    PROVE  /\ counts[e] \in 0..AutoLimit /\ requeues[e] \in Nat /\ lost \in Nat
           /\ Pending(e) \in {0, 1}
           /\ \A w \in Workers : known[w][e] \in 0..AutoLimit
BY DEF RecoveryTypes, Pending

\* The accounts bound the requeues: what is pending is still below the limit.
LEMMA AccountsBound ==
    ASSUME RecoveryTypes, SelectedBelowLimit, RequeuesAccounted
    PROVE  RequeuesBounded
<1> SUFFICES ASSUME NEW e \in Events
             PROVE  requeues[e] <= AutoLimit + Allowance
  BY AllowanceOK DEF RequeuesBounded
<1>1. AutoLimit \in Nat /\ Allowance \in Nat
  BY AllowanceOK
<1>2. CASE Pending(e) = 0
  BY <1>1, <1>2, AccountTypes DEF RequeuesAccounted, Accounted
<1>3. CASE Pending(e) = 1
  <2>1. PICK w \in Workers : pass[w] = "record" /\ e \in selected[w]
    BY <1>3 DEF Pending
  <2>2. known[w][e] < AutoLimit /\ requeues[e] <= known[w][e] + Allowance + Pending(e)
    BY <2>1 DEF SelectedBelowLimit, RequeuesAccounted, Accounted
  <2> QED BY <1>1, <1>3, <2>2, AccountTypes
<1> QED BY <1>2, <1>3, AccountTypes

\* A step that leaves the counters alone.
LEMMA AccountsUntouched ==
    ASSUME RequeuesAccounted, UNCHANGED <<counts, requeues, pass, known, selected, lost, blind>>
    PROVE  RequeuesAccounted'
BY DEF RequeuesAccounted, Accounted, Allowance, Pending

\* A pass that ends early: what was pending is lost.
LEMMA AccountsCutOff ==
    ASSUME RecoveryTypes, RequeuesAccounted, NEW w \in Workers, Workers = {w},
           ThreadRests(w), Unrecorded(w), UNCHANGED <<counts, requeues, blind>>
    PROVE  RequeuesAccounted'
<1>1. lost \in Nat /\ lost' \in {lost, lost + 1}
  BY DEF Unrecorded, RecoveryTypes
<1>2. Allowance \in Nat /\ Allowance' = Allowance + (lost' - lost)
  BY <1>1, AllowanceOK, AllowanceSteps
<1>3. \A v \in Workers : pass'[v] = "idle"
  BY DEF ThreadRests, RecoveryTypes
<1>4. ASSUME NEW e \in Events PROVE requeues[e] <= counts[e] + Allowance'
  <2>1. /\ counts[e] \in Nat /\ requeues[e] \in Nat
        /\ requeues[e] <= counts[e] + Allowance + Pending(e)
    BY AccountTypes, AllowanceOK DEF RequeuesAccounted, Accounted
  <2>2. Pending(e) = 0 \/ (Pending(e) = 1 /\ lost' = lost + 1)
    BY DEF Pending, Unrecorded
  <2>3. CASE Pending(e) = 0
    BY <1>1, <1>2, <2>1, <2>3
  <2>4. CASE Pending(e) = 1 /\ lost' = lost + 1
    BY <1>1, <1>2, <2>1, <2>4
  <2> QED BY <2>2, <2>3, <2>4
<1>5. ASSUME NEW e \in Events PROVE Pending(e)' = 0
  BY <1>3 DEF Pending
<1>6. ASSUME NEW e \in Events PROVE Accounted(e)'
  <2>1. counts[e] + Allowance' + 0 = counts[e] + Allowance'
    BY <1>1, <1>2, AccountTypes
  <2> QED BY <1>3, <1>4, <1>5, <2>1 DEF Accounted
<1> QED BY <1>6 DEF RequeuesAccounted

\* A pass that begins takes one of the two accounts over from the file, or
\* starts afresh with an allowance that covers all the file could have held.
LEMMA AccountsStart ==
    ASSUME RecoveryTypes, RequeuesAccounted, NEW w \in Workers, Workers = {w}, Starts(w),
           UNCHANGED <<counts, requeues, selected, lost>>,
           \/ known' = [known EXCEPT ![w] = counts] /\ UNCHANGED blind
           \/ known' = [known EXCEPT ![w] = Zero] /\ blind' = blind + 1
    PROVE  RequeuesAccounted'
<1> SUFFICES ASSUME NEW e \in Events PROVE Accounted(e)'
  BY DEF RequeuesAccounted
<1>1. pass[w] = "idle" /\ pass'[w] = "select"
  BY DEF Starts, RecoveryTypes
<1>2. Pending(e) = 0 /\ Pending(e)' = 0
  BY <1>1 DEF Pending
<1>3. /\ AutoLimit \in Nat /\ Allowance \in Nat
      /\ counts[e] \in 0..AutoLimit /\ requeues[e] \in Nat
      /\ requeues[e] <= counts[e] + Allowance
  BY <1>2, AllowanceOK, AccountTypes DEF RequeuesAccounted, Accounted
<1>4. CASE known' = [known EXCEPT ![w] = counts] /\ UNCHANGED blind
  <2>1. known'[w] = counts /\ Allowance' = Allowance
    BY <1>4 DEF RecoveryTypes, Allowance
  <2> QED BY <1>2, <1>3, <2>1 DEF Accounted
<1>5. CASE known' = [known EXCEPT ![w] = Zero] /\ blind' = blind + 1
  <2>1. known'[w][e] = 0
    BY <1>5 DEF RecoveryTypes, Zero
  <2>2. Allowance' = AutoLimit + Allowance
    <3>1. AutoLimit \in Nat /\ blind \in Nat /\ lost \in Nat
      BY AutoRequeueAssumption DEF RecoveryTypes
    <3>2. AutoLimit * (blind + 1) = AutoLimit + AutoLimit * blind /\ AutoLimit * blind \in Nat
      BY <3>1
    <3> QED BY <1>5, <3>1, <3>2 DEF Allowance
  <2> QED BY <1>2, <1>3, <2>1, <2>2 DEF Accounted
<1> QED BY <1>4, <1>5

\* Each step of a pass keeps the accounts.
LEMMA AccountsPassStep ==
    ASSUME RecoveryTypes, RequeuesAccounted,
           NEW w \in Workers, Workers = {w}, PassStep(w)
    PROVE  RequeuesAccounted'
<1>1. CASE ReadState(w)
  BY <1>1, AccountsStart DEF ReadState, fileVars, historyVars
<1>2. CASE SelectRows(w)
  <2> DEFINE rows == {e \in Events : Eligible(w, e)}
  <2>1. pass[w] = "select" /\ UNCHANGED <<requeues, lost, blind>>
    BY <1>2 DEF SelectRows, historyVars
  <2>2. CASE rows = {}
    <3>1. ThreadRests(w) /\ counts' = known[w]
      BY <1>2, <2>2 DEF SelectRows
    <3>2. \A v \in Workers : pass'[v] = "idle"
      BY <3>1 DEF ThreadRests, RecoveryTypes
    <3>3. ASSUME NEW e \in Events PROVE Accounted(e)'
      <4>1. Pending(e) = 0 /\ Pending(e)' = 0
        BY <2>1, <3>2 DEF Pending
      <4>2. requeues[e] <= known[w][e] + Allowance + Pending(e)
        BY <2>1 DEF RequeuesAccounted, Accounted
      <4>3. Allowance' = Allowance
        BY <2>1 DEF Allowance
      <4> QED BY <2>1, <3>1, <3>2, <4>1, <4>2, <4>3 DEF Accounted
    <3> QED BY <3>3 DEF RequeuesAccounted
  <2>3. CASE rows # {}
    <3>1. pass' = [pass EXCEPT ![w] = "requeue"] /\ UNCHANGED <<counts, known>>
      BY <1>2, <2>3 DEF SelectRows, fileVars
    <3>2. pass[w] # "idle" /\ pass[w] # "record" /\ pass'[w] = "requeue"
      BY <2>1, <3>1 DEF RecoveryTypes
    <3>3. ASSUME NEW e \in Events PROVE Accounted(e)'
      <4>1. Pending(e) = 0 /\ Pending(e)' = 0
        BY <3>2 DEF Pending
      <4>2. Allowance' = Allowance
        BY <2>1 DEF Allowance
      <4> QED BY <2>1, <3>1, <3>2, <4>1, <4>2 DEF RequeuesAccounted, Accounted
    <3> QED BY <3>3 DEF RequeuesAccounted
  <2> QED BY <2>2, <2>3
<1>3. CASE RequeueRows(w)
  <2>1. /\ pass[w] = "requeue" /\ pass' = [pass EXCEPT ![w] = "record"]
        /\ UNCHANGED <<counts, known, selected, lost, blind>>
    BY <1>3 DEF RequeueRows, fileVars
  <2>2. ASSUME NEW e \in Events
        PROVE  /\ requeues'[e] \in {requeues[e], requeues[e] + 1}
               /\ e \notin selected[w] => requeues'[e] = requeues[e]
    BY <1>3 DEF RequeueRows
  <2>3. pass'[w] = "record"
    BY <2>1 DEF RecoveryTypes
  <2>4. ASSUME NEW e \in Events PROVE Accounted(e)'
    <3>1. Pending(e) = 0 /\ Pending(e)' = IF e \in selected[w] THEN 1 ELSE 0
      BY <2>1, <2>3 DEF Pending
    <3>2. /\ Allowance' = Allowance /\ Allowance \in Nat
          /\ counts[e] \in Nat /\ known[w][e] \in Nat /\ requeues[e] \in Nat
      BY <2>1, AllowanceOK, AccountTypes DEF Allowance
    <3>3. requeues[e] <= counts[e] + Allowance /\ requeues[e] <= known[w][e] + Allowance
      BY <2>1, <3>1, <3>2 DEF RequeuesAccounted, Accounted
    <3>4. CASE e \in selected[w]
      <4>1. requeues'[e] <= counts[e] + Allowance + 1 /\ requeues'[e] <= known[w][e] + Allowance + 1
        BY <2>2, <3>2, <3>3
      <4> QED BY <2>1, <3>1, <3>2, <3>4, <4>1 DEF Accounted
    <3>5. CASE e \notin selected[w]
      <4>1. requeues'[e] <= counts[e] + Allowance + 0 /\ requeues'[e] <= known[w][e] + Allowance + 0
        BY <2>2, <3>2, <3>3, <3>5
      <4> QED BY <2>1, <3>1, <3>2, <3>5, <4>1 DEF Accounted
    <3> QED BY <3>4, <3>5
  <2> QED BY <2>4 DEF RequeuesAccounted
<1>4. CASE RecordPass(w)
  <2>1. /\ pass[w] = "record" /\ ThreadRests(w) /\ UNCHANGED <<requeues, lost, blind>>
        /\ counts' = [e \in Events |-> known[w][e] + (IF e \in selected[w] THEN 1 ELSE 0)]
    BY <1>4 DEF RecordPass, historyVars
  <2>2. \A v \in Workers : pass'[v] = "idle"
    BY <2>1 DEF ThreadRests, RecoveryTypes
  <2>3. ASSUME NEW e \in Events PROVE Accounted(e)'
    <3>1. Pending(e) = (IF e \in selected[w] THEN 1 ELSE 0) /\ Pending(e)' = 0
      BY <2>1, <2>2 DEF Pending
    <3>2. /\ Allowance' = Allowance /\ Allowance \in Nat
          /\ known[w][e] \in Nat /\ requeues[e] \in Nat /\ Pending(e) \in {0, 1}
      BY <2>1, AllowanceOK, AccountTypes DEF Allowance
    <3>3. requeues[e] <= known[w][e] + Allowance + Pending(e)
      BY <2>1 DEF RequeuesAccounted, Accounted
    <3>4. counts'[e] = known[w][e] + Pending(e)
      BY <2>1, <3>1
    <3>5. requeues[e] <= counts'[e] + Allowance + 0
      BY <3>2, <3>3, <3>4
    <3> QED BY <2>1, <2>2, <3>1, <3>2, <3>5 DEF Accounted
  <2> QED BY <2>3 DEF RequeuesAccounted
<1> QED BY <1>1, <1>2, <1>3, <1>4 DEF PassStep

\* With the one sidecar of the launcher, an automatic requeue beyond the limit
\* is always due to a pass that found no readable state file, or was cut off
\* between its transaction and the write of the file (_read_state, run_pass).
THEOREM RequeuesAreBounded ==
    ASSUME NEW w, Workers = {w}
    PROVE  AutoSpec => []RequeuesBounded
<1>1. AutoInit => RequeuesAccounted
  <2> SUFFICES ASSUME AutoInit, NEW e \in Events PROVE Accounted(e)
    BY DEF RequeuesAccounted
  <2>1. RecoveryTypes
    BY InitPassInv DEF PassInv
  <2>2. requeues[e] = 0 /\ \A v \in Workers : pass[v] = "idle"
    BY DEF AutoInit, Zero
  <2>3. counts[e] \in Nat /\ Allowance \in Nat /\ Pending(e) \in Nat
    BY <2>1, AllowanceOK, AccountTypes
  <2> QED BY <2>2, <2>3 DEF Accounted
<1>2. PassInv /\ RequeuesAccounted /\ [AutoNext]_autoVars => RequeuesAccounted'
  <2> SUFFICES ASSUME PassInv, RequeuesAccounted, [AutoNext]_autoVars PROVE RequeuesAccounted'
    OBVIOUS
  <2>0. RecoveryTypes
    BY DEF PassInv
  <2>1. CASE OutboxStep \/ UNCHANGED autoVars
    BY <2>1, AccountsUntouched
       DEF OutboxStep, autoVars, recoveryVars, fileVars, threadVars, historyVars
  <2>2. CASE \E v \in Workers, e \in Events : Fail(v, e)
    BY <2>2, AccountsUntouched DEF Fail, fileVars, threadVars, historyVars
  <2>3. CASE PassStep(w)
    BY <2>0, <2>3, AccountsPassStep
  <2>4. CASE ReadNothing(w)
    BY <2>0, <2>4, AccountsStart DEF ReadNothing, fileVars
  <2>5. CASE AbandonPass(w)
    BY <2>0, <2>5, AccountsCutOff DEF AbandonPass, fileVars
  <2>6. CASE ProcessDies(w)
    BY <2>0, <2>6, AccountsCutOff DEF ProcessDies, fileVars
  <2>7. CASE IntervalElapses \/ QdrantTurns
    BY <2>7, AccountsUntouched DEF IntervalElapses, QdrantTurns, fileVars, threadVars, historyVars
  <2>8. CASE OperatorRequeues
    BY <2>8, AccountsUntouched DEF OperatorRequeues, fileVars, threadVars
  <2> QED BY <2>1, <2>2, <2>3, <2>4, <2>5, <2>6, <2>7, <2>8 DEF AutoNext
<1>3. PassInv /\ RequeuesAccounted => RequeuesBounded
  BY AccountsBound DEF PassInv
<1> QED BY <1>1, <1>2, <1>3, InitPassInv, NextPassInv, PTL DEF AutoSpec
================================================================================
