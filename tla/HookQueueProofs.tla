--------------------------- MODULE HookQueueProofs ---------------------------
(***************************************************************************)
(* What holds of the hook queue for any number of events, workers and      *)
(* kinds, any capacity, any number of attempts and of faults.              *)
(***************************************************************************)
EXTENDS HookQueue, TLAPS

\* The workers of a service that is down hold nothing.
DownHoldsNothing == service = "down" => \A w \in Workers : held[w] = None

Types == HookTypeOK /\ DownHoldsNothing

\* The parts of the types that the workers' turns and the verdicts write.
WorkerTypes ==
    /\ phase \in [Workers -> {"idle", "executing", "completing", "failing",
                              "stopped", "dead"}]
    /\ held \in [Workers -> Events \cup {None}]
    /\ beat \in [Workers -> {"off", "on", "raised"}]
    /\ \A w \in Workers : Working(w) <=> held[w] # None

LeaseColumns ==
    /\ status \in [Events -> {"absent", "queued", "processing", "completed", "failed"}]
    /\ owner \in [Events -> Workers \cup {None}]
    /\ lapsed \subseteq Events
    /\ \A e \in Events : owner[e] # None <=> status[e] = "processing"
    /\ lapsed \subseteq {e \in Events : status[e] = "processing"}

--------------------------------------------------------------------------------
(* Types. *)

LEMMA InitTypes == HookInit => Types
BY HookQueueAssumption, NoneAssumption
   DEF HookInit, Types, HookTypeOK, DownHoldsNothing, Zero, Working

LEMMA TypesByPart == Types => WorkerTypes /\ LeaseColumns
BY DEF Types, HookTypeOK, WorkerTypes, LeaseColumns

\* The end of a turn frees its worker.
LEMMA EndTurnTypes ==
    ASSUME WorkerTypes, NEW w \in Workers, EndTurn(w)
    PROVE  /\ WorkerTypes'
           /\ \A v \in Workers : held'[v] = IF v = w THEN None ELSE held[v]
BY NoneAssumption DEF WorkerTypes, EndTurn, Working

\* A verdict ends the lease of the job.
LEMMA SettleTypes ==
    ASSUME LeaseColumns, NEW w \in Workers, held[w] \in Events,
           NEW verdict \in {"queued", "completed", "failed"}, Settle(w, verdict)
    PROVE  LeaseColumns'
BY NoneAssumption DEF LeaseColumns, Settle

LEMMA EnqueueTypes ==
    ASSUME Types, NEW e \in Events, NEW p \in Payloads, Enqueue(e, p)
    PROVE  Types'
BY NoneAssumption
   DEF Types, HookTypeOK, DownHoldsNothing, Enqueue, Known, workerVars, historyVars, Working

LEMMA ComesDueTypes ==
    ASSUME Types, NEW e \in Events, ComesDue(e)
    PROVE  Types'
BY DEF Types, HookTypeOK, DownHoldsNothing, ComesDue, workerVars, historyVars, Working

LEMMA ExpireTypes ==
    ASSUME Types, NEW S \in SUBSET Events, Expire(S)
    PROVE  Types'
BY DEF Types, HookTypeOK, DownHoldsNothing, Expire, workerVars, historyVars, Working

LeaseWritten ==
    /\ LeaseColumns'
    /\ UNCHANGED <<grave, payload, failures, runs>>
    /\ attempts' \in [Events -> Nat] /\ returned' \in [Events -> Nat]
    /\ due' \subseteq Events

\* Claims write the columns of a lease, for no event or for one.
LEMMA LeaseTypes ==
    ASSUME Types, NEW S \in SUBSET Events, NEW e \in Events \cup {None},
           NEW w \in Workers \cup {None}, e \in Events => w \in Workers,
           \A f \in S : status[f] = "processing", Lease(S, e, w)
    PROVE  LeaseWritten
<1>1. attempts' \in [Events -> Nat]
  BY DEF Types, HookTypeOK, Lease, AttemptsKept
<1>2. returned' \in [Events -> Nat]
  BY DEF Types, HookTypeOK, Lease
<1>3. owner' \in [Events -> Workers \cup {None}] /\ status' \in
        [Events -> {"absent", "queued", "processing", "completed", "failed"}]
  BY NoneAssumption DEF Types, HookTypeOK, Lease
<1>4. \A f \in Events : owner'[f] # None <=> status'[f] = "processing"
  BY NoneAssumption DEF Types, HookTypeOK, Lease
<1>5. /\ due' \subseteq Events /\ lapsed' \subseteq Events
      /\ lapsed' \subseteq {f \in Events : status'[f] = "processing"}
  BY NoneAssumption DEF Types, HookTypeOK, Lease
<1> QED
  BY <1>1, <1>2, <1>3, <1>4, <1>5 DEF Types, HookTypeOK, Lease, LeaseColumns, LeaseWritten

LEMMA ClaimTypes ==
    ASSUME Types, NEW w \in Workers, NEW e \in Events, Claim(w, e)
    PROVE  Types'
<1>1. TakesBack \in SUBSET Events /\ \A f \in TakesBack : status[f] = "processing"
  BY DEF TakesBack, Types, HookTypeOK
<1>2. Lease(TakesBack, e, w)
  BY DEF Claim
<1>3. WorkerTypes'
  BY TypesByPart, NoneAssumption DEF WorkerTypes, Claim, Working
<1>4. LeaseWritten
  BY <1>1, <1>2, LeaseTypes, NoneAssumption
<1> QED
  BY <1>3, <1>4
     DEF Types, HookTypeOK, DownHoldsNothing, Claim, WorkerTypes, LeaseWritten, LeaseColumns,
         Working

LEMMA ClaimNothingTypes ==
    ASSUME Types, NEW w \in Workers, ClaimNothing(w)
    PROVE  Types'
<1>1. TakesBack \in SUBSET Events /\ \A f \in TakesBack : status[f] = "processing"
  BY DEF TakesBack, Types, HookTypeOK
<1>2. Lease(TakesBack, None, w)
  BY DEF ClaimNothing
<1>3. WorkerTypes'
  BY TypesByPart, NoneAssumption DEF WorkerTypes, ClaimNothing, Working
<1>4. LeaseWritten
  BY <1>1, <1>2, LeaseTypes, NoneAssumption
<1> QED
  BY <1>3, <1>4
     DEF Types, HookTypeOK, DownHoldsNothing, ClaimNothing, WorkerTypes, LeaseWritten, LeaseColumns,
         Working

LEMMA BootTypes ==
    ASSUME Types, Boot
    PROVE  Types'
<1>1. RecoversAll \in SUBSET Events /\ \A f \in RecoversAll : status[f] = "processing"
  BY DEF RecoversAll, Types, HookTypeOK
<1>2. Lease(RecoversAll, None, None)
  BY DEF Boot
<1>3. WorkerTypes'
  BY TypesByPart, NoneAssumption DEF WorkerTypes, Boot, Working, Types, DownHoldsNothing
<1>4. LeaseWritten
  BY <1>1, <1>2, LeaseTypes, NoneAssumption
<1> QED
  BY <1>1, <1>3, <1>4
     DEF Types, HookTypeOK, DownHoldsNothing, Boot, WorkerTypes, LeaseWritten, LeaseColumns,
         Working

LEMMA ClaimBusyTypes ==
    ASSUME Types, NEW w \in Workers, ClaimBusy(w)
    PROVE  Types'
BY HookQueueAssumption, NoneAssumption
   DEF Types, HookTypeOK, DownHoldsNothing, ClaimBusy, SpendFault, Owns, tableVars, workerVars, historyVars, Working

LEMMA RenewTypes ==
    ASSUME Types, NEW w \in Workers, Renew(w)
    PROVE  Types'
BY HookQueueAssumption, NoneAssumption
   DEF Types, HookTypeOK, DownHoldsNothing, Renew, SpendFault, Owns, tableVars, workerVars, historyVars, Working

LEMMA RenewBusyTypes ==
    ASSUME Types, NEW w \in Workers, RenewBusy(w)
    PROVE  Types'
BY HookQueueAssumption, NoneAssumption
   DEF Types, HookTypeOK, DownHoldsNothing, RenewBusy, SpendFault, Owns, tableVars, workerVars, historyVars, Working

LEMMA LapseUnattendedTypes ==
    ASSUME Types, NEW e \in Events, LapseUnattended(e)
    PROVE  Types'
BY HookQueueAssumption, NoneAssumption
   DEF Types, HookTypeOK, DownHoldsNothing, LapseUnattended, SpendFault, tableVars, workerVars, historyVars, Working

LEMMA LapseWhileRenewedTypes ==
    ASSUME Types, NEW e \in Events, LapseWhileRenewed(e)
    PROVE  Types'
BY HookQueueAssumption, NoneAssumption
   DEF Types, HookTypeOK, DownHoldsNothing, LapseWhileRenewed, SpendFault, tableVars, workerVars, historyVars, Working

LEMMA ExecuteSucceedsTypes ==
    ASSUME Types, NEW w \in Workers, ExecuteSucceeds(w)
    PROVE  Types'
<1>1. WorkerTypes' /\ held' = held
  BY TypesByPart DEF ExecuteSucceeds, Goto, WorkerTypes, Working
<1>2. held[w] \in Events
  BY DEF ExecuteSucceeds, Types, HookTypeOK, Working
<1>3. runs' \in [Events -> Nat]
  BY <1>2 DEF ExecuteSucceeds, Types, HookTypeOK
<1> QED
  BY <1>1, <1>3, HookQueueAssumption
     DEF ExecuteSucceeds, SpendFault, tableVars, historyVars, WorkerTypes, Types, HookTypeOK,
         DownHoldsNothing, Working

LEMMA ExecuteFailsTypes ==
    ASSUME Types, NEW w \in Workers, ExecuteFails(w)
    PROVE  Types'
<1>1. WorkerTypes' /\ held' = held
  BY TypesByPart DEF ExecuteFails, Goto, WorkerTypes, Working
<1>2. held[w] \in Events
  BY DEF ExecuteFails, Types, HookTypeOK, Working
<1> QED
  BY <1>1, <1>2, HookQueueAssumption
     DEF ExecuteFails, SpendFault, tableVars, historyVars, WorkerTypes, Types, HookTypeOK,
         DownHoldsNothing, Working

LEMMA CompleteLeaseLostTypes ==
    ASSUME Types, NEW w \in Workers, CompleteLeaseLost(w)
    PROVE  Types'
<1>1. WorkerTypes' /\ held' = held
  BY TypesByPart DEF CompleteLeaseLost, Goto, WorkerTypes, Working
<1>2. held[w] \in Events
  BY DEF CompleteLeaseLost, Types, HookTypeOK, Working
<1> QED
  BY <1>1, <1>2, HookQueueAssumption
     DEF CompleteLeaseLost, SpendFault, tableVars, historyVars, WorkerTypes, Types, HookTypeOK,
         DownHoldsNothing, Working

LEMMA CompleteRaisesTypes ==
    ASSUME Types, NEW w \in Workers, CompleteRaises(w)
    PROVE  Types'
<1>1. WorkerTypes' /\ held' = held
  BY TypesByPart DEF CompleteRaises, Goto, WorkerTypes, Working
<1>2. held[w] \in Events
  BY DEF CompleteRaises, Types, HookTypeOK, Working
<1>3. disturbed' \subseteq Events
  BY <1>2 DEF CompleteRaises, Types, HookTypeOK
<1> QED
  BY <1>1, <1>3, HookQueueAssumption
     DEF CompleteRaises, SpendFault, tableVars, historyVars, WorkerTypes, Types, HookTypeOK,
         DownHoldsNothing, Working

LEMMA FailLeaseLostTypes ==
    ASSUME Types, NEW w \in Workers, FailLeaseLost(w)
    PROVE  Types'
<1>1. WorkerTypes' /\ \A v \in Workers : held'[v] = IF v = w THEN None ELSE held[v]
  BY TypesByPart, EndTurnTypes DEF FailLeaseLost
<1> QED
  BY <1>1, HookQueueAssumption
     DEF FailLeaseLost, SpendFault, tableVars, historyVars, WorkerTypes, Types, HookTypeOK,
         DownHoldsNothing, Working

LEMMA FailBusyTypes ==
    ASSUME Types, NEW w \in Workers, FailBusy(w)
    PROVE  Types'
<1>1. WorkerTypes' /\ \A v \in Workers : held'[v] = IF v = w THEN None ELSE held[v]
  BY TypesByPart, EndTurnTypes DEF FailBusy
<1> QED
  BY <1>1, HookQueueAssumption
     DEF FailBusy, SpendFault, tableVars, historyVars, WorkerTypes, Types, HookTypeOK,
         DownHoldsNothing, Working

LEMMA CompleteTypes ==
    ASSUME Types, NEW w \in Workers, Complete(w)
    PROVE  Types'
<1>1. held[w] \in Events
  BY DEF Complete, Owns, Types, HookTypeOK
<1>2. LeaseColumns'
  BY <1>1, TypesByPart, SettleTypes DEF Complete
<1>3. WorkerTypes' /\ \A v \in Workers : held'[v] = IF v = w THEN None ELSE held[v]
  BY TypesByPart, EndTurnTypes DEF Complete
<1> QED
  BY <1>2, <1>3
     DEF Complete, Settle, historyVars, WorkerTypes, LeaseColumns, Types, HookTypeOK,
         DownHoldsNothing

LEMMA FailTypes ==
    ASSUME Types, NEW w \in Workers, Fail(w)
    PROVE  Types'
<1> DEFINE verdict == IF Retries(held[w]) THEN "queued" ELSE "failed"
<1>1. held[w] \in Events
  BY DEF Fail, Owns, Types, HookTypeOK
<1>2. LeaseColumns'
  <2>1. verdict \in {"queued", "completed", "failed"} /\ Settle(w, verdict)
    BY DEF Fail
  <2> QED BY <2>1, <1>1, TypesByPart, SettleTypes
<1>3. WorkerTypes' /\ \A v \in Workers : held'[v] = IF v = w THEN None ELSE held[v]
  BY TypesByPart, EndTurnTypes DEF Fail
<1>4. failures' \in [Events -> Nat]
  BY <1>1 DEF Fail, Types, HookTypeOK
<1> QED
  BY <1>2, <1>3, <1>4
     DEF Fail, Settle, WorkerTypes, LeaseColumns, Types, HookTypeOK, DownHoldsNothing

LEMMA RequestStopTypes ==
    ASSUME Types, RequestStop
    PROVE  Types'
BY HookQueueAssumption, NoneAssumption
   DEF Types, HookTypeOK, DownHoldsNothing, RequestStop, SpendFault, tableVars, workerVars, historyVars, Working

LEMMA ProcessEndsTypes ==
    ASSUME Types, ProcessEnds
    PROVE  Types'
BY HookQueueAssumption, NoneAssumption
   DEF Types, HookTypeOK, DownHoldsNothing, ProcessEnds, SpendFault, tableVars, workerVars, historyVars, Working

LEMMA NextTypes == Types /\ [HookNext]_hookVars => Types'
<1> SUFFICES ASSUME Types, [HookNext]_hookVars PROVE Types'
  OBVIOUS
<1>1. CASE UNCHANGED hookVars
  BY <1>1 DEF Types, HookTypeOK, DownHoldsNothing, hookVars, tableVars, workerVars,
              historyVars, Working
<1>2. CASE \E e \in Events, p \in Payloads : Enqueue(e, p)
  BY <1>2, EnqueueTypes
<1>3. CASE \E e \in Events : ComesDue(e) \/ LapseUnattended(e) \/ LapseWhileRenewed(e)
  BY <1>3, ComesDueTypes, LapseUnattendedTypes, LapseWhileRenewedTypes
<1>4. CASE \E S \in SUBSET Events : Expire(S)
  BY <1>4, ExpireTypes
<1>5. CASE \E w \in Workers : Turn(w)
  BY <1>5, ClaimTypes, ClaimNothingTypes, ExecuteSucceedsTypes, CompleteTypes,
     CompleteLeaseLostTypes, FailTypes, FailLeaseLostTypes DEF Turn
<1>6. CASE \E w \in Workers : Trouble(w) \/ Renew(w)
  BY <1>6, ClaimBusyTypes, RenewBusyTypes, ExecuteFailsTypes, CompleteRaisesTypes,
     FailBusyTypes, RenewTypes DEF Trouble
<1>7. CASE RequestStop \/ ProcessEnds \/ Boot
  BY <1>7, RequestStopTypes, ProcessEndsTypes, BootTypes
<1> QED
  BY <1>1, <1>2, <1>3, <1>4, <1>5, <1>6, <1>7 DEF HookNext

--------------------------------------------------------------------------------
(* Attempts and failures. *)

\* An event has a row or a tombstone, never both, and neither until it is
\* accepted with no attempt charged.
OneRecord == \A e \in Events : grave[e] # "absent" => status[e] = "absent"

Uncharged == \A e \in Events :
    status[e] = "absent" /\ grave[e] = "absent" => attempts[e] = 0

\* AttemptBudget is not inductive: a failure must leave room for itself.
RoomForFailure == \A e \in Events :
    "failed" \notin {status[e], grave[e]} => failures[e] < MaxAttempts

Counts == OneRecord /\ Uncharged /\ AttemptsAccounted /\ AttemptBudget /\ RoomForFailure

countVars == <<status, grave, attempts, failures, returned>>

LEMMA InitCounts == HookInit => Counts
BY HookQueueAssumption
   DEF HookInit, Zero, Counts, OneRecord, Uncharged, AttemptsAccounted, AttemptBudget,
       RoomForFailure

LEMMA EnqueueCounts ==
    ASSUME Types, Counts, NEW e \in Events, NEW p \in Payloads, Enqueue(e, p)
    PROVE  Counts'
<1>1. /\ status' = [status EXCEPT ![e] = "queued"]
      /\ attempts' = [attempts EXCEPT ![e] = 0]
      /\ UNCHANGED <<grave, failures, returned>>
      /\ status[e] = "absent" /\ grave[e] = "absent"
  BY DEF Enqueue, Known, historyVars
<1>2. failures[e] = 0 /\ returned[e] = 0
  BY <1>1 DEF Types, HookTypeOK, Counts, Uncharged, AttemptsAccounted
<1> QED
  BY <1>1, <1>2, HookQueueAssumption
     DEF Types, HookTypeOK, Counts, OneRecord, Uncharged, AttemptsAccounted, AttemptBudget,
         RoomForFailure

LEMMA ExpireCounts ==
    ASSUME Types, Counts, NEW S \in SUBSET Events, Expire(S)
    PROVE  Counts'
BY DEF Expire, historyVars, Types, HookTypeOK, Counts, OneRecord, Uncharged,
       AttemptsAccounted, AttemptBudget, RoomForFailure

LEMMA LeaseCounts ==
    ASSUME Types, Counts, NEW S \in SUBSET Events, NEW e, NEW w,
           \A f \in S : status[f] = "processing",
           e \in Events => status[e] = "queued" \/ e \in S,
           Lease(S, e, w)
    PROVE  Counts'
<1>1. ASSUME NEW f \in Events
      PROVE  /\ f = e => status'[f] = "processing" /\ attempts'[f] = attempts[f] + 1
             /\ f # e => attempts'[f] = attempts[f]
             /\ f \in S => returned'[f] = returned[f] + 1
             /\ f \notin S => returned'[f] = returned[f]
             /\ f # e /\ f \in S => status'[f] = "queued"
             /\ f # e /\ f \notin S => status'[f] = status[f]
             /\ grave'[f] = grave[f] /\ failures'[f] = failures[f]
  BY DEF Lease, AttemptsKept, Types, HookTypeOK
<1>2. \A f \in Events : /\ attempts[f] \in Nat /\ failures[f] \in Nat /\ returned[f] \in Nat
                        /\ grave[f] \in {"absent", "completed", "failed"}
                        /\ f = e => status[f] \in {"queued", "processing"}
                        /\ f \in S => status[f] = "processing"
                        /\ f = e /\ f \notin S => status[f] = "queued"
  BY DEF Types, HookTypeOK
<1>3. OneRecord' /\ Uncharged'
  BY <1>1, <1>2 DEF Counts, OneRecord, Uncharged
<1>4. AttemptsAccounted'
  <2>1. SUFFICES ASSUME NEW f \in Events
                 PROVE  attempts'[f] = failures'[f] + returned'[f]
                            + IF status'[f] \in {"processing", "completed"} \/ grave'[f] = "completed"
                              THEN 1 ELSE 0
    BY DEF AttemptsAccounted
  <2>0. attempts[f] \in Nat /\ failures[f] \in Nat /\ returned[f] \in Nat
    BY <1>2
  <2>2. attempts[f] = failures[f] + returned[f]
                          + IF status[f] \in {"processing", "completed"} \/ grave[f] = "completed"
                            THEN 1 ELSE 0
    BY DEF Counts, AttemptsAccounted
  <2>3. f = e => grave[f] = "absent"
    BY <1>2 DEF Counts, OneRecord
  <2>4. f \in S => grave[f] = "absent"
    BY <1>2 DEF Counts, OneRecord
  <2>5. CASE f = e /\ f \in S
    <3>1. attempts[f] = failures[f] + returned[f] + 1
      BY <1>2, <2>0, <2>2, <2>5
    <3>2. /\ attempts'[f] = attempts[f] + 1 /\ returned'[f] = returned[f] + 1
          /\ failures'[f] = failures[f] /\ status'[f] = "processing"
      BY <1>1, <2>5
    <3> QED BY <2>0, <3>1, <3>2
  <2>6. CASE f = e /\ f \notin S
    <3>1. attempts[f] = failures[f] + returned[f]
      BY <1>2, <2>0, <2>2, <2>3, <2>6
    <3>2. /\ attempts'[f] = attempts[f] + 1 /\ returned'[f] = returned[f]
          /\ failures'[f] = failures[f] /\ status'[f] = "processing"
      BY <1>1, <2>6
    <3> QED BY <2>0, <3>1, <3>2
  <2>7. CASE f # e /\ f \in S
    <3>1. attempts[f] = failures[f] + returned[f] + 1
      BY <1>2, <2>0, <2>2, <2>7
    <3>2. /\ attempts'[f] = attempts[f] /\ returned'[f] = returned[f] + 1
          /\ failures'[f] = failures[f] /\ status'[f] = "queued"
          /\ grave'[f] = "absent"
      BY <1>1, <2>4, <2>7
    <3> QED BY <2>0, <3>1, <3>2
  <2>8. CASE f # e /\ f \notin S
    <3>1. /\ attempts'[f] = attempts[f] /\ returned'[f] = returned[f]
          /\ failures'[f] = failures[f] /\ status'[f] = status[f]
          /\ grave'[f] = grave[f]
      BY <1>1, <2>8
    <3> QED BY <2>2, <3>1
  <2> QED BY <2>5, <2>6, <2>7, <2>8
<1>5. AttemptBudget' /\ RoomForFailure'
  <2>1. SUFFICES ASSUME NEW f \in Events
                 PROVE  /\ failures'[f] <= MaxAttempts
                        /\ "failed" \in {status'[f], grave'[f]} => attempts'[f] >= MaxAttempts
                        /\ "failed" \notin {status'[f], grave'[f]} => failures'[f] < MaxAttempts
    BY DEF AttemptBudget, RoomForFailure
  <2>2. /\ failures[f] <= MaxAttempts
        /\ "failed" \in {status[f], grave[f]} => attempts[f] >= MaxAttempts
        /\ "failed" \notin {status[f], grave[f]} => failures[f] < MaxAttempts
    BY DEF Counts, AttemptBudget, RoomForFailure
  <2>3. f = e \/ f \in S => grave[f] = "absent"
    BY <1>2 DEF Counts, OneRecord
  <2>4. CASE f = e \/ f \in S
    BY <1>1, <1>2, <2>2, <2>3, <2>4, HookQueueAssumption
  <2>5. CASE f # e /\ f \notin S
    BY <1>1, <1>2, <2>2, <2>5, HookQueueAssumption
  <2> QED BY <2>4, <2>5
<1> QED
  BY <1>3, <1>4, <1>5 DEF Counts

LEMMA CompleteCounts ==
    ASSUME Types, Counts, NEW w \in Workers, Complete(w)
    PROVE  Counts'
<1>1. /\ held[w] \in Events /\ status[held[w]] = "processing"
      /\ status' = [status EXCEPT ![held[w]] = "completed"]
      /\ UNCHANGED <<grave, attempts, failures, returned>>
  BY DEF Complete, Owns, Settle, historyVars, Types, HookTypeOK
<1> QED
  BY <1>1 DEF Types, HookTypeOK, Counts, OneRecord, Uncharged, AttemptsAccounted,
              AttemptBudget, RoomForFailure

\* The one step that records a failure: below the limit there was room for it,
\* because an attempt is charged for each.
LEMMA FailCounts ==
    ASSUME Types, Counts, NEW w \in Workers, Fail(w)
    PROVE  Counts'
<1> DEFINE e == held[w]
<1>1. /\ e \in Events /\ status[e] = "processing" /\ grave[e] = "absent"
      /\ status' = [status EXCEPT ![e] = IF Retries(e) THEN "queued" ELSE "failed"]
      /\ failures' = [failures EXCEPT ![e] = @ + 1]
      /\ UNCHANGED <<grave, attempts, returned>>
  BY DEF Fail, Owns, Settle, Types, HookTypeOK, Counts, OneRecord
<1>2. attempts[e] = failures[e] + returned[e] + 1 /\ failures[e] < MaxAttempts
  BY <1>1 DEF Counts, AttemptsAccounted, RoomForFailure
<1> HIDE DEF e
<1>3. OneRecord' /\ Uncharged'
  BY <1>1 DEF Counts, OneRecord, Uncharged, Types, HookTypeOK
<1>4. AttemptsAccounted'
  BY <1>1, <1>2 DEF Counts, AttemptsAccounted, Types, HookTypeOK
<1>5. AttemptBudget' /\ RoomForFailure'
  BY <1>1, <1>2, HookQueueAssumption
     DEF Counts, AttemptBudget, RoomForFailure, Retries, Types, HookTypeOK
<1> QED
  BY <1>3, <1>4, <1>5 DEF Counts

LEMMA CountsKept == Counts /\ UNCHANGED countVars => Counts'
BY DEF countVars, Counts, OneRecord, Uncharged, AttemptsAccounted, AttemptBudget,
       RoomForFailure

LEMMA TakesBackProcessing ==
    ASSUME Types
    PROVE  TakesBack \in SUBSET Events /\ \A f \in TakesBack : status[f] = "processing"
BY DEF TakesBack, Types, HookTypeOK

LEMMA NextCounts == Types /\ Counts /\ [HookNext]_hookVars => Counts'
<1> SUFFICES ASSUME Types, Counts, [HookNext]_hookVars PROVE Counts'
  OBVIOUS
<1>1. CASE UNCHANGED hookVars
  BY <1>1, CountsKept DEF hookVars, tableVars, historyVars, countVars
<1>2. CASE \E e \in Events, p \in Payloads : Enqueue(e, p)
  BY <1>2, EnqueueCounts
<1>3. CASE \E e \in Events : ComesDue(e) \/ LapseUnattended(e) \/ LapseWhileRenewed(e)
  BY <1>3, CountsKept
     DEF ComesDue, LapseUnattended, LapseWhileRenewed, historyVars, countVars
<1>4. CASE \E S \in SUBSET Events : Expire(S)
  BY <1>4, ExpireCounts
<1>5. ASSUME NEW w \in Workers, Turn(w) PROVE Counts'
  <2>1. CASE \E e \in Events : Claim(w, e)
    <3>1. PICK e \in Events : Claim(w, e)
      BY <2>1
    <3>2. Lease(TakesBack, e, w) /\ (status[e] = "queued" \/ e \in TakesBack)
      BY <3>1 DEF Claim, Claimable
    <3> QED BY <3>2, TakesBackProcessing, LeaseCounts
  <2>2. CASE ClaimNothing(w)
    <3>1. Lease(TakesBack, None, w) /\ None \notin Events
      BY <2>2, NoneAssumption DEF ClaimNothing
    <3> QED BY <3>1, TakesBackProcessing, LeaseCounts
  <2>3. CASE Complete(w) \/ Fail(w)
    BY <2>3, CompleteCounts, FailCounts
  <2>4. CASE ExecuteSucceeds(w) \/ CompleteLeaseLost(w) \/ FailLeaseLost(w)
    BY <2>4, CountsKept
       DEF ExecuteSucceeds, CompleteLeaseLost, FailLeaseLost, tableVars, historyVars, countVars
  <2> QED BY <1>5, <2>1, <2>2, <2>3, <2>4 DEF Turn
<1>6. CASE \E w \in Workers : Trouble(w) \/ Renew(w)
  BY <1>6, CountsKept
     DEF Trouble, ClaimBusy, RenewBusy, ExecuteFails, CompleteRaises, FailBusy, Renew,
         tableVars, historyVars, countVars
<1>7. CASE RequestStop \/ ProcessEnds
  BY <1>7, CountsKept DEF RequestStop, ProcessEnds, tableVars, historyVars, countVars
<1>8. CASE Boot
  <2>1. Lease(RecoversAll, None, None) /\ None \notin Events
    BY <1>8, NoneAssumption DEF Boot
  <2>2. RecoversAll \in SUBSET Events /\ \A f \in RecoversAll : status[f] = "processing"
    BY DEF RecoversAll
  <2> QED BY <2>1, <2>2, LeaseCounts
<1> QED
  BY <1>1, <1>2, <1>3, <1>4, <1>5, <1>6, <1>7, <1>8 DEF HookNext

--------------------------------------------------------------------------------
(* Executions. *)

\* A job that nothing has disturbed is held by the worker its row names and by
\* no other, and has not run unless that worker is about to complete it or has.
OneHolder == \A e \in Events \ disturbed :
    /\ \A w \in Workers : held[w] = e =>
           /\ status[e] = "processing" /\ owner[e] = w
           /\ phase[w] # "completing" => runs[e] = 0
    /\ status[e] = "queued" => runs[e] = 0
    /\ status[e] = "absent" /\ grave[e] = "absent" => runs[e] = 0
    /\ runs[e] <= 1

LapsedDisturbed == lapsed \subseteq disturbed

Single == OneHolder /\ LapsedDisturbed

LEMMA InitSingle == HookInit => Single
BY NoneAssumption, HookQueueAssumption DEF HookInit, Zero, Single, OneHolder, LapsedDisturbed

LEMMA EnqueueSingle ==
    ASSUME Types, Single, NEW e \in Events, NEW p \in Payloads, Enqueue(e, p)
    PROVE  Single'
BY NoneAssumption
   DEF Types, HookTypeOK, DownHoldsNothing, Single, OneHolder, LapsedDisturbed, Enqueue, Known, workerVars, historyVars

LEMMA ComesDueSingle ==
    ASSUME Types, Single, NEW e \in Events, ComesDue(e)
    PROVE  Single'
BY NoneAssumption
   DEF Types, HookTypeOK, DownHoldsNothing, Single, OneHolder, LapsedDisturbed, ComesDue, workerVars, historyVars

LEMMA LapseSingle ==
    ASSUME Types, Single, NEW e \in Events, LapseUnattended(e) \/ LapseWhileRenewed(e)
    PROVE  Single'
BY NoneAssumption
   DEF Types, HookTypeOK, DownHoldsNothing, Single, OneHolder, LapsedDisturbed, LapseUnattended, LapseWhileRenewed, workerVars

LEMMA ExpireSingle ==
    ASSUME Types, Single, NEW S \in SUBSET Events, Expire(S)
    PROVE  Single'
BY NoneAssumption
   DEF Types, HookTypeOK, DownHoldsNothing, Single, OneHolder, LapsedDisturbed, Expire, workerVars, historyVars

LEMMA ClaimBusySingle ==
    ASSUME Types, Single, NEW w \in Workers, ClaimBusy(w)
    PROVE  Single'
BY NoneAssumption
   DEF Types, HookTypeOK, DownHoldsNothing, Single, OneHolder, LapsedDisturbed, ClaimBusy, tableVars, historyVars, Working

LEMMA RenewSingle ==
    ASSUME Types, Single, NEW w \in Workers, Renew(w)
    PROVE  Single'
BY NoneAssumption
   DEF Types, HookTypeOK, DownHoldsNothing, Single, OneHolder, LapsedDisturbed, Renew, workerVars, historyVars

LEMMA RenewBusySingle ==
    ASSUME Types, Single, NEW w \in Workers, RenewBusy(w)
    PROVE  Single'
BY NoneAssumption
   DEF Types, HookTypeOK, DownHoldsNothing, Single, OneHolder, LapsedDisturbed, RenewBusy, tableVars, historyVars

LEMMA ExecuteSucceedsSingle ==
    ASSUME Types, Single, NEW w \in Workers, ExecuteSucceeds(w)
    PROVE  Single'
BY NoneAssumption
   DEF Types, HookTypeOK, DownHoldsNothing, Single, OneHolder, LapsedDisturbed, ExecuteSucceeds, Goto, tableVars, Working

LEMMA ExecuteFailsSingle ==
    ASSUME Types, Single, NEW w \in Workers, ExecuteFails(w)
    PROVE  Single'
BY NoneAssumption
   DEF Types, HookTypeOK, DownHoldsNothing, Single, OneHolder, LapsedDisturbed, ExecuteFails, Goto, tableVars, historyVars, Working

LEMMA CompleteLeaseLostSingle ==
    ASSUME Types, Single, NEW w \in Workers, CompleteLeaseLost(w)
    PROVE  Single'
BY NoneAssumption
   DEF Types, HookTypeOK, DownHoldsNothing, Single, OneHolder, LapsedDisturbed, CompleteLeaseLost, Goto, Owns, tableVars, historyVars, Working

LEMMA CompleteRaisesSingle ==
    ASSUME Types, Single, NEW w \in Workers, CompleteRaises(w)
    PROVE  Single'
BY NoneAssumption
   DEF Types, HookTypeOK, DownHoldsNothing, Single, OneHolder, LapsedDisturbed, CompleteRaises, Goto, tableVars, Working

LEMMA GiveUpSingle ==
    ASSUME Types, Single, NEW w \in Workers, FailLeaseLost(w) \/ FailBusy(w)
    PROVE  Single'
BY NoneAssumption
   DEF Types, HookTypeOK, DownHoldsNothing, Single, OneHolder, LapsedDisturbed, FailLeaseLost, FailBusy, EndTurn, tableVars, historyVars, Working

LEMMA CompleteSingle ==
    ASSUME Types, Single, NEW w \in Workers, Complete(w)
    PROVE  Single'
BY NoneAssumption
   DEF Types, HookTypeOK, DownHoldsNothing, Single, OneHolder, LapsedDisturbed, Complete, Owns, Settle, EndTurn, historyVars, Working

LEMMA FailSingle ==
    ASSUME Types, Single, NEW w \in Workers, Fail(w)
    PROVE  Single'
BY NoneAssumption
   DEF Types, HookTypeOK, DownHoldsNothing, Single, OneHolder, LapsedDisturbed, Fail, Owns, Settle, EndTurn, historyVars, Working

LEMMA StopSingle ==
    ASSUME Types, Single, RequestStop \/ ProcessEnds
    PROVE  Single'
BY NoneAssumption
   DEF Types, HookTypeOK, DownHoldsNothing, Single, OneHolder, LapsedDisturbed, RequestStop, ProcessEnds, tableVars, workerVars, historyVars

LEMMA ClaimSingle ==
    ASSUME Types, Single, NEW w \in Workers, NEW e \in Events, Claim(w, e)
    PROVE  Single'
<1>1. TakesBack \subseteq disturbed
  BY DEF TakesBack, Single, LapsedDisturbed
<1>2. Lease(TakesBack, e, w) /\ (status[e] = "queued" \/ e \in TakesBack)
  BY DEF Claim, Claimable
<1> QED
  BY <1>1, <1>2, NoneAssumption
     DEF Types, HookTypeOK, Single, OneHolder, LapsedDisturbed, Claim, Lease, Working

LEMMA ClaimNothingSingle ==
    ASSUME Types, Single, NEW w \in Workers, ClaimNothing(w)
    PROVE  Single'
<1>1. TakesBack \subseteq disturbed
  BY DEF TakesBack, Single, LapsedDisturbed
<1> QED
  BY <1>1, NoneAssumption
     DEF Types, HookTypeOK, Single, OneHolder, LapsedDisturbed, ClaimNothing, Lease, Working

LEMMA BootSingle ==
    ASSUME Types, Single, Boot
    PROVE  Single'
BY NoneAssumption
   DEF Types, HookTypeOK, DownHoldsNothing, Single, OneHolder, LapsedDisturbed, Boot, Lease,
       RecoversAll

LEMMA NextSingle == Types /\ Single /\ [HookNext]_hookVars => Single'
<1> SUFFICES ASSUME Types, Single, [HookNext]_hookVars PROVE Single'
  OBVIOUS
<1>1. CASE UNCHANGED hookVars
  BY <1>1 DEF hookVars, tableVars, workerVars, historyVars, Single, OneHolder, LapsedDisturbed
<1>2. CASE \E e \in Events, p \in Payloads : Enqueue(e, p)
  BY <1>2, EnqueueSingle
<1>3. CASE \E e \in Events : ComesDue(e) \/ LapseUnattended(e) \/ LapseWhileRenewed(e)
  BY <1>3, ComesDueSingle, LapseSingle
<1>4. CASE \E S \in SUBSET Events : Expire(S)
  BY <1>4, ExpireSingle
<1>5. CASE \E w \in Workers : Turn(w)
  BY <1>5, ClaimSingle, ClaimNothingSingle, ExecuteSucceedsSingle, CompleteSingle,
     CompleteLeaseLostSingle, FailSingle, GiveUpSingle DEF Turn
<1>6. CASE \E w \in Workers : Trouble(w) \/ Renew(w)
  BY <1>6, ClaimBusySingle, RenewBusySingle, ExecuteFailsSingle, CompleteRaisesSingle,
     GiveUpSingle, RenewSingle DEF Trouble
<1>7. CASE RequestStop \/ ProcessEnds \/ Boot
  BY <1>7, StopSingle, BootSingle
<1> QED
  BY <1>1, <1>2, <1>3, <1>4, <1>5, <1>6, <1>7 DEF HookNext

--------------------------------------------------------------------------------
(* The invariant and the properties that follow from it. *)

Inv == Types /\ Counts /\ Single

\* The tables, the worker tasks, the charged attempts and the executions agree
\* after every step (hook_queue.py, app_lifecycle_hooks.py).
THEOREM HookInvariant == HookSpec => []Inv
<1>1. HookInit => Inv
  BY InitTypes, InitCounts, InitSingle DEF Inv
<1>2. Inv /\ [HookNext]_hookVars => Inv'
  BY NextTypes, NextCounts, NextSingle DEF Inv
<1> QED BY <1>1, <1>2, PTL DEF HookSpec

\* Every column and every task has its type, a lease has an owner, and a task
\* in a turn holds a job.
THEOREM HookTypesHold == HookSpec => []HookTypeOK
<1>1. Inv => HookTypeOK
  BY DEF Inv, Types
<1> QED BY <1>1, HookInvariant, PTL

\* Attempts are recorded failures, leases taken back and the present lease
\* (claim_next charges, fail and the recovery do not undo it).
THEOREM AttemptsAreAccounted == HookSpec => []AttemptsAccounted
<1>1. Inv => AttemptsAccounted
  BY DEF Inv, Counts
<1> QED BY <1>1, HookInvariant, PTL

\* No job fails more often than max_attempts, nor for good before as many
\* claims (fail).
THEOREM AttemptsAreBudgeted == HookSpec => []AttemptBudget
<1>1. Inv => AttemptBudget
  BY DEF Inv, Counts
<1> QED BY <1>1, HookInvariant, PTL

\* A job that nothing disturbed is executed by one worker at a time and succeeds
\* at most once, for any number of workers that compete for it.
THEOREM UndisturbedJobsRunOnce == HookSpec => []UndisturbedRunsOnce
<1>1. Inv => UndisturbedRunsOnce
  BY DEF Inv, Single, OneHolder, UndisturbedRunsOnce
<1> QED BY <1>1, HookInvariant, PTL

\* No other action than a verdict ends a job.
LEMMA StepSettles ==
    ASSUME Types, [HookNext]_hookVars, NEW e \in Events,
           status[e] = "processing", status'[e] \in {"completed", "failed"}
    PROVE  /\ held[owner[e]] = e
           /\ phase[owner[e]] \in {"completing", "failing"}
           /\ held'[owner[e]] = None
<1>1. ASSUME NEW w \in Workers, Complete(w) \/ Fail(w)
      PROVE  /\ held[owner[e]] = e
             /\ phase[owner[e]] \in {"completing", "failing"}
             /\ held'[owner[e]] = None
  BY <1>1 DEF Complete, Fail, Owns, Settle, EndTurn, Types, HookTypeOK
<1>2. ASSUME NEW S, NEW f, NEW w, Lease(S, f, w) PROVE FALSE
  BY <1>2 DEF Lease, Types, HookTypeOK
<1>3. ~UNCHANGED status
  OBVIOUS
<1>4. ASSUME NEW w \in Workers, Turn(w)
      PROVE  Complete(w) \/ Fail(w)
  BY <1>2, <1>3, <1>4
     DEF Turn, Claim, ClaimNothing, ExecuteSucceeds, CompleteLeaseLost, FailLeaseLost, tableVars
<1>5. ASSUME NEW w \in Workers, Trouble(w) \/ Renew(w) PROVE FALSE
  BY <1>3, <1>5
     DEF Trouble, ClaimBusy, RenewBusy, ExecuteFails, CompleteRaises, FailBusy, Renew, tableVars
<1>6. ASSUME NEW f \in Events, NEW p \in Payloads, Enqueue(f, p) PROVE FALSE
  BY <1>6 DEF Enqueue, Types, HookTypeOK
<1>7. ASSUME NEW f \in Events, ComesDue(f) \/ LapseUnattended(f) \/ LapseWhileRenewed(f)
      PROVE  FALSE
  BY <1>3, <1>7 DEF ComesDue, LapseUnattended, LapseWhileRenewed
<1>8. ASSUME NEW S \in SUBSET Events, Expire(S) PROVE FALSE
  BY <1>8 DEF Expire, Types, HookTypeOK
<1>9. ASSUME RequestStop \/ ProcessEnds \/ Boot PROVE FALSE
  BY <1>2, <1>3, <1>9 DEF RequestStop, ProcessEnds, Boot, tableVars
<1>10. ~UNCHANGED hookVars
  BY <1>3 DEF hookVars, tableVars
<1> QED
  BY <1>1, <1>4, <1>5, <1>6, <1>7, <1>8, <1>9, <1>10 DEF HookNext

\* Only the worker whose turn it is with the job, and who owns its lease, ends it
\* (complete and fail look for the owner's name in the row).
THEOREM HolderSettles == HookSpec => OnlyHolderSettles
<1>1. Types /\ [HookNext]_hookVars =>
        [\A e \in Events :
            status[e] = "processing" /\ status'[e] \in {"completed", "failed"} =>
                /\ held[owner[e]] = e
                /\ phase[owner[e]] \in {"completing", "failing"}
                /\ held'[owner[e]] = None]_hookVars
  BY StepSettles
<1>2. Inv => Types
  BY DEF Inv
<1> QED BY <1>1, <1>2, HookInvariant, PTL DEF HookSpec, OnlyHolderSettles

--------------------------------------------------------------------------------
(* The queue implements JobQueue. *)

Outcome == [e \in Events |-> JobState(e)]
Content == [e \in Events |-> payload[e]]

\* The mapped state, before and after a step.
LEMMA SeenNow ==
    ASSUME NEW e \in Events
    PROVE  JobState(e) = Seen(status[e], grave[e]) /\ JobState(e)' = Seen(status'[e], grave'[e])
BY DEF JobState

LEMMA InitRefines == HookInit => JQ!Init
BY DEF HookInit, JQ!Init, JobState, Seen

\* A step that a client cannot see.
LEMMA Unseen ==
    ASSUME payload' = payload,
           \A e \in Events : Seen(status'[e], grave'[e]) = Seen(status[e], grave[e])
    PROVE  Outcome' = Outcome /\ Content' = Content
BY SeenNow DEF Outcome, Content

\* Both modules count with the same operator.
LEMMA SameCardinality ==
    ASSUME NEW S
    PROVE  JQ!Cardinality(S) = Cardinality(S)
BY DEF JQ!Cardinality, Cardinality

\* An id that no row and no tombstone knows is new to the client too.
LEMMA EnqueueAccepts ==
    ASSUME Types, Counts, NEW e \in Events, NEW p \in Payloads, Enqueue(e, p)
    PROVE  JQ!Accept(e, p)
<1>1. \A f \in Events : Seen(status[f], grave[f]) = "open" <=> f \in Pending
  BY DEF Seen, Pending, Counts, OneRecord, Types, HookTypeOK
<1>2. JQ!Open = Pending
  BY <1>1, SeenNow DEF JQ!Open, Pending
<1>3. Outcome[e] = "unknown" /\ Cardinality(JQ!Open) < Capacity
  BY <1>2, SeenNow DEF Enqueue, Known, HasRoom, Outcome, Seen
<1>4. \A f \in Events : status'[f] = IF f = e THEN "queued" ELSE status[f]
  BY DEF Enqueue, Types, HookTypeOK
<1>5. grave' = grave /\ grave[e] = "absent"
  BY DEF Enqueue, Known
<1>6. \A f \in Events : JobState(f)' = IF f = e THEN "open" ELSE JobState(f)
  BY <1>4, <1>5, SeenNow DEF Seen
<1>7. Outcome' = [Outcome EXCEPT ![e] = "open"]
  BY <1>6 DEF Outcome
<1>8. Content' = [Content EXCEPT ![e] = p]
  BY DEF Enqueue, Content, Types, HookTypeOK
<1> QED
  BY <1>3, <1>7, <1>8, SameCardinality DEF JQ!Accept, JQ!Open, Outcome, Content

\* A verdict ends a job, or sends it back without the client seeing it.
LEMMA VerdictEnds ==
    ASSUME Types, Counts, NEW w \in Workers, Complete(w) \/ Fail(w)
    PROVE  \/ \E how \in {"completed", "failed"} : JQ!End(held[w], how)
           \/ Outcome' = Outcome /\ Content' = Content
<1> DEFINE e == held[w]
<1>1. PICK verdict \in {"queued", "completed", "failed"} :
         status' = [status EXCEPT ![e] = verdict]
  BY DEF Complete, Fail, Settle
<1>2. /\ e \in Events /\ status[e] = "processing" /\ grave[e] = "absent"
      /\ grave' = grave /\ payload' = payload
  BY DEF Complete, Fail, Settle, Owns, Counts, OneRecord, Types, HookTypeOK
<1> HIDE DEF e
<1>3. \A f \in Events : status'[f] = IF f = e THEN verdict ELSE status[f]
  BY <1>1, <1>2 DEF Types, HookTypeOK
<1>4. CASE verdict = "queued"
  BY <1>2, <1>3, <1>4, Unseen DEF Seen
<1>5. CASE verdict # "queued"
  <2>1. Outcome[e] = "open" /\ Outcome' = [Outcome EXCEPT ![e] = verdict]
    BY <1>2, <1>3, <1>5, SeenNow DEF Outcome, Seen
  <2>2. Content' = Content
    BY <1>2 DEF Content
  <2> QED BY <1>5, <2>1, <2>2 DEF JQ!End, Outcome, Content, e
<1> QED BY <1>4, <1>5

\* Jobs that are leased or taken back stay open.
LEMMA LeaseUnseen ==
    ASSUME Types, NEW S, NEW e, NEW w, \A f \in S : status[f] = "processing",
           e \in Events => status[e] \in {"queued", "processing"}, Lease(S, e, w), Counts
    PROVE  Outcome' = Outcome /\ Content' = Content
<1>1. payload' = payload /\ grave' = grave
  BY DEF Lease
<1>2. \A f \in Events : status'[f] = status[f]
                       \/ {status[f], status'[f]} \subseteq {"queued", "processing"}
  BY DEF Lease, Types, HookTypeOK
<1> QED BY <1>1, <1>2, Unseen DEF Seen

\* A tombstone says what the row said.
LEMMA ExpireUnseen ==
    ASSUME Types, Counts, NEW S \in SUBSET Events, Expire(S)
    PROVE  Outcome' = Outcome /\ Content' = Content
<1>1. ASSUME NEW f \in Events
      PROVE  Seen(status'[f], grave'[f]) = Seen(status[f], grave[f])
  BY DEF Expire, Seen, Types, HookTypeOK, Counts, OneRecord
<1> QED BY <1>1, Unseen DEF Expire

LEMMA Untouched ==
    ASSUME UNCHANGED <<status, grave, payload>>
    PROVE  Outcome' = Outcome /\ Content' = Content
BY Unseen

\* Every step of the queue is a step of JobQueue or is not seen by a client.
LEMMA NextRefines ==
    ASSUME Types, Counts, [HookNext]_hookVars
    PROVE  [JQ!Next]_<<Outcome, Content>>
<1>1. CASE UNCHANGED hookVars
  BY <1>1, Untouched DEF hookVars, tableVars
<1>2. ASSUME NEW e \in Events, NEW p \in Payloads, Enqueue(e, p) PROVE JQ!Next
  BY <1>2, EnqueueAccepts DEF JQ!Next
<1>3. CASE \E e \in Events : ComesDue(e) \/ LapseUnattended(e) \/ LapseWhileRenewed(e)
  BY <1>3, Untouched DEF ComesDue, LapseUnattended, LapseWhileRenewed
<1>4. CASE \E S \in SUBSET Events : Expire(S)
  BY <1>4, ExpireUnseen
<1>5. ASSUME NEW w \in Workers, Turn(w) PROVE [JQ!Next]_<<Outcome, Content>>
  <2>1. ASSUME NEW e \in Events, Claim(w, e) PROVE Outcome' = Outcome /\ Content' = Content
    <3>1. Lease(TakesBack, e, w) /\ status[e] \in {"queued", "processing"}
      BY <2>1, TakesBackProcessing DEF Claim, Claimable
    <3> QED BY <3>1, TakesBackProcessing, LeaseUnseen
  <2>2. CASE ClaimNothing(w)
    <3>1. Lease(TakesBack, None, w) /\ None \notin Events
      BY <2>2, NoneAssumption DEF ClaimNothing
    <3> QED BY <3>1, TakesBackProcessing, LeaseUnseen
  <2>3. CASE Complete(w) \/ Fail(w)
    <3>1. held[w] \in Events
      BY <2>3 DEF Complete, Fail, Owns, Types, HookTypeOK
    <3> QED BY <2>3, <3>1, VerdictEnds DEF JQ!Next
  <2>4. CASE ExecuteSucceeds(w) \/ CompleteLeaseLost(w) \/ FailLeaseLost(w)
    BY <2>4, Untouched DEF ExecuteSucceeds, CompleteLeaseLost, FailLeaseLost, tableVars
  <2> QED BY <1>5, <2>1, <2>2, <2>3, <2>4 DEF Turn
<1>6. CASE \E w \in Workers : Trouble(w) \/ Renew(w)
  BY <1>6, Untouched
     DEF Trouble, ClaimBusy, RenewBusy, ExecuteFails, CompleteRaises, FailBusy, Renew, tableVars
<1>7. CASE RequestStop \/ ProcessEnds
  BY <1>7, Untouched DEF RequestStop, ProcessEnds, tableVars
<1>8. CASE Boot
  <2>1. Lease(RecoversAll, None, None) /\ None \notin Events
    BY <1>8, NoneAssumption DEF Boot
  <2>2. \A f \in RecoversAll : status[f] = "processing"
    BY DEF RecoversAll
  <2> QED BY <2>1, <2>2, LeaseUnseen
<1> QED
  BY <1>1, <1>2, <1>3, <1>4, <1>5, <1>6, <1>7, <1>8 DEF HookNext

\* The tables, under all their workers, retries, restarts and retention, keep
\* the promises of JobQueue to whoever submits a hook.
THEOREM HookQueueImplementsJobQueue == HookSpec => ImplementsJobQueue
<1>1. Inv /\ [HookNext]_hookVars => [JQ!Next]_<<Outcome, Content>>
  BY NextRefines DEF Inv
<1>2. HookSpec => JQ!Init /\ [][JQ!Next]_<<Outcome, Content>>
  BY <1>1, InitRefines, HookInvariant, PTL DEF HookSpec
<1>3. ImplementsJobQueue <=> JQ!Init /\ [][JQ!Next]_<<Outcome, Content>>
  BY DEF ImplementsJobQueue, JQ!Spec, Outcome, Content
<1> QED BY <1>2, <1>3
================================================================================
