-------------------------- MODULE MemoryOutboxProofs --------------------------
(***************************************************************************)
(* What holds of the outbox for any number of rows and workers, any batch  *)
(* size, any number of attempts and any number of faults.                  *)
(*                                                                         *)
(* The inductive invariant is Inv.  Beyond the invariants that TLC checks  *)
(* it says where tokens come from: none is larger than the claims of its   *)
(* row (TokensIssued), and no two workers hold the same one                *)
(* (LeasesDistinct).  OneOwner alone is not inductive: a stale lease of a  *)
(* row that is pending might equal the token of the row's next claim.      *)
(***************************************************************************)
EXTENDS MemoryOutbox, TLAPS

TokensIssued ==
    \A e \in Events : /\ token[e] <= claims[e]
                      /\ \A w \in Workers : lease[w][e] <= claims[e]

LeasesDistinct ==
    \A e \in Events : \A v, w \in Workers :
        lease[v][e] # NoToken /\ lease[v][e] = lease[w][e] => v = w

Inv ==
    /\ OutboxTypeOK
    /\ TokenOnlyWhileProcessing
    /\ TokensIssued
    /\ LeasesDistinct
    /\ AttemptsAreStrikes
    /\ DeadLettersAreExhausted

--------------------------------------------------------------------------------
(* Every step keeps the types. *)

\* Initially every variable has its type (the schema of memory_outbox).
LEMMA InitTypeOK == OutboxInit => OutboxTypeOK
BY DEF OutboxInit, OutboxTypeOK, Statuses, NoToken

\* A verdict's bookkeeping in the worker keeps the worker's types.
LEMMA LetGoTypeOK ==
    ASSUME OutboxTypeOK, NEW w \in Workers, NEW e \in Events, LetGo(w, e)
    PROVE  /\ lease' \in [Workers -> [Events -> Nat]]
           /\ mode' \in [Workers -> {"idle", "projecting", "deferring"}]
           /\ epoch' \in [Workers -> Nat]
BY DEF OutboxTypeOK, LetGo, NoToken

\* Leaving processing keeps the types of the token columns.
LEMMA ReleaseTypeOK ==
    ASSUME OutboxTypeOK, NEW e \in Events, Release(e)
    PROVE  /\ token' \in [Events -> Nat]
           /\ fence' \in [Events -> Generations \cup {<<>>}]
           /\ expired' \subseteq Events
BY DEF OutboxTypeOK, Release, NoToken

\* A claim keeps the types: it writes every column of its batch.
LEMMA ClaimTypeOK ==
    ASSUME OutboxTypeOK, NEW w \in Workers, ClaimOutbox(w)
    PROVE  OutboxTypeOK'
<1> DEFINE batch == FirstOf(Claimable, BatchSize)
<1>1. Generation(w) \in Generations
  BY DEF Generation, Generations, OutboxTypeOK
<1>2. status' \in [Events -> Statuses]
  BY DEF ClaimOutbox, OutboxTypeOK, Statuses
<1>3. attempts' \in [Events -> Nat] /\ claims' \in [Events -> Nat] /\ strikes' \in [Events -> Nat]
  BY DEF ClaimOutbox, OutboxTypeOK
<1>4. token' \in [Events -> Nat]
  BY DEF ClaimOutbox, OutboxTypeOK, FreshToken, NoToken
<1>5. fence' \in [Events -> Generations \cup {<<>>}]
  BY <1>1 DEF ClaimOutbox, OutboxTypeOK
<1>6. lease' \in [Workers -> [Events -> Nat]]
  <2>1. [e \in Events |-> IF e \in batch THEN FreshToken(e) ELSE NoToken] \in [Events -> Nat]
    BY DEF OutboxTypeOK, FreshToken, NoToken
  <2> QED BY <2>1 DEF ClaimOutbox, OutboxTypeOK
<1>7. /\ mode' \in [Workers -> {"idle", "projecting", "deferring"}]
      /\ due' \subseteq Events /\ expired' \subseteq Events
      /\ epoch' \in [Workers -> Nat] /\ faults' \in Nat
  BY DEF ClaimOutbox, OutboxTypeOK
<1> QED BY <1>2, <1>3, <1>4, <1>5, <1>6, <1>7 DEF OutboxTypeOK

\* A verdict keeps the types.
LEMMA VerdictTypeOK ==
    ASSUME OutboxTypeOK, NEW w \in Workers, Verdict(w)
    PROVE  OutboxTypeOK'
<1> PICK e \in Events : AckOutbox(w, e) \/ FailOutbox(w, e) \/ DeferOutbox(w, e) \/ VerdictRaises(w, e)
  BY DEF Verdict
<1>1. CASE AckOutbox(w, e)
  <2>1. status' \in [Events -> Statuses]
    BY <1>1 DEF AckOutbox, OutboxTypeOK, Statuses
  <2>2. Release(e) /\ LetGo(w, e) /\ UNCHANGED <<attempts, due, claims, strikes, faults>>
    BY <1>1 DEF AckOutbox
  <2> QED BY <2>1, <2>2, LetGoTypeOK, ReleaseTypeOK DEF OutboxTypeOK
<1>2. CASE FailOutbox(w, e)
  <2>1. status' \in [Events -> Statuses]
    BY <1>2 DEF FailOutbox, OutboxTypeOK, Statuses
  <2>2. due' \subseteq Events /\ strikes' \in [Events -> Nat]
    BY <1>2 DEF FailOutbox, OutboxTypeOK
  <2>3. Release(e) /\ LetGo(w, e) /\ UNCHANGED <<attempts, claims, faults>>
    BY <1>2 DEF FailOutbox
  <2> QED BY <2>1, <2>2, <2>3, LetGoTypeOK, ReleaseTypeOK DEF OutboxTypeOK
<1>3. CASE DeferOutbox(w, e)
  <2>1. status' \in [Events -> Statuses]
    BY <1>3 DEF DeferOutbox, OutboxTypeOK, Statuses
  <2>2. attempts' \in [Events -> Nat] /\ due' \subseteq Events
    BY <1>3 DEF DeferOutbox, OutboxTypeOK, Uncharged
  <2>3. Release(e) /\ LetGo(w, e) /\ UNCHANGED <<claims, strikes, faults>>
    BY <1>3 DEF DeferOutbox
  <2> QED BY <2>1, <2>2, <2>3, LetGoTypeOK, ReleaseTypeOK DEF OutboxTypeOK
<1>4. CASE VerdictRaises(w, e)
  <2>1. faults' \in Nat
    BY <1>4 DEF VerdictRaises, SpendFault, OutboxTypeOK
  <2>2. LetGo(w, e) /\ UNCHANGED <<rowVars, claims, strikes>>
    BY <1>4 DEF VerdictRaises
  <2> QED BY <2>1, <2>2, LetGoTypeOK DEF OutboxTypeOK, rowVars
<1> QED BY <1>1, <1>2, <1>3, <1>4

\* Every step of the outbox keeps the types.
LEMMA NextTypeOK ==
    ASSUME OutboxTypeOK, [OutboxNext]_outboxVars
    PROVE  OutboxTypeOK'
<1>1. CASE UNCHANGED outboxVars
  BY <1>1 DEF OutboxTypeOK, outboxVars, rowVars, workerVars
<1>2. ASSUME NEW rows \in SUBSET Events, InsertRows(rows) PROVE OutboxTypeOK'
  BY <1>2 DEF InsertRows, OutboxTypeOK, Statuses, workerVars
<1>3. ASSUME NEW w \in Workers, StartDeferral(w) PROVE OutboxTypeOK'
  BY <1>3 DEF StartDeferral, SpendFault, OutboxTypeOK, rowVars
<1>4. ASSUME NEW w \in Workers, CrashWorker(w) PROVE OutboxTypeOK'
  <2>1. lease' \in [Workers -> [Events -> Nat]]
    BY <1>4 DEF CrashWorker, OutboxTypeOK, NoToken
  <2> QED BY <1>4, <2>1 DEF CrashWorker, SpendFault, OutboxTypeOK, rowVars
<1>5. ASSUME NEW e \in Events, LeaseElapses(e) PROVE OutboxTypeOK'
  BY <1>5 DEF LeaseElapses, SpendFault, OutboxTypeOK, workerVars
<1>6. ASSUME NEW e \in Events, BackoffElapses(e) PROVE OutboxTypeOK'
  BY <1>6 DEF BackoffElapses, OutboxTypeOK, workerVars
<1>7. ASSUME NEW S \in SUBSET Events, RequeueDeadLetters(S) PROVE OutboxTypeOK'
  BY <1>7 DEF RequeueDeadLetters, ReopenDead, SpendFault, OutboxTypeOK, Statuses, workerVars
<1>8. ASSUME NEW e \in Events, PruneCompleted(e) PROVE OutboxTypeOK'
  BY <1>8 DEF PruneCompleted, OutboxTypeOK, Statuses, workerVars
<1> QED
  BY <1>1, <1>2, <1>3, <1>4, <1>5, <1>6, <1>7, <1>8, ClaimTypeOK, VerdictTypeOK
  DEF OutboxNext, Clock, Operator

--------------------------------------------------------------------------------
(* Tokens. *)

\* What a claim does to one row: claimed under a token larger than any before,
\* requeued, or left alone.
LEMMA ClaimRow ==
    ASSUME OutboxTypeOK, NEW w \in Workers, ClaimOutbox(w), NEW e \in Events
    PROVE  \/ /\ status[e] \in {"pending", "failed"} \/ e \in Requeued
              /\ status'[e] = "processing" /\ attempts'[e] = attempts[e] + 1
              /\ claims'[e] = claims[e] + 1 /\ token'[e] = claims[e] + 1
              /\ lease'[w][e] = claims[e] + 1
           \/ /\ e \in Requeued
              /\ status'[e] = "pending" /\ attempts'[e] = attempts[e]
              /\ claims'[e] = claims[e] /\ token'[e] = NoToken
              /\ lease'[w][e] = NoToken
           \/ /\ e \notin Requeued
              /\ status'[e] = status[e] /\ attempts'[e] = attempts[e]
              /\ claims'[e] = claims[e] /\ token'[e] = token[e]
              /\ lease'[w][e] = NoToken
<1> DEFINE batch == FirstOf(Claimable, BatchSize)
<1>1. e \in batch => status[e] \in {"pending", "failed"} \/ e \in Requeued
  BY DEF FirstOf, Claimable
<1>2. /\ status'[e] = IF e \in batch THEN "processing"
                      ELSE IF e \in Requeued THEN "pending" ELSE status[e]
      /\ attempts'[e] = IF e \in batch THEN attempts[e] + 1 ELSE attempts[e]
      /\ claims'[e] = IF e \in batch THEN claims[e] + 1 ELSE claims[e]
      /\ token'[e] = IF e \in batch THEN claims[e] + 1
                     ELSE IF e \in Requeued THEN NoToken ELSE token[e]
  BY DEF ClaimOutbox, FreshToken
<1>3. lease'[w] = [f \in Events |-> IF f \in batch THEN FreshToken(f) ELSE NoToken]
  BY DEF ClaimOutbox, OutboxTypeOK
<1>4. lease'[w][e] = IF e \in batch THEN claims[e] + 1 ELSE NoToken
  BY <1>3 DEF FreshToken
<1> QED BY <1>1, <1>2, <1>4

\* The other workers' leases survive a claim.
LEMMA ClaimOthers ==
    ASSUME OutboxTypeOK, NEW w \in Workers, ClaimOutbox(w), NEW v \in Workers, v # w
    PROVE  lease'[v] = lease[v]
BY DEF ClaimOutbox, OutboxTypeOK

\* What a verdict does to the leases: the worker drops its own, no other changes.
LEMMA LetGoLeases ==
    ASSUME OutboxTypeOK, NEW w \in Workers, NEW e \in Events, LetGo(w, e),
           NEW v \in Workers, NEW f \in Events
    PROVE  lease'[v][f] = IF v = w /\ f = e THEN NoToken ELSE lease[v][f]
BY DEF OutboxTypeOK, LetGo

\* A verdict on a row by its owner: the row leaves processing and loses its token.
LEMMA VerdictRow ==
    ASSUME OutboxTypeOK, NEW w \in Workers, NEW e \in Events, NEW f \in Events,
           AckOutbox(w, e) \/ FailOutbox(w, e) \/ DeferOutbox(w, e)
    PROVE  /\ status[e] = "processing" /\ lease[w][e] # NoToken /\ token[e] = lease[w][e]
           /\ status'[e] \in {"completed", "dead_letter", "failed", "pending"}
           /\ token'[e] = NoToken
           /\ f # e => status'[f] = status[f] /\ token'[f] = token[f]
           /\ claims' = claims
           /\ LetGo(w, e)
<1>1. Owns(w, e) /\ Release(e) /\ LetGo(w, e) /\ claims' = claims
  BY DEF AckOutbox, FailOutbox, DeferOutbox
<1>2. token'[e] = NoToken /\ (f # e => token'[f] = token[f])
  BY <1>1 DEF Release, OutboxTypeOK
<1>3. /\ status'[e] \in {"completed", "dead_letter", "failed", "pending"}
      /\ f # e => status'[f] = status[f]
  BY DEF AckOutbox, FailOutbox, DeferOutbox, OutboxTypeOK
<1> QED BY <1>1, <1>2, <1>3 DEF Owns

\* A row has a token exactly while it is processing: preserved by every step.
LEMMA NextTokenOnly ==
    ASSUME OutboxTypeOK, TokenOnlyWhileProcessing, [OutboxNext]_outboxVars
    PROVE  TokenOnlyWhileProcessing'
<1> SUFFICES ASSUME NEW f \in Events
             PROVE  (status'[f] = "processing") <=> (token'[f] # NoToken)
  BY DEF TokenOnlyWhileProcessing
<1>0. (status[f] = "processing") <=> (token[f] # NoToken)
  BY DEF TokenOnlyWhileProcessing
<1>1. CASE UNCHANGED outboxVars
  BY <1>0, <1>1 DEF outboxVars, rowVars
<1>2. ASSUME NEW rows \in SUBSET Events, InsertRows(rows)
      PROVE  (status'[f] = "processing") <=> (token'[f] # NoToken)
  <2>1. f \in rows => status[f] = "absent"
    BY <1>2 DEF InsertRows, FirstOf, FreeRows
  <2> QED BY <1>0, <1>2, <2>1 DEF InsertRows
<1>3. ASSUME NEW w \in Workers, ClaimOutbox(w)
      PROVE  (status'[f] = "processing") <=> (token'[f] # NoToken)
  BY <1>0, <1>3, ClaimRow DEF OutboxTypeOK, NoToken
<1>4. ASSUME NEW w \in Workers, Verdict(w)
      PROVE  (status'[f] = "processing") <=> (token'[f] # NoToken)
  <2> PICK e \in Events : AckOutbox(w, e) \/ FailOutbox(w, e) \/ DeferOutbox(w, e) \/ VerdictRaises(w, e)
    BY <1>4 DEF Verdict
  <2>1. CASE VerdictRaises(w, e)
    BY <1>0, <2>1 DEF VerdictRaises, rowVars
  <2>2. CASE AckOutbox(w, e) \/ FailOutbox(w, e) \/ DeferOutbox(w, e)
    <3>1. CASE f = e
      BY <2>2, <3>1, VerdictRow
    <3>2. CASE f # e
      BY <1>0, <2>2, <3>2, VerdictRow
    <3> QED BY <3>1, <3>2
  <2> QED BY <2>1, <2>2
<1>5. ASSUME NEW w \in Workers, StartDeferral(w) \/ CrashWorker(w)
      PROVE  (status'[f] = "processing") <=> (token'[f] # NoToken)
  BY <1>0, <1>5 DEF StartDeferral, CrashWorker, rowVars
<1>6. ASSUME NEW e \in Events, LeaseElapses(e) \/ BackoffElapses(e)
      PROVE  (status'[f] = "processing") <=> (token'[f] # NoToken)
  BY <1>0, <1>6 DEF LeaseElapses, BackoffElapses
<1>7. ASSUME NEW S \in SUBSET Events, RequeueDeadLetters(S)
      PROVE  (status'[f] = "processing") <=> (token'[f] # NoToken)
  BY <1>0, <1>7 DEF RequeueDeadLetters, ReopenDead
<1>8. ASSUME NEW e \in Events, PruneCompleted(e)
      PROVE  (status'[f] = "processing") <=> (token'[f] # NoToken)
  BY <1>0, <1>8 DEF PruneCompleted, OutboxTypeOK
<1> QED
  BY <1>1, <1>2, <1>3, <1>4, <1>5, <1>6, <1>7, <1>8 DEF OutboxNext, Clock, Operator

\* No token of a row is larger than the claims of the row: preserved by every step.
LEMMA NextTokensIssued ==
    ASSUME OutboxTypeOK, TokensIssued, [OutboxNext]_outboxVars
    PROVE  TokensIssued'
<1> SUFFICES ASSUME NEW f \in Events
             PROVE  token'[f] <= claims'[f] /\ \A v \in Workers : lease'[v][f] <= claims'[f]
  BY DEF TokensIssued
<1> DEFINE Goal == token'[f] <= claims'[f] /\ \A v \in Workers : lease'[v][f] <= claims'[f]
<1>0. /\ token[f] <= claims[f] /\ token[f] \in Nat /\ claims[f] \in Nat
      /\ \A v \in Workers : lease[v][f] <= claims[f] /\ lease[v][f] \in Nat
  BY DEF TokensIssued, OutboxTypeOK
<1>1. CASE UNCHANGED outboxVars
  BY <1>0, <1>1 DEF outboxVars, rowVars, workerVars
<1>2. ASSUME NEW w \in Workers, ClaimOutbox(w) PROVE Goal
  <2>1. token'[f] <= claims'[f] /\ lease'[w][f] <= claims'[f] /\ claims'[f] >= claims[f]
    BY <1>0, <1>2, ClaimRow DEF NoToken
  <2>2. ASSUME NEW v \in Workers, v # w PROVE lease'[v][f] <= claims'[f]
    BY <1>0, <1>2, <2>2, ClaimRow, ClaimOthers DEF NoToken
  <2> QED BY <2>1, <2>2
<1>3. ASSUME NEW w \in Workers, Verdict(w) PROVE Goal
  <2> PICK e \in Events : AckOutbox(w, e) \/ FailOutbox(w, e) \/ DeferOutbox(w, e) \/ VerdictRaises(w, e)
    BY <1>3 DEF Verdict
  <2>1. LetGo(w, e) /\ claims' = claims
    BY DEF AckOutbox, FailOutbox, DeferOutbox, VerdictRaises
  <2>2. \A v \in Workers : lease'[v][f] \in {NoToken, lease[v][f]}
    BY <2>1, LetGoLeases
  <2>3. token'[f] \in {NoToken, token[f]}
    <3>1. CASE VerdictRaises(w, e)
      BY <3>1 DEF VerdictRaises, rowVars
    <3>2. CASE AckOutbox(w, e) \/ FailOutbox(w, e) \/ DeferOutbox(w, e)
      BY <3>2, VerdictRow
    <3> QED BY <3>1, <3>2
  <2> QED BY <1>0, <2>1, <2>2, <2>3 DEF NoToken
<1>4. ASSUME NEW w \in Workers, StartDeferral(w) PROVE Goal
  BY <1>0, <1>4 DEF StartDeferral, rowVars
<1>5. ASSUME NEW w \in Workers, CrashWorker(w) PROVE Goal
  <2>1. \A v \in Workers : lease'[v][f] \in {NoToken, lease[v][f]}
    BY <1>5 DEF CrashWorker, OutboxTypeOK
  <2> QED BY <1>0, <1>5, <2>1 DEF CrashWorker, rowVars, NoToken
<1>6. ASSUME NEW rows \in SUBSET Events, InsertRows(rows) PROVE Goal
  BY <1>0, <1>6 DEF InsertRows, workerVars
<1>7. ASSUME NEW e \in Events, LeaseElapses(e) \/ BackoffElapses(e) \/ PruneCompleted(e) PROVE Goal
  BY <1>0, <1>7 DEF LeaseElapses, BackoffElapses, PruneCompleted, workerVars
<1>8. ASSUME NEW S \in SUBSET Events, RequeueDeadLetters(S) PROVE Goal
  BY <1>0, <1>8 DEF RequeueDeadLetters, ReopenDead, workerVars
<1> QED
  BY <1>1, <1>2, <1>3, <1>4, <1>5, <1>6, <1>7, <1>8 DEF OutboxNext, Clock, Operator

\* No two workers hold the same token of a row: preserved by every step, since
\* a claim issues a token larger than all that are held.
LEMMA NextLeasesDistinct ==
    ASSUME OutboxTypeOK, TokensIssued, LeasesDistinct, [OutboxNext]_outboxVars
    PROVE  LeasesDistinct'
<1> SUFFICES ASSUME NEW f \in Events, NEW u \in Workers, NEW v \in Workers,
                    lease'[u][f] # NoToken, lease'[u][f] = lease'[v][f]
             PROVE  u = v
  BY DEF LeasesDistinct
<1>0. /\ lease[u][f] # NoToken /\ lease[u][f] = lease[v][f] => u = v
      /\ lease[u][f] <= claims[f] /\ lease[v][f] <= claims[f]
      /\ lease[u][f] \in Nat /\ lease[v][f] \in Nat /\ claims[f] \in Nat
  BY DEF LeasesDistinct, TokensIssued, OutboxTypeOK
<1>1. CASE UNCHANGED outboxVars
  BY <1>0, <1>1 DEF outboxVars, workerVars
<1>2. ASSUME NEW w \in Workers, ClaimOutbox(w) PROVE u = v
  <2>1. lease'[w][f] \in {NoToken, claims[f] + 1}
    BY <1>2, ClaimRow
  <2>2. u # w => lease'[u][f] = lease[u][f]
    BY <1>2, ClaimOthers
  <2>3. v # w => lease'[v][f] = lease[v][f]
    BY <1>2, ClaimOthers
  <2> QED BY <1>0, <2>1, <2>2, <2>3
<1>3. ASSUME NEW w \in Workers, Verdict(w) PROVE u = v
  <2> PICK e \in Events : AckOutbox(w, e) \/ FailOutbox(w, e) \/ DeferOutbox(w, e) \/ VerdictRaises(w, e)
    BY <1>3 DEF Verdict
  <2>1. LetGo(w, e)
    BY DEF AckOutbox, FailOutbox, DeferOutbox, VerdictRaises
  <2> QED BY <1>0, <2>1, LetGoLeases
<1>4. ASSUME NEW w \in Workers, StartDeferral(w) PROVE u = v
  BY <1>0, <1>4 DEF StartDeferral
<1>5. ASSUME NEW w \in Workers, CrashWorker(w) PROVE u = v
  <2>1. lease'[u][f] \in {NoToken, lease[u][f]} /\ lease'[v][f] \in {NoToken, lease[v][f]}
    BY <1>5 DEF CrashWorker, OutboxTypeOK
  <2> QED BY <1>0, <2>1
<1>6. ASSUME NEW rows \in SUBSET Events, InsertRows(rows) PROVE u = v
  BY <1>0, <1>6 DEF InsertRows, workerVars
<1>7. ASSUME NEW e \in Events, LeaseElapses(e) \/ BackoffElapses(e) \/ PruneCompleted(e) PROVE u = v
  BY <1>0, <1>7 DEF LeaseElapses, BackoffElapses, PruneCompleted, workerVars
<1>8. ASSUME NEW S \in SUBSET Events, RequeueDeadLetters(S) PROVE u = v
  BY <1>0, <1>8 DEF RequeueDeadLetters, ReopenDead, workerVars
<1> QED
  BY <1>1, <1>2, <1>3, <1>4, <1>5, <1>6, <1>7, <1>8 DEF OutboxNext, Clock, Operator

--------------------------------------------------------------------------------
(* Attempts. *)

\* The accounting of attempts is preserved by every step: a claim charges one,
\* a lost lease or a failure keeps the charge, an outage gives it back.
LEMMA NextAttemptsAreStrikes ==
    ASSUME OutboxTypeOK, AttemptsAreStrikes, [OutboxNext]_outboxVars
    PROVE  AttemptsAreStrikes'
<1> DEFINE Goal(f) == attempts'[f] = strikes'[f]
              + (IF status'[f] \in {"processing", "completed", "pruned"} THEN 1 ELSE 0)
<1> SUFFICES ASSUME NEW f \in Events PROVE Goal(f)
  BY DEF AttemptsAreStrikes
<1>0. /\ attempts[f] = strikes[f]
            + (IF status[f] \in {"processing", "completed", "pruned"} THEN 1 ELSE 0)
      /\ attempts[f] \in Nat /\ strikes[f] \in Nat
  BY DEF AttemptsAreStrikes, OutboxTypeOK
<1>1. CASE UNCHANGED outboxVars
  BY <1>0, <1>1 DEF outboxVars, rowVars
<1>2. ASSUME NEW rows \in SUBSET Events, InsertRows(rows) PROVE Goal(f)
  <2>1. f \in rows => status[f] = "absent"
    BY <1>2 DEF InsertRows, FirstOf, FreeRows
  <2> QED BY <1>0, <1>2, <2>1 DEF InsertRows
<1>3. ASSUME NEW w \in Workers, ClaimOutbox(w) PROVE Goal(f)
  <2>1. strikes'[f] = IF f \in Requeued THEN strikes[f] + 1 ELSE strikes[f]
    BY <1>3 DEF ClaimOutbox
  <2>2. f \in Requeued => status[f] = "processing"
    BY DEF Requeued
  <2> QED BY <1>0, <1>3, <2>1, <2>2, ClaimRow
<1>4. ASSUME NEW w \in Workers, Verdict(w) PROVE Goal(f)
  <2> PICK e \in Events : AckOutbox(w, e) \/ FailOutbox(w, e) \/ DeferOutbox(w, e) \/ VerdictRaises(w, e)
    BY <1>4 DEF Verdict
  <2>1. CASE VerdictRaises(w, e)
    BY <1>0, <2>1 DEF VerdictRaises, rowVars
  <2>2. CASE AckOutbox(w, e)
    BY <1>0, <2>2 DEF AckOutbox, Owns, OutboxTypeOK
  <2>3. CASE FailOutbox(w, e)
    <3>1. Owns(w, e) /\ attempts' = attempts /\ strikes' = [strikes EXCEPT ![e] = strikes[e] + 1]
      BY <2>3 DEF FailOutbox
    <3>2. status' = [status EXCEPT ![e] = IF Terminal(e) THEN "dead_letter" ELSE "failed"]
      BY <2>3 DEF FailOutbox
    <3> QED BY <1>0, <3>1, <3>2 DEF Owns, OutboxTypeOK
  <2>4. CASE DeferOutbox(w, e)
    BY <1>0, <2>4 DEF DeferOutbox, Owns, OutboxTypeOK, Uncharged
  <2> QED BY <2>1, <2>2, <2>3, <2>4
<1>5. ASSUME NEW w \in Workers, StartDeferral(w) \/ CrashWorker(w) PROVE Goal(f)
  BY <1>0, <1>5 DEF StartDeferral, CrashWorker, rowVars
<1>6. ASSUME NEW e \in Events, LeaseElapses(e) \/ BackoffElapses(e) PROVE Goal(f)
  BY <1>0, <1>6 DEF LeaseElapses, BackoffElapses
<1>7. ASSUME NEW S \in SUBSET Events, RequeueDeadLetters(S) PROVE Goal(f)
  BY <1>0, <1>7 DEF RequeueDeadLetters, ReopenDead
<1>8. ASSUME NEW e \in Events, PruneCompleted(e) PROVE Goal(f)
  BY <1>0, <1>8 DEF PruneCompleted, OutboxTypeOK
<1> QED
  BY <1>1, <1>2, <1>3, <1>4, <1>5, <1>6, <1>7, <1>8 DEF OutboxNext, Clock, Operator

\* Dead letters have used their attempts and failed rows have some left:
\* preserved by every step.
LEMMA NextDeadLettersAreExhausted ==
    ASSUME OutboxTypeOK, DeadLettersAreExhausted, [OutboxNext]_outboxVars
    PROVE  DeadLettersAreExhausted'
<1> DEFINE Goal(f) == /\ status'[f] = "dead_letter" => attempts'[f] >= MaxAttempts
                      /\ status'[f] = "failed" => attempts'[f] < MaxAttempts
<1> SUFFICES ASSUME NEW f \in Events PROVE Goal(f)
  BY DEF DeadLettersAreExhausted
<1>0. /\ status[f] = "dead_letter" => attempts[f] >= MaxAttempts
      /\ status[f] = "failed" => attempts[f] < MaxAttempts
      /\ attempts[f] \in Nat /\ MaxAttempts \in Nat
  BY OutboxAssumption DEF DeadLettersAreExhausted, OutboxTypeOK
<1>1. CASE UNCHANGED outboxVars
  BY <1>0, <1>1 DEF outboxVars, rowVars
<1>2. ASSUME NEW rows \in SUBSET Events, InsertRows(rows) PROVE Goal(f)
  BY <1>0, <1>2 DEF InsertRows
<1>3. ASSUME NEW w \in Workers, ClaimOutbox(w) PROVE Goal(f)
  BY <1>0, <1>3, ClaimRow
<1>4. ASSUME NEW w \in Workers, Verdict(w) PROVE Goal(f)
  <2> PICK e \in Events : AckOutbox(w, e) \/ FailOutbox(w, e) \/ DeferOutbox(w, e) \/ VerdictRaises(w, e)
    BY <1>4 DEF Verdict
  <2>1. CASE VerdictRaises(w, e)
    BY <1>0, <2>1 DEF VerdictRaises, rowVars
  <2>2. CASE AckOutbox(w, e)
    BY <1>0, <2>2 DEF AckOutbox, OutboxTypeOK
  <2>3. CASE FailOutbox(w, e)
    <3>1. attempts' = attempts
          /\ status' = [status EXCEPT ![e] = IF Terminal(e) THEN "dead_letter" ELSE "failed"]
      BY <2>3 DEF FailOutbox
    <3> QED BY <1>0, <3>1 DEF Terminal, OutboxTypeOK
  <2>4. CASE DeferOutbox(w, e)
    BY <1>0, <2>4 DEF DeferOutbox, OutboxTypeOK
  <2> QED BY <2>1, <2>2, <2>3, <2>4
<1>5. ASSUME NEW w \in Workers, StartDeferral(w) \/ CrashWorker(w) PROVE Goal(f)
  BY <1>0, <1>5 DEF StartDeferral, CrashWorker, rowVars
<1>6. ASSUME NEW e \in Events, LeaseElapses(e) \/ BackoffElapses(e) PROVE Goal(f)
  BY <1>0, <1>6 DEF LeaseElapses, BackoffElapses
<1>7. ASSUME NEW S \in SUBSET Events, RequeueDeadLetters(S) PROVE Goal(f)
  BY <1>0, <1>7 DEF RequeueDeadLetters, ReopenDead
<1>8. ASSUME NEW e \in Events, PruneCompleted(e) PROVE Goal(f)
  BY <1>0, <1>8 DEF PruneCompleted, OutboxTypeOK
<1> QED
  BY <1>1, <1>2, <1>3, <1>4, <1>5, <1>6, <1>7, <1>8 DEF OutboxNext, Clock, Operator

--------------------------------------------------------------------------------
(* The invariants. *)

\* Dead letters that are reopened, whoever does it, keep the invariant.
LEMMA ReopenInv ==
    ASSUME Inv, NEW S \in SUBSET Events, ReopenDead(S), faults' \in Nat
    PROVE  Inv'
<1>1. OutboxTypeOK'
  BY DEF Inv, ReopenDead, OutboxTypeOK, Statuses, workerVars
<1>2. TokenOnlyWhileProcessing' /\ TokensIssued' /\ LeasesDistinct'
  BY DEF Inv, ReopenDead, TokenOnlyWhileProcessing, TokensIssued, LeasesDistinct, workerVars
<1>3. AttemptsAreStrikes'
  BY DEF Inv, ReopenDead, AttemptsAreStrikes
<1>4. DeadLettersAreExhausted'
  BY DEF Inv, ReopenDead, DeadLettersAreExhausted
<1> QED BY <1>1, <1>2, <1>3, <1>4 DEF Inv

\* Every step of the outbox keeps it.
LEMMA NextInv == Inv /\ [OutboxNext]_outboxVars => Inv'
BY NextTypeOK, NextTokenOnly, NextTokensIssued, NextLeasesDistinct,
   NextAttemptsAreStrikes, NextDeadLettersAreExhausted DEF Inv

\* The inductive invariant holds of an empty outbox.
LEMMA InitInv == OutboxInit => Inv
<1> SUFFICES ASSUME OutboxInit PROVE Inv
  OBVIOUS
<1>1. OutboxTypeOK
  BY InitTypeOK
<1>2. TokenOnlyWhileProcessing /\ TokensIssued /\ LeasesDistinct
  BY DEF OutboxInit, TokenOnlyWhileProcessing, TokensIssued, LeasesDistinct, NoToken
<1>3. AttemptsAreStrikes /\ DeadLettersAreExhausted
  BY DEF OutboxInit, AttemptsAreStrikes, DeadLettersAreExhausted
<1> QED BY <1>1, <1>2, <1>3 DEF Inv

\* Every behaviour of the outbox satisfies the inductive invariant.
THEOREM OutboxInvariant == OutboxSpec => []Inv
BY InitInv, NextInv, PTL DEF OutboxSpec

\* Every variable of the outbox always has its type.
THEOREM OutboxTypeCorrect == OutboxSpec => []OutboxTypeOK
<1>1. Inv => OutboxTypeOK
  BY DEF Inv
<1> QED BY OutboxInvariant, <1>1, PTL

\* A row always carries a claim token exactly while it is processing.
THEOREM TokensFollowProcessing == OutboxSpec => []TokenOnlyWhileProcessing
<1>1. Inv => TokenOnlyWhileProcessing
  BY DEF Inv
<1> QED BY OutboxInvariant, <1>1, PTL

\* No two workers ever hold the token of a row.
THEOREM LeasesAreExclusive == OutboxSpec => []OneOwner
<1>1. Inv => OneOwner
  BY DEF Inv, LeasesDistinct, OneOwner
<1> QED BY OutboxInvariant, <1>1, PTL

\* Attempts always count failures and lost leases, never outages.
THEOREM AttemptsAreAccounted == OutboxSpec => []AttemptsAreStrikes
<1>1. Inv => AttemptsAreStrikes
  BY DEF Inv
<1> QED BY OutboxInvariant, <1>1, PTL

\* A row is always given up only after its last attempt.
THEOREM DeadLettersUsedTheirAttempts == OutboxSpec => []DeadLettersAreExhausted
<1>1. Inv => DeadLettersAreExhausted
  BY DEF Inv
<1> QED BY OutboxInvariant, <1>1, PTL

--------------------------------------------------------------------------------
(* What a step may do. *)

\* Only a verdict of the holder takes a row out of a live lease.
LEMMA NextSettled ==
    ASSUME Inv, OutboxNext, NEW f \in Events,
           status[f] = "processing", status'[f] # "processing", f \notin expired
    PROVE  \E w \in Workers : lease[w][f] = token[f] /\ lease'[w][f] = NoToken
<1>0. OutboxTypeOK
  BY DEF Inv
<1>1. ASSUME NEW w \in Workers, Verdict(w)
      PROVE  \E v \in Workers : lease[v][f] = token[f] /\ lease'[v][f] = NoToken
  <2> PICK e \in Events : AckOutbox(w, e) \/ FailOutbox(w, e) \/ DeferOutbox(w, e) \/ VerdictRaises(w, e)
    BY <1>1 DEF Verdict
  <2>1. ~VerdictRaises(w, e)
    BY DEF VerdictRaises, rowVars
  <2>2. f = e
    BY <1>0, <2>1, VerdictRow
  <2>3. lease[w][f] = token[f] /\ lease'[w][f] = NoToken
    BY <1>0, <2>1, <2>2, VerdictRow, LetGoLeases
  <2> QED BY <2>3
<1>2. ASSUME NEW w \in Workers, ClaimOutbox(w) PROVE FALSE
  BY <1>0, <1>2, ClaimRow DEF Requeued
<1>3. ASSUME NEW rows \in SUBSET Events, InsertRows(rows) PROVE FALSE
  BY <1>3 DEF InsertRows, FirstOf, FreeRows
<1>4. ASSUME NEW w \in Workers, StartDeferral(w) \/ CrashWorker(w) PROVE FALSE
  BY <1>4 DEF StartDeferral, CrashWorker, rowVars
<1>5. ASSUME NEW e \in Events, LeaseElapses(e) \/ BackoffElapses(e) PROVE FALSE
  BY <1>5 DEF LeaseElapses, BackoffElapses
<1>6. ASSUME NEW S \in SUBSET Events, RequeueDeadLetters(S) PROVE FALSE
  BY <1>6 DEF RequeueDeadLetters, ReopenDead
<1>7. ASSUME NEW e \in Events, PruneCompleted(e) PROVE FALSE
  BY <1>0, <1>7 DEF PruneCompleted, OutboxTypeOK
<1> QED
  BY <1>1, <1>2, <1>3, <1>4, <1>5, <1>6, <1>7 DEF OutboxNext, Clock, Operator

\* Only the holder of a live lease ever settles its row.
THEOREM SettledByOwner == OutboxSpec => OnlyOwnerSettles
<1>1. Inv /\ [OutboxNext]_outboxVars =>
        [\A e \in Events :
            /\ status[e] = "processing" /\ status'[e] # "processing" /\ e \notin expired
            => \E w \in Workers : lease[w][e] = token[e] /\ lease'[w][e] = NoToken]_outboxVars
  BY NextSettled
<1> QED BY OutboxInvariant, <1>1, PTL DEF OutboxSpec, OnlyOwnerSettles

--------------------------------------------------------------------------------
(* The outbox implements the queue its producers see. *)

Queue == [e \in Events |-> QueueState(e)]

\* An empty outbox is an empty queue.
LEMMA InitRefines == OutboxInit => Abstract!Init
BY DEF OutboxInit, Abstract!Init, QueueState

\* A row whose status does not change keeps its queue state.
LEMMA QueueStateUnchanged ==
    ASSUME OutboxTypeOK, NEW e \in Events, status'[e] = status[e]
    PROVE  QueueState(e)' = QueueState(e)
BY DEF QueueState, OutboxTypeOK, Statuses

\* A step that changes no row's queue state changes nothing of the queue.
LEMMA QueueUnchanged ==
    ASSUME \A e \in Events : QueueState(e)' = QueueState(e)
    PROVE  Queue' = Queue
BY DEF Queue

\* Dead letters that are reopened, whoever does it, are revived.
LEMMA ReopenRefines ==
    ASSUME OutboxTypeOK, NEW S \in SUBSET Events, ReopenDead(S)
    PROVE  Abstract!Next
<1>1. S # {} /\ \A e \in S : Queue[e] = "dead"
  BY DEF ReopenDead, Queue, QueueState
<1>2. Queue' = [e \in Events |-> IF e \in S THEN "open" ELSE Queue[e]]
  <2>1. ASSUME NEW e \in Events
        PROVE  QueueState(e)' = IF e \in S THEN "open" ELSE QueueState(e)
    <3>1. CASE e \in S
      <4>1. status'[e] = "pending"
        BY <3>1 DEF ReopenDead
      <4> QED BY <3>1, <4>1 DEF QueueState
    <3>2. CASE e \notin S
      BY <3>2, QueueStateUnchanged DEF ReopenDead
    <3> QED BY <3>1, <3>2
  <2> QED BY <2>1 DEF Queue
<1>3. Abstract!Revive(S)
  BY <1>1, <1>2 DEF Abstract!Revive, Queue
<1> QED BY <1>3 DEF Abstract!Next

\* Every step of the outbox is a step of the queue or changes nothing of it:
\* claims, leases, outages and retries are invisible to the producers.
LEMMA NextRefines ==
    ASSUME OutboxTypeOK, [OutboxNext]_outboxVars
    PROVE  Abstract!Next \/ Queue' = Queue
<1>1. CASE UNCHANGED outboxVars
  BY <1>1 DEF Queue, QueueState, outboxVars, rowVars
<1>2. ASSUME NEW rows \in SUBSET Events, InsertRows(rows) PROVE Abstract!Next
  <2>1. \A e \in rows : Queue[e] = "absent"
    BY <1>2 DEF InsertRows, FirstOf, FreeRows, Queue, QueueState
  <2>2. Queue' = [e \in Events |-> IF e \in rows THEN "open" ELSE Queue[e]]
    <3>1. ASSUME NEW e \in Events
          PROVE  QueueState(e)' = IF e \in rows THEN "open" ELSE QueueState(e)
      <4>1. CASE e \in rows
        <5>1. status'[e] = "pending"
          BY <1>2, <4>1 DEF InsertRows
        <5> QED BY <4>1, <5>1 DEF QueueState
      <4>2. CASE e \notin rows
        BY <1>2, <4>2, QueueStateUnchanged DEF InsertRows
      <4> QED BY <4>1, <4>2
    <3> QED BY <3>1 DEF Queue
  <2>3. Abstract!Enqueue(rows)
    BY <2>1, <2>2 DEF Abstract!Enqueue, Queue
  <2> QED BY <2>3 DEF Abstract!Next
<1>3. ASSUME NEW w \in Workers, ClaimOutbox(w) PROVE Queue' = Queue
  <2>1. ASSUME NEW e \in Events PROVE QueueState(e)' = QueueState(e)
    BY <1>3, ClaimRow DEF QueueState, Requeued
  <2> QED BY <2>1, QueueUnchanged
<1>4. ASSUME NEW w \in Workers, Verdict(w) PROVE Abstract!Next \/ Queue' = Queue
  <2> PICK e \in Events : AckOutbox(w, e) \/ FailOutbox(w, e) \/ DeferOutbox(w, e) \/ VerdictRaises(w, e)
    BY <1>4 DEF Verdict
  <2>1. CASE VerdictRaises(w, e)
    BY <2>1 DEF VerdictRaises, rowVars, Queue, QueueState
  <2>2. CASE AckOutbox(w, e) \/ FailOutbox(w, e) \/ DeferOutbox(w, e)
    <3>1. Queue[e] = "open"
      BY <2>2, VerdictRow DEF Queue, QueueState
    <3>2. Queue' = [Queue EXCEPT ![e] = QueueState(e)']
      <4>1. ASSUME NEW f \in Events, f # e PROVE QueueState(f)' = QueueState(f)
        BY <2>2, <4>1, VerdictRow, QueueStateUnchanged
      <4> QED BY <4>1 DEF Queue
    <3>3. QueueState(e)' \in {"open", "done", "dead"}
      BY <2>2, VerdictRow DEF QueueState
    <3>4. CASE QueueState(e)' = "open"
      BY <3>1, <3>2, <3>4 DEF Queue
    <3>5. CASE QueueState(e)' = "done"
      BY <3>1, <3>2, <3>5 DEF Abstract!Next, Abstract!Finish, Queue
    <3>6. CASE QueueState(e)' = "dead"
      BY <3>1, <3>2, <3>6 DEF Abstract!Next, Abstract!Bury, Queue
    <3> QED BY <3>3, <3>4, <3>5, <3>6
  <2> QED BY <2>1, <2>2
<1>5. ASSUME NEW w \in Workers, StartDeferral(w) \/ CrashWorker(w) PROVE Queue' = Queue
  BY <1>5, QueueStateUnchanged, QueueUnchanged DEF StartDeferral, CrashWorker, rowVars
<1>6. ASSUME NEW e \in Events, LeaseElapses(e) \/ BackoffElapses(e) PROVE Queue' = Queue
  BY <1>6, QueueStateUnchanged, QueueUnchanged DEF LeaseElapses, BackoffElapses
<1>7. ASSUME NEW S \in SUBSET Events, RequeueDeadLetters(S) PROVE Abstract!Next
  BY <1>7, ReopenRefines DEF RequeueDeadLetters
<1>8. ASSUME NEW e \in Events, PruneCompleted(e) PROVE Queue' = Queue
  <2>1. ASSUME NEW f \in Events PROVE QueueState(f)' = QueueState(f)
    BY <1>8 DEF PruneCompleted, QueueState, OutboxTypeOK
  <2> QED BY <2>1, QueueUnchanged
<1> QED
  BY <1>1, <1>2, <1>3, <1>4, <1>5, <1>6, <1>7, <1>8 DEF OutboxNext, Clock, Operator

\* The outbox is, step by step, the queue of EventQueue: an event is appended
\* once, stays open until it is done or dead, and never comes back once done.
THEOREM OutboxRefinesQueue == OutboxSpec => Abstract!Init /\ [][Abstract!Next]_Queue
<1>1. Inv /\ [OutboxNext]_outboxVars => [Abstract!Next]_Queue
  BY NextRefines DEF Inv
<1> QED BY InitRefines, OutboxInvariant, <1>1, PTL DEF OutboxSpec
================================================================================
