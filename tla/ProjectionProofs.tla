--------------------------- MODULE ProjectionProofs ---------------------------
(***************************************************************************)
(* What holds of the projection for any number of rows, memories, contents *)
(* and clients, with any faults.  For any number of workers: types, and    *)
(* what the outbox and the store promise by themselves.  For a single      *)
(* worker: vectors embed their payload, no point goes back to an older     *)
(* state of its memory, and an acknowledged event is projected.            *)
(***************************************************************************)
EXTENDS Projection, MemoryOutboxProofs, MemoryStoreProofs

\* A row that was inserted carries a state of a memory that exists, and a
\* worker only holds rows that were inserted.
Rows ==
    /\ \A e \in Events : status[e] # "absent" => payload[e] \in Payloads
    /\ \A e \in Events : payload[e] # NoPayload => payload[e].memory \in Existing
    /\ \A w \in Workers, e \in Events : lease[w][e] # NoToken => status[e] # "absent"

IndexTypes ==
    /\ point \in [Collections -> [Memories -> Points \cup {NoPoint}]]
    /\ reached \in [Collections -> [Memories -> Nat]]

ViewTypes ==
    /\ phase \in [Workers -> {"start", "check", "probe", "write", "settle"}]
    /\ view \in [Workers -> Payloads \cup {NoPayload}]
    /\ viewVersion \in [Workers -> Nat]
    /\ todo \in [Workers -> SUBSET Collections]
    /\ metadataOnly \in [Workers -> BOOLEAN]
    /\ \A w \in Workers : phase[w] # "start" => view[w] \in Payloads

ProjTypes == Types /\ Rows /\ IndexTypes /\ ViewTypes

--------------------------------------------------------------------------------
(* The writers. *)

LEMMA NoPayloadIsNone == NoPayload \notin Payloads
BY DEF NoPayload, Payloads

\* A save, whoever makes it, in the terms of the rows.
LEMMA WriteKeepsRows ==
    ASSUME Types, Types', Rows, NEW new, IsDraft(new), Write(new), Existing \subseteq Existing'
    PROVE  Rows' /\ \A m \in Memories : version'[m] >= version[m]
<1>1. PICK rows \in SUBSET Events :
         /\ \A e \in rows :
               /\ status[e] = "absent" /\ status'[e] = "pending"
               /\ \E m \in DOMAIN new : payload'[e] = [memory |-> m, state |-> new[m]]
         /\ \A e \in Events \ rows : status'[e] = status[e] /\ payload'[e] = payload[e]
         /\ \A m \in Memories : store'[m] = IF m \in DOMAIN new THEN new[m] ELSE store[m]
         /\ UNCHANGED <<attempts, token, fence, expired, workerVars, claims, strikes, faults>>
  BY WriteRows
<1>2. ASSUME NEW e \in rows
      PROVE  payload'[e] \in Payloads /\ payload'[e].memory \in Existing'
  <2>1. PICK m \in DOMAIN new : payload'[e] = [memory |-> m, state |-> new[m]]
    BY <1>1
  <2>2. m \in Memories /\ new[m] \in States /\ store'[m] = new[m]
    BY <1>1 DEF IsDraft
  <2>3. m \in Existing'
    BY <2>2, NoMemoryIsNoState DEF Existing
  <2> QED BY <2>1, <2>2, <2>3 DEF Payloads
<1>3. \A e \in Events : status'[e] # "absent" => payload'[e] \in Payloads
  BY <1>1, <1>2 DEF Rows
<1>4. \A e \in Events : payload'[e] # NoPayload => payload'[e].memory \in Existing'
  BY <1>1, <1>2 DEF Rows
<1>5. \A w \in Workers, e \in Events : lease'[w][e] # NoToken => status'[e] # "absent"
  BY <1>1 DEF Rows, workerVars
<1>6. \A m \in Memories : version'[m] >= version[m]
  <2>1. ASSUME NEW m \in Memories PROVE version'[m] >= version[m]
    <3>1. version[m] \in Nat /\ (version'[m] = version[m] \/ version'[m] = version[m] + 1)
      BY DEF Write, Types, TableTypes
    <3> QED BY <3>1
  <2> QED BY <2>1
<1> QED BY <1>3, <1>4, <1>5, <1>6 DEF Rows

LEMMA StoreKeepsRows ==
    ASSUME Types, Rows, [StoreNext]_<<storeVars, outboxVars>>
    PROVE  Types' /\ Rows' /\ \A m \in Memories : version'[m] >= version[m]
<1>1. Types'
  BY NextTypes
<1>2. ASSUME UNCHANGED <<tableVars, outboxVars>>
      PROVE  Rows' /\ \A m \in Memories : version'[m] >= version[m]
  <2>1. UNCHANGED <<store, payload, version, status, lease>>
    BY <1>2 DEF tableVars, outboxVars, rowVars, workerVars
  <2>2. Rows'
    BY <2>1 DEF Rows, Existing
  <2>3. \A m \in Memories : version[m] \in Nat
    BY DEF Types, TableTypes
  <2> QED BY <2>1, <2>2, <2>3
<1>3. ASSUME NEW c \in Clients, Commit(c)
      PROVE  Rows' /\ \A m \in Memories : version'[m] >= version[m]
  <2>1. PICK d : d = draft[c]
    OBVIOUS
  <2>2. IsDraft(d) /\ Write(d)
    BY <1>3, <2>1 DEF Commit, Types, ClientTypes
  <2>3. clock' \in Nat /\ horizon' \in 0 .. clock'
    BY <1>1 DEF Types, TableTypes
  <2> QED BY <1>1, <2>2, <2>3, WriteTypes, WriteKeepsRows
<1>4. ASSUME RetireProject
      PROVE  Rows' /\ \A m \in Memories : version'[m] >= version[m]
  <2>1. PICK live \in SUBSET Existing :
           /\ IsDraft([m \in live |-> Tombstoned(store[m], clock + 1)])
           /\ Write([m \in live |-> Tombstoned(store[m], clock + 1)])
    BY <1>4, RetiredDrafts
  <2>2. PICK d : d = [m \in live |-> Tombstoned(store[m], clock + 1)]
    OBVIOUS
  <2>3. IsDraft(d) /\ Write(d)
    BY <2>1, <2>2
  <2>4. clock' \in Nat /\ horizon' \in 0 .. clock'
    BY <1>1 DEF Types, TableTypes
  <2> QED BY <1>1, <2>3, <2>4, WriteTypes, WriteKeepsRows
<1>5. ASSUME NEW c \in Clients, Request(c) PROVE UNCHANGED <<tableVars, outboxVars>>
  BY <1>5, Requests DEF Drafts, Begin, FindByUpsertKey
<1>6. ASSUME NEW c \in Clients, Reread(c) \/ Conflict(c) PROVE UNCHANGED <<tableVars, outboxVars>>
  BY <1>6 DEF Reread, Conflict
<1>7. UndoWindowElapses \/ UNCHANGED <<storeVars, outboxVars>> => UNCHANGED <<tableVars, outboxVars>>
  BY DEF UndoWindowElapses, storeVars
<1> QED BY <1>1, <1>2, <1>3, <1>4, <1>5, <1>6, <1>7 DEF StoreNext, Save

--------------------------------------------------------------------------------
(* The outbox. *)

\* A step of a worker, the clock or an operator.
Served ==
    \/ \E w \in Workers : ClaimOutbox(w) \/ Verdict(w) \/ StartDeferral(w) \/ CrashWorker(w)
    \/ Clock
    \/ Operator
    \/ UNCHANGED outboxVars

LEMMA ServedRows ==
    ASSUME OutboxTypeOK, Served,
           \A w \in Workers, e \in Events : lease[w][e] # NoToken => status[e] # "absent"
    PROVE  /\ OutboxTypeOK'
           /\ \A e \in Events : status'[e] = "absent" <=> status[e] = "absent"
           /\ \A w \in Workers, e \in Events : lease'[w][e] # NoToken => status'[e] # "absent"
<1> DEFINE Kept == /\ \A e \in Events : status'[e] = "absent" <=> status[e] = "absent"
                   /\ \A w \in Workers, e \in Events :
                         lease'[w][e] # NoToken => lease[w][e] # NoToken \/ status[e] # "absent"
<1>1. OutboxTypeOK'
  BY NextTypeOK DEF Served, OutboxNext
<1>2. ASSUME NEW v \in Workers, ClaimOutbox(v) PROVE Kept
  <2> DEFINE batch == FirstOf(Claimable, BatchSize)
  <2>1. \A e \in batch \cup Requeued : status[e] # "absent"
    BY DEF FirstOf, Claimable, Requeued
  <2>2. /\ status' = [e \in Events |->
               IF e \in batch THEN "processing" ELSE IF e \in Requeued THEN "pending" ELSE status[e]]
        /\ lease' = [lease EXCEPT ![v] =
               [e \in Events |-> IF e \in batch THEN FreshToken(e) ELSE NoToken]]
    BY <1>2 DEF ClaimOutbox
  <2> HIDE DEF batch
  <2> QED BY <2>1, <2>2 DEF OutboxTypeOK
<1>3. ASSUME NEW v \in Workers, NEW f \in Events,
             AckOutbox(v, f) \/ FailOutbox(v, f) \/ DeferOutbox(v, f) \/ VerdictRaises(v, f)
      PROVE  Kept
  <2>0. lease' = [lease EXCEPT ![v][f] = NoToken]
    BY <1>3 DEF AckOutbox, FailOutbox, DeferOutbox, VerdictRaises, LetGo
  <2>1. \A w \in Workers, e \in Events : lease'[w][e] # NoToken => lease[w][e] # NoToken
    BY <2>0 DEF OutboxTypeOK
  <2>2. \/ status' = status
        \/ /\ status[f] = "processing"
           /\ \E s \in Statuses \ {"absent"} : status' = [status EXCEPT ![f] = s]
    BY <1>3 DEF AckOutbox, FailOutbox, DeferOutbox, VerdictRaises, Owns, Statuses, rowVars
  <2> QED BY <2>1, <2>2 DEF OutboxTypeOK
<1>4. ASSUME NEW v \in Workers, StartDeferral(v) \/ CrashWorker(v) PROVE Kept
  <2>1. UNCHANGED status
    BY <1>4 DEF StartDeferral, CrashWorker, rowVars
  <2>2. lease' = lease \/ lease' = [lease EXCEPT ![v] = [e \in Events |-> NoToken]]
    BY <1>4 DEF StartDeferral, CrashWorker
  <2>3. \A w \in Workers : lease'[w] = lease[w] \/ lease'[w] = [e \in Events |-> NoToken]
    BY <2>2 DEF OutboxTypeOK
  <2>4. ASSUME NEW w \in Workers, NEW e \in Events, lease'[w][e] # NoToken
        PROVE  lease[w][e] # NoToken
    BY <2>3, <2>4
  <2> QED BY <2>1, <2>4
<1>5. ASSUME NEW e \in Events, LeaseElapses(e) \/ BackoffElapses(e) PROVE Kept
  BY <1>5 DEF LeaseElapses, BackoffElapses, workerVars
<1>6. ASSUME NEW S \in SUBSET Events, RequeueDeadLetters(S) PROVE Kept
  BY <1>6 DEF RequeueDeadLetters, ReopenDead, workerVars
<1>7. ASSUME NEW e \in Events, PruneCompleted(e) PROVE Kept
  BY <1>7 DEF PruneCompleted, workerVars, OutboxTypeOK
<1>8. UNCHANGED outboxVars => Kept
  BY DEF outboxVars, rowVars, workerVars
<1>9. Kept
  BY <1>2, <1>3, <1>4, <1>5, <1>6, <1>7, <1>8 DEF Served, Verdict, Clock, Operator
<1> QED BY <1>1, <1>9

LEMMA ServedKeepsRows ==
    ASSUME Types, Rows, Served, UNCHANGED storeVars
    PROVE  Types' /\ Rows' /\ UNCHANGED version
<1>1. /\ OutboxTypeOK'
      /\ \A e \in Events : status'[e] = "absent" <=> status[e] = "absent"
      /\ \A w \in Workers, e \in Events : lease'[w][e] # NoToken => status'[e] # "absent"
  BY ServedRows DEF Types, TableTypes, Rows
<1>2. UNCHANGED <<store, payload, version, clock, horizon, pc, target>> /\ UNCHANGED clientVars
  BY DEF storeVars, tableVars, clientVars
<1>3. ClientTypes'
  BY <1>2, ClientsUntouched DEF Types
<1>4. TableTypes'
  BY <1>1, <1>2 DEF Types, TableTypes
<1>5. Types'
  BY <1>2, <1>3, <1>4 DEF Types, Existing
<1>6. Rows'
  BY <1>1, <1>2 DEF Rows, Existing
<1> QED BY <1>2, <1>5, <1>6

--------------------------------------------------------------------------------
(* The worker's steps, for the types. *)

LEMMA InitProjTypes == ProjectionInit => ProjTypes
<1> SUFFICES ASSUME ProjectionInit PROVE ProjTypes
  OBVIOUS
<1>1. Types
  BY InitTypes DEF ProjectionInit
<1>2. Rows
  BY DEF ProjectionInit, StoreInit, OutboxInit, Rows, NoPayload
<1>3. IndexTypes /\ ViewTypes
  BY DEF ProjectionInit, IndexTypes, ViewTypes
<1> QED BY <1>1, <1>2, <1>3 DEF ProjTypes

\* What a worker's step does besides the outbox: it stays, or drops what it read...
Rests(w) == UNCHANGED projectionVars \/ (DropView(w) /\ UNCHANGED indexVars)

\* ...or goes on with it.
Works(w) ==
    \/ \E e \in Events : ReadAuthority(w, e)
    \/ CheckProjection(w) \/ ProbePoint(w) \/ WritePoint(w) \/ DeletePoint(w)

LEMMA StepKinds ==
    ASSUME [ProjectionNext]_allVars
    PROVE  \/ [StoreNext]_<<storeVars, outboxVars>> /\ UNCHANGED projectionVars
           \/ \E w \in Workers : Served /\ UNCHANGED storeVars /\ Rests(w)
           \/ \E w \in Workers : Works(w)
           \/ Served /\ UNCHANGED <<storeVars, projectionVars>>
<1>1. ASSUME NEW w \in Workers, Claim(w) \/ Outage(w) \/ Crash(w)
      PROVE  Served /\ UNCHANGED storeVars /\ Rests(w)
  BY <1>1 DEF Claim, Outage, Crash, Served, Rests
<1>2. ASSUME NEW w \in Workers, NEW e \in Events, Acknowledge(w, e) \/ GiveUp(w, e)
      PROVE  Served /\ UNCHANGED storeVars /\ Rests(w)
  BY <1>2 DEF Acknowledge, GiveUp, Served, Verdict, Rests
<1>3. ASSUME NEW w \in Workers, Handle(w)
      PROVE  Works(w) \/ (Served /\ UNCHANGED storeVars /\ Rests(w))
  BY <1>2, <1>3 DEF Handle, Works
<1>4. ASSUME TimePasses \/ (\E e \in Events : Prune(e)) \/ (\E S \in SUBSET Events : Requeue(S))
      PROVE  Served /\ UNCHANGED <<storeVars, projectionVars>>
  BY <1>4 DEF TimePasses, Prune, Requeue, Served, Operator
<1>5. UNCHANGED allVars => [StoreNext]_<<storeVars, outboxVars>> /\ UNCHANGED projectionVars
  BY DEF allVars
<1> QED BY <1>1, <1>3, <1>4, <1>5 DEF ProjectionNext

LEMMA DropViewTypes ==
    ASSUME ViewTypes, NEW w \in Workers, DropView(w)
    PROVE  ViewTypes' /\ phase'[w] = "start" /\ ~metadataOnly'[w]
BY DEF ViewTypes, DropView

LEMMA RestTypes ==
    ASSUME IndexTypes, ViewTypes, NEW w \in Workers, Rests(w)
    PROVE  IndexTypes' /\ ViewTypes'
<1>1. CASE UNCHANGED projectionVars
  BY <1>1 DEF projectionVars, indexVars, viewVars, IndexTypes, ViewTypes
<1>2. CASE DropView(w) /\ UNCHANGED indexVars
  BY <1>2, DropViewTypes DEF indexVars, IndexTypes
<1> QED BY <1>1, <1>2 DEF Rests

\* A worker at work leaves the tables alone, and has read something if it is
\* past its start.
LEMMA WorkTypes ==
    ASSUME ProjTypes, NEW w \in Workers, Works(w)
    PROVE  IndexTypes' /\ ViewTypes' /\ UNCHANGED <<storeVars, outboxVars>>
<1>1. IndexTypes /\ ViewTypes /\ Types /\ Rows
  BY DEF ProjTypes
<1>2. ASSUME NEW e \in Events, ReadAuthority(w, e)
      PROVE  IndexTypes' /\ ViewTypes' /\ UNCHANGED <<storeVars, outboxVars>>
  <2>1. status[e] # "absent"
    BY <1>1, <1>2 DEF ReadAuthority, IsHead, Held, Rows
  <2>2. payload[e] \in Payloads /\ payload[e].memory \in Existing
    BY <1>1, <2>1, NoPayloadIsNone DEF Rows
  <2>3. PICK m : m = payload[e].memory
    OBVIOUS
  <2>4. m \in Memories /\ store[m] \in States /\ version[m] \in Nat
    BY <1>1, <2>2, <2>3, ExistingStates DEF Existing, Types, TableTypes
  <2>5. [memory |-> m, state |-> store[m]] \in Payloads
    BY <2>4 DEF Payloads
  <2>6. /\ view' = [view EXCEPT ![w] = [memory |-> m, state |-> store[m]]]
        /\ viewVersion' = [viewVersion EXCEPT ![w] = version[m]]
        /\ phase' = [phase EXCEPT ![w] = "check"]
        /\ UNCHANGED <<todo, metadataOnly, indexVars, storeVars, outboxVars>>
    BY <1>2, <2>3 DEF ReadAuthority
  <2>7. ViewTypes'
    BY <1>1, <2>4, <2>5, <2>6 DEF ViewTypes
  <2> QED BY <1>1, <2>6, <2>7 DEF IndexTypes, indexVars
<1>3. ASSUME CheckProjection(w)
      PROVE  IndexTypes' /\ ViewTypes' /\ UNCHANGED <<storeVars, outboxVars>>
  <2>1. Targets(view[w].state) \in SUBSET Collections
    BY DEF Targets, Collections
  <2>2. ViewTypes'
    BY <1>1, <1>3, <2>1 DEF CheckProjection, AtPhase, ViewTypes
  <2> QED BY <1>1, <1>3, <2>2 DEF CheckProjection, IndexTypes, indexVars
<1>4. ASSUME ProbePoint(w)
      PROVE  IndexTypes' /\ ViewTypes' /\ UNCHANGED <<storeVars, outboxVars>>
  <2>1. PICK b \in BOOLEAN : metadataOnly' = [metadataOnly EXCEPT ![w] = b]
    BY <1>4 DEF ProbePoint
  <2>2. ViewTypes'
    BY <1>1, <1>4, <2>1 DEF ProbePoint, AtPhase, ViewTypes
  <2> QED BY <1>1, <1>4, <2>2 DEF ProbePoint, IndexTypes, indexVars
<1>5. ASSUME WritePoint(w) \/ DeletePoint(w)
      PROVE  IndexTypes' /\ ViewTypes' /\ UNCHANGED <<storeVars, outboxVars>>
  <2> DEFINE c == NextCollection(w)
             m == view[w].memory
  <2>1. c \in Collections /\ phase[w] # "start"
    BY <1>5 DEF NextCollection, Collections, WritePoint, DeletePoint, AtPhase
  <2>2. view[w] \in Payloads /\ m \in Memories
    BY <1>1, <2>1 DEF ViewTypes, Payloads
  <2>3. point[c][m] \in Points \cup {NoPoint}
    BY <1>1, <2>1, <2>2 DEF IndexTypes
  <2>4. PICK p \in Points \cup {NoPoint} : point' = [point EXCEPT ![c][m] = p]
    <3>1. PointOf(view[w].state) \in Points
      BY <2>2 DEF PointOf, Points, Payloads, States
    <3>2. point[c][m] # NoPoint => [point[c][m] EXCEPT !.state = view[w].state] \in Points
      BY <2>2, <2>3 DEF Points, Payloads
    <3> QED BY <1>5, <3>1, <3>2 DEF WritePoint, DeletePoint
  <2>5. /\ todo' = [todo EXCEPT ![w] = @ \ {c}]
        /\ phase' = [phase EXCEPT ![w] = IF todo[w] = {c} THEN "settle" ELSE "probe"]
        /\ reached' = [reached EXCEPT ![c][m] = viewVersion[w]]
        /\ UNCHANGED <<view, viewVersion, storeVars, outboxVars>>
        /\ metadataOnly' = metadataOnly \/ metadataOnly' = [metadataOnly EXCEPT ![w] = FALSE]
    BY <1>5 DEF WritePoint, DeletePoint, Advance
  <2> HIDE DEF c, m
  <2>6. point' \in [Collections -> [Memories -> Points \cup {NoPoint}]]
    BY <1>1, <2>1, <2>2, <2>4 DEF IndexTypes
  <2>7. reached' \in [Collections -> [Memories -> Nat]]
    BY <1>1, <2>1, <2>2, <2>5 DEF IndexTypes, ViewTypes
  <2>8. ViewTypes'
    BY <1>1, <2>2, <2>5 DEF ViewTypes
  <2> QED BY <2>5, <2>6, <2>7, <2>8 DEF IndexTypes
<1> QED BY <1>2, <1>3, <1>4, <1>5 DEF Works

LEMMA NextProjTypes ==
    ASSUME ProjTypes, [ProjectionNext]_allVars
    PROVE  ProjTypes'
<1>1. Types /\ Rows /\ IndexTypes /\ ViewTypes
  BY DEF ProjTypes
<1>2. CASE [StoreNext]_<<storeVars, outboxVars>> /\ UNCHANGED projectionVars
  <2>1. IndexTypes' /\ ViewTypes'
    BY <1>1, <1>2 DEF projectionVars, indexVars, viewVars, IndexTypes, ViewTypes
  <2> QED BY <1>1, <1>2, <2>1, StoreKeepsRows DEF ProjTypes
<1>3. ASSUME NEW w \in Workers, Served, UNCHANGED storeVars, Rests(w)
      PROVE  ProjTypes'
  BY <1>1, <1>3, RestTypes, ServedKeepsRows DEF ProjTypes
<1>4. ASSUME NEW w \in Workers, Works(w)
      PROVE  ProjTypes'
  <2>1. IndexTypes' /\ ViewTypes' /\ UNCHANGED <<storeVars, outboxVars>>
    BY <1>4, WorkTypes
  <2>2. Types' /\ Rows'
    BY <1>1, <2>1, StoreKeepsRows
  <2> QED BY <2>1, <2>2 DEF ProjTypes
<1>5. CASE Served /\ UNCHANGED <<storeVars, projectionVars>>
  <2>1. IndexTypes' /\ ViewTypes'
    BY <1>1, <1>5 DEF projectionVars, indexVars, viewVars, IndexTypes, ViewTypes
  <2> QED BY <1>1, <1>5, <2>1, ServedKeepsRows DEF ProjTypes
<1> QED BY <1>2, <1>3, <1>4, <1>5, StepKinds

--------------------------------------------------------------------------------
(* The outbox and the store go on as they do by themselves. *)

\* Whatever the worker does, the outbox makes a step of its own...
LEMMA OutboxSteps ==
    ASSUME ProjTypes, [ProjectionNext]_allVars
    PROVE  [OutboxNext]_outboxVars
<1>1. Types
  BY DEF ProjTypes
<1>2. ASSUME NEW new, Write(new) PROVE OutboxNext
  <2>1. PICK rows : InsertRows(rows) /\ rows \subseteq FreeRows
    BY <1>2 DEF Write, AppendEvents, FirstOf
  <2> QED BY <2>1 DEF OutboxNext, FreeRows
<1>3. CASE [StoreNext]_<<storeVars, outboxVars>>
  <2>1. ASSUME NEW c \in Clients, Request(c) PROVE UNCHANGED outboxVars
    BY <1>1, <2>1, Requests DEF Drafts, Begin, FindByUpsertKey
  <2>2. ASSUME NEW c \in Clients, Save(c) PROVE [OutboxNext]_outboxVars
    BY <1>2, <2>2 DEF Save, Reread, Conflict, Commit
  <2>3. RetireProject => OutboxNext
    BY <1>2 DEF RetireProject
  <2>4. UndoWindowElapses => UNCHANGED outboxVars
    BY DEF UndoWindowElapses
  <2> QED BY <1>3, <2>1, <2>2, <2>3, <2>4 DEF StoreNext
<1>4. Served => [OutboxNext]_outboxVars
  BY DEF Served, OutboxNext
<1>5. ASSUME NEW w \in Workers, Works(w) PROVE UNCHANGED outboxVars
  BY <1>5, WorkTypes
<1> QED BY <1>3, <1>4, <1>5, StepKinds

\* ...and so does the store, or it rests while the outbox is served.
LEMMA StoreSteps ==
    ASSUME ProjTypes, [ProjectionNext]_allVars
    PROVE  [StoreNext]_<<storeVars, outboxVars>> \/ (Served /\ UNCHANGED storeVars)
<1>1. ASSUME NEW w \in Workers, Works(w) PROVE UNCHANGED <<storeVars, outboxVars>>
  BY <1>1, WorkTypes
<1> QED BY <1>1, StepKinds

\* Serving the outbox keeps the invariant of the store.
LEMMA ServedStoreInv ==
    ASSUME ProjTypes, StoreInv, Served, UNCHANGED storeVars
    PROVE  StoreInv'
<1>1. Types' /\ UNCHANGED <<store, payload, version, clock, pc, op, draft, base, seen>>
  BY ServedKeepsRows DEF ProjTypes, storeVars, tableVars, clientVars
<1>2. \A e \in Events : status'[e] = "absent" <=> status[e] = "absent"
  BY ServedRows DEF ProjTypes, Types, TableTypes, Rows
<1>3. Recordings'
  BY <1>1, <1>2 DEF StoreInv, Recordings, RowsTaken, CurrentStateQueued, StampsPast, Existing
<1>4. ASSUME NEW c \in Clients PROVE Snapshot(c)' /\ Stamped(c)'
  <2>1. Snapshot(c) /\ Stamped(c)
    BY DEF StoreInv
  <2>2. Snapshot(c)'
    BY <1>1, <2>1 DEF Snapshot, Existing
  <2>3. Stamped(c)'
    BY <1>1, <2>1 DEF Stamped, Pending, Spent
  <2> QED BY <2>2, <2>3
<1>5. ASSUME NEW b \in Clients, NEW c \in Clients, b # c PROVE Apart(b, c)'
  BY <1>1, <1>5 DEF StoreInv, Apart, Pending
<1> QED BY <1>1, <1>3, <1>4, <1>5 DEF StoreInv

LEMMA NextServedStoreInv ==
    ASSUME ProjTypes, StoreInv, [ProjectionNext]_allVars
    PROVE  StoreInv'
BY StoreSteps, NextStoreInv, ServedStoreInv

--------------------------------------------------------------------------------
(* A single worker: what it has read is no older than what it has written. *)

\* What a worker has read bounds from above what was written, and from below
\* what the memory is.
ReadBetween(w) ==
    phase[w] # "start" =>
        /\ viewVersion[w] <= version[view[w].memory]
        /\ \A c \in Collections : reached[c][view[w].memory] <= viewVersion[w]

WrittenWasCurrent ==
    \A c \in Collections, m \in Memories : reached[c][m] <= version[m]

Order == WrittenWasCurrent /\ \A w \in Workers : ReadBetween(w)

\* Nothing is written, and the memories move on.
LEMMA OrderStays ==
    ASSUME ProjTypes, ProjTypes', Order, UNCHANGED reached,
           \A m \in Memories : version'[m] >= version[m],
           \A w \in Workers : phase'[w] = "start" \/
              (phase[w] # "start" /\ view'[w] = view[w] /\ viewVersion'[w] = viewVersion[w])
    PROVE  Order'
<1>1. \A m \in Memories : version[m] \in Nat /\ version'[m] \in Nat /\ version'[m] >= version[m]
  BY DEF ProjTypes, Types, TableTypes
<1>2. \A m \in Memories, n \in Nat : n <= version[m] => n <= version'[m]
  BY <1>1
<1>3. WrittenWasCurrent'
  BY <1>2 DEF Order, WrittenWasCurrent, ProjTypes, IndexTypes
<1>4. ASSUME NEW w \in Workers, phase'[w] # "start" PROVE ReadBetween(w)'
  <2>1. phase[w] # "start" /\ view'[w] = view[w] /\ viewVersion'[w] = viewVersion[w]
    BY <1>4
  <2>2. view[w].memory \in Memories /\ viewVersion[w] \in Nat
    BY <2>1 DEF ProjTypes, ViewTypes, Payloads
  <2>3. ReadBetween(w)
    BY DEF Order
  <2> QED BY <1>2, <2>1, <2>2, <2>3 DEF ReadBetween
<1> QED BY <1>3, <1>4 DEF Order, ReadBetween

\* The only worker at work.
LEMMA WorkOrder ==
    ASSUME ProjTypes, ProjTypes', Order, NEW w, Workers = {w}, Works(w)
    PROVE  Order' /\ \A c \in Collections, m \in Memories : reached'[c][m] >= reached[c][m]
<1>1. UNCHANGED version /\ w \in Workers
  BY WorkTypes DEF storeVars, tableVars
<1>2. /\ \A c \in Collections, m \in Memories : reached[c][m] \in Nat /\ reached[c][m] <= version[m]
      /\ \A m \in Memories : version[m] \in Nat
      /\ viewVersion[w] \in Nat /\ viewVersion'[w] \in Nat
  BY <1>1 DEF ProjTypes, IndexTypes, ViewTypes, Order, WrittenWasCurrent, Types, TableTypes
<1>3. ASSUME NEW e \in Events, ReadAuthority(w, e)
      PROVE  Order' /\ UNCHANGED reached
  <2>1. UNCHANGED reached
    BY <1>3 DEF ReadAuthority, indexVars
  <2>2. /\ view'[w].memory = payload[e].memory /\ phase'[w] # "start"
        /\ viewVersion'[w] = version[payload[e].memory]
    BY <1>1, <1>3 DEF ReadAuthority, ProjTypes, ViewTypes
  <2>3. view'[w].memory \in Memories
    BY <1>1, <2>2 DEF ProjTypes, ViewTypes, Payloads
  <2>4. ReadBetween(w)'
    BY <1>1, <1>2, <2>1, <2>2, <2>3 DEF ReadBetween
  <2> QED BY <1>1, <2>1, <2>4 DEF Order, WrittenWasCurrent
<1>4. ASSUME CheckProjection(w) \/ ProbePoint(w)
      PROVE  Order' /\ UNCHANGED reached
  <2>1. UNCHANGED <<reached, view, viewVersion>> /\ phase[w] # "start"
    BY <1>4 DEF CheckProjection, ProbePoint, AtPhase, indexVars
  <2>2. \A m \in Memories : version'[m] >= version[m]
    BY <1>1, <1>2
  <2> QED BY <2>1, <2>2, OrderStays
<1>5. ASSUME WritePoint(w) \/ DeletePoint(w)
      PROVE  /\ Order'
             /\ \A c \in Collections, m \in Memories : reached'[c][m] >= reached[c][m]
  <2> DEFINE k == NextCollection(w)
             n == view[w].memory
  <2>1. k \in Collections /\ phase[w] # "start"
    BY <1>5 DEF NextCollection, Collections, WritePoint, DeletePoint, AtPhase
  <2>2. n \in Memories
    BY <1>1, <2>1 DEF ProjTypes, ViewTypes, Payloads
  <2>3. reached' = [reached EXCEPT ![k][n] = viewVersion[w]] /\ UNCHANGED <<view, viewVersion>>
    BY <1>5 DEF WritePoint, DeletePoint, Advance
  <2>4. viewVersion[w] <= version[n] /\ \A c \in Collections : reached[c][n] <= viewVersion[w]
    BY <1>1, <2>1 DEF Order, ReadBetween
  <2>5. view'[w].memory = n
    BY <2>3
  <2> HIDE DEF k, n
  <2>6. \A c \in Collections, m \in Memories :
           reached'[c][m] = IF c = k /\ m = n THEN viewVersion[w] ELSE reached[c][m]
    BY <2>1, <2>2, <2>3 DEF ProjTypes, IndexTypes
  <2>7. WrittenWasCurrent'
    BY <1>1, <1>2, <2>4, <2>6 DEF WrittenWasCurrent
  <2>8. \A c \in Collections, m \in Memories : reached'[c][m] >= reached[c][m]
    BY <1>2, <2>1, <2>4, <2>6
  <2>9. \A c \in Collections : reached'[c][n] <= viewVersion[w]
    BY <1>2, <2>2, <2>4, <2>6
  <2>10. ReadBetween(w)'
    BY <1>1, <2>3, <2>4, <2>5, <2>9 DEF ReadBetween
  <2> QED BY <2>7, <2>8, <2>10 DEF Order
<1>6. UNCHANGED reached => \A c \in Collections, m \in Memories : reached'[c][m] >= reached[c][m]
  BY <1>2
<1> QED BY <1>3, <1>4, <1>5, <1>6 DEF Works

LEMMA NextOrder ==
    ASSUME ProjTypes, ProjTypes', Order, NEW w, Workers = {w}, [ProjectionNext]_allVars
    PROVE  Order' /\ \A c \in Collections, m \in Memories : reached'[c][m] >= reached[c][m]
<1>1. /\ Types /\ Rows /\ IndexTypes /\ ViewTypes
      /\ \A m \in Memories : version[m] \in Nat
      /\ \A c \in Collections, m \in Memories : reached[c][m] \in Nat
  BY DEF ProjTypes, Types, TableTypes, IndexTypes
<1>2. ASSUME UNCHANGED reached
      PROVE  \A c \in Collections, m \in Memories : reached'[c][m] >= reached[c][m]
  BY <1>1, <1>2
<1>3. ASSUME UNCHANGED projectionVars, \A m \in Memories : version'[m] >= version[m]
      PROVE  Order' /\ UNCHANGED reached
  <2>1. UNCHANGED <<reached, phase, view, viewVersion>>
    BY <1>3 DEF projectionVars, indexVars, viewVars
  <2> QED BY <1>3, <2>1, OrderStays
<1>4. CASE [StoreNext]_<<storeVars, outboxVars>> /\ UNCHANGED projectionVars
  BY <1>1, <1>2, <1>3, <1>4, StoreKeepsRows
<1>5. ASSUME UNCHANGED storeVars PROVE \A m \in Memories : version'[m] >= version[m]
  BY <1>1, <1>5 DEF storeVars, tableVars
<1>6. ASSUME UNCHANGED storeVars, Rests(w)
      PROVE  Order' /\ UNCHANGED reached
  <2>1. CASE UNCHANGED projectionVars
    BY <1>3, <1>5, <1>6, <2>1
  <2>2. CASE DropView(w) /\ UNCHANGED indexVars
    <3>1. UNCHANGED reached
      BY <2>2 DEF indexVars
    <3>2. phase'[w] = "start"
      BY <1>1, <2>2, DropViewTypes
    <3> QED BY <1>5, <1>6, <3>1, <3>2, OrderStays
  <2> QED BY <1>6, <2>1, <2>2 DEF Rests
<1>7. CASE Served /\ UNCHANGED <<storeVars, projectionVars>>
  BY <1>2, <1>3, <1>5, <1>7
<1> QED BY <1>2, <1>4, <1>6, <1>7, StepKinds, WorkOrder

--------------------------------------------------------------------------------
(* A single worker: the vector it keeps is the one of the content it writes. *)

\* A worker that will only set the payload of a point has seen there a vector of
\* the same content, and nobody has written to the collection since.
KeptVectorFits(w) ==
    metadataOnly[w] =>
        /\ phase[w] = "write"
        /\ point[NextCollection(w)][view[w].memory] # NoPoint
        /\ point[NextCollection(w)][view[w].memory].state.content = view[w].state.content

Vectors == VectorEmbedsPayload /\ \A w \in Workers : KeptVectorFits(w)

LEMMA VectorsRest ==
    ASSUME ViewTypes, Vectors, NEW w, Workers = {w}, Rests(w)
    PROVE  Vectors'
<1>1. CASE UNCHANGED projectionVars
  BY <1>1 DEF projectionVars, indexVars, viewVars, Vectors, VectorEmbedsPayload, KeptVectorFits,
              NextCollection
<1>2. CASE DropView(w) /\ UNCHANGED indexVars
  <2>1. ~metadataOnly'[w] /\ UNCHANGED point
    BY <1>2, DropViewTypes DEF indexVars
  <2> QED BY <2>1 DEF Vectors, VectorEmbedsPayload, KeptVectorFits
<1> QED BY <1>1, <1>2 DEF Rests

LEMMA WorkVectors ==
    ASSUME ProjTypes, Vectors, NEW w, Workers = {w}, Works(w)
    PROVE  Vectors'
<1>1. w \in Workers /\ IndexTypes /\ ViewTypes /\ KeptVectorFits(w) /\ VectorEmbedsPayload
  BY DEF ProjTypes, Vectors
<1>2. ASSUME UNCHANGED <<point, metadataOnly>>, phase[w] # "write"
      PROVE  Vectors'
  BY <1>1, <1>2 DEF Vectors, VectorEmbedsPayload, KeptVectorFits
<1>3. ASSUME (\E e \in Events : ReadAuthority(w, e)) \/ CheckProjection(w)
      PROVE  Vectors'
  BY <1>2, <1>3 DEF ReadAuthority, CheckProjection, AtPhase, indexVars
<1>4. ASSUME ProbePoint(w)
      PROVE  Vectors'
  <2> DEFINE p == point[NextCollection(w)][view[w].memory]
  <2>1. /\ UNCHANGED <<point, todo, view>>
        /\ phase'[w] = "write"
    BY <1>1, <1>4 DEF ProbePoint, ViewTypes, indexVars
  <2>2. metadataOnly'[w] => p # NoPoint /\ p.state.content = view[w].state.content
    BY <1>1, <1>4 DEF ProbePoint, ViewTypes
  <2>3. NextCollection(w)' = NextCollection(w)
    BY <2>1 DEF NextCollection
  <2>4. KeptVectorFits(w)'
    BY <2>1, <2>2, <2>3 DEF KeptVectorFits
  <2> QED BY <1>1, <2>1, <2>4 DEF Vectors, VectorEmbedsPayload
<1>5. ASSUME WritePoint(w) \/ DeletePoint(w)
      PROVE  Vectors'
  <2> DEFINE c == NextCollection(w)
             m == view[w].memory
  <2>1. c \in Collections /\ phase[w] # "start"
    BY <1>5 DEF NextCollection, Collections, WritePoint, DeletePoint, AtPhase
  <2>2. view[w] \in Payloads /\ m \in Memories
    BY <1>1, <2>1 DEF ViewTypes, Payloads
  <2>3. point[c][m] \in Points \cup {NoPoint}
    BY <1>1, <2>1, <2>2 DEF IndexTypes
  <2>4. PICK p : /\ point' = [point EXCEPT ![c][m] = p]
                 /\ p # NoPoint => p.vector = p.state.content
    <3>1. CASE DeletePoint(w)
      BY <3>1 DEF DeletePoint
    <3>2. CASE WritePoint(w) /\ ~metadataOnly[w]
      <4>1. PointOf(view[w].state).vector = PointOf(view[w].state).state.content
        BY DEF PointOf
      <4> QED BY <3>2, <4>1 DEF WritePoint
    <3>3. CASE WritePoint(w) /\ metadataOnly[w]
      <4> DEFINE q == [point[c][m] EXCEPT !.state = view[w].state]
      <4>1. point[c][m] # NoPoint /\ point[c][m].state.content = view[w].state.content
        BY <1>1, <3>3 DEF KeptVectorFits
      <4>2. point[c][m].vector = point[c][m].state.content
        BY <1>1, <2>1, <2>2, <4>1 DEF VectorEmbedsPayload
      <4>3. q.vector = point[c][m].vector /\ q.state = view[w].state
        BY <2>3, <4>1 DEF Points
      <4>4. point' = [point EXCEPT ![c][m] = q]
        BY <3>3, <4>1 DEF WritePoint
      <4> QED BY <4>1, <4>2, <4>3, <4>4
    <3> QED BY <1>5, <3>1, <3>2, <3>3
  <2>5. ~metadataOnly'[w]
    BY <1>1, <1>5 DEF WritePoint, DeletePoint, AtPhase, ViewTypes, KeptVectorFits
  <2> HIDE DEF c, m
  <2>6. \A d \in Collections, n \in Memories :
           point'[d][n] = IF d = c /\ n = m THEN p ELSE point[d][n]
    BY <1>1, <2>1, <2>2, <2>4 DEF IndexTypes
  <2>7. VectorEmbedsPayload'
    BY <1>1, <2>4, <2>6 DEF VectorEmbedsPayload
  <2> QED BY <2>5, <2>7 DEF Vectors, KeptVectorFits
<1> QED BY <1>3, <1>4, <1>5 DEF Works

LEMMA NextVectors ==
    ASSUME ProjTypes, Vectors, NEW w, Workers = {w}, [ProjectionNext]_allVars
    PROVE  Vectors'
<1>1. ViewTypes
  BY DEF ProjTypes
<1>2. UNCHANGED projectionVars => Rests(w)
  BY DEF Rests
<1>3. Rests(w) \/ Works(w)
  BY <1>2, StepKinds DEF projectionVars
<1> QED BY <1>1, <1>3, VectorsRest, WorkVectors

--------------------------------------------------------------------------------
(* A single worker: what is acknowledged is projected. *)

\* Every save is the first of the state it saves: there is no upsert, which
\* saves twice, and no rewrite of recorded states.
FirstSaves == \A c \in Clients :
    op[c] \notin {"upsert", "rewrite"} /\ pc[c] \notin {"resave", "recommit"}

LEMMA NextFirstSaves ==
    ASSUME ProjTypes, FirstSaves, Operations \cap {"upsert", "rewrite"} = {},
           [ProjectionNext]_allVars
    PROVE  FirstSaves'
<1>1. Types /\ ClientTypes
  BY DEF ProjTypes, Types
<1>2. UNCHANGED clientVars => FirstSaves'
  BY DEF clientVars, FirstSaves
<1>3. ASSUME NEW c \in Clients, Request(c) PROVE FirstSaves'
  <2>1. ASSUME NEW o, NEW d, NEW next \in {"reread", "commit"}, Begin(c, o, d, next)
        PROVE  FirstSaves'
    BY <1>1, <2>1 DEF Begin, FirstSaves, ClientTypes
  <2>2. ASSUME NEW m \in Memories, FindByUpsertKey(c, m) PROVE FirstSaves'
    BY <1>1, <2>2 DEF FindByUpsertKey, FirstSaves, ClientTypes
  <2> QED BY <1>1, <1>3, <2>1, <2>2, Requests DEF Drafts, Drafted
<1>4. ASSUME NEW c \in Clients, Finished(c) \/ AfterSave(c) PROVE FirstSaves'
  <2>1. Finished(c)
    BY <1>4 DEF AfterSave, FirstSaves
  <2> QED BY <1>1, <2>1 DEF Finished, FirstSaves, ClientTypes
<1>5. ASSUME NEW c \in Clients, Save(c) PROVE FirstSaves'
  <2>1. CASE AfterSave(c) \/ Finished(c)
    BY <1>4, <2>1
  <2>2. CASE Reread(c) /\ Changing(c) # {}
    <3>1. /\ pc' = [pc EXCEPT ![c] = IF pc[c] = "resave" THEN "recommit" ELSE "commit"]
          /\ UNCHANGED op
      BY <2>2 DEF Reread
    <3> QED BY <1>1, <3>1 DEF FirstSaves, ClientTypes
  <2> QED BY <1>5, <2>1, <2>2 DEF Save, Reread, Commit, Conflict
<1>6. RetireProject \/ UndoWindowElapses \/ UNCHANGED storeVars => UNCHANGED clientVars
  BY DEF RetireProject, UndoWindowElapses, storeVars
<1> QED BY <1>2, <1>3, <1>5, <1>6, StoreSteps DEF StoreNext, storeVars

\* The writers leave the rows that are there alone, and a state that they give
\* a memory is in none of them.
FreshWrites ==
    /\ UNCHANGED <<lease, mode>>
    /\ \A e \in Events : payload[e] # NoPayload => payload'[e] = payload[e] /\ status'[e] = status[e]
    /\ \A e \in Events : status'[e] # status[e] => status'[e] = "pending"
    /\ \A e \in Events, m \in Memories :
          store'[m] # store[m] => payload[e] # [memory |-> m, state |-> store'[m]]

LEMMA StoreStepsAreFresh ==
    ASSUME StoreInv, FirstSaves, [StoreNext]_<<storeVars, outboxVars>>
    PROVE  FreshWrites
<1>1. Types /\ RowsTaken /\ StampsPast
  BY DEF StoreInv, Recordings
<1>2. ASSUME UNCHANGED <<tableVars, outboxVars>> PROVE FreshWrites
  BY <1>2 DEF tableVars, outboxVars, rowVars, workerVars, FreshWrites
<1>3. ASSUME NEW new, IsDraft(new), Write(new)
      PROVE  /\ UNCHANGED <<lease, mode>>
             /\ \A e \in Events : payload[e] # NoPayload =>
                   payload'[e] = payload[e] /\ status'[e] = status[e]
             /\ \A e \in Events : status'[e] # status[e] => status'[e] = "pending"
  <2>1. PICK rows \in SUBSET Events :
           /\ \A e \in rows : status[e] = "absent" /\ status'[e] = "pending"
           /\ \A e \in Events \ rows : status'[e] = status[e] /\ payload'[e] = payload[e]
           /\ UNCHANGED <<attempts, token, fence, expired, workerVars, claims, strikes, faults>>
    BY <1>3, WriteRows
  <2> QED BY <1>1, <2>1 DEF RowsTaken, workerVars
<1>4. ASSUME NEW c \in Clients, Commit(c) PROVE FreshWrites
  <2>1. PICK d : d = draft[c]
    OBVIOUS
  <2>2. IsDraft(d) /\ Write(d)
    BY <1>1, <1>4, <2>1 DEF Commit, Types, ClientTypes
  <2>3. Pending(c) /\ Stamped(c)
    BY <1>4 DEF StoreInv, Commit, FirstSaves, Pending
  <2>4. ASSUME NEW e \in Events, NEW m \in Memories, store'[m] # store[m],
               payload[e] = [memory |-> m, state |-> store'[m]]
        PROVE  FALSE
    <3>1. m \in DOMAIN d /\ store'[m] = d[m]
      BY <2>2, <2>4 DEF Write
    <3>2. Spent(d[m].stamp)
      BY <2>4, <3>1, PayloadsDiffer DEF Spent
    <3> QED BY <2>1, <2>3, <3>1, <3>2 DEF Stamped
  <2> QED BY <1>3, <2>2, <2>4 DEF FreshWrites
<1>5. ASSUME RetireProject PROVE FreshWrites
  <2>1. PICK live \in SUBSET Existing :
           /\ IsDraft([m \in live |-> Tombstoned(store[m], clock + 1)])
           /\ Write([m \in live |-> Tombstoned(store[m], clock + 1)])
    BY <1>1, <1>5, RetiredDrafts
  <2>2. PICK d : d = [m \in live |-> Tombstoned(store[m], clock + 1)]
    OBVIOUS
  <2>3. IsDraft(d) /\ Write(d)
    BY <2>1, <2>2
  <2>4. ASSUME NEW e \in Events, NEW m \in Memories, store'[m] # store[m],
               payload[e] = [memory |-> m, state |-> store'[m]]
        PROVE  FALSE
    <3>1. m \in Existing /\ store'[m] = Tombstoned(store[m], clock + 1)
      BY <1>5, <2>4, Retired
    <3>2. clock \in Nat /\ store[m] \in States
      BY <1>1, <2>4, <3>1, ExistingStates DEF Types, TableTypes
    <3>3. store'[m].stamp = clock + 1
      BY <3>1, <3>2, AggregatesAreStates
    <3>4. payload[e].state.stamp <= clock
      BY <1>1, <2>4, PayloadsDiffer DEF StampsPast
    <3> QED BY <2>4, <3>2, <3>3, <3>4
  <2> QED BY <1>3, <2>3, <2>4 DEF FreshWrites
<1>6. ASSUME NEW c \in Clients, Request(c) PROVE UNCHANGED <<tableVars, outboxVars>>
  BY <1>1, <1>6, Requests DEF Drafts, Begin, FindByUpsertKey
<1>7. ASSUME NEW c \in Clients, Reread(c) \/ Conflict(c) PROVE UNCHANGED <<tableVars, outboxVars>>
  BY <1>7 DEF Reread, Conflict
<1>8. UndoWindowElapses \/ UNCHANGED <<storeVars, outboxVars>> => UNCHANGED <<tableVars, outboxVars>>
  BY DEF UndoWindowElapses, storeVars
<1> QED BY <1>2, <1>4, <1>5, <1>6, <1>7, <1>8 DEF StoreNext, Save

\* The event was acknowledged, and its row may have been deleted since.
Done(e) == status[e] \in {"completed", "pruned"}

Carries(e, m, s) == payload[e] = [memory |-> m, state |-> s]

\* A worker past its start holds a lease on the event whose memory it has read,
\* and what it has read is the memory's present state if that state is the one
\* of its event, or of an event that was acknowledged.
InHand(w) ==
    /\ mode[w] # "projecting" => phase[w] = "start"
    /\ phase[w] # "start" =>
          /\ \A e \in Events : IsHead(w, e) => payload[e].memory = view[w].memory
          /\ \A e \in Events :
                /\ Carries(e, view[w].memory, store[view[w].memory])
                /\ IsHead(w, e) \/ Done(e)
                => view[w].state = store[view[w].memory]

\* The collections that a worker has dealt with are in line with what it read.
Progress(w) ==
    /\ phase[w] \in {"probe", "write"} =>
          /\ todo[w] # {} /\ todo[w] \subseteq Targets(view[w].state)
          /\ \A c \in Targets(view[w].state) \ todo[w] :
                PayloadMatches(c, view[w].memory, view[w].state)
    /\ phase[w] = "write" => view[w].state.lifecycle # "tombstoned"
    /\ phase[w] = "settle" => InLine(view[w].memory, view[w].state)

Projecting == AcknowledgedIsProjected /\ \A w \in Workers : InHand(w) /\ Progress(w)

LEMMA InitProjecting == ProjectionInit => Projecting
BY DEF ProjectionInit, StoreInit, Projecting, AcknowledgedIsProjected, Existing, InHand, Progress

\* The writers give a memory only states that no row carries.
LEMMA StoreKeepsProjecting ==
    ASSUME ProjTypes, Projecting, FreshWrites, UNCHANGED projectionVars
    PROVE  Projecting'
<1>1. /\ UNCHANGED <<point, phase, view, todo, lease, mode>>
      /\ \A e \in Events : payload[e] # NoPayload => payload'[e] = payload[e] /\ status'[e] = status[e]
      /\ \A e \in Events : status'[e] # status[e] => status'[e] = "pending"
  BY DEF FreshWrites, projectionVars, indexVars, viewVars
<1>2. ASSUME NEW e \in Events, Done(e)' \/ (\E w \in Workers : IsHead(w, e))
      PROVE  payload[e] # NoPayload /\ payload'[e] = payload[e] /\ status'[e] = status[e]
  <2>1. status[e] # "absent"
    BY <1>1, <1>2 DEF Done, IsHead, Held, ProjTypes, Rows
  <2>2. payload[e] # NoPayload
    BY <2>1, NoPayloadIsNone DEF ProjTypes, Rows
  <2> QED BY <1>1, <2>2
<1>3. ASSUME NEW e \in Events, NEW m \in Memories, Carries(e, m, store[m])',
             payload'[e] = payload[e]
      PROVE  store'[m] = store[m] /\ Carries(e, m, store[m])
  BY <1>3 DEF FreshWrites, Carries
<1>4. AcknowledgedIsProjected'
  <2> SUFFICES ASSUME NEW m \in Existing', NEW e \in Events, Done(e)', Carries(e, m, store[m])'
               PROVE  InLine(m, store[m])'
    BY DEF AcknowledgedIsProjected, Done, Carries
  <2>1. m \in Memories /\ store'[m] = store[m] /\ Carries(e, m, store[m]) /\ Done(e)
    BY <1>2, <1>3 DEF Existing, Done
  <2>2. InLine(m, store[m])
    BY <2>1 DEF Projecting, AcknowledgedIsProjected, Existing, Done, Carries
  <2> QED BY <1>1, <2>1, <2>2 DEF InLine, PayloadMatches
<1>5. ASSUME NEW w \in Workers PROVE Progress(w)'
  BY <1>1 DEF Projecting, Progress, InLine, PayloadMatches
<1>6. ASSUME NEW w \in Workers PROVE InHand(w)'
  <2>1. \A e \in Events : IsHead(w, e)' <=> IsHead(w, e)
    BY <1>1 DEF IsHead, Held
  <2>2. InHand(w)
    BY DEF Projecting
  <2>3. ASSUME phase[w] # "start"
        PROVE  /\ \A e \in Events : IsHead(w, e)' => payload'[e].memory = view'[w].memory
               /\ \A e \in Events :
                     /\ Carries(e, view[w].memory, store[view[w].memory])'
                     /\ IsHead(w, e)' \/ Done(e)'
                     => view'[w].state = store'[view'[w].memory]
    <3>1. PICK v : v = view[w]
      OBVIOUS
    <3>2. v \in Payloads /\ v.memory \in Memories /\ view'[w] = v
      BY <1>1, <2>3, <3>1 DEF ProjTypes, ViewTypes, Payloads
    <3>3. ASSUME NEW e \in Events, IsHead(w, e)' PROVE payload'[e].memory = v.memory
      BY <1>2, <2>1, <2>2, <2>3, <3>1, <3>3 DEF InHand
    <3>4. ASSUME NEW e \in Events, Carries(e, v.memory, store[v.memory])', IsHead(w, e)' \/ Done(e)'
          PROVE  v.state = store'[v.memory]
      <4>1. (IsHead(w, e) \/ Done(e)) /\ payload'[e] = payload[e]
        BY <1>2, <2>1, <3>4 DEF Done
      <4>2. store'[v.memory] = store[v.memory] /\ Carries(e, v.memory, store[v.memory])
        BY <1>3, <3>2, <3>4, <4>1
      <4> QED BY <2>2, <2>3, <3>1, <4>1, <4>2 DEF InHand
    <3> QED BY <3>2, <3>3, <3>4
  <2> QED BY <1>1, <2>2, <2>3 DEF InHand
<1> QED BY <1>4, <1>5, <1>6 DEF Projecting

\* What the only worker and the others that serve the outbox may do: acknowledge
\* an event, go on with one, or acknowledge nothing and give up what is in hand
\* or leave it as it is.
LEMMA ServiceKinds ==
    ASSUME ProjTypes, NEW w, Workers = {w}, InHand(w), [ProjectionNext]_allVars
    PROVE  \/ [StoreNext]_<<storeVars, outboxVars>> /\ UNCHANGED projectionVars
           \/ \E e \in Events : Acknowledge(w, e)
           \/ Works(w)
           \/ /\ UNCHANGED storeVars
              /\ \A e \in Events : Done(e)' => Done(e)
              /\ \/ DropView(w) /\ UNCHANGED indexVars
                 \/ UNCHANGED projectionVars /\ phase[w] = "start"
                 \/ UNCHANGED <<projectionVars, workerVars>>
<1> DEFINE Quiet == /\ UNCHANGED storeVars
                    /\ \A e \in Events : Done(e)' => Done(e)
                    /\ \/ DropView(w) /\ UNCHANGED indexVars
                       \/ UNCHANGED projectionVars /\ phase[w] = "start"
                       \/ UNCHANGED <<projectionVars, workerVars>>
<1>1. OutboxTypeOK /\ w \in Workers
  BY DEF ProjTypes, Types, TableTypes
<1>2. ASSUME Claim(w) PROVE Quiet
  <2>1. phase[w] = "start"
    BY <1>2 DEF Claim, ClaimOutbox, InHand
  <2>2. \A e \in Events : status'[e] = status[e] \/ status'[e] \in {"processing", "pending"}
    BY <1>2 DEF Claim, ClaimOutbox
  <2> QED BY <1>2, <2>1, <2>2 DEF Claim, Done
<1>3. ASSUME NEW e \in Events, GiveUp(w, e) PROVE Quiet
  <2>1. status' = status \/ \E s \in {"dead_letter", "failed", "pending"} :
           status' = [status EXCEPT ![e] = s]
    BY <1>3 DEF GiveUp, FailOutbox, DeferOutbox, VerdictRaises, rowVars
  <2>2. \A f \in Events : Done(f)' => Done(f)
    BY <1>1, <2>1 DEF Done, OutboxTypeOK
  <2> QED BY <1>3, <2>2 DEF GiveUp
<1>4. ASSUME Outage(w) \/ Crash(w) PROVE Quiet
  BY <1>4 DEF Outage, Crash, StartDeferral, CrashWorker, rowVars, Done
<1>5. TimePasses => Quiet
  BY DEF TimePasses, Clock, LeaseElapses, BackoffElapses, Done
<1>6. ASSUME NEW e \in Events, Prune(e) PROVE Quiet
  BY <1>1, <1>6 DEF Prune, PruneCompleted, Done, OutboxTypeOK
<1>7. ASSUME NEW S \in SUBSET Events, Requeue(S) PROVE Quiet
  BY <1>7 DEF Requeue, RequeueDeadLetters, ReopenDead, Done
<1>8. UNCHANGED allVars => [StoreNext]_<<storeVars, outboxVars>> /\ UNCHANGED projectionVars
  BY DEF allVars
<1>9. Handle(w) => Works(w) \/ \E e \in Events : Acknowledge(w, e) \/ GiveUp(w, e)
  BY DEF Handle, Works
<1> QED BY <1>2, <1>3, <1>4, <1>5, <1>6, <1>7, <1>8, <1>9 DEF ProjectionNext

\* An event is acknowledged after its memory's collections have been brought in
\* line with a state no older than the event's.
LEMMA AcknowledgeKeepsProjecting ==
    ASSUME ProjTypes, Projecting, NEW w, Workers = {w}, NEW e \in Events, Acknowledge(w, e)
    PROVE  Projecting'
<1>1. /\ UNCHANGED <<point, store, payload>> /\ phase'[w] = "start"
      /\ phase[w] = "settle" /\ IsHead(w, e)
      /\ \A f \in Events \ {e} : status'[f] = status[f]
  <2>1. phase'[w] = "start"
    BY DropViewTypes DEF Acknowledge, ProjTypes
  <2> QED BY <2>1 DEF Acknowledge, AckOutbox, indexVars, storeVars, tableVars, ProjTypes, Types,
                      TableTypes, OutboxTypeOK
<1>2. InHand(w) /\ Progress(w)
  BY DEF Projecting
<1>3. AcknowledgedIsProjected'
  <2> SUFFICES ASSUME NEW m \in Existing, NEW f \in Events, Done(f)', Carries(f, m, store[m])
               PROVE  InLine(m, store[m])
    BY <1>1 DEF AcknowledgedIsProjected, Existing, Done, Carries, InLine, PayloadMatches
  <2>1. CASE f = e
    <3>1. view[w].memory = m
      BY <1>1, <1>2, <2>1 DEF InHand, Carries
    <3>2. view[w].state = store[m]
      BY <1>1, <1>2, <2>1, <3>1 DEF InHand
    <3> QED BY <1>1, <1>2, <3>1, <3>2 DEF Progress
  <2>2. CASE f # e
    BY <1>1, <2>2 DEF Projecting, AcknowledgedIsProjected, Done, Carries
  <2> QED BY <2>1, <2>2
<1>4. InHand(w)' /\ Progress(w)'
  BY <1>1 DEF InHand, Progress
<1> QED BY <1>3, <1>4 DEF Projecting

LEMMA QuietKeepsProjecting ==
    ASSUME ProjTypes, Projecting, NEW w, Workers = {w},
           UNCHANGED storeVars, \A e \in Events : Done(e)' => Done(e),
           \/ DropView(w) /\ UNCHANGED indexVars
           \/ UNCHANGED projectionVars /\ phase[w] = "start"
           \/ UNCHANGED <<projectionVars, workerVars>>
    PROVE  Projecting'
<1>1. UNCHANGED <<point, store, payload>>
  BY DEF storeVars, tableVars, projectionVars, indexVars
<1>2. AcknowledgedIsProjected'
  BY <1>1 DEF Projecting, AcknowledgedIsProjected, Existing, Done, InLine, PayloadMatches
<1>3. ASSUME phase'[w] = "start" PROVE InHand(w)' /\ Progress(w)'
  BY <1>3 DEF InHand, Progress
<1>4. ASSUME UNCHANGED <<projectionVars, workerVars>>
      PROVE  InHand(w)' /\ Progress(w)'
  <2>1. UNCHANGED <<phase, view, todo, lease, mode>>
    BY <1>4 DEF projectionVars, viewVars, workerVars
  <2>2. \A e \in Events : IsHead(w, e)' <=> IsHead(w, e)
    BY <2>1 DEF IsHead, Held
  <2>3. InHand(w) /\ Progress(w)
    BY DEF Projecting
  <2>4. InHand(w)'
    BY <1>1, <2>1, <2>2, <2>3 DEF InHand, Carries
  <2>5. Progress(w)'
    BY <1>1, <2>1, <2>3 DEF Progress, InLine, PayloadMatches
  <2> QED BY <2>4, <2>5
<1>5. phase'[w] = "start" \/ UNCHANGED <<projectionVars, workerVars>>
  BY DropViewTypes DEF ProjTypes, projectionVars, viewVars
<1> QED BY <1>2, <1>3, <1>4, <1>5 DEF Projecting

\* A write of the only worker brings the collection in line with what it has read.
LEMMA WriteBringsInLine ==
    ASSUME ProjTypes, Vectors, NEW w, Workers = {w}, Progress(w), WritePoint(w) \/ DeletePoint(w),
           NEW k, k = NextCollection(w), NEW v, v = view[w]
    PROVE  /\ k \in todo[w] /\ PayloadMatches(k, v.memory, v.state)'
           /\ \A c \in Collections, m \in Memories :
                 c # k \/ m # v.memory => point'[c][m] = point[c][m]
<1>1. w \in Workers /\ phase[w] \in {"probe", "write"} /\ todo[w] \subseteq Collections
  BY DEF WritePoint, DeletePoint, AtPhase, ProjTypes, ViewTypes
<1>2. k \in todo[w] /\ k \in Collections
  BY <1>1 DEF Progress, NextCollection, Collections
<1>3. v \in Payloads /\ v.memory \in Memories /\ v.state \in States
  BY <1>1 DEF ProjTypes, ViewTypes, Payloads
<1>4. point[k][v.memory] \in Points \cup {NoPoint}
  BY <1>2, <1>3 DEF ProjTypes, IndexTypes
<1>5. PICK p : /\ point' = [point EXCEPT ![k][v.memory] = p]
               /\ IF v.state.lifecycle = "tombstoned" THEN p = NoPoint
                                                     ELSE p # NoPoint /\ p.state = v.state
  <2>1. CASE DeletePoint(w)
    BY <2>1 DEF DeletePoint
  <2>2. CASE WritePoint(w)
    <3>1. v.state.lifecycle # "tombstoned"
      BY <2>2 DEF WritePoint, AtPhase, Progress
    <3>2. CASE ~metadataOnly[w]
      <4>1. PointOf(v.state).kind # NoPoint.kind /\ PointOf(v.state).state = v.state
        BY DEF PointOf, NoPoint
      <4>2. PointOf(v.state) # NoPoint
        BY <4>1
      <4> QED BY <2>2, <3>1, <3>2, <4>1, <4>2 DEF WritePoint
    <3>3. CASE metadataOnly[w]
      <4> DEFINE q == [point[k][v.memory] EXCEPT !.state = v.state]
      <4>1. point[k][v.memory] # NoPoint
        BY <1>1, <3>3 DEF Vectors, KeptVectorFits
      <4>2. q.state = v.state /\ q.kind = "point"
        BY <1>4, <4>1 DEF Points
      <4>3. q # NoPoint
        BY <4>2 DEF NoPoint
      <4>4. point' = [point EXCEPT ![k][v.memory] = q]
        BY <2>2, <3>3, <4>1 DEF WritePoint
      <4> HIDE DEF q
      <4> QED BY <3>1, <4>2, <4>3, <4>4
    <3> QED BY <3>2, <3>3
  <2> QED BY <2>1, <2>2
<1>6. \A c \in Collections, m \in Memories :
         point'[c][m] = IF c = k /\ m = v.memory THEN p ELSE point[c][m]
  BY <1>2, <1>3, <1>5 DEF ProjTypes, IndexTypes
<1>7. PayloadMatches(k, v.memory, v.state)'
  BY <1>2, <1>3, <1>5, <1>6 DEF PayloadMatches
<1> QED BY <1>2, <1>6, <1>7

LEMMA WorkKeepsProjecting ==
    ASSUME ProjTypes, Vectors, Projecting, NEW w, Workers = {w}, Works(w)
    PROVE  Projecting'
<1>1. /\ UNCHANGED <<store, payload, status, lease, mode>>
      /\ w \in Workers /\ mode[w] = "projecting"
      /\ ViewTypes /\ ViewTypes' /\ InHand(w) /\ Progress(w) /\ AcknowledgedIsProjected
  <2>1. UNCHANGED <<storeVars, outboxVars>> /\ ViewTypes' /\ w \in Workers
    BY WorkTypes
  <2>2. mode[w] = "projecting"
    BY DEF Works, ReadAuthority, CheckProjection, ProbePoint, WritePoint, DeletePoint, AtPhase
  <2> QED BY <2>1, <2>2 DEF storeVars, tableVars, outboxVars, rowVars, workerVars, ProjTypes, Projecting
<1>2. \A e \in Events : (IsHead(w, e)' <=> IsHead(w, e)) /\ (Done(e)' <=> Done(e))
  BY <1>1 DEF IsHead, Held, Done
<1>3. ASSUME UNCHANGED view, phase[w] # "start" PROVE InHand(w)'
  BY <1>1, <1>2, <1>3 DEF InHand, Carries
<1>4. ASSUME UNCHANGED point PROVE AcknowledgedIsProjected'
  BY <1>1, <1>4 DEF AcknowledgedIsProjected, Existing, InLine, PayloadMatches
<1>5. ASSUME NEW e \in Events, ReadAuthority(w, e) PROVE Projecting'
  <2>1. /\ UNCHANGED point /\ phase'[w] = "check" /\ IsHead(w, e)
        /\ view'[w] = [memory |-> payload[e].memory, state |-> store[payload[e].memory]]
    BY <1>1, <1>5 DEF ReadAuthority, ViewTypes, indexVars
  <2>2. \A f \in Events : IsHead(w, f) => f = e
    BY <2>1, OutboxAssumption DEF IsHead, Held
  <2>3. InHand(w)'
    BY <1>1, <1>2, <2>1, <2>2 DEF InHand
  <2>4. Progress(w)'
    BY <2>1 DEF Progress
  <2> QED BY <1>4, <2>1, <2>3, <2>4 DEF Projecting
<1>6. ASSUME CheckProjection(w) PROVE Projecting'
  <2>1. PICK v : v = view[w]
    OBVIOUS
  <2>2. /\ UNCHANGED <<point, view>> /\ phase[w] # "start"
        /\ \/ phase'[w] = "settle" /\ InLine(v.memory, v.state)
           \/ phase'[w] = "probe" /\ todo'[w] = Targets(v.state)
    BY <1>1, <1>6, <2>1 DEF CheckProjection, AtPhase, ViewTypes, indexVars
  <2>3. Targets(v.state) # {}
    BY DEF Targets, Collections
  <2>4. Progress(w)'
    BY <2>1, <2>2, <2>3 DEF Progress, InLine, PayloadMatches
  <2> QED BY <1>3, <1>4, <2>2, <2>4 DEF Projecting
<1>7. ASSUME ProbePoint(w) PROVE Projecting'
  <2>1. /\ UNCHANGED <<point, view, todo>> /\ phase[w] = "probe" /\ phase'[w] = "write"
        /\ view[w].state.lifecycle # "tombstoned"
    BY <1>1, <1>7 DEF ProbePoint, AtPhase, ViewTypes, indexVars
  <2>2. Progress(w)'
    BY <1>1, <2>1 DEF Progress, PayloadMatches
  <2> QED BY <1>3, <1>4, <2>1, <2>2 DEF Projecting
<1>8. ASSUME WritePoint(w) \/ DeletePoint(w) PROVE Projecting'
  <2>1. PICK k : k = NextCollection(w)
    OBVIOUS
  <2>2. PICK v : v = view[w]
    OBVIOUS
  <2>3. /\ k \in todo[w] /\ PayloadMatches(k, v.memory, v.state)'
        /\ \A c \in Collections, m \in Memories :
              c # k \/ m # v.memory => point'[c][m] = point[c][m]
    BY <1>1, <1>8, <2>1, <2>2, WriteBringsInLine
  <2>4. /\ UNCHANGED view /\ phase[w] \in {"probe", "write"}
        /\ todo'[w] = todo[w] \ {k}
        /\ phase'[w] = IF todo[w] = {k} THEN "settle" ELSE "probe"
    BY <1>1, <1>8, <2>1 DEF WritePoint, DeletePoint, Advance, AtPhase, ViewTypes
  <2>5. v.memory \in Memories /\ todo[w] \subseteq Collections
    BY <1>1, <2>2, <2>4 DEF ViewTypes, Payloads
  <2>6. \A c \in Targets(v.state) : c \in Collections
    BY DEF Targets, Collections
  <2>7. \A c \in Targets(v.state) \ todo'[w] : PayloadMatches(c, v.memory, v.state)'
    <3>1. ASSUME NEW c \in Targets(v.state) \ todo'[w], c # k
          PROVE  PayloadMatches(c, v.memory, v.state)'
      <4>1. PayloadMatches(c, v.memory, v.state)
        BY <1>1, <2>2, <2>4, <3>1 DEF Progress
      <4>2. point'[c][v.memory] = point[c][v.memory]
        BY <2>3, <2>5, <2>6, <3>1
      <4> QED BY <4>1, <4>2 DEF PayloadMatches
    <3> QED BY <2>3, <3>1
  <2>8. Progress(w)'
    <3>1. CASE todo[w] = {k}
      BY <2>2, <2>4, <2>7, <3>1 DEF Progress, InLine
    <3>2. CASE todo[w] # {k}
      <4>1. phase'[w] = "probe" /\ todo'[w] # {} /\ todo'[w] \subseteq Targets(v.state)
        BY <1>1, <2>2, <2>3, <2>4, <3>2 DEF Progress
      <4> QED BY <2>2, <2>4, <2>7, <4>1 DEF Progress
    <3> QED BY <3>1, <3>2
  <2>9. AcknowledgedIsProjected'
    <3> SUFFICES ASSUME NEW m \in Existing, NEW e \in Events, Done(e), Carries(e, m, store[m]),
                        NEW c \in Targets(store[m])
                 PROVE  PayloadMatches(c, m, store[m])'
      BY <1>1 DEF AcknowledgedIsProjected, Existing, Done, Carries, InLine
    <3>1. PayloadMatches(c, m, store[m]) /\ c \in Collections /\ m \in Memories
      BY <1>1 DEF AcknowledgedIsProjected, Done, Carries, InLine, Targets, Collections, Existing
    <3>2. CASE c = k /\ m = v.memory
      <4>1. v.state = store[m]
        BY <1>1, <2>2, <2>4, <3>2 DEF InHand
      <4> QED BY <1>1, <2>3, <3>2, <4>1 DEF PayloadMatches
    <3>3. CASE c # k \/ m # v.memory
      BY <1>1, <2>3, <3>1, <3>3 DEF PayloadMatches
    <3> QED BY <3>2, <3>3
  <2>10. InHand(w)'
    BY <1>3, <2>4
  <2> QED BY <2>8, <2>9, <2>10 DEF Projecting
<1> QED BY <1>5, <1>6, <1>7, <1>8 DEF Works

LEMMA NextProjecting ==
    ASSUME ProjTypes, StoreInv, FirstSaves, Vectors, Projecting, NEW w, Workers = {w},
           [ProjectionNext]_allVars
    PROVE  Projecting'
<1>1. InHand(w)
  BY DEF Projecting
<1>2. ASSUME NEW e \in Events, Acknowledge(w, e) PROVE Projecting'
  BY <1>2, AcknowledgeKeepsProjecting
<1> QED BY <1>1, <1>2, ServiceKinds, StoreStepsAreFresh, StoreKeepsProjecting,
           QuietKeepsProjecting, WorkKeepsProjecting

ProjectingInv == ProjTypes /\ StoreInv /\ FirstSaves /\ Vectors /\ Projecting

LEMMA InitProjectingInv == ProjectionInit => ProjectingInv
BY InitProjTypes, InitStoreInv, InitProjecting
   DEF ProjectionInit, StoreInit, ProjectingInv, FirstSaves, Vectors, VectorEmbedsPayload,
       KeptVectorFits

LEMMA NextProjectingInv ==
    ASSUME NEW w, Workers = {w}, Operations \cap {"upsert", "rewrite"} = {},
           ProjectingInv, [ProjectionNext]_allVars
    PROVE  ProjectingInv'
BY NextProjTypes, NextServedStoreInv, NextFirstSaves, NextVectors, NextProjecting DEF ProjectingInv

--------------------------------------------------------------------------------
(* A single worker: what a tombstone leaves when the routing is the same for *)
(* every content.                                                            *)

\* Nothing is ever routed to the global collection.
LocalOnly == GlobalContents = {} => \A m \in Memories : point["global"][m] = NoPoint

LEMMA NextLocalOnly ==
    ASSUME ProjTypes, Vectors, Projecting, LocalOnly, NEW w, Workers = {w}, [ProjectionNext]_allVars
    PROVE  LocalOnly'
<1>1. UNCHANGED point => LocalOnly'
  BY DEF LocalOnly
<1>2. ASSUME WritePoint(w) \/ DeletePoint(w) PROVE LocalOnly'
  <2>1. PICK k : k = NextCollection(w)
    OBVIOUS
  <2>2. PICK v : v = view[w]
    OBVIOUS
  <2>3. Progress(w) /\ phase[w] \in {"probe", "write"}
    BY <1>2 DEF Projecting, WritePoint, DeletePoint, AtPhase
  <2>4. /\ k \in todo[w]
        /\ \A c \in Collections, m \in Memories :
              c # k \/ m # v.memory => point'[c][m] = point[c][m]
    BY <1>2, <2>1, <2>2, <2>3, WriteBringsInLine
  <2>5. GlobalContents = {} => k = "local"
    BY <2>3, <2>4 DEF Progress, Targets
  <2> QED BY <2>4, <2>5 DEF LocalOnly, Collections
<1>3. Rests(w) => UNCHANGED point
  BY DEF Rests, projectionVars, indexVars
<1>4. Works(w) => UNCHANGED point \/ WritePoint(w) \/ DeletePoint(w)
  BY DEF Works, ReadAuthority, CheckProjection, ProbePoint, indexVars
<1> QED BY <1>1, <1>2, <1>3, <1>4, StepKinds DEF projectionVars, indexVars

\* Then a memory that is in line as a tombstone is in no collection.
LEMMA NothingElsewhere ==
    ASSUME ProjTypes, AcknowledgedIsProjected, LocalOnly, GlobalContents \in {{}, Contents}
    PROVE  ForgottenHasNoPoint
<1> SUFFICES ASSUME NEW m \in Existing, NEW e \in Events, Done(e), Carries(e, m, store[m]),
                    store[m].lifecycle = "tombstoned", NEW c \in Collections
             PROVE  point[c][m] = NoPoint
  BY DEF ForgottenHasNoPoint, Done, Carries
<1>1. InLine(m, store[m])
  BY DEF AcknowledgedIsProjected, Done, Carries
<1>2. m \in Memories /\ store[m].content \in Contents
  BY ExistingStates DEF Existing, ProjTypes, States
<1>3. c \in Targets(store[m]) \/ (c = "global" /\ GlobalContents = {})
  BY <1>2 DEF Targets, Collections
<1> QED BY <1>1, <1>2, <1>3 DEF InLine, PayloadMatches, LocalOnly

--------------------------------------------------------------------------------
(* The theorems. *)

\* Every projection variable keeps its type, whatever the number of workers:
\* a worker only ever has a memory in its hands that it has read from the
\* authority (QdrantProjector.run_once).
THEOREM ProjectionTypesHold == ProjectionSpec => []ProjectionTypeOK
<1>1. ProjTypes => ProjectionTypeOK
  BY TypesSuffice DEF ProjTypes, IndexTypes, ViewTypes, ProjectionTypeOK
<1> QED BY <1>1, InitProjTypes, NextProjTypes, PTL DEF ProjectionSpec

\* Between writers, workers, retention and operators the outbox keeps its
\* invariant: tokens, leases, attempts and dead letters are as the outbox alone
\* has them (SQLiteMemoryRepository, QdrantProjector.run_once).
THEOREM ProjectionKeepsOutbox == ProjectionSpec => []Inv
<1>1. ProjectionInit => Inv
  BY InitInv DEF ProjectionInit, StoreInit
<1>2. ProjTypes /\ Inv /\ [ProjectionNext]_allVars => ProjTypes' /\ Inv'
  BY NextProjTypes, OutboxSteps, NextInv
<1> QED BY <1>1, <1>2, InitProjTypes, PTL DEF ProjectionSpec

\* Only the holder of a live lease settles a row, in the whole projection too
\* (_assert_outbox_lease_owner).
THEOREM ProjectionSettlesByOwner == ProjectionSpec => OnlyOwnerSettles
<1>1. ProjTypes /\ Inv /\ [ProjectionNext]_allVars =>
        /\ ProjTypes'
        /\ [\A e \in Events :
              /\ status[e] = "processing" /\ status'[e] # "processing" /\ e \notin expired
              => \E w \in Workers : lease[w][e] = token[e] /\ lease'[w][e] = NoToken]_outboxVars
  BY NextProjTypes, OutboxSteps, NextSettled
<1> QED BY <1>1, InitProjTypes, ProjectionKeepsOutbox, PTL DEF ProjectionSpec, OnlyOwnerSettles

\* The whole projection is, step by step, the queue of EventQueue: every save
\* appends open events, and nothing completed comes back (memory_outbox).
THEOREM ProjectionRefinesQueue == ProjectionSpec => Abstract!Init /\ [][Abstract!Next]_Queue
<1>1. ProjTypes /\ Inv /\ [ProjectionNext]_allVars => ProjTypes' /\ [Abstract!Next]_Queue
  BY NextProjTypes, OutboxSteps, NextRefines DEF Inv
<1>2. ProjectionInit => Abstract!Init
  BY InitRefines DEF ProjectionInit, StoreInit
<1> QED BY <1>1, <1>2, InitProjTypes, ProjectionKeepsOutbox, PTL DEF ProjectionSpec

\* The invariant of the memory table and its writers survives workers, crashes,
\* requeues and retention (MemoryLifecycleService, sqlite_retention).
THEOREM ProjectionKeepsStore == ProjectionSpec => []StoreInv
<1>1. ProjectionInit => StoreInv
  BY InitStoreInv DEF ProjectionInit
<1>2. ProjTypes /\ StoreInv /\ [ProjectionNext]_allVars => ProjTypes' /\ StoreInv'
  BY NextProjTypes, NextServedStoreInv
<1> QED BY <1>1, <1>2, InitProjTypes, PTL DEF ProjectionSpec

\* A tombstone, an undo or a project retirement never brings back an older
\* content, whatever the projection does meanwhile (MemoryLifecycleService).
THEOREM ServedLifecycleKeepsContent == ProjectionSpec => LifecycleStepKeepsContent
<1>1. ProjTypes /\ StoreInv /\ [ProjectionNext]_allVars =>
        /\ ProjTypes'
        /\ [\A m \in Existing :
              (\A c \in Clients : Replaces(c, m) => op[c] \in {"forget", "undo"})
              => store'[m].content = store[m].content]_<<storeVars, outboxVars>>
  BY NextProjTypes, StoreSteps, StepKeepsContent DEF storeVars, tableVars
<1> QED BY <1>1, InitProjTypes, ProjectionKeepsStore, PTL
        DEF ProjectionSpec, LifecycleStepKeepsContent

\* Nor does it make a writer revive a tombstone it has seen (Memory.to_record).
THEOREM ServedTombstonesSurvive == ProjectionSpec => SeenTombstonesSurviveSaves
<1>1. ProjTypes /\ StoreInv /\ [ProjectionNext]_allVars =>
        /\ ProjTypes'
        /\ [\A m \in Existing, c \in Clients :
              /\ Replaces(c, m) /\ op[c] # "undo"
              /\ store[m].lifecycle = "tombstoned" /\ seen[c][m] = version[m]
              => store'[m].lifecycle = "tombstoned"]_<<storeVars, outboxVars>>
  BY NextProjTypes, StoreSteps, StepKeepsTombstone DEF storeVars, tableVars
<1> QED BY <1>1, InitProjTypes, ProjectionKeepsStore, PTL
        DEF ProjectionSpec, SeenTombstonesSurviveSaves

\* A first save of a newly drafted state queues an event with the new state,
\* although retention deletes rows that might have carried it: no row ever did
\* (_append_memory_event).
THEOREM ServedNewStatesAreQueued == ProjectionSpec => NewStateQueuesEvent
<1>1. ProjTypes /\ StoreInv /\ [ProjectionNext]_allVars =>
        /\ ProjTypes'
        /\ [\A m \in Memories :
              /\ store'[m] # store[m]
              /\ \A c \in Clients : Replaces(c, m) => pc[c] = "commit" /\ op[c] # "rewrite"
              => AppendsEvent(m)]_<<storeVars, outboxVars>>
  BY NextProjTypes, StoreSteps, StepQueuesEvent DEF storeVars, tableVars
<1> QED BY <1>1, InitProjTypes, ProjectionKeepsStore, PTL DEF ProjectionSpec, NewStateQueuesEvent

\* As long as there is only one projection worker, a point's vector is the one
\* of the content in its payload, although most writes leave the vector alone
\* (project_memory, metadata_only).
THEOREM VectorsEmbedPayload ==
    ASSUME NEW w, Workers = {w}
    PROVE  ProjectionSpec => []VectorEmbedsPayload
<1>1. ProjectionInit => Vectors
  BY DEF ProjectionInit, Vectors, VectorEmbedsPayload, KeptVectorFits
<1>2. ProjTypes /\ Vectors /\ [ProjectionNext]_allVars => ProjTypes' /\ Vectors'
  BY NextProjTypes, NextVectors
<1>3. Vectors => VectorEmbedsPayload
  BY DEF Vectors
<1> QED BY <1>1, <1>2, <1>3, InitProjTypes, PTL DEF ProjectionSpec

\* As long as there is only one projection worker, no collection goes back to
\* an older state of a memory, whatever is retried, reclaimed or requeued: the
\* worker reads the authority after it has claimed (QdrantProjector.run_once).
THEOREM ProjectionIsMonotone ==
    ASSUME NEW w, Workers = {w}
    PROVE  ProjectionSpec => ProjectionNeverRegresses
<1> DEFINE Forward == \A c \in Collections, m \in Memories : reached'[c][m] >= reached[c][m]
<1>1. ProjectionInit => Order
  BY DEF ProjectionInit, StoreInit, Order, WrittenWasCurrent, ReadBetween
<1>2. ProjTypes /\ Order /\ [ProjectionNext]_allVars => ProjTypes' /\ Order' /\ [Forward]_allVars
  BY NextProjTypes, NextOrder
<1> QED BY <1>1, <1>2, InitProjTypes, PTL DEF ProjectionSpec, ProjectionNeverRegresses

\* As long as there is only one projection worker and every save is the first
\* of its state, an acknowledged event whose state is the memory's present one
\* means that every collection of the memory is in line with it, whatever older
\* events are retried, requeued or deleted (QdrantProjector.run_once).  With an
\* upsert or a rewrite it may not hold: they write acknowledged states back
\* over newer ones without a new event.
THEOREM AcknowledgedEventsAreProjected ==
    ASSUME NEW w, Workers = {w}, Operations \cap {"upsert", "rewrite"} = {}
    PROVE  ProjectionSpec => []AcknowledgedIsProjected
<1>1. ProjectionInit => ProjectingInv
  BY InitProjectingInv
<1>2. ProjectingInv /\ [ProjectionNext]_allVars => ProjectingInv'
  BY NextProjectingInv
<1>3. ProjectingInv => AcknowledgedIsProjected
  BY DEF ProjectingInv, Projecting
<1> QED BY <1>1, <1>2, <1>3, PTL DEF ProjectionSpec

\* Under the same conditions, and if the routing does not tell the contents
\* apart, an acknowledged tombstone has removed every point of its memory
\* (project_memory): a former collection can keep a point only after a change
\* of routing.
THEOREM ForgottenLeavesNoPoint ==
    ASSUME NEW w, Workers = {w}, Operations \cap {"upsert", "rewrite"} = {},
           GlobalContents \in {{}, Contents}
    PROVE  ProjectionSpec => []ForgottenHasNoPoint
<1>1. ProjectionInit => ProjectingInv /\ LocalOnly
  BY InitProjectingInv DEF ProjectionInit, LocalOnly, Collections
<1>2. ProjectingInv /\ LocalOnly /\ [ProjectionNext]_allVars => ProjectingInv' /\ LocalOnly'
  BY NextProjectingInv, NextLocalOnly DEF ProjectingInv
<1>3. ProjectingInv /\ LocalOnly => ForgottenHasNoPoint
  BY NothingElsewhere DEF ProjectingInv, Projecting
<1> QED BY <1>1, <1>2, <1>3, PTL DEF ProjectionSpec

================================================================================
