--------------------------- MODULE MemoryStoreProofs ---------------------------
(***************************************************************************)
(* What holds of the memory table and its writers for any number of        *)
(* memories, contents, clients, operations and outbox rows.                *)
(***************************************************************************)
EXTENDS MemoryStore, TLAPS

IsDraft(d) == DOMAIN d \subseteq Memories /\ \A m \in DOMAIN d : d[m] \in States
IsBase(b) == DOMAIN b \subseteq Memories /\ \A m \in DOMAIN b : b[m] \in Contents

TableTypes ==
    /\ OutboxTypeOK
    /\ store \in [Memories -> States \cup {NoMemory}]
    /\ payload \in [Events -> Payloads \cup {NoPayload}]
    /\ version \in [Memories -> Nat]
    /\ clock \in Nat /\ horizon \in 0 .. clock

ClientTypes ==
    /\ pc \in [Clients -> {"idle", "found", "reread", "commit", "resave", "recommit"}]
    /\ op \in [Clients -> AllOperations \cup {"none"}]
    /\ target \in [Clients -> Memories \cup {"none"}]
    /\ DOMAIN draft = Clients /\ DOMAIN base = Clients
    /\ \A c \in Clients : IsDraft(draft[c]) /\ IsBase(base[c])
    /\ seen \in [Clients -> [Memories -> Nat]]

\* StoreTypeOK with what it leaves out: an upsert that has found a memory goes
\* on to update one that exists.
Types ==
    /\ TableTypes
    /\ ClientTypes
    /\ \A c \in Clients : pc[c] = "found" => target[c] \in Existing

--------------------------------------------------------------------------------
(* States and records. *)

LEMMA NoMemoryIsNoState == NoMemory \notin States
BY DEF NoMemory, States

LEMMA ExistingStates ==
    ASSUME Types, NEW m \in Memories
    PROVE  m \in Existing <=> store[m] \in States
BY NoMemoryIsNoState DEF Types, TableTypes, Existing

\* The round trip through a record keeps the content, the stamp and a tombstone.
LEMMA RecordsAreStates ==
    ASSUME NEW s \in States, NEW k \in Contents, NEW now \in Nat
    PROVE  /\ Updated(s, k, now) \in States /\ Updated(s, k, now).stamp = now
           /\ Archived(s, now) \in States /\ Archived(s, now).stamp = now
           /\ Unarchived(s, now) \in States /\ Unarchived(s, now).stamp = now
           /\ FromRecord(ToRecord(s)) \in States
           /\ FromRecord(ToRecord(s)).stamp = s.stamp
           /\ s.lifecycle = "tombstoned" =>
                  /\ Updated(s, k, now).lifecycle = "tombstoned"
                  /\ Archived(s, now).lifecycle = "tombstoned"
                  /\ Unarchived(s, now).lifecycle = "tombstoned"
                  /\ FromRecord(ToRecord(s)).lifecycle = "tombstoned"
<1> DEFINE r == ToRecord(s)
<1>1. r \in States /\ r.stamp = s.stamp /\ (s.lifecycle = "tombstoned" => r.label)
  BY DEF ToRecord, States, Lifecycles
<1> HIDE DEF r
<1>2. ASSUME NEW t \in States
      PROVE  /\ FromRecord(t) \in States /\ FromRecord(t).stamp = t.stamp
             /\ t.label => FromRecord(t).lifecycle = "tombstoned"
  BY DEF FromRecord, States, Lifecycles
<1>3. \A t \in {[r EXCEPT !.content = k, !.stamp = now],
                [r EXCEPT !.archivedAt = TRUE, !.stamp = now],
                [r EXCEPT !.archivedAt = FALSE, !.stamp = now]} :
         t \in States /\ t.stamp = now /\ t.label = r.label
  BY <1>1 DEF States
<1>4. Updated(s, k, now) = FromRecord([r EXCEPT !.content = k, !.stamp = now])
  BY DEF Updated, r
<1>5. Archived(s, now) = FromRecord([r EXCEPT !.archivedAt = TRUE, !.stamp = now])
  BY DEF Archived, r
<1>6. Unarchived(s, now) = FromRecord([r EXCEPT !.archivedAt = FALSE, !.stamp = now])
  BY DEF Unarchived, r
<1>7. FromRecord(ToRecord(s)) = FromRecord(r)
  BY DEF r
<1>8. /\ Updated(s, k, now) \in States /\ Updated(s, k, now).stamp = now
      /\ s.lifecycle = "tombstoned" => Updated(s, k, now).lifecycle = "tombstoned"
  BY <1>1, <1>2, <1>3, <1>4
<1>9. /\ Archived(s, now) \in States /\ Archived(s, now).stamp = now
      /\ s.lifecycle = "tombstoned" => Archived(s, now).lifecycle = "tombstoned"
  BY <1>1, <1>2, <1>3, <1>5
<1>10. /\ Unarchived(s, now) \in States /\ Unarchived(s, now).stamp = now
       /\ s.lifecycle = "tombstoned" => Unarchived(s, now).lifecycle = "tombstoned"
  BY <1>1, <1>2, <1>3, <1>6
<1> QED BY <1>1, <1>2, <1>7, <1>8, <1>9, <1>10

\* The lifecycle steps keep the content.
LEMMA AggregatesAreStates ==
    ASSUME NEW s \in States, NEW now \in Nat
    PROVE  /\ Tombstoned(s, now) \in States /\ Tombstoned(s, now).stamp = now
           /\ Tombstoned(s, now).content = s.content
           /\ Tombstoned(s, now).lifecycle = "tombstoned"
           /\ Restored(s, now) \in States /\ Restored(s, now).stamp = now
           /\ Restored(s, now).content = s.content
<1>1. /\ Tombstoned(s, now) \in States /\ Tombstoned(s, now).stamp = now
      /\ Tombstoned(s, now).content = s.content
      /\ Tombstoned(s, now).lifecycle = "tombstoned"
  BY DEF Tombstoned, States, Lifecycles
<1>2. /\ Restored(s, now) \in States /\ Restored(s, now).stamp = now
      /\ Restored(s, now).content = s.content
  BY DEF Restored, States, Lifecycles
<1> QED BY <1>1, <1>2

LEMMA RememberedIsState ==
    ASSUME NEW k \in Contents, NEW now \in Nat
    PROVE  Remembered(k, now) \in States /\ Remembered(k, now).stamp = now
BY DEF Remembered, States, Lifecycles

--------------------------------------------------------------------------------
(* The transaction of a save. *)

\* A row with a payload was inserted, and is not taken a second time.
RowsTaken == \A e \in Events : payload[e] # NoPayload => status[e] # "absent"

LEMMA PayloadsDiffer ==
    ASSUME NEW m, NEW s
    PROVE  [memory |-> m, state |-> s] # NoPayload
<1>1. DOMAIN [memory |-> m, state |-> s] = {"memory", "state"}
  OBVIOUS
<1>2. DOMAIN NoPayload = {"memory"}
  BY DEF NoPayload
<1> QED BY <1>1, <1>2

\* A save inserts rows and leaves the others alone.
LEMMA WriteRows ==
    ASSUME NEW new, IsDraft(new), Write(new)
    PROVE  \E rows \in SUBSET Events :
              /\ \A e \in rows :
                    /\ status[e] = "absent" /\ status'[e] = "pending"
                    /\ \E m \in DOMAIN new : payload'[e] = [memory |-> m, state |-> new[m]]
              /\ \A e \in Events \ rows : status'[e] = status[e] /\ payload'[e] = payload[e]
              /\ \A m \in DOMAIN new :
                    \/ Recorded(m, new[m])
                    \/ \E e \in rows : payload'[e] = [memory |-> m, state |-> new[m]]
              /\ \A m \in Memories : store'[m] = IF m \in DOMAIN new THEN new[m] ELSE store[m]
              /\ UNCHANGED <<attempts, token, fence, expired, workerVars, claims, strikes, faults>>
<1> DEFINE needed == {m \in DOMAIN new : ~Recorded(m, new[m])}
           rows == FirstOf(FreeRows, Cardinality(needed))
<1>1. PICK of \in [rows -> needed] :
         /\ \A m \in needed : \E e \in rows : of[e] = m
         /\ payload' = [e \in Events |->
               IF e \in rows THEN [memory |-> of[e], state |-> new[of[e]]] ELSE payload[e]]
  BY DEF Write, AppendEvents
<1>2. InsertRows(rows)
  BY DEF Write, AppendEvents
<1>3. rows \subseteq Events /\ \A e \in rows : status[e] = "absent"
  BY DEF FirstOf, FreeRows
<1> HIDE DEF rows
<1>4. \A e \in Events : status'[e] = IF e \in rows THEN "pending" ELSE status[e]
  BY <1>2 DEF InsertRows
<1>5. \A e \in rows : payload'[e] = [memory |-> of[e], state |-> new[of[e]]] /\ of[e] \in needed
  BY <1>1, <1>3
<1>6. \A e \in Events \ rows : payload'[e] = payload[e]
  BY <1>1
<1>7. \A m \in needed : \E e \in rows : payload'[e] = [memory |-> m, state |-> new[m]]
  BY <1>1, <1>5
<1>8. \A m \in Memories : store'[m] = IF m \in DOMAIN new THEN new[m] ELSE store[m]
  BY DEF Write
<1>9. UNCHANGED <<attempts, token, fence, expired, workerVars, claims, strikes, faults>>
  BY <1>2 DEF InsertRows
<1>10. \A e \in rows : /\ status[e] = "absent" /\ status'[e] = "pending"
                       /\ \E m \in DOMAIN new : payload'[e] = [memory |-> m, state |-> new[m]]
  BY <1>3, <1>4, <1>5
<1>11. \A e \in Events \ rows : status'[e] = status[e] /\ payload'[e] = payload[e]
  BY <1>4, <1>6
<1> QED BY <1>3, <1>7, <1>8, <1>9, <1>10, <1>11

LEMMA WriteRecords ==
    ASSUME RowsTaken, NEW new, IsDraft(new), Write(new)
    PROVE  /\ \A e \in Events : payload[e] # NoPayload =>
                  payload'[e] = payload[e] /\ status'[e] = status[e]
           /\ \A e \in Events : payload'[e] # payload[e] =>
                  /\ status[e] = "absent" /\ status'[e] = "pending"
                  /\ \E m \in DOMAIN new : payload'[e] = [memory |-> m, state |-> new[m]]
           /\ \A m \in DOMAIN new : \E e \in Events :
                  payload'[e] = [memory |-> m, state |-> new[m]]
           /\ \A m \in DOMAIN new : Recorded(m, new[m]) \/ AppendsEvent(m)
           /\ RowsTaken'
           /\ \A m \in Memories : store'[m] = IF m \in DOMAIN new THEN new[m] ELSE store[m]
<1>1. PICK rows \in SUBSET Events :
         /\ \A e \in rows :
               /\ status[e] = "absent" /\ status'[e] = "pending"
               /\ \E m \in DOMAIN new : payload'[e] = [memory |-> m, state |-> new[m]]
         /\ \A e \in Events \ rows : status'[e] = status[e] /\ payload'[e] = payload[e]
         /\ \A m \in DOMAIN new :
               \/ Recorded(m, new[m])
               \/ \E e \in rows : payload'[e] = [memory |-> m, state |-> new[m]]
         /\ \A m \in Memories : store'[m] = IF m \in DOMAIN new THEN new[m] ELSE store[m]
  BY WriteRows
<1>2. \A e \in Events : payload[e] # NoPayload =>
         e \notin rows /\ payload'[e] = payload[e] /\ status'[e] = status[e]
  BY <1>1 DEF RowsTaken
<1>3. \A e \in Events : payload'[e] # payload[e] =>
         /\ status[e] = "absent" /\ status'[e] = "pending"
         /\ \E m \in DOMAIN new : payload'[e] = [memory |-> m, state |-> new[m]]
  BY <1>1
<1>4. \A m \in DOMAIN new : Recorded(m, new[m]) \/ AppendsEvent(m)
  BY <1>1 DEF AppendsEvent, IsDraft
<1>5. ASSUME NEW m \in DOMAIN new
      PROVE  \E e \in Events : payload'[e] = [memory |-> m, state |-> new[m]]
  <2>1. CASE Recorded(m, new[m])
    <3>1. PICK e \in Events : payload[e] = [memory |-> m, state |-> new[m]]
      BY <2>1 DEF Recorded
    <3> QED BY <1>2, <3>1, PayloadsDiffer
  <2>2. CASE ~Recorded(m, new[m])
    BY <1>1, <2>2
  <2> QED BY <2>1, <2>2
<1>6. RowsTaken'
  <2>1. ASSUME NEW e \in Events, payload'[e] # NoPayload
        PROVE  status'[e] # "absent"
    <3>1. CASE e \in rows
      BY <1>1, <3>1
    <3>2. CASE e \notin rows
      BY <1>1, <2>1, <3>2 DEF RowsTaken
    <3> QED BY <3>1, <3>2
  <2> QED BY <2>1 DEF RowsTaken
<1> QED BY <1>1, <1>2, <1>3, <1>4, <1>5, <1>6

--------------------------------------------------------------------------------
(* Types. *)

LEMMA TypesSuffice == Types => StoreTypeOK
BY DEF Types, TableTypes, ClientTypes, IsDraft, IsBase, StoreTypeOK

LEMMA NoDraftTypes == IsDraft(NoDraft) /\ IsBase(NoDraft) /\ DOMAIN NoDraft = {}
BY DEF NoDraft, IsDraft, IsBase

LEMMA InitTypes == StoreInit => Types
<1> SUFFICES ASSUME StoreInit PROVE Types
  OBVIOUS
<1>1. OutboxTypeOK
  BY DEF StoreInit, OutboxInit, OutboxTypeOK, Statuses, NoToken
<1>2. TableTypes
  BY <1>1 DEF StoreInit, TableTypes
<1>3. ClientTypes
  BY NoDraftTypes DEF StoreInit, ClientTypes
<1>4. \A c \in Clients : pc[c] = "idle"
  BY DEF StoreInit
<1> QED BY <1>2, <1>3, <1>4 DEF Types

\* A save keeps the types of the tables, and removes no memory.
LEMMA WriteTypes ==
    ASSUME Types, NEW new, IsDraft(new), Write(new), clock' \in Nat, horizon' \in 0 .. clock'
    PROVE  TableTypes' /\ Existing \subseteq Existing'
<1> DEFINE needed == {m \in DOMAIN new : ~Recorded(m, new[m])}
           rows == FirstOf(FreeRows, Cardinality(needed))
<1>1. PICK of \in [rows -> needed] :
         payload' = [e \in Events |->
               IF e \in rows THEN [memory |-> of[e], state |-> new[of[e]]] ELSE payload[e]]
  BY DEF Write, AppendEvents
<1>2. InsertRows(rows) /\ rows \subseteq Events
  BY DEF Write, AppendEvents, FirstOf, FreeRows
<1> HIDE DEF rows
<1>3. OutboxTypeOK'
  BY <1>2 DEF InsertRows, Types, TableTypes, OutboxTypeOK, Statuses, workerVars
<1>4. payload' \in [Events -> Payloads \cup {NoPayload}]
  BY <1>1, <1>2 DEF Types, TableTypes, Payloads, IsDraft
<1>5. store' \in [Memories -> States \cup {NoMemory}] /\ version' \in [Memories -> Nat]
  BY DEF Write, Types, TableTypes, IsDraft
<1>6. Existing \subseteq Existing'
  BY NoMemoryIsNoState DEF Existing, Write, IsDraft
<1> QED BY <1>3, <1>4, <1>5, <1>6 DEF TableTypes

LEMMA BeginTypes ==
    ASSUME Types, NEW c \in Clients, NEW o, NEW d, NEW next \in {"reread", "commit"},
           IsDraft(d), Begin(c, o, d, next)
    PROVE  Types'
<1>1. TableTypes' /\ store' = store
  BY DEF Begin, Types, TableTypes, OutboxTypeOK, outboxVars, rowVars, workerVars, tableVars,
         Generations
<1>2. o \in AllOperations
  BY StoreAssumption DEF Begin
<1>3. IsBase([m \in DOMAIN d \cap Existing |-> store[m].content])
  <2>1. \A m \in Existing : m \in Memories /\ store[m].content \in Contents
    BY ExistingStates DEF States, Existing
  <2> QED BY <2>1 DEF IsBase
<1>4. ClientTypes'
  BY <1>2, <1>3 DEF Begin, Types, TableTypes, ClientTypes
<1>5. \A b \in Clients : pc'[b] = "found" => pc[b] = "found" /\ target'[b] = target[b]
  BY DEF Begin, Types, ClientTypes
<1> QED BY <1>1, <1>4, <1>5 DEF Types, Existing

\* A client that finishes, and one that goes on to its second save.
LEMMA AfterSaveTypes ==
    ASSUME ClientTypes, Types, NEW c \in Clients, Finished(c) \/ AfterSave(c)
    PROVE  /\ ClientTypes'
           /\ \A b \in Clients : pc'[b] = "found" => pc[b] = "found" /\ target'[b] = target[b]
<1>1. CASE Finished(c)
  BY <1>1, NoDraftTypes DEF Finished, ClientTypes
<1>2. CASE AfterSave(c) /\ ~Finished(c)
  BY <1>2 DEF AfterSave, ClientTypes
<1> QED BY <1>1, <1>2

LEMMA FindTypes ==
    ASSUME Types, NEW c \in Clients, NEW m \in Memories, FindByUpsertKey(c, m)
    PROVE  Types'
<1>1. TableTypes' /\ store' = store
  BY DEF FindByUpsertKey, Types, TableTypes, OutboxTypeOK, outboxVars, rowVars, workerVars,
         tableVars, Generations
<1>2. ClientTypes'
  BY DEF FindByUpsertKey, Types, ClientTypes
<1>3. \A b \in Clients : pc'[b] = "found" => target'[b] \in Existing
  BY DEF FindByUpsertKey, Types, ClientTypes
<1> QED BY <1>1, <1>2, <1>3 DEF Types, Existing

LEMMA RereadTypes ==
    ASSUME Types, NEW c \in Clients, Reread(c)
    PROVE  Types'
<1>1. TableTypes' /\ store' = store
  BY DEF Reread, Types, TableTypes, OutboxTypeOK, outboxVars, rowVars, workerVars,
         tableVars, Generations
<1>2. CASE Changing(c) = {}
  BY <1>1, <1>2, AfterSaveTypes DEF Reread, Types, Existing
<1>3. CASE Changing(c) # {}
  <2>1. IsDraft([m \in Changing(c) |-> draft[c][m]])
    BY DEF Changing, Types, ClientTypes, IsDraft
  <2>2. IsBase([m \in Changing(c) \cap Existing |-> store[m].content])
    <3>1. \A m \in Existing : m \in Memories /\ store[m].content \in Contents
      BY ExistingStates DEF States, Existing
    <3> QED BY <3>1 DEF IsBase
  <2>3. /\ pc' = [pc EXCEPT ![c] = IF pc[c] = "resave" THEN "recommit" ELSE "commit"]
        /\ base' = [base EXCEPT ![c] = [m \in Changing(c) \cap Existing |-> store[m].content]]
        /\ \/ draft' = draft
           \/ draft' = [draft EXCEPT ![c] = [m \in Changing(c) |-> draft[c][m]]]
        /\ UNCHANGED <<op, target, seen>>
    BY <1>3 DEF Reread
  <2>4. ClientTypes'
    BY <2>1, <2>2, <2>3 DEF Types, ClientTypes
  <2>5. \A b \in Clients : pc'[b] = "found" => pc[b] = "found"
    BY <2>3 DEF Types, ClientTypes
  <2> QED BY <1>1, <2>3, <2>4, <2>5 DEF Types, Existing
<1> QED BY <1>2, <1>3

LEMMA CommitTypes ==
    ASSUME Types, NEW c \in Clients, Commit(c)
    PROVE  Types'
<1>1. IsDraft(draft[c]) /\ ClientTypes
  BY DEF Types, ClientTypes
<1>2. clock' \in Nat /\ horizon' \in 0 .. clock'
  BY DEF Commit, Types, TableTypes
<1>3. TableTypes' /\ Existing \subseteq Existing'
  BY <1>1, <1>2, WriteTypes DEF Commit
<1>4. /\ ClientTypes'
      /\ \A b \in Clients : pc'[b] = "found" => pc[b] = "found" /\ target'[b] = target[b]
  BY <1>1, AfterSaveTypes DEF Commit
<1> QED BY <1>3, <1>4 DEF Types

LEMMA ConflictTypes ==
    ASSUME Types, NEW c \in Clients, Conflict(c)
    PROVE  Types'
<1>1. TableTypes' /\ store' = store
  BY DEF Conflict, Types, TableTypes, OutboxTypeOK, outboxVars, rowVars, workerVars,
         tableVars, Generations
<1>2. /\ ClientTypes'
      /\ \A b \in Clients : pc'[b] = "found" => pc[b] = "found" /\ target'[b] = target[b]
  BY AfterSaveTypes DEF Conflict, Types
<1> QED BY <1>1, <1>2 DEF Types, Existing

LEMMA ClientsUntouched ==
    ASSUME ClientTypes, UNCHANGED clientVars
    PROVE  ClientTypes'
BY DEF ClientTypes, clientVars

\* What a project retirement writes.
LEMMA RetiredDrafts ==
    ASSUME Types, RetireProject
    PROVE  \E live \in SUBSET Existing :
              /\ IsDraft([m \in live |-> Tombstoned(store[m], clock + 1)])
              /\ Write([m \in live |-> Tombstoned(store[m], clock + 1)])
<1>1. clock + 1 \in Nat
  BY DEF Types, TableTypes
<1>2. \A m \in Existing : m \in Memories /\ Tombstoned(store[m], clock + 1) \in States
  BY <1>1, ExistingStates, AggregatesAreStates DEF Existing
<1>3. \A live \in SUBSET Existing : IsDraft([m \in live |-> Tombstoned(store[m], clock + 1)])
  BY <1>2 DEF IsDraft
<1> DEFINE live == {m \in Existing : store[m].lifecycle # "tombstoned"}
<1>4. live \in SUBSET Existing /\ Write([m \in live |-> Tombstoned(store[m], clock + 1)])
  BY DEF RetireProject
<1> HIDE DEF live
<1> QED BY <1>3, <1>4

LEMMA RetireTypes ==
    ASSUME Types, RetireProject
    PROVE  Types'
<1>1. PICK live \in SUBSET Existing :
         /\ IsDraft([m \in live |-> Tombstoned(store[m], clock + 1)])
         /\ Write([m \in live |-> Tombstoned(store[m], clock + 1)])
  BY RetiredDrafts
<1>2. clock' \in Nat /\ horizon' \in 0 .. clock'
  BY DEF RetireProject, Types, TableTypes
<1>3. TableTypes' /\ Existing \subseteq Existing'
  BY <1>1, <1>2, WriteTypes
<1>4. ClientTypes' /\ UNCHANGED <<pc, target>>
  BY ClientsUntouched DEF RetireProject, Types, clientVars
<1> QED BY <1>3, <1>4 DEF Types

LEMMA WindowTypes ==
    ASSUME Types, UndoWindowElapses
    PROVE  Types'
<1>1. TableTypes' /\ store' = store
  BY DEF UndoWindowElapses, Types, TableTypes, OutboxTypeOK, outboxVars, rowVars, workerVars,
         tableVars, Generations
<1>2. ClientTypes' /\ UNCHANGED <<pc, target>>
  BY ClientsUntouched DEF UndoWindowElapses, Types, clientVars
<1> QED BY <1>1, <1>2 DEF Types, Existing

--------------------------------------------------------------------------------
(* Requests. *)

\* What a request hands to Begin: a lifecycle request saves a snapshot whose
\* content it kept, every other one goes through the re-read; a maintenance
\* rewrite keeps the stamps of what it loaded, the others take a new one; and
\* only an undo turns a tombstone into something else.
Drafted(o, d, next) ==
    /\ IsDraft(d)
    /\ o \in AllOperations /\ next \in {"reread", "commit"}
    /\ o \in {"forget", "undo"} =>
          next = "commit" /\ \A m \in DOMAIN d : m \in Existing /\ d[m].content = store[m].content
    /\ o \notin {"forget", "undo"} => next = "reread"
    /\ o # "rewrite" => \A m \in DOMAIN d : d[m].stamp = clock + 1
    /\ o = "rewrite" => \A m \in DOMAIN d : m \in Existing /\ d[m].stamp = store[m].stamp
    /\ o # "undo" => \A m \in DOMAIN d \cap Existing :
          store[m].lifecycle = "tombstoned" => d[m].lifecycle = "tombstoned"

Drafts(c) == \E o, d, next : Begin(c, o, d, next) /\ Drafted(o, d, next)

LEMMA OneDraft ==
    ASSUME NEW m \in Memories, NEW s \in States
    PROVE  IsDraft(Only(m, s)) /\ DOMAIN Only(m, s) = {m} /\ Only(m, s)[m] = s
BY DEF IsDraft, Only

\* A request through the record of one memory.
LEMMA RecordDrafted ==
    ASSUME Types, NEW c \in Clients, NEW m \in Memories, NEW s \in States,
           NEW o \in AllOperations \ {"forget", "undo", "rewrite"},
           s.stamp = clock + 1,
           m \in Existing /\ store[m].lifecycle = "tombstoned" => s.lifecycle = "tombstoned",
           Begin(c, o, Only(m, s), "reread")
    PROVE  Drafts(c)
<1> DEFINE d == Only(m, s)
<1>1. IsDraft(d) /\ DOMAIN d = {m} /\ d[m] = s
  BY OneDraft
<1>2. Begin(c, o, d, "reread")
  OBVIOUS
<1> HIDE DEF d
<1>3. Drafted(o, d, "reread")
  BY <1>1 DEF Drafted
<1> QED BY <1>2, <1>3 DEF Drafts

LEMMA LifecycleDrafted ==
    ASSUME Types, NEW c \in Clients, NEW m \in Existing, NEW s \in States,
           NEW o \in {"forget", "undo"},
           s.stamp = clock + 1, s.content = store[m].content,
           o = "forget" => s.lifecycle = "tombstoned",
           Begin(c, o, Only(m, s), "commit")
    PROVE  Drafts(c)
<1> DEFINE d == Only(m, s)
<1>1. IsDraft(d) /\ DOMAIN d = {m} /\ d[m] = s
  BY OneDraft DEF Existing
<1>2. Begin(c, o, d, "commit")
  OBVIOUS
<1> HIDE DEF d
<1>3. Drafted(o, d, "commit")
  BY <1>1 DEF Drafted, AllOperations
<1> QED BY <1>2, <1>3 DEF Drafts

LEMMA RewriteDrafted ==
    ASSUME Types, NEW c \in Clients, NEW k \in Contents, Rewrite(c)
    PROVE  Drafts(c)
<1> DEFINE d == [m \in Existing |-> FromRecord(ToRecord(store[m]))]
<1>1. clock \in Nat
  BY DEF Types, TableTypes
<1>2. ASSUME NEW m \in Existing
      PROVE  /\ m \in Memories /\ d[m] \in States /\ d[m].stamp = store[m].stamp
             /\ store[m].lifecycle = "tombstoned" => d[m].lifecycle = "tombstoned"
  <2>1. m \in Memories /\ store[m] \in States
    BY ExistingStates DEF Existing
  <2>2. /\ FromRecord(ToRecord(store[m])) \in States
        /\ FromRecord(ToRecord(store[m])).stamp = store[m].stamp
        /\ store[m].lifecycle = "tombstoned" =>
              FromRecord(ToRecord(store[m])).lifecycle = "tombstoned"
    BY <1>1, <2>1, RecordsAreStates
  <2> QED BY <2>1, <2>2
<1>3. DOMAIN d = Existing
  OBVIOUS
<1>4. Begin(c, "rewrite", d, "reread")
  BY DEF Rewrite
<1> HIDE DEF d
<1>5. Drafted("rewrite", d, "reread")
  BY <1>2, <1>3 DEF Drafted, IsDraft, AllOperations
<1> QED BY <1>4, <1>5 DEF Drafts

LEMMA Requests ==
    ASSUME Types, NEW c \in Clients, Request(c)
    PROVE  Drafts(c) \/ \E m \in Memories : FindByUpsertKey(c, m)
<1> DEFINE now == clock + 1
<1>1. now \in Nat
  BY DEF Types, TableTypes
<1>2. \A m \in Existing : m \in Memories /\ store[m] \in States
  BY ExistingStates DEF Existing
<1>3. ASSUME NEW m \in Memories, NEW k \in Contents, Remember(c, m, k) PROVE Drafts(c)
  BY <1>1, <1>3, RememberedIsState, RecordDrafted DEF Remember, AllOperations
<1>4. ASSUME NEW m \in Memories, NEW k \in Contents, Update(c, m, k) PROVE Drafts(c)
  <2>1. m \in Existing /\ Begin(c, "update", Only(m, Updated(store[m], k, now)), "reread")
    BY <1>4 DEF Update
  <2> QED BY <1>1, <1>2, <2>1, RecordsAreStates, RecordDrafted DEF AllOperations
<1>5. ASSUME NEW k \in Contents, UpsertFound(c, k) PROVE Drafts(c)
  <2>1. target[c] \in Existing
    BY <1>5 DEF Types, UpsertFound
  <2>2. Begin(c, "upsert", Only(target[c], Updated(store[target[c]], k, now)), "reread")
    BY <1>5 DEF UpsertFound
  <2> QED BY <1>1, <1>2, <2>1, <2>2, RecordsAreStates, RecordDrafted DEF AllOperations
<1>6. ASSUME NEW m \in Memories, Archive(c, m) \/ Unarchive(c, m), NEW k \in Contents
      PROVE  Drafts(c)
  <2>1. /\ m \in Existing
        /\ \/ Begin(c, "archive", Only(m, Archived(store[m], now)), "reread")
           \/ Begin(c, "unarchive", Only(m, Unarchived(store[m], now)), "reread")
    BY <1>6 DEF Archive, Unarchive
  <2> QED BY <1>1, <1>2, <2>1, RecordsAreStates, RecordDrafted DEF AllOperations
<1>7. ASSUME NEW m \in Memories, Forget(c, m) \/ Undo(c, m)
      PROVE  Drafts(c)
  <2>1. /\ m \in Existing
        /\ \/ Begin(c, "forget", Only(m, Tombstoned(store[m], now)), "commit")
           \/ Begin(c, "undo", Only(m, Restored(store[m], now)), "commit")
    BY <1>7 DEF Forget, Undo
  <2> QED BY <1>1, <1>2, <2>1, AggregatesAreStates, LifecycleDrafted
<1>8. ASSUME NEW m \in Existing PROVE \E k \in Contents : TRUE
  BY <1>2, <1>8 DEF States
<1>9. ASSUME NEW m \in Memories, Archive(c, m) \/ Unarchive(c, m) PROVE Drafts(c)
  BY <1>6, <1>8, <1>9 DEF Archive, Unarchive
<1>10. ASSUME Rewrite(c) PROVE Drafts(c)
  BY <1>8, <1>10, RewriteDrafted DEF Rewrite
<1> QED BY <1>3, <1>4, <1>5, <1>7, <1>9, <1>10 DEF Request

LEMMA NextTypes ==
    ASSUME Types, [StoreNext]_<<storeVars, outboxVars>>
    PROVE  Types'
<1>1. ASSUME NEW c \in Clients, Request(c) PROVE Types'
  BY <1>1, Requests, BeginTypes, FindTypes DEF Drafts, Drafted
<1>2. ASSUME NEW c \in Clients, Save(c) PROVE Types'
  BY <1>2, RereadTypes, CommitTypes, ConflictTypes DEF Save
<1>3. ASSUME UNCHANGED <<storeVars, outboxVars>> PROVE Types'
  <2>1. TableTypes' /\ store' = store
    BY <1>3 DEF Types, TableTypes, OutboxTypeOK, storeVars, tableVars, outboxVars, rowVars,
           workerVars, Generations
  <2>2. ClientTypes' /\ UNCHANGED <<pc, target>>
    BY <1>3, ClientsUntouched DEF Types, storeVars, clientVars
  <2> QED BY <2>1, <2>2 DEF Types, Existing
<1> QED BY <1>1, <1>2, <1>3, RetireTypes, WindowTypes DEF StoreNext

--------------------------------------------------------------------------------
(* The inductive invariant. *)

StampsPast == \A e \in Events : payload[e] # NoPayload => payload[e].state.stamp <= clock

\* Whatever state a memory is in, an event with exactly that state was queued;
\* retention may have deleted its row since.
CurrentStateQueued ==
    \A m \in Existing : \E e \in Events : payload[e] = [memory |-> m, state |-> store[m]]

Recordings == RowsTaken /\ CurrentStateQueued /\ StampsPast

\* What a client holds of the table it read: a lifecycle client the content it
\* expects to replace, every client but an undo the tombstones it saw.
Snapshot(c) ==
    /\ op[c] \in {"forget", "undo"} =>
          pc[c] = "commit" /\ \A m \in DOMAIN draft[c] :
              m \in DOMAIN base[c] /\ draft[c][m].content = base[c][m]
    /\ \A m \in Memories : seen[c][m] <= version[m]
    /\ \A m \in DOMAIN draft[c] \cap Existing :
          seen[c][m] = version[m] /\ op[c] # "undo" /\ store[m].lifecycle = "tombstoned"
          => draft[c][m].lifecycle = "tombstoned"

\* Some row was queued for a state of this stamp.
Spent(n) == \E e \in Events : payload[e] # NoPayload /\ payload[e].state.stamp = n

\* The client is about to save a new state for the first time.
Pending(c) == pc[c] \in {"reread", "commit"} /\ op[c] # "rewrite"

\* No row carries a state that is still to be saved for the first time, and
\* nobody else is about to save one of the same stamp.
Stamped(c) ==
    \A m \in DOMAIN draft[c] :
        IF Pending(c) THEN draft[c][m].stamp <= clock /\ ~Spent(draft[c][m].stamp)
                      ELSE Spent(draft[c][m].stamp)

Apart(b, c) ==
    Pending(b) /\ Pending(c) =>
        \A m \in DOMAIN draft[b], n \in DOMAIN draft[c] : draft[b][m].stamp # draft[c][n].stamp

StoreInv ==
    /\ Types
    /\ Recordings
    /\ \A c \in Clients : Snapshot(c) /\ Stamped(c)
    /\ \A b, c \in Clients : b # c => Apart(b, c)

LEMMA InitStoreInv == StoreInit => StoreInv
<1> SUFFICES ASSUME StoreInit PROVE StoreInv
  OBVIOUS
<1>1. Types
  BY InitTypes
<1>2. Recordings
  BY DEF StoreInit, Recordings, RowsTaken, CurrentStateQueued, StampsPast, Existing
<1>3. \A c \in Clients : Snapshot(c) /\ Stamped(c)
  BY NoDraftTypes DEF StoreInit, Snapshot, Stamped
<1>4. \A b \in Clients : ~Pending(b)
  BY DEF StoreInit, Pending
<1> QED BY <1>1, <1>2, <1>3, <1>4 DEF StoreInv, Apart

--------------------------------------------------------------------------------
(* Frames: what the tables and the other clients do to the invariant. *)

\* The step leaves the registers of client b alone.
Idles(b) ==
    /\ pc'[b] = pc[b] /\ op'[b] = op[b]
    /\ draft'[b] = draft[b] /\ base'[b] = base[b] /\ seen'[b] = seen[b]

\* The step only moves client b on, or drops some of its drafts.
Keeps(b) ==
    /\ op'[b] = op[b] /\ seen'[b] = seen[b]
    /\ op[b] \in {"forget", "undo"} => pc'[b] = pc[b] /\ base'[b] = base[b]
    /\ DOMAIN draft'[b] \subseteq DOMAIN draft[b]
    /\ \A m \in DOMAIN draft'[b] : draft'[b][m] = draft[b][m]

\* The step saves memories or leaves them.
Versioned == \A m \in Memories :
    \/ version'[m] = version[m] /\ store'[m] = store[m]
    \/ version'[m] = version[m] + 1

LEMMA SnapshotStays ==
    ASSUME Types, NEW b \in Clients, Snapshot(b), Keeps(b), Versioned
    PROVE  Snapshot(b)'
<1>1. ASSUME NEW m \in Memories
      PROVE  /\ seen[b][m] \in Nat /\ version[m] \in Nat /\ seen[b][m] <= version[m]
             /\ \/ version'[m] = version[m] /\ store'[m] = store[m]
                \/ version'[m] = version[m] + 1
  BY DEF Types, TableTypes, ClientTypes, Snapshot, Versioned
<1>2. \A m \in Memories : seen[b][m] <= version'[m] /\
         (seen[b][m] = version'[m] => version[m] = seen[b][m] /\ store'[m] = store[m])
  BY <1>1
<1>3. \A m \in DOMAIN draft'[b] : m \in DOMAIN draft[b] /\ m \in Memories
  BY DEF Keeps, Types, ClientTypes, IsDraft
<1>4. \A m \in DOMAIN draft'[b] \cap Existing' :
         seen'[b][m] = version'[m] /\ op'[b] # "undo" /\ store'[m].lifecycle = "tombstoned"
         => draft'[b][m].lifecycle = "tombstoned"
  BY <1>2, <1>3 DEF Snapshot, Keeps, Existing
<1>5. op'[b] \in {"forget", "undo"} =>
         pc'[b] = "commit" /\ \A m \in DOMAIN draft'[b] :
             m \in DOMAIN base'[b] /\ draft'[b][m].content = base'[b][m]
  BY <1>3 DEF Snapshot, Keeps
<1>6. \A m \in Memories : seen'[b][m] <= version'[m]
  BY <1>2 DEF Keeps
<1> QED BY <1>4, <1>5, <1>6 DEF Snapshot

\* Rows are not rewritten; the new ones carry stamps of the set S.
Queued(S) ==
    /\ clock <= clock'
    /\ \A e \in Events : payload[e] # NoPayload => payload'[e] = payload[e]
    /\ \A e \in Events : payload'[e] # payload[e] => payload'[e].state.stamp \in S

LEMMA SpentStays ==
    ASSUME NEW S, Queued(S), NEW n
    PROVE  /\ Spent(n) => Spent(n)'
           /\ Spent(n)' /\ n \notin S => Spent(n)
BY DEF Queued, Spent

LEMMA StampedStays ==
    ASSUME Types, Types', NEW b \in Clients, Stamped(b), Idles(b), NEW S, Queued(S),
           Pending(b) => \A m \in DOMAIN draft[b] : draft[b][m].stamp \notin S
    PROVE  Stamped(b)'
<1>1. Pending(b)' <=> Pending(b)
  BY DEF Idles, Pending
<1>2. ASSUME NEW m \in DOMAIN draft[b], ~Pending(b)
      PROVE  Spent(draft[b][m].stamp)'
  <2>1. PICK n : n = draft[b][m].stamp
    OBVIOUS
  <2>2. Spent(n)
    BY <1>2, <2>1 DEF Stamped
  <2>3. Spent(n)' /\ draft'[b][m].stamp = n
    BY <2>1, <2>2, SpentStays DEF Idles
  <2> QED BY <2>3
<1>3. ASSUME NEW m \in DOMAIN draft[b], Pending(b)
      PROVE  draft[b][m].stamp <= clock' /\ ~Spent(draft[b][m].stamp)'
  <2>1. draft[b][m].stamp \in Nat /\ clock \in Nat /\ clock' \in Nat /\ clock <= clock'
    BY DEF Types, TableTypes, ClientTypes, IsDraft, States, Queued
  <2>2. PICK n : n = draft[b][m].stamp
    OBVIOUS
  <2>3. n <= clock /\ ~Spent(n) /\ n \notin S
    BY <1>3, <2>2 DEF Stamped
  <2>4. ~Spent(n)' /\ draft'[b][m].stamp = n
    BY <2>2, <2>3, SpentStays DEF Idles
  <2> QED BY <2>1, <2>2, <2>3, <2>4
<1> QED BY <1>1, <1>2, <1>3 DEF Stamped, Idles

\* A step after which no client has a new first save keeps the stamps apart.
LEMMA ApartStays ==
    ASSUME NEW b \in Clients, NEW c \in Clients, Apart(b, c),
           \A d \in {b, c} : Pending(d)' =>
              /\ Pending(d) /\ DOMAIN draft'[d] \subseteq DOMAIN draft[d]
              /\ \A m \in DOMAIN draft'[d] : draft'[d][m] = draft[d][m]
    PROVE  Apart(b, c)'
BY DEF Apart

\* A step that only moves clients.
LEMMA TablesStay ==
    ASSUME Types, UNCHANGED <<tableVars, outboxVars>>, clock' \in Nat, clock <= clock'
    PROVE  /\ Versioned /\ Queued({})
           /\ Recordings => Recordings'
<1>1. UNCHANGED <<store, payload, version, status>>
  BY DEF tableVars, outboxVars, rowVars
<1>2. Versioned /\ Queued({})
  BY <1>1 DEF Versioned, Queued
<1>3. RowsTaken => RowsTaken'
  BY <1>1 DEF RowsTaken
<1>4. CurrentStateQueued => CurrentStateQueued'
  BY <1>1 DEF CurrentStateQueued, Existing
<1>5. \A e \in Events : payload[e] # NoPayload => payload[e].state.stamp \in Nat
  BY DEF Types, TableTypes, Payloads, States
<1>6. clock \in Nat
  BY DEF Types, TableTypes
<1>7. \A s \in Nat : s <= clock => s <= clock'
  BY <1>6
<1>8. StampsPast => StampsPast'
  BY <1>1, <1>5, <1>7 DEF StampsPast
<1> QED BY <1>2, <1>3, <1>4, <1>8 DEF Recordings

\* A transaction that saves the states new.
LEMMA WriteStays ==
    ASSUME Types, Recordings, NEW new, IsDraft(new), Write(new), clock' \in Nat, clock <= clock',
           \A m \in DOMAIN new : new[m].stamp <= clock'
    PROVE  /\ Versioned /\ Queued({new[m].stamp : m \in DOMAIN new})
           /\ Recordings'
           /\ \A m \in DOMAIN new : Spent(new[m].stamp)'
<1> DEFINE S == {new[m].stamp : m \in DOMAIN new}
<1>1. RowsTaken /\ CurrentStateQueued /\ StampsPast
  BY DEF Recordings
<1>2. /\ \A e \in Events : payload[e] # NoPayload =>
            payload'[e] = payload[e] /\ status'[e] = status[e]
      /\ \A e \in Events : payload'[e] # payload[e] =>
            \E m \in DOMAIN new : payload'[e] = [memory |-> m, state |-> new[m]]
      /\ \A m \in DOMAIN new : \E e \in Events :
            payload'[e] = [memory |-> m, state |-> new[m]]
      /\ RowsTaken'
      /\ \A m \in Memories : store'[m] = IF m \in DOMAIN new THEN new[m] ELSE store[m]
  BY <1>1, WriteRecords
<1>3. Versioned
  BY <1>2 DEF Versioned, Write
<1>4. Queued(S)
  <2>1. ASSUME NEW e \in Events, payload'[e] # payload[e]
        PROVE  payload'[e].state.stamp \in S
    <3>1. PICK m \in DOMAIN new : payload'[e] = [memory |-> m, state |-> new[m]]
      BY <1>2, <2>1
    <3> QED BY <3>1
  <2> QED BY <1>2, <2>1 DEF Queued
<1>5. CurrentStateQueued'
  <2> SUFFICES ASSUME NEW m \in Existing'
               PROVE  \E e \in Events : payload'[e] = [memory |-> m, state |-> store'[m]]
    BY DEF CurrentStateQueued
  <2>1. m \in Memories
    BY DEF Existing
  <2>2. CASE m \in DOMAIN new
    BY <1>2, <2>1, <2>2
  <2>3. CASE m \notin DOMAIN new
    <3>1. m \in Existing /\ store'[m] = store[m]
      BY <1>2, <2>1, <2>3 DEF Existing
    <3>2. PICK e \in Events : payload[e] = [memory |-> m, state |-> store[m]]
      BY <1>1, <3>1 DEF CurrentStateQueued
    <3> QED BY <1>2, <3>1, <3>2, PayloadsDiffer
  <2> QED BY <2>2, <2>3
<1>6. StampsPast'
  <2>1. \A e \in Events : payload[e] # NoPayload => payload[e].state.stamp \in Nat
    BY DEF Types, TableTypes, Payloads, States
  <2>2. clock \in Nat
    BY DEF Types, TableTypes
  <2>3. \A s \in Nat : s <= clock => s <= clock'
    BY <2>2
  <2>4. ASSUME NEW e \in Events, payload'[e] # NoPayload
        PROVE  payload'[e].state.stamp <= clock'
    <3>1. CASE payload'[e] = payload[e]
      BY <1>1, <2>1, <2>3, <2>4, <3>1 DEF StampsPast
    <3>2. CASE payload'[e] # payload[e]
      <4>1. PICK m \in DOMAIN new : payload'[e] = [memory |-> m, state |-> new[m]]
        BY <1>2, <3>2
      <4> QED BY <4>1
    <3> QED BY <3>1, <3>2
  <2> QED BY <2>4 DEF StampsPast
<1>7. \A m \in DOMAIN new : Spent(new[m].stamp)'
  <2>1. ASSUME NEW m \in DOMAIN new PROVE Spent(new[m].stamp)'
    <3>1. PICK e \in Events : payload'[e] = [memory |-> m, state |-> new[m]]
      BY <1>2
    <3>2. payload'[e] # NoPayload /\ payload'[e].state.stamp = new[m].stamp
      BY <3>1, PayloadsDiffer
    <3> QED BY <3>2 DEF Spent
  <2> QED BY <2>1
<1> QED BY <1>2, <1>3, <1>4, <1>5, <1>6, <1>7 DEF Recordings

\* The step of a client: the others idle.
LEMMA ClientStep ==
    ASSUME StoreInv, Types', NEW c \in Clients, \A b \in Clients \ {c} : Idles(b),
           Versioned, NEW S, Queued(S), Recordings',
           Snapshot(c)', Stamped(c)',
           \A b \in Clients \ {c} : /\ Apart(b, c)' /\ Apart(c, b)'
                                    /\ Pending(b) => \A m \in DOMAIN draft[b] : draft[b][m].stamp \notin S
    PROVE  StoreInv'
<1>1. ASSUME NEW b \in Clients \ {c} PROVE Snapshot(b)' /\ Stamped(b)'
  <2>1. Types /\ Snapshot(b) /\ Stamped(b) /\ Idles(b)
    BY DEF StoreInv
  <2>2. Keeps(b)
    BY <2>1 DEF Idles, Keeps
  <2> QED BY <2>1, <2>2, SnapshotStays, StampedStays
<1>2. ASSUME NEW a \in Clients, NEW b \in Clients, a # b PROVE Apart(a, b)'
  <2>1. CASE a = c \/ b = c
    BY <1>2, <2>1
  <2>2. CASE a # c /\ b # c
    <3>1. Apart(a, b)
      BY <1>2 DEF StoreInv
    <3>2. \A d \in {a, b} : Idles(d)
      BY <2>2
    <3>3. \A d \in {a, b} : /\ Pending(d)' => Pending(d)
                            /\ draft'[d] = draft[d]
      BY <3>2 DEF Idles, Pending
    <3> QED BY <3>1, <3>3, ApartStays
  <2> QED BY <2>1, <2>2
<1> QED BY <1>1, <1>2 DEF StoreInv

\* A step that leaves the clients alone.
LEMMA TableStep ==
    ASSUME StoreInv, Types', \A b \in Clients : Idles(b),
           Versioned, NEW S, Queued(S), Recordings',
           \A b \in Clients : Pending(b) => \A m \in DOMAIN draft[b] : draft[b][m].stamp \notin S
    PROVE  StoreInv'
<1>1. ASSUME NEW b \in Clients PROVE Snapshot(b)' /\ Stamped(b)'
  <2>1. Types /\ Snapshot(b) /\ Stamped(b) /\ Idles(b)
    BY DEF StoreInv
  <2>2. Keeps(b)
    BY <2>1 DEF Idles, Keeps
  <2> QED BY <2>1, <2>2, SnapshotStays, StampedStays
<1>2. ASSUME NEW a \in Clients, NEW b \in Clients, a # b PROVE Apart(a, b)'
  <2>1. Apart(a, b)
    BY <1>2 DEF StoreInv
  <2>2. \A d \in {a, b} : /\ Pending(d)' => Pending(d)
                          /\ draft'[d] = draft[d]
    BY DEF Idles, Pending
  <2> QED BY <2>1, <2>2, ApartStays
<1> QED BY <1>1, <1>2 DEF StoreInv

\* A step after which client c has no new first save: its drafts are among
\* those it had, and recorded ones if it had none.
LEMMA NoNewDraft ==
    ASSUME StoreInv, Types', NEW c \in Clients, \A b \in Clients \ {c} : Idles(b),
           Versioned, NEW S, Queued(S), Recordings',
           Snapshot(c)', Stamped(c)',
           Pending(c)' => /\ Pending(c) /\ DOMAIN draft'[c] \subseteq DOMAIN draft[c]
                          /\ \A m \in DOMAIN draft'[c] : draft'[c][m] = draft[c][m],
           \A b \in Clients \ {c} :
              Pending(b) => \A m \in DOMAIN draft[b] : draft[b][m].stamp \notin S
    PROVE  StoreInv'
<1>1. ASSUME NEW b \in Clients \ {c} PROVE Apart(b, c)' /\ Apart(c, b)'
  <2>1. Apart(b, c) /\ Apart(c, b)
    BY DEF StoreInv
  <2>2. Pending(b)' => Pending(b) /\ draft'[b] = draft[b]
    BY DEF Idles, Pending
  <2>3. \A d \in {b, c} : Pending(d)' =>
           /\ Pending(d) /\ DOMAIN draft'[d] \subseteq DOMAIN draft[d]
           /\ \A m \in DOMAIN draft'[d] : draft'[d][m] = draft[d][m]
    BY <2>2
  <2> QED BY <2>1, <2>3, ApartStays
<1> QED BY <1>1, ClientStep

--------------------------------------------------------------------------------
(* The actions. *)

LEMMA BeginInv ==
    ASSUME StoreInv, NEW c \in Clients, NEW o, NEW d, NEW next,
           Begin(c, o, d, next), Drafted(o, d, next)
    PROVE  StoreInv'
<1> DEFINE now == clock + 1
<1>1. Types /\ Recordings /\ IsDraft(d) /\ clock \in Nat /\ now \in Nat /\ clock' = now
  BY DEF StoreInv, Drafted, Types, TableTypes, Begin
<1>2. Types'
  BY <1>1, BeginTypes DEF Drafted
<1>3. UNCHANGED <<tableVars, outboxVars>>
  BY DEF Begin
<1>4. Versioned /\ Queued({}) /\ Recordings'
  BY <1>1, <1>3, TablesStay
<1>5. /\ pc'[c] = next /\ op'[c] = o /\ draft'[c] = d /\ seen'[c] = version
      /\ base'[c] = [m \in DOMAIN d \cap Existing |-> store[m].content]
      /\ \A b \in Clients \ {c} : Idles(b)
  BY <1>1 DEF Begin, Types, ClientTypes, Idles
<1>6. UNCHANGED <<store, version, payload, status>>
  BY <1>3 DEF tableVars, outboxVars, rowVars
<1>7. Snapshot(c)'
  <2>1. \A m \in Memories : version[m] \in Nat
    BY <1>1 DEF Types, TableTypes
  <2>2. o \in {"forget", "undo"} =>
           next = "commit" /\ \A m \in DOMAIN d :
              m \in DOMAIN base'[c] /\ d[m].content = base'[c][m]
    BY <1>5 DEF Drafted
  <2>3. \A m \in DOMAIN d \cap Existing :
           o # "undo" /\ store[m].lifecycle = "tombstoned" => d[m].lifecycle = "tombstoned"
    BY DEF Drafted
  <2> QED BY <1>5, <1>6, <2>1, <2>2, <2>3 DEF Snapshot, Existing
<1>8. ASSUME NEW n \in Nat, Spent(n) PROVE n <= clock /\ n # now
  <2>1. PICK e \in Events : payload[e] # NoPayload /\ payload[e].state.stamp = n
    BY <1>8 DEF Spent
  <2>2. n <= clock
    BY <1>1, <2>1 DEF Recordings, StampsPast
  <2> QED BY <1>1, <2>2
<1>9. Pending(c)' <=> o # "rewrite"
  BY <1>5 DEF Pending, Drafted
<1>10. \A n : Spent(n)' <=> Spent(n)
  BY <1>6 DEF Spent
<1>11. Stamped(c)'
  <2>1. CASE o # "rewrite"
    <3>1. \A m \in DOMAIN d : d[m].stamp = now
      BY <2>1 DEF Drafted
    <3>2. ~Spent(now)
      BY <1>1, <1>8
    <3>3. ASSUME NEW m \in DOMAIN d
          PROVE  draft'[c][m].stamp <= clock' /\ ~Spent(draft[c][m].stamp)'
      <4>1. PICK n : n = now
        OBVIOUS
      <4>2. ~Spent(n)' /\ draft'[c][m].stamp = n /\ n <= clock'
        BY <1>1, <1>5, <1>10, <3>1, <3>2, <4>1
      <4> QED BY <4>2
    <3> QED BY <1>5, <1>9, <2>1, <3>3 DEF Stamped
  <2>2. CASE o = "rewrite"
    <3>1. ASSUME NEW m \in DOMAIN d PROVE Spent(draft[c][m].stamp)'
      <4>1. m \in Existing /\ d[m].stamp = store[m].stamp
        BY <2>2 DEF Drafted
      <4>2. PICK n : n = store[m].stamp
        OBVIOUS
      <4>3. PICK e \in Events : payload[e] = [memory |-> m, state |-> store[m]]
        BY <1>1, <4>1 DEF Recordings, CurrentStateQueued
      <4>4. Spent(n)
        BY <4>2, <4>3, PayloadsDiffer DEF Spent
      <4>5. Spent(n)' /\ draft'[c][m].stamp = n
        BY <1>5, <1>10, <4>1, <4>2, <4>4
      <4> QED BY <4>5
    <3> QED BY <1>5, <1>9, <2>2, <3>1 DEF Stamped
  <2> QED BY <2>1, <2>2
<1>12. ASSUME NEW b \in Clients \ {c} PROVE Apart(b, c)' /\ Apart(c, b)'
  <2>1. Pending(b)' <=> Pending(b)
    BY <1>5 DEF Idles, Pending
  <2>2. ASSUME Pending(b), NEW m \in DOMAIN draft[b] PROVE draft[b][m].stamp # now
    <3>1. draft[b][m].stamp <= clock
      BY <2>2 DEF StoreInv, Stamped
    <3>2. draft[b][m].stamp \in Nat
      BY <1>1 DEF Types, ClientTypes, IsDraft, States
    <3> QED BY <1>1, <3>1, <3>2
  <2>3. o # "rewrite" => \A m \in DOMAIN d : d[m].stamp = now
    BY DEF Drafted
  <2>4. draft'[b] = draft[b]
    BY <1>5 DEF Idles
  <2> QED BY <1>5, <1>9, <2>1, <2>2, <2>3, <2>4 DEF Apart
<1>13. \A b \in Clients \ {c} : \A m \in DOMAIN draft[b] : draft[b][m].stamp \notin {}
  OBVIOUS
<1> HIDE DEF now
<1> QED BY <1>2, <1>4, <1>5, <1>7, <1>11, <1>12, <1>13, ClientStep

LEMMA FindInv ==
    ASSUME StoreInv, NEW c \in Clients, NEW m \in Memories, FindByUpsertKey(c, m)
    PROVE  StoreInv'
<1>1. Types /\ Recordings /\ clock' = clock /\ clock \in Nat
  BY DEF StoreInv, Types, TableTypes, FindByUpsertKey
<1>2. Types'
  BY <1>1, FindTypes
<1>3. Versioned /\ Queued({}) /\ Recordings'
  BY <1>1, TablesStay DEF FindByUpsertKey
<1>4. /\ \A b \in Clients \ {c} : Idles(b)
      /\ UNCHANGED <<op, draft, base, seen, payload, clock>>
      /\ pc[c] = "idle" /\ pc'[c] = "found"
  BY <1>1 DEF FindByUpsertKey, Types, ClientTypes, Idles, tableVars
<1>5. Snapshot(c) /\ Stamped(c) /\ ~Pending(c) /\ ~Pending(c)'
  BY <1>4 DEF StoreInv, Pending
<1>6. Snapshot(c)'
  <2>1. op[c] \notin {"forget", "undo"}
    BY <1>4, <1>5 DEF Snapshot
  <2>2. Keeps(c)
    BY <1>4, <2>1 DEF Keeps
  <2> QED BY <1>1, <1>3, <1>5, <2>2, SnapshotStays
<1>7. Stamped(c)'
  BY <1>4, <1>5 DEF Stamped, Spent
<1>8. \A b \in Clients \ {c} : \A n \in DOMAIN draft[b] : draft[b][n].stamp \notin {}
  OBVIOUS
<1> QED BY <1>2, <1>3, <1>4, <1>5, <1>6, <1>7, <1>8, NoNewDraft

\* A client returns to its caller, or goes on to the second save of an upsert,
\* when rows carry the states it has drafted.
LEMMA AfterSaveInv ==
    ASSUME StoreInv, Types', NEW c \in Clients, Finished(c) \/ AfterSave(c),
           Versioned, NEW S, Queued(S), Recordings',
           ~Finished(c) => \A m \in DOMAIN draft[c] : Spent(draft[c][m].stamp)',
           \A b \in Clients \ {c} :
              Pending(b) => \A m \in DOMAIN draft[b] : draft[b][m].stamp \notin S
    PROVE  StoreInv'
<1>1. Types /\ Snapshot(c)
  BY DEF StoreInv
<1>2. CASE Finished(c)
  <2>1. /\ \A b \in Clients \ {c} : Idles(b)
        /\ pc'[c] = "idle" /\ op'[c] = "none" /\ draft'[c] = NoDraft
        /\ seen'[c] = [m \in Memories |-> 0]
    BY <1>1, <1>2 DEF Finished, Types, ClientTypes, Idles
  <2>2. ~Pending(c)'
    BY <2>1 DEF Pending
  <2>3. \A m \in Memories : version'[m] \in Nat
    BY DEF Types, TableTypes
  <2>4. Snapshot(c)' /\ Stamped(c)'
    BY <2>1, <2>3, NoDraftTypes DEF Snapshot, Stamped
  <2> QED BY <2>1, <2>2, <2>4, NoNewDraft
<1>3. CASE ~Finished(c)
  <2>1. /\ op[c] = "upsert" /\ pc' = [pc EXCEPT ![c] = "resave"]
        /\ UNCHANGED <<op, target, draft, base, seen>>
    BY <1>3 DEF AfterSave
  <2>2. (\A b \in Clients \ {c} : Idles(b)) /\ pc'[c] = "resave"
    BY <1>1, <2>1 DEF Types, ClientTypes, Idles
  <2>3. ~Pending(c)'
    BY <2>2 DEF Pending
  <2>4. Keeps(c)
    BY <2>1 DEF Keeps
  <2>5. Snapshot(c)'
    BY <1>1, <2>4, SnapshotStays
  <2>6. Stamped(c)'
    BY <1>3, <2>1, <2>3 DEF Stamped
  <2> QED BY <2>2, <2>3, <2>5, <2>6, NoNewDraft
<1> QED BY <1>2, <1>3

\* A state that its memory is in is recorded.
LEMMA CurrentIsSpent ==
    ASSUME Types, CurrentStateQueued, NEW m \in Existing
    PROVE  Spent(store[m].stamp)
<1>1. PICK e \in Events : payload[e] = [memory |-> m, state |-> store[m]]
  BY DEF CurrentStateQueued
<1> QED BY <1>1, PayloadsDiffer DEF Spent

LEMMA RereadInv ==
    ASSUME StoreInv, NEW c \in Clients, Reread(c)
    PROVE  StoreInv'
<1>1. Types /\ Recordings /\ clock' = clock /\ clock \in Nat /\ Snapshot(c) /\ Stamped(c)
  BY DEF StoreInv, Types, TableTypes, Reread
<1>2. Types'
  BY <1>1, RereadTypes
<1>3. Versioned /\ Queued({}) /\ Recordings'
  BY <1>1, TablesStay DEF Reread
<1>4. \A b \in Clients \ {c} : \A m \in DOMAIN draft[b] : draft[b][m].stamp \notin {}
  OBVIOUS
<1>5. CASE Changing(c) = {}
  <2>1. AfterSave(c)
    BY <1>5 DEF Reread
  <2>2. ASSUME ~Finished(c), NEW m \in DOMAIN draft[c]
        PROVE  Spent(draft[c][m].stamp)'
    <3>1. draft'[c] = draft[c]
      BY <2>1, <2>2 DEF AfterSave
    <3>2. m \in Memories /\ draft[c][m] \in States /\ store[m] = draft[c][m]
      BY <1>1, <1>5, <2>2 DEF Changing, Types, ClientTypes, IsDraft
    <3>3. m \in Existing
      BY <1>1, <3>2, ExistingStates
    <3>4. PICK n : n = draft[c][m].stamp
      OBVIOUS
    <3>5. Spent(n)
      BY <1>1, <3>2, <3>3, <3>4, CurrentIsSpent DEF Recordings
    <3>6. Spent(n)' /\ draft'[c][m].stamp = n
      BY <1>3, <3>1, <3>4, <3>5, SpentStays
    <3> QED BY <3>6
  <2> QED BY <1>2, <1>3, <1>4, <2>1, <2>2, AfterSaveInv
<1>6. CASE Changing(c) # {}
  <2>1. /\ pc' = [pc EXCEPT ![c] = IF pc[c] = "resave" THEN "recommit" ELSE "commit"]
        /\ base' = [base EXCEPT ![c] = [m \in Changing(c) \cap Existing |-> store[m].content]]
        /\ \/ draft' = draft
           \/ draft' = [draft EXCEPT ![c] = [m \in Changing(c) |-> draft[c][m]]]
        /\ UNCHANGED <<op, target, seen>>
        /\ pc[c] \in {"reread", "resave"}
    BY <1>6 DEF Reread
  <2>2. \A b \in Clients \ {c} : Idles(b)
    BY <1>1, <2>1 DEF Types, ClientTypes, Idles
  <2>3. /\ pc'[c] = IF pc[c] = "resave" THEN "recommit" ELSE "commit"
        /\ op'[c] = op[c] /\ seen'[c] = seen[c]
        /\ DOMAIN draft'[c] \subseteq DOMAIN draft[c]
        /\ \A m \in DOMAIN draft'[c] : draft'[c][m] = draft[c][m]
    BY <1>1, <2>1 DEF Types, ClientTypes, Changing
  <2>4. Pending(c)' <=> Pending(c)
    BY <2>1, <2>3 DEF Pending
  <2>5. Snapshot(c)'
    <3>1. op[c] \notin {"forget", "undo"}
      BY <1>1, <2>1 DEF Snapshot
    <3>2. Keeps(c)
      BY <2>3, <3>1 DEF Keeps
    <3> QED BY <1>1, <1>3, <3>2, SnapshotStays
  <2>6. Stamped(c)'
    <3>1. \A n : Spent(n)' <=> Spent(n)
      BY DEF Reread, tableVars, Spent
    <3>2. ASSUME NEW m \in DOMAIN draft'[c]
          PROVE  IF Pending(c)' THEN draft'[c][m].stamp <= clock' /\ ~Spent(draft[c][m].stamp)'
                                ELSE Spent(draft[c][m].stamp)'
      <4>1. PICK n : n = draft[c][m].stamp
        OBVIOUS
      <4>2. IF Pending(c) THEN n <= clock /\ ~Spent(n) ELSE Spent(n)
        BY <1>1, <2>3, <4>1 DEF Stamped
      <4>3. IF Pending(c)' THEN n <= clock' /\ ~Spent(n)' ELSE Spent(n)'
        BY <1>1, <2>4, <3>1, <4>2
      <4>4. draft'[c][m].stamp = n
        BY <2>3, <4>1
      <4> QED BY <4>3, <4>4
    <3> QED BY <3>2 DEF Stamped
  <2> QED BY <1>2, <1>3, <1>4, <2>2, <2>3, <2>4, <2>5, <2>6, NoNewDraft
<1> QED BY <1>5, <1>6

LEMMA ConflictInv ==
    ASSUME StoreInv, NEW c \in Clients, Conflict(c)
    PROVE  StoreInv'
<1>1. Types /\ Recordings /\ clock' = clock /\ clock \in Nat
  BY DEF StoreInv, Types, TableTypes, Conflict
<1>2. Types'
  BY <1>1, ConflictTypes
<1>3. Versioned /\ Queued({}) /\ Recordings'
  BY <1>1, TablesStay DEF Conflict
<1>4. \A b \in Clients \ {c} : \A m \in DOMAIN draft[b] : draft[b][m].stamp \notin {}
  OBVIOUS
<1> QED BY <1>2, <1>3, <1>4, AfterSaveInv DEF Conflict

LEMMA DraftStamps ==
    ASSUME StoreInv, NEW c \in Clients, NEW m \in DOMAIN draft[c]
    PROVE  draft[c][m].stamp <= clock
<1>1. Stamped(c) /\ Recordings
  BY DEF StoreInv
<1>2. CASE Pending(c)
  BY <1>1, <1>2 DEF Stamped
<1>3. CASE ~Pending(c)
  BY <1>1, <1>3 DEF Stamped, Spent, Recordings, StampsPast
<1> QED BY <1>2, <1>3

\* Nobody else is about to save a new state under a stamp that client c saves.
LEMMA OthersApart ==
    ASSUME StoreInv, NEW c \in Clients, NEW b \in Clients \ {c}, Pending(b),
           NEW m \in DOMAIN draft[b]
    PROVE  draft[b][m].stamp \notin {draft[c][n].stamp : n \in DOMAIN draft[c]}
<1>1. Stamped(b) /\ Stamped(c) /\ Apart(b, c)
  BY DEF StoreInv
<1>2. PICK s : s = draft[b][m].stamp
  OBVIOUS
<1>3. ~Spent(s)
  BY <1>1, <1>2 DEF Stamped
<1>4. ASSUME NEW n \in DOMAIN draft[c], draft[c][n].stamp = s PROVE FALSE
  <2>1. CASE Pending(c)
    BY <1>1, <1>2, <1>4, <2>1 DEF Apart
  <2>2. CASE ~Pending(c)
    BY <1>1, <1>3, <1>4, <2>2 DEF Stamped
  <2> QED BY <2>1, <2>2
<1> QED BY <1>2, <1>4

LEMMA CommitInv ==
    ASSUME StoreInv, NEW c \in Clients, Commit(c)
    PROVE  StoreInv'
<1>1. Types /\ Recordings /\ clock' = clock /\ clock \in Nat
  BY DEF StoreInv, Types, TableTypes, Commit
<1>2. Types'
  BY <1>1, CommitTypes
<1>3. PICK d : d = draft[c]
  OBVIOUS
<1>4. IsDraft(d) /\ Write(d) /\ \A m \in DOMAIN d : d[m].stamp <= clock'
  <2>1. IsDraft(d)
    BY <1>1, <1>3 DEF Types, ClientTypes
  <2>2. Write(d)
    BY <1>3 DEF Commit
  <2>3. \A m \in DOMAIN d : d[m].stamp <= clock'
    BY <1>1, <1>3, DraftStamps
  <2> QED BY <2>1, <2>2, <2>3
<1> DEFINE S == {d[m].stamp : m \in DOMAIN d}
<1>5. /\ Versioned /\ Queued(S) /\ Recordings'
      /\ \A m \in DOMAIN d : Spent(d[m].stamp)'
  <2>1. clock' \in Nat /\ clock <= clock'
    BY <1>1
  <2> QED BY <1>1, <1>4, <2>1, WriteStays
<1>6. ASSUME NEW b \in Clients \ {c}, Pending(b), NEW m \in DOMAIN draft[b]
      PROVE  draft[b][m].stamp \notin S
  BY <1>3, <1>6, OthersApart
<1>7. ASSUME ~Finished(c), NEW m \in DOMAIN draft[c]
      PROVE  Spent(draft[c][m].stamp)'
  <2>1. draft'[c] = d
    BY <1>3, <1>7 DEF Commit, AfterSave
  <2>2. PICK n : n = d[m].stamp
    OBVIOUS
  <2>3. Spent(n)'
    BY <1>3, <1>5, <1>7, <2>2
  <2> QED BY <2>1, <2>2, <2>3
<1>8. AfterSave(c)
  BY DEF Commit
<1> HIDE DEF S
<1> QED BY <1>2, <1>5, <1>6, <1>7, <1>8, AfterSaveInv

LEMMA RetireInv ==
    ASSUME StoreInv, RetireProject
    PROVE  StoreInv'
<1> DEFINE now == clock + 1
<1>1. Types /\ Recordings /\ clock \in Nat /\ now \in Nat /\ clock' = now /\ clock <= now
  BY DEF StoreInv, Types, TableTypes, RetireProject
<1>2. Types'
  BY <1>1, RetireTypes
<1>3. PICK live \in SUBSET Existing :
         /\ IsDraft([m \in live |-> Tombstoned(store[m], now)])
         /\ Write([m \in live |-> Tombstoned(store[m], now)])
  BY <1>1, RetiredDrafts
<1>4. PICK d : d = [m \in live |-> Tombstoned(store[m], now)]
  OBVIOUS
<1>5. IsDraft(d) /\ Write(d)
  BY <1>3, <1>4
<1>6. \A m \in DOMAIN d : d[m].stamp = now
  <2>1. \A m \in live : store[m] \in States
    BY <1>1, ExistingStates DEF Existing
  <2>2. \A m \in live : Tombstoned(store[m], now).stamp = now
    BY <1>1, <2>1, AggregatesAreStates
  <2> QED BY <1>4, <2>2
<1> DEFINE S == {d[m].stamp : m \in DOMAIN d}
<1>7. Versioned /\ Queued(S) /\ Recordings'
  BY <1>1, <1>5, <1>6, WriteStays
<1>8. ASSUME NEW b \in Clients, Pending(b), NEW m \in DOMAIN draft[b]
      PROVE  draft[b][m].stamp \notin S
  <2>1. draft[b][m].stamp <= clock
    BY DraftStamps
  <2>2. draft[b][m].stamp \in Nat
    BY <1>1 DEF Types, ClientTypes, IsDraft, States
  <2>3. draft[b][m].stamp # now
    BY <1>1, <2>1, <2>2
  <2> QED BY <1>6, <2>3
<1>9. \A b \in Clients : Idles(b)
  BY DEF RetireProject, clientVars, Idles
<1> HIDE DEF S
<1> QED BY <1>2, <1>7, <1>8, <1>9, TableStep

LEMMA NextStoreInv ==
    ASSUME StoreInv, [StoreNext]_<<storeVars, outboxVars>>
    PROVE  StoreInv'
<1>1. Types /\ Types' /\ Recordings /\ clock \in Nat
  BY NextTypes DEF StoreInv, Types, TableTypes
<1>2. ASSUME NEW c \in Clients, Request(c) PROVE StoreInv'
  BY <1>1, <1>2, Requests, BeginInv, FindInv DEF Drafts
<1>3. ASSUME NEW c \in Clients, Save(c) PROVE StoreInv'
  BY <1>3, RereadInv, CommitInv, ConflictInv DEF Save
<1>4. ASSUME UNCHANGED <<tableVars, outboxVars, clock, clientVars>> PROVE StoreInv'
  <2>1. clock' \in Nat /\ clock <= clock'
    BY <1>1, <1>4
  <2>2. Versioned /\ Queued({}) /\ Recordings'
    BY <1>1, <1>4, <2>1, TablesStay
  <2>3. \A b \in Clients : Idles(b)
    BY <1>4 DEF clientVars, Idles
  <2>4. \A b \in Clients : \A m \in DOMAIN draft[b] : draft[b][m].stamp \notin {}
    OBVIOUS
  <2> QED BY <1>1, <2>2, <2>3, <2>4, TableStep
<1>5. UndoWindowElapses \/ UNCHANGED <<storeVars, outboxVars>> => StoreInv'
  BY <1>4 DEF UndoWindowElapses, storeVars
<1> QED BY <1>2, <1>3, <1>5, RetireInv DEF StoreNext

--------------------------------------------------------------------------------
(* The properties of single steps. *)

\* Only a save and a project retirement write memories; a client that replaces
\* a memory is the one that commits.
LEMMA Writers ==
    ASSUME StoreInv, [StoreNext]_<<storeVars, outboxVars>>, ~UNCHANGED <<store, version>>
    PROVE  RetireProject \/ \E c \in Clients : Commit(c)
<1>1. ASSUME NEW c \in Clients, Request(c) PROVE UNCHANGED <<store, version>>
  <2>1. Types
    BY DEF StoreInv
  <2> QED BY <1>1, <2>1, Requests DEF Drafts, Begin, FindByUpsertKey, tableVars
<1>2. ASSUME NEW c \in Clients, Reread(c) \/ Conflict(c) PROVE UNCHANGED <<store, version>>
  BY <1>2 DEF Reread, Conflict, tableVars
<1>3. UndoWindowElapses \/ UNCHANGED <<storeVars, outboxVars>> => UNCHANGED <<store, version>>
  BY DEF UndoWindowElapses, tableVars, storeVars
<1> QED BY <1>1, <1>2, <1>3 DEF StoreNext, Save

\* What client c commits.
LEMMA Committed ==
    ASSUME StoreInv, NEW c \in Clients, Commit(c)
    PROVE  /\ \A m \in Memories : IF m \in DOMAIN draft[c]
                                  THEN Replaces(c, m)
                                  ELSE store'[m] = store[m] /\ version'[m] = version[m]
           /\ \A b \in Clients \ {c} : pc'[b] = pc[b]
<1>1. Types
  BY DEF StoreInv
<1>2. pc'[c] # pc[c] /\ \A b \in Clients \ {c} : pc'[b] = pc[b]
  BY <1>1 DEF Commit, AfterSave, Finished, Types, ClientTypes
<1>3. \A m \in Memories :
         /\ store'[m] = IF m \in DOMAIN draft[c] THEN draft[c][m] ELSE store[m]
         /\ version'[m] = IF m \in DOMAIN draft[c] THEN version[m] + 1 ELSE version[m]
  BY DEF Commit, Write
<1>4. pc[c] \in {"commit", "recommit"}
  BY DEF Commit
<1> QED BY <1>2, <1>3, <1>4 DEF Replaces

LEMMA Retired ==
    ASSUME StoreInv, RetireProject, NEW m \in Memories
    PROVE  \/ store'[m] = store[m]
           \/ /\ m \in Existing /\ store[m].lifecycle # "tombstoned"
              /\ store'[m] = Tombstoned(store[m], clock + 1)
              /\ AppendsEvent(m)
<1> DEFINE now == clock + 1
           live == {k \in Existing : store[k].lifecycle # "tombstoned"}
           d == [k \in live |-> Tombstoned(store[k], now)]
<1>1. Types /\ Recordings /\ clock \in Nat /\ now \in Nat
  BY DEF StoreInv, Types, TableTypes
<1>2. \A k \in live : k \in Memories /\ store[k] \in States
  BY <1>1, ExistingStates DEF Existing
<1>3. \A k \in live : Tombstoned(store[k], now) \in States /\ Tombstoned(store[k], now).stamp = now
  BY <1>1, <1>2, AggregatesAreStates
<1>4. IsDraft(d)
  BY <1>2, <1>3 DEF IsDraft
<1>5. Write(d)
  BY DEF RetireProject
<1>6. RowsTaken
  BY <1>1 DEF Recordings
<1>7. /\ store'[m] = IF m \in DOMAIN d THEN d[m] ELSE store[m]
      /\ m \in DOMAIN d => Recorded(m, d[m]) \/ AppendsEvent(m)
  <2>1. PICK new : new = d
    OBVIOUS
  <2>2. IsDraft(new) /\ Write(new)
    BY <1>4, <1>5, <2>1
  <2>3. /\ \A k \in Memories : store'[k] = IF k \in DOMAIN new THEN new[k] ELSE store[k]
        /\ \A k \in DOMAIN new : Recorded(k, new[k]) \/ AppendsEvent(k)
    BY <1>1, <1>6, <2>2, WriteRecords
  <2> QED BY <2>1, <2>3
<1>8. CASE m \in live
  <2>1. d[m] = Tombstoned(store[m], now) /\ d[m].stamp = now
    BY <1>3, <1>8
  <2>2. ~Recorded(m, d[m])
    <3> SUFFICES ASSUME NEW e \in Events, payload[e] = [memory |-> m, state |-> d[m]]
                 PROVE  FALSE
      BY DEF Recorded
    <3>1. payload[e].state.stamp <= clock
      BY <1>1, PayloadsDiffer DEF Recordings, StampsPast
    <3> QED BY <1>1, <2>1, <3>1
  <2> QED BY <1>7, <1>8, <2>1, <2>2
<1>9. CASE m \notin live
  BY <1>7, <1>9
<1> QED BY <1>8, <1>9

LEMMA StepKeepsContent ==
    ASSUME StoreInv, [StoreNext]_<<storeVars, outboxVars>>, NEW m \in Existing,
           \A c \in Clients : Replaces(c, m) => op[c] \in {"forget", "undo"}
    PROVE  store'[m].content = store[m].content
<1>1. Types /\ m \in Memories /\ store[m] \in States /\ clock + 1 \in Nat
  BY ExistingStates DEF StoreInv, Existing, Types, TableTypes
<1>2. ASSUME NEW c \in Clients, Commit(c) PROVE store'[m].content = store[m].content
  <2>1. CASE m \in DOMAIN draft[c]
    <3>1. Replaces(c, m)
      BY <1>1, <1>2, <2>1, Committed
    <3>2. m \in DOMAIN base[c] /\ draft[c][m].content = base[c][m]
      BY <2>1, <3>1 DEF StoreInv, Snapshot
    <3>3. store[m].content = base[c][m]
      BY <1>2, <3>2 DEF Commit, Unchanged
    <3> QED BY <3>1, <3>2, <3>3 DEF Replaces
  <2>2. CASE m \notin DOMAIN draft[c]
    <3>1. store'[m] = store[m]
      BY <1>1, <1>2, <2>2, Committed
    <3> QED BY <3>1
  <2> QED BY <2>1, <2>2
<1>3. ASSUME RetireProject PROVE store'[m].content = store[m].content
  <2>1. store'[m] = store[m] \/ store'[m] = Tombstoned(store[m], clock + 1)
    BY <1>1, <1>3, Retired
  <2>2. Tombstoned(store[m], clock + 1).content = store[m].content
    BY <1>1, AggregatesAreStates
  <2>3. CASE store'[m] = store[m]
    BY <2>3
  <2>4. CASE store'[m] = Tombstoned(store[m], clock + 1)
    BY <2>2, <2>4
  <2> QED BY <2>1, <2>3, <2>4
<1> QED BY <1>2, <1>3, Writers

LEMMA StepKeepsTombstone ==
    ASSUME StoreInv, [StoreNext]_<<storeVars, outboxVars>>, NEW m \in Existing, NEW c \in Clients,
           Replaces(c, m), op[c] # "undo",
           store[m].lifecycle = "tombstoned", seen[c][m] = version[m]
    PROVE  store'[m].lifecycle = "tombstoned"
<1>1. m \in Memories
  BY DEF Existing
<1>2. version'[m] # version[m]
  BY <1>1 DEF Replaces, StoreInv, Types, TableTypes
<1>3. ~RetireProject
  BY DEF RetireProject, clientVars, Replaces
<1>4. PICK b \in Clients : Commit(b)
  BY <1>2, <1>3, Writers
<1>5. m \in DOMAIN draft[c] /\ store'[m] = draft[c][m]
  BY DEF Replaces
<1> QED BY <1>5 DEF StoreInv, Snapshot

LEMMA StepQueuesEvent ==
    ASSUME StoreInv, [StoreNext]_<<storeVars, outboxVars>>, NEW m \in Memories,
           store'[m] # store[m],
           \A c \in Clients : Replaces(c, m) => pc[c] = "commit" /\ op[c] # "rewrite"
    PROVE  AppendsEvent(m)
<1>1. ASSUME NEW c \in Clients, Commit(c) PROVE AppendsEvent(m)
  <2>1. Replaces(c, m) /\ m \in DOMAIN draft[c]
    BY <1>1, Committed DEF Replaces
  <2>2. Pending(c)
    BY <2>1 DEF Pending
  <2>3. PICK d : d = draft[c]
    OBVIOUS
  <2>4. ~Recorded(m, d[m])
    <3> SUFFICES ASSUME NEW e \in Events, payload[e] = [memory |-> m, state |-> d[m]]
                 PROVE  FALSE
      BY DEF Recorded
    <3>1. Spent(d[m].stamp)
      BY PayloadsDiffer DEF Spent
    <3> QED BY <2>1, <2>2, <2>3, <3>1 DEF StoreInv, Stamped
  <2>5. Types /\ RowsTaken /\ IsDraft(d) /\ Write(d)
    BY <1>1, <2>3 DEF StoreInv, Recordings, Types, ClientTypes, Commit
  <2>6. Recorded(m, d[m]) \/ AppendsEvent(m)
    BY <2>1, <2>3, <2>5, WriteRecords
  <2> QED BY <2>4, <2>6
<1>2. ASSUME RetireProject PROVE AppendsEvent(m)
  BY <1>2, Retired
<1> QED BY <1>1, <1>2, Writers

--------------------------------------------------------------------------------
(* The writers delete no rows. *)

NothingPruned == \A e \in Events : status[e] # "pruned"

LEMMA WritePrunesNothing ==
    ASSUME NothingPruned, NEW new, IsDraft(new), Write(new)
    PROVE  NothingPruned'
<1>1. PICK rows \in SUBSET Events :
         /\ \A e \in rows : status'[e] = "pending"
         /\ \A e \in Events \ rows : status'[e] = status[e]
  BY WriteRows
<1> QED BY <1>1 DEF NothingPruned

LEMMA NextNothingPruned ==
    ASSUME StoreInv, NothingPruned, [StoreNext]_<<storeVars, outboxVars>>
    PROVE  NothingPruned'
<1>1. Types
  BY DEF StoreInv
<1>2. UNCHANGED outboxVars => NothingPruned'
  BY DEF outboxVars, rowVars, NothingPruned
<1>3. ASSUME NEW c \in Clients, Request(c) PROVE NothingPruned'
  BY <1>1, <1>2, <1>3, Requests DEF Drafts, Begin, FindByUpsertKey
<1>4. ASSUME NEW c \in Clients, Reread(c) \/ Conflict(c) PROVE NothingPruned'
  BY <1>2, <1>4 DEF Reread, Conflict
<1>5. ASSUME NEW c \in Clients, Commit(c) PROVE NothingPruned'
  <2>1. PICK d : d = draft[c]
    OBVIOUS
  <2>2. IsDraft(d) /\ Write(d)
    BY <1>1, <1>5, <2>1 DEF Commit, Types, ClientTypes
  <2> QED BY <2>2, WritePrunesNothing
<1>6. ASSUME RetireProject PROVE NothingPruned'
  <2>1. PICK live \in SUBSET Existing :
           /\ IsDraft([m \in live |-> Tombstoned(store[m], clock + 1)])
           /\ Write([m \in live |-> Tombstoned(store[m], clock + 1)])
    BY <1>1, <1>6, RetiredDrafts
  <2>2. PICK d : d = [m \in live |-> Tombstoned(store[m], clock + 1)]
    OBVIOUS
  <2> QED BY <2>1, <2>2, WritePrunesNothing
<1>7. UndoWindowElapses => NothingPruned'
  BY <1>2 DEF UndoWindowElapses
<1> QED BY <1>2, <1>3, <1>4, <1>5, <1>6, <1>7 DEF StoreNext, Save

--------------------------------------------------------------------------------
(* The theorems. *)

\* What the steps of the writers (app_memory_write, MemoryLifecycleService,
\* SQLiteMemoryRepository) preserve together: types, recorded states, what the
\* clients hold of the tables, and stamps that nobody has queued yet.
THEOREM StoreInvariant == StoreSpec => []StoreInv
<1>1. StoreInit => StoreInv
  BY InitStoreInv
<1>2. StoreInv /\ [StoreNext]_<<storeVars, outboxVars>> => StoreInv'
  BY NextStoreInv
<1> QED BY <1>1, <1>2, PTL DEF StoreSpec

\* The tables and the registers of the request handlers keep their types.
THEOREM StoreTypesHold == StoreSpec => []StoreTypeOK
<1>1. StoreInv => StoreTypeOK
  BY TypesSuffice DEF StoreInv
<1> QED BY <1>1, StoreInvariant, PTL

\* Whatever state a memory is in, an outbox row that was not pruned carries
\* exactly that state (_append_memory_event).
THEOREM AuthorityIsRecorded == StoreSpec => []CurrentStateRecorded
<1>1. StoreInit => NothingPruned
  BY DEF StoreInit, OutboxInit, NothingPruned
<1>2. StoreInv /\ NothingPruned /\ [StoreNext]_<<storeVars, outboxVars>> => NothingPruned'
  BY NextNothingPruned
<1>3. StoreInv /\ NothingPruned => CurrentStateRecorded
  BY DEF StoreInv, Recordings, CurrentStateQueued, NothingPruned, CurrentStateRecorded
<1> QED BY <1>1, <1>2, <1>3, StoreInvariant, PTL DEF StoreSpec

\* A tombstone, an undo or a project retirement never brings back an older
\* content: the save compares the revision of its snapshot (MemoryLifecycleService).
THEOREM LifecycleKeepsContent == StoreSpec => LifecycleStepKeepsContent
<1>1. StoreInv /\ [StoreNext]_<<storeVars, outboxVars>> =>
         [\A m \in Existing :
             (\A c \in Clients : Replaces(c, m) => op[c] \in {"forget", "undo"})
             => store'[m].content = store[m].content]_<<storeVars, outboxVars>>
  BY StepKeepsContent
<1> QED BY <1>1, StoreInvariant, PTL DEF StoreSpec, LifecycleStepKeepsContent

\* A save of a client that has seen the tombstone of a memory, other than an
\* undo, keeps the memory tombstoned (Memory.to_record, Memory.from_record).
THEOREM TombstonesSurvive == StoreSpec => SeenTombstonesSurviveSaves
<1>1. StoreInv /\ [StoreNext]_<<storeVars, outboxVars>> =>
         [\A m \in Existing, c \in Clients :
             /\ Replaces(c, m) /\ op[c] # "undo"
             /\ store[m].lifecycle = "tombstoned" /\ seen[c][m] = version[m]
             => store'[m].lifecycle = "tombstoned"]_<<storeVars, outboxVars>>
  BY StepKeepsTombstone
<1> QED BY <1>1, StoreInvariant, PTL DEF StoreSpec, SeenTombstonesSurviveSaves

\* A first save of a newly drafted state, and a project retirement, queue an
\* event with the new state: no older row with this state stands in its way
\* (_append_memory_event).
THEOREM NewStatesAreQueued == StoreSpec => NewStateQueuesEvent
<1>1. StoreInv /\ [StoreNext]_<<storeVars, outboxVars>> =>
         [\A m \in Memories :
             /\ store'[m] # store[m]
             /\ \A c \in Clients : Replaces(c, m) => pc[c] = "commit" /\ op[c] # "rewrite"
             => AppendsEvent(m)]_<<storeVars, outboxVars>>
  BY StepQueuesEvent
<1> QED BY <1>1, StoreInvariant, PTL DEF StoreSpec, NewStateQueuesEvent

================================================================================
