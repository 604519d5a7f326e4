------------------------------ MODULE MemoryStore ------------------------------
(***************************************************************************)
(* The authoritative memory table and its writers.                         *)
(*                                                                         *)
(* A request handler reads a memory, drafts a new state outside any        *)
(* transaction and saves it.  Two save paths exist.  The record path       *)
(* (SQLiteMemoryService.upsert_records) re-reads the memory, drops drafts  *)
(* that change nothing and saves under the revision it has just re-read.   *)
(* The lifecycle path (MemoryLifecycleService) saves under the revision of *)
(* the snapshot it was given.  A save replaces the row and appends an      *)
(* outbox event in the same transaction.                                   *)
(*                                                                         *)
(* A memory has at most one revision per content (UNIQUE(memory_id,        *)
(* content_sha256)), so the current revision is modelled by the content.   *)
(* Everything else a handler writes (updated_at, the changelog, tags) is   *)
(* modelled by the stamp it takes from the clock.                          *)
(***************************************************************************)
EXTENDS MemoryOutbox

CONSTANTS
    Memories,      \* memory ids
    Contents,      \* contents, and so revisions
    Clients,       \* concurrent request handlers
    Operations,    \* the operations the clients of this instance perform
    MaxClock       \* bound: operations started

NoMemory == [lifecycle |-> "none"]
NoPayload == [memory |-> "none"]

Lifecycles == {"active", "archived", "tombstoned"}

AllOperations == {"remember", "update", "upsert", "archive", "unarchive",
                  "forget", "undo", "rewrite"}

ASSUME StoreAssumption == Operations \subseteq AllOperations /\ MaxClock \in Nat

\* The stored state of a memory; the last four fields are keys of its metadata.
States == [content    : Contents,
           lifecycle  : Lifecycles,
           stamp      : Nat,
           label      : BOOLEAN,                      \* lifecycle = "tombstoned"
           archivedAt : BOOLEAN,                      \* archived_at is present
           tombAt     : Nat,                          \* tombstoned_at, 0 if absent
           previous   : Lifecycles \cup {"none"}]     \* previous_lifecycle

VARIABLES
    store,         \* the memories table
    payload,       \* payload_json of the outbox rows
    version,       \* history: commits of a memory so far
    clock,         \* the last time stamp given out
    horizon,       \* tombstones stamped up to here are past the undo window
    pc,            \* where a client is
    op,            \* the operation it performs
    target,        \* the memory its upsert key led to
    draft,         \* the states it is about to save
    base,          \* the revisions it expects to replace
    seen           \* history: the versions it drafted from

tableVars  == <<store, payload, version>>
clientVars == <<pc, op, target, draft, base, seen>>
storeVars  == <<tableVars, clock, horizon, clientVars>>

Existing == {m \in Memories : store[m] # NoMemory}

NoDraft == [m \in {} |-> NoMemory]

--------------------------------------------------------------------------------
\* Memory.to_record and Memory.from_record: the lifecycle column travels as
\* metadata and is derived from it again.

\* Planted bug: the record does not say that the memory is tombstoned.
ToRecordUnlabelled(s) == [s EXCEPT !.archivedAt = @ \/ s.lifecycle = "archived"]

ToRecord(s) ==
    [s EXCEPT !.archivedAt = @ \/ s.lifecycle = "archived",
              !.label      = @ \/ s.lifecycle = "tombstoned",
              !.tombAt     = IF s.lifecycle = "tombstoned" /\ @ = 0 THEN s.stamp ELSE @]

FromRecord(r) ==
    [r EXCEPT !.lifecycle = IF r.label THEN "tombstoned"
                            ELSE IF r.archivedAt THEN "archived" ELSE "active"]

Updated(s, c, now)  == FromRecord([ToRecord(s) EXCEPT !.content = c, !.stamp = now])
Archived(s, now)    == FromRecord([ToRecord(s) EXCEPT !.archivedAt = TRUE, !.stamp = now])
Unarchived(s, now)  == FromRecord([ToRecord(s) EXCEPT !.archivedAt = FALSE, !.stamp = now])

\* Planted bug: a record without a lifecycle is not given the default.
RememberedBare(c, now) ==
    [content |-> c, lifecycle |-> "none", stamp |-> now, label |-> FALSE,
     archivedAt |-> FALSE, tombAt |-> 0, previous |-> "none"]

Remembered(c, now) ==
    [content |-> c, lifecycle |-> "active", stamp |-> now, label |-> FALSE,
     archivedAt |-> FALSE, tombAt |-> 0, previous |-> "none"]

\* The lifecycle service works on the aggregate, not on its record.
Tombstoned(s, now) ==
    [s EXCEPT !.lifecycle = "tombstoned", !.previous = s.lifecycle,
              !.tombAt = now, !.stamp = now]

Restored(s, now) ==
    [s EXCEPT !.lifecycle = IF s.previous \in {"none", "tombstoned"} THEN "active" ELSE s.previous,
              !.previous = "none", !.tombAt = 0, !.stamp = now]

CanRestore(s) == s.lifecycle = "tombstoned" /\ s.tombAt # 0 /\ s.tombAt > horizon

--------------------------------------------------------------------------------
StoreInit ==
    /\ OutboxInit
    /\ store   = [m \in Memories |-> NoMemory]
    /\ payload = [e \in Events |-> NoPayload]
    /\ version = [m \in Memories |-> 0]
    /\ clock   = 0
    /\ horizon = 0
    /\ pc      = [c \in Clients |-> "idle"]
    /\ op      = [c \in Clients |-> "none"]
    /\ target  = [c \in Clients |-> "none"]
    /\ draft   = [c \in Clients |-> NoDraft]
    /\ base    = [c \in Clients |-> NoDraft]
    /\ seen    = [c \in Clients |-> [m \in Memories |-> 0]]

\* A client starts operation o with the drafts d, to be saved along path next.
Begin(c, o, d, next) ==
    /\ o \in Operations
    /\ clock < MaxClock /\ clock' = clock + 1
    /\ pc' = [pc EXCEPT ![c] = next]
    /\ op' = [op EXCEPT ![c] = o]
    /\ draft' = [draft EXCEPT ![c] = d]
    /\ base' = [base EXCEPT ![c] = [m \in DOMAIN d \cap Existing |-> store[m].content]]
    /\ seen' = [seen EXCEPT ![c] = version]
    /\ target' = [target EXCEPT ![c] = "none"]
    /\ UNCHANGED <<tableVars, horizon, outboxVars>>

Only(m, s) == [k \in {m} |-> s]

Remember(c, m, k) ==
    /\ pc[c] = "idle" /\ m \notin Existing
    /\ \A d \in Clients : m \notin DOMAIN draft[d]          \* source_id is a fresh uuid
    /\ Begin(c, "remember", Only(m, Remembered(k, clock + 1)), "reread")

Update(c, m, k) ==
    /\ pc[c] = "idle" /\ m \in Existing
    /\ Begin(c, "update", Only(m, Updated(store[m], k, clock + 1)), "reread")

\* An upsert first looks for an active memory under its key, by its column
\* and by its record...
FindByUpsertKey(c, m) ==
    /\ pc[c] = "idle" /\ "upsert" \in Operations
    /\ m \in Existing /\ store[m].lifecycle = "active"
    /\ ~store[m].label /\ ~store[m].archivedAt
    /\ pc' = [pc EXCEPT ![c] = "found"]
    /\ target' = [target EXCEPT ![c] = m]
    /\ UNCHANGED <<tableVars, clock, horizon, op, draft, base, seen, outboxVars>>

\* ...and then updates it, reading it again by id whatever its lifecycle.
UpsertFound(c, k) ==
    /\ pc[c] = "found"
    /\ Begin(c, "upsert", Only(target[c], Updated(store[target[c]], k, clock + 1)), "reread")

Archive(c, m) ==
    /\ pc[c] = "idle" /\ m \in Existing
    /\ Begin(c, "archive", Only(m, Archived(store[m], clock + 1)), "reread")

Unarchive(c, m) ==
    /\ pc[c] = "idle" /\ m \in Existing
    /\ Begin(c, "unarchive", Only(m, Unarchived(store[m], clock + 1)), "reread")

Forget(c, m) ==
    /\ pc[c] = "idle" /\ m \in Existing
    /\ store[m].lifecycle # "tombstoned" /\ ~store[m].label   \* already_tombstoned
    /\ Begin(c, "forget", Only(m, Tombstoned(store[m], clock + 1)), "commit")

Undo(c, m) ==
    /\ pc[c] = "idle" /\ m \in Existing /\ CanRestore(store[m])
    /\ Begin(c, "undo", Only(m, Restored(store[m], clock + 1)), "commit")

\* Maintenance that loads every record and saves them all back.
Rewrite(c) ==
    /\ pc[c] = "idle" /\ Existing # {}
    /\ Begin(c, "rewrite", [m \in Existing |-> FromRecord(ToRecord(store[m]))], "reread")

\* The client has returned to its caller.
Finished(c) ==
    /\ pc' = [pc EXCEPT ![c] = "idle"]
    /\ op' = [op EXCEPT ![c] = "none"]
    /\ target' = [target EXCEPT ![c] = "none"]
    /\ draft' = [draft EXCEPT ![c] = NoDraft]
    /\ base' = [base EXCEPT ![c] = NoDraft]
    /\ seen' = [seen EXCEPT ![c] = [m \in Memories |-> 0]]

\* An upsert saves the record it has just written once more.
AfterSave(c) ==
    IF op[c] = "upsert" /\ pc[c] \in {"reread", "commit"}
    THEN pc' = [pc EXCEPT ![c] = "resave"] /\ UNCHANGED <<op, target, draft, base, seen>>
    ELSE Finished(c)

\* upsert_records: the re-read drops what would change nothing and fixes the
\* revisions to replace.
Changing(c) == {m \in DOMAIN draft[c] : store[m] # draft[c][m]}

Reread(c) ==
    /\ pc[c] \in {"reread", "resave"}
    /\ IF Changing(c) = {} THEN AfterSave(c)
       ELSE /\ pc' = [pc EXCEPT ![c] = IF pc[c] = "resave" THEN "recommit" ELSE "commit"]
            /\ base' = [base EXCEPT ![c] =
                  [m \in Changing(c) \cap Existing |-> store[m].content]]
            /\ IF pc[c] = "resave" \/ op[c] = "upsert" THEN UNCHANGED draft
               ELSE draft' = [draft EXCEPT ![c] = [m \in Changing(c) |-> draft[c][m]]]
            /\ UNCHANGED <<op, target, seen>>
    /\ UNCHANGED <<tableVars, clock, horizon, outboxVars>>

--------------------------------------------------------------------------------
\* Planted bug: an event is identified by its memory and revision alone.
RecordedRevision(m, s) ==
    \E e \in Events : /\ payload[e] # NoPayload /\ payload[e].memory = m
                      /\ payload[e].state.content = s.content

\* The row of a memory that already carries exactly this state.
Recorded(m, s) ==
    \E e \in Events : status[e] # "pruned" /\ payload[e] = [memory |-> m, state |-> s]

\* _append_memory_event for each saved memory, in the transaction of the save.
AppendEvents(new) ==
    LET needed == {m \in DOMAIN new : ~Recorded(m, new[m])}
        rows   == FirstOf(FreeRows, Cardinality(needed))
    IN  /\ Cardinality(rows) = Cardinality(needed)
        /\ \E of \in [rows -> needed] :
              /\ \A m \in needed : \E e \in rows : of[e] = m
              /\ payload' = [e \in Events |->
                    IF e \in rows THEN [memory |-> of[e], state |-> new[of[e]]] ELSE payload[e]]
        /\ InsertRows(rows)

Write(new) ==
    /\ store' = [m \in Memories |-> IF m \in DOMAIN new THEN new[m] ELSE store[m]]
    /\ version' = [m \in Memories |-> IF m \in DOMAIN new THEN version[m] + 1 ELSE version[m]]
    /\ AppendEvents(new)

\* Planted bug: the expected revision is not passed on to the repository.
Unconditional(c) == c \in Clients

\* The compare-and-swap of the save: it looks at the revision only.
Unchanged(c) == \A m \in DOMAIN base[c] : store[m].content = base[c][m]

Commit(c) ==
    /\ pc[c] \in {"commit", "recommit"}
    /\ Unchanged(c)
    /\ Write(draft[c])
    /\ AfterSave(c)
    /\ UNCHANGED <<clock, horizon>>

\* MemoryRevisionConflict: the transaction rolls back and the request fails.
Conflict(c) ==
    /\ pc[c] \in {"commit", "recommit"}
    /\ ~Unchanged(c)
    /\ Finished(c)
    /\ UNCHANGED <<tableVars, clock, horizon, outboxVars>>

\* tombstone_project reads and writes every live memory in one transaction.
RetireProject ==
    LET live == {m \in Existing : store[m].lifecycle # "tombstoned"}
    IN  /\ live # {}
        /\ clock < MaxClock /\ clock' = clock + 1
        /\ Write([m \in live |-> Tombstoned(store[m], clock + 1)])
        /\ UNCHANGED <<horizon, clientVars>>

UndoWindowElapses ==
    /\ \E m \in Existing : CanRestore(store[m])
    /\ horizon' = clock
    /\ UNCHANGED <<tableVars, clock, clientVars, outboxVars>>

--------------------------------------------------------------------------------
Request(c) ==
    \/ \E m \in Memories, k \in Contents : Remember(c, m, k) \/ Update(c, m, k)
    \/ \E m \in Memories :
          \/ FindByUpsertKey(c, m)
          \/ Archive(c, m) \/ Unarchive(c, m)
          \/ Forget(c, m) \/ Undo(c, m)
    \/ \E k \in Contents : UpsertFound(c, k)
    \/ Rewrite(c)

Save(c) == Reread(c) \/ Commit(c) \/ Conflict(c)

StoreNext ==
    \/ \E c \in Clients : Request(c) \/ Save(c)
    \/ RetireProject
    \/ UndoWindowElapses

StoreSpec == StoreInit /\ [][StoreNext]_<<storeVars, outboxVars>>

--------------------------------------------------------------------------------
Payloads == [memory : Memories, state : States]

\* Every table column and every client register has its type.
StoreTypeOK ==
    /\ OutboxTypeOK
    /\ store \in [Memories -> States \cup {NoMemory}]
    /\ payload \in [Events -> Payloads \cup {NoPayload}]
    /\ version \in [Memories -> Nat]
    /\ clock \in Nat /\ horizon \in 0..clock
    /\ pc \in [Clients -> {"idle", "found", "reread", "commit", "resave", "recommit"}]
    /\ op \in [Clients -> AllOperations \cup {"none"}]
    /\ target \in [Clients -> Memories \cup {"none"}]
    /\ \A c \in Clients : /\ DOMAIN draft[c] \subseteq Memories
                          /\ \A m \in DOMAIN draft[c] : draft[c][m] \in States
                          /\ DOMAIN base[c] \subseteq Memories
                          /\ \A m \in DOMAIN base[c] : base[c][m] \in Contents
    /\ seen \in [Clients -> [Memories -> Nat]]

\* Whatever state a memory is in, some outbox row carries exactly that state,
\* so that the outbox can rebuild the authority (_append_memory_event).
CurrentStateRecorded ==
    \A m \in Existing : \E e \in Events :
        status[e] # "pruned" /\ payload[e] = [memory |-> m, state |-> store[m]]

\* The step of client c that replaces memory m.
Replaces(c, m) ==
    /\ pc[c] \in {"commit", "recommit"} /\ pc'[c] # pc[c]
    /\ m \in DOMAIN draft[c]
    /\ store'[m] = draft[c][m] /\ version'[m] = version[m] + 1

\* A tombstone, an undo or a project retirement never brings back an older
\* content: a snapshot whose revision was replaced conflicts instead
\* (MemoryLifecycleService, expected_revision_id).
LifecycleStepKeepsContent ==
    [][\A m \in Existing :
          (\A c \in Clients : Replaces(c, m) => op[c] \in {"forget", "undo"})
          => store'[m].content = store[m].content]_<<storeVars, outboxVars>>

\* Saving a record never revives a tombstone that its writer has seen: the
\* tombstone survives the way through the record (Memory.to_record).
SeenTombstonesSurviveSaves ==
    [][\A m \in Existing, c \in Clients :
          /\ Replaces(c, m) /\ op[c] # "undo"
          /\ store[m].lifecycle = "tombstoned" /\ seen[c][m] = version[m]
          => store'[m].lifecycle = "tombstoned"]_<<storeVars, outboxVars>>

AppendsEvent(m) ==
    \E e \in Events : /\ status[e] = "absent" /\ status'[e] = "pending"
                      /\ payload'[e] = [memory |-> m, state |-> store'[m]]

\* A save of a newly drafted state, and a project retirement, always queue an
\* event that carries the new state.  (The second save of an upsert and a
\* rewrite of old records do not: see ChangeQueuesEvent.)
NewStateQueuesEvent ==
    [][\A m \in Memories :
          /\ store'[m] # store[m]
          /\ \A c \in Clients : Replaces(c, m) => pc[c] = "commit" /\ op[c] # "rewrite"
          => AppendsEvent(m)]_<<storeVars, outboxVars>>

\* Every changed memory creates an outbox event (docs/troubleshooting.md).
ChangeQueuesEvent ==
    [][\A m \in Memories : store'[m] # store[m] => AppendsEvent(m)]_<<storeVars, outboxVars>>

\* Undoing a forget leaves no tombstone label in the metadata, from which the
\* next update would derive the tombstone again
\* (tests/unit/test_forget_lifecycle.py).
UndoneIsUnlabelled ==
    \A m \in Existing : store[m].lifecycle # "tombstoned" => ~store[m].label
================================================================================
