------------------------------ MODULE Projection ------------------------------
(***************************************************************************)
(* The projection worker: QdrantProjector.run_once over the memory store   *)
(* and its outbox, with the vector collections it writes.                  *)
(*                                                                         *)
(* For each event of its batch a worker re-reads the memory (the event's   *)
(* payload may be old), skips the write when all points already match,     *)
(* and otherwise brings the memory's collections in line one after the     *)
(* other, each with a read of the point and a write.  None of this is in   *)
(* a transaction.  A call to Qdrant that times out may have been applied:  *)
(* a verdict other than the acknowledgement may follow any of these steps. *)
(***************************************************************************)
EXTENDS MemoryStore

CONSTANT GlobalContents        \* contents routed to the global collection as well

ASSUME ProjectionAssumption == GlobalContents \subseteq Contents

Collections == {"local", "global"}

\* route_vector_targets: the routing is a function of the memory itself.
Targets(s) == IF s.content \in GlobalContents THEN Collections ELSE {"local"}

NoPoint == [kind |-> "none"]

VARIABLES
    point,         \* Qdrant: the point of a memory in a collection
    reached,       \* history: the version last written to or deleted from it
    phase,         \* where a worker is with the head of its batch
    view,          \* the memory it has read from the authority
    viewVersion,   \* history: the version of that memory
    todo,          \* collections it has yet to bring in line
    metadataOnly   \* it found the same vector, and will only set the payload

indexVars == <<point, reached>>
viewVars  == <<phase, view, viewVersion, todo, metadataOnly>>
projectionVars == <<indexVars, viewVars>>
allVars == <<projectionVars, storeVars, outboxVars>>

ProjectionInit ==
    /\ StoreInit
    /\ point = [c \in Collections |-> [m \in Memories |-> NoPoint]]
    /\ reached = [c \in Collections |-> [m \in Memories |-> 0]]
    /\ phase = [w \in Workers |-> "start"]
    /\ view = [w \in Workers |-> NoPayload]
    /\ viewVersion = [w \in Workers |-> 0]
    /\ todo = [w \in Workers |-> {}]
    /\ metadataOnly = [w \in Workers |-> FALSE]

--------------------------------------------------------------------------------
\* Planted bug: a point is written without its vector.
PointWithoutVector(s) == [kind |-> "point", state |-> s, vector |-> "none"]

\* A point carries the memory as its payload, and a vector of some content.
PointOf(s) == [kind |-> "point", state |-> s, vector |-> s.content]

\* projection_matches, for one collection: the payload is compared, not the vector.
PayloadMatches(c, m, s) ==
    IF s.lifecycle = "tombstoned" THEN point[c][m] = NoPoint
    ELSE point[c][m] # NoPoint /\ point[c][m].state = s

InLine(m, s) == \A c \in Targets(s) : PayloadMatches(c, m, s)

AtPhase(w, p) == mode[w] = "projecting" /\ phase[w] = p

\* The local collection comes first.
NextCollection(w) == IF "local" \in todo[w] THEN "local" ELSE "global"

DropView(w) ==
    /\ phase' = [phase EXCEPT ![w] = "start"]
    /\ view' = [view EXCEPT ![w] = NoPayload]
    /\ viewVersion' = [viewVersion EXCEPT ![w] = 0]
    /\ todo' = [todo EXCEPT ![w] = {}]
    /\ metadataOnly' = [metadataOnly EXCEPT ![w] = FALSE]

\* Planted bug: the snapshot in the event is projected, not the authority.
VersionOf(e) == Cardinality({f \in Events : f <= e /\ payload[f].memory = payload[e].memory})
ReadEventPayload(w, e) ==
    /\ AtPhase(w, "start") /\ IsHead(w, e)
    /\ view' = [view EXCEPT ![w] = payload[e]]
    /\ viewVersion' = [viewVersion EXCEPT ![w] = VersionOf(e)]
    /\ phase' = [phase EXCEPT ![w] = "check"]
    /\ UNCHANGED <<todo, metadataOnly, indexVars, storeVars, outboxVars>>

ReadAuthority(w, e) ==
    LET m == payload[e].memory
    IN  /\ AtPhase(w, "start") /\ IsHead(w, e)
        /\ view' = [view EXCEPT ![w] = [memory |-> m, state |-> store[m]]]
        /\ viewVersion' = [viewVersion EXCEPT ![w] = version[m]]
        /\ phase' = [phase EXCEPT ![w] = "check"]
        /\ UNCHANGED <<todo, metadataOnly, indexVars, storeVars, outboxVars>>

\* Planted bug: a memory is taken to be projected when its local point matches.
CheckLocalOnly(w) ==
    LET v == view[w]
        current == PayloadMatches("local", v.memory, v.state)
    IN  /\ AtPhase(w, "check")
        /\ phase' = [phase EXCEPT ![w] = IF current THEN "settle" ELSE "probe"]
        /\ todo' = [todo EXCEPT ![w] = IF current THEN {} ELSE Targets(v.state)]
        /\ UNCHANGED <<view, viewVersion, metadataOnly, indexVars, storeVars, outboxVars>>

\* A collection that does not answer counts as one that does not match.
CheckProjection(w) ==
    LET v == view[w]
    IN  /\ AtPhase(w, "check")
        /\ \E answered \in BOOLEAN :
              LET current == answered /\ InLine(v.memory, v.state)
              IN  /\ phase' = [phase EXCEPT ![w] = IF current THEN "settle" ELSE "probe"]
                  /\ todo' = [todo EXCEPT ![w] = IF current THEN {} ELSE Targets(v.state)]
        /\ UNCHANGED <<view, viewVersion, metadataOnly, indexVars, storeVars, outboxVars>>

\* Planted bug: any existing point keeps its vector.
ProbeAnyPoint(w) ==
    /\ AtPhase(w, "probe") /\ view[w].state.lifecycle # "tombstoned"
    /\ metadataOnly' = [metadataOnly EXCEPT ![w] =
          point[NextCollection(w)][view[w].memory] # NoPoint]
    /\ phase' = [phase EXCEPT ![w] = "write"]
    /\ UNCHANGED <<view, viewVersion, todo, indexVars, storeVars, outboxVars>>

\* Before it writes a point the projector looks whether its vector can stay; a
\* point that could not be read is written in full.
ProbePoint(w) ==
    LET v == view[w]
        p == point[NextCollection(w)][v.memory]
    IN  /\ AtPhase(w, "probe") /\ v.state.lifecycle # "tombstoned"
        /\ \E answered \in BOOLEAN : metadataOnly' = [metadataOnly EXCEPT ![w] =
              /\ answered /\ p # NoPoint
              /\ p.state.content = v.state.content
              /\ p.state.lifecycle = v.state.lifecycle]
        /\ phase' = [phase EXCEPT ![w] = "write"]
        /\ UNCHANGED <<view, viewVersion, todo, indexVars, storeVars, outboxVars>>

\* A collection is done; after the last one the event can be acknowledged.
Advance(w, c) ==
    /\ todo' = [todo EXCEPT ![w] = @ \ {c}]
    /\ phase' = [phase EXCEPT ![w] = IF todo[w] = {c} THEN "settle" ELSE "probe"]
    /\ reached' = [reached EXCEPT ![c][view[w].memory] = viewVersion[w]]
    /\ UNCHANGED <<view, viewVersion, storeVars, outboxVars>>

\* set_payload changes nothing but the payload of an existing point; upsert
\* replaces payload and vector.
WritePoint(w) ==
    LET c == NextCollection(w)
        v == view[w]
        p == point[c][v.memory]
        written == IF ~metadataOnly[w] THEN PointOf(v.state)
                   ELSE IF p = NoPoint THEN NoPoint
                   ELSE [p EXCEPT !.state = v.state]
    IN  /\ AtPhase(w, "write")
        /\ point' = [point EXCEPT ![c][v.memory] = written]
        /\ metadataOnly' = [metadataOnly EXCEPT ![w] = FALSE]
        /\ Advance(w, c)

DeletePoint(w) ==
    LET c == NextCollection(w)
    IN  /\ AtPhase(w, "probe") /\ view[w].state.lifecycle = "tombstoned"
        /\ point' = [point EXCEPT ![c][view[w].memory] = NoPoint]
        /\ Advance(w, c)
        /\ UNCHANGED metadataOnly

--------------------------------------------------------------------------------
Claim(w) == ClaimOutbox(w) /\ UNCHANGED <<projectionVars, storeVars>>

Acknowledge(w, e) ==
    /\ phase[w] = "settle" /\ AckOutbox(w, e)
    /\ DropView(w)
    /\ UNCHANGED <<indexVars, storeVars>>

\* The other ways out of an event: it failed, it is given back, its lease is gone.
GiveUp(w, e) ==
    /\ FailOutbox(w, e) \/ DeferOutbox(w, e) \/ VerdictRaises(w, e)
    /\ DropView(w)
    /\ UNCHANGED <<indexVars, storeVars>>

Outage(w) == StartDeferral(w) /\ DropView(w) /\ UNCHANGED <<indexVars, storeVars>>

Crash(w) == CrashWorker(w) /\ DropView(w) /\ UNCHANGED <<indexVars, storeVars>>

\* Retention keeps a completed event of each memory.
Prune(e) ==
    /\ \E f \in Events \ {e} : status[f] = "completed" /\ payload[f].memory = payload[e].memory
    /\ PruneCompleted(e)
    /\ UNCHANGED <<projectionVars, storeVars>>

Requeue(S) == RequeueDeadLetters(S) /\ UNCHANGED <<projectionVars, storeVars>>

TimePasses == Clock /\ UNCHANGED <<projectionVars, storeVars>>

Handle(w) ==
    \/ \E e \in Events : ReadAuthority(w, e) \/ Acknowledge(w, e) \/ GiveUp(w, e)
    \/ CheckProjection(w) \/ ProbePoint(w) \/ WritePoint(w) \/ DeletePoint(w)

ProjectionNext ==
    \/ StoreNext /\ UNCHANGED projectionVars
    \/ \E w \in Workers : Claim(w) \/ Handle(w) \/ Outage(w) \/ Crash(w)
    \/ TimePasses
    \/ \E e \in Events : Prune(e)
    \/ \E S \in SUBSET Events : Requeue(S)

ProjectionFairness ==
    /\ \A w \in Workers : WF_allVars(Claim(w)) /\ WF_allVars(Handle(w))
    /\ WF_allVars(TimePasses /\ UNCHANGED faults)

ProjectionSpec == ProjectionInit /\ [][ProjectionNext]_allVars /\ ProjectionFairness

--------------------------------------------------------------------------------
Points == [kind : {"point"}, state : States, vector : Contents]

\* Every projection variable has its type.
ProjectionTypeOK ==
    /\ StoreTypeOK
    /\ point \in [Collections -> [Memories -> Points \cup {NoPoint}]]
    /\ reached \in [Collections -> [Memories -> Nat]]
    /\ phase \in [Workers -> {"start", "check", "probe", "write", "settle"}]
    /\ view \in [Workers -> Payloads \cup {NoPayload}]
    /\ viewVersion \in [Workers -> Nat]
    /\ todo \in [Workers -> SUBSET Collections]
    /\ metadataOnly \in [Workers -> BOOLEAN]

\* Once an event that carries the current state of a memory is acknowledged,
\* every collection the memory belongs to is in line with it, whatever older
\* events are still to be retried (QdrantProjector.run_once).
AcknowledgedIsProjected ==
    \A m \in Existing, e \in Events :
        /\ status[e] \in {"completed", "pruned"}
        /\ payload[e] = [memory |-> m, state |-> store[m]]
        => InLine(m, store[m])

\* A point's vector always embeds the content of its payload, although most
\* writes leave the vector alone (project_memory, metadata_only).
VectorEmbedsPayload ==
    \A c \in Collections, m \in Memories :
        point[c][m] # NoPoint => point[c][m].vector = point[c][m].state.content

\* An old snapshot never regresses the projection: what is written to a
\* collection is never older than what was written there before.
ProjectionNeverRegresses ==
    [][\A c \in Collections, m \in Memories : reached'[c][m] >= reached[c][m]]_allVars

\* When the writers rest, the projection catches up with the authority, unless
\* an event of the memory has been given up as a dead letter.
ProjectionCatchesUp ==
    \A m \in Memories :
        <>[](\/ m \notin Existing
             \/ InLine(m, store[m])
             \/ \E e \in Events : status[e] = "dead_letter" /\ payload[e].memory = m)

\* A tombstone event deletes the previous projection
\* (tests/unit/test_qdrant_projector.py): once it is acknowledged the memory
\* has no point left anywhere.
ForgottenHasNoPoint ==
    \A m \in Existing, e \in Events :
        /\ store[m].lifecycle = "tombstoned"
        /\ status[e] \in {"completed", "pruned"}
        /\ payload[e] = [memory |-> m, state |-> store[m]]
        => \A c \in Collections : point[c][m] = NoPoint
================================================================================
