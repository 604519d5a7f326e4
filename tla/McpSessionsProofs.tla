-------------------------- MODULE McpSessionsProofs --------------------------
(***************************************************************************)
(* What holds of the admission of MCP sessions for any number of tickets   *)
(* and any limit on the sessions.                                          *)
(*                                                                         *)
(* Every method of the registry is a function from a record to a record,   *)
(* so the invariant is first shown of the methods, one lemma for each, and *)
(* then of the steps of the handlers that call them.                       *)
(***************************************************************************)
EXTENDS McpSessions, FiniteSetTheorems, SequenceTheorems, TLAPS

SlotValues == {"absent", "held", "lost"}

TicketValues == {"none", "queued", "admitted", "committed", "cancelled"}

\* The fields of a registry, with no promise yet that its counter is natural.
RegType(r) ==
    r \in [slot     : [Tickets -> SlotValues],
           ticket   : [Tickets -> TicketValues],
           queue    : Seq(Tickets),
           reserved : Int]

Within(r) == Active(r) <= MaxSessions

NoneWaits(r) == r.queue # <<>> => Active(r) = MaxSessions

\* The counter is exact, and the queue is the waiting tickets in order.
AdmittedIn(r) == {t \in Tickets : r.ticket[t] = "admitted"}

InOrder(q) == \A i, j \in DOMAIN q : i < j => q[i] < q[j]

Queued(q) == {q[i] : i \in DOMAIN q}

Exact(r) ==
    /\ r.reserved = Cardinality(AdmittedIn(r))
    /\ InOrder(r.queue)
    /\ Queued(r.queue) = {t \in Tickets : r.ticket[t] = "queued"}

\* What every method needs of a registry, and what it leaves.
Sound(r) == RegType(r) /\ Within(r) /\ Exact(r)

Settled(r) == Sound(r) /\ NoneWaits(r)

\* From r to w tickets only move from the queue to admission, first come first
\* served.
Evolves(r, w) ==
    /\ \A t \in Tickets : \/ w.ticket[t] = r.ticket[t]
                          \/ r.ticket[t] = "queued" /\ w.ticket[t] = "admitted"
    /\ \A t, u \in Tickets :
            t < u /\ r.ticket[u] = "queued" /\ w.ticket[u] = "admitted"
                => w.ticket[t] # "queued"

--------------------------------------------------------------------------------
\* The slots and the reservations of a registry are countable.
LEMMA Countable ==
    ASSUME NEW r, RegType(r)
    PROVE  /\ IsFiniteSet(HeldIn(r)) /\ Cardinality(HeldIn(r)) \in Nat
           /\ IsFiniteSet(AdmittedIn(r)) /\ Cardinality(AdmittedIn(r)) \in Nat
           /\ Active(r) \in Int
<1>1. IsFiniteSet(Tickets)
  BY McpAssumption
<1>2. IsFiniteSet(HeldIn(r)) /\ IsFiniteSet(AdmittedIn(r))
  BY <1>1, FS_Subset DEF HeldIn, AdmittedIn
<1>3. Cardinality(HeldIn(r)) \in Nat /\ Cardinality(AdmittedIn(r)) \in Nat
  BY <1>2, FS_CardinalityType
<1> QED
  BY <1>2, <1>3 DEF Active, RegType

\* A method that writes fields of the right types leaves a typed registry.
LEMMA FieldsType ==
    ASSUME NEW r, RegType(r), NEW tickets \in [Tickets -> TicketValues],
           NEW q \in Seq(Tickets), NEW n \in Int
    PROVE  RegType([r EXCEPT !.ticket = tickets, !.queue = q, !.reserved = n])
BY DEF RegType

\* The number of waiters that are admitted is bounded by the queue and by the
\* free slots, and uses up one of the two.
LEMMA AdmitsBounds ==
    ASSUME NEW r, RegType(r), Within(r)
    PROVE  /\ Admits(r) \in 0 .. Len(r.queue)
           /\ Active(r) + Admits(r) <= MaxSessions
           /\ Admits(r) = Len(r.queue) \/ Active(r) + Admits(r) = MaxSessions
BY Countable, McpAssumption DEF Admits, Full, Within, RegType

\* The first k members of a queue in order are k tickets.
LEMMA PrefixSize ==
    ASSUME NEW q \in Seq(Tickets), InOrder(q), NEW k \in 0 .. Len(q)
    PROVE  /\ IsFiniteSet({q[i] : i \in 1 .. k})
           /\ Cardinality({q[i] : i \in 1 .. k}) = k
<1> DEFINE S == {q[i] : i \in 1 .. k}
           f == [i \in 1 .. k |-> q[i]]
<1>1. /\ DOMAIN q = 1 .. Len(q) /\ Len(q) \in Nat
      /\ \A i \in 1 .. k : i \in DOMAIN q /\ q[i] \in Nat
  <2>1. DOMAIN q = 1 .. Len(q) /\ Len(q) \in Nat
    BY LenProperties
  <2>2. \A i \in 1 .. k : i \in 1 .. Len(q)
    BY <2>1
  <2>3. \A i \in 1 .. Len(q) : q[i] \in Nat
    BY ElementOfSeq, McpAssumption
  <2> QED
    BY <2>1, <2>2, <2>3
<1>2. \A i, j \in 1 .. k : q[i] = q[j] => i = j
  <2> SUFFICES ASSUME NEW i \in 1 .. k, NEW j \in 1 .. k, i < j
               PROVE  q[i] # q[j]
    OBVIOUS
  <2> QED
    BY <1>1 DEF InOrder
<1>3. f \in Bijection(1 .. k, S)
  BY <1>2 DEF Bijection, Injection, Surjection, IsInjective
<1>4. ExistsBijection(1 .. k, S)
  BY <1>3 DEF ExistsBijection
<1>5. IsFiniteSet(1 .. k) /\ Cardinality(1 .. k) = k
  BY FS_Interval
<1> QED
  BY <1>4, <1>5, FS_Bijection

\* The rest of a queue after its first k members.
LEMMA Suffix ==
    ASSUME NEW q \in Seq(Tickets), NEW k \in 0 .. Len(q)
    PROVE  /\ SubSeq(q, k + 1, Len(q)) \in Seq(Tickets)
           /\ Len(SubSeq(q, k + 1, Len(q))) = Len(q) - k
           /\ DOMAIN SubSeq(q, k + 1, Len(q)) = 1 .. Len(q) - k
           /\ \A i \in 1 .. Len(q) - k : SubSeq(q, k + 1, Len(q))[i] = q[k + i]
<1> DEFINE rest == SubSeq(q, k + 1, Len(q))
<1>1. Len(q) \in Nat /\ DOMAIN q = 1 .. Len(q) /\ k \in Nat /\ k <= Len(q)
  BY LenProperties
<1>2. \A i \in k + 1 .. Len(q) : i \in 1 .. Len(q)
  BY <1>1
<1>3. \A i \in k + 1 .. Len(q) : q[i] \in Tickets
  BY <1>2, ElementOfSeq
<1>4. /\ rest \in Seq(Tickets)
      /\ Len(rest) = IF k + 1 <= Len(q) THEN Len(q) - (k + 1) + 1 ELSE 0
      /\ \A i \in 1 .. Len(q) - (k + 1) + 1 : rest[i] = q[k + 1 + i - 1]
  BY <1>1, <1>3, SubSeqProperties
<1>5. DOMAIN rest = 1 .. Len(rest)
  BY <1>4, LenProperties
<1> HIDE DEF rest
<1>6. Len(rest) = Len(q) - k /\ Len(q) - (k + 1) + 1 = Len(q) - k
  <2> DEFINE n == Len(q)
  <2>1. n \in Nat /\ k \in Nat /\ k <= n /\ Len(rest) = IF k + 1 <= n THEN n - (k + 1) + 1 ELSE 0
    BY <1>1, <1>4
  <2> HIDE DEF n
  <2>2. Len(rest) = n - k /\ n - (k + 1) + 1 = n - k
    BY <2>1
  <2> QED
    BY <2>2 DEF n
<1>7. \A i \in 1 .. Len(q) - k : k + 1 + i - 1 = k + i
  BY <1>1
<1>8. \A i \in 1 .. Len(q) - k : rest[i] = q[k + i]
  BY <1>4, <1>6, <1>7
<1> QED
  BY <1>4, <1>5, <1>6, <1>8 DEF rest

\* It is in order too, and holds the members that are not among the first k.
LEMMA SuffixMembers ==
    ASSUME NEW q \in Seq(Tickets), InOrder(q), NEW k \in 0 .. Len(q)
    PROVE  /\ InOrder(SubSeq(q, k + 1, Len(q)))
           /\ Queued(SubSeq(q, k + 1, Len(q))) = Queued(q) \ {q[i] : i \in 1 .. k}
<1> DEFINE rest == SubSeq(q, k + 1, Len(q))
           n    == Len(q) - k
<1>1. /\ DOMAIN q = 1 .. Len(q) /\ Len(q) \in Nat /\ k \in Nat /\ k <= Len(q)
      /\ n \in Nat
  BY LenProperties
<1>2. DOMAIN rest = 1 .. n /\ \A i \in 1 .. n : rest[i] = q[k + i]
  BY Suffix
<1>3. \A i \in 1 .. Len(q) : q[i] \in Nat
  BY ElementOfSeq, McpAssumption
<1> HIDE DEF rest
<1>4. InOrder(rest)
  <2> SUFFICES ASSUME NEW i \in 1 .. n, NEW j \in 1 .. n, i < j
               PROVE  rest[i] < rest[j]
    BY <1>2 DEF InOrder
  <2>1. k + i \in 1 .. Len(q) /\ k + j \in 1 .. Len(q) /\ k + i < k + j
    BY <1>1
  <2>2. q[k + i] < q[k + j]
    BY <1>1, <2>1 DEF InOrder
  <2> QED
    BY <1>2, <2>2
<1>5. ASSUME NEW t \in Queued(rest) PROVE t \in Queued(q) \ {q[i] : i \in 1 .. k}
  <2>1. PICK i \in 1 .. n : t = q[k + i]
    BY <1>2 DEF Queued
  <2>2. k + i \in DOMAIN q
    BY <1>1
  <2>3. ASSUME NEW j \in 1 .. k PROVE q[j] # q[k + i]
    <3>1. j \in DOMAIN q /\ j < k + i
      BY <1>1
    <3>2. q[j] < q[k + i]
      BY <2>2, <3>1 DEF InOrder
    <3>3. q[j] \in Nat /\ q[k + i] \in Nat
      BY <1>1, <1>3, <2>2, <3>1
    <3> QED
      BY <3>2, <3>3
  <2> QED
    BY <2>1, <2>2, <2>3 DEF Queued
<1>6. ASSUME NEW t \in Queued(q) \ {q[i] : i \in 1 .. k} PROVE t \in Queued(rest)
  <2>1. PICK i \in 1 .. Len(q) : t = q[i]
    BY <1>1 DEF Queued
  <2>2. i \notin 1 .. k
    BY <2>1
  <2>3. i - k \in 1 .. n /\ k + (i - k) = i
    BY <1>1, <2>2
  <2>4. rest[i - k] = t
    BY <1>2, <2>1, <2>3
  <2> QED
    BY <1>2, <2>3, <2>4 DEF Queued
<1> QED
  BY <1>4, <1>5, <1>6 DEF rest

\* _wake_next_locked leaves a settled registry: it takes a prefix of the queue,
\* gives each of its tickets a reservation and touches no slot.
LEMMA WakeSettles ==
    ASSUME NEW r, Sound(r)
    PROVE  /\ Settled(Wake(r))
           /\ Wake(r).slot = r.slot
           /\ Evolves(r, Wake(r))
<1> DEFINE q     == r.queue
           k     == Admits(r)
           woken == {q[i] : i \in 1 .. k}
           rest  == SubSeq(q, k + 1, Len(q))
           w     == Wake(r)
<1>1. RegType(r) /\ Within(r) /\ Exact(r)
  BY DEF Sound
<1>2. /\ q \in Seq(Tickets) /\ Len(q) \in Nat /\ DOMAIN q = 1 .. Len(q)
      /\ \A i \in DOMAIN q : q[i] \in Tickets /\ q[i] \in Nat
      /\ k \in 0 .. Len(q)
  <2>1. q \in Seq(Tickets)
    BY <1>1 DEF RegType
  <2>2. Len(q) \in Nat /\ DOMAIN q = 1 .. Len(q)
    BY <2>1, LenProperties
  <2>3. \A i \in DOMAIN q : q[i] \in Tickets
    BY <2>1, <2>2, ElementOfSeq
  <2>4. k \in 0 .. Len(q)
    BY <1>1, AdmitsBounds
  <2> QED
    BY <2>1, <2>2, <2>3, <2>4, McpAssumption
<1>3. /\ w.slot = r.slot
      /\ w.ticket = [t \in Tickets |-> IF t \in woken THEN "admitted" ELSE r.ticket[t]]
      /\ w.queue = rest
      /\ w.reserved = r.reserved + k
  BY <1>1 DEF Wake, RegType
<1>4. rest \in Seq(Tickets) /\ Len(rest) = Len(q) - k
  BY <1>2, Suffix
<1>5. \A t \in woken : r.ticket[t] = "queued" /\ t \in Tickets
  BY <1>1, <1>2 DEF Exact, Queued
<1>6. RegType(w)
  <2> DEFINE tickets == w.ticket
             n       == r.reserved + k
  <2>1. tickets \in [Tickets -> TicketValues]
    BY <1>1, <1>3 DEF RegType, TicketValues
  <2>2. n \in Int
    BY <1>1, <1>2 DEF RegType
  <2>3. w = [r EXCEPT !.ticket = tickets, !.queue = rest, !.reserved = n]
    BY <1>1, <1>3 DEF Wake
  <2> HIDE DEF w, rest, tickets, n
  <2>4. RegType([r EXCEPT !.ticket = tickets, !.queue = rest, !.reserved = n])
    BY <1>1, <1>4, <2>1, <2>2, FieldsType
  <2> QED
    BY <2>3, <2>4
<1>7. HeldIn(w) = HeldIn(r)
  BY <1>3 DEF HeldIn
<1>8. Active(w) = Active(r) + k
  BY <1>1, <1>2, <1>3, <1>7, Countable DEF Active, RegType
<1>9. Within(w) /\ NoneWaits(w)
  <2>1. Active(r) + k <= MaxSessions /\ (k = Len(q) \/ Active(r) + k = MaxSessions)
    BY <1>1, AdmitsBounds
  <2>2. k = Len(q) => rest = <<>>
    BY <1>4, EmptySeq
  <2> HIDE DEF w, rest, k
  <2> QED
    BY <2>1, <2>2, <1>3, <1>8 DEF Within, NoneWaits
<1>10. InOrder(w.queue) /\ Queued(w.queue) = Queued(q) \ woken
  BY <1>1, <1>2, <1>3, SuffixMembers DEF Exact
<1>11. Queued(w.queue) = {t \in Tickets : w.ticket[t] = "queued"}
  BY <1>1, <1>3, <1>10 DEF Exact
<1>12. w.reserved = Cardinality(AdmittedIn(w))
  <2>1. AdmittedIn(w) = AdmittedIn(r) \cup woken
    BY <1>3, <1>5 DEF AdmittedIn
  <2>2. AdmittedIn(r) \cap woken = {}
    BY <1>5 DEF AdmittedIn
  <2>3. IsFiniteSet(woken) /\ Cardinality(woken) = k
    BY <1>1, <1>2, PrefixSize DEF Exact
  <2>4. Cardinality(AdmittedIn(w)) = Cardinality(AdmittedIn(r)) + k
    <3>1. IsFiniteSet(AdmittedIn(r)) /\ Cardinality(AdmittedIn(r)) \in Nat
      BY <1>1, Countable
    <3>2. Cardinality(AdmittedIn(r) \cup woken)
            = Cardinality(AdmittedIn(r)) + Cardinality(woken)
                - Cardinality(AdmittedIn(r) \cap woken)
      BY <2>3, <3>1, FS_Union
    <3>3. Cardinality(AdmittedIn(r) \cap woken) = 0
      BY <2>2, FS_EmptySet
    <3> HIDE DEF woken
    <3> QED
      BY <2>1, <2>3, <3>1, <3>2, <3>3, <1>2
  <2> QED
    BY <1>1, <1>3, <2>4 DEF Exact
<1>13. \A t, u \in Tickets :
          t < u /\ r.ticket[u] = "queued" /\ w.ticket[u] = "admitted"
              => w.ticket[t] # "queued"
  <2> SUFFICES ASSUME NEW t \in Tickets, NEW u \in Tickets, t < u,
                      r.ticket[u] = "queued", w.ticket[u] = "admitted",
                      w.ticket[t] = "queued"
               PROVE  FALSE
    OBVIOUS
  <2>1. u \in woken /\ t \notin woken /\ r.ticket[t] = "queued"
    BY <1>3
  <2>2. t \in Queued(q)
    BY <1>1, <2>1 DEF Exact
  <2>3. PICK i \in 1 .. k : q[i] = u
    BY <2>1
  <2>4. PICK j \in DOMAIN q : q[j] = t
    BY <2>2 DEF Queued
  <2>5. j > k
    BY <2>1, <2>4, <1>2
  <2>6. i \in DOMAIN q /\ i < j
    BY <2>3, <2>4, <2>5, <1>2
  <2>7. q[i] < q[j]
    BY <1>1, <2>4, <2>6 DEF Exact, InOrder
  <2> QED
    BY <2>3, <2>4, <2>7, McpAssumption
<1>14. \A t \in Tickets :
          \/ w.ticket[t] = r.ticket[t]
          \/ r.ticket[t] = "queued" /\ w.ticket[t] = "admitted"
  BY <1>3, <1>5
<1> HIDE DEF w, q
<1>15. Evolves(r, w)
  BY <1>13, <1>14 DEF Evolves
<1>16. Settled(w)
  BY <1>6, <1>9, <1>10, <1>11, <1>12 DEF Settled, Sound, Exact
<1> QED
  BY <1>3, <1>15, <1>16 DEF w

\* Sessions that give their slots up leave a sound registry.
LEMMA SlotsShrink ==
    ASSUME NEW r, Sound(r), NEW slots \in [Tickets -> SlotValues],
           \A s \in Tickets : slots[s] = "held" => r.slot[s] = "held"
    PROVE  Sound([r EXCEPT !.slot = slots])
<1> DEFINE w == [r EXCEPT !.slot = slots]
<1>1. RegType(r) /\ Within(r) /\ Exact(r)
  BY DEF Sound
<1>2. RegType(w)
  BY <1>1 DEF RegType
<1>3. w.slot = slots /\ w.ticket = r.ticket /\ w.queue = r.queue /\ w.reserved = r.reserved
  BY <1>1 DEF RegType
<1> HIDE DEF w
<1>4. HeldIn(w) \subseteq HeldIn(r)
  BY <1>3 DEF HeldIn
<1>5. Cardinality(HeldIn(w)) <= Cardinality(HeldIn(r))
  BY <1>1, <1>4, Countable, FS_Subset
<1>6. Active(w) <= Active(r)
  BY <1>1, <1>2, <1>3, <1>5, Countable DEF Active, RegType
<1>7. Within(w)
  <2>1. Active(w) \in Int /\ Active(r) \in Int /\ MaxSessions \in Int
    BY <1>1, <1>2, Countable, McpAssumption
  <2>2. Active(r) <= MaxSessions
    BY <1>1 DEF Within
  <2>3. Active(w) <= MaxSessions
    BY <1>6, <2>1, <2>2
  <2> QED
    BY <2>3 DEF Within
<1>8. Exact(w)
  <2>1. AdmittedIn(w) = AdmittedIn(r)
    BY <1>3 DEF AdmittedIn
  <2> QED
    BY <1>1, <1>3, <2>1 DEF Exact
<1> QED
  BY <1>2, <1>7, <1>8 DEF Sound, w

\* Removing entries keeps the registry sound.
LEMMA DropSound ==
    ASSUME NEW r, Sound(r), NEW S
    PROVE  /\ Sound(Drop(r, S))
           /\ Drop(r, S).ticket = r.ticket
           /\ Drop(r, S).slot
                = [s \in Tickets |-> IF s \in S THEN "absent" ELSE r.slot[s]]
<1> DEFINE slots == [s \in Tickets |-> IF s \in S THEN "absent" ELSE r.slot[s]]
<1>1. RegType(r)
  BY DEF Sound
<1>2. slots \in [Tickets -> SlotValues]
  BY <1>1 DEF RegType, SlotValues
<1>3. \A s \in Tickets : slots[s] = "held" => r.slot[s] = "held"
  OBVIOUS
<1>4. Drop(r, S) = [r EXCEPT !.slot = slots]
  BY DEF Drop
<1>5. Drop(r, S).ticket = r.ticket /\ Drop(r, S).slot = slots
  BY <1>1, <1>4 DEF RegType
<1> HIDE DEF slots
<1>6. Sound([r EXCEPT !.slot = slots])
  BY <1>2, <1>3, SlotsShrink
<1> QED
  BY <1>4, <1>5, <1>6 DEF slots

\* _purge leaves a settled registry: the free slots go to the first waiters.
LEMMA PurgeSettles ==
    ASSUME Settled(reg)
    PROVE  /\ Settled(Purge(reg))
           /\ Evolves(reg, Purge(reg))
           /\ \A s \in Tickets : \/ Purge(reg).slot[s] = reg.slot[s]
                                 \/ Purge(reg).slot[s] = "absent"
<1>1. CASE expired = {}
  <2>1. Purge(reg) = reg
    BY <1>1 DEF Purge
  <2>3. Evolves(reg, reg)
    <3>1. \A u \in Tickets : ~(reg.ticket[u] = "queued" /\ reg.ticket[u] = "admitted")
      OBVIOUS
    <3> QED
      BY <3>1 DEF Evolves
  <2> QED
    BY <2>1, <2>3
<1>2. CASE expired # {}
  <2> DEFINE d == Drop(reg, expired)
  <2>1. Sound(d) /\ d.ticket = reg.ticket
        /\ d.slot = [s \in Tickets |-> IF s \in expired THEN "absent" ELSE reg.slot[s]]
    BY DropSound DEF Settled
  <2>2. Purge(reg) = Wake(d)
    BY <1>2 DEF Purge
  <2> HIDE DEF d
  <2>3. Settled(Wake(d)) /\ Wake(d).slot = d.slot /\ Evolves(d, Wake(d))
    BY <2>1, WakeSettles
  <2>4. Evolves(reg, Wake(d))
    BY <2>1, <2>3 DEF Evolves
  <2> QED
    BY <2>1, <2>2, <2>3, <2>4
<1> QED
  BY <1>1, <1>2

\* Where a ticket stands in the queue, the members on its two sides remain.
LEMMA Removal ==
    ASSUME NEW q \in Seq(Tickets), NEW i \in DOMAIN q
    PROVE  LET w == SubSeq(q, 1, i - 1) \o SubSeq(q, i + 1, Len(q))
           IN  /\ w \in Seq(Tickets)
               /\ DOMAIN w = 1 .. Len(q) - 1
               /\ \A j \in 1 .. Len(q) - 1 : w[j] = IF j < i THEN q[j] ELSE q[j + 1]
<1> DEFINE a == SubSeq(q, 1, i - 1)
           b == SubSeq(q, i + 1, Len(q))
           w == a \o b
           n == Len(q)
<1>1. n \in Nat /\ DOMAIN q = 1 .. n /\ i \in 1 .. n
  BY LenProperties
<1>2. \A j \in 1 .. i - 1 : j \in 1 .. n
  BY <1>1
<1>3. \A j \in 1 .. i - 1 : q[j] \in Tickets
  BY <1>2, ElementOfSeq
<1>4. 1 \in Int /\ i - 1 \in Int /\ (IF 1 <= i - 1 THEN i - 1 - 1 + 1 ELSE 0) = i - 1
      /\ i - 1 - 1 + 1 = i - 1
  BY <1>1
<1>5. /\ a \in Seq(Tickets)
      /\ Len(a) = IF 1 <= i - 1 THEN i - 1 - 1 + 1 ELSE 0
      /\ \A j \in 1 .. i - 1 - 1 + 1 : a[j] = q[1 + j - 1]
  BY <1>3, <1>4, SubSeqProperties
<1>6. i \in 0 .. Len(q)
  BY <1>1
<1>7. b \in Seq(Tickets) /\ Len(b) = n - i /\ \A j \in 1 .. n - i : b[j] = q[i + j]
  BY <1>6, Suffix
<1> HIDE DEF a, b
<1>8. /\ w \in Seq(Tickets)
      /\ Len(w) = Len(a) + Len(b)
      /\ \A j \in 1 .. Len(a) + Len(b) : w[j] = IF j <= Len(a) THEN a[j] ELSE b[j - Len(a)]
  BY <1>5, <1>7, ConcatProperties
<1>9. DOMAIN w = 1 .. Len(w)
  BY <1>8, LenProperties
<1> HIDE DEF w, n
<1>10. Len(a) = i - 1
  BY <1>4, <1>5
<1>11. Len(a) + Len(b) = n - 1
  BY <1>1, <1>7, <1>10
<1>12. ASSUME NEW j \in 1 .. n - 1
       PROVE  w[j] = IF j < i THEN q[j] ELSE q[j + 1]
  <2>1. w[j] = IF j <= i - 1 THEN a[j] ELSE b[j - (i - 1)]
    BY <1>8, <1>10, <1>11
  <2>2. CASE j < i
    <3>1. j \in 1 .. i - 1 - 1 + 1 /\ 1 + j - 1 = j /\ j <= i - 1
      BY <1>1, <2>2
    <3>2. a[j] = q[j]
      BY <1>5, <3>1
    <3> QED
      BY <2>1, <2>2, <3>1, <3>2
  <2>3. CASE ~(j < i)
    <3>1. j - (i - 1) \in 1 .. n - i /\ i + (j - (i - 1)) = j + 1 /\ ~(j <= i - 1)
      BY <1>1, <2>3
    <3>2. b[j - (i - 1)] = q[j + 1]
      BY <1>7, <3>1
    <3> QED
      BY <2>1, <2>3, <3>1, <3>2
  <2> QED
    BY <2>2, <2>3
<1> QED
  BY <1>8, <1>9, <1>11, <1>12 DEF w, a, b, n

\* deque.remove takes out the one ticket and keeps the others in order.
LEMMA WithoutOne ==
    ASSUME NEW q \in Seq(Tickets), InOrder(q), NEW t
    PROVE  /\ Without(q, t) \in Seq(Tickets)
           /\ InOrder(Without(q, t))
           /\ Queued(Without(q, t)) = Queued(q) \ {t}
<1>1. CASE ~ \E i \in DOMAIN q : q[i] = t
  <2>1. Without(q, t) = q /\ t \notin Queued(q)
    BY <1>1 DEF Without, Queued
  <2> QED
    BY <2>1
<1>2. CASE \E i \in DOMAIN q : q[i] = t
  <2> DEFINE i == CHOOSE i \in DOMAIN q : q[i] = t
             w == SubSeq(q, 1, i - 1) \o SubSeq(q, i + 1, Len(q))
             n == Len(q)
  <2>1. i \in DOMAIN q /\ q[i] = t
    BY <1>2
  <2>2. Without(q, t) = w
    BY <1>2 DEF Without
  <2> HIDE DEF i
  <2>3. /\ w \in Seq(Tickets)
        /\ DOMAIN w = 1 .. n - 1
        /\ \A j \in 1 .. n - 1 : w[j] = IF j < i THEN q[j] ELSE q[j + 1]
    BY <2>1, Removal
  <2>4. n \in Nat /\ DOMAIN q = 1 .. n
    BY LenProperties
  <2>5. \A j \in 1 .. n : q[j] \in Nat
    BY <2>4, ElementOfSeq, McpAssumption
  <2> HIDE DEF w, n
  <2>6. InOrder(w)
    <3> SUFFICES ASSUME NEW j \in 1 .. n - 1, NEW k \in 1 .. n - 1, j < k
                 PROVE  w[j] < w[k]
      BY <2>3 DEF InOrder
    <3> DEFINE j1 == IF j < i THEN j ELSE j + 1
               k1 == IF k < i THEN k ELSE k + 1
    <3>1. j1 \in 1 .. n /\ k1 \in 1 .. n /\ j1 < k1
      BY <2>1, <2>4
    <3>2. q[j1] < q[k1]
      BY <2>4, <3>1 DEF InOrder
    <3> QED
      BY <2>3, <3>2
  <2>7. ASSUME NEW u \in Queued(w) PROVE u \in Queued(q) \ {t}
    <3>1. PICK j \in 1 .. n - 1 : w[j] = u
      BY <2>3 DEF Queued
    <3> DEFINE j1 == IF j < i THEN j ELSE j + 1
    <3>2. j1 \in 1 .. n /\ i \in 1 .. n /\ (j1 < i \/ i < j1) /\ q[j1] = u
      BY <2>1, <2>3, <2>4, <3>1
    <3> HIDE DEF j1
    <3>3. q[j1] < q[i] \/ q[i] < q[j1]
      BY <2>4, <3>2 DEF InOrder
    <3>4. q[j1] # q[i]
      BY <2>5, <3>2, <3>3
    <3> QED
      BY <2>1, <2>4, <3>2, <3>4 DEF Queued
  <2>8. ASSUME NEW u \in Queued(q) \ {t} PROVE u \in Queued(w)
    <3>1. PICK k \in 1 .. n : q[k] = u
      BY <2>4 DEF Queued
    <3> DEFINE j == IF k < i THEN k ELSE k - 1
    <3>2. k # i /\ i \in 1 .. n
      BY <2>1, <2>4, <3>1
    <3>3. j \in 1 .. n - 1 /\ (IF j < i THEN j ELSE j + 1) = k
      BY <2>4, <3>2
    <3> HIDE DEF j
    <3>4. w[j] = u
      BY <2>3, <3>1, <3>3
    <3> QED
      BY <2>3, <3>3, <3>4 DEF Queued
  <2> QED
    BY <2>2, <2>3, <2>6, <2>7, <2>8
<1> QED
  BY <1>1, <1>2

--------------------------------------------------------------------------------
\* Nobody is admitted past a ticket that goes on waiting.
FirstComeFirst(r, w) ==
    \A t, u \in Tickets :
        t < u /\ r.ticket[t] = "queued" /\ r.ticket[u] # "admitted" /\ w.ticket[u] = "admitted"
            => w.ticket[t] # "queued"

\* The tickets other than t stay, or move from the queue to admission.
OthersEvolve(r, w, t) ==
    \A u \in Tickets \ {t} : \/ w.ticket[u] = r.ticket[u]
                             \/ r.ticket[u] = "queued" /\ w.ticket[u] = "admitted"

\* A cancelled ticket leaves no reservation and no place.
LEMMA WithdrawSound ==
    ASSUME NEW r, Sound(r), NEW t \in Tickets, r.ticket[t] \in {"queued", "admitted"}
    PROVE  /\ Sound(Withdraw(r, t))
           /\ Withdraw(r, t).slot = r.slot
           /\ Withdraw(r, t).ticket = [r.ticket EXCEPT ![t] = "cancelled"]
<1> DEFINE c       == Withdraw(r, t)
           tickets == [r.ticket EXCEPT ![t] = "cancelled"]
           q       == Without(r.queue, t)
           n       == r.reserved - (IF r.ticket[t] = "admitted" THEN 1 ELSE 0)
<1>1. RegType(r) /\ Within(r) /\ Exact(r)
  BY DEF Sound
<1>2. /\ q \in Seq(Tickets)
      /\ InOrder(q)
      /\ Queued(q) = Queued(r.queue) \ {t}
  BY <1>1, WithoutOne DEF RegType, Exact
<1>3. tickets \in [Tickets -> TicketValues]
  BY <1>1 DEF RegType, TicketValues
<1>4. n \in Int
  BY <1>1 DEF RegType
<1>5. c = [r EXCEPT !.ticket = tickets, !.queue = q, !.reserved = n]
  BY <1>1 DEF Withdraw, RegType
<1>6. /\ c.slot = r.slot /\ c.ticket = tickets /\ c.queue = q /\ c.reserved = n
  BY <1>1, <1>5 DEF RegType
<1>7. \A u \in Tickets : tickets[u] = IF u = t THEN "cancelled" ELSE r.ticket[u]
  BY <1>1 DEF RegType
<1> HIDE DEF c, tickets, q
<1>8. RegType(c)
  <2> HIDE DEF n
  <2>1. RegType([r EXCEPT !.ticket = tickets, !.queue = q, !.reserved = n])
    BY <1>1, <1>2, <1>3, <1>4, FieldsType
  <2> QED
    BY <1>5, <2>1
<1>9. HeldIn(c) = HeldIn(r)
  BY <1>6 DEF HeldIn
<1>10. Within(c)
  <2>1. Cardinality(HeldIn(r)) \in Nat /\ r.reserved \in Int
    BY <1>1, Countable DEF RegType
  <2>2. n <= r.reserved
    BY <2>1
  <2>3. Active(c) <= Active(r)
    BY <1>4, <1>6, <1>9, <2>1, <2>2 DEF Active
  <2>4. Active(c) \in Int /\ Active(r) \in Int /\ MaxSessions \in Int /\ Active(r) <= MaxSessions
    BY <1>1, <1>8, Countable, McpAssumption DEF Within
  <2>5. Active(c) <= MaxSessions
    BY <2>3, <2>4
  <2> QED
    BY <2>5 DEF Within
<1>11. c.reserved = Cardinality(AdmittedIn(c))
  <2>1. AdmittedIn(c) = AdmittedIn(r) \ {t}
    BY <1>6, <1>7 DEF AdmittedIn
  <2>2. t \in AdmittedIn(r) <=> r.ticket[t] = "admitted"
    BY DEF AdmittedIn
  <2>3. Cardinality(AdmittedIn(r) \ {t})
          = IF t \in AdmittedIn(r) THEN Cardinality(AdmittedIn(r)) - 1
            ELSE Cardinality(AdmittedIn(r))
    BY <1>1, Countable, FS_RemoveElement
  <2>4. r.reserved = Cardinality(AdmittedIn(r)) /\ Cardinality(AdmittedIn(r)) \in Nat
    BY <1>1, Countable DEF Exact
  <2>5. Cardinality(AdmittedIn(c)) = n
    <3>1. CASE r.ticket[t] = "admitted"
      <4>1. t \in AdmittedIn(r) /\ n = r.reserved - 1
        BY <2>2, <3>1
      <4> QED
        BY <2>1, <2>3, <2>4, <4>1
    <3>2. CASE r.ticket[t] # "admitted"
      <4>1. t \notin AdmittedIn(r) /\ n = r.reserved
        BY <2>2, <2>4, <3>2
      <4> QED
        BY <2>1, <2>3, <2>4, <4>1
    <3> QED
      BY <3>1, <3>2
  <2> QED
    BY <1>6, <2>5
<1>12. Queued(c.queue) = {u \in Tickets : c.ticket[u] = "queued"}
  BY <1>1, <1>2, <1>6, <1>7 DEF Exact
<1>13. Exact(c)
  BY <1>2, <1>6, <1>11, <1>12 DEF Exact
<1> QED
  BY <1>6, <1>8, <1>10, <1>13 DEF Sound, tickets, c

\* cancel_initialize_slot: the ticket is out, whatever it was, and what it held
\* goes to the first waiter.
LEMMA CancelSettles ==
    ASSUME NEW r, Settled(r), NEW t \in Tickets
    PROVE  /\ Settled(Cancel(r, t))
           /\ Cancel(r, t).slot = r.slot
           /\ Cancel(r, t).ticket[t] \notin {"queued", "admitted"}
           /\ OthersEvolve(r, Cancel(r, t), t)
           /\ FirstComeFirst(r, Cancel(r, t))
<1>1. CASE r.ticket[t] \notin {"queued", "admitted"}
  <2>1. Cancel(r, t) = r
    BY <1>1 DEF Cancel
  <2> QED
    BY <1>1, <2>1 DEF OthersEvolve, FirstComeFirst
<1>2. CASE r.ticket[t] \in {"queued", "admitted"}
  <2> DEFINE c == Withdraw(r, t)
             w == Wake(c)
  <2>1. Cancel(r, t) = w
    BY <1>2 DEF Cancel
  <2>2. Sound(r)
    BY DEF Settled
  <2>4. /\ Sound(c)
        /\ c.slot = r.slot
        /\ c.ticket = [r.ticket EXCEPT ![t] = "cancelled"]
    BY <1>2, <2>2, WithdrawSound
  <2>5. \A u \in Tickets : c.ticket[u] = IF u = t THEN "cancelled" ELSE r.ticket[u]
    BY <2>2, <2>4 DEF Sound, RegType
  <2> HIDE DEF c
  <2>6. Settled(w) /\ w.slot = c.slot /\ Evolves(c, w)
    BY <2>4, WakeSettles
  <2> HIDE DEF w
  <2>7. OthersEvolve(r, w, t) /\ w.ticket[t] = "cancelled"
    BY <2>5, <2>6 DEF OthersEvolve, Evolves
  <2>8. FirstComeFirst(r, w)
    <3> SUFFICES ASSUME NEW u \in Tickets, NEW v \in Tickets, u < v,
                        r.ticket[u] = "queued", r.ticket[v] # "admitted",
                        w.ticket[v] = "admitted"
                 PROVE  w.ticket[u] # "queued"
      BY DEF FirstComeFirst
    <3>1. v # t
      BY <2>7
    <3>2. c.ticket[v] = "queued"
      BY <2>5, <2>6, <3>1 DEF Evolves
    <3> QED
      BY <2>6, <3>2 DEF Evolves
  <2> QED
    BY <2>1, <2>4, <2>6, <2>7, <2>8
<1> QED
  BY <1>1, <1>2

\* acquire_initialize_slot: a new ticket is admitted when nobody waits and a
\* slot is free, and goes to the end of the queue otherwise.
LEMMA TakeSettles ==
    ASSUME NEW r, Settled(r), NEW t \in Tickets, r.ticket[t] = "none",
           \A u \in Tickets : r.ticket[u] = "queued" => u < t
    PROVE  /\ Settled(Take(r, t))
           /\ Take(r, t).slot = r.slot
           /\ Take(r, t).ticket[t] \in {"queued", "admitted"}
           /\ \A u \in Tickets \ {t} : Take(r, t).ticket[u] = r.ticket[u]
           /\ Take(r, t).ticket[t] = "admitted" => \A u \in Tickets : r.ticket[u] # "queued"
<1> DEFINE q == r.queue
<1>1. RegType(r) /\ Within(r) /\ Exact(r) /\ NoneWaits(r)
  BY DEF Settled, Sound
<1>2. /\ q \in Seq(Tickets) /\ r.ticket \in [Tickets -> TicketValues] /\ r.reserved \in Int
      /\ r.reserved = Cardinality(AdmittedIn(r))
      /\ t \notin AdmittedIn(r)
  BY <1>1 DEF RegType, Exact, AdmittedIn
<1>3. CASE q = <<>> /\ ~Full(r)
  <2> DEFINE tickets == [r.ticket EXCEPT ![t] = "admitted"]
             n       == r.reserved + 1
             w       == Take(r, t)
  <2>1. w = [r EXCEPT !.ticket = tickets, !.queue = q, !.reserved = n]
    BY <1>1, <1>3 DEF Take, RegType
  <2>2. tickets \in [Tickets -> TicketValues] /\ n \in Int
    BY <1>2 DEF TicketValues
  <2>3. /\ w.slot = r.slot /\ w.ticket = tickets /\ w.queue = q /\ w.reserved = n
    BY <1>1, <2>1 DEF RegType
  <2>4. \A u \in Tickets : tickets[u] = IF u = t THEN "admitted" ELSE r.ticket[u]
    BY <1>2
  <2> HIDE DEF w, tickets, n
  <2>5. RegType(w)
    <3>1. RegType([r EXCEPT !.ticket = tickets, !.queue = q, !.reserved = n])
      BY <1>1, <1>2, <2>2, FieldsType
    <3> QED
      BY <2>1, <3>1
  <2>6. w.reserved = Cardinality(AdmittedIn(w))
    <3>1. AdmittedIn(w) = AdmittedIn(r) \cup {t}
      BY <2>3, <2>4 DEF AdmittedIn
    <3>2. Cardinality(AdmittedIn(r) \cup {t}) = Cardinality(AdmittedIn(r)) + 1
      BY <1>1, <1>2, Countable, FS_AddElement
    <3> QED
      BY <1>2, <2>3, <3>1, <3>2 DEF n
  <2>7. \A u \in Tickets : r.ticket[u] # "queued"
    <3>1. Queued(q) = {}
      BY <1>3 DEF Queued
    <3> QED
      BY <1>1, <3>1 DEF Exact
  <2>8. Exact(w)
    <3>1. {u \in Tickets : w.ticket[u] = "queued"} = {u \in Tickets : r.ticket[u] = "queued"}
      BY <1>2, <2>3, <2>4
    <3> QED
      BY <1>1, <2>3, <2>6, <3>1 DEF Exact
  <2>9. Within(w) /\ NoneWaits(w)
    <3>1. HeldIn(w) = HeldIn(r)
      BY <2>3 DEF HeldIn
    <3>2. Active(w) = Active(r) + 1
      BY <1>1, <1>2, <2>3, <3>1, Countable DEF Active, n
    <3>3. Active(r) \in Int /\ MaxSessions \in Int /\ ~(Active(r) >= MaxSessions)
      BY <1>1, <1>3, Countable, McpAssumption DEF Full
    <3>4. Active(w) <= MaxSessions
      BY <3>2, <3>3
    <3> QED
      BY <1>3, <2>3, <3>4 DEF Within, NoneWaits
  <2> QED
    BY <2>3, <2>4, <2>5, <2>7, <2>8, <2>9 DEF w, Settled, Sound
<1>4. CASE ~(q = <<>> /\ ~Full(r))
  <2> DEFINE tickets == [r.ticket EXCEPT ![t] = "queued"]
             longer  == Append(q, t)
             n       == r.reserved
             w       == Take(r, t)
  <2>1. w = [r EXCEPT !.ticket = tickets, !.queue = longer, !.reserved = n]
    BY <1>1, <1>4 DEF Take, RegType
  <2>2. tickets \in [Tickets -> TicketValues]
    BY <1>2 DEF TicketValues
  <2>3. /\ longer \in Seq(Tickets)
        /\ longer # <<>>
        /\ Len(longer) = Len(q) + 1
        /\ \A i \in 1 .. Len(q) : longer[i] = q[i]
        /\ longer[Len(q) + 1] = t
    BY <1>2, AppendProperties
  <2>4. Len(q) \in Nat /\ DOMAIN q = 1 .. Len(q) /\ DOMAIN longer = 1 .. Len(longer)
    BY <1>2, <2>3, LenProperties
  <2>5. /\ w.slot = r.slot /\ w.ticket = tickets /\ w.queue = longer /\ w.reserved = n
    BY <1>1, <2>1 DEF RegType
  <2>6. \A u \in Tickets : tickets[u] = IF u = t THEN "queued" ELSE r.ticket[u]
    BY <1>2
  <2> HIDE DEF w, tickets, longer
  <2>7. RegType(w)
    <3>1. RegType([r EXCEPT !.ticket = tickets, !.queue = longer, !.reserved = n])
      BY <1>1, <1>2, <2>2, <2>3, FieldsType
    <3> QED
      BY <2>1, <3>1
  <2>8. Queued(longer) = Queued(q) \cup {t}
    <3>1. ASSUME NEW i \in 1 .. Len(q) + 1 PROVE longer[i] \in Queued(q) \cup {t}
      <4>1. i \in 1 .. Len(q) \/ i = Len(q) + 1
        BY <2>4
      <4> QED
        BY <2>3, <2>4, <4>1 DEF Queued
    <3>2. Queued(longer) \subseteq Queued(q) \cup {t}
      BY <2>3, <2>4, <3>1 DEF Queued
    <3>3. Len(q) + 1 \in DOMAIN longer /\ \A i \in DOMAIN q : i \in DOMAIN longer
      BY <2>3, <2>4
    <3> QED
      BY <2>3, <2>4, <3>2, <3>3 DEF Queued
  <2>9. InOrder(longer)
    <3> SUFFICES ASSUME NEW i \in 1 .. Len(q) + 1, NEW j \in 1 .. Len(q) + 1, i < j
                 PROVE  longer[i] < longer[j]
      BY <2>3, <2>4 DEF InOrder
    <3>1. i \in 1 .. Len(q) /\ (j \in 1 .. Len(q) \/ j = Len(q) + 1)
      BY <2>4
    <3>2. q[i] \in Queued(q) /\ q[i] \in Tickets
      BY <1>2, <2>4, <3>1, ElementOfSeq DEF Queued
    <3>3. q[i] < t
      BY <1>1, <3>2 DEF Exact
    <3>4. CASE j \in 1 .. Len(q)
      BY <1>1, <2>3, <2>4, <3>1, <3>4 DEF Exact, InOrder
    <3>5. CASE j = Len(q) + 1
      BY <2>3, <3>1, <3>3, <3>5
    <3> QED
      BY <3>1, <3>4, <3>5
  <2>10. Exact(w)
    <3>1. AdmittedIn(w) = AdmittedIn(r)
      BY <1>2, <2>5, <2>6 DEF AdmittedIn
    <3>2. {u \in Tickets : w.ticket[u] = "queued"} = {u \in Tickets : r.ticket[u] = "queued"} \cup {t}
      BY <1>2, <2>5, <2>6
    <3> QED
      BY <1>1, <2>5, <2>8, <2>9, <3>1, <3>2 DEF Exact
  <2>11. Within(w) /\ NoneWaits(w)
    <3>1. HeldIn(w) = HeldIn(r)
      BY <2>5 DEF HeldIn
    <3>2. Active(w) = Active(r)
      BY <2>5, <3>1 DEF Active
    <3>3. Active(r) = MaxSessions
      <4>1. Active(r) \in Int /\ MaxSessions \in Int /\ Active(r) <= MaxSessions
        BY <1>1, Countable, McpAssumption DEF Within
      <4>2. q # <<>> \/ Active(r) >= MaxSessions
        BY <1>4 DEF Full
      <4> QED
        BY <1>1, <4>1, <4>2 DEF NoneWaits
    <3>4. MaxSessions <= MaxSessions
      BY McpAssumption
    <3> QED
      BY <3>2, <3>3, <3>4 DEF Within, NoneWaits
  <2> QED
    BY <2>5, <2>6, <2>7, <2>10, <2>11 DEF w, Settled, Sound
<1> QED
  BY <1>3, <1>4

\* register: the reservation of the ticket becomes the slot of its session, or
\* is given back.
LEMMA CommitSettles ==
    ASSUME NEW r, Settled(r), NEW t \in Tickets, r.ticket[t] # "queued"
    PROVE  /\ Settled(Commit(r, t))
           /\ Commit(r, t).ticket[t] \notin {"queued", "admitted"}
           /\ OthersEvolve(r, Commit(r, t), t)
           /\ FirstComeFirst(r, Commit(r, t))
           /\ \A s \in Tickets : \/ Commit(r, t).slot[s] = r.slot[s]
                                 \/ s = t /\ r.ticket[t] = "admitted"
<1>1. RegType(r) /\ Within(r) /\ Exact(r) /\ NoneWaits(r)
  BY DEF Settled, Sound
<1>2. CASE r.slot[t] # "absent"
  <2>1. Commit(r, t) = Cancel(r, t)
    BY <1>2 DEF Commit
  <2> QED
    BY <2>1, CancelSettles
<1>3. CASE r.slot[t] = "absent" /\ r.ticket[t] # "admitted"
  <2>1. Commit(r, t) = r
    BY <1>3 DEF Commit
  <2> QED
    BY <1>3, <2>1 DEF OthersEvolve, FirstComeFirst
<1>4. CASE r.slot[t] = "absent" /\ r.ticket[t] = "admitted"
  <2> DEFINE w       == Commit(r, t)
             slots   == [r.slot EXCEPT ![t] = "held"]
             tickets == [r.ticket EXCEPT ![t] = "committed"]
             n       == r.reserved - 1
  <2>1. w = [r EXCEPT !.ticket = tickets, !.slot = slots, !.reserved = n]
    BY <1>1, <1>4 DEF Commit, RegType
  <2>2. /\ w.slot = slots /\ w.ticket = tickets /\ w.queue = r.queue /\ w.reserved = n
    BY <1>1, <2>1 DEF RegType
  <2>3. \A u \in Tickets : /\ tickets[u] = IF u = t THEN "committed" ELSE r.ticket[u]
                           /\ slots[u] = IF u = t THEN "held" ELSE r.slot[u]
    BY <1>1 DEF RegType
  <2>4. tickets \in [Tickets -> TicketValues] /\ slots \in [Tickets -> SlotValues] /\ n \in Int
    BY <1>1 DEF RegType, TicketValues, SlotValues
  <2> HIDE DEF tickets, slots, n
  <2>5. RegType(w)
    BY <1>1, <2>1, <2>4 DEF RegType
  <2> HIDE DEF w
  <2>6. Cardinality(AdmittedIn(w)) = Cardinality(AdmittedIn(r)) - 1
    <3>1. AdmittedIn(w) = AdmittedIn(r) \ {t} /\ t \in AdmittedIn(r)
      BY <1>4, <2>2, <2>3 DEF AdmittedIn
    <3> QED
      BY <1>1, <3>1, Countable, FS_RemoveElement
  <2>7. Cardinality(HeldIn(w)) = Cardinality(HeldIn(r)) + 1
    <3>1. HeldIn(w) = HeldIn(r) \cup {t} /\ t \notin HeldIn(r)
      BY <1>4, <2>2, <2>3 DEF HeldIn
    <3> QED
      BY <1>1, <3>1, Countable, FS_AddElement
  <2>8. Active(w) = Active(r)
    BY <1>1, <2>2, <2>7, Countable DEF Active, RegType, n
  <2>9. {u \in Tickets : w.ticket[u] = "queued"} = {u \in Tickets : r.ticket[u] = "queued"}
    BY <2>2, <2>3
  <2>10. Exact(w)
    BY <1>1, <2>2, <2>6, <2>9 DEF Exact, n
  <2>11. Settled(w)
    BY <1>1, <2>2, <2>5, <2>8, <2>10 DEF Settled, Sound, Within, NoneWaits
  <2>12. OthersEvolve(r, w, t) /\ FirstComeFirst(r, w)
    BY <2>2, <2>3 DEF OthersEvolve, FirstComeFirst
  <2> QED
    BY <1>4, <2>2, <2>3, <2>11, <2>12 DEF w
<1> QED
  BY <1>2, <1>3, <1>4

\* touch and confirm_validated_tool_call: a session that has lost its slot takes
\* one only when one is free, and then nobody waits for it.
LEMMA HoldSettles ==
    ASSUME NEW r, Settled(r), NEW s \in Tickets, Retakes(r, s)
    PROVE  /\ Settled(Hold(r, s))
           /\ Hold(r, s).ticket = r.ticket
           /\ Hold(r, s).queue = r.queue
           /\ Hold(r, s).slot = [r.slot EXCEPT ![s] = "held"]
           /\ r.slot[s] # "held" => r.queue = <<>>
<1> DEFINE w     == Hold(r, s)
           slots == [r.slot EXCEPT ![s] = "held"]
<1>1. RegType(r) /\ Within(r) /\ Exact(r) /\ NoneWaits(r)
  BY DEF Settled, Sound
<1>2. /\ w.slot = slots /\ w.ticket = r.ticket /\ w.queue = r.queue /\ w.reserved = r.reserved
  BY <1>1 DEF Hold, RegType
<1>3. RegType(w)
  BY <1>1 DEF Hold, RegType, SlotValues
<1>4. \A u \in Tickets : slots[u] = IF u = s THEN "held" ELSE r.slot[u]
  BY <1>1 DEF RegType
<1> HIDE DEF w, slots
<1>5. Exact(w)
  <2>1. AdmittedIn(w) = AdmittedIn(r)
    BY <1>2 DEF AdmittedIn
  <2> QED
    BY <1>1, <1>2, <2>1 DEF Exact
<1>6. HeldIn(w) = HeldIn(r) \cup {s}
  BY <1>2, <1>4 DEF HeldIn
<1>7. CASE r.slot[s] = "held"
  <2>1. HeldIn(w) = HeldIn(r)
    BY <1>6, <1>7 DEF HeldIn
  <2>2. Active(w) = Active(r)
    BY <1>2, <2>1 DEF Active
  <2> QED
    BY <1>1, <1>2, <1>3, <1>5, <1>7, <2>2 DEF w, slots, Settled, Sound, Within, NoneWaits
<1>8. CASE r.slot[s] # "held"
  <2>1. Active(r) \in Int /\ MaxSessions \in Int /\ ~(Active(r) >= MaxSessions)
    BY <1>1, <1>8, Countable, McpAssumption DEF Retakes, Full
  <2>2. r.queue = <<>>
    BY <1>1, <2>1 DEF NoneWaits
  <2>3. Cardinality(HeldIn(w)) = Cardinality(HeldIn(r)) + 1
    <3>1. s \notin HeldIn(r)
      BY <1>8 DEF HeldIn
    <3> QED
      BY <1>1, <1>6, <3>1, Countable, FS_AddElement
  <2>4. Active(w) = Active(r) + 1
    BY <1>1, <1>2, <2>3, Countable DEF Active, RegType
  <2>5. Active(w) <= MaxSessions
    BY <2>1, <2>4
  <2> QED
    BY <1>2, <1>3, <1>5, <2>2, <2>5 DEF w, slots, Settled, Sound, Within, NoneWaits
<1> QED
  BY <1>7, <1>8

--------------------------------------------------------------------------------
RequestValues == {"new", "waiting", "serving", "responded", "done", "refused"}

\* Who answers for a ticket, and in which order tickets are taken.
Answered(r, req) ==
    /\ \A t \in Tickets :
            /\ r.ticket[t] = "admitted" => req[t] \in {"waiting", "serving", "responded"}
            /\ r.ticket[t] = "queued" => req[t] = "waiting"
            /\ req[t] = "new" => r.ticket[t] = "none"
    /\ \A t, u \in Tickets : t < u /\ req[u] # "new" => req[t] # "new"

\* The inductive invariant.  The bound on the slots and the exact counter need
\* each other, and both need every place in the queue to be a waiting request.
McpInv ==
    /\ Settled(reg)
    /\ Answered(reg, request)
    /\ expired \subseteq {s \in Tickets : reg.slot[s] # "absent"}
    /\ request \in [Tickets -> RequestValues]
    /\ sdk \in [Tickets -> {"none", "live", "gone"}]
    /\ calls \subseteq {s \in Tickets : sdk[s] # "none"}

\* No session takes a slot past a waiting ticket.
NotSnatched(r, w) ==
    \A s \in Tickets : r.slot[s] # "held" /\ w.slot[s] = "held" =>
                           r.ticket[s] = "admitted" \/ w.queue = <<>>

\* What a step does to the tickets and slots.
Fair(r, w) == FirstComeFirst(r, w) /\ NotSnatched(r, w)

\* A change that follows a purge passes nobody if it passes none of those that
\* the purge has left in the queue.
LEMMA FirstAfterPurge ==
    ASSUME NEW r, NEW v, NEW w, Evolves(r, v), FirstComeFirst(v, w),
           \A t \in Tickets : r.ticket[t] = "queued" /\ w.ticket[t] = "queued"
                                  => v.ticket[t] = "queued"
    PROVE  FirstComeFirst(r, w)
<1> SUFFICES ASSUME NEW t \in Tickets, NEW u \in Tickets, t < u,
                    r.ticket[t] = "queued", r.ticket[u] # "admitted", w.ticket[u] = "admitted",
                    w.ticket[t] = "queued"
             PROVE  FALSE
  BY DEF FirstComeFirst
<1>1. v.ticket[t] = "queued"
  OBVIOUS
<1>2. CASE v.ticket[u] = "admitted"
  <2>1. r.ticket[u] = "queued"
    BY <1>2 DEF Evolves
  <2> QED
    BY <1>1, <1>2, <2>1 DEF Evolves
<1>3. CASE v.ticket[u] # "admitted"
  BY <1>1, <1>3 DEF FirstComeFirst
<1> QED
  BY <1>2, <1>3

\* A change of the tickets that only moves them from the queue to admission
\* leaves every ticket answered for.
LEMMA StillAnswered ==
    ASSUME NEW r, NEW w, NEW req, Answered(r, req),
           \A t \in Tickets : \/ w.ticket[t] = r.ticket[t]
                              \/ r.ticket[t] = "queued" /\ w.ticket[t] = "admitted"
    PROVE  Answered(w, req)
<1>1. ASSUME NEW t \in Tickets
      PROVE  /\ w.ticket[t] = "admitted" => req[t] \in {"waiting", "serving", "responded"}
             /\ w.ticket[t] = "queued" => req[t] = "waiting"
             /\ req[t] = "new" => w.ticket[t] = "none"
  <2>1. /\ r.ticket[t] = "admitted" => req[t] \in {"waiting", "serving", "responded"}
        /\ r.ticket[t] = "queued" => req[t] = "waiting"
        /\ req[t] = "new" => r.ticket[t] = "none"
    BY DEF Answered
  <2>2. CASE w.ticket[t] = r.ticket[t]
    BY <2>1, <2>2
  <2>3. CASE r.ticket[t] = "queued" /\ w.ticket[t] = "admitted"
    BY <2>1, <2>3
  <2> QED
    BY <2>2, <2>3
<1>2. \A t, u \in Tickets : t < u /\ req[u] # "new" => req[t] # "new"
  BY DEF Answered
<1> QED
  BY <1>1, <1>2 DEF Answered

\* The same when one request goes on to a next stage with its ticket.
LEMMA AnsweredNext ==
    ASSUME NEW r, NEW w, NEW req \in [Tickets -> RequestValues], Answered(r, req),
           NEW t \in Tickets, NEW stage \in RequestValues, stage # "new",
           \A u \in Tickets : u < t => req[u] # "new",
           OthersEvolve(r, w, t),
           w.ticket[t] = "admitted" => stage \in {"waiting", "serving", "responded"},
           w.ticket[t] = "queued" => stage = "waiting"
    PROVE  Answered(w, [req EXCEPT ![t] = stage])
<1> DEFINE next == [req EXCEPT ![t] = stage]
<1>1. \A u \in Tickets : next[u] = IF u = t THEN stage ELSE req[u]
  OBVIOUS
<1> HIDE DEF next
<1>2. ASSUME NEW u \in Tickets
      PROVE  /\ w.ticket[u] = "admitted" => next[u] \in {"waiting", "serving", "responded"}
             /\ w.ticket[u] = "queued" => next[u] = "waiting"
             /\ next[u] = "new" => w.ticket[u] = "none"
  <2>1. CASE u = t
    BY <1>1, <2>1
  <2>2. CASE u # t
    <3>1. next[u] = req[u]
      BY <1>1, <2>2
    <3>2. /\ r.ticket[u] = "admitted" => req[u] \in {"waiting", "serving", "responded"}
          /\ r.ticket[u] = "queued" => req[u] = "waiting"
          /\ req[u] = "new" => r.ticket[u] = "none"
      BY DEF Answered
    <3>3. CASE w.ticket[u] = r.ticket[u]
      BY <3>1, <3>2, <3>3
    <3>4. CASE r.ticket[u] = "queued" /\ w.ticket[u] = "admitted"
      BY <3>1, <3>2, <3>4
    <3> QED
      BY <2>2, <3>3, <3>4 DEF OthersEvolve
  <2> QED
    BY <2>1, <2>2
<1>3. ASSUME NEW u \in Tickets, NEW v \in Tickets, u < v, next[v] # "new"
      PROVE  next[u] # "new"
  BY <1>1, <1>3 DEF Answered
<1> QED
  BY <1>2, <1>3 DEF Answered, next

\* What a handler finds once its method has purged.
LEMMA AfterPurge ==
    ASSUME McpInv
    PROVE  /\ Settled(Purge(reg))
           /\ Evolves(reg, Purge(reg))
           /\ Answered(Purge(reg), request)
           /\ Fair(reg, Purge(reg))
           /\ \A s \in Tickets : \/ Purge(reg).slot[s] = reg.slot[s]
                                 \/ Purge(reg).slot[s] = "absent"
<1> DEFINE r == Purge(reg)
<1>1. /\ Settled(r)
      /\ Evolves(reg, r)
      /\ \A s \in Tickets : r.slot[s] = reg.slot[s] \/ r.slot[s] = "absent"
  BY PurgeSettles DEF McpInv
<1> HIDE DEF r
<1>2. Answered(r, request)
  BY <1>1, StillAnswered DEF McpInv, Evolves
<1>3. FirstComeFirst(reg, r)
  BY <1>1 DEF Evolves, FirstComeFirst
<1>4. NotSnatched(reg, r)
  BY <1>1 DEF NotSnatched
<1> QED
  BY <1>1, <1>2, <1>3, <1>4 DEF Fair, r

\* An initialize request takes its ticket.
LEMMA AcquireStep ==
    ASSUME McpInv, NEW t \in Tickets, Acquire(t)
    PROVE  McpInv' /\ Fair(reg, reg')
<1> DEFINE r == Purge(reg)
           w == Take(r, t)
<1>1. /\ Settled(r)
      /\ Evolves(reg, r)
      /\ Answered(r, request)
      /\ Fair(reg, r)
      /\ \A s \in Tickets : r.slot[s] = reg.slot[s] \/ r.slot[s] = "absent"
  BY AfterPurge
<1> HIDE DEF r
<1>2. request[t] = "new" /\ (\A u \in Tickets : u < t => request[u] # "new") /\ reg' = w
  BY DEF Acquire, r
<1>3. r.ticket[t] = "none"
  BY <1>1, <1>2 DEF Answered
<1>4. \A u \in Tickets : r.ticket[u] = "queued" => u < t
  <2> SUFFICES ASSUME NEW u \in Tickets, r.ticket[u] = "queued" PROVE u < t
    OBVIOUS
  <2>1. request[u] = "waiting"
    BY <1>1 DEF Answered
  <2>2. u # t
    BY <1>2, <2>1
  <2>3. ~(t < u)
    BY <1>1, <1>2, <2>1 DEF Answered
  <2> QED
    BY <2>2, <2>3, McpAssumption
<1>5. /\ Settled(w)
      /\ w.slot = r.slot
      /\ w.ticket[t] \in {"queued", "admitted"}
      /\ \A u \in Tickets \ {t} : w.ticket[u] = r.ticket[u]
      /\ w.ticket[t] = "admitted" => \A u \in Tickets : r.ticket[u] # "queued"
  BY <1>1, <1>3, <1>4, TakeSettles
<1> HIDE DEF w
<1>6. OthersEvolve(r, w, t)
  BY <1>5 DEF OthersEvolve
<1> DEFINE stage == IF w.ticket[t] = "admitted" THEN "serving" ELSE "waiting"
<1>7. request' = [request EXCEPT ![t] = stage]
  BY <1>2 DEF Acquire
<1>8. Answered(w, request')
  <2>1. /\ stage \in RequestValues
        /\ stage # "new"
        /\ w.ticket[t] = "admitted" => stage \in {"waiting", "serving", "responded"}
        /\ w.ticket[t] = "queued" => stage = "waiting"
    BY DEF RequestValues
  <2>2. request \in [Tickets -> RequestValues]
    BY DEF McpInv
  <2> HIDE DEF stage
  <2>3. Answered(w, [request EXCEPT ![t] = stage])
    BY <1>1, <1>2, <1>6, <2>1, <2>2, AnsweredNext
  <2> QED
    BY <1>7, <2>3
<1>9. FirstComeFirst(reg, w)
  <2>1. reg.ticket[t] = "none"
    BY <1>2 DEF McpInv, Answered
  <2>2. FirstComeFirst(r, w)
    BY <1>5 DEF FirstComeFirst
  <2>3. \A u \in Tickets : reg.ticket[u] = "queued" /\ w.ticket[u] = "queued"
                               => r.ticket[u] = "queued"
    BY <1>5, <2>1
  <2> QED
    BY <1>1, <2>2, <2>3, FirstAfterPurge
<1>10. NotSnatched(reg, w)
  BY <1>1, <1>5 DEF NotSnatched
<1> QED
  BY <1>2, <1>5, <1>7, <1>8, <1>9, <1>10 DEF McpInv, Fair, Acquire, RequestValues

\* A ticket is given up, by a timeout or by a failure.
LEMMA CancelStep ==
    ASSUME McpInv, NEW t \in Tickets, GiveUp(t) \/ InitializeFails(t)
    PROVE  McpInv' /\ Fair(reg, reg')
<1> DEFINE w == Cancel(reg, t)
<1>1. /\ Settled(w)
      /\ w.slot = reg.slot
      /\ w.ticket[t] \notin {"queued", "admitted"}
      /\ OthersEvolve(reg, w, t)
      /\ FirstComeFirst(reg, w)
  BY CancelSettles DEF McpInv
<1>2. /\ request[t] # "new"
      /\ reg' = w
      /\ request' = [request EXCEPT ![t] = "refused"]
      /\ UNCHANGED <<expired, sdk, calls>>
  BY DEF GiveUp, InitializeFails
<1> HIDE DEF w
<1>3. Answered(w, request')
  <2>1. \A u \in Tickets : u < t => request[u] # "new"
    BY <1>2 DEF McpInv, Answered
  <2>2. request \in [Tickets -> RequestValues] /\ Answered(reg, request)
        /\ "refused" \in RequestValues
    BY DEF McpInv, RequestValues
  <2>3. Answered(w, [request EXCEPT ![t] = "refused"])
    BY <1>1, <2>1, <2>2, AnsweredNext
  <2> QED
    BY <1>2, <2>3
<1>4. NotSnatched(reg, w)
  BY <1>1 DEF NotSnatched
<1> QED
  BY <1>1, <1>2, <1>3, <1>4 DEF McpInv, Fair, RequestValues

\* The session is created: its reservation becomes its slot.
LEMMA RegisterStep ==
    ASSUME McpInv, NEW t \in Tickets, Register(t)
    PROVE  McpInv' /\ Fair(reg, reg')
<1> DEFINE r == Purge(reg)
           w == Commit(r, t)
<1>1. /\ Settled(r)
      /\ Evolves(reg, r)
      /\ Answered(r, request)
      /\ \A s \in Tickets : r.slot[s] = reg.slot[s] \/ r.slot[s] = "absent"
  BY AfterPurge
<1> HIDE DEF r
<1>2. /\ request[t] = "responded"
      /\ reg' = w
      /\ expired' = {}
      /\ request' = [request EXCEPT ![t] = "done"]
      /\ UNCHANGED <<sdk, calls>>
  BY DEF Register, r
<1>3. r.ticket[t] # "queued" /\ reg.ticket[t] # "queued"
  BY <1>1, <1>2 DEF McpInv, Answered
<1>4. /\ Settled(w)
      /\ w.ticket[t] \notin {"queued", "admitted"}
      /\ OthersEvolve(r, w, t)
      /\ FirstComeFirst(r, w)
      /\ \A s \in Tickets : w.slot[s] = r.slot[s] \/ (s = t /\ r.ticket[t] = "admitted")
  BY <1>1, <1>3, CommitSettles
<1> HIDE DEF w
<1>5. Answered(w, request')
  <2>1. \A u \in Tickets : u < t => request[u] # "new"
    BY <1>2 DEF McpInv, Answered
  <2>2. request \in [Tickets -> RequestValues] /\ "done" \in RequestValues
    BY DEF McpInv, RequestValues
  <2>3. Answered(w, [request EXCEPT ![t] = "done"])
    BY <1>1, <1>4, <2>1, <2>2, AnsweredNext
  <2> QED
    BY <1>2, <2>3
<1>6. FirstComeFirst(reg, w)
  <2>1. \A u \in Tickets : reg.ticket[u] = "queued" /\ w.ticket[u] = "queued"
                               => r.ticket[u] = "queued"
    BY <1>3, <1>4 DEF OthersEvolve
  <2> QED
    BY <1>1, <1>4, <2>1, FirstAfterPurge
<1>7. NotSnatched(reg, w)
  <2> SUFFICES ASSUME NEW s \in Tickets, reg.slot[s] # "held", w.slot[s] = "held"
               PROVE  reg.ticket[s] = "admitted"
    BY DEF NotSnatched
  <2>1. s = t /\ r.ticket[t] = "admitted"
    BY <1>1, <1>4
  <2> QED
    BY <1>1, <1>3, <2>1 DEF Evolves
<1> QED
  BY <1>2, <1>4, <1>5, <1>6, <1>7 DEF McpInv, Fair, RequestValues

\* A request of a session takes the slot back, if one is free.
LEMMA RetakeStep ==
    ASSUME McpInv, NEW s \in Tickets, ConfirmToolCall(s) \/ Touch(s)
    PROVE  McpInv' /\ Fair(reg, reg')
<1> DEFINE r == Purge(reg)
<1>1. /\ Settled(r)
      /\ Evolves(reg, r)
      /\ Answered(r, request)
      /\ Fair(reg, r)
      /\ \A u \in Tickets : r.slot[u] = reg.slot[u] \/ r.slot[u] = "absent"
  BY AfterPurge
<1> HIDE DEF r
<1>2. /\ expired' = {}
      /\ UNCHANGED <<request, sdk>>
      /\ calls' \subseteq calls
      /\ reg' = r \/ (Retakes(r, s) /\ reg' = Hold(r, s))
  BY DEF ConfirmToolCall, Touch, r
<1>3. CASE reg' = r
  BY <1>1, <1>2, <1>3 DEF McpInv
<1>4. CASE Retakes(r, s) /\ reg' = Hold(r, s)
  <2> DEFINE w == Hold(r, s)
  <2>1. /\ Settled(w)
        /\ w.ticket = r.ticket
        /\ w.queue = r.queue
        /\ w.slot = [r.slot EXCEPT ![s] = "held"]
        /\ r.slot[s] # "held" => r.queue = <<>>
    BY <1>1, <1>4, HoldSettles
  <2>2. \A u \in Tickets \ {s} : w.slot[u] = r.slot[u]
    BY <1>1, <2>1 DEF Settled, Sound, RegType
  <2> HIDE DEF w
  <2>3. Answered(w, request)
    BY <1>1, <2>1 DEF Answered
  <2>4. FirstComeFirst(reg, w)
    BY <1>1, <2>1 DEF Fair, FirstComeFirst
  <2>5. NotSnatched(reg, w)
    BY <1>1, <2>1, <2>2 DEF NotSnatched
  <2> QED
    BY <1>2, <1>4, <2>1, <2>3, <2>4, <2>5 DEF McpInv, Fair, w
<1> QED
  BY <1>2, <1>3, <1>4

\* A session loses its transport: its slot goes to the first waiter.
LEMMA LoseTransportStep ==
    ASSUME McpInv, NEW s \in Tickets, LoseTransport(s)
    PROVE  McpInv' /\ Fair(reg, reg')
<1> DEFINE r == Purge(reg)
<1>1. /\ Settled(r)
      /\ Evolves(reg, r)
      /\ Answered(r, request)
      /\ Fair(reg, r)
      /\ \A u \in Tickets : r.slot[u] = reg.slot[u] \/ r.slot[u] = "absent"
  BY AfterPurge
<1> HIDE DEF r
<1>2. /\ expired' = {}
      /\ UNCHANGED <<request, sdk>>
      /\ calls' \subseteq calls
      /\ reg' = IF r.slot[s] = "absent" THEN r
                ELSE Wake([r EXCEPT !.slot = [@ EXCEPT ![s] = "lost"]])
  BY DEF LoseTransport, r
<1>3. CASE r.slot[s] = "absent"
  BY <1>1, <1>2, <1>3 DEF McpInv
<1>4. CASE r.slot[s] # "absent"
  <2> DEFINE slots == [r.slot EXCEPT ![s] = "lost"]
             l     == [r EXCEPT !.slot = slots]
             w     == Wake(l)
  <2>1. RegType(r) /\ Sound(r)
    BY <1>1 DEF Settled, Sound
  <2>2. slots \in [Tickets -> SlotValues]
    BY <2>1 DEF RegType, SlotValues
  <2>3. \A u \in Tickets : slots[u] = IF u = s THEN "lost" ELSE r.slot[u]
    BY <2>1 DEF RegType
  <2>4. reg' = w
    BY <1>2, <1>4, <2>1 DEF RegType
  <2>5. l.ticket = r.ticket /\ l.slot = slots
    BY <2>1 DEF RegType
  <2> HIDE DEF slots
  <2>6. Sound(l)
    BY <2>1, <2>2, <2>3, SlotsShrink
  <2> HIDE DEF l
  <2>7. Settled(w) /\ w.slot = slots /\ Evolves(l, w)
    BY <2>5, <2>6, WakeSettles
  <2> HIDE DEF w
  <2>8. Evolves(r, w)
    BY <2>5, <2>7 DEF Evolves
  <2>9. Answered(w, request)
    BY <1>1, <2>8, StillAnswered DEF Evolves
  <2>10. FirstComeFirst(reg, w)
    <3>1. FirstComeFirst(r, w)
      BY <2>8 DEF Evolves, FirstComeFirst
    <3>2. \A t \in Tickets : reg.ticket[t] = "queued" /\ w.ticket[t] = "queued"
                                 => r.ticket[t] = "queued"
      BY <2>8 DEF Evolves
    <3> QED
      BY <1>1, <3>1, <3>2, FirstAfterPurge
  <2>11. NotSnatched(reg, w)
    BY <1>1, <2>3, <2>7 DEF NotSnatched
  <2> QED
    BY <1>2, <2>4, <2>7, <2>9, <2>10, <2>11 DEF McpInv, Fair
<1> QED
  BY <1>3, <1>4

\* A session is released.
LEMMA ReleaseStep ==
    ASSUME McpInv, NEW s \in Tickets, Release(s)
    PROVE  McpInv' /\ Fair(reg, reg')
<1> DEFINE d == Drop(reg, {s})
           w == Wake(d)
<1>1. /\ Sound(d) /\ d.ticket = reg.ticket
      /\ d.slot = [u \in Tickets |-> IF u \in {s} THEN "absent" ELSE reg.slot[u]]
  BY DropSound DEF McpInv, Settled
<1>2. /\ reg' = w
      /\ expired' = expired \ {s}
      /\ UNCHANGED <<request, sdk, calls>>
  BY DEF Release
<1> HIDE DEF d
<1>3. Settled(w) /\ w.slot = d.slot /\ Evolves(d, w)
  BY <1>1, WakeSettles
<1> HIDE DEF w
<1>4. Evolves(reg, w)
  BY <1>1, <1>3 DEF Evolves
<1>5. Answered(w, request)
  BY <1>4, StillAnswered DEF McpInv, Evolves
<1>6. FirstComeFirst(reg, w) /\ NotSnatched(reg, w)
  BY <1>1, <1>3, <1>4 DEF Evolves, FirstComeFirst, NotSnatched
<1> QED
  BY <1>1, <1>2, <1>3, <1>5, <1>6 DEF McpInv, Fair

\* Steps that leave the registry alone.
LEMMA QuietStep ==
    ASSUME McpInv, NEW t \in Tickets,
           \/ Resume(t) \/ Respond(t) \/ BeginCall(t) \/ EndCall(t) \/ SdkDrops(t) \/ GoesIdle(t)
           \/ UNCHANGED mcpVars
    PROVE  McpInv' /\ Fair(reg, reg')
<1>1. reg' = reg
  BY DEF Resume, Respond, BeginCall, EndCall, SdkDrops, GoesIdle, mcpVars
<1>2. Fair(reg, reg')
  BY <1>1 DEF Fair, FirstComeFirst, NotSnatched
<1>3. OthersEvolve(reg, reg, t)
  BY DEF OthersEvolve
<1>4. CASE Resume(t) \/ Respond(t)
  <2> PICK stage \in {"serving", "responded"} :
           /\ request' = [request EXCEPT ![t] = stage]
           /\ request[t] # "new"
           /\ reg.ticket[t] # "queued"
    <3>1. CASE Resume(t)
      BY <3>1 DEF Resume
    <3>2. CASE Respond(t)
      BY <3>2 DEF Respond, McpInv, Answered
    <3> QED
      BY <1>4, <3>1, <3>2
  <2>1. \A u \in Tickets : u < t => request[u] # "new"
    BY DEF McpInv, Answered
  <2>2. request \in [Tickets -> RequestValues] /\ Answered(reg, request)
    BY DEF McpInv
  <2>3. stage \in RequestValues /\ stage # "new" /\ stage \in {"waiting", "serving", "responded"}
    BY DEF RequestValues
  <2>4. Answered(reg, [request EXCEPT ![t] = stage])
    BY <1>3, <2>1, <2>2, <2>3, AnsweredNext
  <2>5. request' \in [Tickets -> RequestValues]
    BY <2>2, <2>3
  <2> QED
    BY <1>1, <1>2, <1>4, <2>4, <2>5 DEF McpInv, Resume, Respond
<1>5. CASE \/ BeginCall(t) \/ EndCall(t) \/ SdkDrops(t) \/ GoesIdle(t) \/ UNCHANGED mcpVars
  <2>1. request' = request
    BY <1>5 DEF BeginCall, EndCall, SdkDrops, GoesIdle, mcpVars
  <2>2. Answered(reg', request')
    BY <1>1, <2>1 DEF McpInv
  <2>3. /\ expired' \subseteq {s \in Tickets : reg'.slot[s] # "absent"}
        /\ sdk' \in [Tickets -> {"none", "live", "gone"}]
        /\ calls' \subseteq {s \in Tickets : sdk'[s] # "none"}
    BY <1>5 DEF McpInv, BeginCall, EndCall, SdkDrops, GoesIdle, mcpVars
  <2> QED
    BY <1>1, <1>2, <2>1, <2>2, <2>3 DEF McpInv
<1> QED
  BY <1>4, <1>5

\* Every step keeps the invariant and is fair to the waiting tickets.
LEMMA McpStep ==
    ASSUME McpInv, [McpNext]_mcpVars
    PROVE  McpInv' /\ Fair(reg, reg')
<1>1. CASE UNCHANGED mcpVars
  BY <1>1 DEF mcpVars, McpInv, Fair, FirstComeFirst, NotSnatched
<1>2. CASE Snapshot
  BY <1>2, AfterPurge DEF Snapshot, McpInv
<1>3. ASSUME NEW t \in Tickets, Acquire(t) \/ Handler(t) \/ SessionStep(t)
      PROVE  McpInv' /\ Fair(reg, reg')
  BY <1>3, AcquireStep, CancelStep, RegisterStep, RetakeStep, LoseTransportStep, ReleaseStep,
     QuietStep DEF Handler, SessionStep
<1> QED
  BY <1>1, <1>2, <1>3 DEF McpNext

LEMMA McpStart ==
    ASSUME McpInit
    PROVE  McpInv
<1>1. RegType(reg)
  <2>1. <<>> \in Seq(Tickets)
    OBVIOUS
  <2> QED
    BY <2>1 DEF McpInit, RegType, SlotValues, TicketValues
<1>2. HeldIn(reg) = {} /\ AdmittedIn(reg) = {} /\ reg.queue = <<>> /\ reg.reserved = 0
  BY DEF McpInit, HeldIn, AdmittedIn
<1>3. Active(reg) = 0
  BY <1>2, FS_EmptySet DEF Active
<1>4. Within(reg) /\ NoneWaits(reg)
  BY <1>2, <1>3, McpAssumption DEF Within, NoneWaits
<1>5. Exact(reg)
  <2>1. Queued(reg.queue) = {} /\ InOrder(reg.queue)
    BY <1>2 DEF Queued, InOrder
  <2>2. {t \in Tickets : reg.ticket[t] = "queued"} = {}
    BY DEF McpInit
  <2> QED
    BY <1>2, <2>1, <2>2, FS_EmptySet DEF Exact
<1>6. Answered(reg, request)
  BY DEF McpInit, Answered
<1> QED
  BY <1>1, <1>4, <1>5, <1>6 DEF McpInit, McpInv, Settled, Sound, RequestValues

--------------------------------------------------------------------------------
\* The invariant holds of every registry and any number of clients.
THEOREM McpInvariant == McpSpec => []McpInv
<1>1. McpInit => McpInv
  BY McpStart
<1>2. McpInv /\ [McpNext]_mcpVars => McpInv'
  BY McpStep
<1> QED
  BY <1>1, <1>2, PTL DEF McpSpec

\* Every field of the registry keeps its type, and the counter of reservations
\* never goes below zero.
THEOREM McpTypes == McpSpec => []McpTypeOK
<1>1. McpInv => McpTypeOK
  <2> SUFFICES ASSUME McpInv PROVE McpTypeOK
    OBVIOUS
  <2>1. RegType(reg) /\ reg.reserved = Cardinality(AdmittedIn(reg))
    BY DEF McpInv, Settled, Sound, Exact
  <2>2. reg.reserved \in Nat
    BY <2>1, Countable
  <2>3. reg \in [slot     : [Tickets -> {"absent", "held", "lost"}],
                 ticket   : [Tickets -> {"none", "queued", "admitted", "committed",
                                         "cancelled"}],
                 queue    : Seq(Tickets),
                 reserved : Nat]
    BY <2>1, <2>2 DEF RegType, SlotValues, TicketValues
  <2> QED
    BY <2>3 DEF McpInv, McpTypeOK, RequestValues
<1> QED
  BY <1>1, McpInvariant, PTL

\* No race of a timeout with an admission leaks a reservation, frees one twice
\* or loses a place in the queue (acquire_initialize_slot, register,
\* cancel_initialize_slot).
THEOREM TicketsAreAccounted == McpSpec => []TicketsAccounted
<1>1. McpInv => TicketsAccounted
  BY DEF McpInv, Settled, Sound, Exact, AdmittedIn, Admitted, InOrder, Queued, Answered,
         TicketsAccounted
<1> QED
  BY <1>1, McpInvariant, PTL

\* The sessions that hold a slot and those that have one reserved never exceed
\* max_sessions.
THEOREM SlotsAreBounded == McpSpec => []SlotBound
<1>1. McpInv => SlotBound
  BY DEF McpInv, Settled, Sound, Within, SlotBound
<1> QED
  BY <1>1, McpInvariant, PTL

\* No slot stays free while a client waits.
THEOREM NoWaiterWithFreeSlot == McpSpec => []WaitersMeanFull
<1>1. McpInv => WaitersMeanFull
  BY DEF McpInv, Settled, NoneWaits, WaitersMeanFull
<1> QED
  BY <1>1, McpInvariant, PTL

\* Waiting clients are admitted in the order they came.
THEOREM AdmissionIsFifo == McpSpec => AdmittedInOrder
<1>1. McpInv /\ [McpNext]_mcpVars =>
          [\A t, u \in Tickets :
              /\ t < u /\ reg.ticket[t] = "queued"
              /\ reg.ticket[u] # "admitted" /\ reg'.ticket[u] = "admitted"
              => reg'.ticket[t] # "queued"]_mcpVars
  BY McpStep DEF Fair, FirstComeFirst
<1> QED
  BY <1>1, McpInvariant, PTL DEF McpSpec, AdmittedInOrder

\* A session without a slot that takes one takes it past nobody.
THEOREM SlotsAreNotSnatched == McpSpec => SlotsNotSnatched
<1>1. McpInv /\ [McpNext]_mcpVars =>
          [\A s \in Tickets :
              reg.slot[s] # "held" /\ reg'.slot[s] = "held" =>
                  reg.ticket[s] = "admitted" \/ reg'.queue = <<>>]_mcpVars
  BY McpStep DEF Fair, NotSnatched
<1> QED
  BY <1>1, McpInvariant, PTL DEF McpSpec, SlotsNotSnatched

================================================================================
