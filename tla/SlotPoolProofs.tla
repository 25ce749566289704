--------------------------- MODULE SlotPoolProofs ---------------------------
(***************************************************************************)
(* For every pool size and every counter span the size divides, no slot is  *)
(* lost or duplicated, no push is refused, no entry is raced for, and the   *)
(* two rings are FIFO queues with atomic operations.                        *)
(***************************************************************************)
EXTENDS SlotPool, FiniteSetTheorems, SequenceTheorems, TLAPS

(***************************************************************************)
(* Arithmetic of the ring positions.                                       *)
(***************************************************************************)

\* Division with remainder is unique.
LEMMA ModUnique ==
    ASSUME NEW n \in Nat \ {0}, NEW q \in Int, NEW r \in 0 .. n - 1
    PROVE  (n * q + r) % n = r
PROOF
  <1> DEFINE x == n * q + r
             d == x \div n
             m == x % n
  <1>1. x \in Int
    OBVIOUS
  <1>2. d \in Int /\ m \in 0 .. n - 1 /\ x = n * d + m
    BY <1>1
  <1> HIDE DEF x, d, m
  <1>3. n * (q - d) = m - r
    BY <1>2 DEF x
  <1>4. CASE q - d >= 1
    <2>1. n * (q - d) >= n
      BY <1>2, <1>4
    <2>2. QED
      BY <2>1, <1>2, <1>3
  <1>5. CASE q - d <= -1
    <2>1. n * (q - d) <= -n
      BY <1>2, <1>5
    <2>2. QED
      BY <2>1, <1>2, <1>3
  <1>6. CASE q - d = 0
    BY <1>2, <1>3, <1>6 DEF m, x
  <1>7. QED
    BY <1>2, <1>4, <1>5, <1>6

\* The position of a counter moves by one modulo the capacity, across the
\* counter's wrap too, when the capacity divides the span.
LEMMA IndexBump ==
    ASSUME CounterSpan % SlotCount = 0, NEW c \in Counters
    PROVE  /\ Index(c) \in Slots
           /\ Bump(c) \in Counters
           /\ Index(Bump(c)) = IF Index(c) + 1 = SlotCount THEN 0 ELSE Index(c) + 1
PROOF
  <1> DEFINE q == c \div SlotCount
             r == c % SlotCount
             k == CounterSpan \div SlotCount
  <1>1. q \in Int /\ r \in 0 .. SlotCount - 1 /\ c = SlotCount * q + r
    BY SlotPoolAssumption DEF Counters
  <1>2. k \in Int /\ CounterSpan = SlotCount * k
    BY SlotPoolAssumption
  <1>3. Index(c) = r /\ Index(c) \in Slots
    BY <1>1 DEF Index, Slots
  <1>4. c \in Int /\ 0 <= c /\ c <= CounterSpan - 1 /\ CounterSpan \in Nat /\ SlotCount \in Nat \ {0}
    BY SlotPoolAssumption DEF Counters
  <1> HIDE DEF q, r, k
  <1>5. CASE c + 1 < CounterSpan
    <2>1. Bump(c) = c + 1
      BY <1>4, <1>5 DEF Bump
    <2>2. CASE r + 1 < SlotCount
      <3>1. Index(c + 1) = (SlotCount * q + (r + 1)) % SlotCount
        BY <1>1, <1>4 DEF Index
      <3>2. Index(c + 1) = r + 1
        BY <3>1, <1>1, <1>4, <2>2, ModUnique
      <3>3. QED
        BY <2>1, <3>2, <2>2, <1>1, <1>3, <1>4, <1>5 DEF Counters
    <2>3. CASE r + 1 = SlotCount
      <3>1. c + 1 = SlotCount * (q + 1) + 0
        BY <1>1, <1>4, <2>3
      <3>2. Index(c + 1) = 0
        BY <3>1, <1>1, <1>4, ModUnique, q + 1 \in Int, 0 \in 0 .. SlotCount - 1 DEF Index
      <3>3. QED
        BY <2>1, <3>2, <2>3, <1>1, <1>3, <1>4, <1>5 DEF Counters
    <2>4. QED
      BY <2>2, <2>3, <1>1, <1>4
  <1>6. CASE c + 1 = CounterSpan
    <2>1. Bump(c) = 0
      BY <1>4, <1>6 DEF Bump
    <2>2. Index(0) = 0
      BY <1>4 DEF Index
    <2>3. c = SlotCount * (k - 1) + (SlotCount - 1)
      BY <1>2, <1>4, <1>6
    <2>4. Index(c) = SlotCount - 1
      BY <2>3, <1>2, <1>4, ModUnique, k - 1 \in Int, SlotCount - 1 \in 0 .. SlotCount - 1 DEF Index
    <2>5. QED
      BY <2>1, <2>2, <2>4, <1>3, <1>4 DEF Counters
  <1>7. QED
    BY <1>4, <1>5, <1>6

\* A counter modulo the capacity is a position of the entry array.
LEMMA IndexInSlots ==
    ASSUME NEW c \in Counters
    PROVE  Index(c) \in Slots
PROOF
  <1>1. c \in Int /\ SlotCount \in Nat \ {0}
    BY SlotPoolAssumption DEF Counters
  <1>2. QED
    BY <1>1 DEF Index, Slots

\* The wrapping difference of two counters, without the modulus.
LEMMA Difference ==
    ASSUME NEW h \in Counters, NEW t \in Counters
    PROVE  (h - t) % CounterSpan = IF h >= t THEN h - t ELSE h - t + CounterSpan
PROOF
  <1>1. h \in Int /\ t \in Int /\ 0 <= h /\ h < CounterSpan /\ 0 <= t /\ t < CounterSpan
        /\ CounterSpan \in Nat \ {0}
    BY SlotPoolAssumption DEF Counters
  <1>2. CASE h >= t
    BY <1>1, <1>2
  <1>3. CASE h < t
    <2>1. h - t = CounterSpan * (-1) + (h - t + CounterSpan)
      BY <1>1
    <2>2. h - t + CounterSpan \in 0 .. CounterSpan - 1
      BY <1>1, <1>3
    <2>3. QED
      BY <2>1, <2>2, <1>1, <1>3, ModUnique, -1 \in Int
  <1>4. QED
    BY <1>1, <1>2, <1>3

-----------------------------------------------------------------------------
(***************************************************************************)
(* What a store of either counter does to the window of occupied positions. *)
(***************************************************************************)

Distance(h, t) == (h - t) % CounterSpan
Window(h, t)   == {i \in Slots : Offset(i, Index(t)) < Distance(h, t)}
Wrapped(x)     == IF x >= SlotCount THEN x - SlotCount ELSE x

\* Bump without the modulus.
LEMMA BumpCase ==
    ASSUME NEW c \in Counters
    PROVE  Bump(c) = IF c + 1 = CounterSpan THEN 0 ELSE c + 1
PROOF
  <1>1. c \in Int /\ 0 <= c /\ c + 1 <= CounterSpan /\ CounterSpan \in Nat \ {0}
    BY SlotPoolAssumption DEF Counters
  <1>2. CASE c + 1 = CounterSpan
    BY <1>1, <1>2 DEF Bump
  <1>3. CASE c + 1 < CounterSpan
    BY <1>1, <1>3 DEF Bump
  <1>4. QED
    BY <1>1, <1>2, <1>3

\* A push adds the position at the head, which was vacant.
LEMMA PushWindow ==
    ASSUME CounterSpan % SlotCount = 0,
           NEW h \in Counters, NEW t \in Counters,
           Distance(h, t) \in 0 .. SlotCount - 1,
           Index(h) = Wrapped(Index(t) + Distance(h, t))
    PROVE  /\ Distance(Bump(h), t) = Distance(h, t) + 1
           /\ Index(Bump(h)) = Wrapped(Index(t) + Distance(h, t) + 1)
           /\ Index(h) \notin Window(h, t)
           /\ Window(Bump(h), t) = Window(h, t) \union {Index(h)}
PROOF
  <1>1. /\ SlotCount \in Nat \ {0} /\ CounterSpan \in Nat /\ CounterSpan > SlotCount
        /\ h \in Int /\ 0 <= h /\ h < CounterSpan
        /\ t \in Int /\ 0 <= t /\ t < CounterSpan
    BY SlotPoolAssumption DEF Counters
  <1>2. Bump(h) \in Counters /\ Index(h) \in Slots /\ Index(t) \in Slots
    BY IndexBump
  <1>3. Distance(Bump(h), t) = Distance(h, t) + 1
    BY <1>1, <1>2, BumpCase, Difference DEF Distance
  <1>4. Index(Bump(h)) = Wrapped(Index(t) + Distance(h, t) + 1)
    BY <1>1, <1>2, IndexBump DEF Wrapped, Slots
  <1>5. Index(h) \notin Window(h, t)
    BY <1>1, <1>2 DEF Window, Offset, Wrapped, Slots
  <1>6. ASSUME NEW i \in Slots
        PROVE  Offset(i, Index(t)) < Distance(h, t) + 1
                 <=> Offset(i, Index(t)) < Distance(h, t) \/ i = Index(h)
    BY <1>1, <1>2 DEF Offset, Wrapped, Slots
  <1>7. Window(Bump(h), t) = Window(h, t) \union {Index(h)}
    BY <1>2, <1>3, <1>6 DEF Window
  <1>8. QED
    BY <1>3, <1>4, <1>5, <1>7

\* A pop removes the position at the tail, which was occupied.
LEMMA PopWindow ==
    ASSUME CounterSpan % SlotCount = 0,
           NEW h \in Counters, NEW t \in Counters,
           Distance(h, t) \in 1 .. SlotCount,
           Index(h) = Wrapped(Index(t) + Distance(h, t))
    PROVE  /\ Distance(h, Bump(t)) = Distance(h, t) - 1
           /\ Index(h) = Wrapped(Index(Bump(t)) + Distance(h, t) - 1)
           /\ Index(t) \in Window(h, t)
           /\ Window(h, Bump(t)) = Window(h, t) \ {Index(t)}
PROOF
  <1>1. /\ SlotCount \in Nat \ {0} /\ CounterSpan \in Nat /\ CounterSpan > SlotCount
        /\ h \in Int /\ 0 <= h /\ h < CounterSpan
        /\ t \in Int /\ 0 <= t /\ t < CounterSpan
    BY SlotPoolAssumption DEF Counters
  <1>2. Bump(t) \in Counters /\ Index(h) \in Slots /\ Index(t) \in Slots
        /\ Index(Bump(t)) = IF Index(t) + 1 = SlotCount THEN 0 ELSE Index(t) + 1
    BY IndexBump
  <1>3. Distance(h, Bump(t)) = Distance(h, t) - 1
    <2>1. Distance(h, t) = IF h >= t THEN h - t ELSE h - t + CounterSpan
      BY Difference DEF Distance
    <2>2. Distance(h, Bump(t)) = IF h >= Bump(t) THEN h - Bump(t) ELSE h - Bump(t) + CounterSpan
      BY <1>2, Difference DEF Distance
    <2>3. Bump(t) = IF t + 1 = CounterSpan THEN 0 ELSE t + 1
      BY BumpCase
    <2>4. Distance(h, t) \in Int /\ Distance(h, t) >= 1
      BY <1>1
    <2>5. QED
      BY <1>1, <2>1, <2>2, <2>3, <2>4
  <1>4. Index(h) = Wrapped(Index(Bump(t)) + Distance(h, t) - 1)
    BY <1>1, <1>2 DEF Wrapped, Slots
  <1>5. Index(t) \in Window(h, t)
    BY <1>1, <1>2 DEF Window, Offset, Slots
  <1>6. ASSUME NEW i \in Slots
        PROVE  Offset(i, Index(Bump(t))) < Distance(h, t) - 1
                 <=> Offset(i, Index(t)) < Distance(h, t) /\ i # Index(t)
    BY <1>1, <1>2 DEF Offset, Wrapped, Slots
  <1>7. Window(h, Bump(t)) = Window(h, t) \ {Index(t)}
    BY <1>2, <1>3, <1>6 DEF Window
  <1>8. QED
    BY <1>3, <1>4, <1>5, <1>7

-----------------------------------------------------------------------------
(***************************************************************************)
(* The inductive invariant.  SlotsConserved alone is not inductive: a step  *)
(* in the middle of push or pop relies on what the earlier steps of the     *)
(* same operation saw, and the length of a ring on where its ends are.      *)
(***************************************************************************)

\* The ends of a ring are as far apart, position by position, as its counters.
RingShape ==
    \A r \in Rings :
        /\ RingLen(r) \in 0 .. SlotCount
        /\ Index(head[r]) = Wrapped(Index(tail[r]) + RingLen(r))

\* An actor inside pop has an entry to take, and has read the oldest one.
PopSound ==
    \A a \in Actors :
        /\ pc[a] \in {"pop_read", "pop_store"} => RingLen(PopRing(a)) > 0
        /\ pc[a] = "pop_store" =>
               slot[a] = entries[PopRing(a)][Index(tail[PopRing(a)])]

\* An actor inside push holds its slot, has room, and has written the entry.
PushSound ==
    \A a \in Actors :
        /\ pc[a] \in {"push_write", "push_store"} =>
               slot[a] \in held[a] /\ RingLen(PushRing(a)) < SlotCount
        /\ pc[a] = "push_store" =>
               slot[a] = entries[PushRing(a)][Index(head[PushRing(a)])]

IInv == TypeOK /\ RingShape /\ PopSound /\ PushSound /\ SlotsConserved /\ PushNeverRefused

-----------------------------------------------------------------------------
(***************************************************************************)
(* Consequences of the invariant.                                          *)
(***************************************************************************)

\* The occupied positions of a ring are those between its two counters.
LEMMA RingWindow ==
    /\ \A r \in Rings : RingLen(r) = Distance(head[r], tail[r])
    /\ \A r \in Rings : Occupied(r) = Window(head[r], tail[r])
PROOF
  BY DEF RingLen, Distance, Occupied, Window

\* The ring one side pops is the one the other side pushes, and no ring is
\* both popped and pushed by the same side.
LEMMA RingsOfActors ==
    /\ \A a \in Actors : PopRing(a) \in Rings /\ PushRing(a) \in Rings
    /\ \A a \in Actors : PopRing(a) # PushRing(a)
    /\ \A a, b \in Actors : PopRing(a) = PopRing(b) => a = b
    /\ \A a, b \in Actors : PushRing(a) = PushRing(b) => a = b
PROOF
  BY DEF PopRing, PushRing, Rings, Actors

\* Whoever holds a slot leaves room for it in both rings: a full ring would
\* hold every slot (its entries are distinct, so all of them occur).
LEMMA RoomWhenHolding ==
    ASSUME TypeOK, RingShape, NoDuplicateEntry, OnePlacePerSlot,
           NEW a \in Actors, held[a] # {}, NEW r \in Rings
    PROVE  RingLen(r) < SlotCount
PROOF
  <1>1. SUFFICES ASSUME RingLen(r) = SlotCount PROVE FALSE
    BY SlotPoolAssumption DEF RingShape
  <1>2. Index(tail[r]) \in Slots
    BY IndexInSlots DEF TypeOK
  <1>3. \A i \in Slots : Offset(i, Index(tail[r])) < SlotCount
    BY <1>2, SlotPoolAssumption DEF Offset, Slots
  <1>4. Occupied(r) = Slots
    BY <1>1, <1>3 DEF Occupied
  <1>5. entries[r] \in [Slots -> Slots]
    BY DEF TypeOK
  <1>6. entries[r] \in Injection(Slots, Slots)
    BY <1>4, <1>5 DEF NoDuplicateEntry, Injection, IsInjective
  <1>7. IsFiniteSet(Slots)
    BY FS_Interval, SlotPoolAssumption, 0 \in Int, SlotCount - 1 \in Int DEF Slots
  <1>8. entries[r] \in Surjection(Slots, Slots)
    BY <1>6, <1>7, FS_Injection
  <1>9. \A s \in Slots : \E i \in Slots : entries[r][i] = s
    BY <1>8 DEF Surjection
  <1>10. Queued(r) = Slots
    BY <1>4, <1>5, <1>9 DEF Queued
  <1>11. PICK s \in held[a] : TRUE
    OBVIOUS
  <1>12. s \in Slots
    BY <1>11 DEF TypeOK
  <1>13. QED
    BY <1>10, <1>11, <1>12 DEF OnePlacePerSlot

-----------------------------------------------------------------------------
(***************************************************************************)
(* The invariant is preserved, action by action.                           *)
(***************************************************************************)

\* A fresh pool (SlotPool::new) has every slot in the free ring, once.
LEMMA InitIInv == CounterSpan % SlotCount = 0 /\ Init => IInv
PROOF
  <1> SUFFICES ASSUME CounterSpan % SlotCount = 0, Init PROVE IInv
    OBVIOUS
  <1>1. SlotCount \in Nat \ {0} /\ CounterSpan \in Nat /\ CounterSpan > SlotCount
    BY SlotPoolAssumption
  <1>2. SlotCount \in Counters /\ 0 \in Counters /\ 0 \in Slots
    BY <1>1 DEF Counters, Slots
  <1>3. TypeOK
    <2>1. head \in [Rings -> Counters] /\ tail \in [Rings -> Counters]
      BY <1>2 DEF Init
    <2>2. entries \in [Rings -> [Slots -> Slots]]
      BY <1>2 DEF Init
    <2>3. QED
      BY <1>2, <2>1, <2>2 DEF Init, TypeOK, PcTable
  <1>4. Index(0) = 0 /\ Index(SlotCount) = 0
    BY <1>1 DEF Index
  <1>5. Distance(SlotCount, 0) = SlotCount /\ Distance(0, 0) = 0
    BY <1>1, <1>2, Difference DEF Distance
  <1>6. /\ RingLen("free") = SlotCount /\ RingLen("ready") = 0
        /\ Index(head["free"]) = 0 /\ Index(head["ready"]) = 0
        /\ Index(tail["free"]) = 0 /\ Index(tail["ready"]) = 0
    BY <1>4, <1>5 DEF Init, RingLen, Distance, Rings
  <1>7. RingShape
    BY <1>1, <1>6 DEF RingShape, Rings, Wrapped
  <1>8. Occupied("free") = Slots /\ Occupied("ready") = {}
    <2>1. \A i \in Slots : Offset(i, 0) = i /\ i < SlotCount /\ ~(i < 0)
      BY <1>1 DEF Offset, Slots
    <2>2. QED
      BY <1>6, <2>1 DEF Occupied
  <1>9. Queued("free") = Slots /\ Queued("ready") = {}
    <2>1. \A i \in Slots : entries["free"][i] = i
      BY DEF Init, Rings
    <2>2. QED
      BY <1>8, <2>1 DEF Queued
  <1>10. NoDuplicateEntry
    BY <1>8 DEF NoDuplicateEntry, Init, Rings
  <1>11. OnePlacePerSlot /\ NoSlotLost
    BY <1>9 DEF OnePlacePerSlot, NoSlotLost, Init, Rings, Actors
  <1>12. PopSound /\ PushSound /\ PushNeverRefused
    BY DEF PopSound, PushSound, PushNeverRefused, Init
  <1>13. QED
    BY <1>3, <1>7, <1>10, <1>11, <1>12 DEF IInv, SlotsConserved

\* A check of the own counter against the other one disturbs no ring.
LEMMA RingsUnchanged ==
    ASSUME UNCHANGED <<head, tail, entries>>
    PROVE  /\ \A r \in Rings : RingLen(r)' = RingLen(r)
           /\ \A r \in Rings : Occupied(r)' = Occupied(r)
           /\ \A r \in Rings : Queued(r)' = Queued(r)
PROOF
  BY DEF RingLen, Occupied, Queued

\* The emptiness check of a pop establishes that the entry it will read is
\* occupied.
LEMMA PopCheckIInv ==
    ASSUME IInv, NEW a \in Actors, PopCheck(a)
    PROVE  IInv'
PROOF
  <1>1. TypeOK'
    BY DEF IInv, TypeOK, PopCheck, PcTable
  <1>2. /\ \A r \in Rings : RingLen(r)' = RingLen(r)
        /\ \A r \in Rings : Occupied(r)' = Occupied(r)
        /\ \A r \in Rings : Queued(r)' = Queued(r)
    BY RingsUnchanged DEF PopCheck
  <1>3. RingShape'
    BY <1>2 DEF IInv, RingShape, PopCheck
  <1>4. SlotsConserved'
    BY <1>2 DEF IInv, SlotsConserved, NoDuplicateEntry, OnePlacePerSlot, NoSlotLost,
                PopCheck, Rings
  <1>5. PopSound'
    <2>1. ~IsEmpty(PopRing(a)) => RingLen(PopRing(a)) > 0
      <3> DEFINE h == head[PopRing(a)]
                 t == tail[PopRing(a)]
      <3>1. h \in Counters /\ t \in Counters
        BY RingsOfActors DEF IInv, TypeOK
      <3>2. RingLen(PopRing(a)) = IF h >= t THEN h - t ELSE h - t + CounterSpan
        BY <3>1, Difference DEF RingLen
      <3>3. h \in Int /\ t \in Int /\ h >= 0 /\ t < CounterSpan /\ CounterSpan \in Int
        BY <3>1, SlotPoolAssumption DEF Counters
      <3> HIDE DEF h, t
      <3>4. h # t => RingLen(PopRing(a)) > 0
        BY <3>2, <3>3
      <3>5. QED
        BY <3>4 DEF IsEmpty, h, t
    <2>2. \A b \in Actors : RingLen(PopRing(b))' = RingLen(PopRing(b))
      BY <1>2, RingsOfActors DEF PopRing
    <2>3. QED
      BY <2>1, <2>2 DEF IInv, TypeOK, PopSound, PopCheck
  <1>6. PushSound'
    <2>1. \A b \in Actors : RingLen(PushRing(b))' = RingLen(PushRing(b))
      BY <1>2, RingsOfActors DEF PushRing
    <2>2. QED
      BY <2>1 DEF IInv, TypeOK, PushSound, PopCheck
  <1>7. PushNeverRefused'
    BY DEF IInv, TypeOK, PushNeverRefused, PopCheck
  <1>8. QED
    BY <1>1, <1>3, <1>4, <1>5, <1>6, <1>7 DEF IInv

\* The entry a pop has read is the oldest of the ring.
LEMMA PopReadIInv ==
    ASSUME IInv, NEW a \in Actors, PopRead(a)
    PROVE  IInv'
PROOF
  <1>1. TypeOK'
    <2>1. tail[PopRing(a)] \in Counters
      BY RingsOfActors DEF IInv, TypeOK
    <2>2. entries[PopRing(a)][Index(tail[PopRing(a)])] \in Slots
      BY <2>1, IndexInSlots, RingsOfActors DEF IInv, TypeOK
    <2>3. QED
      BY <2>2 DEF IInv, TypeOK, PopRead, PcTable
  <1>2. /\ \A r \in Rings : RingLen(r)' = RingLen(r)
        /\ \A r \in Rings : Occupied(r)' = Occupied(r)
        /\ \A r \in Rings : Queued(r)' = Queued(r)
    BY RingsUnchanged DEF PopRead
  <1>3. RingShape'
    BY <1>2 DEF IInv, RingShape, PopRead
  <1>4. SlotsConserved'
    BY <1>2 DEF IInv, SlotsConserved, NoDuplicateEntry, OnePlacePerSlot, NoSlotLost,
                PopRead, Rings
  <1>5. PopSound'
    <2>1. \A b \in Actors : RingLen(PopRing(b))' = RingLen(PopRing(b))
      BY <1>2, RingsOfActors DEF PopRing
    <2>2. QED
      BY <2>1 DEF IInv, TypeOK, PopSound, PopRead, PopRing
  <1>6. PushSound'
    <2>1. \A b \in Actors : RingLen(PushRing(b))' = RingLen(PushRing(b))
      BY <1>2, RingsOfActors DEF PushRing
    <2>2. QED
      BY <2>1 DEF IInv, TypeOK, PushSound, PopRead, PushRing
  <1>7. PushNeverRefused'
    BY DEF IInv, PushNeverRefused, PopRead
  <1>8. QED
    BY <1>1, <1>3, <1>4, <1>5, <1>6, <1>7 DEF IInv

\* The store of the tail moves the oldest entry from the ring to the actor.
LEMMA PopStoreIInv ==
    ASSUME CounterSpan % SlotCount = 0, IInv, NEW a \in Actors, PopStore(a)
    PROVE  IInv'
PROOF
  <1> DEFINE r == PopRing(a)
             i == Index(tail[r])
  <1>1. r \in Rings /\ head[r] \in Counters /\ tail[r] \in Counters
    BY RingsOfActors DEF IInv, TypeOK
  <1>2. Distance(head[r], tail[r]) \in 1 .. SlotCount
    BY <1>1, RingWindow, SlotPoolAssumption DEF IInv, RingShape, PopSound, PopStore
  <1>3. Index(head[r]) = Wrapped(Index(tail[r]) + Distance(head[r], tail[r]))
    BY <1>1, RingWindow DEF IInv, RingShape
  <1>4. /\ Distance(head[r], Bump(tail[r])) = Distance(head[r], tail[r]) - 1
        /\ Index(head[r]) = Wrapped(Index(Bump(tail[r])) + Distance(head[r], tail[r]) - 1)
        /\ i \in Window(head[r], tail[r])
        /\ Window(head[r], Bump(tail[r])) = Window(head[r], tail[r]) \ {i}
    BY <1>1, <1>2, <1>3, PopWindow
  <1>5. head' = head /\ entries' = entries /\ tail' = [tail EXCEPT ![r] = Bump(@)]
    BY DEF PopStore
  <1>6. /\ tail'[r] = Bump(tail[r])
        /\ \A q \in Rings \ {r} : tail'[q] = tail[q]
    BY <1>1, <1>5 DEF IInv, TypeOK
  <1>7. slot[a] = entries[r][i] /\ slot[a] \in Slots
    BY DEF IInv, PopSound, PopStore, TypeOK
  <1>8. /\ RingLen(r)' = RingLen(r) - 1
        /\ Occupied(r)' = Occupied(r) \ {i}
        /\ i \in Occupied(r)
        /\ \A q \in Rings \ {r} : RingLen(q)' = RingLen(q) /\ Occupied(q)' = Occupied(q)
    BY <1>1, <1>4, <1>5, <1>6 DEF RingLen, Distance, Occupied, Window
  <1>9. TypeOK'
    BY <1>1, <1>7, IndexBump DEF IInv, TypeOK, PopStore, PcTable
  <1>10. RingShape'
    <2>1. RingLen(r)' \in 0 .. SlotCount
      BY <1>1, <1>2, <1>8, RingWindow, SlotPoolAssumption
    <2>2. Index(head'[r]) = Wrapped(Index(tail'[r]) + RingLen(r)')
      BY <1>1, <1>2, <1>4, <1>5, <1>6, <1>8, RingWindow, SlotPoolAssumption DEF IInv, RingShape
    <2>3. \A q \in Rings \ {r} : /\ RingLen(q)' \in 0 .. SlotCount
                                /\ Index(head'[q]) = Wrapped(Index(tail'[q]) + RingLen(q)')
      BY <1>5, <1>6, <1>8 DEF IInv, RingShape
    <2>4. QED
      BY <2>1, <2>2, <2>3, <1>5 DEF RingShape
  <1>11. NoDuplicateEntry'
    BY <1>5, <1>8 DEF IInv, SlotsConserved, NoDuplicateEntry
  <1>12. /\ Queued(r)' = Queued(r) \ {slot[a]}
         /\ slot[a] \in Queued(r)
         /\ \A q \in Rings \ {r} : Queued(q)' = Queued(q)
    <2>1. \A j \in Occupied(r) : entries[r][j] = slot[a] => j = i
      BY <1>1, <1>7, <1>8 DEF IInv, SlotsConserved, NoDuplicateEntry
    <2>2. Queued(r)' = {entries[r][j] : j \in Occupied(r) \ {i}}
      BY <1>5, <1>8 DEF Queued
    <2>3. Queued(r)' = Queued(r) \ {slot[a]}
      BY <2>1, <2>2, <1>7 DEF Queued
    <2>4. slot[a] \in Queued(r)
      BY <1>7, <1>8 DEF Queued
    <2>5. \A q \in Rings \ {r} : Queued(q)' = Queued(q)
      BY <1>5, <1>8 DEF Queued
    <2>6. QED
      BY <2>3, <2>4, <2>5
  <1>13. /\ held'[a] = held[a] \union {slot[a]}
         /\ \A b \in Actors \ {a} : held'[b] = held[b]
    BY DEF IInv, TypeOK, PopStore
  <1>14. OnePlacePerSlot'
    <2>1. /\ \A q \in Rings : q # r => Queued(q) \intersect Queued(r) = {}
          /\ \A b \in Actors : b # a => held[b] \intersect held[a] = {}
          /\ \A q \in Rings, b \in Actors : Queued(q) \intersect held[b] = {}
      BY <1>1 DEF IInv, SlotsConserved, OnePlacePerSlot, Rings, Actors
    <2>2. /\ \A q \in Rings : q # r => Queued(q)' \intersect Queued(r)' = {}
          /\ \A b \in Actors : b # a => held'[b] \intersect held'[a] = {}
          /\ \A q \in Rings, b \in Actors : Queued(q)' \intersect held'[b] = {}
      BY <2>1, <1>1, <1>12, <1>13
    <2>3. Queued("free")' \intersect Queued("ready")' = {}
      BY <2>2, <1>1 DEF Rings
    <2>4. held'["producer"] \intersect held'["consumer"] = {}
      BY <2>2 DEF Actors
    <2>5. QED
      BY <2>2, <2>3, <2>4 DEF OnePlacePerSlot
  <1>15. NoSlotLost'
    BY <1>1, <1>12, <1>13 DEF IInv, SlotsConserved, NoSlotLost, Rings, Actors
  <1>16. PopSound'
    <2>1. \A b \in Actors \ {a} : PopRing(b) \in Rings \ {r}
      BY RingsOfActors
    <2>2. pc'[a] = "idle" /\ \A b \in Actors \ {a} : pc'[b] = pc[b]
      BY DEF IInv, TypeOK, PopStore
    <2>3. slot' = slot
      BY DEF PopStore
    <2>4. \A b \in Actors \ {a} : /\ RingLen(PopRing(b))' = RingLen(PopRing(b))
                                 /\ tail'[PopRing(b)] = tail[PopRing(b)]
      BY <2>1, <1>6, <1>8 DEF PopRing
    <2>5. QED
      BY <2>2, <2>3, <2>4, <1>5 DEF IInv, PopSound
  <1>17. PushSound'
    <2>1. pc'[a] = "idle" /\ \A b \in Actors \ {a} : pc'[b] = pc[b]
      BY DEF IInv, TypeOK, PopStore
    <2>2. slot' = slot
      BY DEF PopStore
    <2>3. \A q \in Rings : RingLen(q) \in Int /\ RingLen(q)' <= RingLen(q) /\ RingLen(q)' \in Int
      BY <1>8, <1>10, SlotPoolAssumption DEF IInv, RingShape
    <2>4. \A b \in Actors : PushRing(b)' = PushRing(b) /\ PushRing(b) \in Rings
      BY RingsOfActors DEF PushRing
    <2>5. \A b \in Actors : RingLen(PushRing(b))' <= RingLen(PushRing(b))
      BY <2>3, <2>4 DEF PushRing
    <2>6. \A b \in Actors : RingLen(PushRing(b)) < SlotCount => RingLen(PushRing(b))' < SlotCount
      BY <2>3, <2>4, <2>5, SlotPoolAssumption DEF PushRing
    <2>7. QED
      BY <2>1, <2>2, <2>6, <1>5, <1>13 DEF IInv, PushSound
  <1>18. PushNeverRefused'
    BY DEF IInv, TypeOK, PushNeverRefused, PopStore
  <1>19. QED
    BY <1>9, <1>10, <1>11, <1>14, <1>15, <1>16, <1>17, <1>18 DEF IInv, SlotsConserved

\* The check of a push finds room, because its caller holds a slot.
LEMMA PushCheckIInv ==
    ASSUME IInv, NEW a \in Actors, NEW s \in Slots, PushCheck(a, s)
    PROVE  IInv'
PROOF
  <1>1. RingLen(PushRing(a)) < SlotCount
    BY RoomWhenHolding, RingsOfActors DEF IInv, SlotsConserved, PushCheck
  <1>2. RingLen(PushRing(a)) \in Int /\ SlotCount \in Int
    BY RingsOfActors, SlotPoolAssumption DEF IInv, RingShape
  <1>3. ~IsFull(PushRing(a))
    BY <1>1, <1>2 DEF IsFull
  <1>4. /\ pc[a] = "idle" /\ s \in held[a]
        /\ slot' = [slot EXCEPT ![a] = s]
        /\ pc' = [pc EXCEPT ![a] = "push_write"]
        /\ outcome' = [outcome EXCEPT ![a] = "none"]
        /\ held' = held
        /\ UNCHANGED <<head, tail, entries>>
    BY <1>3 DEF PushCheck, IInv, TypeOK
  <1>5. TypeOK'
    BY <1>4 DEF IInv, TypeOK, PcTable
  <1>6. /\ \A r \in Rings : RingLen(r)' = RingLen(r)
        /\ \A r \in Rings : Occupied(r)' = Occupied(r)
        /\ \A r \in Rings : Queued(r)' = Queued(r)
    BY <1>4, RingsUnchanged
  <1>7. RingShape'
    BY <1>4, <1>6 DEF IInv, RingShape
  <1>8. SlotsConserved'
    BY <1>4, <1>6 DEF IInv, SlotsConserved, NoDuplicateEntry, OnePlacePerSlot, NoSlotLost,
                      Rings
  <1>9. PopSound'
    <2>1. \A b \in Actors : RingLen(PopRing(b))' = RingLen(PopRing(b))
      BY <1>6, RingsOfActors DEF PopRing
    <2>2. QED
      BY <1>4, <2>1 DEF IInv, TypeOK, PopSound, PopRing
  <1>10. PushSound'
    <2>1. \A b \in Actors : RingLen(PushRing(b))' = RingLen(PushRing(b))
      BY <1>6, RingsOfActors DEF PushRing
    <2>2. QED
      BY <1>1, <1>4, <2>1 DEF IInv, TypeOK, PushSound, PushRing
  <1>11. PushNeverRefused'
    BY <1>4 DEF IInv, TypeOK, PushNeverRefused
  <1>12. QED
    BY <1>5, <1>7, <1>8, <1>9, <1>10, <1>11 DEF IInv

\* The entry is written at a vacant position, so no queued entry changes.
LEMMA PushWriteIInv ==
    ASSUME CounterSpan % SlotCount = 0, IInv, NEW a \in Actors, PushWrite(a)
    PROVE  IInv'
PROOF
  <1> DEFINE r == PushRing(a)
             i == Index(head[r])
  <1>1. r \in Rings /\ head[r] \in Counters /\ tail[r] \in Counters /\ i \in Slots
    BY RingsOfActors, IndexInSlots DEF IInv, TypeOK
  <1>2. Distance(head[r], tail[r]) \in 0 .. SlotCount - 1
    BY <1>1, RingWindow, SlotPoolAssumption DEF IInv, RingShape, PushSound, PushWrite
  <1>3. i \notin Occupied(r)
    BY <1>1, <1>2, RingWindow, PushWindow DEF IInv, RingShape
  <1>4. /\ entries' = [entries EXCEPT ![r][i] = slot[a]]
        /\ head' = head /\ tail' = tail /\ held' = held /\ slot' = slot
        /\ pc' = [pc EXCEPT ![a] = "push_store"]
    BY DEF PushWrite
  <1>5. TypeOK'
    BY <1>1, <1>4 DEF IInv, TypeOK, PcTable, PushWrite
  <1>6. /\ entries'[r][i] = slot[a]
        /\ \A q \in Rings, j \in Slots : q # r \/ j # i => entries'[q][j] = entries[q][j]
    BY <1>1, <1>4 DEF IInv, TypeOK
  <1>7. \A q \in Rings : RingLen(q)' = RingLen(q) /\ Occupied(q)' = Occupied(q)
    BY <1>4 DEF RingLen, Occupied
  <1>8. \A q \in Rings, j \in Slots : j \in Occupied(q) => entries'[q][j] = entries[q][j]
    BY <1>3, <1>6
  <1>9. \A q \in Rings : Queued(q)' = Queued(q)
    BY <1>7, <1>8 DEF Queued, Occupied
  <1>10. RingShape'
    BY <1>4, <1>7 DEF IInv, RingShape
  <1>11. SlotsConserved'
    <2>1. NoDuplicateEntry'
      BY <1>7, <1>8 DEF IInv, SlotsConserved, NoDuplicateEntry, Occupied
    <2>2. OnePlacePerSlot' /\ NoSlotLost'
      BY <1>4, <1>9 DEF IInv, SlotsConserved, OnePlacePerSlot, NoSlotLost, Rings
    <2>3. QED
      BY <2>1, <2>2 DEF SlotsConserved
  <1>12. PopSound'
    <2>1. ASSUME NEW b \in Actors
          PROVE  /\ PopRing(b)' = PopRing(b) /\ PopRing(b) \in Rings
                 /\ RingLen(PopRing(b))' = RingLen(PopRing(b))
      BY <1>7, RingsOfActors DEF PopRing
    <2>2. ASSUME NEW b \in Actors, pc'[b] \in {"pop_read", "pop_store"}
          PROVE  pc[b] = pc'[b]
      BY <1>1, <1>4, <2>2 DEF IInv, TypeOK
    <2>3. ASSUME NEW b \in Actors, pc'[b] = "pop_store"
          PROVE  slot'[b] = entries'[PopRing(b)][Index(tail'[PopRing(b)])]
      <3> DEFINE q == PopRing(b)
                 j == Index(tail[q])
      <3>1. q \in Rings /\ head[q] \in Counters /\ tail[q] \in Counters
        BY <2>1 DEF IInv, TypeOK
      <3>2. Distance(head[q], tail[q]) \in 1 .. SlotCount
        BY <2>2, <2>3, <3>1, RingWindow, SlotPoolAssumption DEF IInv, RingShape, PopSound
      <3>3. j \in Occupied(q)
        BY <3>1, <3>2, RingWindow, PopWindow DEF IInv, RingShape
      <3>4. entries'[q][j] = entries[q][j]
        BY <1>8, <3>1, <3>3, IndexInSlots
      <3>5. slot[b] = entries[q][j]
        BY <2>2, <2>3 DEF IInv, PopSound
      <3>6. QED
        BY <1>4, <3>4, <3>5
    <2>4. QED
      BY <2>1, <2>2, <2>3 DEF IInv, PopSound, PopRing
  <1>13. PushSound'
    <2>1. ASSUME NEW b \in Actors
          PROVE  /\ PushRing(b)' = PushRing(b) /\ PushRing(b) \in Rings
                 /\ RingLen(PushRing(b))' = RingLen(PushRing(b))
      BY <1>7, RingsOfActors DEF PushRing
    <2>2. /\ pc[a] = "push_write" /\ pc'[a] = "push_store"
          /\ \A b \in Actors \ {a} : pc'[b] = pc[b]
      BY <1>4 DEF IInv, TypeOK, PushWrite
    <2>3. ASSUME NEW b \in Actors, pc'[b] \in {"push_write", "push_store"}
          PROVE  slot'[b] \in held'[b] /\ RingLen(PushRing(b))' < SlotCount
      BY <2>1, <2>2, <2>3, <1>4 DEF IInv, PushSound
    <2>4. ASSUME NEW b \in Actors, pc'[b] = "push_store"
          PROVE  slot'[b] = entries'[PushRing(b)][Index(head'[PushRing(b)])]
      <3>1. CASE b = a
        BY <3>1, <1>4, <1>6
      <3>2. CASE b # a
        <4>1. PushRing(b) \in Rings /\ PushRing(b) # r
          BY <3>2, RingsOfActors
        <4>2. Index(head[PushRing(b)]) \in Slots
          BY <4>1, IndexInSlots DEF IInv, TypeOK
        <4>3. slot[b] = entries[PushRing(b)][Index(head[PushRing(b)])]
          BY <2>2, <2>4, <3>2 DEF IInv, PushSound
        <4>4. QED
          BY <4>1, <4>2, <4>3, <1>4, <1>6
      <3>3. QED
        BY <3>1, <3>2
    <2>5. QED
      BY <2>1, <2>3, <2>4 DEF PushSound, PushRing
  <1>14. PushNeverRefused'
    BY DEF IInv, PushNeverRefused, PushWrite
  <1>15. QED
    BY <1>5, <1>10, <1>11, <1>12, <1>13, <1>14 DEF IInv

\* The store of the head moves the slot from the actor to the ring.
LEMMA PushStoreIInv ==
    ASSUME CounterSpan % SlotCount = 0, IInv, NEW a \in Actors, PushStore(a)
    PROVE  IInv'
PROOF
  <1> DEFINE r == PushRing(a)
             i == Index(head[r])
  <1>1. r \in Rings /\ head[r] \in Counters /\ tail[r] \in Counters /\ i \in Slots
    BY RingsOfActors, IndexInSlots DEF IInv, TypeOK
  <1>2. Distance(head[r], tail[r]) \in 0 .. SlotCount - 1
    BY <1>1, RingWindow, SlotPoolAssumption DEF IInv, RingShape, PushSound, PushStore
  <1>3. Index(head[r]) = Wrapped(Index(tail[r]) + Distance(head[r], tail[r]))
    BY <1>1, RingWindow DEF IInv, RingShape
  <1>4. /\ Distance(Bump(head[r]), tail[r]) = Distance(head[r], tail[r]) + 1
        /\ Index(Bump(head[r])) = Wrapped(Index(tail[r]) + Distance(head[r], tail[r]) + 1)
        /\ i \notin Window(head[r], tail[r])
        /\ Window(Bump(head[r]), tail[r]) = Window(head[r], tail[r]) \union {i}
    BY <1>1, <1>2, <1>3, PushWindow
  <1>5. tail' = tail /\ entries' = entries /\ slot' = slot
        /\ head' = [head EXCEPT ![r] = Bump(@)]
        /\ pc' = [pc EXCEPT ![a] = "idle"]
    BY DEF PushStore
  <1>6. /\ head'[r] = Bump(head[r])
        /\ \A q \in Rings \ {r} : head'[q] = head[q]
    BY <1>1, <1>5 DEF IInv, TypeOK
  <1>7. slot[a] = entries[r][i] /\ slot[a] \in held[a] /\ slot[a] \in Slots
    BY DEF IInv, PushSound, PushStore, TypeOK
  <1>8. /\ RingLen(r)' = RingLen(r) + 1
        /\ Occupied(r)' = Occupied(r) \union {i}
        /\ \A q \in Rings \ {r} : RingLen(q)' = RingLen(q) /\ Occupied(q)' = Occupied(q)
    BY <1>1, <1>4, <1>5, <1>6 DEF RingLen, Distance, Occupied, Window
  <1>9. TypeOK'
    BY <1>1, IndexBump DEF IInv, TypeOK, PushStore, PcTable
  <1>10. RingShape'
    <2>1. RingLen(r)' \in 0 .. SlotCount
      BY <1>1, <1>2, <1>8, RingWindow, SlotPoolAssumption
    <2>2. Index(head'[r]) = Wrapped(Index(tail'[r]) + RingLen(r)')
      <3>1. Index(tail[r]) \in Int
        BY <1>1, IndexInSlots, SlotPoolAssumption DEF Slots
      <3>2. RingLen(r)' = Distance(head[r], tail[r]) + 1
        BY <1>1, <1>8, RingWindow
      <3>3. Index(tail[r]) + RingLen(r)' = Index(tail[r]) + Distance(head[r], tail[r]) + 1
        BY <3>1, <3>2, <1>2
      <3>4. QED
        BY <3>3, <1>4, <1>5, <1>6
    <2>3. \A q \in Rings \ {r} : /\ RingLen(q)' \in 0 .. SlotCount
                                /\ Index(head'[q]) = Wrapped(Index(tail'[q]) + RingLen(q)')
      BY <1>5, <1>6, <1>8 DEF IInv, RingShape
    <2>4. QED
      BY <2>1, <2>2, <2>3, <1>5 DEF RingShape
  <1>11. /\ Queued(r)' = Queued(r) \union {slot[a]}
         /\ slot[a] \notin Queued(r)
         /\ \A q \in Rings \ {r} : Queued(q)' = Queued(q)
    <2>1. Queued(r)' = Queued(r) \union {slot[a]}
      BY <1>5, <1>7, <1>8 DEF Queued
    <2>2. slot[a] \notin Queued(r)
      BY <1>1, <1>7 DEF IInv, SlotsConserved, OnePlacePerSlot
    <2>3. \A q \in Rings \ {r} : Queued(q)' = Queued(q)
      BY <1>5, <1>8 DEF Queued
    <2>4. QED
      BY <2>1, <2>2, <2>3
  <1>12. NoDuplicateEntry'
    <2>1. \A j \in Occupied(r) : entries[r][j] # slot[a]
      BY <1>11 DEF Queued
    <2>2. \A j, k \in Occupied(r)' : entries[r][j] = entries[r][k] => j = k
      BY <2>1, <1>1, <1>7, <1>8 DEF IInv, SlotsConserved, NoDuplicateEntry
    <2>3. \A q \in Rings \ {r} : \A j, k \in Occupied(q)' :
              entries[q][j] = entries[q][k] => j = k
      BY <1>8 DEF IInv, SlotsConserved, NoDuplicateEntry
    <2>4. QED
      BY <2>2, <2>3, <1>5 DEF NoDuplicateEntry
  <1>13. /\ held'[a] = held[a] \ {slot[a]}
         /\ \A b \in Actors \ {a} : held'[b] = held[b]
    BY DEF IInv, TypeOK, PushStore
  <1>14. OnePlacePerSlot'
    <2>1. /\ \A q \in Rings : q # r => Queued(q) \intersect Queued(r) = {}
          /\ \A b \in Actors : b # a => held[b] \intersect held[a] = {}
          /\ \A q \in Rings, b \in Actors : Queued(q) \intersect held[b] = {}
      BY <1>1 DEF IInv, SlotsConserved, OnePlacePerSlot, Rings, Actors
    <2>2. /\ \A q \in Rings : q # r => Queued(q)' \intersect Queued(r)' = {}
          /\ \A b \in Actors : b # a => held'[b] \intersect held'[a] = {}
          /\ \A q \in Rings, b \in Actors : Queued(q)' \intersect held'[b] = {}
      BY <2>1, <1>1, <1>7, <1>11, <1>13
    <2>3. Queued("free")' \intersect Queued("ready")' = {}
      BY <2>2, <1>1 DEF Rings
    <2>4. held'["producer"] \intersect held'["consumer"] = {}
      BY <2>2 DEF Actors
    <2>5. QED
      BY <2>2, <2>3, <2>4 DEF OnePlacePerSlot
  <1>15. NoSlotLost'
    BY <1>1, <1>7, <1>11, <1>13 DEF IInv, SlotsConserved, NoSlotLost, Rings, Actors
  <1>16. pc'[a] = "idle" /\ \A b \in Actors \ {a} : pc'[b] = pc[b]
    BY <1>5 DEF IInv, TypeOK
  <1>17. PopSound'
    <2>1. \A q \in Rings : RingLen(q) \in Int /\ RingLen(q)' >= RingLen(q) /\ RingLen(q)' \in Int
      BY <1>8, <1>10, SlotPoolAssumption DEF IInv, RingShape
    <2>2. \A b \in Actors : PopRing(b)' = PopRing(b) /\ PopRing(b) \in Rings
      BY RingsOfActors DEF PopRing
    <2>3. \A b \in Actors : RingLen(PopRing(b))' >= RingLen(PopRing(b))
      BY <2>1, <2>2 DEF PopRing
    <2>4. \A b \in Actors : RingLen(PopRing(b)) > 0 => RingLen(PopRing(b))' > 0
      BY <2>1, <2>2, <2>3 DEF PopRing
    <2>5. QED
      BY <2>2, <2>4, <1>5, <1>16 DEF IInv, PopSound
  <1>18. PushSound'
    <2>1. \A b \in Actors \ {a} : PushRing(b) \in Rings \ {r} /\ PushRing(b)' = PushRing(b)
      BY RingsOfActors DEF PushRing
    <2>2. \A b \in Actors \ {a} : /\ RingLen(PushRing(b))' = RingLen(PushRing(b))
                                 /\ head'[PushRing(b)] = head[PushRing(b)]
      BY <2>1, <1>6, <1>8 DEF PushRing
    <2>3. QED
      BY <2>1, <2>2, <1>5, <1>13, <1>16 DEF IInv, PushSound
  <1>19. PushNeverRefused'
    BY DEF IInv, TypeOK, PushNeverRefused, PushStore
  <1>20. QED
    BY <1>9, <1>10, <1>12, <1>14, <1>15, <1>17, <1>18, <1>19 DEF IInv, SlotsConserved

-----------------------------------------------------------------------------
(***************************************************************************)
(* The theorems.                                                           *)
(***************************************************************************)

\* Every step of either side preserves the inductive invariant.
LEMMA NextIInv == CounterSpan % SlotCount = 0 /\ IInv /\ [Next]_vars => IInv'
PROOF
  <1> SUFFICES ASSUME CounterSpan % SlotCount = 0, IInv, [Next]_vars PROVE IInv'
    OBVIOUS
  <1>1. ASSUME NEW a \in Actors, PopCheck(a) PROVE IInv'
    BY <1>1, PopCheckIInv
  <1>2. ASSUME NEW a \in Actors, PopRead(a) PROVE IInv'
    BY <1>2, PopReadIInv
  <1>3. ASSUME NEW a \in Actors, PopStore(a) PROVE IInv'
    BY <1>3, PopStoreIInv
  <1>4. ASSUME NEW a \in Actors, NEW s \in Slots, PushCheck(a, s) PROVE IInv'
    BY <1>4, PushCheckIInv
  <1>5. ASSUME NEW a \in Actors, PushWrite(a) PROVE IInv'
    BY <1>5, PushWriteIInv
  <1>6. ASSUME NEW a \in Actors, PushStore(a) PROVE IInv'
    BY <1>6, PushStoreIInv
  <1>7. CASE UNCHANGED vars
    <2>1. /\ TypeOK' /\ RingShape' /\ PushNeverRefused'
      BY <1>7 DEF vars, IInv, TypeOK, RingShape, PushNeverRefused, RingLen
    <2>2. /\ \A r \in Rings : RingLen(r)' = RingLen(r)
          /\ \A r \in Rings : Occupied(r)' = Occupied(r)
          /\ \A r \in Rings : Queued(r)' = Queued(r)
      BY <1>7, RingsUnchanged DEF vars
    <2>3. SlotsConserved'
      BY <1>7, <2>2 DEF vars, IInv, SlotsConserved, NoDuplicateEntry, OnePlacePerSlot,
                        NoSlotLost, Rings
    <2>4. /\ \A b \in Actors : RingLen(PopRing(b))' = RingLen(PopRing(b))
          /\ \A b \in Actors : RingLen(PushRing(b))' = RingLen(PushRing(b))
      BY <2>2, RingsOfActors DEF PopRing, PushRing
    <2>5. PopSound' /\ PushSound'
      BY <1>7, <2>4 DEF vars, IInv, PopSound, PushSound, PopRing, PushRing
    <2>6. QED
      BY <2>1, <2>3, <2>5 DEF IInv
  <1>8. QED
    BY <1>1, <1>2, <1>3, <1>4, <1>5, <1>6, <1>7 DEF Next

\* The inductive invariant holds in every reachable state, whatever the number
\* of slots and the width of the counters, as long as the one divides the
\* span of the other (as the 8 frame slots divide 2^32).
THEOREM PoolInvariant == ASSUME CounterSpan % SlotCount = 0 PROVE Spec => []IInv
PROOF
  <1>1. Init => IInv
    BY InitIInv
  <1>2. IInv /\ [Next]_vars => IInv'
    BY NextIInv
  <1>3. QED
    BY <1>1, <1>2, PTL DEF Spec

\* The counters, entries and operations of slot_pool.rs keep their types.
THEOREM PoolTypeOK == ASSUME CounterSpan % SlotCount = 0 PROVE Spec => []TypeOK
PROOF
  <1>1. IInv => TypeOK
    BY DEF IInv
  <1>2. QED
    BY <1>1, PoolInvariant, PTL

\* No interleaving of the worker's and the UI's calls into slot_pool.rs loses
\* a slot, duplicates it, or gives it to both.
THEOREM PoolConservesSlots ==
    ASSUME CounterSpan % SlotCount = 0 PROVE Spec => []SlotsConserved
PROOF
  <1>1. IInv => SlotsConserved
    BY DEF IInv
  <1>2. QED
    BY <1>1, PoolInvariant, PTL

\* push_ready and release_free of a held slot never meet a full ring.
THEOREM PoolNeverRefuses ==
    ASSUME CounterSpan % SlotCount = 0 PROVE Spec => []PushNeverRefused
PROOF
  <1>1. IInv => PushNeverRefused
    BY DEF IInv
  <1>2. QED
    BY <1>1, PoolInvariant, PTL

\* The entry that pop reads is never the one that push is writing.
THEOREM PoolHasNoEntryRace ==
    ASSUME CounterSpan % SlotCount = 0 PROVE Spec => []NoEntryRace
PROOF
  <1>1. IInv => NoEntryRace
    <2> SUFFICES ASSUME IInv, NEW a \in Actors, NEW b \in Actors,
                        pc[a] = "pop_read", pc[b] = "push_write", PopRing(a) = PushRing(b)
                 PROVE  Index(tail[PopRing(a)]) # Index(head[PushRing(b)])
      BY DEF NoEntryRace
    <2> DEFINE r == PopRing(a)
    <2>1. r \in Rings /\ head[r] \in Counters /\ tail[r] \in Counters
      BY RingsOfActors DEF IInv, TypeOK
    <2>2. RingLen(r) > 0 /\ RingLen(r) < SlotCount /\ RingLen(r) \in 0 .. SlotCount
      BY <2>1 DEF IInv, RingShape, PopSound, PushSound
    <2>3. Index(tail[r]) \in Slots
      BY <2>1, IndexInSlots
    <2>4. Index(head[r]) = Wrapped(Index(tail[r]) + RingLen(r))
      BY <2>1 DEF IInv, RingShape
    <2>5. Index(head[r]) # Index(tail[r])
      BY <2>2, <2>3, <2>4, SlotPoolAssumption DEF Wrapped, Slots
    <2>6. QED
      BY <2>5
  <1>2. QED
    BY <1>1, PoolInvariant, PTL

-----------------------------------------------------------------------------
(***************************************************************************)
(* The rings are queues.  A ring with entries e and counters h and t holds  *)
(* the entries from t on, by position.                                      *)
(***************************************************************************)

InRing(e, h, t) ==
    [k \in 1 .. Distance(h, t) |-> e[Index((t + k - 1) % CounterSpan)]]

\* A sum of two positions wraps once at most.
LEMMA WrappedCases ==
    ASSUME NEW x \in Int
    PROVE  /\ x < SlotCount => Wrapped(x) = x
           /\ x >= SlotCount => Wrapped(x) = x - SlotCount
PROOF
  BY SlotPoolAssumption DEF Wrapped

\* The position d places behind a counter, across both wraps.
LEMMA IndexAhead ==
    ASSUME CounterSpan % SlotCount = 0, NEW t \in Counters, NEW d \in 0 .. SlotCount - 1
    PROVE  Index((t + d) % CounterSpan) = Wrapped(Index(t) + d)
PROOF
  <1> DEFINE q == t \div SlotCount
             i == Index(t)
             w == CounterSpan \div SlotCount
             c == (t + d) % CounterSpan
  <1>1. /\ SlotCount \in Nat \ {0} /\ CounterSpan \in Nat /\ CounterSpan > SlotCount
        /\ t \in Int /\ 0 <= t /\ t < CounterSpan /\ d \in Int /\ 0 <= d /\ d < SlotCount
    BY SlotPoolAssumption DEF Counters
  <1>2. q \in Int /\ i \in 0 .. SlotCount - 1 /\ t = SlotCount * q + i
    BY <1>1 DEF Index
  <1>3. w \in Int /\ CounterSpan = SlotCount * w
    BY <1>1
  <1>4. c = IF t + d < CounterSpan THEN t + d ELSE t + d - CounterSpan
    <2>1. CASE t + d < CounterSpan
      BY <1>1, <2>1
    <2>2. CASE t + d >= CounterSpan
      <3>1. t + d = CounterSpan * 1 + (t + d - CounterSpan)
        BY <1>1
      <3>2. t + d - CounterSpan \in 0 .. CounterSpan - 1
        BY <1>1, <2>2
      <3>3. QED
        BY <3>1, <3>2, <1>1, <2>2, ModUnique, 1 \in Int
    <2>3. QED
      BY <1>1, <2>1, <2>2
  <1> HIDE DEF q, i, w, c
  <1>5. \A x \in Int : \A r \in 0 .. SlotCount - 1 : c = SlotCount * x + r => Index(c) = r
    BY <1>1, ModUnique DEF Index
  <1>6. \E x \in Int : c = SlotCount * x + Wrapped(i + d)
    <2> DEFINE y == i + d
    <2>1. c = SlotCount * q + y \/ c = SlotCount * (q - w) + y
      BY <1>1, <1>2, <1>3, <1>4
    <2>2. y \in Int
      BY <1>1, <1>2
    <2> HIDE DEF y
    <2>3. PICK x \in Int : c = SlotCount * x + y
      BY <2>1, <1>2, <1>3
    <2>4. CASE y < SlotCount
      <3>1. Wrapped(y) = y
        BY <2>2, <2>4, WrappedCases
      <3>2. QED
        BY <2>3, <3>1 DEF y
    <2>5. CASE y >= SlotCount
      <3>1. Wrapped(y) = y - SlotCount
        BY <2>2, <2>5, WrappedCases
      <3>2. SlotCount * (x + 1) = SlotCount * x + SlotCount
        BY <1>1
      <3>3. c = SlotCount * (x + 1) + Wrapped(y)
        BY <1>1, <2>2, <2>3, <3>1, <3>2
      <3>4. QED
        BY <3>3 DEF y
    <2>6. QED
      BY <1>1, <2>2, <2>4, <2>5
  <1>7. Wrapped(i + d) \in 0 .. SlotCount - 1
    BY <1>1, <1>2 DEF Wrapped
  <1>8. QED
    BY <1>5, <1>6, <1>7 DEF i, c

\* The contents of a ring are a sequence of slots, found from the tail on.
LEMMA InRingIsSeq ==
    ASSUME CounterSpan % SlotCount = 0, NEW e \in [Slots -> Slots],
           NEW h \in Counters, NEW t \in Counters, Distance(h, t) \in 0 .. SlotCount
    PROVE  /\ InRing(e, h, t) \in Seq(Slots)
           /\ Len(InRing(e, h, t)) = Distance(h, t)
           /\ \A k \in 1 .. Distance(h, t) :
                  /\ Wrapped(Index(t) + (k - 1)) \in Slots
                  /\ InRing(e, h, t)[k] = e[Wrapped(Index(t) + (k - 1))]
PROOF
  <1> DEFINE n == Distance(h, t)
             q == InRing(e, h, t)
  <1>1. n \in Nat /\ n <= SlotCount /\ SlotCount \in Nat \ {0} /\ t \in Int
    BY SlotPoolAssumption DEF Counters
  <1>2. Index(t) \in Int /\ Index(t) >= 0 /\ Index(t) < SlotCount
    BY <1>1, IndexInSlots DEF Slots
  <1>3. q = [k \in 1 .. n |-> e[Index((t + k - 1) % CounterSpan)]]
    BY DEF InRing
  <1> HIDE DEF n, q
  <1>4. ASSUME NEW k \in 1 .. n
        PROVE  /\ Wrapped(Index(t) + (k - 1)) \in Slots
               /\ q[k] = e[Wrapped(Index(t) + (k - 1))]
    <2>1. k \in Int /\ k >= 1 /\ k <= n
      BY <1>1
    <2>2. k - 1 \in 0 .. SlotCount - 1 /\ t + k - 1 = t + (k - 1)
      BY <1>1, <2>1
    <2>3. Index((t + (k - 1)) % CounterSpan) = Wrapped(Index(t) + (k - 1))
      BY <2>2, IndexAhead
    <2>4. q[k] = e[Index((t + k - 1) % CounterSpan)]
      BY <1>3
    <2>5. Wrapped(Index(t) + (k - 1)) \in Slots
      <3> DEFINE x == Index(t) + (k - 1)
      <3>1. x \in Int /\ x >= 0 /\ x < SlotCount + SlotCount
        BY <1>1, <1>2, <2>1
      <3> HIDE DEF x
      <3>2. Wrapped(x) \in Slots
        BY <1>1, <3>1 DEF Wrapped, Slots
      <3>3. QED
        BY <3>2 DEF x
    <2>6. QED
      BY <2>2, <2>3, <2>4, <2>5
  <1>5. q \in [1 .. n -> Slots]
    BY <1>3, <1>4
  <1>6. q \in Seq(Slots)
    BY <1>1, <1>5, SeqDef
  <1>7. DOMAIN q = 1 .. n /\ DOMAIN q = 1 .. Len(q) /\ Len(q) \in Nat
    BY <1>5, <1>6, LenProperties
  <1>8. Len(q) = n
    BY <1>1, <1>7
  <1>9. QED
    BY <1>4, <1>6, <1>8 DEF n, q

\* The store of the head appends the entry at the head.
LEMMA PushAppends ==
    ASSUME CounterSpan % SlotCount = 0, NEW e \in [Slots -> Slots],
           NEW h \in Counters, NEW t \in Counters,
           Distance(h, t) \in 0 .. SlotCount - 1,
           Index(h) = Wrapped(Index(t) + Distance(h, t))
    PROVE  InRing(e, Bump(h), t) = Append(InRing(e, h, t), e[Index(h)])
PROOF
  <1> DEFINE n == Distance(h, t)
             x == e[Index(h)]
             q == InRing(e, h, t)
             p == InRing(e, Bump(h), t)
  <1>1. SlotCount \in Nat \ {0} /\ n \in Nat /\ n + 1 <= SlotCount
    BY SlotPoolAssumption
  <1>2. Bump(h) \in Counters /\ Index(h) \in Slots /\ x \in Slots
    BY IndexBump
  <1>3. Distance(Bump(h), t) = n + 1
    BY PushWindow
  <1>4. n \in 0 .. SlotCount /\ n + 1 \in 0 .. SlotCount
    BY <1>1
  <1>5. /\ q \in Seq(Slots) /\ Len(q) = n
        /\ \A k \in 1 .. n : q[k] = e[Wrapped(Index(t) + (k - 1))]
    BY <1>4, InRingIsSeq
  <1>6. /\ p \in Seq(Slots) /\ Len(p) = n + 1
        /\ \A k \in 1 .. n + 1 : p[k] = e[Wrapped(Index(t) + (k - 1))]
    BY <1>2, <1>3, <1>4, InRingIsSeq
  <1>7. /\ Append(q, x) \in Seq(Slots) /\ Len(Append(q, x)) = n + 1
        /\ \A k \in 1 .. n : Append(q, x)[k] = q[k]
        /\ Append(q, x)[n + 1] = x
    BY <1>2, <1>5, AppendProperties
  <1>8. p[n + 1] = x
    <2>1. n + 1 \in 1 .. n + 1 /\ (n + 1) - 1 = n
      BY <1>1
    <2>2. QED
      BY <1>6, <2>1
  <1> HIDE DEF n, x, q, p
  <1>9. \A k \in 1 .. Len(p) : p[k] = Append(q, x)[k]
    <2> SUFFICES ASSUME NEW k \in 1 .. n + 1 PROVE p[k] = Append(q, x)[k]
      BY <1>6
    <2>1. CASE k = n + 1
      BY <1>7, <1>8, <2>1
    <2>2. CASE k # n + 1
      <3>1. k \in 1 .. n
        BY <1>1, <2>2
      <3>2. QED
        BY <3>1, <1>5, <1>6, <1>7
    <2>3. QED
      BY <2>1, <2>2
  <1>10. p = Append(q, x)
    BY <1>6, <1>7, <1>9, SeqEqual
  <1>11. QED
    BY <1>10 DEF q, p, x

\* The store of the tail removes the entry at the tail.
LEMMA PopRemoves ==
    ASSUME CounterSpan % SlotCount = 0, NEW e \in [Slots -> Slots],
           NEW h \in Counters, NEW t \in Counters,
           Distance(h, t) \in 1 .. SlotCount,
           Index(h) = Wrapped(Index(t) + Distance(h, t))
    PROVE  /\ InRing(e, h, t) # <<>>
           /\ Head(InRing(e, h, t)) = e[Index(t)]
           /\ InRing(e, h, Bump(t)) = Tail(InRing(e, h, t))
PROOF
  <1> DEFINE n == Distance(h, t)
             i == Index(t)
             j == Index(Bump(t))
             q == InRing(e, h, t)
             p == InRing(e, h, Bump(t))
  <1>1. SlotCount \in Nat \ {0} /\ n \in Nat /\ n >= 1 /\ n <= SlotCount
    BY SlotPoolAssumption
  <1>2. /\ Bump(t) \in Counters /\ i \in Slots
        /\ j = IF i + 1 = SlotCount THEN 0 ELSE i + 1
    BY IndexBump
  <1>3. Distance(h, Bump(t)) = n - 1
    BY PopWindow
  <1>4. n \in 0 .. SlotCount /\ n - 1 \in 0 .. SlotCount
    BY <1>1
  <1>5. /\ q \in Seq(Slots) /\ Len(q) = n
        /\ \A k \in 1 .. n : q[k] = e[Wrapped(i + (k - 1))]
    BY <1>4, InRingIsSeq
  <1>6. /\ p \in Seq(Slots) /\ Len(p) = n - 1
        /\ \A k \in 1 .. n - 1 : p[k] = e[Wrapped(j + (k - 1))]
    BY <1>2, <1>3, <1>4, InRingIsSeq
  <1> HIDE DEF n, i, j, q, p
  <1>7. q # <<>>
    BY <1>1, <1>5, EmptySeq
  <1>8. /\ Tail(q) \in Seq(Slots) /\ Len(Tail(q)) = n - 1
        /\ \A k \in 1 .. n - 1 : Tail(q)[k] = q[k + 1]
    BY <1>5, <1>7, HeadTailProperties
  <1>9. Head(q) = e[i]
    <2>1. 1 \in 1 .. n /\ i \in Int /\ i < SlotCount /\ 1 - 1 = 0
      BY <1>1, <1>2 DEF Slots
    <2>2. Wrapped(i + (1 - 1)) = i
      BY <1>1, <2>1 DEF Wrapped
    <2>3. q[1] = e[i]
      BY <1>5, <2>1, <2>2
    <2>4. Head(q) = q[1]
      BY <1>5, <1>7
    <2>5. QED
      BY <2>3, <2>4
  <1>10. \A k \in 1 .. Len(p) : p[k] = Tail(q)[k]
    <2> SUFFICES ASSUME NEW k \in 1 .. n - 1 PROVE p[k] = Tail(q)[k]
      BY <1>6
    <2>1. k \in Int /\ k >= 1 /\ k + 1 <= n /\ k + 1 \in 1 .. n /\ (k + 1) - 1 = k
      BY <1>1
    <2>2. q[k + 1] = e[Wrapped(i + k)]
      BY <1>5, <2>1
    <2>3. i \in Int /\ i >= 0 /\ i < SlotCount
      BY <1>1, <1>2 DEF Slots
    <2>4. Wrapped(j + (k - 1)) = Wrapped(i + k)
      BY <1>1, <1>2, <2>1, <2>3 DEF Wrapped
    <2>5. QED
      BY <1>6, <1>8, <2>2, <2>4
  <1>11. p = Tail(q)
    BY <1>6, <1>8, <1>10, SeqEqual
  <1>12. QED
    BY <1>7, <1>9, <1>11 DEF q, p, i

\* Writing the entry at the head of a ring with room changes nothing that is
\* queued.
LEMMA WriteIsInvisible ==
    ASSUME CounterSpan % SlotCount = 0, NEW e \in [Slots -> Slots], NEW x \in Slots,
           NEW h \in Counters, NEW t \in Counters,
           Distance(h, t) \in 0 .. SlotCount - 1,
           Index(h) = Wrapped(Index(t) + Distance(h, t))
    PROVE  InRing([e EXCEPT ![Index(h)] = x], h, t) = InRing(e, h, t)
PROOF
  <1> DEFINE n == Distance(h, t)
             i == Index(t)
             f == [e EXCEPT ![Index(h)] = x]
             q == InRing(e, h, t)
             p == InRing(f, h, t)
  <1>1. SlotCount \in Nat \ {0} /\ n \in Nat /\ n < SlotCount /\ n \in 0 .. SlotCount
    BY SlotPoolAssumption
  <1>2. Index(h) \in Slots /\ i \in Slots /\ f \in [Slots -> Slots]
    BY IndexInSlots
  <1>3. /\ q \in Seq(Slots) /\ Len(q) = n
        /\ \A k \in 1 .. n : /\ Wrapped(i + (k - 1)) \in Slots
                             /\ q[k] = e[Wrapped(i + (k - 1))]
    BY <1>1, InRingIsSeq
  <1>4. /\ p \in Seq(Slots) /\ Len(p) = n
        /\ \A k \in 1 .. n : p[k] = f[Wrapped(i + (k - 1))]
    <2> HIDE DEF f
    <2>1. QED
      BY <1>1, <1>2, InRingIsSeq
  <1>5. \A j \in Slots : j # Index(h) => f[j] = e[j]
    OBVIOUS
  <1>6. Index(h) = Wrapped(i + n)
    OBVIOUS
  <1> HIDE DEF n, i, f, q, p
  <1>7. \A k \in 1 .. Len(p) : p[k] = q[k]
    <2> SUFFICES ASSUME NEW k \in 1 .. n PROVE p[k] = q[k]
      BY <1>4
    <2>1. k \in Int /\ k >= 1 /\ k <= n /\ i \in Int /\ i >= 0 /\ i < SlotCount
      BY <1>1, <1>2 DEF Slots
    <2>2. Wrapped(i + (k - 1)) # Wrapped(i + n)
      BY <1>1, <2>1 DEF Wrapped
    <2>3. QED
      BY <1>3, <1>4, <1>5, <1>6, <2>2
  <1>8. p = q
    BY <1>3, <1>4, <1>7, SeqEqual
  <1>9. QED
    BY <1>8 DEF p, q, f

\* Contents is InRing of the ring's state.
LEMMA ContentsInRing ==
    \A r \in Rings : Contents(r) = InRing(entries[r], head[r], tail[r])
PROOF
  BY DEF Contents, InRing, RingLen, Distance

\* What the invariant says of a ring, as the lemmas above want it.
LEMMA RingFacts ==
    ASSUME IInv, NEW r \in Rings
    PROVE  /\ entries[r] \in [Slots -> Slots] /\ head[r] \in Counters /\ tail[r] \in Counters
           /\ RingLen(r) = Distance(head[r], tail[r])
           /\ Distance(head[r], tail[r]) \in 0 .. SlotCount
           /\ Index(head[r]) = Wrapped(Index(tail[r]) + Distance(head[r], tail[r]))
PROOF
  BY DEF IInv, TypeOK, RingShape, RingLen, Distance

\* Steps that move no counter and write no entry leave the queues alone.
LEMMA QueuesUnchanged ==
    ASSUME UNCHANGED <<head, tail, entries>>
    PROVE  \A r \in Rings : Contents(r)' = Contents(r)
PROOF
  BY DEF Contents, RingLen

\* The emptiness test of pop answers for the queue at that moment.
LEMMA PopCheckMaps ==
    ASSUME CounterSpan % SlotCount = 0, IInv, NEW a \in Actors, PopCheck(a)
    PROVE  Exchange!Next
PROOF
  <1> DEFINE r == PopRing(a)
  <1>1. r \in Rings
    BY RingsOfActors
  <1>2. UNCHANGED <<Contents("free"), Contents("ready"), held>>
    BY QueuesUnchanged DEF PopCheck, Rings
  <1>3. CASE IsEmpty(r)
    <2>1. Contents(r) = <<>>
      <3>1. Distance(head[r], tail[r]) = 0
        BY <1>1, <1>3, RingFacts, Difference, SlotPoolAssumption DEF IsEmpty, Distance, Counters
      <3>2. Contents(r) \in Seq(Slots) /\ Len(Contents(r)) = 0
        BY <1>1, <3>1, RingFacts, InRingIsSeq, ContentsInRing
      <3>3. QED
        BY <3>2, EmptySeq
    <2>2. outcome' = [outcome EXCEPT ![a] = "empty"]
      BY <1>3 DEF PopCheck
    <2>3. CASE a = "producer"
      BY <1>2, <2>1, <2>2, <2>3 DEF PopRing, Exchange!Next, Exchange!FindEmpty
    <2>4. CASE a = "consumer"
      BY <1>2, <2>1, <2>2, <2>4 DEF PopRing, Exchange!Next, Exchange!FindEmpty
    <2>5. QED
      BY <2>3, <2>4 DEF Actors
  <1>4. CASE ~IsEmpty(r)
    <2>1. outcome' = [outcome EXCEPT ![a] = "none"]
      BY <1>4 DEF PopCheck
    <2>2. a \in Exchange!Users
      BY DEF Actors, Exchange!Users
    <2>3. QED
      BY <1>2, <2>1, <2>2 DEF Exchange!Next, Exchange!Begin
  <1>5. QED
    BY <1>3, <1>4

\* The store of the tail takes the queue's head.
LEMMA PopStoreMaps ==
    ASSUME CounterSpan % SlotCount = 0, IInv, NEW a \in Actors, PopStore(a)
    PROVE  Exchange!Next
PROOF
  <1> DEFINE r == PopRing(a)
  <1>1. r \in Rings
    BY RingsOfActors
  <1>2. pc[a] = "pop_store" /\ slot[a] = entries[r][Index(tail[r])]
    BY DEF PopStore, IInv, PopSound
  <1>3. Distance(head[r], tail[r]) \in 1 .. SlotCount
    BY <1>1, <1>2, RingFacts, SlotPoolAssumption DEF IInv, PopSound
  <1>4. /\ Contents(r) # <<>> /\ Head(Contents(r)) = slot[a]
        /\ InRing(entries[r], head[r], Bump(tail[r])) = Tail(Contents(r))
    BY <1>1, <1>2, <1>3, RingFacts, PopRemoves, ContentsInRing
  <1>5. /\ head' = head /\ entries' = entries
        /\ tail' = [tail EXCEPT ![r] = Bump(tail[r])]
        /\ held' = [held EXCEPT ![a] = held[a] \union {slot[a]}]
        /\ outcome' = [outcome EXCEPT ![a] = "ok"]
    BY DEF PopStore
  <1>6. tail'[r] = Bump(tail[r]) /\ \A q \in Rings \ {r} : tail'[q] = tail[q]
    BY <1>1, <1>5 DEF IInv, TypeOK
  <1>7. \A q \in Rings : Contents(q)' = InRing(entries'[q], head'[q], tail'[q])
    BY DEF Contents, InRing, RingLen, Distance
  <1>8. Contents(r)' = Tail(Contents(r))
    BY <1>1, <1>4, <1>5, <1>6, <1>7
  <1>9. \A q \in Rings \ {r} : Contents(q)' = Contents(q)
    BY <1>5, <1>6, <1>7, ContentsInRing
  <1>10. CASE a = "producer"
    <2>1. r = "free" /\ "ready" \in Rings \ {r}
      BY <1>10 DEF PopRing, Rings
    <2>2. Contents("free") # <<>> /\ Contents("free")' = Tail(Contents("free"))
          /\ Contents("ready")' = Contents("ready")
      BY <1>4, <1>8, <1>9, <2>1
    <2>3. held' = [held EXCEPT !["producer"] = held["producer"] \union {Head(Contents("free"))}]
      BY <1>4, <1>5, <1>10, <2>1
    <2>4. QED
      BY <1>5, <1>10, <2>2, <2>3 DEF Exchange!Next, Exchange!AcquireFree, Exchange!Finish
  <1>11. CASE a = "consumer"
    <2>1. r = "ready" /\ "free" \in Rings \ {r}
      BY <1>11 DEF PopRing, Rings
    <2>2. Contents("ready") # <<>> /\ Contents("ready")' = Tail(Contents("ready"))
          /\ Contents("free")' = Contents("free")
      BY <1>4, <1>8, <1>9, <2>1
    <2>3. held' = [held EXCEPT !["consumer"] = held["consumer"] \union {Head(Contents("ready"))}]
      BY <1>4, <1>5, <1>11, <2>1
    <2>4. QED
      BY <1>5, <1>11, <2>2, <2>3 DEF Exchange!Next, Exchange!PopReady, Exchange!Finish
  <1>12. QED
    BY <1>10, <1>11 DEF Actors

\* The fullness test of push never refuses a held slot, and is not yet seen.
LEMMA PushCheckMaps ==
    ASSUME IInv, NEW a \in Actors, NEW s \in Slots, PushCheck(a, s)
    PROVE  Exchange!Next
PROOF
  <1>1. PushRing(a) \in Rings /\ held[a] # {}
    BY RingsOfActors DEF PushCheck
  <1>2. RingLen(PushRing(a)) < SlotCount
    BY <1>1, RoomWhenHolding DEF IInv, SlotsConserved
  <1>3. ~IsFull(PushRing(a))
    BY <1>1, <1>2, RingFacts, SlotPoolAssumption DEF IsFull
  <1>4. outcome' = [outcome EXCEPT ![a] = "none"] /\ held' = held
    BY <1>3 DEF PushCheck, IInv, TypeOK
  <1>5. UNCHANGED <<Contents("free"), Contents("ready")>>
    BY QueuesUnchanged DEF PushCheck, Rings
  <1>6. a \in Exchange!Users
    BY DEF Actors, Exchange!Users
  <1>7. QED
    BY <1>4, <1>5, <1>6 DEF Exchange!Next, Exchange!Begin

\* The write of the entry is not seen by the other side.
LEMMA PushWriteMaps ==
    ASSUME CounterSpan % SlotCount = 0, IInv, NEW a \in Actors, PushWrite(a)
    PROVE  UNCHANGED Exchange!xvars
PROOF
  <1> DEFINE r == PushRing(a)
  <1>1. r \in Rings
    BY RingsOfActors
  <1>2. Distance(head[r], tail[r]) \in 0 .. SlotCount - 1
    BY <1>1, RingFacts, SlotPoolAssumption DEF IInv, PushSound, PushWrite
  <1>3. slot[a] \in Slots
    BY DEF IInv, TypeOK
  <1>4. /\ head' = head /\ tail' = tail /\ held' = held /\ outcome' = outcome
        /\ entries' = [entries EXCEPT ![r][Index(head[r])] = slot[a]]
    BY DEF PushWrite
  <1>5. /\ entries'[r] = [entries[r] EXCEPT ![Index(head[r])] = slot[a]]
        /\ \A q \in Rings \ {r} : entries'[q] = entries[q]
    BY <1>1, <1>4 DEF IInv, TypeOK
  <1>6. \A q \in Rings : Contents(q)' = InRing(entries'[q], head'[q], tail'[q])
    BY DEF Contents, InRing, RingLen, Distance
  <1>7. Contents(r)' = Contents(r)
    BY <1>1, <1>2, <1>3, <1>4, <1>5, <1>6, RingFacts, WriteIsInvisible, ContentsInRing
  <1>8. \A q \in Rings \ {r} : Contents(q)' = Contents(q)
    BY <1>4, <1>5, <1>6, ContentsInRing
  <1>9. Contents("free")' = Contents("free") /\ Contents("ready")' = Contents("ready")
    BY <1>7, <1>8 DEF Rings
  <1>10. QED
    BY <1>4, <1>9 DEF Exchange!xvars

\* The store of the head appends the slot to the queue.
LEMMA PushStoreMaps ==
    ASSUME CounterSpan % SlotCount = 0, IInv, NEW a \in Actors, PushStore(a)
    PROVE  Exchange!Next
PROOF
  <1> DEFINE r == PushRing(a)
  <1>1. r \in Rings
    BY RingsOfActors
  <1>2. Distance(head[r], tail[r]) \in 0 .. SlotCount - 1
    BY <1>1, RingFacts, SlotPoolAssumption DEF IInv, PushSound, PushStore
  <1>3. slot[a] = entries[r][Index(head[r])] /\ slot[a] \in held[a]
    BY DEF PushStore, IInv, PushSound
  <1>4. InRing(entries[r], Bump(head[r]), tail[r]) = Append(Contents(r), slot[a])
    BY <1>1, <1>2, <1>3, RingFacts, PushAppends, ContentsInRing
  <1>5. /\ tail' = tail /\ entries' = entries
        /\ head' = [head EXCEPT ![r] = Bump(head[r])]
        /\ held' = [held EXCEPT ![a] = held[a] \ {slot[a]}]
        /\ outcome' = [outcome EXCEPT ![a] = "ok"]
    BY DEF PushStore
  <1>6. head'[r] = Bump(head[r]) /\ \A q \in Rings \ {r} : head'[q] = head[q]
    BY <1>1, <1>5 DEF IInv, TypeOK
  <1>7. \A q \in Rings : Contents(q)' = InRing(entries'[q], head'[q], tail'[q])
    BY DEF Contents, InRing, RingLen, Distance
  <1>8. Contents(r)' = Append(Contents(r), slot[a])
    BY <1>1, <1>4, <1>5, <1>6, <1>7
  <1>9. \A q \in Rings \ {r} : Contents(q)' = Contents(q)
    BY <1>5, <1>6, <1>7, ContentsInRing
  <1>10. CASE a = "producer"
    <2>1. r = "ready" /\ "free" \in Rings \ {r}
      BY <1>10 DEF PushRing, Rings
    <2>2. Contents("ready")' = Append(Contents("ready"), slot[a])
          /\ Contents("free")' = Contents("free")
      BY <1>8, <1>9, <2>1
    <2>3. Exchange!PushReady(slot[a])
      BY <1>3, <1>5, <1>10, <2>2 DEF Exchange!PushReady, Exchange!Finish
    <2>4. QED
      BY <1>3, <1>10, <2>3 DEF Exchange!Next
  <1>11. CASE a = "consumer"
    <2>1. r = "free" /\ "ready" \in Rings \ {r}
      BY <1>11 DEF PushRing, Rings
    <2>2. Contents("free")' = Append(Contents("free"), slot[a])
          /\ Contents("ready")' = Contents("ready")
      BY <1>8, <1>9, <2>1
    <2>3. Exchange!ReleaseFree(slot[a])
      BY <1>3, <1>5, <1>11, <2>2 DEF Exchange!ReleaseFree, Exchange!Finish
    <2>4. QED
      BY <1>3, <1>11, <2>3 DEF Exchange!Next
  <1>12. QED
    BY <1>10, <1>11 DEF Actors

\* A fresh pool is an exchange with every slot free, in order.
LEMMA InitMaps ==
    ASSUME CounterSpan % SlotCount = 0, IInv, Init
    PROVE  Exchange!Init
PROOF
  <1> DEFINE n == SlotCount
             e == entries["free"]
             q == Contents("free")
             p == [k \in 1 .. n |-> k - 1]
  <1>1. n \in Nat \ {0} /\ CounterSpan \in Nat /\ CounterSpan > n
    BY SlotPoolAssumption
  <1>2. "free" \in Rings /\ "ready" \in Rings
    BY DEF Rings
  <1>3. /\ head["free"] = n /\ tail["free"] = 0 /\ head["ready"] = 0 /\ tail["ready"] = 0
        /\ \A i \in Slots : e[i] = i
    BY <1>2 DEF Init
  <1>4. n \in Counters /\ 0 \in Counters /\ Index(0) = 0
    BY <1>1 DEF Counters, Index
  <1>5. Distance(n, 0) = n /\ Distance(0, 0) = 0
    BY <1>1, <1>4, Difference DEF Distance
  <1>6. Contents("ready") = <<>>
    <2>1. Contents("ready") \in Seq(Slots) /\ Len(Contents("ready")) = 0
      BY <1>2, <1>3, <1>5, RingFacts, InRingIsSeq, ContentsInRing
    <2>2. QED
      BY <2>1, EmptySeq
  <1>7. /\ q \in Seq(Slots) /\ Len(q) = n
        /\ \A k \in 1 .. n : /\ Wrapped(0 + (k - 1)) \in Slots
                             /\ q[k] = e[Wrapped(0 + (k - 1))]
    BY <1>2, <1>3, <1>4, <1>5, RingFacts, InRingIsSeq, ContentsInRing
  <1>8. \A k \in 1 .. n : k - 1 \in Slots /\ Wrapped(0 + (k - 1)) = k - 1
    BY <1>1 DEF Wrapped, Slots
  <1>9. \A k \in 1 .. n : q[k] = k - 1
    BY <1>3, <1>7, <1>8
  <1>10. q = p
    <2>1. q \in [1 .. n -> Slots]
      BY <1>7, LenProperties
    <2> HIDE DEF q, n
    <2>2. QED
      BY <1>9, <2>1
  <1>11. held = [a \in Actors |-> {}] /\ outcome = [a \in Actors |-> "none"]
    BY DEF Init
  <1>12. Actors = Exchange!Users
    BY DEF Actors, Exchange!Users
  <1>13. QED
    BY <1>6, <1>10, <1>11, <1>12 DEF Exchange!Init

\* The two index rings of slot_pool.rs implement two FIFO queues with atomic
\* operations, whatever the interleaving of the counter and entry accesses: a
\* pop takes effect at the store of the tail, a push at the store of the head,
\* and an empty answer at the load of the counters.
THEOREM PoolImplementsExchange ==
    ASSUME CounterSpan % SlotCount = 0 PROVE Spec => ImplementsExchange
PROOF
  <1>1. Init /\ IInv => Exchange!Init
    BY InitMaps
  <1>2. IInv /\ [Next]_vars => [Exchange!Next]_(Exchange!xvars)
    <2> SUFFICES ASSUME IInv, [Next]_vars
                 PROVE  Exchange!Next \/ UNCHANGED Exchange!xvars
      OBVIOUS
    <2>1. ASSUME NEW a \in Actors, PopCheck(a) PROVE Exchange!Next
      BY <2>1, PopCheckMaps
    <2>2. ASSUME NEW a \in Actors, PopRead(a) PROVE UNCHANGED Exchange!xvars
      <3>1. Contents("free")' = Contents("free") /\ Contents("ready")' = Contents("ready")
        BY <2>2, QueuesUnchanged DEF PopRead, Rings
      <3>2. QED
        BY <2>2, <3>1 DEF PopRead, Exchange!xvars
    <2>3. ASSUME NEW a \in Actors, PopStore(a) PROVE Exchange!Next
      BY <2>3, PopStoreMaps
    <2>4. ASSUME NEW a \in Actors, NEW s \in Slots, PushCheck(a, s) PROVE Exchange!Next
      BY <2>4, PushCheckMaps
    <2>5. ASSUME NEW a \in Actors, PushWrite(a) PROVE UNCHANGED Exchange!xvars
      BY <2>5, PushWriteMaps
    <2>6. ASSUME NEW a \in Actors, PushStore(a) PROVE Exchange!Next
      BY <2>6, PushStoreMaps
    <2>7. CASE UNCHANGED vars
      <3>1. Contents("free")' = Contents("free") /\ Contents("ready")' = Contents("ready")
        BY <2>7, QueuesUnchanged DEF vars, Rings
      <3>2. QED
        BY <2>7, <3>1 DEF vars, Exchange!xvars
    <2>8. QED
      BY <2>1, <2>2, <2>3, <2>4, <2>5, <2>6, <2>7 DEF Next
  <1>3. QED
    BY <1>1, <1>2, PoolInvariant, PTL DEF Spec, ImplementsExchange, Exchange!Spec
=============================================================================
