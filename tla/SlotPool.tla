------------------------------ MODULE SlotPool ------------------------------
(***************************************************************************)
(* transport/src/slot_pool.rs: a pool of fixed-size slots whose indices     *)
(* circulate through two single-producer/single-consumer index rings.  The  *)
(* producer (a service worker) pops the free ring and pushes the ready      *)
(* ring; the consumer (the UI side) pops the ready ring and pushes the free *)
(* ring.  Each ring is a pair of u32 counters and an array of slot indices  *)
(* addressed modulo the capacity.                                           *)
(*                                                                          *)
(* The two sides run on different threads, so push and pop are split at     *)
(* every access to shared memory: a counter is loaded, the entry is         *)
(* accessed, the side's own counter is stored.  The loads of the side's own *)
(* counter and of the other side's form one step, because nobody else       *)
(* writes the own one.  Acquire/release ordering of the counters publishes  *)
(* the entries, so the steps are interleaved sequentially.                  *)
(***************************************************************************)
EXTENDS Integers, FiniteSets

CONSTANTS
    SlotCount,    \* slots of the pool, the capacity of either ring
    CounterSpan   \* number of values of a ring counter: 2^32 in the code

ASSUME SlotPoolAssumption ==
    /\ SlotCount \in Nat \ {0}
    /\ CounterSpan \in Nat
    /\ CounterSpan > SlotCount

Slots == 0 .. SlotCount - 1
Counters == 0 .. CounterSpan - 1
Rings == {"free", "ready"}
Actors == {"producer", "consumer"}

PopRing(a)  == IF a = "producer" THEN "free" ELSE "ready"
PushRing(a) == IF a = "producer" THEN "ready" ELSE "free"

VARIABLES
    head,      \* per ring: push counter, stored only by the pushing side
    tail,      \* per ring: pop counter, stored only by the popping side
    entries,   \* per ring: the slot index stored at each position
    held,      \* per actor: the slots whose index the actor has in hand
    pc,        \* per actor: where it is inside push or pop
    slot,      \* per actor: the index the operation in progress carries
    outcome    \* per actor: what its last completed operation returned

vars == <<head, tail, entries, held, pc, slot, outcome>>

-----------------------------------------------------------------------------
(* The arithmetic of IndexRing.                                            *)

Index(c)   == c % SlotCount
RingLen(r) == (head[r] - tail[r]) % CounterSpan

\* Slips the properties below have to catch: an emptiness test on positions
\* instead of counters or dropped altogether.  (Neither is in the code.)
IsEmptyByPosition(r)  == Index(tail[r]) = Index(head[r])
IsEmptyNever(r)       == FALSE

Bump(c)    == (c + 1) % CounterSpan
IsEmpty(r) == tail[r] = head[r]
IsFull(r)  == RingLen(r) >= SlotCount

Init ==
    /\ head = [r \in Rings |-> IF r = "free" THEN SlotCount ELSE 0]
    /\ tail = [r \in Rings |-> 0]
    /\ entries = [r \in Rings |->
                    [i \in Slots |-> IF r = "free" THEN i ELSE 0]]
    /\ held = [a \in Actors |-> {}]
    /\ pc = [a \in Actors |-> "idle"]
    /\ slot = [a \in Actors |-> 0]
    /\ outcome = [a \in Actors |-> "none"]

-----------------------------------------------------------------------------
(* IndexRing::pop: try_acquire_free for the producer, pop_ready for the     *)
(* consumer.                                                                *)

PopCheck(a) ==
    /\ pc[a] = "idle"
    /\ pc' = [pc EXCEPT ![a] = IF IsEmpty(PopRing(a)) THEN "idle" ELSE "pop_read"]
    /\ outcome' = [outcome EXCEPT ![a] = IF IsEmpty(PopRing(a)) THEN "empty" ELSE "none"]
    /\ UNCHANGED <<head, tail, entries, held, slot>>

PopRead(a) ==
    /\ pc[a] = "pop_read"
    /\ slot' = [slot EXCEPT ![a] = entries[PopRing(a)][Index(tail[PopRing(a)])]]
    /\ pc' = [pc EXCEPT ![a] = "pop_store"]
    /\ UNCHANGED <<head, tail, entries, held, outcome>>

\* A pop that forgets to store its counter.
PopStoreForgotten(a) ==
    /\ pc[a] = "pop_store"
    /\ held' = [held EXCEPT ![a] = @ \union {slot[a]}]
    /\ pc' = [pc EXCEPT ![a] = "idle"]
    /\ outcome' = [outcome EXCEPT ![a] = "ok"]
    /\ UNCHANGED <<head, tail, entries, slot>>

PopStore(a) ==
    /\ pc[a] = "pop_store"
    /\ tail' = [tail EXCEPT ![PopRing(a)] = Bump(@)]
    /\ held' = [held EXCEPT ![a] = @ \union {slot[a]}]
    /\ pc' = [pc EXCEPT ![a] = "idle"]
    /\ outcome' = [outcome EXCEPT ![a] = "ok"]
    /\ UNCHANGED <<head, entries, slot>>

-----------------------------------------------------------------------------
(* IndexRing::push: push_ready for the producer, release_free for the       *)
(* consumer.  A refused push_ready leaves the slot with the caller; a       *)
(* refused release_free drops the index (debug_assert! only).               *)

PushCheck(a, s) ==
    /\ pc[a] = "idle"
    /\ s \in held[a]
    /\ slot' = [slot EXCEPT ![a] = s]
    /\ LET refused == IsFull(PushRing(a)) IN
       /\ pc' = [pc EXCEPT ![a] = IF refused THEN "idle" ELSE "push_write"]
       /\ outcome' = [outcome EXCEPT ![a] = IF refused THEN "would_block" ELSE "none"]
       /\ held' = [held EXCEPT ![a] =
                     IF refused /\ a = "consumer" THEN @ \ {s} ELSE @]
    /\ UNCHANGED <<head, tail, entries>>

PushWrite(a) ==
    /\ pc[a] = "push_write"
    /\ entries' = [entries EXCEPT ![PushRing(a)][Index(head[PushRing(a)])] = slot[a]]
    /\ pc' = [pc EXCEPT ![a] = "push_store"]
    /\ UNCHANGED <<head, tail, held, slot, outcome>>

PushStore(a) ==
    /\ pc[a] = "push_store"
    /\ head' = [head EXCEPT ![PushRing(a)] = Bump(@)]
    /\ held' = [held EXCEPT ![a] = @ \ {slot[a]}]
    /\ pc' = [pc EXCEPT ![a] = "idle"]
    /\ outcome' = [outcome EXCEPT ![a] = "ok"]
    /\ UNCHANGED <<tail, entries, slot>>

Next ==
    \E a \in Actors :
        \/ PopCheck(a)
        \/ PopRead(a)
        \/ PopStore(a)
        \/ \E s \in Slots : PushCheck(a, s)
        \/ PushWrite(a)
        \/ PushStore(a)

Spec == Init /\ [][Next]_vars

-----------------------------------------------------------------------------
(* Properties.                                                             *)

PcTable == {"idle", "pop_read", "pop_store", "push_write", "push_store"}

\* Shape of the state: counters stay u32, entries and operations name slots.
TypeOK ==
    /\ head \in [Rings -> Counters]
    /\ tail \in [Rings -> Counters]
    /\ entries \in [Rings -> [Slots -> Slots]]
    /\ held \in [Actors -> SUBSET Slots]
    /\ pc \in [Actors -> PcTable]
    /\ slot \in [Actors -> Slots]
    /\ outcome \in [Actors -> {"none", "ok", "empty", "would_block"}]

\* Positions between tail and head, and the slots queued there.
Offset(i, b) == IF i >= b THEN i - b ELSE i - b + SlotCount
Occupied(r)  == {i \in Slots : Offset(i, Index(tail[r])) < RingLen(r)}
Queued(r)    == {entries[r][i] : i \in Occupied(r)}

NoDuplicateEntry ==
    \A r \in Rings : \A i, j \in Occupied(r) :
        entries[r][i] = entries[r][j] => i = j

OnePlacePerSlot ==
    /\ Queued("free") \intersect Queued("ready") = {}
    /\ held["producer"] \intersect held["consumer"] = {}
    /\ \A r \in Rings, a \in Actors : Queued(r) \intersect held[a] = {}

NoSlotLost ==
    Queued("free") \union Queued("ready")
        \union held["producer"] \union held["consumer"] = Slots

\* Every slot is at each moment in exactly one place: queued once in one ring,
\* or in the hands of one side.  No interleaving of the two sides leaks a slot
\* or hands it out twice, so a buffer is never written while it is read.
SlotsConserved == NoDuplicateEntry /\ OnePlacePerSlot /\ NoSlotLost

\* A push of a slot its caller holds is never refused.  The would-block arm of
\* push_ready and the dropped index of release_free cannot happen to callers
\* that push what they popped, and the frame sink, whose would-block arm
\* releases into the free ring from the producer's side, stays off that ring.
PushNeverRefused == \A a \in Actors : outcome[a] # "would_block"

\* An entry is never read by one side while the other side writes it: the
\* non-atomic entry array is free of data races.
NoEntryRace ==
    \A a, b \in Actors :
        /\ pc[a] = "pop_read"
        /\ pc[b] = "push_write"
        /\ PopRing(a) = PushRing(b)
        => Index(tail[PopRing(a)]) # Index(head[PushRing(b)])

-----------------------------------------------------------------------------
(* The rings as queues: what the two sides may rely on.                    *)

Contents(r) ==
    [k \in 1 .. RingLen(r) |-> entries[r][Index((tail[r] + k - 1) % CounterSpan)]]

Exchange == INSTANCE SlotExchange
                WITH free <- Contents("free"), ready <- Contents("ready")

\* Each ring is a FIFO queue: the interleaved counter and entry accesses amount
\* to atomic queue operations whose results agree with the queue's contents.
ImplementsExchange == Exchange!Spec
=============================================================================
