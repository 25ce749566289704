------------------------------- MODULE MsgRing ------------------------------
(***************************************************************************)
(* transport/src/msg_ring.rs: a single-producer/single-consumer ring of     *)
(* variable-length records in shared memory.  All offsets and record sizes  *)
(* are multiples of eight bytes, so the model counts in words of eight      *)
(* bytes: a record is one envelope word followed by its payload words.  A   *)
(* record that does not fit before the end of the buffer is placed at       *)
(* offset 0 and a sentinel word is left where it would have started.        *)
(*                                                                          *)
(* Producer and consumer run on different threads: every access to shared   *)
(* memory is a step of its own.  The producer writes payload, envelope and  *)
(* then its head offset; the consumer loads the head, reads the word at its *)
(* tail, reads the payload, and then stores its tail.                       *)
(***************************************************************************)
EXTENDS Integers, Sequences

CONSTANTS
    Capacity,      \* words of the data region
    MaxRecord,     \* largest record a caller asks for, in words
    IdSpan,        \* record identities are taken modulo this (model bound)
    ShortCommits   \* may a caller commit fewer words than it reserved?

ASSUME MsgRingAssumption ==
    /\ Capacity \in Nat \ {0}
    /\ MaxRecord \in 1 .. Capacity - 1
    /\ IdSpan \in Nat \ {0, 1}
    /\ ShortCommits \in BOOLEAN

Offsets == 0 .. Capacity - 1
Ids == 0 .. IdSpan - 1
Sizes == 1 .. MaxRecord

\* A word of the data region: its kind, the record it belongs to, and for an
\* envelope the record length in words that total_len rounds up to.
Zero        == <<"zero", 0, 0>>
Sentinel    == <<"sentinel", 0, 0>>
Data(i)     == <<"data", i, 0>>
Header(i, n) == <<"envelope", i, n>>
Words == {Zero, Sentinel} \union {Data(i) : i \in Ids}
            \union {Header(i, n) : i \in Ids, n \in Sizes}

VARIABLES
    mem,       \* the data region
    head,      \* head_bytes / 8, stored by the producer
    tail,      \* tail_bytes / 8, stored by the consumer
    want,      \* words of the record the producer's caller is submitting, or 0
    ppc,       \* producer: "idle", "granted", "filled", "framed"
    grant,     \* the ProducerGrant: offset, record_len, new_head, words committed
    refused,   \* did the last try_reserve return None?
    nextId,    \* identity of the next record to commit
    cpc,       \* consumer: "idle", "loaded", "peeked", "panicked"
    meta,      \* consumer_meta: length in words of the peeked record
    got,       \* the record the consumer took last: identity and words as read
    pending    \* history: committed records not yet taken, with their layout

vars == <<mem, head, tail, want, ppc, grant, refused, nextId, cpc, meta, got, pending>>
producerVars == <<want, ppc, grant, refused, nextId>>
consumerVars == <<cpc, meta, got>>

NoGrant == [offset |-> 0, size |-> 0, newHead |-> 0, written |-> 0]

Init ==
    /\ mem = [w \in Offsets |-> Zero]
    /\ head = 0 /\ tail = 0
    /\ want = 0 /\ ppc = "idle" /\ grant = NoGrant /\ refused = FALSE /\ nextId = 0
    /\ cpc = "idle" /\ meta = 0 /\ got = <<>>
    /\ pending = <<>>

-----------------------------------------------------------------------------
(* reserve_offset: where a record of n words goes, for given offsets.       *)

\* Slips the properties below have to catch (none of them is in the code).
FitsAtEndStrict(h, t, n)    == h >= t /\ Capacity - h > n
FitsAtStartTight(h, t, n)   == h >= t /\ Capacity - h < n /\ t > n + 1
FitsInGapExact(h, t, n)     == h < t /\ n <= t - h

\* The record fits between head and the end of the buffer.
FitsAtEnd(h, t, n) == h >= t /\ Capacity - h >= n

\* It does not, but it fits before the tail: wrap behind a sentinel.
FitsAtStart(h, t, n) == h >= t /\ Capacity - h < n /\ t > n

\* The occupied region wraps: only the gap between head and tail is free.
FitsInGap(h, t, n) == h < t /\ n < t - h

WrapHead(x) == IF x = Capacity THEN 0 ELSE x

HasRoomMeetsTail(h, t, n) ==
    FitsAtEnd(h, t, n) \/ FitsAtStart(h, t, n) \/ FitsInGap(h, t, n)

\* Some(offset, new_head) as opposed to None.
HasRoom(h, t, n) ==
    \/ FitsAtEnd(h, t, n) /\ WrapHead(h + n) # t
    \/ FitsAtStart(h, t, n)
    \/ FitsInGap(h, t, n)

WriteOffset(h, t, n) == IF FitsAtStart(h, t, n) THEN 0 ELSE h

NewHead(h, t, n) == WrapHead(WriteOffset(h, t, n) + n)

-----------------------------------------------------------------------------
(* Producer.                                                               *)

\* A caller turns up with a record of n words to send.
Submit(n) ==
    /\ want = 0
    /\ want' = n
    /\ refused' = FALSE
    /\ UNCHANGED <<mem, head, tail, ppc, grant, nextId, pending, consumerVars>>

\* try_reserve_with: a record that is refused is tried again by its caller.
\* The sentinel is written before the grant exists.
TryReserve ==
    /\ ppc = "idle" /\ want # 0
    /\ IF HasRoom(head, tail, want)
       THEN /\ ppc' = "granted"
            /\ refused' = FALSE
            /\ grant' = [offset  |-> WriteOffset(head, tail, want),
                         size    |-> want,
                         newHead |-> NewHead(head, tail, want),
                         written |-> 0]
            /\ mem' = IF FitsAtStart(head, tail, want)
                      THEN [mem EXCEPT ![head] = Sentinel]
                      ELSE mem
       ELSE /\ refused' = TRUE
            /\ UNCHANGED <<mem, ppc, grant>>
    /\ UNCHANGED <<head, tail, want, nextId, pending, consumerVars>>

PayloadOffsetsShort(o, n) == o + 1 .. o + n - 2

PayloadOffsets(o, n) == o + 1 .. o + n - 1

\* The caller fills the payload slice of the grant.
FillPayload ==
    /\ ppc = "granted"
    /\ mem' = [w \in Offsets |->
                 IF w \in PayloadOffsets(grant.offset, grant.size)
                 THEN Data(nextId) ELSE mem[w]]
    /\ ppc' = "filled"
    /\ UNCHANGED <<head, tail, want, grant, refused, nextId, pending, consumerVars>>

\* commit, write_envelope: the envelope carries the committed length, and the
\* rest of the reserved record is zeroed.
CommitEnvelope(n) ==
    /\ ppc = "filled"
    /\ n <= grant.size
    /\ ShortCommits \/ n = grant.size
    /\ mem' = [w \in Offsets |->
                 IF w = grant.offset THEN Header(nextId, n)
                 ELSE IF w \in grant.offset + n .. grant.offset + grant.size - 1
                 THEN Zero ELSE mem[w]]
    /\ grant' = [grant EXCEPT !.written = n]
    /\ ppc' = "framed"
    /\ UNCHANGED <<head, tail, want, refused, nextId, pending, consumerVars>>

\* store_head_release publishes the record.
StoreHead ==
    /\ ppc = "framed"
    /\ head' = grant.newHead
    /\ pending' = Append(pending, [id |-> nextId, offset |-> grant.offset,
                                   size |-> grant.written])
    /\ nextId' = (nextId + 1) % IdSpan
    /\ want' = 0
    /\ grant' = NoGrant
    /\ ppc' = "idle"
    /\ UNCHANGED <<mem, tail, refused, consumerVars>>

-----------------------------------------------------------------------------
(* Consumer.                                                               *)

\* consumer_peek, the top of its loop: nothing to do when head equals tail.
LoadHead ==
    /\ cpc = "idle"
    /\ head # tail
    /\ cpc' = "loaded"
    /\ UNCHANGED <<mem, head, tail, producerVars, meta, got, pending>>

\* The word at the tail is a sentinel: move the tail to 0 and go round the loop.
SkipSentinel ==
    /\ cpc = "loaded"
    /\ mem[tail] = Sentinel
    /\ tail' = 0
    /\ cpc' = "idle"
    /\ UNCHANGED <<mem, head, producerVars, meta, got, pending>>

\* Otherwise it has to be an envelope whose record stays inside the buffer.
ReadEnvelope ==
    /\ cpc = "loaded"
    /\ mem[tail] # Sentinel
    /\ LET word == mem[tail]
           sound == word[1] = "envelope" /\ tail + word[3] <= Capacity
       IN  /\ cpc' = IF sound THEN "peeked" ELSE "panicked"
           /\ meta' = IF sound THEN word[3] ELSE 0
    /\ UNCHANGED <<mem, head, tail, producerVars, got, pending>>

\* The caller reads the record through the borrowed slice, then calls
\* consumer_pop_advance.
PopAdvance ==
    /\ cpc = "peeked"
    /\ got' = [k \in 1 .. meta |-> mem[tail + k - 1]]
    /\ tail' = IF tail + meta >= Capacity THEN tail + meta - Capacity ELSE tail + meta
    /\ pending' = Tail(pending)
    /\ meta' = 0
    /\ cpc' = "idle"
    /\ UNCHANGED <<mem, head, producerVars>>

Producer ==
    \/ TryReserve
    \/ FillPayload
    \/ \E n \in Sizes : CommitEnvelope(n)
    \/ StoreHead

Consumer == LoadHead \/ SkipSentinel \/ ReadEnvelope \/ PopAdvance

Next == (\E n \in Sizes : Submit(n)) \/ Producer \/ Consumer

Spec == Init /\ [][Next]_vars

\* Both sides keep running: the worker loop polls its service and the consumer
\* drains the ring on every tick.
FairSpec == Spec /\ WF_vars(Producer) /\ WF_vars(Consumer)

-----------------------------------------------------------------------------
(* Properties.                                                             *)

\* Shape of the state.
TypeOK ==
    /\ mem \in [Offsets -> Words]
    /\ head \in Offsets /\ tail \in Offsets
    /\ want \in 0 .. MaxRecord
    /\ ppc \in {"idle", "granted", "filled", "framed"}
    /\ grant \in [offset : Offsets, size : 0 .. MaxRecord, newHead : Offsets,
                  written : 0 .. MaxRecord]
    /\ refused \in BOOLEAN
    /\ nextId \in Ids
    /\ cpc \in {"idle", "loaded", "peeked", "panicked"}
    /\ meta \in 0 .. MaxRecord

\* The words of a record as its producer meant them.
Image(id, n) == [k \in 1 .. n |-> IF k = 1 THEN Header(id, n) ELSE Data(id)]

RecordAt(o, n) == [k \in 1 .. n |-> mem[o + k - 1]]

\* Every committed record stays in memory exactly as written until the consumer
\* takes it: neither another record, nor a sentinel, nor padding overwrites it,
\* whatever the interleaving.
UnreadIntact ==
    \A k \in 1 .. Len(pending) :
        RecordAt(pending[k].offset, pending[k].size)
            = Image(pending[k].id, pending[k].size)

\* The consumer always finds an envelope with a sound length or a sentinel at
\* its tail: consumer_peek never panics.
ConsumerNeverPanics == cpc # "panicked"

\* The consumer's tail always leads to the oldest committed record, straight or
\* over one sentinel, and head and tail meet only when nothing is unread.
TailFindsOldest ==
    /\ ConsumerNeverPanics
    /\ pending # <<>> =>
           \/ tail = Head(pending).offset
           \/ Head(pending).offset = 0 /\ mem[tail] = Sentinel
    /\ (pending = <<>>) = (head = tail)

\* An empty ring takes any record of up to half of it, wherever its offsets
\* stopped.  (A larger one may be refused by an empty ring, and then for ever:
\* nothing is left to drain.)
EmptyRingAccepts ==
    head = tail => \A n \in Sizes : 2 * n <= Capacity => HasRoom(head, tail, n)

\* What the producer is writing and what the consumer may be reading are
\* disjoint: no word is read while it is written.
NoTornRecord ==
    ppc # "idle" /\ pending # <<>> =>
        \A k \in 1 .. Len(pending) :
            (pending[k].offset .. pending[k].offset + pending[k].size - 1)
                \intersect (grant.offset .. grant.offset + grant.size - 1) = {}

\* A producer that keeps retrying such a record gets it committed in the end.
SubmissionCommitted ==
    \A n \in {m \in Sizes : 2 * m <= Capacity} : (want = n) ~> (want = 0)

\* The ring as a queue of record identities.
Queue == INSTANCE RecordQueue
            WITH queue <- [k \in 1 .. Len(pending) |-> <<pending[k].id, pending[k].size>>],
                 delivered <- got

\* The consumer receives the committed records in order, each once, and each
\* with the words its producer wrote.
ImplementsQueue == Queue!Spec
=============================================================================
