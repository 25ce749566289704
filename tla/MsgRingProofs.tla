---------------------------- MODULE MsgRingProofs ----------------------------
(***************************************************************************)
(* The message ring for every capacity and every record size, if callers   *)
(* commit what they reserved: unread records stay as written, the consumer *)
(* finds the oldest, and the ring implements a queue of records.           *)
(*                                                                         *)
(* The invariant is about positions: an offset counted from the tail on,   *)
(* past the end of the buffer if it lies before the tail. By position, the *)
(* records lie in the order they were committed between tail and head, and *)
(* the grant between head and tail. From record to record, and from the    *)
(* last one to the head, the way is straight or leads over a sentinel.     *)
(***************************************************************************)
EXTENDS MsgRing, SequenceTheorems, TLAPS

Records == [id : Ids, offset : Offsets, size : Sizes]

EndOf(r) == r.offset + r.size

Position(t, x) == IF x >= t THEN x ELSE x + Capacity

(* From x the consumer comes to offset o, perhaps over a sentinel.         *)
Leads(m, x, o) == x = o \/ (o = 0 /\ x # 0 /\ m[x] = Sentinel)

(* Records between tail and head, in order, linked to each other.          *)
Placed(t, h, q) ==
    \A k \in 1 .. Len(q) : Position(t, q[k].offset) + q[k].size <= Position(t, h)

Sorted(t, q) ==
    \A i, j \in 1 .. Len(q) :
        i < j => Position(t, q[i].offset) + q[i].size <= Position(t, q[j].offset)

Linked(m, q) ==
    \A k \in 1 .. Len(q) - 1 : Leads(m, WrapHead(EndOf(q[k])), q[k + 1].offset)

Layout ==
    /\ pending \in Seq(Records)
    /\ \A k \in 1 .. Len(pending) : EndOf(pending[k]) <= Capacity
    /\ Placed(tail, head, pending)
    /\ Sorted(tail, pending)
    /\ Linked(mem, pending)
    /\ pending # <<>> => /\ Leads(mem, tail, pending[1].offset)
                         /\ head = WrapHead(EndOf(pending[Len(pending)]))
                         /\ head # tail
    /\ pending = <<>> => head = tail

(* The words of a record are its producer's.                               *)
Whole(m, r) ==
    /\ m[r.offset] = Header(r.id, r.size)
    /\ \A w \in PayloadOffsets(r.offset, r.size) : m[w] = Data(r.id)

Contents == \A k \in 1 .. Len(pending) : Whole(mem, pending[k])

(* The grant lies behind the head and does not reach the tail.             *)
Granted ==
    ppc # "idle" =>
      /\ grant.size \in Sizes /\ EndOf(grant) <= Capacity
      /\ grant.newHead = WrapHead(EndOf(grant))
      /\ Leads(mem, head, grant.offset)
      /\ IF grant.offset = head
         THEN Position(tail, head) + grant.size < tail + Capacity
         ELSE tail <= head /\ grant.size < tail

Filled ==
    /\ ppc \in {"filled", "framed"} =>
         \A w \in PayloadOffsets(grant.offset, grant.size) : mem[w] = Data(nextId)
    /\ ppc = "framed" => /\ grant.written = grant.size
                         /\ mem[grant.offset] = Header(nextId, grant.size)

Reading ==
    /\ cpc # "panicked"
    /\ cpc \in {"loaded", "peeked"} => pending # <<>>
    /\ cpc = "peeked" => tail = pending[1].offset /\ meta = pending[1].size

IInv ==
    /\ TypeOK
    /\ Layout
    /\ Contents
    /\ Granted
    /\ Filled
    /\ Reading

LEMMA PositionNat ==
    ASSUME NEW t \in Nat, NEW x \in Nat
    PROVE  Position(t, x) \in Nat
BY MsgRingAssumption DEF Position

(* ------------------------ what writes may disturb ---------------------- *)

LEMMA RecordsPlaced ==
    ASSUME TypeOK, Layout, NEW k \in 1 .. Len(pending)
    PROVE  /\ pending[k] \in Records
           /\ EndOf(pending[k]) <= Capacity
           /\ pending[k].offset \in Nat /\ pending[k].size \in Nat \ {0}
           /\ Position(tail, pending[k].offset) + pending[k].size <= Position(tail, head)
           /\ \A w \in pending[k].offset .. EndOf(pending[k]) - 1 :
                w \in Offsets /\ Position(tail, w) < Position(tail, head)
<1>1. pending[k] \in Records /\ EndOf(pending[k]) <= Capacity
  BY DEF Layout
<1>2. Position(tail, pending[k].offset) + pending[k].size <= Position(tail, head)
  BY DEF Layout, Placed
<1>3. tail \in Offsets /\ head \in Offsets
  BY DEF TypeOK
<1> QED BY <1>1, <1>2, <1>3, MsgRingAssumption
        DEF Records, EndOf, Position, Offsets, Sizes

(* A sentinel on the way to a record lies between tail and head as well.   *)
LEMMA LinksPlaced ==
    ASSUME TypeOK, Layout, NEW k \in 1 .. Len(pending) - 1,
           NEW x, x = WrapHead(EndOf(pending[k])), x # pending[k + 1].offset
    PROVE  x \in Offsets /\ Position(tail, x) < Position(tail, head)
<1>1. k \in 1 .. Len(pending) /\ k + 1 \in 1 .. Len(pending) /\ k < k + 1
  BY DEF Layout
<1>2. /\ pending[k] \in Records /\ EndOf(pending[k]) <= Capacity
      /\ pending[k + 1] \in Records
  BY <1>1, RecordsPlaced
<1>3. Leads(mem, x, pending[k + 1].offset)
  BY DEF Layout, Linked
<1>4. /\ Position(tail, pending[k].offset) + pending[k].size
           <= Position(tail, pending[k + 1].offset)
      /\ Position(tail, pending[k + 1].offset) + pending[k + 1].size
           <= Position(tail, head)
  BY <1>1 DEF Layout, Placed, Sorted
<1>5. tail \in 0 .. Capacity - 1 /\ head \in 0 .. Capacity - 1 /\ Capacity \in Nat
  BY MsgRingAssumption DEF TypeOK, Offsets
<1> DEFINE a == pending[k].offset
           m == pending[k].size
           b == pending[k + 1].offset
           n == pending[k + 1].size
<1>6. /\ a \in Nat /\ m \in Nat \ {0} /\ b \in Nat /\ n \in Nat \ {0}
      /\ a + m <= Capacity /\ x = WrapHead(a + m)
  BY <1>2, MsgRingAssumption DEF Records, EndOf, Offsets, Sizes
<1>7. b = 0 /\ x # 0
  BY <1>3 DEF Leads
<1>8. Position(tail, a) + m <= Position(tail, b) /\ Position(tail, b) + n <= Position(tail, head)
  BY <1>4
<1> HIDE DEF a, b, m, n
<1> QED BY <1>5, <1>6, <1>7, <1>8 DEF Position, Offsets, WrapHead

(* Writes between head and tail leave records and sentinels as they are.   *)
LEMMA Kept ==
    ASSUME TypeOK, Layout, Contents, NEW m,
           \A w \in Offsets : Position(tail, w) < Position(tail, head) => m[w] = mem[w]
    PROVE  /\ Linked(m, pending)
           /\ pending # <<>> => Leads(m, tail, pending[1].offset)
           /\ \A k \in 1 .. Len(pending) : Whole(m, pending[k])
<1>1. ASSUME NEW k \in 1 .. Len(pending) - 1
      PROVE  Leads(m, WrapHead(EndOf(pending[k])), pending[k + 1].offset)
  <2>1. Leads(mem, WrapHead(EndOf(pending[k])), pending[k + 1].offset)
    BY DEF Layout, Linked
  <2> QED BY <2>1, LinksPlaced DEF Leads
<1>2. pending # <<>> => Leads(m, tail, pending[1].offset)
  <2>1. tail \in Offsets /\ head \in Offsets
    BY DEF TypeOK
  <2>2. pending # <<>> => head # tail /\ Leads(mem, tail, pending[1].offset)
    BY DEF Layout
  <2>3. head # tail => Position(tail, tail) < Position(tail, head)
    BY <2>1, MsgRingAssumption DEF Position, Offsets
  <2> QED BY <2>1, <2>2, <2>3 DEF Leads
<1>3. ASSUME NEW k \in 1 .. Len(pending) PROVE Whole(m, pending[k])
  <2>1. Whole(mem, pending[k])
    BY DEF Contents
  <2>2. \A w \in pending[k].offset .. EndOf(pending[k]) - 1 : m[w] = mem[w]
    BY RecordsPlaced
  <2>3. pending[k] \in Records
    BY RecordsPlaced
  <2> QED BY <2>1, <2>2, <2>3, MsgRingAssumption
          DEF Whole, PayloadOffsets, EndOf, Records, Offsets, Sizes
<1> QED BY <1>1, <1>2, <1>3 DEF Linked

(* The grant is outside of what lies between tail and head, and so is the  *)
(* sentinel in front of it.                                                *)
LEMMA GrantOutside ==
    ASSUME TypeOK, Granted, ppc # "idle",
           NEW w \in Offsets, Position(tail, w) < Position(tail, head)
    PROVE  w \notin grant.offset .. EndOf(grant) - 1
<1> DEFINE o == grant.offset
           n == grant.size
<1>1. /\ tail \in 0 .. Capacity - 1 /\ head \in 0 .. Capacity - 1 /\ Capacity \in Nat
      /\ w \in 0 .. Capacity - 1 /\ o \in Nat /\ n \in Nat /\ o + n <= Capacity
  BY MsgRingAssumption DEF TypeOK, Granted, Offsets, Sizes, EndOf
<1>2. /\ o = head \/ o = 0
      /\ IF o = head THEN Position(tail, head) + n < tail + Capacity
         ELSE tail <= head /\ n < tail
  BY DEF Granted, Leads
<1>3. EndOf(grant) = o + n
  BY DEF EndOf
<1> HIDE DEF o, n
<1>4. w \notin o .. o + n - 1
  BY <1>1, <1>2 DEF Position
<1> QED BY <1>1, <1>3, <1>4 DEF o

LEMMA HeadOutside ==
    ASSUME TypeOK, Granted, ppc # "idle", grant.offset # head
    PROVE  head \notin grant.offset .. EndOf(grant) - 1
<1>1. /\ grant.offset = 0 /\ tail <= head /\ grant.size < tail /\ EndOf(grant) = grant.size
  BY MsgRingAssumption DEF TypeOK, Granted, Leads, EndOf, Offsets, Sizes
<1> QED BY <1>1, MsgRingAssumption DEF TypeOK, Offsets

(* ------------------------------ the producer --------------------------- *)

LEMMA SubmitStep == ASSUME IInv, NEW n \in Sizes, Submit(n) PROVE IInv'
<1>1. TypeOK'
  <2>1. n \in 0 .. MaxRecord
    BY MsgRingAssumption DEF Sizes
  <2> QED BY <2>1 DEF IInv, TypeOK, Submit, consumerVars
<1>2. Layout' /\ Contents' /\ Granted' /\ Filled' /\ Reading'
  BY DEF IInv, Layout, Contents, Granted, Filled, Reading, Submit, consumerVars
<1> QED BY <1>1, <1>2 DEF IInv

(* A step that writes only into the grant.                                 *)
LEMMA GrantWritten ==
    ASSUME IInv, ppc # "idle", NEW o, NEW n,
           mem' \in [Offsets -> Words],
           \A w \in Offsets : w \notin grant.offset .. EndOf(grant) - 1 => mem'[w] = mem[w],
           UNCHANGED <<head, tail, pending>>
    PROVE  /\ Layout' /\ Contents'
           /\ Leads(mem', head, grant.offset)
<1>1. \A w \in Offsets : Position(tail, w) < Position(tail, head) => mem'[w] = mem[w]
  BY GrantOutside DEF IInv
<1>2. /\ Linked(mem', pending)
      /\ pending # <<>> => Leads(mem', tail, pending[1].offset)
      /\ \A k \in 1 .. Len(pending) : Whole(mem', pending[k])
  BY <1>1, Kept DEF IInv
<1>3. Leads(mem', head, grant.offset)
  <2>1. Leads(mem, head, grant.offset)
    BY DEF IInv, Granted
  <2>2. grant.offset # head => mem'[head] = mem[head]
    BY HeadOutside DEF IInv, TypeOK
  <2> QED BY <2>1, <2>2 DEF Leads
<1> QED BY <1>2, <1>3 DEF IInv, Layout, Contents

LEMMA FillPayloadStep == ASSUME IInv, FillPayload PROVE IInv'
<1>1. /\ grant.offset \in Nat /\ grant.size \in Sizes /\ EndOf(grant) <= Capacity
      /\ PayloadOffsets(grant.offset, grant.size) \subseteq grant.offset .. EndOf(grant) - 1
      /\ PayloadOffsets(grant.offset, grant.size) \subseteq Offsets
  BY MsgRingAssumption
     DEF IInv, TypeOK, Granted, FillPayload, PayloadOffsets, EndOf, Offsets, Sizes
<1>2. mem' \in [Offsets -> Words]
  BY DEF IInv, TypeOK, FillPayload, Words, Data
<1>3. \A w \in Offsets : w \notin grant.offset .. EndOf(grant) - 1 => mem'[w] = mem[w]
  BY <1>1 DEF FillPayload
<1>4. Layout' /\ Contents' /\ Leads(mem', head, grant.offset)
  BY <1>2, <1>3, GrantWritten DEF FillPayload
<1>5. TypeOK'
  BY <1>2 DEF IInv, TypeOK, FillPayload, consumerVars
<1>6. Granted'
  BY <1>4 DEF IInv, Granted, FillPayload
<1>7. Filled'
  <2>1. \A w \in PayloadOffsets(grant.offset, grant.size) : mem'[w] = Data(nextId)
    BY <1>1 DEF FillPayload
  <2> QED BY <2>1 DEF Filled, FillPayload
<1>8. Reading'
  BY DEF IInv, Reading, FillPayload, consumerVars
<1> QED BY <1>4, <1>5, <1>6, <1>7, <1>8 DEF IInv

LEMMA CommitEnvelopeStep ==
    ASSUME ~ShortCommits, IInv, NEW n \in Sizes, CommitEnvelope(n)
    PROVE  IInv'
<1>1. /\ n = grant.size /\ grant.offset \in Offsets /\ n \in Nat
      /\ EndOf(grant) <= Capacity /\ grant.offset + n = EndOf(grant)
      /\ grant.offset \in grant.offset .. EndOf(grant) - 1
  BY MsgRingAssumption DEF IInv, TypeOK, Granted, CommitEnvelope, EndOf, Offsets, Sizes
<1>2. mem' = [w \in Offsets |-> IF w = grant.offset THEN Header(nextId, n) ELSE mem[w]]
  <2>1. \A w \in Offsets : w \notin grant.offset + n .. grant.offset + grant.size - 1
    BY <1>1 DEF Offsets
  <2> QED BY <2>1 DEF CommitEnvelope
<1>3. Header(nextId, n) \in Words
  BY DEF IInv, TypeOK, Words
<1>4. mem' \in [Offsets -> Words]
  BY <1>2, <1>3 DEF IInv, TypeOK
<1>5. Layout' /\ Contents' /\ Leads(mem', head, grant.offset)
  BY <1>1, <1>2, <1>4, GrantWritten DEF CommitEnvelope
<1>6. /\ grant' = [grant EXCEPT !.written = n] /\ ppc' = "framed" /\ ppc = "filled"
      /\ UNCHANGED <<head, tail, want, refused, nextId, pending, consumerVars>>
  BY DEF CommitEnvelope
<1>7. TypeOK'
  BY <1>4, <1>6, MsgRingAssumption DEF IInv, TypeOK, consumerVars, Sizes
<1>8. /\ grant'.offset = grant.offset /\ grant'.size = grant.size
      /\ grant'.newHead = grant.newHead /\ grant'.written = n
      /\ EndOf(grant') = EndOf(grant)
  BY <1>6 DEF IInv, TypeOK, EndOf
<1>9. Granted'
  BY <1>5, <1>6, <1>8 DEF IInv, Granted
<1>10. Filled'
  <2>1. \A w \in PayloadOffsets(grant.offset, n) : w \in Offsets /\ w # grant.offset
    BY <1>1, MsgRingAssumption DEF PayloadOffsets, Offsets
  <2>2. \A w \in PayloadOffsets(grant.offset, n) : mem'[w] = Data(nextId)
    BY <1>1, <1>2, <1>6, <2>1 DEF IInv, Filled
  <2>3. mem'[grant.offset] = Header(nextId, n)
    BY <1>1, <1>2
  <2> QED BY <1>1, <1>6, <1>8, <2>2, <2>3 DEF Filled
<1>11. Reading'
  BY <1>6 DEF IInv, Reading, consumerVars
<1> QED BY <1>5, <1>7, <1>9, <1>10, <1>11 DEF IInv

LEMMA TryReserveStep == ASSUME IInv, TryReserve PROVE IInv'
<1>1. /\ ppc = "idle" /\ want \in Sizes
      /\ tail \in 0 .. Capacity - 1 /\ head \in 0 .. Capacity - 1 /\ Capacity \in Nat
      /\ want \in 1 .. Capacity - 1 /\ mem \in [Offsets -> Words]
      /\ UNCHANGED <<head, tail, want, nextId, pending, consumerVars>>
  BY MsgRingAssumption DEF IInv, TypeOK, TryReserve, Sizes, Offsets
<1>2. CASE ~HasRoom(head, tail, want)
  <2>1. /\ refused' = TRUE /\ UNCHANGED <<mem, ppc, grant>>
    BY <1>2 DEF TryReserve
  <2>2. TypeOK'
    BY <1>1, <2>1 DEF IInv, TypeOK, consumerVars
  <2>3. Layout' /\ Contents' /\ Granted' /\ Filled' /\ Reading'
    BY <1>1, <2>1 DEF IInv, Layout, Contents, Granted, Filled, Reading, consumerVars
  <2> QED BY <2>2, <2>3 DEF IInv
<1>3. CASE HasRoom(head, tail, want)
  <2> DEFINE o == WriteOffset(head, tail, want)
  <2>1. /\ ppc' = "granted" /\ refused' = FALSE
        /\ grant' = [offset |-> o, size |-> want, newHead |-> WrapHead(o + want), written |-> 0]
        /\ mem' = IF FitsAtStart(head, tail, want) THEN [mem EXCEPT ![head] = Sentinel] ELSE mem
    BY <1>3 DEF TryReserve, NewHead
  <2>2. /\ o \in 0 .. Capacity - 1 /\ o + want <= Capacity
        /\ WrapHead(o + want) \in 0 .. Capacity - 1
    BY <1>1, <1>3
       DEF WriteOffset, HasRoom, FitsAtEnd, FitsAtStart, FitsInGap, WrapHead
  <2>3. mem' \in [Offsets -> Words]
    BY <1>1, <2>1 DEF Words, Offsets
  <2>4. \A w \in Offsets : Position(tail, w) < Position(tail, head) => mem'[w] = mem[w]
    <3>1. ~(Position(tail, head) < Position(tail, head))
      BY <1>1 DEF Position
    <3> QED BY <1>1, <2>1, <3>1
  <2>5. /\ Linked(mem', pending)
        /\ pending # <<>> => Leads(mem', tail, pending[1].offset)
        /\ \A k \in 1 .. Len(pending) : Whole(mem', pending[k])
    BY <2>4, Kept DEF IInv
  <2>6. Layout' /\ Contents'
    BY <1>1, <2>5 DEF IInv, Layout, Contents
  <2>7. TypeOK'
    <3>1. grant' \in [offset : Offsets, size : 0 .. MaxRecord, newHead : Offsets,
                      written : 0 .. MaxRecord]
      BY <1>1, <2>1, <2>2, MsgRingAssumption DEF Offsets, Sizes
    <3> QED BY <1>1, <2>1, <2>3, <3>1 DEF IInv, TypeOK, consumerVars
  <2>8. Granted'
    <3>1. /\ grant'.size = want /\ grant'.offset = o
          /\ grant'.newHead = WrapHead(EndOf(grant')) /\ EndOf(grant') = o + want
      BY <2>1 DEF EndOf
    <3>2. CASE FitsAtStart(head, tail, want)
      <4>1. o = 0 /\ head # 0 /\ tail <= head /\ want < tail
        BY <1>1, <3>2 DEF WriteOffset, FitsAtStart
      <4>2. mem'[head] = Sentinel
        BY <1>1, <2>1, <3>2 DEF Offsets
      <4> QED BY <1>1, <2>2, <3>1, <4>1, <4>2 DEF Granted, Leads
    <3>3. CASE ~FitsAtStart(head, tail, want)
      <4>1. o = head
        BY <3>3 DEF WriteOffset
      <4>2. Position(tail, head) + want < tail + Capacity
        BY <1>1, <1>3, <3>3
           DEF HasRoom, FitsAtEnd, FitsInGap, Position, WrapHead
      <4> HIDE DEF o
      <4> QED BY <1>1, <2>2, <3>1, <4>1, <4>2 DEF Granted, Leads
    <3> QED BY <3>2, <3>3
  <2>9. Filled' /\ Reading'
    BY <1>1, <2>1 DEF IInv, Filled, Reading, consumerVars
  <2> QED BY <2>6, <2>7, <2>8, <2>9 DEF IInv
<1> QED BY <1>2, <1>3

(* The head moves as many positions as the grant has words, over what the  *)
(* record skipped at the end of the buffer.                                *)
LEMMA HeadMoves ==
    ASSUME TypeOK, Granted, ppc # "idle"
    PROVE  /\ Position(tail, grant.newHead) = Position(tail, grant.offset) + grant.size
           /\ Position(tail, head) <= Position(tail, grant.offset)
           /\ grant.newHead # tail
<1> DEFINE o == grant.offset
           n == grant.size
           h == grant.newHead
<1>1. /\ tail \in 0 .. Capacity - 1 /\ head \in 0 .. Capacity - 1 /\ Capacity \in Nat
      /\ o \in 0 .. Capacity - 1 /\ n \in Nat \ {0} /\ o + n <= Capacity
      /\ h = WrapHead(o + n)
  BY MsgRingAssumption DEF TypeOK, Granted, Offsets, Sizes, EndOf
<1>2. /\ o = head \/ o = 0
      /\ IF o = head THEN Position(tail, head) + n < tail + Capacity
         ELSE tail <= head /\ n < tail
  BY DEF Granted, Leads
<1> HIDE DEF o, n, h
<1>3. Position(tail, h) = Position(tail, o) + n
  BY <1>1, <1>2 DEF Position, WrapHead
<1>4. Position(tail, head) <= Position(tail, o)
  BY <1>1, <1>2 DEF Position
<1>5. h # tail
  BY <1>1, <1>2 DEF Position, WrapHead
<1> QED BY <1>3, <1>4, <1>5 DEF o, n, h

LEMMA AppendFacts ==
    ASSUME NEW S, NEW q \in Seq(S), NEW e \in S
    PROVE  /\ Append(q, e) \in Seq(S) /\ Append(q, e) # <<>>
           /\ Len(q) \in Nat /\ Len(Append(q, e)) = Len(q) + 1
           /\ \A k \in 1 .. Len(q) : Append(q, e)[k] = q[k]
           /\ Append(q, e)[Len(q) + 1] = e
           /\ q = <<>> <=> Len(q) = 0
OBVIOUS

LEMMA StoreHeadStep == ASSUME IInv, StoreHead PROVE IInv'
<1> DEFINE r == [id |-> nextId, offset |-> grant.offset, size |-> grant.written]
           n == Len(pending)
<1>1. /\ ppc = "framed" /\ ppc' = "idle" /\ head' = grant.newHead
      /\ pending' = Append(pending, r)
      /\ nextId' = (nextId + 1) % IdSpan /\ want' = 0 /\ grant' = NoGrant
      /\ UNCHANGED <<mem, tail, refused, consumerVars>>
  BY DEF StoreHead
<1>2. /\ r \in Records /\ r.id = nextId /\ r.offset = grant.offset /\ r.size = grant.size
      /\ EndOf(r) = EndOf(grant) /\ EndOf(r) <= Capacity
  BY <1>1 DEF IInv, TypeOK, Granted, Filled, Records, EndOf
<1> HIDE DEF r
<1>3. /\ pending \in Seq(Records) /\ n \in Nat /\ (pending = <<>> <=> n = 0)
      /\ pending' \in Seq(Records) /\ pending' # <<>>
      /\ Len(pending') = n + 1 /\ pending'[n + 1] = r
      /\ \A k \in 1 .. n : pending'[k] = pending[k]
  BY <1>1, <1>2, AppendFacts DEF IInv, Layout
<1>4. /\ Position(tail, head') = Position(tail, r.offset) + r.size
      /\ Position(tail, head) <= Position(tail, r.offset)
      /\ head' # tail
  BY <1>1, <1>2, HeadMoves DEF IInv
<1>6. /\ tail \in Nat /\ head \in Nat /\ head' \in Nat /\ Capacity \in Nat
      /\ r.offset \in Nat /\ r.size \in Nat
  BY <1>1, <1>2, MsgRingAssumption DEF IInv, TypeOK, Records, Offsets, Sizes
<1>5. \A k \in 1 .. n : /\ pending[k].size \in Nat
                        /\ Position(tail, pending[k].offset) \in Nat
                        /\ Position(tail, pending[k].offset) + pending[k].size
                             <= Position(tail, head)
  <2> SUFFICES ASSUME NEW k \in 1 .. n
               PROVE  /\ pending[k].size \in Nat /\ pending[k].offset \in Nat
                      /\ Position(tail, pending[k].offset) + pending[k].size
                           <= Position(tail, head)
    BY <1>6, PositionNat
  <2> QED BY RecordsPlaced DEF IInv
<1>7. TypeOK'
  <2>1. NoGrant \in [offset : Offsets, size : 0 .. MaxRecord, newHead : Offsets,
                     written : 0 .. MaxRecord]
    BY MsgRingAssumption DEF NoGrant, Offsets
  <2>2. grant.newHead \in Offsets /\ (nextId + 1) % IdSpan \in Ids /\ 0 \in 0 .. MaxRecord
    BY MsgRingAssumption DEF IInv, TypeOK, Ids
  <2> QED BY <1>1, <2>1, <2>2 DEF IInv, TypeOK, consumerVars
<1>8. Layout'
  <2>1. \A k \in 1 .. n + 1 : EndOf(pending'[k]) <= Capacity
    BY <1>2, <1>3 DEF IInv, Layout
  <2> DEFINE last == Position(tail, r.offset)
             old == Position(tail, head)
             new == Position(tail, head')
  <2>0. last \in Nat /\ old \in Nat /\ new = last + r.size /\ old <= last /\ r.size \in Nat
    BY <1>4, <1>6, PositionNat
  <2> HIDE DEF last, old, new
  <2>2. Placed(tail, head', pending')
    <3> SUFFICES ASSUME NEW k \in 1 .. n + 1
                 PROVE  Position(tail, pending'[k].offset) + pending'[k].size
                          <= Position(tail, head')
      BY <1>3 DEF Placed
    <3>1. CASE k = n + 1
      BY <1>3, <2>0, <3>1 DEF last, new
    <3>2. CASE k \in 1 .. n
      <4>1. pending'[k] = pending[k]
        BY <1>3, <3>2
      <4>2. /\ pending[k].size \in Nat /\ Position(tail, pending[k].offset) \in Nat
            /\ Position(tail, pending[k].offset) + pending[k].size <= old
        BY <1>5, <3>2 DEF old
      <4>3. Position(tail, pending[k].offset) + pending[k].size <= new
        BY <2>0, <4>2
      <4> QED BY <4>1, <4>3 DEF new
    <3> QED BY <1>3, <3>1, <3>2
  <2>3. Sorted(tail, pending')
    <3> SUFFICES ASSUME NEW i \in 1 .. n + 1, NEW j \in 1 .. n + 1, i < j
                 PROVE  Position(tail, pending'[i].offset) + pending'[i].size
                          <= Position(tail, pending'[j].offset)
      BY <1>3 DEF Sorted
    <3>1. CASE j = n + 1
      <4>1. i \in 1 .. n /\ pending'[i] = pending[i] /\ pending'[j] = r
        BY <1>3, <3>1
      <4>2. /\ pending[i].size \in Nat /\ Position(tail, pending[i].offset) \in Nat
            /\ Position(tail, pending[i].offset) + pending[i].size <= old
        BY <1>5, <4>1 DEF old
      <4>3. Position(tail, pending[i].offset) + pending[i].size <= last
        BY <2>0, <4>2
      <4> QED BY <4>1, <4>3 DEF last
    <3>2. CASE j \in 1 .. n
      BY <1>3, <3>2 DEF IInv, Layout, Sorted
    <3> QED BY <1>3, <3>1, <3>2
  <2>4. Linked(mem, pending')
    <3> SUFFICES ASSUME NEW k \in 1 .. n
                 PROVE  Leads(mem, WrapHead(EndOf(pending'[k])), pending'[k + 1].offset)
      BY <1>3 DEF Linked
    <3>1. CASE k = n
      <4>1. WrapHead(EndOf(pending'[k])) = head
        BY <1>3, <3>1 DEF IInv, Layout
      <4> QED BY <1>1, <1>2, <1>3, <3>1, <4>1 DEF IInv, Granted
    <3>2. CASE k \in 1 .. n - 1
      BY <1>3, <3>2 DEF IInv, Layout, Linked
    <3> QED BY <1>3, <3>1, <3>2
  <2>5. Leads(mem, tail, pending'[1].offset)
    <3>1. CASE n = 0
      BY <1>1, <1>2, <1>3, <3>1 DEF IInv, Layout, Granted
    <3>2. CASE n # 0
      BY <1>3, <3>2 DEF IInv, Layout
    <3> QED BY <3>1, <3>2
  <2>6. head' = WrapHead(EndOf(pending'[Len(pending')]))
    BY <1>1, <1>2, <1>3 DEF IInv, Granted
  <2> QED BY <1>1, <1>3, <1>4, <2>1, <2>2, <2>3, <2>4, <2>5, <2>6 DEF Layout
<1>9. Contents'
  <2>1. Whole(mem, r)
    BY <1>1, <1>2 DEF IInv, Filled, Whole
  <2> QED BY <1>1, <1>3, <2>1 DEF IInv, Contents
<1>10. Granted' /\ Filled'
  BY <1>1 DEF Granted, Filled
<1>11. Reading'
  <2>1. pending # <<>> => pending'[1] = pending[1]
    BY <1>3
  <2> QED BY <1>1, <1>3, <2>1 DEF IInv, Reading, consumerVars
<1> QED BY <1>7, <1>8, <1>9, <1>10, <1>11 DEF IInv

(* ------------------------------ the consumer --------------------------- *)

(* When the tail moves up to position b, what lies at b or behind it keeps *)
(* its order.                                                              *)
LEMMA TailMoves ==
    ASSUME TypeOK, NEW t, NEW b \in Nat, tail < b, b <= Capacity, t = WrapHead(b),
           NEW x \in Offsets, Position(tail, x) >= b
    PROVE  Position(t, x) = Position(tail, x) - (b - t)
BY MsgRingAssumption DEF TypeOK, Offsets, Position, WrapHead

LEMMA GrantStays ==
    ASSUME TypeOK, Granted, NEW b \in Nat, tail < b, b <= Capacity,
           tail' = WrapHead(b), Position(tail, head) >= b,
           UNCHANGED <<mem, head, ppc, grant>>
    PROVE  Granted'
<1> SUFFICES ASSUME ppc # "idle"
             PROVE  IF grant.offset = head
                    THEN Position(tail', head) + grant.size < tail' + Capacity
                    ELSE tail' <= head /\ grant.size < tail'
  BY DEF Granted
<1>1. /\ tail \in 0 .. Capacity - 1 /\ head \in 0 .. Capacity - 1 /\ Capacity \in Nat
      /\ grant.size \in Nat
  BY MsgRingAssumption DEF TypeOK, Offsets
<1>2. Position(tail', head) = Position(tail, head) - (b - tail')
  BY TailMoves DEF TypeOK
<1>3. IF grant.offset = head THEN Position(tail, head) + grant.size < tail + Capacity
      ELSE tail <= head /\ grant.size < tail
  BY DEF Granted
<1> QED BY <1>1, <1>2, <1>3 DEF Position, WrapHead

(* The records q, all at b or behind it, after the tail moved there.       *)
LEMMA RecordsStay ==
    ASSUME TypeOK, NEW t, NEW b \in Nat, tail < b, b <= Capacity, t = WrapHead(b),
           NEW q \in Seq(Records), Placed(tail, head, q), Sorted(tail, q),
           \A k \in 1 .. Len(q) : Position(tail, q[k].offset) >= b,
           Position(tail, head) >= b
    PROVE  Placed(t, head, q) /\ Sorted(t, q)
<1>1. /\ tail \in Nat /\ head \in Nat /\ head \in Offsets /\ t \in Nat /\ Capacity \in Nat
  BY MsgRingAssumption DEF TypeOK, Offsets, WrapHead
<1>2. \A k \in 1 .. Len(q) :
        /\ q[k].size \in Nat
        /\ Position(tail, q[k].offset) \in Nat
        /\ Position(t, q[k].offset) = Position(tail, q[k].offset) - (b - t)
  <2> SUFFICES ASSUME NEW k \in 1 .. Len(q)
               PROVE  /\ q[k].size \in Nat
                      /\ Position(tail, q[k].offset) \in Nat
                      /\ Position(t, q[k].offset) = Position(tail, q[k].offset) - (b - t)
    OBVIOUS
  <2>1. q[k] \in Records
    OBVIOUS
  <2>2. q[k].size \in Nat /\ q[k].offset \in Nat /\ q[k].offset \in Offsets
    BY <2>1, MsgRingAssumption DEF Records, Sizes, Offsets
  <2> QED BY <1>1, <2>2, TailMoves, PositionNat
<1>3. /\ Position(tail, head) \in Nat
      /\ Position(t, head) = Position(tail, head) - (b - t)
  BY <1>1, TailMoves, PositionNat
<1>4. ASSUME NEW k \in 1 .. Len(q)
      PROVE  Position(t, q[k].offset) + q[k].size <= Position(t, head)
  <2>1. Position(tail, q[k].offset) + q[k].size <= Position(tail, head)
    BY DEF Placed
  <2> DEFINE y == Position(tail, q[k].offset)
             z == Position(tail, head)
             n == q[k].size
  <2>2. y \in Nat /\ z \in Nat /\ n \in Nat /\ y + n <= z
    BY <1>2, <1>3, <2>1
  <2>3. Position(t, q[k].offset) = y - (b - t) /\ Position(t, head) = z - (b - t)
    BY <1>2, <1>3
  <2> HIDE DEF y, z, n
  <2>4. y - (b - t) + n <= z - (b - t)
    BY <1>1, <2>2
  <2> QED BY <2>3, <2>4 DEF n
<1>5. ASSUME NEW i \in 1 .. Len(q), NEW j \in 1 .. Len(q), i < j
      PROVE  Position(t, q[i].offset) + q[i].size <= Position(t, q[j].offset)
  <2>1. Position(tail, q[i].offset) + q[i].size <= Position(tail, q[j].offset)
    BY <1>5 DEF Sorted
  <2> DEFINE y == Position(tail, q[i].offset)
             z == Position(tail, q[j].offset)
             n == q[i].size
  <2>2. y \in Nat /\ z \in Nat /\ n \in Nat /\ y + n <= z
    BY <1>2, <2>1
  <2>3. Position(t, q[i].offset) = y - (b - t) /\ Position(t, q[j].offset) = z - (b - t)
    BY <1>2
  <2> HIDE DEF y, z, n
  <2>4. y - (b - t) + n <= z - (b - t)
    BY <1>1, <2>2
  <2> QED BY <2>3, <2>4 DEF n
<1> QED BY <1>4, <1>5 DEF Placed, Sorted

LEMMA LoadHeadStep == ASSUME IInv, LoadHead PROVE IInv'
<1>1. TypeOK'
  BY DEF IInv, TypeOK, LoadHead, producerVars
<1>2. Layout' /\ Contents' /\ Granted' /\ Filled'
  BY DEF IInv, Layout, Contents, Granted, Filled, LoadHead, producerVars
<1>3. Reading'
  BY DEF IInv, Reading, Layout, LoadHead
<1> QED BY <1>1, <1>2, <1>3 DEF IInv

LEMMA FirstWhole ==
    ASSUME IInv, pending # <<>>
    PROVE  /\ 1 \in 1 .. Len(pending) /\ pending[1] \in Records
           /\ mem[pending[1].offset] = Header(pending[1].id, pending[1].size)
           /\ mem[pending[1].offset] # Sentinel
           /\ EndOf(pending[1]) <= Capacity
<1>1. 1 \in 1 .. Len(pending)
  BY DEF IInv, Layout
<1>2. mem[pending[1].offset] = Header(pending[1].id, pending[1].size)
  BY <1>1 DEF IInv, Contents, Whole
<1> QED BY <1>1, <1>2, RecordsPlaced DEF IInv, Header, Sentinel

LEMMA ReadEnvelopeStep == ASSUME IInv, ReadEnvelope PROVE IInv'
<1>1. /\ cpc = "loaded" /\ pending # <<>> /\ mem[tail] # Sentinel
      /\ UNCHANGED <<mem, head, tail, producerVars, got, pending>>
  BY DEF IInv, Reading, ReadEnvelope
<1>2. tail = pending[1].offset
  BY <1>1 DEF IInv, Layout, Leads
<1>3. /\ mem[tail] = <<"envelope", pending[1].id, pending[1].size>>
      /\ tail + pending[1].size <= Capacity /\ pending[1].size \in 0 .. MaxRecord
  BY <1>1, <1>2, FirstWhole, MsgRingAssumption DEF Header, EndOf, Records, Sizes
<1>4. cpc' = "peeked" /\ meta' = pending[1].size
  <2>1. mem[tail][1] = "envelope" /\ mem[tail][3] = pending[1].size
    BY <1>3
  <2> QED BY <1>3, <2>1 DEF ReadEnvelope
<1>5. TypeOK'
  BY <1>1, <1>3, <1>4 DEF IInv, TypeOK, producerVars
<1>6. Layout' /\ Contents' /\ Granted' /\ Filled'
  BY <1>1 DEF IInv, Layout, Contents, Granted, Filled, producerVars
<1>7. Reading'
  BY <1>1, <1>2, <1>4 DEF Reading
<1> QED BY <1>5, <1>6, <1>7 DEF IInv

LEMMA SkipSentinelStep == ASSUME IInv, SkipSentinel PROVE IInv'
<1>1. /\ cpc = "loaded" /\ mem[tail] = Sentinel /\ tail' = 0 /\ cpc' = "idle"
      /\ pending # <<>>
      /\ UNCHANGED <<mem, head, producerVars, meta, got, pending>>
  BY DEF IInv, Reading, SkipSentinel
<1>2. /\ TypeOK /\ tail \in Offsets /\ head \in Offsets
      /\ Capacity \in Nat /\ tail \in 0 .. Capacity - 1 /\ 0 \in Offsets
      /\ tail \in Nat /\ head \in Nat
  BY MsgRingAssumption DEF IInv, TypeOK, Offsets
<1>3. pending[1].offset = 0 /\ tail # 0
  BY <1>1, FirstWhole DEF IInv, Layout, Leads
<1>4. /\ pending \in Seq(Records) /\ Len(pending) \in Nat \ {0}
      /\ Placed(tail, head, pending) /\ Sorted(tail, pending)
  BY <1>1, EmptySeq DEF IInv, Layout
<1>5. Position(tail, 0) = Capacity
  BY <1>2, <1>3 DEF Position
<1>6. ASSUME NEW k \in 1 .. Len(pending)
      PROVE  /\ Position(tail, pending[k].offset) \in Nat
             /\ Position(tail, pending[k].offset) >= Capacity
  <2>1. /\ pending[k].offset \in Nat /\ 1 \in 1 .. Len(pending)
        /\ pending[1].size \in Nat
    BY <1>2, <1>4, RecordsPlaced DEF IInv
  <2>2. Position(tail, pending[k].offset) \in Nat
    BY <1>2, <2>1, PositionNat
  <2>3. CASE k = 1
    BY <1>2, <1>3, <1>5, <2>2, <2>3
  <2>4. CASE k # 1
    <3>1. Position(tail, pending[1].offset) + pending[1].size
            <= Position(tail, pending[k].offset)
      BY <1>4, <2>1, <2>4 DEF Sorted
    <3> QED BY <1>2, <1>3, <1>5, <2>1, <2>2, <3>1
  <2> QED BY <2>3, <2>4
<1>7. Position(tail, head) >= Capacity /\ head # 0
  <2>1. /\ Position(tail, pending[1].offset) + pending[1].size <= Position(tail, head)
        /\ pending[1].size \in Nat \ {0}
    BY <1>4, RecordsPlaced DEF IInv
  <2>2. Capacity + pending[1].size <= Position(tail, head)
    BY <1>3, <1>5, <2>1
  <2>3. Position(tail, head) \in Nat
    BY <1>2, PositionNat
  <2>4. Position(tail, head) >= Capacity /\ Position(tail, head) # Capacity
    BY <1>2, <2>1, <2>2, <2>3
  <2> QED BY <1>5, <2>4
<1>8. tail < Capacity /\ Capacity <= Capacity /\ tail' = WrapHead(Capacity)
  BY <1>1, <1>2 DEF WrapHead
<1>9. Placed(tail', head, pending) /\ Sorted(tail', pending)
  BY <1>2, <1>4, <1>6, <1>7, <1>8, RecordsStay
<1>10. TypeOK'
  BY <1>1, <1>2 DEF TypeOK, producerVars
<1>11. Layout'
  <2>1. Leads(mem, tail', pending[1].offset) /\ head # tail'
    BY <1>1, <1>3, <1>7 DEF Leads
  <2> QED BY <1>1, <1>9, <2>1 DEF IInv, Layout
<1>12. Granted'
  BY <1>1, <1>2, <1>7, <1>8, GrantStays DEF IInv, producerVars
<1>13. Contents' /\ Filled' /\ Reading'
  BY <1>1 DEF IInv, Contents, Filled, Reading, producerVars
<1> QED BY <1>10, <1>11, <1>12, <1>13 DEF IInv

LEMMA PopAdvanceStep == ASSUME IInv, PopAdvance PROVE IInv'
<1> DEFINE b == EndOf(pending[1])
<1>1. /\ cpc = "peeked" /\ cpc' = "idle" /\ meta' = 0 /\ pending' = Tail(pending)
      /\ pending # <<>> /\ tail = pending[1].offset /\ meta = pending[1].size
      /\ UNCHANGED <<mem, head, producerVars>>
  BY DEF IInv, Reading, PopAdvance
<1>2. /\ TypeOK /\ tail \in Offsets /\ head \in Offsets
      /\ Capacity \in Nat /\ tail \in Nat /\ pending[1].size \in Nat \ {0}
      /\ b = tail + pending[1].size /\ b \in Nat /\ tail < b /\ b <= Capacity
  <2>1. /\ TypeOK /\ tail \in Offsets /\ head \in Offsets
        /\ Capacity \in Nat /\ tail \in Nat
    BY MsgRingAssumption DEF IInv, TypeOK, Offsets
  <2>2. pending[1].size \in Nat \ {0} /\ EndOf(pending[1]) <= Capacity
    BY <1>1, FirstWhole, RecordsPlaced DEF IInv
  <2>3. b = tail + pending[1].size
    BY <1>1 DEF EndOf
  <2> QED BY <2>1, <2>2, <2>3
<1> HIDE DEF b
<1>3. tail' = WrapHead(b) /\ tail' \in Offsets
  <2>1. tail' = IF tail + meta >= Capacity THEN tail + meta - Capacity ELSE tail + meta
    BY DEF PopAdvance
  <2>2. meta = pending[1].size
    BY <1>1
  <2>3. tail + meta = b /\ tail \in Nat /\ meta \in Nat /\ Capacity \in Nat /\ b \in Nat
    BY <1>2, <2>2
  <2>4. tail' = IF b >= Capacity THEN b - Capacity ELSE b
    BY <2>1, <2>3
  <2> QED BY <1>2, <2>4 DEF WrapHead, Offsets
<1>4. /\ pending \in Seq(Records) /\ pending' \in Seq(Records)
      /\ Len(pending) \in Nat \ {0} /\ Len(pending') = Len(pending) - 1
      /\ \A k \in 1 .. Len(pending') : pending'[k] = pending[k + 1]
      /\ pending' = <<>> <=> Len(pending') = 0
  BY <1>1, HeadTailProperties, EmptySeq DEF IInv, Layout
<1>5. Placed(tail, head, pending) /\ Sorted(tail, pending) /\ Linked(mem, pending)
  BY DEF IInv, Layout
<1>6. Position(tail, pending[1].offset) + pending[1].size = b
  BY <1>1, <1>2 DEF Position
<1>7. Position(tail, head) >= b
  BY <1>4, <1>5, <1>6 DEF Placed
<1>8. \A k \in 1 .. Len(pending') : Position(tail, pending'[k].offset) >= b
  BY <1>4, <1>5, <1>6 DEF Sorted
<1>9. Placed(tail, head, pending') /\ Sorted(tail, pending')
  <2>1. ASSUME NEW k \in 1 .. Len(pending')
        PROVE  Position(tail, pending'[k].offset) + pending'[k].size <= Position(tail, head)
    BY <1>4, <1>5 DEF Placed
  <2>2. ASSUME NEW i \in 1 .. Len(pending'), NEW j \in 1 .. Len(pending'), i < j
        PROVE  Position(tail, pending'[i].offset) + pending'[i].size
                 <= Position(tail, pending'[j].offset)
    <3>1. /\ i + 1 \in 1 .. Len(pending) /\ j + 1 \in 1 .. Len(pending) /\ i + 1 < j + 1
          /\ pending'[i] = pending[i + 1] /\ pending'[j] = pending[j + 1]
      BY <1>4, <2>2
    <3> QED BY <1>5, <3>1 DEF Sorted
  <2> QED BY <2>1, <2>2 DEF Placed, Sorted
<1>10. Placed(tail', head, pending') /\ Sorted(tail', pending')
  BY <1>2, <1>3, <1>4, <1>7, <1>8, <1>9, RecordsStay
<1>11. TypeOK'
  BY <1>1, <1>2, <1>3, MsgRingAssumption DEF TypeOK, producerVars
<1>12. Layout'
  <2>1. \A k \in 1 .. Len(pending') : EndOf(pending'[k]) <= Capacity
    BY <1>4 DEF IInv, Layout
  <2>2. Linked(mem, pending')
    BY <1>4, <1>5 DEF Linked
  <2>3. ASSUME pending' # <<>>
        PROVE  /\ Leads(mem, tail', pending'[1].offset)
               /\ head = WrapHead(EndOf(pending'[Len(pending')]))
               /\ head # tail'
    <3>1. 1 \in 1 .. Len(pending') /\ 1 \in 1 .. Len(pending) - 1
      BY <1>4, <2>3
    <3>2. Leads(mem, tail', pending'[1].offset)
      BY <1>3, <1>4, <1>5, <3>1 DEF Linked, b
    <3>3. head = WrapHead(EndOf(pending'[Len(pending')]))
      BY <1>1, <1>4, <3>1 DEF IInv, Layout
    <3>4. head # tail'
      <4>1. /\ pending'[1] \in Records
            /\ Position(tail', pending'[1].offset) + pending'[1].size
                 <= Position(tail', head)
        BY <1>4, <1>10, <3>1 DEF Placed
      <4>2. /\ pending'[1].offset \in 0 .. Capacity - 1
            /\ pending'[1].size \in Nat \ {0} /\ tail' \in 0 .. Capacity - 1
        BY <1>3, <4>1, MsgRingAssumption DEF Records, Offsets, Sizes
      <4> QED BY <1>2, <4>1, <4>2 DEF Position
    <3> QED BY <3>2, <3>3, <3>4
  <2>4. pending' = <<>> => head = tail'
    BY <1>1, <1>3, <1>4 DEF IInv, Layout, b
  <2> QED BY <1>1, <1>4, <1>10, <2>1, <2>2, <2>3, <2>4 DEF Layout
<1>13. Granted'
  BY <1>1, <1>2, <1>3, <1>7, GrantStays DEF IInv, producerVars
<1>14. Contents'
  BY <1>1, <1>4 DEF IInv, Contents
<1>15. Filled' /\ Reading'
  BY <1>1 DEF IInv, Filled, Reading, producerVars
<1> QED BY <1>11, <1>12, <1>13, <1>14, <1>15 DEF IInv

(* ------------------------------- theorems ------------------------------ *)

LEMMA Starts == Init => IInv
<1> SUFFICES ASSUME Init PROVE IInv
  OBVIOUS
<1>1. TypeOK
  <2>1. 0 \in Offsets /\ 0 \in Ids /\ 0 \in 0 .. MaxRecord /\ Zero \in Words
    BY MsgRingAssumption DEF Offsets, Ids, Words
  <2>2. NoGrant \in [offset : Offsets, size : 0 .. MaxRecord, newHead : Offsets,
                     written : 0 .. MaxRecord]
    BY <2>1 DEF NoGrant
  <2> QED BY <2>1, <2>2 DEF Init, TypeOK
<1>2. pending = <<>> /\ Len(pending) = 0 /\ pending \in Seq(Records)
  BY EmptySeq DEF Init
<1>3. Layout
  BY <1>2 DEF Init, Layout, Placed, Sorted, Linked
<1>4. Contents /\ Granted /\ Filled /\ Reading
  BY <1>2 DEF Init, Contents, Granted, Filled, Reading
<1> QED BY <1>1, <1>3, <1>4 DEF IInv

LEMMA Stutters == ASSUME IInv, UNCHANGED vars PROVE IInv'
<1>1. TypeOK'
  BY DEF IInv, TypeOK, vars
<1>2. Layout' /\ Contents' /\ Granted' /\ Filled' /\ Reading'
  BY DEF IInv, Layout, Contents, Granted, Filled, Reading, vars
<1> QED BY <1>1, <1>2 DEF IInv

(* The invariant, for callers that commit what they reserved.              *)
THEOREM RingInvariant == ASSUME ~ShortCommits PROVE Spec => []IInv
<1>1. IInv /\ [Next]_vars => IInv'
  <2> SUFFICES ASSUME IInv, [Next]_vars PROVE IInv'
    OBVIOUS
  <2>1. ASSUME NEW n \in Sizes, Submit(n) PROVE IInv'
    BY <2>1, SubmitStep
  <2>2. CASE TryReserve
    BY <2>2, TryReserveStep
  <2>3. CASE FillPayload
    BY <2>3, FillPayloadStep
  <2>4. ASSUME NEW n \in Sizes, CommitEnvelope(n) PROVE IInv'
    BY <2>4, CommitEnvelopeStep
  <2>5. CASE StoreHead
    BY <2>5, StoreHeadStep
  <2>6. CASE LoadHead
    BY <2>6, LoadHeadStep
  <2>7. CASE SkipSentinel
    BY <2>7, SkipSentinelStep
  <2>8. CASE ReadEnvelope
    BY <2>8, ReadEnvelopeStep
  <2>9. CASE PopAdvance
    BY <2>9, PopAdvanceStep
  <2>10. CASE UNCHANGED vars
    BY <2>10, Stutters
  <2> QED BY <2>1, <2>2, <2>3, <2>4, <2>5, <2>6, <2>7, <2>8, <2>9, <2>10
          DEF Next, Producer, Consumer
<1> QED BY Starts, <1>1, PTL DEF Spec

(* The state keeps its shape.                                              *)
THEOREM RingTypeOK == ASSUME ~ShortCommits PROVE Spec => []TypeOK
<1>1. IInv => TypeOK
  BY DEF IInv
<1> QED BY <1>1, RingInvariant, PTL

(* msg_ring.rs: committed records stay as written until they are popped.   *)
THEOREM RecordsIntact == ASSUME ~ShortCommits PROVE Spec => []UnreadIntact
<1>1. ASSUME IInv PROVE UnreadIntact
  <2> SUFFICES ASSUME NEW k \in 1 .. Len(pending)
               PROVE  RecordAt(pending[k].offset, pending[k].size)
                        = Image(pending[k].id, pending[k].size)
    BY DEF UnreadIntact
  <2> DEFINE r == pending[k]
  <2>1. Whole(mem, r) /\ r.offset \in Nat /\ r.size \in Nat
    BY <1>1, RecordsPlaced DEF IInv, Contents
  <2> HIDE DEF r
  <2>2. ASSUME NEW j \in 1 .. r.size
        PROVE  mem[r.offset + j - 1] = IF j = 1 THEN Header(r.id, r.size) ELSE Data(r.id)
    BY <2>1 DEF Whole, PayloadOffsets
  <2>3. RecordAt(r.offset, r.size) = Image(r.id, r.size)
    BY <2>2 DEF RecordAt, Image
  <2> QED BY <2>3 DEF r
<1> QED BY <1>1, RingInvariant, PTL

(* msg_ring.rs: consumer_peek meets an envelope or a sentinel, and the     *)
(* oldest record is next.                                                  *)
THEOREM OldestIsNext == ASSUME ~ShortCommits PROVE Spec => []TailFindsOldest
<1>1. ASSUME IInv PROVE TailFindsOldest
  <2>1. ConsumerNeverPanics
    BY <1>1 DEF IInv, Reading, ConsumerNeverPanics
  <2>2. pending # <<>> => Head(pending) = pending[1]
    BY <1>1 DEF IInv, Layout
  <2> QED BY <1>1, <2>1, <2>2 DEF IInv, Layout, Leads, TailFindsOldest
<1> QED BY <1>1, RingInvariant, PTL

(* msg_ring.rs: try_reserve never hands out words that are still unread.   *)
THEOREM GrantsDisjoint == ASSUME ~ShortCommits PROVE Spec => []NoTornRecord
<1>1. ASSUME IInv PROVE NoTornRecord
  <2> SUFFICES ASSUME ppc # "idle", NEW k \in 1 .. Len(pending),
                      NEW w \in pending[k].offset .. pending[k].offset + pending[k].size - 1
               PROVE  w \notin grant.offset .. grant.offset + grant.size - 1
    BY DEF NoTornRecord
  <2>1. w \in Offsets /\ Position(tail, w) < Position(tail, head)
    BY <1>1, RecordsPlaced DEF IInv, EndOf
  <2>2. w \notin grant.offset .. EndOf(grant) - 1
    BY <1>1, <2>1, GrantOutside DEF IInv
  <2>3. /\ w \in Nat /\ grant.offset \in Nat /\ grant.size \in Nat
        /\ EndOf(grant) = grant.offset + grant.size
    BY <1>1, <2>1, MsgRingAssumption DEF IInv, TypeOK, Offsets, EndOf
  <2> QED BY <2>2, <2>3
<1> QED BY <1>1, RingInvariant, PTL

(* msg_ring.rs, reserve_offset: an empty ring takes half of its capacity.  *)
THEOREM EmptyAccepts == ASSUME ~ShortCommits PROVE Spec => []EmptyRingAccepts
<1>1. ASSUME IInv PROVE EmptyRingAccepts
  <2> SUFFICES ASSUME head = tail, NEW n \in Sizes, 2 * n <= Capacity
               PROVE  HasRoom(head, tail, n)
    BY DEF EmptyRingAccepts
  <2>1. /\ tail \in 0 .. Capacity - 1 /\ Capacity \in Nat /\ n \in Nat \ {0}
    BY <1>1, MsgRingAssumption DEF IInv, TypeOK, Offsets, Sizes
  <2> QED BY <2>1 DEF HasRoom, FitsAtEnd, FitsAtStart, FitsInGap, WrapHead
<1> QED BY <1>1, RingInvariant, PTL

(* --------------------- the ring implements the queue ------------------- *)

(* The queue the ring stands for.                                          *)
Abstract(q) == [k \in 1 .. Len(q) |-> <<q[k].id, q[k].size>>]

LEMMA AbstractShape ==
    ASSUME NEW q \in Seq(Records)
    PROVE  /\ Len(q) \in Nat
           /\ Abstract(q) \in Seq(Ids \X Sizes) /\ Len(Abstract(q)) = Len(q)
           /\ \A k \in 1 .. Len(q) : /\ Abstract(q)[k] = <<q[k].id, q[k].size>>
                                     /\ Abstract(q)[k] \in Ids \X Sizes
<1>1. Len(q) \in Nat
  OBVIOUS
<1>2. ASSUME NEW k \in 1 .. Len(q) PROVE <<q[k].id, q[k].size>> \in Ids \X Sizes
  <2>1. q[k] \in Records
    BY ElementOfSeq
  <2>2. q[k].id \in Ids /\ q[k].size \in Sizes
    BY <2>1 DEF Records
  <2> QED BY <2>2
<1>3. /\ DOMAIN Abstract(q) = 1 .. Len(q)
      /\ \A k \in 1 .. Len(q) : Abstract(q)[k] = <<q[k].id, q[k].size>>
  BY DEF Abstract
<1>4. Abstract(q) \in [1 .. Len(q) -> Ids \X Sizes]
  BY <1>2 DEF Abstract
<1>5. Abstract(q) \in Seq(Ids \X Sizes)
  BY <1>1, <1>4, SeqDef
<1>6. Len(Abstract(q)) = Len(q)
  BY <1>1, <1>3, <1>5, LenProperties
<1> QED BY <1>1, <1>2, <1>3, <1>5, <1>6

LEMMA AbstractAppend ==
    ASSUME NEW q \in Seq(Records), NEW r \in Records
    PROVE  Abstract(Append(q, r)) = Append(Abstract(q), <<r.id, r.size>>)
<1> DEFINE longer == Append(q, r)
           pair == <<r.id, r.size>>
           n == Len(q)
<1>1. pair \in Ids \X Sizes
  BY DEF Records
<1>2. /\ longer \in Seq(Records) /\ n \in Nat /\ Len(longer) = n + 1
      /\ longer[n + 1] = r
      /\ \A k \in 1 .. n : longer[k] = q[k]
  BY AppendFacts
<1>3. /\ Abstract(q) \in Seq(Ids \X Sizes) /\ Len(Abstract(q)) = n
      /\ \A k \in 1 .. n : Abstract(q)[k] = <<q[k].id, q[k].size>>
  BY AbstractShape
<1> HIDE DEF longer, pair, n
<1>4. /\ Abstract(longer) \in Seq(Ids \X Sizes) /\ Len(Abstract(longer)) = n + 1
      /\ \A k \in 1 .. n + 1 : Abstract(longer)[k] = <<longer[k].id, longer[k].size>>
  BY <1>2, AbstractShape
<1>5. /\ Append(Abstract(q), pair) \in Seq(Ids \X Sizes)
      /\ Len(Append(Abstract(q), pair)) = n + 1
      /\ Append(Abstract(q), pair)[n + 1] = pair
      /\ \A k \in 1 .. n : Append(Abstract(q), pair)[k] = Abstract(q)[k]
  BY <1>1, <1>3, AppendFacts
<1>6. ASSUME NEW k \in 1 .. n + 1
      PROVE  Abstract(longer)[k] = Append(Abstract(q), pair)[k]
  <2>1. CASE k = n + 1
    BY <1>2, <1>4, <1>5, <2>1 DEF pair
  <2>2. CASE k \in 1 .. n
    BY <1>2, <1>3, <1>4, <1>5, <2>2
  <2>3. k = n + 1 \/ k \in 1 .. n
    <3>1. n \in Nat
      BY <1>2
    <3> QED BY <3>1
  <2> QED BY <2>1, <2>2, <2>3
<1>7. Abstract(longer) = Append(Abstract(q), pair)
  BY <1>4, <1>5, <1>6, SeqEqual
<1> QED BY <1>7 DEF longer, pair

LEMMA AbstractHeadTail ==
    ASSUME NEW q \in Seq(Records), q # <<>>
    PROVE  /\ Abstract(q) # <<>>
           /\ Head(Abstract(q)) = <<q[1].id, q[1].size>>
           /\ Abstract(Tail(q)) = Tail(Abstract(q))
<1> DEFINE n == Len(q)
           a == Abstract(q)
<1>1. n \in Nat \ {0}
  BY EmptySeq
<1>2. /\ a \in Seq(Ids \X Sizes) /\ Len(a) = n
      /\ \A k \in 1 .. n : a[k] = <<q[k].id, q[k].size>>
  BY AbstractShape
<1> HIDE DEF a, n
<1>3. a # <<>> /\ Head(a) = a[1] /\ 1 \in 1 .. n
  BY <1>1, <1>2, EmptySeq
<1>4. /\ Tail(a) \in Seq(Ids \X Sizes) /\ Len(Tail(a)) = n - 1
      /\ \A k \in 1 .. n - 1 : Tail(a)[k] = a[k + 1]
  BY <1>2, <1>3, HeadTailProperties
<1>5. /\ Tail(q) \in Seq(Records) /\ Len(Tail(q)) = n - 1
      /\ \A k \in 1 .. n - 1 : Tail(q)[k] = q[k + 1]
  BY HeadTailProperties DEF n
<1>6. /\ Abstract(Tail(q)) \in Seq(Ids \X Sizes) /\ Len(Abstract(Tail(q))) = n - 1
      /\ \A k \in 1 .. n - 1 : Abstract(Tail(q))[k] = <<Tail(q)[k].id, Tail(q)[k].size>>
  BY <1>5, AbstractShape
<1>7. ASSUME NEW k \in 1 .. n - 1 PROVE Abstract(Tail(q))[k] = Tail(a)[k]
  <2>1. k + 1 \in 1 .. n
    BY <1>1
  <2> QED BY <1>2, <1>4, <1>5, <1>6, <2>1
<1>8. Abstract(Tail(q)) = Tail(a)
  BY <1>4, <1>6, <1>7, SeqEqual
<1> QED BY <1>2, <1>3, <1>8 DEF a

(* What PopAdvance hands to its caller is the record as it was committed.  *)
LEMMA Delivered ==
    ASSUME IInv, PopAdvance
    PROVE  got' = Queue!Delivery(pending[1].id, pending[1].size)
<1>1. /\ pending # <<>> /\ tail = pending[1].offset /\ meta = pending[1].size
      /\ got' = [k \in 1 .. meta |-> mem[tail + k - 1]]
  BY DEF IInv, Reading, PopAdvance
<1>2. 1 \in 1 .. Len(pending)
  BY <1>1, FirstWhole
<1>3. Whole(mem, pending[1]) /\ tail \in Nat /\ meta \in Nat
  BY <1>1, <1>2, RecordsPlaced DEF IInv, Contents
<1>4. ASSUME NEW k \in 1 .. meta
      PROVE  mem[tail + k - 1] = IF k = 1 THEN <<"envelope", pending[1].id, meta>>
                                 ELSE <<"data", pending[1].id, 0>>
  <2>1. CASE k = 1
    BY <1>1, <1>3, <2>1 DEF Whole, Header
  <2>2. CASE k # 1
    <3>1. tail + k - 1 \in PayloadOffsets(tail, meta)
      BY <1>3, <2>2 DEF PayloadOffsets
    <3> QED BY <1>1, <1>3, <2>2, <3>1 DEF Whole, Data
  <2> QED BY <2>1, <2>2
<1> QED BY <1>1, <1>4 DEF Queue!Delivery

(* msg_ring.rs as its callers see it: whoever commits and pops records sees *)
(* a queue, in which each record is appended whole and delivered once, in   *)
(* order and as it was sent.                                                *)
THEOREM RingImplementsQueue == ASSUME ~ShortCommits PROVE Spec => ImplementsQueue
<1>1. Init => Queue!Init
  <2> SUFFICES ASSUME Init PROVE Queue!Init
    OBVIOUS
  <2>1. pending = <<>> /\ pending \in Seq(Records) /\ Len(pending) = 0
    BY EmptySeq DEF Init
  <2>2. Abstract(pending) = <<>>
    BY <2>1, AbstractShape, EmptySeq
  <2> QED BY <2>2 DEF Init, Queue!Init, Abstract
<1>2. IInv /\ [Next]_vars => [Queue!Next]_(Queue!qvars)
  <2> SUFFICES ASSUME IInv, [Next]_vars
               PROVE  \/ Queue!Next
                      \/ UNCHANGED <<Abstract(pending), got>>
    BY DEF Queue!qvars, Abstract
  <2>1. CASE StoreHead
    <3> DEFINE r == [id |-> nextId, offset |-> grant.offset, size |-> grant.written]
    <3>1. /\ pending' = Append(pending, r) /\ got' = got /\ ppc = "framed"
      BY <2>1 DEF StoreHead, consumerVars
    <3>2. r \in Records /\ r.id \in 0 .. IdSpan - 1 /\ r.size \in 1 .. MaxRecord
      BY <3>1 DEF IInv, TypeOK, Granted, Filled, Records, Ids, Sizes
    <3> HIDE DEF r
    <3>3. Abstract(pending') = Append(Abstract(pending), <<r.id, r.size>>)
      BY <3>1, <3>2, AbstractAppend DEF IInv, Layout
    <3>4. \E id \in 0 .. IdSpan - 1, n \in 1 .. MaxRecord :
            Abstract(pending') = Append(Abstract(pending), <<id, n>>)
      BY <3>2, <3>3
    <3> QED BY <3>1, <3>4 DEF Queue!Next, Queue!Send, Abstract
  <2>2. CASE PopAdvance
    <3>1. pending # <<>> /\ pending' = Tail(pending) /\ pending \in Seq(Records)
      BY <2>2 DEF IInv, Layout, Reading, PopAdvance
    <3>2. /\ Abstract(pending) # <<>>
          /\ Head(Abstract(pending)) = <<pending[1].id, pending[1].size>>
          /\ Abstract(pending') = Tail(Abstract(pending))
      BY <3>1, AbstractHeadTail
    <3>3. got' = Queue!Delivery(Head(Abstract(pending))[1], Head(Abstract(pending))[2])
      BY <2>2, <3>2, Delivered
    <3>4. Queue!Receive
      BY <3>2, <3>3 DEF Queue!Receive, Abstract
    <3> QED BY <3>4 DEF Queue!Next
  <2>3. CASE ~StoreHead /\ ~PopAdvance
    <3>1. pending' = pending /\ got' = got
      BY <2>3 DEF Next, Producer, Consumer, Submit, TryReserve, FillPayload,
                  CommitEnvelope, LoadHead, SkipSentinel, ReadEnvelope, consumerVars, vars
    <3> QED BY <3>1
  <2> QED BY <2>1, <2>2, <2>3
<1> QED BY <1>1, <1>2, RingInvariant, PTL DEF Spec, ImplementsQueue, Queue!Spec

=============================================================================
