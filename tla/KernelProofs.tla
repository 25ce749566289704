----------------------------- MODULE KernelProofs -----------------------------
(***************************************************************************)
(* What holds of the kernel service for farms of every number of lanes,    *)
(* pools of every size, boot animations of every length and queues of      *)
(* every capacity, in any order of commands, drains and fetches.           *)
(*                                                                         *)
(* Everything is said of two values: the farm f with its pool, and the     *)
(* line w of reports not handled yet, inbox before queue. A command works  *)
(* on them in small steps (one lane publishes, a load restarts the frame   *)
(* numbers), each of which keeps Good(f, w); coalescing and draining only  *)
(* thin or move the line.                                                  *)
(***************************************************************************)
EXTENDS KernelService, SequenceTheorems, WellFoundedInduction, TLAPS

Images == [era : Nat, lane : Nat, id : Nat]

Frames == [kind : {"LaneFrame"}, group : Groups, slot : Slots \cup {Inline}, of : Images]

Others == [kind : {"TickDone"}, group : Groups]
            \cup [kind : {"RomLoaded", "Snapshot", "MemWindow", "Stepped"},
                  group : Groups, era : Nat]

Reports == Frames \cup Others

Boots == [phase : {"none", "scroll", "pause"}, steps : Nat, delay : Nat, left : Nat]

Instances == [boot : Boots, next : Nat, pad : {Released, "pressed"}]

Farms ==
    [lanes : Nat \ {0}, inst : UNION {[held -> Instances] : held \in SUBSET Groups},
     free : Seq(Slots), ready : Seq(Slots), data : [Slots -> Images], era : [Groups -> Nat]]

(* The frame number says where the animation is.                           *)
InTime(inst) ==
    LET boot == inst.boot
    IN  /\ boot.phase = "scroll" =>
             /\ boot.steps \in 1 .. ScrollSteps /\ boot.delay \in 0 .. FrameDelay
             /\ inst.next = (ScrollSteps - boot.steps) * (FrameDelay + 1)
                            + (FrameDelay - boot.delay)
        /\ boot.phase = "pause" =>
             /\ boot.left \in 0 .. PauseFrames
             /\ inst.next = ScrollSteps * (FrameDelay + 1) + (PauseFrames - boot.left)

(* No slot is in two places of the two rings.                              *)
Pooled(f) ==
    /\ \A i, j \in DOMAIN f.free : f.free[i] = f.free[j] => i = j
    /\ \A i, j \in DOMAIN f.ready : f.ready[i] = f.ready[j] => i = j
    /\ \A i \in DOMAIN f.free, j \in DOMAIN f.ready : f.free[i] # f.ready[j]

(* A frame is of a former game, or of this one and not above its number.   *)
Known(f, r) ==
    /\ r.of.era <= f.era[r.group]
    /\ r.of.era = f.era[r.group] =>
         r.group \in DOMAIN f.inst /\ r.of.id <= f.inst[r.group].next

Ahead(a, b) == a.of.era < b.of.era \/ (a.of.era = b.of.era /\ a.of.id < b.of.id)

Ordered(w) ==
    \A i, j \in DOMAIN w :
        (i < j /\ IsFrame(w[i]) /\ IsFrame(w[j]) /\ w[i].group = w[j].group)
        => Ahead(w[i], w[j])

Good(f, w) ==
    /\ f \in Farms /\ w \in Seq(Reports)
    /\ Pooled(f)
    /\ \A g \in DOMAIN f.inst : InTime(f.inst[g])
    /\ \A i \in DOMAIN w : IsFrame(w[i]) => Known(f, w[i])
    /\ Ordered(w)
    /\ Promised(f, w)

(* ------------------------------ sequences ------------------------------ *)

(* The sequence v is w with r behind it.                                   *)
Adds(v, w, r) ==
    /\ v = Append(w, r)
    /\ w \in Seq(Reports) /\ Len(w) \in Nat /\ DOMAIN w = 1 .. Len(w)
    /\ v \in Seq(Reports) /\ Len(v) = Len(w) + 1 /\ DOMAIN v = 1 .. Len(w) + 1
    /\ \A i \in 1 .. Len(w) : v[i] = w[i]
    /\ v[Len(w) + 1] = r

LEMMA OneMore ==
    ASSUME NEW w \in Seq(Reports), NEW r \in Reports
    PROVE  Adds(Append(w, r), w, r)
<1>1. Len(w) \in Nat /\ DOMAIN w = 1 .. Len(w)
  BY LenProperties
<1>2. /\ Append(w, r) \in Seq(Reports) /\ Len(Append(w, r)) = Len(w) + 1
      /\ \A i \in 1 .. Len(w) : Append(w, r)[i] = w[i]
      /\ Append(w, r)[Len(w) + 1] = r
  BY AppendProperties
<1>3. DOMAIN Append(w, r) = 1 .. Len(w) + 1
  BY <1>2, LenProperties
<1> QED
  BY <1>1, <1>2, <1>3 DEF Adds

LEMMA Joined ==
    ASSUME NEW S, NEW s \in Seq(S), NEW t \in Seq(S)
    PROVE  /\ s \o t \in Seq(S) /\ Len(s) \in Nat /\ Len(t) \in Nat
           /\ DOMAIN s = 1 .. Len(s) /\ DOMAIN t = 1 .. Len(t)
           /\ Len(s \o t) = Len(s) + Len(t) /\ DOMAIN (s \o t) = 1 .. Len(s) + Len(t)
           /\ \A i \in 1 .. Len(s) + Len(t) :
                (s \o t)[i] = IF i <= Len(s) THEN s[i] ELSE t[i - Len(s)]
<1>1. /\ Len(s) \in Nat /\ Len(t) \in Nat
      /\ DOMAIN s = 1 .. Len(s) /\ DOMAIN t = 1 .. Len(t)
  BY LenProperties
<1>2. s \o t \in Seq(S) /\ Len(s \o t) = Len(s) + Len(t)
  BY ConcatProperties
<1>3. DOMAIN (s \o t) = 1 .. Len(s) + Len(t)
  BY <1>2, LenProperties
<1> QED
  BY <1>1, <1>2, <1>3, ConcatProperties

LEMMA AppendOutside ==
    ASSUME NEW s \in Seq(Reports), NEW t \in Seq(Reports), NEW x \in Reports
    PROVE  s \o Append(t, x) = Append(s \o t, x)
<1>1. << x >> \in Seq(Reports) /\ s \o t \in Seq(Reports)
  BY Joined
<1>2. Append(t, x) = t \o << x >> /\ Append(s \o t, x) = (s \o t) \o << x >>
  BY <1>1, AppendIsConcat
<1>3. (s \o t) \o << x >> = s \o (t \o << x >>)
  BY <1>1, ConcatAssociative
<1> QED
  BY <1>2, <1>3

(* ------------------------------ the line ------------------------------- *)

(* A report that is no frame joins the line.                               *)
LEMMA AddsOther ==
    ASSUME NEW f, NEW w, Good(f, w), NEW r \in Others, NEW v, Adds(v, w, r)
    PROVE  Good(f, v)
<1>1. ~IsFrame(r)
  BY DEF Others, IsFrame
<1>2. \A i \in DOMAIN v : IsFrame(v[i]) => i \in DOMAIN w /\ v[i] = w[i]
  <2> SUFFICES ASSUME NEW i \in DOMAIN v, IsFrame(v[i]) PROVE i \in DOMAIN w /\ v[i] = w[i]
    OBVIOUS
  <2>1. i # Len(w) + 1
    BY <1>1 DEF Adds
  <2> QED
    BY <2>1 DEF Adds
<1>3. Promising(v) = Promising(w) /\ \A i \in Promising(w) : v[i] = w[i]
  <2>1. \A i \in Promising(v) : i \in Promising(w)
    BY <1>2 DEF Promising
  <2>2. \A i \in Promising(w) : i \in Promising(v) /\ v[i] = w[i]
    BY DEF Promising, Adds
  <2> QED
    BY <2>1, <2>2
<1>4. Promised(f, v)
  BY <1>3 DEF Promised, Good
<1>5. Ordered(v)
  BY <1>2 DEF Ordered, Good
<1>6. \A i \in DOMAIN v : IsFrame(v[i]) => Known(f, v[i])
  BY <1>2 DEF Good
<1> QED
  BY <1>4, <1>5, <1>6 DEF Good, Adds

(* The line v is what remains of w: e says where each report was.          *)
Remains(v, w, e) ==
    /\ v \in Seq(Reports)
    /\ e \in [DOMAIN v -> DOMAIN w]
    /\ \A i \in DOMAIN v : v[i] = w[e[i]]
    /\ \A i, j \in DOMAIN v : i < j => e[i] < e[j]

LEMMA Thinned ==
    ASSUME NEW f, NEW w, Good(f, w), NEW v, NEW e, Remains(v, w, e)
    PROVE  Good(f, v)
<1>0. /\ v \in Seq(Reports)
      /\ e \in [DOMAIN v -> DOMAIN w]
      /\ \A i \in DOMAIN v : v[i] = w[e[i]]
      /\ \A i, j \in DOMAIN v : i < j => e[i] < e[j]
  BY DEF Remains
<1> USE <1>0
<1>1. \A i \in DOMAIN v : IsFrame(v[i]) => Known(f, v[i])
  BY DEF Good
<1>2. Ordered(v)
  BY DEF Ordered, Good
<1>3. \A i \in Promising(v) : i \in DOMAIN v /\ e[i] \in Promising(w) /\ v[i] = w[e[i]]
  BY DEF Promising
<1>4. Promised(f, v)
  <2> SUFFICES ASSUME NEW i \in Promising(v)
               PROVE  /\ f.data[v[i].slot] = v[i].of
                      /\ \E k \in DOMAIN f.ready :
                           /\ f.ready[k] = v[i].slot
                           /\ \A j \in Promising(v), m \in DOMAIN f.ready :
                                f.ready[m] = v[j].slot => (i < j => k < m) /\ (i = j => k = m)
    BY DEF Promised
  <2>1. PICK k \in DOMAIN f.ready :
          /\ f.ready[k] = w[e[i]].slot
          /\ \A j \in Promising(w), m \in DOMAIN f.ready :
               f.ready[m] = w[j].slot => (e[i] < j => k < m) /\ (e[i] = j => k = m)
    BY <1>3 DEF Promised, Good
  <2>2. f.data[v[i].slot] = v[i].of
    BY <1>3 DEF Promised, Good
  <2>3. ASSUME NEW j \in Promising(v), NEW m \in DOMAIN f.ready, f.ready[m] = v[j].slot
        PROVE  (i < j => k < m) /\ (i = j => k = m)
    BY <1>3, <2>1, <2>3
  <2> QED
    BY <1>3, <2>1, <2>2, <2>3
<1> QED
  BY <1>1, <1>2, <1>4 DEF Good

(* The farm changes, but not its pool: groups restart or go on counting.   *)
LEMMA Regrouped ==
    ASSUME NEW f, NEW w, Good(f, w), NEW h \in Farms,
           h.free = f.free, h.ready = f.ready, h.data = f.data,
           \A g \in DOMAIN h.inst : InTime(h.inst[g]),
           \A g \in Groups :
              \/ f.era[g] < h.era[g]
              \/ /\ f.era[g] = h.era[g]
                 /\ g \in DOMAIN f.inst =>
                      g \in DOMAIN h.inst /\ f.inst[g].next <= h.inst[g].next
    PROVE  Good(h, w)
<1>1. Pooled(h)
  BY DEF Pooled, Good
<1>2. Promised(h, w)
  BY DEF Promised, Good
<1>3. ASSUME NEW i \in DOMAIN w, IsFrame(w[i]) PROVE Known(h, w[i])
  <2> DEFINE r == w[i] g == r.group
  <2>1. r \in Reports
    <3>1. w \in Seq(Reports)
      BY DEF Good
    <3>2. DOMAIN w = 1 .. Len(w) /\ w \in [1 .. Len(w) -> Reports]
      BY <3>1, LenProperties
    <3> QED
      BY <3>2
  <2>2. r \in Frames
    BY <1>3, <2>1 DEF Reports, Others, IsFrame
  <2>3. g \in Groups /\ r.of.era \in Nat /\ r.of.id \in Nat
    BY <2>2 DEF Frames, Images
  <2>4. Known(f, r)
    BY <1>3 DEF Good
  <2>5. f.era[g] \in Nat /\ h.era[g] \in Nat
    BY <2>3 DEF Good, Farms
  <2>6. \A x \in DOMAIN f.inst : f.inst[x].next \in Nat
    BY DEF Good, Farms, Instances
  <2>7. \A x \in DOMAIN h.inst : h.inst[x].next \in Nat
    BY DEF Farms, Instances
  <2> SUFFICES Known(h, r)
    OBVIOUS
  <2> HIDE DEF r
  <2>8. CASE f.era[g] < h.era[g]
    BY <2>3, <2>4, <2>5, <2>8 DEF Known
  <2>9. CASE f.era[g] = h.era[g]
    BY <2>3, <2>4, <2>5, <2>6, <2>7, <2>9 DEF Known
  <2> QED
    BY <2>3, <2>8, <2>9
<1> QED
  BY <1>1, <1>2, <1>3 DEF Good

(* ------------------------------- one lane ------------------------------ *)

(* What the animation's step and the next number make of an instance.      *)
LEMMA AdvanceInTime ==
    ASSUME NEW inst \in Instances, InTime(inst),
           NEW next, next = [inst EXCEPT !.boot = Advance(@), !.next = inst.next + 1]
    PROVE  next \in Instances /\ InTime(next) /\ next.next = inst.next + 1
<1> DEFINE boot == inst.boot turn == FrameDelay + 1
<1>1. /\ boot \in Boots /\ inst.next \in Nat
      /\ ScrollSteps \in Nat \ {0} /\ FrameDelay \in Nat /\ PauseFrames \in Nat
  BY FarmAssumption DEF Instances
<1>2. next.boot = Advance(boot) /\ next.next = inst.next + 1 /\ next.pad = inst.pad
  BY DEF Instances
<1>3. NoBoot \in Boots /\ BootPause \in Boots
  BY <1>1 DEF NoBoot, BootPause, Boots
<1>4. Advance(boot) \in Boots
  <2>1. CASE boot.phase = "scroll" /\ boot.delay > 0
    BY <1>1, <2>1 DEF Advance, Boots
  <2>2. CASE boot.phase = "scroll" /\ ~(boot.delay > 0) /\ boot.steps > 1
    <3>1. Advance(boot) = [boot EXCEPT !.steps = @ - 1, !.delay = FrameDelay]
      BY <1>1, <2>2 DEF Advance, Boots
    <3>2. boot.steps - 1 \in Nat
      BY <1>1, <2>2 DEF Boots
    <3> QED
      BY <1>1, <3>1, <3>2 DEF Boots
  <2>3. CASE boot.phase = "scroll" /\ ~(boot.delay > 0) /\ ~(boot.steps > 1)
    BY <1>1, <1>3, <2>3 DEF Advance, Boots
  <2>4. CASE boot.phase = "pause" /\ boot.left > 0
    BY <1>1, <2>4 DEF Advance, Boots
  <2>5. CASE boot.phase # "scroll" /\ ~(boot.phase = "pause" /\ boot.left > 0)
    BY <1>1, <1>3, <2>5 DEF Advance, Boots
  <2> QED
    BY <2>1, <2>2, <2>3, <2>4, <2>5
<1>5. next \in Instances
  <2>1. next = [boot |-> Advance(boot), next |-> inst.next + 1, pad |-> inst.pad]
    BY DEF Instances
  <2>2. inst.next + 1 \in Nat /\ inst.pad \in {Released, "pressed"}
    BY <1>1 DEF Instances
  <2> QED
    BY <1>4, <2>1, <2>2 DEF Instances
<1>6. InTime(next)
  <2>1. CASE boot.phase = "scroll" /\ boot.delay > 0
    BY <1>1, <1>2, <2>1 DEF Advance, Boots, InTime
  <2>2. CASE boot.phase = "scroll" /\ ~(boot.delay > 0) /\ boot.steps > 1
    <3>1. next.boot = [boot EXCEPT !.steps = @ - 1, !.delay = FrameDelay]
      BY <1>1, <1>2, <2>2 DEF Advance, Boots
    <3>2. (ScrollSteps - (boot.steps - 1)) * turn = (ScrollSteps - boot.steps) * turn + turn
      BY <1>1 DEF Boots
    <3>3. boot.delay = 0 /\ inst.next = (ScrollSteps - boot.steps) * turn + FrameDelay
      BY <1>1, <2>2 DEF InTime, Boots
    <3>4. boot.steps - 1 \in 1 .. ScrollSteps
      BY <1>1, <2>2 DEF InTime, Boots
    <3>5. /\ next.boot.phase = "scroll" /\ next.boot.steps = boot.steps - 1
          /\ next.boot.delay = FrameDelay
      BY <1>1, <2>2, <3>1 DEF Boots
    <3>6. inst.next + 1 = (ScrollSteps - next.boot.steps) * turn + (FrameDelay - FrameDelay)
      BY <1>1, <3>2, <3>3, <3>5 DEF Boots
    <3> QED
      BY <1>1, <1>2, <3>4, <3>5, <3>6 DEF InTime
  <2>3. CASE boot.phase = "scroll" /\ ~(boot.delay > 0) /\ ~(boot.steps > 1)
    <3>1. next.boot = BootPause
      BY <1>1, <1>2, <2>3 DEF Advance, Boots
    <3>2. boot.steps = 1 /\ boot.delay = 0
      BY <1>1, <2>3 DEF InTime, Boots
    <3>3. (ScrollSteps - 1) * turn + turn = ScrollSteps * turn
      BY <1>1
    <3>4. inst.next = (ScrollSteps - 1) * turn + FrameDelay
      BY <1>1, <2>3, <3>2 DEF InTime
    <3>5. inst.next + 1 = ScrollSteps * turn + (PauseFrames - PauseFrames)
      BY <1>1, <3>3, <3>4
    <3> QED
      BY <1>1, <1>2, <3>1, <3>5 DEF InTime, BootPause
  <2>4. CASE boot.phase = "pause" /\ boot.left > 0
    BY <1>1, <1>2, <2>4 DEF Advance, Boots, InTime
  <2>5. CASE boot.phase # "scroll" /\ ~(boot.phase = "pause" /\ boot.left > 0)
    <3>1. next.boot = NoBoot
      BY <1>1, <1>2, <2>5 DEF Advance, Boots
    <3> QED
      BY <3>1 DEF InTime, NoBoot
  <2> QED
    BY <2>1, <2>2, <2>3, <2>4, <2>5
<1> QED
  BY <1>2, <1>5, <1>6

(* The picture goes into the pool, or nowhere.                             *)
PlacedIn(f, h, slot, picture) ==
    \/ /\ slot = Inline
       /\ h.free = f.free /\ h.ready = f.ready /\ h.data = f.data
    \/ /\ slot \in Slots /\ f.free # <<>> /\ slot = Head(f.free)
       /\ h.free = Tail(f.free) /\ h.ready = Append(f.ready, slot)
       /\ h.data = [f.data EXCEPT ![slot] = picture]

(* The farm h is f after the frame r of a group was rendered.              *)
Shows(f, h, g, r) ==
    /\ r \in Frames /\ r.group = g
    /\ r.of.era = f.era[g] /\ r.of.id = f.inst[g].next + 1
    /\ h \in Farms /\ h.lanes = f.lanes /\ h.era = f.era
    /\ DOMAIN h.inst = DOMAIN f.inst
    /\ \A x \in DOMAIN f.inst : x # g => h.inst[x] = f.inst[x]
    /\ h.inst[g].next = f.inst[g].next + 1
    /\ \A x \in DOMAIN h.inst : InTime(h.inst[x])
    /\ PlacedIn(f, h, r.slot, r.of)

(* What one lane's publication does to the farm.                           *)
LEMMA PublishLaneFacts ==
    ASSUME NEW st, st.farm \in Farms, NEW g \in DOMAIN st.farm.inst, NEW lane \in Nat,
           \A x \in DOMAIN st.farm.inst : InTime(st.farm.inst[x])
    PROVE  \E r \in Frames :
             /\ Shows(st.farm, PublishLane(g, st, lane).farm, g, r)
             /\ PublishLane(g, st, lane).out = Append(st.out, r)
<1> DEFINE f == st.farm
           id == f.inst[g].next + 1
           picture == [era |-> f.era[g], lane |-> lane, id |-> id]
           slot == IF f.free = <<>> THEN Inline ELSE Head(f.free)
           next == [f.inst[g] EXCEPT !.boot = Advance(@), !.next = id]
           rendered == [f EXCEPT !.inst[g].boot = Advance(@), !.inst[g].next = id]
           h == Placed(rendered, slot, picture)
<1>1. /\ f \in Farms /\ g \in Groups /\ f.inst[g] \in Instances /\ f.era[g] \in Nat
      /\ f.inst \in [DOMAIN f.inst -> Instances] /\ DOMAIN f.inst \in SUBSET Groups
      /\ f.free \in Seq(Slots) /\ f.ready \in Seq(Slots) /\ f.data \in [Slots -> Images]
  BY DEF Farms
<1>2. next \in Instances /\ InTime(next) /\ next.next = id /\ id \in Nat
  <2>1. f.inst[g].next \in Nat
    BY <1>1 DEF Instances
  <2>2. PICK n : n = next
    OBVIOUS
  <2>3. n = [f.inst[g] EXCEPT !.boot = Advance(@), !.next = f.inst[g].next + 1]
    BY <2>2
  <2> HIDE DEF next
  <2>4. n \in Instances /\ InTime(n) /\ n.next = f.inst[g].next + 1
    BY <1>1, <2>3, AdvanceInTime
  <2> QED
    BY <2>1, <2>2, <2>4
<1>3. PublishLane(g, st, lane) =
        [farm |-> h, out |-> Append(st.out, [kind |-> "LaneFrame", group |-> g,
                                             slot |-> slot, of |-> picture])]
  BY DEF PublishLane, BumpedNumber
<1>4. picture \in Images
  BY <1>1, <1>2 DEF Images
<1>5. slot \in Slots \cup {Inline} /\ (slot # Inline => f.free # <<>> /\ slot = Head(f.free))
  <2>1. CASE f.free = <<>>
    BY <2>1
  <2>2. CASE f.free # <<>>
    <3>1. Head(f.free) \in Slots
      BY <1>1, <2>2, HeadTailProperties
    <3> QED
      BY <2>2, <3>1
  <2> QED
    BY <2>1, <2>2
<1> DEFINE inst == [f.inst EXCEPT ![g] = next]
<1>6. rendered = [f EXCEPT !.inst = inst]
  <2> HIDE DEF id
  <2>1. inst = [[f.inst EXCEPT ![g] = [f.inst[g] EXCEPT !.boot = Advance(f.inst[g].boot)]]
                  EXCEPT ![g] = [@ EXCEPT !.next = id]]
    <3> DEFINE half == [f.inst[g] EXCEPT !.boot = Advance(f.inst[g].boot)]
               halfway == [f.inst EXCEPT ![g] = half]
    <3>1. next = [half EXCEPT !.next = id]
      BY <1>1 DEF Instances
    <3> HIDE DEF half, next
    <3>2. halfway[g] = half /\ DOMAIN halfway = DOMAIN f.inst
      BY <1>1
    <3>3. inst = [halfway EXCEPT ![g] = [half EXCEPT !.next = id]]
      BY <1>1, <3>1
    <3>4. inst = [halfway EXCEPT ![g] = [@ EXCEPT !.next = id]]
      <4> HIDE DEF halfway, inst
      <4> QED
        BY <3>2, <3>3
    <3> HIDE DEF inst
    <3> QED
      BY <3>4 DEF half
  <2> QED
    BY <1>1, <2>1 DEF Farms
<1>7. /\ inst \in [DOMAIN f.inst -> Instances] /\ inst[g] = next
      /\ \A x \in DOMAIN f.inst : x # g => inst[x] = f.inst[x]
  BY <1>1, <1>2
<1> HIDE DEF next, inst, id, picture, slot, rendered
<1>8. /\ rendered \in Farms /\ rendered.lanes = f.lanes /\ rendered.inst = inst
      /\ rendered.free = f.free /\ rendered.ready = f.ready /\ rendered.data = f.data
      /\ rendered.era = f.era
  BY <1>1, <1>6, <1>7 DEF Farms
<1>9. /\ h \in Farms /\ h.lanes = f.lanes /\ h.inst = inst /\ h.era = f.era
      /\ PlacedIn(f, h, slot, picture)
  <2>1. CASE slot = Inline
    BY <1>8, <2>1 DEF Placed, PlacedIn
  <2>2. CASE slot # Inline
    <3>1. slot \in Slots /\ f.free # <<>> /\ slot = Head(f.free)
      BY <1>5, <2>2
    <3>2. h = [rendered EXCEPT !.free = Tail(f.free), !.ready = Append(f.ready, slot),
                               !.data = [f.data EXCEPT ![slot] = picture]]
      BY <1>8, <2>2 DEF Placed, Farms
    <3>3. Tail(f.free) \in Seq(Slots) /\ Append(f.ready, slot) \in Seq(Slots)
      BY <1>1, <3>1, HeadTailProperties, AppendProperties
    <3>4. [f.data EXCEPT ![slot] = picture] \in [Slots -> Images]
      BY <1>1, <1>4
    <3> QED
      BY <1>8, <3>1, <3>2, <3>3, <3>4 DEF Farms, PlacedIn
  <2> QED
    BY <2>1, <2>2
<1> HIDE DEF h
<1> DEFINE r == [kind |-> "LaneFrame", group |-> g, slot |-> slot, of |-> picture]
<1>10. \A x \in DOMAIN h.inst : InTime(h.inst[x])
  BY <1>2, <1>7, <1>9
<1>11. h.inst[g].next = id
  BY <1>2, <1>7, <1>9
<1>12. PublishLane(g, st, lane).farm = h /\ PublishLane(g, st, lane).out = Append(st.out, r)
  BY <1>3
<1>13. picture.era = f.era[g] /\ picture.id = id
  BY DEF picture
<1>14. r \in Frames /\ r.slot = slot /\ r.of = picture /\ r.group = g
  BY <1>1, <1>4, <1>5 DEF Frames
<1> HIDE DEF r
<1>15. Shows(f, h, g, r)
  BY <1>7, <1>9, <1>10, <1>11, <1>13, <1>14 DEF Shows, id
<1> QED
  BY <1>12, <1>14, <1>15

(* The report of the picture that was placed joins the line.               *)
LEMMA AddsFrame ==
    ASSUME NEW f, NEW w, Good(f, w), NEW g \in DOMAIN f.inst, NEW h, NEW r,
           Shows(f, h, g, r), NEW v, Adds(v, w, r)
    PROVE  Good(h, v)
<1> DEFINE slot == r.slot picture == r.of
<1>0. /\ h \in Farms /\ slot \in Slots \cup {Inline} /\ picture \in Images /\ r \in Frames
      /\ h.era = f.era /\ DOMAIN h.inst = DOMAIN f.inst
      /\ \A x \in DOMAIN f.inst : x # g => h.inst[x] = f.inst[x]
      /\ h.inst[g].next = f.inst[g].next + 1
      /\ \A x \in DOMAIN h.inst : InTime(h.inst[x])
      /\ PlacedIn(f, h, slot, picture)
      /\ picture.era = f.era[g] /\ picture.id = f.inst[g].next + 1 /\ r.group = g
  BY DEF Shows, Frames
<1> HIDE DEF slot, picture
<1> USE <1>0
<1>16. r.slot = slot /\ r.of = picture
  BY DEF slot, picture
<1> DEFINE last == Len(w) + 1
<1>1. /\ f \in Farms /\ f.free \in Seq(Slots) /\ f.ready \in Seq(Slots)
      /\ f.data \in [Slots -> Images] /\ f.era[g] \in Nat
      /\ \A x \in DOMAIN f.inst : f.inst[x].next \in Nat
      /\ \A x \in DOMAIN h.inst : h.inst[x].next \in Nat
  BY DEF Good, Farms, Instances
<1>2. /\ DOMAIN v = 1 .. last /\ DOMAIN w = 1 .. Len(w) /\ Len(w) \in Nat /\ last \notin DOMAIN w
      /\ last \in Nat /\ \A i \in DOMAIN w : i \in DOMAIN v /\ v[i] = w[i]
      /\ v[last] = r /\ \A i \in DOMAIN v : i \in DOMAIN w \/ i = last
  BY DEF Adds
<1>3. \A i \in DOMAIN w : i < last /\ ~(last < i)
  BY <1>2
<1>4. w \in [DOMAIN w -> Reports] /\ v \in Seq(Reports)
  <2>1. w \in Seq(Reports)
    BY DEF Adds
  <2> QED
    BY <1>2, <2>1, LenProperties DEF Adds
<1> HIDE DEF last
<1>5. ASSUME NEW i \in DOMAIN v, IsFrame(v[i]) PROVE Known(h, v[i])
  <2>1. CASE i \in DOMAIN w
    <3>1. v[i] = w[i] /\ Known(f, w[i])
      BY <1>2, <1>5, <2>1 DEF Good
    <3>2. w[i] \in Frames
      BY <1>4, <1>5, <2>1, <3>1 DEF Reports, Others, IsFrame
    <3>3. w[i].group \in Groups /\ w[i].of.era \in Nat /\ w[i].of.id \in Nat
      BY <3>2 DEF Frames, Images
    <3> DEFINE x == w[i].group id == w[i].of.id
    <3>4. x \in DOMAIN f.inst => f.inst[x].next <= h.inst[x].next
      BY <1>1
    <3>5. x \in DOMAIN f.inst /\ id <= f.inst[x].next
          => x \in DOMAIN h.inst /\ id <= h.inst[x].next
      <4> HIDE DEF x, id
      <4> QED
        BY <1>1, <3>3, <3>4 DEF id
    <3> QED
      BY <3>1, <3>5 DEF Known
  <2>2. CASE i = last
    BY <1>1, <1>2, <1>16, <2>2 DEF Known
  <2> QED
    BY <1>2, <2>1, <2>2
<1>6. Ordered(v)
  <2> SUFFICES ASSUME NEW i \in DOMAIN v, NEW j \in DOMAIN v, i < j,
                      IsFrame(v[i]), IsFrame(v[j]), v[i].group = v[j].group
               PROVE  Ahead(v[i], v[j])
    BY DEF Ordered
  <2>1. i \in DOMAIN w /\ v[i] = w[i]
    BY <1>2, <1>3
  <2>2. CASE j \in DOMAIN w
    BY <1>2, <2>1, <2>2 DEF Ordered, Good
  <2>3. CASE j = last
    <3>1. v[j] = r /\ w[i].group = g
      BY <1>2, <2>1, <2>3
    <3>2. Known(f, w[i])
      BY <2>1 DEF Good
    <3>3. w[i] \in Frames
      BY <1>4, <2>1 DEF Reports, Others, IsFrame
    <3>4. w[i].of.era \in Nat /\ w[i].of.id \in Nat
      BY <3>3 DEF Frames, Images
    <3> QED
      BY <1>1, <1>16, <2>1, <3>1, <3>2, <3>4 DEF Known, Ahead
  <2> QED
    BY <1>2, <2>2, <2>3
<1>7. /\ \A i \in Promising(w) : i \in Promising(v) /\ i \in DOMAIN w /\ v[i] = w[i]
      /\ \A i \in Promising(v) : i \in Promising(w) \/ (i = last /\ slot # Inline)
  BY <1>2, <1>16 DEF Promising
<1>8. Inline \notin Slots
  BY DEF Inline, Slots
<1>9. CASE slot = Inline
  <2>1. h.free = f.free /\ h.ready = f.ready /\ h.data = f.data
    BY <1>8, <1>9 DEF PlacedIn
  <2>2. Promising(v) = Promising(w) /\ \A i \in Promising(w) : v[i] = w[i]
    BY <1>7, <1>9
  <2>3. Promised(h, v)
    BY <2>1, <2>2 DEF Promised, Good
  <2>4. Pooled(h)
    BY <2>1 DEF Pooled, Good
  <2> QED
    BY <1>4, <1>5, <1>6, <2>3, <2>4 DEF Good
<1>10. CASE slot # Inline
  <2> DEFINE n == Len(f.ready) end == n + 1
  <2>1. /\ slot \in Slots /\ f.free # <<>> /\ slot = Head(f.free)
        /\ h.free = Tail(f.free) /\ h.ready = Append(f.ready, slot)
        /\ h.data = [f.data EXCEPT ![slot] = picture]
    BY <1>10 DEF PlacedIn
  <2>2. /\ n \in Nat /\ DOMAIN f.ready = 1 .. n /\ DOMAIN h.ready = 1 .. end
        /\ \A k \in DOMAIN f.ready : h.ready[k] = f.ready[k]
        /\ h.ready[end] = slot
    <3>1. Append(f.ready, slot) \in Seq(Slots)
      BY <1>1, <2>1, AppendProperties
    <3> QED
      BY <1>1, <2>1, <3>1, LenProperties, AppendProperties
  <2>3. /\ end \notin DOMAIN f.ready /\ \A k \in DOMAIN f.ready : k \in DOMAIN h.ready /\ k < end
        /\ \A k \in DOMAIN h.ready : k \in DOMAIN f.ready \/ k = end
        /\ end \in DOMAIN h.ready
    BY <2>2
  <2>4. /\ 1 \in DOMAIN f.free /\ f.free[1] = slot
        /\ \A k \in DOMAIN h.free : k + 1 \in DOMAIN f.free /\ h.free[k] = f.free[k + 1] /\ k + 1 # 1
        /\ \A k, m \in DOMAIN h.free : k + 1 = m + 1 => k = m
    <3>1. PICK s \in Seq(Slots) : s = f.free
      BY <1>1
    <3>2. /\ Len(s) \in Nat /\ Len(s) > 0 /\ Head(s) = s[1] /\ DOMAIN s = 1 .. Len(s)
          /\ Tail(s) \in Seq(Slots) /\ Len(Tail(s)) = Len(s) - 1
          /\ \A k \in 1 .. Len(Tail(s)) : Tail(s)[k] = s[k + 1]
      BY <2>1, <3>1, HeadTailProperties, LenProperties, EmptySeq
    <3>3. DOMAIN Tail(s) = 1 .. Len(s) - 1
      BY <3>2, LenProperties
    <3> QED
      BY <2>1, <3>1, <3>2, <3>3
  <2> HIDE DEF n, end
  <2>5. \A k \in DOMAIN f.ready : f.ready[k] # slot
    BY <2>4 DEF Pooled, Good
  <2>6. Pooled(h)
    <3>1. \A i, j \in DOMAIN h.free : h.free[i] = h.free[j] => i = j
      BY <2>4 DEF Pooled, Good
    <3>2. \A i, j \in DOMAIN h.ready : h.ready[i] = h.ready[j] => i = j
      BY <2>2, <2>3, <2>5 DEF Pooled, Good
    <3>3. \A i \in DOMAIN h.free : h.free[i] # slot
      BY <2>4 DEF Pooled, Good
    <3>4. \A i \in DOMAIN h.free, j \in DOMAIN h.ready : h.free[i] # h.ready[j]
      BY <2>2, <2>3, <2>4, <3>3 DEF Pooled, Good
    <3> QED
      BY <3>1, <3>2, <3>4 DEF Pooled
  <2>7. \A i \in Promising(w) : \E k \in DOMAIN f.ready : f.ready[k] = w[i].slot
    BY DEF Promised, Good
  <2>8. \A i \in Promising(w) : w[i].slot # slot /\ w[i].slot \in Slots
    <3>1. \A k \in DOMAIN f.ready : f.ready[k] \in Slots
      BY <1>1, LenProperties
    <3> QED
      BY <2>5, <2>7, <3>1
  <2>9. ASSUME NEW i \in Promising(w)
        PROVE  /\ h.data[v[i].slot] = v[i].of
               /\ \E k \in DOMAIN h.ready :
                    /\ h.ready[k] = v[i].slot
                    /\ \A j \in Promising(v), m \in DOMAIN h.ready :
                         h.ready[m] = v[j].slot => (i < j => k < m) /\ (i = j => k = m)
    <3>1. PICK k \in DOMAIN f.ready :
            /\ f.data[w[i].slot] = w[i].of
            /\ f.ready[k] = w[i].slot
            /\ \A j \in Promising(w), m \in DOMAIN f.ready :
                 f.ready[m] = w[j].slot => (i < j => k < m) /\ (i = j => k = m)
      BY DEF Promised, Good
    <3>2. v[i] = w[i] /\ h.data[w[i].slot] = w[i].of
      BY <1>1, <1>7, <2>1, <2>8, <3>1
    <3>3. k \in DOMAIN h.ready /\ h.ready[k] = v[i].slot
      BY <2>2, <2>3, <3>1, <3>2
    <3>4. ASSUME NEW j \in Promising(v), NEW m \in DOMAIN h.ready, h.ready[m] = v[j].slot
          PROVE  (i < j => k < m) /\ (i = j => k = m)
      <4>1. CASE m = end
        <5>1. j \notin Promising(w)
          BY <1>7, <2>2, <2>8, <3>4, <4>1
        <5>2. i # j /\ k < m
          BY <2>3, <4>1, <5>1
        <5> QED
          BY <5>2
      <4>2. CASE m \in DOMAIN f.ready
        <5>1. f.ready[m] = v[j].slot
          BY <2>2, <3>4, <4>2
        <5>2. j # last
          BY <1>2, <1>16, <2>5, <4>2, <5>1
        <5>3. j \in Promising(w) /\ v[j] = w[j]
          BY <1>7, <5>2
        <5> QED
          BY <3>1, <4>2, <5>1, <5>3
      <4> QED
        BY <2>3, <4>1, <4>2
    <3> QED
      BY <3>2, <3>3, <3>4
  <2>10. /\ h.data[v[last].slot] = v[last].of
         /\ \E k \in DOMAIN h.ready :
              /\ h.ready[k] = v[last].slot
              /\ \A j \in Promising(v), m \in DOMAIN h.ready :
                   h.ready[m] = v[j].slot => (last < j => k < m) /\ (last = j => k = m)
    <3>1. h.data[slot] = picture /\ v[last].slot = slot /\ v[last].of = picture
      BY <1>1, <1>2, <1>16, <2>1
    <3>2. end \in DOMAIN h.ready /\ h.ready[end] = slot
      BY <2>2, <2>3
    <3>3. ASSUME NEW j \in Promising(v), NEW m \in DOMAIN h.ready, h.ready[m] = v[j].slot
          PROVE  ~(last < j) /\ (last = j => end = m)
      <4>1. ~(last < j)
        BY <1>2, <1>3, <1>7
      <4>2. last = j => end = m
        BY <2>2, <2>3, <2>5, <3>1, <3>3
      <4> QED
        BY <4>1, <4>2
    <3> QED
      BY <3>1, <3>2, <3>3
  <2>11. Promised(h, v)
    BY <1>7, <2>9, <2>10 DEF Promised
  <2> QED
    BY <1>4, <1>5, <1>6, <2>6, <2>11 DEF Good
<1> QED
  BY <1>9, <1>10
(* ------------------------------ all lanes ------------------------------ *)

LEMMA LeastNat ==
    ASSUME NEW T, T \subseteq Nat, T # {}
    PROVE  \E n \in T : \A m \in T : n <= m
<1> DEFINE R == OpToRel(<, Nat)
<1>1. IsWellFoundedOn(R, Nat)
  BY NatLessThanWellFounded
<1>2. PICK n \in T : \A m \in T : ~(<< m, n >> \in R)
  <2> HIDE DEF R
  <2> QED
    BY <1>1, WFMin, Zenon
<1>3. ASSUME NEW m \in T PROVE n <= m
  <2>1. << m, n >> \notin R
    BY <1>2
  <2>2. << m, n >> \in R <=> m < n
    BY DEF OpToRel
  <2>3. n \in Nat /\ m \in Nat /\ ~(m < n)
    <3> HIDE DEF R
    <3> QED
      BY <2>1, <2>2
  <2> QED
    BY <2>3
<1> QED
  BY <1>3

(* The farm and the reports after each of the first n lanes.               *)
Lanes(g, st, n, a) ==
    a = [lane \in 0 .. n |-> IF lane = 0 THEN st ELSE PublishLane(g, a[lane - 1], lane)]

LEMMA LanesExist ==
    ASSUME NEW g, NEW st, NEW n \in Nat
    PROVE  \E a : Lanes(g, st, n, a)
<1> DEFINE T == {m \in Nat : ~\E a : Lanes(g, st, m, a)}
<1> SUFFICES ASSUME T # {} PROVE FALSE
  OBVIOUS
<1>1. PICK m \in T : \A k \in T : m <= k
  <2> HIDE DEF T
  <2>1. T \subseteq Nat
    BY DEF T
  <2> QED
    BY <2>1, LeastNat
<1>2. CASE m = 0
  <2> DEFINE a == [lane \in 0 .. 0 |-> st]
  <2>1. Lanes(g, st, 0, a)
    BY DEF Lanes
  <2> QED
    BY <1>2, <2>1
<1>3. CASE m # 0
  <2>1. m - 1 \in Nat /\ m - 1 \notin T
    BY <1>1, <1>3
  <2>2. PICK b : Lanes(g, st, m - 1, b)
    BY <2>1
  <2> DEFINE a == [lane \in 0 .. m |-> IF lane = m THEN PublishLane(g, b[m - 1], m) ELSE b[lane]]
  <2>3. /\ DOMAIN b = 0 .. m - 1
        /\ \A lane \in 0 .. m - 1 :
             b[lane] = IF lane = 0 THEN st ELSE PublishLane(g, b[lane - 1], lane)
    BY <2>1, <2>2 DEF Lanes
  <2>4. \A lane \in 0 .. m : a[lane] = IF lane = 0 THEN st ELSE PublishLane(g, a[lane - 1], lane)
    <3> SUFFICES ASSUME NEW lane \in 0 .. m
                 PROVE  a[lane] = IF lane = 0 THEN st ELSE PublishLane(g, a[lane - 1], lane)
      OBVIOUS
    <3>1. CASE lane = m
      <4>1. a[lane - 1] = b[m - 1]
        BY <2>1, <3>1
      <4> QED
        BY <1>3, <3>1, <4>1
    <3>2. CASE lane # m
      <4>1. lane \in 0 .. m - 1 /\ a[lane] = b[lane] /\ (lane # 0 => a[lane - 1] = b[lane - 1])
        BY <2>1, <3>2
      <4> QED
        BY <2>3, <4>1
    <3> QED
      BY <3>1, <3>2
  <2>5. Lanes(g, st, m, a)
    <3>1. a = [lane \in 0 .. m |-> a[lane]]
      OBVIOUS
    <3> HIDE DEF a
    <3> QED
      BY <2>4, <3>1 DEF Lanes
  <2> QED
    BY <2>5
<1> QED
  BY <1>2, <1>3

(* What publishing so far has come to.                                     *)
Grown(g, w, st, a, n) ==
    /\ a = [farm |-> a.farm, out |-> a.out]
    /\ a.farm \in Farms /\ a.farm.lanes = st.farm.lanes /\ g \in DOMAIN a.farm.inst
    /\ a.out \in Seq(Reports) /\ Len(a.out) = Len(st.out) + n
    /\ Good(a.farm, w \o a.out)

LEMMA OneLane ==
    ASSUME NEW g, NEW w \in Seq(Reports), NEW st, NEW a, NEW n \in Nat, Len(st.out) \in Nat,
           Grown(g, w, st, a, n), NEW lane \in Nat
    PROVE  Grown(g, w, st, PublishLane(g, a, lane), n + 1)
<1> DEFINE f == a.farm b == PublishLane(g, a, lane) h == b.farm
<1>1. f \in Farms /\ g \in DOMAIN f.inst /\ \A x \in DOMAIN f.inst : InTime(f.inst[x])
  BY DEF Grown, Good
<1>2. PICK r \in Frames : Shows(f, h, g, r) /\ b.out = Append(a.out, r)
  BY <1>1, PublishLaneFacts
<1>3. r \in Reports /\ a.out \in Seq(Reports) /\ w \o a.out \in Seq(Reports)
  BY Joined DEF Reports, Grown
<1>4. w \o b.out = Append(w \o a.out, r)
  BY <1>2, <1>3, AppendOutside
<1>5. Adds(Append(w \o a.out, r), w \o a.out, r)
  BY <1>3, OneMore
<1>6. Adds(b.out, a.out, r)
  BY <1>2, <1>3, OneMore
<1>13. b = [farm |-> b.farm, out |-> b.out]
  BY DEF PublishLane
<1> HIDE DEF f, b, h
<1>7. Good(f, w \o a.out)
  BY DEF Grown, f
<1>8. Good(h, Append(w \o a.out, r))
  BY <1>1, <1>2, <1>5, <1>7, AddsFrame
<1>9. b.out \in Seq(Reports) /\ Len(b.out) = Len(a.out) + 1
  BY <1>6 DEF Adds
<1>10. Len(b.out) = Len(st.out) + (n + 1)
  <2>1. PICK x \in Nat : x = Len(st.out)
    OBVIOUS
  <2>2. Len(a.out) = x + n
    BY <2>1 DEF Grown
  <2>3. Len(b.out) = (x + n) + 1
    BY <1>9, <2>2
  <2>4. (x + n) + 1 = x + (n + 1)
    OBVIOUS
  <2> QED
    BY <2>1, <2>3, <2>4
<1>11. h.lanes = st.farm.lanes /\ g \in DOMAIN h.inst /\ h \in Farms
  <2>1. f.lanes = st.farm.lanes
    BY DEF Grown, f
  <2> QED
    BY <1>1, <1>2, <2>1 DEF Shows
<1>12. Grown(g, w, st, b, n + 1)
  BY <1>4, <1>8, <1>9, <1>10, <1>11, <1>13 DEF Grown, h
<1> QED
  BY <1>12 DEF b

(* publish_lane_frames keeps everything in order.                          *)
LEMMA PublishGood ==
    ASSUME NEW g, NEW w \in Seq(Reports), NEW st, Grown(g, w, st, st, 0)
    PROVE  Grown(g, w, st, Publish(g, st), st.farm.lanes)
<1> DEFINE all == st.farm.lanes after == CHOOSE a : Lanes(g, st, all, a)
<1>1. all \in Nat \ {0} /\ Len(st.out) \in Nat
  BY LenProperties DEF Grown, Farms
<1>2. Publish(g, st) = after[all]
  BY DEF Publish, Lanes
<1>3. Lanes(g, st, all, after)
  BY <1>1, LanesExist
<1> HIDE DEF after
<1>4. /\ after[0] = st
      /\ \A lane \in 1 .. all : after[lane] = PublishLane(g, after[lane - 1], lane)
  <2>1. \A lane \in 0 .. all :
          after[lane] = IF lane = 0 THEN st ELSE PublishLane(g, after[lane - 1], lane)
    BY <1>3 DEF Lanes
  <2> QED
    BY <1>1, <2>1
<1> DEFINE T == {n \in Nat : n <= all /\ ~Grown(g, w, st, after[n], n)}
<1>5. T = {}
  <2> SUFFICES ASSUME T # {} PROVE FALSE
    OBVIOUS
  <2>1. PICK n \in T : \A k \in T : n <= k
    <3> HIDE DEF T
    <3>1. T \subseteq Nat
      BY DEF T
    <3> QED
      BY <3>1, LeastNat
  <2>2. CASE n = 0
    BY <1>4, <2>1, <2>2
  <2>3. CASE n # 0
    <3>1. n - 1 \in Nat /\ n - 1 <= all /\ n - 1 \notin T /\ n \in 1 .. all
      BY <1>1, <2>1, <2>3
    <3>2. Grown(g, w, st, after[n - 1], n - 1)
      BY <3>1
    <3>3. Grown(g, w, st, PublishLane(g, after[n - 1], n), (n - 1) + 1)
      BY <1>1, <3>1, <3>2, OneLane
    <3>4. after[n] = PublishLane(g, after[n - 1], n) /\ (n - 1) + 1 = n
      BY <1>4, <3>1
    <3> QED
      BY <2>1, <3>3, <3>4
  <2> QED
    BY <2>2, <2>3
<1>6. Grown(g, w, st, after[all], all)
  BY <1>1, <1>5
<1> QED
  BY <1>2, <1>6
(* ------------------------------ commands ------------------------------- *)

(* A farm with the same pool and other instances.                          *)
Changed(h, f, inst, era) == h = [f EXCEPT !.inst = inst, !.era = era]

Held(inst) == DOMAIN inst \subseteq Groups /\ inst \in [DOMAIN inst -> Instances]

LEMMA WithInstances ==
    ASSUME NEW f \in Farms, NEW inst, Held(inst), NEW era \in [Groups -> Nat],
           NEW h, Changed(h, f, inst, era)
    PROVE  /\ h \in Farms /\ h.lanes = f.lanes /\ h.inst = inst /\ h.era = era
           /\ h.free = f.free /\ h.ready = f.ready /\ h.data = f.data
<1>1. inst \in UNION {[held -> Instances] : held \in SUBSET Groups}
  BY DEF Held
<1> QED
  BY <1>1 DEF Farms, Changed

LEMMA FarmFields ==
    ASSUME NEW f \in Farms
    PROVE  /\ f.inst \in [DOMAIN f.inst -> Instances] /\ DOMAIN f.inst \subseteq Groups
           /\ f.era \in [Groups -> Nat] /\ f.lanes \in Nat \ {0}
           /\ \A g \in DOMAIN f.inst : f.inst[g] \in Instances /\ f.inst[g].next \in Nat
           /\ f = [f EXCEPT !.inst = f.inst, !.era = f.era]
           /\ \A inst : [f EXCEPT !.inst = inst] = [f EXCEPT !.inst = inst, !.era = f.era]
<1>1. /\ f.inst \in [DOMAIN f.inst -> Instances] /\ DOMAIN f.inst \subseteq Groups
      /\ f.era \in [Groups -> Nat] /\ f.lanes \in Nat \ {0}
  BY DEF Farms
<1>2. \A g \in DOMAIN f.inst : f.inst[g] \in Instances /\ f.inst[g].next \in Nat
  BY <1>1 DEF Instances
<1>3. f = [f EXCEPT !.inst = f.inst, !.era = f.era]
  BY DEF Farms
<1>4. \A inst : [f EXCEPT !.inst = inst] = [f EXCEPT !.inst = inst, !.era = f.era]
  BY DEF Farms
<1> QED
  BY <1>1, <1>2, <1>3, <1>4

LEMMA NewInTime == NewInstance \in Instances /\ InTime(NewInstance) /\ NewInstance.next = 0
BY DEF NewInstance, NoBoot, Released, Instances, Boots, InTime

LEMMA EnsureGood ==
    ASSUME NEW f, NEW w, Good(f, w), NEW g \in Groups, NEW h, h = Ensure(f, g)
    PROVE  Good(h, w) /\ h.lanes = f.lanes /\ h.era = f.era /\ g \in DOMAIN h.inst
<1> DEFINE inst == [x \in DOMAIN f.inst \cup {g} |->
                      IF x \in DOMAIN f.inst THEN f.inst[x] ELSE NewInstance]
<1>1. f \in Farms /\ \A x \in DOMAIN f.inst : InTime(f.inst[x])
  BY DEF Good
<1>2. /\ DOMAIN inst = DOMAIN f.inst \cup {g}
      /\ \A x \in DOMAIN inst : inst[x] = IF x \in DOMAIN f.inst THEN f.inst[x] ELSE NewInstance
  OBVIOUS
<1>3. inst = [x \in DOMAIN inst |-> inst[x]]
  OBVIOUS
<1>4. Changed(h, f, inst, f.era)
  BY <1>1, FarmFields DEF Ensure, Changed
<1> HIDE DEF inst
<1>5. DOMAIN inst \subseteq Groups /\ \A x \in DOMAIN inst : inst[x] \in Instances /\ InTime(inst[x])
  BY <1>1, <1>2, FarmFields, NewInTime
<1>6. Held(inst) /\ f.era \in [Groups -> Nat]
  BY <1>1, <1>3, <1>5, FarmFields DEF Held
<1>7. /\ h \in Farms /\ h.lanes = f.lanes /\ h.inst = inst /\ h.era = f.era
      /\ h.free = f.free /\ h.ready = f.ready /\ h.data = f.data
  BY <1>1, <1>4, <1>6, WithInstances
<1>8. \A x \in DOMAIN f.inst : x \in DOMAIN h.inst /\ f.inst[x].next <= h.inst[x].next
  <2>1. \A x \in DOMAIN f.inst : f.inst[x].next \in Nat
    BY <1>1, FarmFields
  <2> QED
    BY <1>2, <1>7, <2>1
<1>9. Good(h, w)
  BY <1>5, <1>7, <1>8, Regrouped
<1> QED
  BY <1>2, <1>7, <1>9

LEMMA LoadGood ==
    ASSUME NEW f, NEW w, Good(f, w), NEW g \in Groups, NEW blank \in BOOLEAN,
           NEW h, h = LoadRom(f, g, blank)
    PROVE  Good(h, w) /\ h.lanes = f.lanes
<1> DEFINE e == Ensure(f, g) new == Loaded(e.inst[g], blank, e.lanes)
           inst == [e.inst EXCEPT ![g] = new] era == [e.era EXCEPT ![g] = @ + 1]
<1>1. PICK held : held = e
  OBVIOUS
<1>2. Good(held, w) /\ held.lanes = f.lanes /\ held.era = f.era /\ g \in DOMAIN held.inst
  BY <1>1, EnsureGood
<1>3. /\ held \in Farms /\ held.inst \in [DOMAIN held.inst -> Instances]
      /\ DOMAIN held.inst \subseteq Groups /\ held.era \in [Groups -> Nat]
      /\ \A x \in DOMAIN held.inst : held.inst[x] \in Instances /\ InTime(held.inst[x])
                                     /\ held.inst[x].next \in Nat
  BY <1>2, FarmFields DEF Good
<1>4. Changed(h, held, inst, era)
  <2>1. h = [e EXCEPT !.inst[g] = Loaded(@, blank, f.lanes), !.era[g] = @ + 1]
    BY DEF LoadRom
  <2>2. e.lanes = f.lanes
    BY <1>1, <1>2
  <2> HIDE DEF e
  <2> QED
    BY <1>1, <1>3, <2>1, <2>2 DEF Farms, Changed
<1>5. new \in Instances /\ InTime(new) /\ new.next = 0
  <2>1. e.inst[g] \in Instances
    BY <1>1, <1>2, <1>3
  <2> HIDE DEF e
  <2>2. NewBoot \in Boots /\ NoBoot \in Boots
    BY FarmAssumption DEF NewBoot, NoBoot, Boots
  <2> DEFINE b == IF ~blank /\ ~HasBootRom /\ e.lanes = 1 THEN NewBoot ELSE NoBoot
  <2>7. new = [e.inst[g] EXCEPT !.boot = b, !.next = 0, !.pad = Released]
    BY DEF Loaded
  <2>8. b \in {NewBoot, NoBoot}
    OBVIOUS
  <2> HIDE DEF new, b
  <2>3. /\ new.boot \in {NewBoot, NoBoot} /\ new.next = 0
        /\ new = [boot |-> new.boot, next |-> 0, pad |-> Released]
    BY <2>1, <2>7, <2>8 DEF Instances
  <2>4. new \in Instances
    BY <2>2, <2>3 DEF Instances
  <2>5. CASE new.boot = NoBoot
    BY <2>3, <2>4, <2>5 DEF InTime, NoBoot
  <2>6. CASE new.boot = NewBoot
    BY <2>3, <2>4, <2>6, FarmAssumption DEF InTime, NewBoot
  <2> QED
    BY <2>3, <2>4, <2>5, <2>6
<1> HIDE DEF new, e
<1>6. /\ inst \in [DOMAIN inst -> Instances] /\ DOMAIN inst = DOMAIN held.inst
      /\ inst[g] = new /\ \A x \in DOMAIN inst : x # g => inst[x] = held.inst[x]
      /\ era \in [Groups -> Nat] /\ era[g] = held.era[g] + 1
      /\ \A x \in Groups : x # g => era[x] = held.era[x]
  BY <1>1, <1>2, <1>3, <1>5
<1> HIDE DEF inst, era
<1>7. /\ h \in Farms /\ h.lanes = held.lanes /\ h.inst = inst /\ h.era = era
      /\ h.free = held.free /\ h.ready = held.ready /\ h.data = held.data
  <2>1. Held(inst)
    BY <1>3, <1>6 DEF Held
  <2> QED
    BY <1>3, <1>4, <1>6, <2>1, WithInstances
<1>8. \A x \in DOMAIN h.inst : InTime(h.inst[x])
  BY <1>3, <1>5, <1>6, <1>7
<1>9. \A x \in Groups :
        \/ held.era[x] < h.era[x]
        \/ /\ held.era[x] = h.era[x]
           /\ x \in DOMAIN held.inst =>
                x \in DOMAIN h.inst /\ held.inst[x].next <= h.inst[x].next
  BY <1>3, <1>6, <1>7
<1>10. Good(h, w)
  BY <1>2, <1>7, <1>8, <1>9, Regrouped
<1> QED
  BY <1>2, <1>7, <1>10

LEMMA PadGood ==
    ASSUME NEW f, NEW w, Good(f, w), NEW g \in Groups, NEW pad \in {Released, "pressed"},
           NEW h, h = SetInputs(f, g, pad)
    PROVE  Good(h, w) /\ h.lanes = f.lanes
<1>1. CASE g \notin DOMAIN f.inst
  BY <1>1 DEF SetInputs
<1>2. CASE g \in DOMAIN f.inst
  <2> DEFINE new == [f.inst[g] EXCEPT !.pad = pad] inst == [f.inst EXCEPT ![g] = new]
  <2>1. /\ f \in Farms /\ f.inst \in [DOMAIN f.inst -> Instances] /\ DOMAIN f.inst \subseteq Groups
        /\ f.era \in [Groups -> Nat]
        /\ \A x \in DOMAIN f.inst : f.inst[x] \in Instances /\ InTime(f.inst[x])
                                    /\ f.inst[x].next \in Nat
    BY FarmFields DEF Good
  <2>2. new \in Instances /\ new.boot = f.inst[g].boot /\ new.next = f.inst[g].next
    BY <1>2, <2>1 DEF Instances
  <2>3. InTime(new)
    BY <1>2, <2>1, <2>2 DEF InTime
  <2>4. Changed(h, f, inst, f.era)
    <3>1. h = [f EXCEPT !.inst[g].pad = pad]
      BY <1>2 DEF SetInputs
    <3> QED
      BY <2>1, <3>1 DEF Farms, Changed
  <2> HIDE DEF new
  <2>5. /\ inst \in [DOMAIN inst -> Instances] /\ DOMAIN inst = DOMAIN f.inst
        /\ inst[g] = new /\ \A x \in DOMAIN inst : x # g => inst[x] = f.inst[x]
    BY <1>2, <2>1, <2>2
  <2> HIDE DEF inst
  <2>6. /\ h \in Farms /\ h.lanes = f.lanes /\ h.inst = inst /\ h.era = f.era
        /\ h.free = f.free /\ h.ready = f.ready /\ h.data = f.data
    <3>1. Held(inst)
      BY <2>1, <2>5 DEF Held
    <3> QED
      BY <2>1, <2>4, <3>1, WithInstances
  <2>7. \A x \in DOMAIN h.inst : InTime(h.inst[x])
    BY <2>1, <2>3, <2>5, <2>6
  <2>8. \A x \in DOMAIN f.inst : x \in DOMAIN h.inst /\ f.inst[x].next <= h.inst[x].next
    BY <2>1, <2>2, <2>5, <2>6
  <2> QED
    BY <2>6, <2>7, <2>8, Regrouped
<1> QED
  BY <1>1, <1>2

LEMMA TerminateGood ==
    ASSUME NEW f, NEW w, Good(f, w), NEW g \in Groups, NEW h, h = Terminate(f, g)
    PROVE  Good(h, w) /\ h.lanes = f.lanes
<1> DEFINE inst == [x \in DOMAIN f.inst \ {g} |-> f.inst[x]] era == [f.era EXCEPT ![g] = @ + 1]
<1>1. /\ f \in Farms /\ f.inst \in [DOMAIN f.inst -> Instances] /\ DOMAIN f.inst \subseteq Groups
      /\ f.era \in [Groups -> Nat]
      /\ \A x \in DOMAIN f.inst : f.inst[x] \in Instances /\ InTime(f.inst[x])
                                  /\ f.inst[x].next \in Nat
  BY FarmFields DEF Good
<1>2. Changed(h, f, inst, era)
  BY <1>1 DEF Terminate, Farms, Changed
<1>3. /\ inst \in [DOMAIN inst -> Instances] /\ DOMAIN inst \subseteq Groups
      /\ era \in [Groups -> Nat] /\ era[g] = f.era[g] + 1
      /\ \A x \in Groups : x # g => era[x] = f.era[x]
      /\ \A x \in DOMAIN f.inst : x # g => x \in DOMAIN inst /\ inst[x] = f.inst[x]
      /\ \A x \in DOMAIN inst : x \in DOMAIN f.inst /\ inst[x] = f.inst[x]
  BY <1>1
<1> HIDE DEF inst, era
<1>4. /\ h \in Farms /\ h.lanes = f.lanes /\ h.inst = inst /\ h.era = era
      /\ h.free = f.free /\ h.ready = f.ready /\ h.data = f.data
  <2>1. Held(inst)
    BY <1>3 DEF Held
  <2> QED
    BY <1>1, <1>2, <1>3, <2>1, WithInstances
<1>5. \A x \in DOMAIN h.inst : InTime(h.inst[x])
  BY <1>1, <1>3, <1>4
<1>6. \A x \in Groups :
        \/ f.era[x] < h.era[x]
        \/ /\ f.era[x] = h.era[x]
           /\ x \in DOMAIN f.inst => x \in DOMAIN h.inst /\ f.inst[x].next <= h.inst[x].next
  BY <1>1, <1>3, <1>4
<1> QED
  BY <1>4, <1>5, <1>6, Regrouped

LEMMA StepGood ==
    ASSUME NEW f, NEW w, Good(f, w), NEW g \in Groups, NEW count,
           NEW h, h = StepInstructions(f, g, count)
    PROVE  Good(h, w) /\ h.lanes = f.lanes
<1>1. PICK held : held = Ensure(f, g)
  OBVIOUS
<1>2. Good(held, w) /\ held.lanes = f.lanes /\ g \in DOMAIN held.inst
  BY <1>1, EnsureGood
<1>3. CASE count = 0
  BY <1>1, <1>2, <1>3 DEF StepInstructions
<1>4. CASE count # 0
  <2> DEFINE new == [held.inst[g] EXCEPT !.boot = NoBoot]
             inst == [held.inst EXCEPT ![g] = new]
  <2>1. /\ held \in Farms /\ held.inst \in [DOMAIN held.inst -> Instances]
        /\ DOMAIN held.inst \subseteq Groups /\ held.era \in [Groups -> Nat]
        /\ \A x \in DOMAIN held.inst : held.inst[x] \in Instances /\ InTime(held.inst[x])
                                       /\ held.inst[x].next \in Nat
    BY <1>2, FarmFields DEF Good
  <2>2. new \in Instances /\ new.boot = NoBoot /\ new.next = held.inst[g].next
    BY <1>2, <2>1 DEF Instances, NoBoot, Boots
  <2>3. InTime(new)
    BY <2>2 DEF InTime, NoBoot
  <2>4. Changed(h, held, inst, held.era)
    <3>1. h = [held EXCEPT !.inst[g].boot = NoBoot]
      BY <1>1, <1>4 DEF StepInstructions
    <3> QED
      BY <2>1, <3>1 DEF Farms, Changed
  <2> HIDE DEF new
  <2>5. /\ inst \in [DOMAIN inst -> Instances] /\ DOMAIN inst = DOMAIN held.inst
        /\ inst[g] = new /\ \A x \in DOMAIN inst : x # g => inst[x] = held.inst[x]
    BY <1>2, <2>1, <2>2
  <2> HIDE DEF inst
  <2>6. /\ h \in Farms /\ h.lanes = held.lanes /\ h.inst = inst /\ h.era = held.era
        /\ h.free = held.free /\ h.ready = held.ready /\ h.data = held.data
    <3>1. Held(inst)
      BY <2>1, <2>5 DEF Held
    <3> QED
      BY <2>1, <2>4, <3>1, WithInstances
  <2>7. \A x \in DOMAIN h.inst : InTime(h.inst[x])
    BY <2>1, <2>3, <2>5, <2>6
  <2>8. \A x \in DOMAIN held.inst : x \in DOMAIN h.inst /\ held.inst[x].next <= h.inst[x].next
    BY <2>1, <2>2, <2>5, <2>6
  <2> QED
    BY <1>2, <2>6, <2>7, <2>8, Regrouped
<1> QED
  BY <1>3, <1>4
(* What a command leaves: its reports follow those of the line, and there  *)
(* are not too many of them.                                               *)
Works(w, f, done, most) ==
    /\ done.out \in Seq(Reports) /\ Len(done.out) <= most
    /\ done.farm.lanes = f.lanes
    /\ Good(done.farm, w \o done.out)

LEMMA Lonely ==
    ASSUME NEW w \in Seq(Reports)
    PROVE  /\ <<>> \in Seq(Reports) /\ Len(<<>>) = 0 /\ w \o <<>> = w
           /\ \A r \in Reports : << r >> \in Seq(Reports) /\ Len(<< r >>) = 1
                                 /\ w \o << r >> = Append(w, r)
<1>1. <<>> \in Seq(Reports) /\ Len(<<>>) = 0 /\ w \o <<>> = w
  BY ConcatEmptySeq
<1>2. ASSUME NEW r \in Reports
      PROVE  << r >> \in Seq(Reports) /\ Len(<< r >>) = 1 /\ w \o << r >> = Append(w, r)
  BY AppendIsConcat
<1> QED
  BY <1>1, <1>2

LEMMA SilentWorks ==
    ASSUME NEW f, NEW w, NEW h, Good(h, w), h.lanes = f.lanes
    PROVE  Works(w, f, Silent(h), 0)
<1>1. w \in Seq(Reports)
  BY DEF Good
<1>2. w \o <<>> = w /\ <<>> \in Seq(Reports) /\ Len(<<>>) = 0
  BY <1>1, Lonely
<1> QED
  BY <1>2 DEF Works, Silent

LEMMA AnswerWorks ==
    ASSUME NEW f, NEW w, NEW h, Good(h, w), h.lanes = f.lanes, NEW g \in Groups,
           NEW kind \in {"RomLoaded", "Snapshot", "MemWindow", "Stepped"}
    PROVE  /\ Works(w, f, Answer(h, g, kind), 1)
           /\ \E r \in Others : Answer(h, g, kind).out = << r >>
<1>1. w \in Seq(Reports) /\ h.era[g] \in Nat
  BY DEF Good, Farms
<1>2. PICK r \in Others : r = [kind |-> kind, group |-> g, era |-> h.era[g]]
  BY <1>1 DEF Others
<1>3. Answer(h, g, kind).farm = h /\ Answer(h, g, kind).out = << r >>
  BY <1>2 DEF Answer
<1>4. r \in Reports
  BY DEF Reports
<1>5. PICK s \in Seq(Reports) : s = << r >> /\ Len(s) = 1 /\ w \o s = Append(w, r)
  BY <1>1, <1>4, Lonely
<1>6. Good(h, Append(w, r))
  BY <1>1, <1>4, OneMore, AddsOther
<1> DEFINE done == Answer(h, g, kind)
<1>7. done.farm = h /\ done.out = s
  BY <1>3, <1>5
<1> HIDE DEF done
<1>8. Works(w, f, done, 1)
  <2>1. Len(done.out) <= 1 /\ done.out \in Seq(Reports) /\ done.farm.lanes = f.lanes
    BY <1>5, <1>7
  <2>2. Good(done.farm, w \o done.out)
    BY <1>5, <1>6, <1>7, Zenon
  <2> QED
    BY <2>1, <2>2 DEF Works
<1> QED
  BY <1>3, <1>8 DEF done

LEMMA TickWorks ==
    ASSUME NEW f, NEW w, Good(f, w), NEW g \in Groups, NEW run
    PROVE  /\ Works(w, f, Tick(f, g, run), 2 * f.lanes + 1)
           /\ Tick(f, g, run) = [farm |-> Tick(f, g, run).farm, out |-> Tick(f, g, run).out]
<1> DEFINE st == [farm |-> Ensure(f, g), out |-> <<>>] one == Publish(g, st)
           two == Publish(g, one) late == ~Booting(st.farm.inst[g]) /\ run = "late"
           done == IF late THEN two ELSE one
           r == [kind |-> "TickDone", group |-> g]
<1>1. w \in Seq(Reports) /\ f.lanes \in Nat \ {0}
  BY DEF Good, Farms
<1>2. <<>> \in Seq(Reports) /\ Len(<<>>) = 0 /\ w \o <<>> = w
  BY <1>1, Lonely
<1>3. /\ Good(st.farm, w) /\ st.farm.lanes = f.lanes /\ g \in DOMAIN st.farm.inst /\ st.out = <<>>
      /\ st = [farm |-> st.farm, out |-> st.out]
  BY EnsureGood
<1>4. Tick(f, g, run) = [done EXCEPT !.out = Append(@, r)]
  BY DEF Tick
<1> HIDE DEF st
<1>5. Grown(g, w, st, st, 0)
  BY <1>2, <1>3 DEF Grown, Good
<1>6. Grown(g, w, st, one, f.lanes)
  BY <1>1, <1>3, <1>5, PublishGood
<1> HIDE DEF one
<1>7. /\ one = [farm |-> one.farm, out |-> one.out]
      /\ one.farm.lanes = f.lanes /\ one.out \in Seq(Reports) /\ Len(one.out) = f.lanes
      /\ Good(one.farm, w \o one.out)
  BY <1>1, <1>2, <1>3, <1>6 DEF Grown
<1>8. Grown(g, w, one, one, 0)
  BY <1>1, <1>6, <1>7 DEF Grown
<1>9. Grown(g, w, one, two, f.lanes)
  BY <1>1, <1>7, <1>8, PublishGood
<1> HIDE DEF two
<1>10. /\ two = [farm |-> two.farm, out |-> two.out]
       /\ two.farm.lanes = f.lanes /\ two.out \in Seq(Reports) /\ Len(two.out) = f.lanes + f.lanes
       /\ Good(two.farm, w \o two.out)
  BY <1>1, <1>7, <1>9 DEF Grown
<1>11. /\ done.farm.lanes = f.lanes /\ done.out \in Seq(Reports) /\ Len(done.out) \in Nat
       /\ Len(done.out) <= 2 * f.lanes
       /\ Good(done.farm, w \o done.out)
  BY <1>1, <1>7, <1>10
<1>12. done = [farm |-> done.farm, out |-> done.out]
  BY <1>7, <1>10
<1>13. r \in Others /\ r \in Reports
  BY DEF Others, Reports
<1> HIDE DEF done, r
<1> DEFINE all == Tick(f, g, run)
<1>14. /\ all.farm = done.farm /\ all.out = Append(done.out, r)
       /\ all = [farm |-> all.farm, out |-> all.out]
  BY <1>4, <1>12
<1> HIDE DEF all
<1>15. w \o done.out \in Seq(Reports) /\ w \o all.out = Append(w \o done.out, r)
  BY <1>1, <1>11, <1>13, <1>14, AppendOutside, Joined
<1>16. Adds(all.out, done.out, r) /\ Adds(Append(w \o done.out, r), w \o done.out, r)
  BY <1>11, <1>13, <1>14, <1>15, OneMore
<1>17. Good(done.farm, Append(w \o done.out, r))
  BY <1>11, <1>13, <1>16, AddsOther
<1>18. all.out \in Seq(Reports) /\ Len(all.out) <= 2 * f.lanes + 1
  <2>1. all.out \in Seq(Reports) /\ Len(all.out) = Len(done.out) + 1
    BY <1>16 DEF Adds
  <2> QED
    BY <1>1, <1>11, <2>1
<1>19. Works(w, f, all, 2 * f.lanes + 1)
  BY <1>11, <1>14, <1>15, <1>17, <1>18 DEF Works
<1> QED
  BY <1>14, <1>19 DEF all

(* Every command keeps the line good and yields at most what its estimate  *)
(* allows, or as much as a tick of all lanes twice.                        *)
LEMMA MaterialiseWorks ==
    ASSUME NEW f, NEW w, Good(f, w), NEW op \in Operations, NEW g \in Groups, NEW run,
           NEW pad \in {Released, "pressed"}, NEW count
    PROVE  Works(w, f, Materialise(f, op, g, run, pad, count),
                 ReportsFor(op) + (2 * f.lanes - 1))
<1> DEFINE done == Materialise(f, op, g, run, pad, count) room == ReportsFor(op) + (2 * f.lanes - 1)
<1>1. f.lanes \in Nat /\ f.lanes >= 1 /\ w \in Seq(Reports)
  BY DEF Good, Farms
<1>2. ReportsFor(op) \in Nat
  BY DEF ReportsFor
<1>3. ASSUME NEW d, NEW n \in Nat, Works(w, f, d, n), n <= room, done = d
      PROVE  Works(w, f, done, room)
  <2>1. Len(d.out) \in Nat /\ Len(d.out) <= n /\ room \in Int
    BY <1>1, <1>2, <1>3, LenProperties DEF Works
  <2>2. Len(d.out) <= room
    <3> HIDE DEF room
    <3> QED
      BY <1>3, <2>1
  <2> HIDE DEF done, room
  <2> QED
    BY <1>3, <2>2 DEF Works
<1>4. CASE op \in {"TickDisplay", "TickExploration"}
  <2>1. done = Tick(f, g, run)
    BY <1>4 DEF Materialise
  <2>2. ReportsFor(op) = 2
    BY <1>4 DEF ReportsFor
  <2>3. 2 * f.lanes + 1 <= room /\ 2 * f.lanes + 1 \in Nat
    BY <1>1, <2>2
  <2> QED
    BY <1>3, <2>1, <2>3, TickWorks
<1>5. CASE op \in {"LoadRom", "LoadBlank"}
  <2>4. PICK blank \in BOOLEAN : done = Answer(LoadRom(f, g, blank), g, "RomLoaded")
    <3>1. CASE op = "LoadRom"
      <4>1. done = Answer(LoadRom(f, g, FALSE), g, "RomLoaded")
        BY <3>1 DEF Materialise
      <4> HIDE DEF done
      <4> QED
        BY <4>1
    <3>2. CASE op = "LoadBlank"
      <4>1. done = Answer(LoadRom(f, g, TRUE), g, "RomLoaded")
        BY <3>2 DEF Materialise
      <4> HIDE DEF done
      <4> QED
        BY <4>1
    <3> QED
      BY <1>5, <3>1, <3>2
  <2>1. PICK h : h = LoadRom(f, g, blank) /\ done = Answer(h, g, "RomLoaded")
    BY <2>4
  <2>2. Good(h, w) /\ h.lanes = f.lanes
    BY <2>1, LoadGood
  <2>3. Works(w, f, Answer(h, g, "RomLoaded"), 1) /\ 1 <= room
    BY <1>1, <1>5, <2>2, AnswerWorks DEF ReportsFor
  <2> QED
    BY <1>3, <2>1, <2>3
<1>6. CASE op = "SetInputs"
  <2>1. PICK h : h = SetInputs(f, g, pad) /\ done = Silent(h)
    BY <1>6 DEF Materialise
  <2>2. Good(h, w) /\ h.lanes = f.lanes
    BY <2>1, PadGood
  <2>3. Works(w, f, Silent(h), 0) /\ 0 <= room
    BY <1>1, <1>6, <2>2, SilentWorks DEF ReportsFor
  <2> QED
    BY <1>3, <2>1, <2>3
<1>7. CASE op = "Terminate"
  <2>1. PICK h : h = Terminate(f, g) /\ done = Silent(h)
    BY <1>7 DEF Materialise
  <2>2. Good(h, w) /\ h.lanes = f.lanes
    BY <2>1, TerminateGood
  <2>3. Works(w, f, Silent(h), 0) /\ 0 <= room
    BY <1>1, <1>7, <2>2, SilentWorks DEF ReportsFor
  <2> QED
    BY <1>3, <2>1, <2>3
<1>8. CASE op \in {"Snapshot", "MemWindow"}
  <2>1. PICK h : h = Ensure(f, g) /\ done = Answer(h, g, op)
    BY <1>8 DEF Materialise
  <2>2. Good(h, w) /\ h.lanes = f.lanes
    BY <2>1, EnsureGood
  <2>3. Works(w, f, Answer(h, g, op), 1) /\ 1 <= room
    BY <1>1, <1>8, <2>2, AnswerWorks DEF ReportsFor
  <2> QED
    BY <1>3, <2>1, <2>3
<1>9. CASE op = "StepInstruction"
  <2>1. PICK h : h = StepInstructions(f, g, count) /\ done = Answer(h, g, "Stepped")
    BY <1>9 DEF Materialise
  <2>2. Good(h, w) /\ h.lanes = f.lanes
    BY <2>1, StepGood
  <2>3. Works(w, f, Answer(h, g, "Stepped"), 1) /\ 1 <= room
    BY <1>1, <1>9, <2>2, AnswerWorks DEF ReportsFor
  <2> QED
    BY <1>3, <2>1, <2>3
<1>10. CASE op = "StepFrame"
  <2>1. PICK t : t = Tick(f, g, run)
    OBVIOUS
  <2>2. Works(w, f, t, 2 * f.lanes + 1) /\ t = [farm |-> t.farm, out |-> t.out]
    BY <2>1, TickWorks
  <2>3. t.out \in Seq(Reports) /\ w \o t.out \in Seq(Reports) /\ Len(t.out) \in Nat
    BY <1>1, <2>2, Joined DEF Works
  <2> DEFINE v == w \o t.out a == Answer(t.farm, g, "Stepped")
  <2>4. Good(t.farm, v) /\ t.farm.lanes = f.lanes
    BY <2>2 DEF Works
  <2>5. Works(v, f, a, 1) /\ \E r \in Others : a.out = << r >>
    BY <2>4, AnswerWorks
  <2>6. a.farm = t.farm
    BY DEF Answer
  <2>7. done = [farm |-> t.farm, out |-> t.out \o a.out]
    <3>1. done = [t EXCEPT !.out = @ \o a.out]
      BY <1>10, <2>1 DEF Materialise
    <3> HIDE DEF a, done
    <3> QED
      BY <2>2, <3>1
  <2>8. room = 2 * f.lanes + 2
    BY <1>1, <1>10 DEF ReportsFor
  <2>13. v \in Seq(Reports)
    BY <2>3
  <2> HIDE DEF a, done, v, room
  <2>9. PICK r \in Reports : a.out = << r >>
    BY <2>5 DEF Reports
  <2>10. t.out \o a.out = Append(t.out, r) /\ v \o a.out = Append(v, r) /\ a.out \in Seq(Reports)
    BY <2>3, <2>9, <2>13, Lonely
  <2>11. /\ t.out \o a.out \in Seq(Reports) /\ Len(t.out \o a.out) = Len(t.out) + 1
         /\ w \o (t.out \o a.out) = Append(v, r)
    <3>1. w \o Append(t.out, r) = Append(w \o t.out, r)
      BY <1>1, <2>3, AppendOutside
    <3>2. Append(t.out, r) \in Seq(Reports) /\ Len(Append(t.out, r)) = Len(t.out) + 1
      BY <2>3, OneMore DEF Adds
    <3> QED
      BY <2>10, <3>1, <3>2 DEF v
  <2>12. Good(t.farm, Append(v, r))
    BY <2>5, <2>6, <2>10 DEF Works
  <2>14. Len(t.out \o a.out) <= room
    BY <1>1, <2>2, <2>3, <2>8, <2>11 DEF Works
  <2>15. done.farm = t.farm /\ done.out = t.out \o a.out
    BY <2>7
  <2> QED
    BY <2>4, <2>11, <2>12, <2>14, <2>15 DEF Works, done, room
<1> QED
  BY <1>4, <1>5, <1>6, <1>7, <1>8, <1>9, <1>10 DEF Operations
(* --------------------------- queue and inbox --------------------------- *)

\* The reports that are left when the d oldest of the queue are thrown away.
LEMMA Shortened ==
    ASSUME NEW q \in Seq(Reports), NEW d \in 0 .. Len(q)
    PROVE  /\ SubSeq(q, d + 1, Len(q)) \in Seq(Reports)
           /\ Len(SubSeq(q, d + 1, Len(q))) = Len(q) - d
           /\ \A i \in 1 .. Len(q) - d : SubSeq(q, d + 1, Len(q))[i] = q[d + i]
<1>1. Len(q) \in Nat /\ \A i \in 1 .. Len(q) : q[i] \in Reports
  BY LenProperties
<1>2. /\ Len(q) - (d + 1) + 1 = Len(q) - d /\ Len(q) - d \in Nat
      /\ d + 1 \in Nat /\ d \in Nat
      /\ \A i \in 1 .. Len(q) - d : (d + 1) + i - 1 = d + i
      /\ d + 1 <= Len(q) + 1 /\ d + 1 \in 1 .. Len(q) + 1 /\ Len(q) \in d .. Len(q)
  BY <1>1
<1>3. CASE d < Len(q)
  <2>1. d + 1 \in 1 .. Len(q) /\ Len(q) \in d + 1 .. Len(q)
    BY <1>1, <1>3
  <2> QED
    BY <1>1, <1>2, <2>1, SubSeqProperties
<1>4. CASE d = Len(q)
  BY <1>1, <1>2, <1>4, SubSeqProperties
<1> QED
  BY <1>1, <1>3, <1>4

LEMMA ThinnedQueue ==
    ASSUME NEW f, NEW b \in Seq(Reports), NEW q \in Seq(Reports), Good(f, b \o q),
           NEW d \in 0 .. Len(q), NEW kept \in Seq(Reports), Len(kept) = Len(q) - d,
           \A i \in 1 .. Len(q) - d : kept[i] = q[d + i]
    PROVE  Good(f, b \o kept)
<1> DEFINE w == b \o q v == b \o kept n == Len(b)
           e == [i \in DOMAIN v |-> IF i <= n THEN i ELSE i + d]
<1>7. /\ w \in Seq(Reports) /\ n \in Nat /\ Len(q) \in Nat /\ DOMAIN w = 1 .. n + Len(q)
      /\ \A i \in 1 .. n + Len(q) : w[i] = IF i <= n THEN b[i] ELSE q[i - n]
  BY Joined
<1>8. /\ v \in Seq(Reports) /\ Len(kept) \in Nat /\ DOMAIN v = 1 .. n + Len(kept)
      /\ \A i \in 1 .. n + Len(kept) : v[i] = IF i <= n THEN b[i] ELSE kept[i - n]
  <2> DEFINE long(t) == /\ b \o t \in Seq(Reports) /\ Len(t) \in Nat
                        /\ DOMAIN (b \o t) = 1 .. Len(b) + Len(t)
                        /\ \A i \in 1 .. Len(b) + Len(t) :
                             (b \o t)[i] = IF i <= Len(b) THEN b[i] ELSE t[i - Len(b)]
  <2>1. ASSUME NEW t \in Seq(Reports) PROVE long(t)
    BY Joined
  <2> HIDE DEF long
  <2>2. long(kept)
    BY <2>1, Zenon
  <2> QED
    BY <2>2, Zenon DEF long
<1> HIDE DEF w, v
<1>1. /\ n \in Nat /\ Len(q) \in Nat /\ d \in Nat /\ d <= Len(q)
      /\ w \in Seq(Reports) /\ v \in Seq(Reports)
      /\ DOMAIN w = 1 .. n + Len(q) /\ DOMAIN v = 1 .. n + (Len(q) - d)
      /\ \A i \in 1 .. n + Len(q) : w[i] = IF i <= n THEN b[i] ELSE q[i - n]
      /\ \A i \in 1 .. n + (Len(q) - d) : v[i] = IF i <= n THEN b[i] ELSE kept[i - n]
  BY <1>7, <1>8
<1> HIDE DEF n
<1>2. e \in [DOMAIN v -> DOMAIN w]
  BY <1>1
<1>3. \A i, j \in DOMAIN v : i < j => e[i] < e[j]
  BY <1>1
<1>4. ASSUME NEW i \in DOMAIN v PROVE v[i] = w[e[i]]
  <2>1. CASE i <= n
    <3>1. i \in 1 .. n + Len(q) /\ i \in 1 .. n + (Len(q) - d) /\ e[i] = i
      BY <1>1, <2>1
    <3>2. v[i] = b[i] /\ w[i] = b[i]
      BY <1>1, <2>1, <3>1
    <3> QED
      BY <3>1, <3>2
  <2>2. CASE ~(i <= n)
    <3>1. /\ i - n \in 1 .. Len(q) - d /\ i + d \in 1 .. n + Len(q) /\ ~(i + d <= n)
          /\ (i + d) - n = d + (i - n) /\ e[i] = i + d
      BY <1>1, <2>2
    <3>2. v[i] = kept[i - n] /\ w[i + d] = q[(i + d) - n]
      BY <1>1, <2>2, <3>1
    <3> QED
      BY <3>1, <3>2
  <2> QED
    BY <2>1, <2>2
<1>5. Good(f, w)
  BY DEF w
<1> HIDE DEF e
<1>6. Remains(v, w, e)
  BY <1>1, <1>2, <1>3, <1>4 DEF Remains
<1>9. Good(f, v)
  BY <1>5, <1>6, Thinned
<1> QED
  BY <1>9 DEF v

(* The interface takes the oldest report and, if it promises a slot, the   *)
(* oldest slot that is ready.                                              *)
Fetched(f, h) ==
    /\ f.ready # <<>>
    /\ h = [f EXCEPT !.ready = Tail(@), !.free = Append(@, Head(f.ready))]

LEMMA FetchGood ==
    ASSUME NEW f, NEW w, Good(f, w), w # <<>>, NEW h,
           h = f \/ (IsFrame(Head(w)) /\ Head(w).slot # Inline /\ Fetched(f, h))
    PROVE  Good(h, Tail(w)) /\ h.lanes = f.lanes
<1> DEFINE v == Tail(w) e == [i \in DOMAIN v |-> i + 1]
<1>1. /\ w \in Seq(Reports) /\ v \in Seq(Reports) /\ Len(w) \in Nat
      /\ DOMAIN w = 1 .. Len(w) /\ DOMAIN v = 1 .. Len(w) - 1 /\ Len(w) >= 1
      /\ Head(w) = w[1] /\ \A i \in DOMAIN v : v[i] = w[i + 1]
  <2>1. w \in Seq(Reports)
    BY DEF Good
  <2>2. /\ Head(w) = w[1] /\ Tail(w) \in Seq(Reports) /\ Len(Tail(w)) = Len(w) - 1
        /\ \A i \in 1 .. Len(Tail(w)) : Tail(w)[i] = w[i + 1]
    BY <2>1, HeadTailProperties
  <2>3. Len(w) \in Nat /\ DOMAIN w = 1 .. Len(w) /\ Len(w) # 0
    BY <2>1, LenProperties, EmptySeq
  <2>4. DOMAIN Tail(w) = 1 .. Len(w) - 1
    BY <2>2, LenProperties
  <2> QED
    BY <2>1, <2>2, <2>3, <2>4
<1> HIDE DEF v
<1>2. /\ e \in [DOMAIN v -> DOMAIN w] /\ \A i \in DOMAIN v : v[i] = w[e[i]]
      /\ \A i, j \in DOMAIN v : i < j => e[i] < e[j]
  BY <1>1
<1>3. Good(f, v)
  <2> HIDE DEF e
  <2>1. Remains(v, w, e)
    BY <1>1, <1>2 DEF Remains
  <2> QED
    BY <2>1, Thinned
<1>4. CASE h = f
  BY <1>3, <1>4 DEF v
<1>5. CASE IsFrame(Head(w)) /\ Head(w).slot # Inline /\ Fetched(f, h)
  <2> DEFINE n == Len(f.ready) m == Len(f.free)
  <2>1. /\ f \in Farms /\ f.free \in Seq(Slots) /\ f.ready \in Seq(Slots) /\ f.ready # <<>>
    BY <1>5 DEF Good, Farms, Fetched
  <2>2. /\ n \in Nat /\ n >= 1 /\ DOMAIN f.ready = 1 .. n /\ Head(f.ready) = f.ready[1]
        /\ Head(f.ready) \in Slots
        /\ Tail(f.ready) \in Seq(Slots) /\ DOMAIN Tail(f.ready) = 1 .. n - 1
        /\ \A k \in 1 .. n - 1 : Tail(f.ready)[k] = f.ready[k + 1]
    <3>1. PICK s \in Seq(Slots) : s = f.ready /\ s # <<>>
      BY <2>1
    <3>2. /\ Head(s) = s[1] /\ Head(s) \in Slots /\ Tail(s) \in Seq(Slots)
          /\ Len(Tail(s)) = Len(s) - 1
          /\ \A i \in 1 .. Len(Tail(s)) : Tail(s)[i] = s[i + 1]
      BY <3>1, HeadTailProperties
    <3>3. Len(s) \in Nat /\ DOMAIN s = 1 .. Len(s) /\ Len(s) # 0
      BY <3>1, LenProperties, EmptySeq
    <3>4. DOMAIN Tail(s) = 1 .. Len(s) - 1
      BY <3>2, LenProperties
    <3> QED
      BY <3>1, <3>2, <3>3, <3>4
  <2>3. /\ m \in Nat /\ DOMAIN f.free = 1 .. m
        /\ Append(f.free, Head(f.ready)) \in Seq(Slots)
        /\ DOMAIN Append(f.free, Head(f.ready)) = 1 .. m + 1
        /\ \A k \in 1 .. m : Append(f.free, Head(f.ready))[k] = f.free[k]
        /\ Append(f.free, Head(f.ready))[m + 1] = Head(f.ready)
    <3>1. PICK s \in Seq(Slots), x \in Slots : s = f.free /\ x = Head(f.ready)
      BY <2>1, <2>2
    <3>2. /\ Append(s, x) \in Seq(Slots) /\ Len(Append(s, x)) = Len(s) + 1
          /\ \A k \in 1 .. Len(s) : Append(s, x)[k] = s[k]
          /\ Append(s, x)[Len(s) + 1] = x
      BY AppendProperties
    <3>3. Len(s) \in Nat /\ DOMAIN s = 1 .. Len(s) /\ DOMAIN Append(s, x) = 1 .. Len(s) + 1
      BY <3>2, LenProperties
    <3> QED
      BY <3>1, <3>2, <3>3
  <2>4. /\ h \in Farms /\ h.lanes = f.lanes /\ h.inst = f.inst /\ h.era = f.era
        /\ h.data = f.data /\ h.ready = Tail(f.ready)
        /\ h.free = Append(f.free, Head(f.ready))
    BY <1>5, <2>1, <2>2, <2>3 DEF Fetched, Farms
  <2> DEFINE x == f.ready[1]
  <2>5. /\ DOMAIN h.ready = 1 .. n - 1 /\ \A k \in DOMAIN h.ready : h.ready[k] = f.ready[k + 1]
        /\ DOMAIN h.free = 1 .. m + 1 /\ \A k \in 1 .. m : h.free[k] = f.free[k]
        /\ h.free[m + 1] = x
    BY <2>2, <2>3, <2>4
  <2> HIDE DEF n, m, x
  <2>6. /\ \A k \in DOMAIN h.ready : k \in Nat /\ k + 1 \in DOMAIN f.ready /\ k + 1 # 1
        /\ 1 \in DOMAIN f.ready
        /\ \A k \in DOMAIN h.free : k \in DOMAIN f.free \/ k = m + 1
        /\ \A i, j \in DOMAIN h.ready : i + 1 = j + 1 => i = j
    BY <2>2, <2>3, <2>5
  <2>7. Pooled(h)
    <3>1. \A i, j \in DOMAIN h.ready : h.ready[i] = h.ready[j] => i = j
      BY <2>5, <2>6 DEF Pooled, Good
    <3>2. \A k \in DOMAIN f.free : f.free[k] # x /\ h.free[k] = f.free[k]
      BY <2>3, <2>5, <2>6 DEF Pooled, Good, x
    <3>3. \A i, j \in DOMAIN h.free : h.free[i] = h.free[j] => i = j
      BY <2>5, <2>6, <3>2 DEF Pooled, Good
    <3>4. \A j \in DOMAIN h.ready : h.ready[j] # x
      BY <2>5, <2>6 DEF Pooled, Good, x
    <3>5. \A i \in DOMAIN h.free, j \in DOMAIN h.ready : h.free[i] # h.ready[j]
      BY <2>5, <2>6, <3>2, <3>4 DEF Pooled, Good
    <3> QED
      BY <3>1, <3>3, <3>5 DEF Pooled
  <2>8. 1 \in Promising(w) /\ \A i \in Promising(v) : i \in Nat /\ i \in DOMAIN v /\ i + 1 \in Promising(w)
                                                  /\ v[i] = w[i + 1] /\ 1 < i + 1
    BY <1>1, <1>5 DEF Promising
  <2>9. Promised(h, v)
    <3> SUFFICES ASSUME NEW i \in Promising(v)
                 PROVE  /\ h.data[v[i].slot] = v[i].of
                        /\ \E k \in DOMAIN h.ready :
                             /\ h.ready[k] = v[i].slot
                             /\ \A j \in Promising(v), l \in DOMAIN h.ready :
                                  h.ready[l] = v[j].slot => (i < j => k < l) /\ (i = j => k = l)
      BY DEF Promised
    <3>1. PICK k \in DOMAIN f.ready :
            /\ f.ready[k] = w[i + 1].slot
            /\ \A j \in Promising(w), l \in DOMAIN f.ready :
                 f.ready[l] = w[j].slot => (i + 1 < j => k < l) /\ (i + 1 = j => k = l)
      BY <2>8 DEF Promised, Good
    <3>2. h.data[v[i].slot] = v[i].of
      BY <2>4, <2>8 DEF Promised, Good
    <3>3. k # 1
      <4>1. PICK k1 \in DOMAIN f.ready :
              \A j \in Promising(w), l \in DOMAIN f.ready :
                 f.ready[l] = w[j].slot => (1 < j => k1 < l)
        BY <2>8 DEF Promised, Good
      <4>2. k1 < k
        BY <2>8, <3>1, <4>1
      <4> QED
        BY <2>2, <4>2
    <3>4. k - 1 \in DOMAIN h.ready /\ h.ready[k - 1] = v[i].slot
      <4>1. k - 1 \in 1 .. n - 1 /\ (k - 1) + 1 = k
        BY <2>2, <3>3
      <4> QED
        BY <2>5, <2>8, <3>1, <4>1
    <3>5. ASSUME NEW j \in Promising(v), NEW l \in DOMAIN h.ready, h.ready[l] = v[j].slot
          PROVE  (i < j => k - 1 < l) /\ (i = j => k - 1 = l)
      <4>1. j + 1 \in Promising(w) /\ l + 1 \in DOMAIN f.ready /\ f.ready[l + 1] = w[j + 1].slot
        BY <2>5, <2>6, <2>8, <3>5
      <4>2. (i + 1 < j + 1 => k < l + 1) /\ (i + 1 = j + 1 => k = l + 1)
        BY <3>1, <4>1
      <4>3. i \in Nat /\ j \in Nat /\ l \in Nat /\ k \in Nat
        BY <2>2, <2>6, <2>8
      <4> QED
        BY <4>2, <4>3
    <3> QED
      BY <3>2, <3>4, <3>5
  <2>10. \A g \in DOMAIN h.inst : InTime(h.inst[g])
    BY <2>4 DEF Good
  <2>11. \A i \in DOMAIN v : IsFrame(v[i]) => Known(h, v[i])
    BY <1>3, <2>4 DEF Good, Known
  <2> QED
    BY <1>3, <2>4, <2>7, <2>9, <2>10, <2>11 DEF Good, v
<1> QED
  BY <1>4, <1>5
(* ---------------------------- the invariant ---------------------------- *)

IInv ==
    /\ inbox \in Seq(Reports) /\ reports \in Seq(Reports)
    /\ Good(farm, Waiting)
    /\ OverrunBounded

\* The queue after coalescing: its d oldest reports are gone.
Without(kept, q, d) ==
    /\ d \in 0 .. Len(q)
    /\ kept \in Seq(Reports) /\ Len(kept) = Len(q) - d
    /\ \A i \in 1 .. Len(q) - d : kept[i] = q[d + i]

LEMMA KeptWithout ==
    ASSUME NEW q \in Seq(Reports), NEW policy, NEW needed \in Nat
    PROVE  \E d : Without(Kept(policy, q, Capacity, needed), q, d)
<1> DEFINE d == Evicted(policy, q, Capacity, needed)
<1>1. Len(q) \in Nat /\ Capacity \in Nat
  BY LenProperties, ServiceAssumption
<1>2. d \in 0 .. Len(q)
  BY <1>1 DEF Evicted, Fits, Lesser
<1>3. Kept(policy, q, Capacity, needed) = SubSeq(q, d + 1, Len(q))
  BY DEF Kept
<1> HIDE DEF d
<1>4. Without(SubSeq(q, d + 1, Len(q)), q, d)
  BY <1>2, Shortened DEF Without
<1> QED
  BY <1>3, <1>4

LEMMA InitIInv == Init => IInv
<1> SUFFICES ASSUME Init PROVE IInv
  OBVIOUS
<1>1. PICK lanes \in LaneCounts : farm = NewFarm(lanes)
  BY DEF Init
<1>2. /\ reports = <<>> /\ inbox = <<>> /\ Waiting = <<>>
      /\ <<>> \in Seq(Reports) /\ Len(<<>>) = 0 /\ DOMAIN <<>> = {}
  <2>1. <<>> \in Seq(Reports) /\ Len(<<>>) = 0 /\ <<>> \o <<>> = <<>>
    BY Lonely
  <2> QED
    BY <2>1 DEF Init, Waiting
<1>3. lanes \in Nat \ {0} /\ SlotCount \in Nat
  BY FarmAssumption
<1>4. farm \in Farms
  <2>1. <<>> \in [{} -> Instances]
    OBVIOUS
  <2>2. [s \in Slots |-> s] \in Seq(Slots)
    BY <1>3, SeqDef DEF Slots
  <2>3. <<>> \in Seq(Slots)
    BY EmptySeq
  <2>4. [s \in Slots |-> [era |-> 0, lane |-> 0, id |-> 0]] \in [Slots -> Images]
    BY DEF Images
  <2>5. [g \in Groups |-> 0] \in [Groups -> Nat]
    OBVIOUS
  <2>6. \E held \in SUBSET Groups : farm.inst \in [held -> Instances]
    BY <1>1, <2>1 DEF NewFarm
  <2> QED
    BY <1>1, <1>3, <2>2, <2>3, <2>4, <2>5, <2>6 DEF NewFarm, Farms
<1>5. /\ DOMAIN farm.inst = {} /\ DOMAIN farm.ready = {}
      /\ \A s \in DOMAIN farm.free : farm.free[s] = s
  BY <1>1, <1>2 DEF NewFarm
<1>6. Pooled(farm)
  BY <1>5 DEF Pooled
<1>7. Good(farm, Waiting)
  BY <1>2, <1>4, <1>5, <1>6 DEF Good, Ordered, Promised, Promising
<1>8. OverrunBounded
  <2>1. farm.lanes = lanes
    BY <1>1 DEF NewFarm
  <2> QED
    BY <1>2, <1>3, <2>1, ServiceAssumption DEF OverrunBounded
<1> QED
  BY <1>2, <1>7, <1>8 DEF IInv

LEMMA SubmitIInv ==
    ASSUME IInv, NEW op \in Operations, NEW g \in Groups, NEW run,
           NEW pad \in {Released, "pressed"}, NEW count, TrySubmit(op, g, run, pad, count)
    PROVE  IInv'
<1> DEFINE policy == SubmitPolicy(op) needed == ReportsFor(op)
           kept == Kept(policy, reports, Capacity, needed)
           done == Materialise(farm, op, g, run, pad, count)
<1>1. /\ inbox \in Seq(Reports) /\ reports \in Seq(Reports)
      /\ Good(farm, inbox \o reports) /\ inbox' = inbox
      /\ needed \in Nat /\ Capacity \in Nat /\ Len(reports) \in Nat
      /\ farm.lanes \in Nat /\ farm.lanes >= 1
      /\ Len(reports) <= Capacity + (2 * farm.lanes - 1)
  <2>1. /\ inbox \in Seq(Reports) /\ reports \in Seq(Reports)
        /\ Good(farm, inbox \o reports) /\ inbox' = inbox
        /\ Len(reports) <= Capacity + (2 * farm.lanes - 1)
    BY DEF IInv, Waiting, TrySubmit, OverrunBounded
  <2>2. needed \in Nat /\ Capacity \in Nat
    BY ServiceAssumption DEF ReportsFor
  <2>3. farm.lanes \in Nat /\ farm.lanes >= 1
    BY <2>1 DEF Good, Farms
  <2>4. Len(reports) \in Nat
    BY <2>1, LenProperties
  <2> QED
    BY <2>1, <2>2, <2>3, <2>4
<1>2. \/ /\ Fits(kept, Capacity, needed)
         /\ farm' = done.farm /\ reports' = kept \o done.out
      \/ reports' = kept /\ farm' = farm
  BY DEF TrySubmit, Admission, Executes
<1>3. PICK d : Without(kept, reports, d)
  BY <1>1, KeptWithout
<1> HIDE DEF kept
<1>4. /\ kept \in Seq(Reports) /\ Len(kept) \in Nat /\ Len(kept) <= Len(reports)
      /\ Good(farm, inbox \o kept)
  <2>1. d \in 0 .. Len(reports) /\ kept \in Seq(Reports) /\ Len(kept) = Len(reports) - d
    BY <1>3 DEF Without
  <2>2. Good(farm, inbox \o kept)
    BY <1>1, <1>3, <2>1, ThinnedQueue DEF Without
  <2> QED
    BY <1>1, <2>1, <2>2
<1>5. CASE reports' = kept /\ farm' = farm
  <2>1. Len(reports') <= Capacity + (2 * farm'.lanes - 1)
    BY <1>1, <1>4, <1>5
  <2> QED
    BY <1>1, <1>4, <1>5, <2>1 DEF IInv, Waiting, OverrunBounded
<1>6. CASE /\ Fits(kept, Capacity, needed)
           /\ farm' = done.farm /\ reports' = kept \o done.out
  <2>1. PICK w \in Seq(Reports) : w = inbox \o kept /\ Good(farm, w)
    BY <1>4 DEF Good
  <2>2. Works(w, farm, done, needed + (2 * farm.lanes - 1))
    BY <2>1, MaterialiseWorks
  <2> HIDE DEF done
  <2>3. PICK out \in Seq(Reports) : out = done.out
    BY <2>2 DEF Works
  <2>4. /\ Len(out) \in Nat /\ Len(out) <= needed + (2 * farm.lanes - 1)
        /\ farm'.lanes = farm.lanes /\ Good(farm', w \o out) /\ reports' = kept \o out
    BY <1>6, <2>2, <2>3, LenProperties DEF Works
  <2>5. kept \o out \in Seq(Reports) /\ Len(kept \o out) = Len(kept) + Len(out)
    BY <1>4, Joined
  <2>6. (inbox \o kept) \o out = inbox \o (kept \o out)
    <3>1. ASSUME NEW a \in Seq(Reports), NEW b \in Seq(Reports), NEW c \in Seq(Reports)
          PROVE  (a \o b) \o c = a \o (b \o c)
      BY ConcatAssociative
    <3> QED
      BY <1>1, <1>4, <2>3, <3>1, Zenon
  <2>7. Good(farm', Waiting')
    BY <1>1, <2>1, <2>4, <2>6 DEF Waiting
  <2>8. Len(kept) + needed <= Capacity
    BY <1>6 DEF Fits
  <2>9. Len(reports') <= Capacity + (2 * farm'.lanes - 1)
    <3> HIDE DEF needed
    <3>1. Len(reports') = Len(kept) + Len(out)
      BY <2>4, <2>5
    <3>2. farm'.lanes = farm.lanes
      BY <2>4
    <3> QED
      BY <1>1, <1>4, <2>4, <2>8, <3>1, <3>2
  <2> QED
    BY <1>1, <2>4, <2>5, <2>7, <2>9 DEF IInv, OverrunBounded
<1> QED
  BY <1>2, <1>5, <1>6

\* The d first members of q and the others.
Cut(q, d, s, t) ==
    /\ d \in 0 .. Len(q)
    /\ Len(s) = d /\ \A i \in 1 .. d : s[i] = q[i]
    /\ Len(t) = Len(q) - d /\ \A i \in 1 .. Len(q) - d : t[i] = q[d + i]

LEMMA CutInTwo ==
    ASSUME NEW q \in Seq(Reports), NEW d, NEW s \in Seq(Reports), NEW t \in Seq(Reports),
           Cut(q, d, s, t)
    PROVE  s \o t = q
<1>1. PICK u \in Seq(Reports) : u = s \o t
  BY Joined
<1>2. /\ Len(u) = Len(s) + Len(t) /\ Len(q) \in Nat
      /\ \A i \in 1 .. Len(s) + Len(t) : u[i] = IF i <= Len(s) THEN s[i] ELSE t[i - Len(s)]
  BY <1>1, Joined, LenProperties
<1>3. Len(u) = Len(q)
  BY <1>2 DEF Cut
<1>4. ASSUME NEW i \in 1 .. Len(q) PROVE u[i] = q[i]
  <2>1. u[i] = IF i <= d THEN s[i] ELSE t[i - d]
    BY <1>2, <1>3 DEF Cut
  <2>2. i <= d => i \in 1 .. d /\ s[i] = q[i]
    BY <1>2 DEF Cut
  <2>3. ~(i <= d) => i - d \in 1 .. Len(q) - d /\ d + (i - d) = i
    BY <1>2 DEF Cut
  <2>4. ~(i <= d) => t[i - d] = q[i]
    BY <2>3 DEF Cut
  <2> QED
    BY <2>1, <2>2, <2>4
<1>5. u = q
  BY <1>3, <1>4, SeqEqual
<1> QED
  BY <1>1, <1>5

LEMMA DrainIInv ==
    ASSUME IInv, Drain
    PROVE  IInv'
<1>1. PICK q \in Seq(Reports) : q = reports /\ inbox = <<>>
  BY DEF IInv, Drain
<1> DEFINE d == Lesser(DrainBudget, Len(q))
<1>2. Len(q) \in Nat /\ d \in 0 .. Len(q)
  BY LenProperties, ServiceAssumption DEF Lesser
<1>3. inbox' = SubSeq(q, 1, d) /\ reports' = SubSeq(q, d + 1, Len(q)) /\ farm' = farm
  BY <1>1 DEF Drain, Drained, Undrained
<1> HIDE DEF d
<1>4. /\ SubSeq(q, d + 1, Len(q)) \in Seq(Reports)
      /\ Len(SubSeq(q, d + 1, Len(q))) = Len(q) - d
      /\ \A i \in 1 .. Len(q) - d : SubSeq(q, d + 1, Len(q))[i] = q[d + i]
  BY <1>2, Shortened
<1>5. /\ SubSeq(q, 1, d) \in Seq(Reports) /\ Len(SubSeq(q, 1, d)) = d
      /\ \A i \in 1 .. d : SubSeq(q, 1, d)[i] = q[i]
  <2>1. /\ Len(q) \in Nat /\ \A i \in 1 .. Len(q) : q[i] \in Reports
        /\ 1 \in 1 .. Len(q) + 1 /\ d \in 0 .. Len(q) /\ d - 1 + 1 = d
    BY <1>2, LenProperties
  <2>2. \A i \in 1 .. d : 1 + i - 1 = i
    BY <1>2
  <2> QED
    BY <2>1, <2>2, SubSeqProperties
<1>6. SubSeq(q, 1, d) \o SubSeq(q, d + 1, Len(q)) = q
  <2>1. PICK s \in Seq(Reports), t \in Seq(Reports) :
          s = SubSeq(q, 1, d) /\ t = SubSeq(q, d + 1, Len(q)) /\ Cut(q, d, s, t)
    BY <1>2, <1>4, <1>5 DEF Cut
  <2>2. Cut(q, d, s, t)
    BY <2>1
  <2>3. s \o t = q
    BY <2>2, CutInTwo
  <2> QED
    BY <2>1, <2>3
<1>7. Waiting' = q /\ Waiting = q
  <2>1. Waiting = <<>> \o q /\ <<>> \o q = q
    BY <1>1, ConcatEmptySeq DEF Waiting
  <2> QED
    BY <1>3, <1>6, <2>1 DEF Waiting
<1>8. Good(farm', Waiting')
  BY <1>3, <1>7 DEF IInv
<1>9. OverrunBounded'
  <2>1. farm.lanes \in Nat /\ Len(q) <= Capacity + (2 * farm.lanes - 1)
    BY <1>1 DEF IInv, OverrunBounded, Good, Farms
  <2>2. Len(reports') = Len(q) - d /\ farm'.lanes = farm.lanes /\ Capacity \in Nat
    BY <1>3, <1>4, ServiceAssumption
  <2> QED
    BY <1>2, <2>1, <2>2 DEF OverrunBounded
<1> QED
  BY <1>3, <1>4, <1>5, <1>8, <1>9 DEF IInv

LEMMA ConsumeIInv ==
    ASSUME IInv, Consume
    PROVE  IInv'
<1>1. PICK a \in Seq(Reports), q \in Seq(Reports) : a = inbox /\ q = reports
  BY DEF IInv
<1>2. /\ a # <<>> /\ inbox' = Tail(a) /\ reports' = q /\ Good(farm, a \o q)
      /\ farm' = farm \/ (IsFrame(Head(a)) /\ Head(a).slot # Inline /\ Fetched(farm, farm'))
  BY <1>1 DEF Consume, IInv, Waiting, IsFrame, Fetched
<1>3. /\ a \o q # <<>> /\ Head(a \o q) = Head(a) /\ Tail(a) \in Seq(Reports)
      /\ Tail(a \o q) = Tail(a) \o q
  <2>1. /\ Tail(a) \in Seq(Reports) /\ Head(a) \in Reports /\ Head(a) = a[1]
        /\ Len(Tail(a)) = Len(a) - 1 /\ Len(a) \in Nat /\ Len(a) # 0 /\ Len(q) \in Nat
        /\ \A i \in 1 .. Len(Tail(a)) : Tail(a)[i] = a[i + 1]
    BY <1>2, HeadTailProperties, LenProperties, EmptySeq
  <2>2. PICK w \in Seq(Reports) : w = a \o q
    BY Joined
  <2>3. /\ Len(w) = Len(a) + Len(q)
        /\ \A i \in 1 .. Len(a) + Len(q) : w[i] = IF i <= Len(a) THEN a[i] ELSE q[i - Len(a)]
    BY <2>2, Joined
  <2>4. w # <<>> /\ w[1] = a[1]
    BY <2>1, <2>3, EmptySeq
  <2>5. PICK b \in Seq(Reports) : b = Tail(a)
    BY <2>1
  <2>6. PICK v \in Seq(Reports) : v = b \o q
    BY Joined
  <2>7. /\ Len(v) = Len(b) + Len(q)
        /\ \A i \in 1 .. Len(b) + Len(q) : v[i] = IF i <= Len(b) THEN b[i] ELSE q[i - Len(b)]
    BY <2>6, Joined
  <2>8. PICK t \in Seq(Reports) : t = Tail(w)
    BY <2>4, HeadTailProperties
  <2>9. /\ Len(t) = Len(w) - 1 /\ \A i \in 1 .. Len(t) : t[i] = w[i + 1]
        /\ Head(w) = w[1]
    BY <2>4, <2>8, HeadTailProperties
  <2>10. Len(v) = Len(t) /\ Len(b) = Len(a) - 1 /\ Len(v) = Len(a) + Len(q) - 1
    BY <2>1, <2>3, <2>5, <2>7, <2>9
  <2>11. ASSUME NEW i \in 1 .. Len(v) PROVE v[i] = t[i]
    <3>1. t[i] = IF i + 1 <= Len(a) THEN a[i + 1] ELSE q[(i + 1) - Len(a)]
      BY <2>1, <2>3, <2>9, <2>10
    <3>2. v[i] = IF i <= Len(b) THEN b[i] ELSE q[i - Len(b)]
      BY <2>1, <2>7, <2>10
    <3>3. i <= Len(b) <=> i + 1 <= Len(a)
      BY <2>1, <2>10
    <3>4. i <= Len(b) => b[i] = a[i + 1]
      BY <2>1, <2>5, <2>10
    <3>5. i - Len(b) = (i + 1) - Len(a)
      BY <2>1, <2>10
    <3>6. CASE i <= Len(b)
      BY <3>1, <3>2, <3>3, <3>4, <3>6, Zenon
    <3>7. CASE ~(i <= Len(b))
      <4>1. v[i] = q[i - Len(b)] /\ t[i] = q[(i + 1) - Len(a)]
        BY <3>1, <3>2, <3>3, <3>7, Zenon
      <4> QED
        BY <3>5, <4>1, Zenon
    <3> QED
      BY <3>6, <3>7
  <2>12. v = t
    BY <2>10, <2>11, SeqEqual
  <2> QED
    BY <2>1, <2>2, <2>4, <2>5, <2>6, <2>8, <2>9, <2>12
<1>4. Good(farm', Tail(a) \o q) /\ farm'.lanes = farm.lanes
  <2>1. PICK w : w = a \o q /\ w # <<>> /\ Head(w) = Head(a) /\ Tail(w) = Tail(a) \o q
    BY <1>3
  <2>2. Good(farm, w)
    BY <1>2, <2>1
  <2>3. \/ farm' = farm
        \/ IsFrame(Head(w)) /\ Head(w).slot # Inline /\ Fetched(farm, farm')
    BY <1>2, <2>1
  <2>4. Good(farm', Tail(w)) /\ farm'.lanes = farm.lanes
    BY <2>1, <2>2, <2>3, FetchGood
  <2> QED
    BY <2>1, <2>4
<1>5. OverrunBounded'
  BY <1>1, <1>2, <1>4 DEF IInv, OverrunBounded
<1> QED
  BY <1>2, <1>3, <1>4, <1>5 DEF IInv, Waiting

THEOREM NextIInv == IInv /\ [Next]_vars => IInv'
<1> SUFFICES ASSUME IInv, [Next]_vars PROVE IInv'
  OBVIOUS
<1>1. CASE Submit
  <2>1. PICK op \in Commands, g \in Groups :
          \E run \in IF op \in {"TickDisplay", "TickExploration", "StepFrame"}
                     THEN CoreRuns ELSE {"prompt"},
             pad \in IF op = "SetInputs" THEN {Released, "pressed"} ELSE {Released},
             count \in IF op = "StepInstruction" THEN {0, 1} ELSE {1} :
            TrySubmit(op, g, run, pad, count)
    BY <1>1 DEF Submit
  <2>2. PICK run \in IF op \in {"TickDisplay", "TickExploration", "StepFrame"}
                     THEN CoreRuns ELSE {"prompt"},
             pad \in IF op = "SetInputs" THEN {Released, "pressed"} ELSE {Released},
             count \in IF op = "StepInstruction" THEN {0, 1} ELSE {1} :
            TrySubmit(op, g, run, pad, count)
    BY <2>1
  <2>3. op \in Operations /\ pad \in {Released, "pressed"}
    BY ServiceAssumption
  <2> QED
    BY <2>2, <2>3, SubmitIInv
<1>2. CASE Drain
  BY <1>2, DrainIInv
<1>3. CASE Consume
  BY <1>3, ConsumeIInv
<1>4. CASE UNCHANGED vars
  BY <1>4 DEF vars, IInv, Waiting, OverrunBounded
<1> QED
  BY <1>1, <1>2, <1>3, <1>4 DEF Next

(* ---------------------------- the theorems ----------------------------- *)

LEMMA IInvFacts == IInv => Promised(farm, Waiting) /\ FramesInOrder /\ BootFollowsFrames
<1> SUFFICES ASSUME IInv PROVE FramesInOrder /\ BootFollowsFrames
  BY DEF IInv, Good
<1>1. PICK w \in Seq(Reports) : w = Waiting /\ Ordered(w)
  BY DEF IInv, Good
<1>2. DOMAIN w = 1 .. Len(w)
  BY LenProperties
<1>3. FramesInOrder
  BY <1>1, <1>2 DEF FramesInOrder, Ordered, Ahead
<1>4. BootFollowsFrames
  BY DEF IInv, Good, InTime, BootFollowsFrames
<1> QED
  BY <1>3, <1>4

(* A picture somebody was promised and has not fetched is still in its     *)
(* slot, and comes off the ready ring in the order of the reports: the     *)
(* sink (frame.rs, pool.rs) never writes over it, whatever the queue       *)
(* coalesces away.                                                         *)
THEOREM PromisesKept == Spec => []SpansPublished
<1>1. Init => IInv
  BY InitIInv
<1>2. IInv /\ [Next]_vars => IInv'
  BY NextIInv
<1>3. IInv => SpansPublished
  BY IInvFacts DEF SpansPublished
<1> QED
  BY <1>1, <1>2, <1>3, PTL DEF Spec

(* Frames of a group reach the interface by game and then by number, each  *)
(* number once (bump_frame_id, load_rom, terminate).                       *)
THEOREM FramesStayInOrder == Spec => []FramesInOrder
<1>1. Init => IInv
  BY InitIInv
<1>2. IInv /\ [Next]_vars => IInv'
  BY NextIInv
<1>3. IInv => FramesInOrder
  BY IInvFacts
<1> QED
  BY <1>1, <1>2, <1>3, PTL DEF Spec

(* The frame number says where the boot animation is, whatever its length  *)
(* and whatever commands come between its frames (publish_lane_frames).    *)
THEOREM BootKeepsTime == Spec => []BootFollowsFrames
<1>1. Init => IInv
  BY InitIInv
<1>2. IInv /\ [Next]_vars => IInv'
  BY NextIInv
<1>3. IInv => BootFollowsFrames
  BY IInvFacts
<1> QED
  BY <1>1, <1>2, <1>3, PTL DEF Spec

(* The queue outgrows its capacity by less than two frames of every lane:  *)
(* what a tick yields beyond the estimate it was admitted with.            *)
THEOREM QueueOverrun == Spec => []OverrunBounded
<1>1. Init => IInv
  BY InitIInv
<1>2. IInv /\ [Next]_vars => IInv'
  BY NextIInv
<1>3. IInv => OverrunBounded
  BY DEF IInv
<1> QED
  BY <1>1, <1>2, <1>3, PTL DEF Spec
==============================================================================
