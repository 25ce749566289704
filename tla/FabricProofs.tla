----------------------------- MODULE FabricProofs -----------------------------
(***************************************************************************)
(* What is proved of the browser application (FabricApp) on top of the     *)
(* order of its intents (AppProofs), for all sizes with RoomAssumption:    *)
(* the slots of the frame pool stay accounted for, each tick shows the     *)
(* page a frame of the lane on display, and the pumps stay bounded.        *)
(*                                                                         *)
(* None of the three is inductive. They rest on Course, the rounds of      *)
(* gbx_tick: what may wait in which queue while who runs, and how much, so *)
(* that no drain leaves anything behind. Slots adds that a tick fills its  *)
(* slots first, Display that the frame comes before the end of its tick,   *)
(* Pumping that each run of the scheduler takes off as many pumps as a     *)
(* call of gbx_tick and its ticks add.                                     *)
(***************************************************************************)
EXTENDS FabricApp, SequenceTheorems, FiniteSetTheorems, TLAPS

(* ------------------------ the browser's reports ------------------------ *)

Reps == [kind : {"LaneFrame"}, lane : Nat, id : {1}, slot : BOOLEAN]
        \cup [kind : {"TickDone", "RomLoaded", "FrameShown"}]

Loads == [op : {"LoadRom"}, from : {"Front"}, nr : Nat]

(* ---------------------------- the course ------------------------------- *)

(* gbx_tick is a round: the page, the scheduler, the worker until it idles, *)
(* and so on. Between the drives of the worker nothing waits in it, and a  *)
(* drive begins with an empty reply ring, since the scheduler drains it.   *)

Typed ==
    /\ queues \in [Priorities -> Seq(Intents)]
    /\ queues["P0"] \in Seq(Loads) /\ queues["P1"] \in Seq({Pump}) /\ queues["P2"] = <<>>
    /\ asked \in [Origins -> Nat] /\ budget \in 0 .. IntentBudget
    /\ world \in [paused : BOOLEAN, lane : {0}, romEvents : Nat, shown : Nat]
    /\ wire \in [lossless : Seq({"LoadRom"}), mail : BOOLEAN, replies : Seq(Reps),
                 uploads : Nat, shown : Nat]
    /\ poll \in [stage : {"commands", "reports"}, outbox : Seq(Reps), work : Nat]
    /\ pool \in [free : Nat, ready : Nat]
    /\ kernel \in Seq(Reps) /\ returned \in Seq(Reps) /\ batch \in Seq(Reps)
    /\ attempt \in Nat
    /\ turn \in {"page", "scheduler", "ran", "worker", "fetch"}
    /\ phase \in {"idle", "intents", "reports"}

Rounds ==
    /\ turn # "scheduler" => phase = "idle"
    /\ phase # "reports" => batch = <<>>
    /\ turn # "worker" => kernel = <<>> /\ poll.outbox = <<>> /\ poll.stage = "commands"
    /\ turn \in {"page", "fetch"} => ~HasCommand
    /\ turn = "scheduler" /\ phase = "idle" => ~HasCommand
    /\ turn = "scheduler" /\ phase = "reports" => wire.replies = <<>>
    /\ turn = "ran" => wire.replies = <<>>
    /\ turn = "page" => returned = <<>>
    /\ turn = "scheduler" /\ phase # "reports" => returned = <<>>
    /\ turn = "scheduler" => attempt <= MaxAttempts
    /\ turn = "worker" /\ attempt <= MaxAttempts => returned = <<>>
    /\ turn = "worker" => attempt # MaxAttempts

(* One drive: the commands first, then their reports, once.                *)
Drive ==
    turn = "worker" =>
      /\ poll.stage = "commands" => poll.outbox = <<>>
      /\ poll.stage = "reports" => ~HasCommand /\ kernel = <<>>
      /\ HasCommand => \A i \in DOMAIN kernel : kernel[i].kind = "RomLoaded"
      /\ HasCommand \/ kernel # <<>> => wire.replies = <<>>

Room(held) ==
    /\ Len(wire.lossless) <= held
    /\ Len(wire.replies) + Len(poll.outbox) <= Most(held)
    /\ turn = "worker" =>
         Len(kernel) + Len(wire.lossless) + (IF wire.mail THEN 2 * Lanes + 1 ELSE 0) <= Most(held)

Course(held) == Typed /\ Rounds /\ Drive /\ Room(held)

(* ------------------------------ the slots ------------------------------ *)

(* A tick fills the slots first, so what announces one is published before *)
(* the frames that may fill the reply ring.                                *)
SlotsFirst(reps) ==
    \A i, j \in DOMAIN reps : i < j /\ InSlot(reps[j]) => ~Inline(reps[i])

Slots ==
    /\ SlotsFirst(kernel) /\ SlotsFirst(poll.outbox)
    /\ (\E i \in DOMAIN wire.replies : Inline(wire.replies[i]))
         => \A j \in DOMAIN poll.outbox : ~InSlot(poll.outbox[j])
    /\ SlotsAccounted

(* ----------------------------- the display ----------------------------- *)

IsFrame(r) == r.kind = "LaneFrame"
IsDone(r) == r.kind = "TickDone"
Shown(r) == IsFrame(r) /\ r.lane = 0

HasDone(reps) == \E i \in DOMAIN reps : IsDone(reps[i])
HasShown(reps) == \E i \in DOMAIN reps : Shown(reps[i])
DoneLast(reps) == \A i \in DOMAIN reps : IsDone(reps[i]) => i = Len(reps)

(* The first frame is one of the lane on display.                          *)
OpensWith(reps) ==
    \E i \in DOMAIN reps :
      Shown(reps[i]) /\ \A k \in DOMAIN reps : k < i => ~IsFrame(reps[k])

Display ==
    /\ DoneLast(kernel) /\ DoneLast(poll.outbox) /\ DoneLast(wire.replies)
    /\ HasDone(kernel) => OpensWith(kernel)
    /\ HasDone(poll.outbox) =>
         /\ ~HasDone(wire.replies)
         /\ \/ HasShown(wire.replies)
            \/ /\ OpensWith(poll.outbox)
               /\ \A i \in DOMAIN wire.replies : ~IsFrame(wire.replies[i])
    /\ HasDone(wire.replies) => HasShown(wire.replies) /\ poll.outbox = <<>>
    /\ turn = "ran" \/ (turn = "scheduler" /\ phase = "reports") => Reported(0)

(* ------------------------------ the pumps ------------------------------ *)

One(c) == IF c THEN 1 ELSE 0

DoneOnce(reps) == \A i, j \in DOMAIN reps : IsDone(reps[i]) /\ IsDone(reps[j]) => i = j

(* The ticks on their way to the end that the world will see.               *)
Coming ==
    One(wire.mail) + One(HasDone(kernel)) + One(HasDone(poll.outbox))
    + One(HasDone(wire.replies)) + One(HasDone(batch))

(* The pumps that wait, those that a tick on its way will ask for, and for *)
(* each load that waits the pumps it may hold up.                          *)
Pressure ==
    Len(queues["P1"]) + (IntentBudget - 1) * Len(queues["P0"])
    + (IF AutoPump THEN Coming ELSE 0)

Limit == IntentBudget * (1 + asked["Front"])

(* gbx_tick adds a pump, or two if the world adds none; each run of the    *)
(* scheduler takes that off again.                                         *)
Added == IF AutoPump THEN 1 ELSE 2

Pumping ==
    /\ DoneOnce(batch)
    /\ Pressure <= Limit
    /\ turn = "ran" \/ (turn = "scheduler" /\ phase = "reports")
         => Pressure + Added <= Limit
    /\ turn \in {"page", "fetch", "worker"} => Pressure + 1 <= Limit
    /\ turn = "scheduler" /\ phase = "intents" =>
         IF wire.lossless # <<>>
         THEN Pressure + (IntentBudget - 1) <= Limit
         ELSE /\ Pressure + (IntentBudget - budget)
                  <= Limit + One(AutoPump /\ wire.mail)
              /\ budget = IntentBudget \/ queues["P0"] = <<>>
              /\ wire.mail = (budget # IntentBudget)

(* --------------------- reports in a slot, counted ----------------------- *)

LEMMA AnnouncedCount ==
    ASSUME NEW s \in Seq(Reps)
    PROVE  /\ IsFiniteSet({i \in DOMAIN s : InSlot(s[i])}) /\ Announced(s) \in Nat
           /\ IsFiniteSet(Carried(s)) /\ Cardinality(Carried(s)) \in Nat
<1>1. Len(s) \in Nat /\ DOMAIN s = 1 .. Len(s)
  BY LenProperties
<1>2. IsFiniteSet(1 .. Len(s))
  BY <1>1, FS_Interval
<1>3. \A T \in SUBSET (1 .. Len(s)) : IsFiniteSet(T) /\ Cardinality(T) \in Nat
  BY <1>2, FS_Subset, FS_CardinalityType
<1> QED
  BY <1>1, <1>3 DEF Announced, Carried

(* None where no report announces a slot.                                  *)
LEMMA AnnouncedNone ==
    ASSUME NEW s, \A i \in DOMAIN s : ~InSlot(s[i])
    PROVE  Announced(s) = 0
<1>1. {i \in DOMAIN s : InSlot(s[i])} = {}
  OBVIOUS
<1> QED
  BY <1>1, FS_EmptySet DEF Announced

(* Those of two sequences, one behind the other.                           *)
LEMMA AnnouncedConcat ==
    ASSUME NEW s \in Seq(Reps), NEW t \in Seq(Reps), NEW u \in Seq(Reps),
           Len(u) = Len(s) + Len(t),
           \A i \in 1 .. Len(s) : u[i] = s[i],
           \A i \in 1 .. Len(t) : u[i + Len(s)] = t[i]
    PROVE  Announced(u) = Announced(s) + Announced(t)
<1> DEFINE A == {i \in DOMAIN s : InSlot(s[i])}
           B == {i \in DOMAIN t : InSlot(t[i])}
           C == {i \in DOMAIN u : InSlot(u[i])}
           f == [i \in B |-> i + Len(s)]
           D == {i + Len(s) : i \in B}
<1>1. /\ Len(s) \in Nat /\ DOMAIN s = 1 .. Len(s) /\ Len(t) \in Nat /\ DOMAIN t = 1 .. Len(t)
      /\ DOMAIN u = 1 .. Len(u)
  BY LenProperties
<1>2. IsFiniteSet(A) /\ IsFiniteSet(B)
  BY AnnouncedCount
<1>3. f \in Bijection(B, D)
  <2>1. f \in [B -> D]
    OBVIOUS
  <2>2. \A i, j \in B : f[i] = f[j] => i = j
    BY <1>1
  <2>3. \A d \in D : \E i \in B : f[i] = d
    OBVIOUS
  <2> HIDE DEF f, B, D
  <2>4. f \in Injection(B, D)
    BY <2>1, <2>2 DEF Injection, IsInjective
  <2>5. f \in Surjection(B, D)
    BY <2>1, <2>3 DEF Surjection
  <2> QED
    BY <2>4, <2>5 DEF Bijection
<1>4. IsFiniteSet(D) /\ Cardinality(D) = Cardinality(B)
  <2> HIDE DEF f, B, D
  <2>1. ExistsBijection(B, D)
    BY <1>3 DEF ExistsBijection
  <2> QED
    BY <1>2, <2>1, FS_Bijection
<1>5. A \cap D = {}
  BY <1>1
<1>6. C = A \cup D
  <2>1. ASSUME NEW c \in C PROVE c \in A \cup D
    <3>1. CASE c <= Len(s)
      BY <1>1, <2>1, <3>1
    <3>2. CASE c > Len(s)
      <4>1. c - Len(s) \in 1 .. Len(t) /\ c = (c - Len(s)) + Len(s)
        BY <1>1, <3>2
      <4>2. u[c] = t[c - Len(s)]
        BY <4>1
      <4>3. c - Len(s) \in B
        BY <1>1, <2>1, <4>1, <4>2
      <4> QED
        BY <4>1, <4>3
    <3> QED
      BY <1>1, <3>1, <3>2
  <2>2. ASSUME NEW c \in A PROVE c \in C
    BY <1>1, <2>2
  <2>3. ASSUME NEW c \in B PROVE c + Len(s) \in C
    <3>1. c \in 1 .. Len(t) /\ u[c + Len(s)] = t[c]
      BY <1>1, <2>3
    <3>2. c + Len(s) \in DOMAIN u
      BY <1>1, <3>1
    <3>3. InSlot(t[c])
      BY <2>3
    <3> HIDE DEF A, B, D
    <3> QED
      BY <3>1, <3>2, <3>3
  <2> QED
    BY <2>1, <2>2, <2>3
<1>7. Cardinality(A \cap D) = 0 /\ Cardinality(A) \in Nat /\ Cardinality(B) \in Nat
  <2> HIDE DEF A, B, D
  <2> QED
    BY <1>2, <1>5, FS_EmptySet, FS_CardinalityType
<1>8. Cardinality(C) = Cardinality(A) + Cardinality(B)
  <2> HIDE DEF A, B, C, D
  <2>1. Cardinality(A \cup D) = Cardinality(A) + Cardinality(D) - Cardinality(A \cap D)
    BY <1>2, <1>4, FS_Union
  <2> QED
    BY <1>4, <1>6, <1>7, <2>1
<1> QED
  BY <1>8 DEF Announced

LEMMA AnnouncedJoin ==
    ASSUME NEW s \in Seq(Reps), NEW t \in Seq(Reps)
    PROVE  s \o t \in Seq(Reps) /\ Announced(s \o t) = Announced(s) + Announced(t)
<1>1. PICK u \in Seq(Reps) : u = s \o t
  BY ConcatProperties
<1>2. /\ Len(u) = Len(s) + Len(t)
      /\ \A i \in 1 .. Len(s) + Len(t) : u[i] = IF i <= Len(s) THEN s[i] ELSE t[i - Len(s)]
  BY <1>1, ConcatProperties
<1>3. Len(s) \in Nat /\ Len(t) \in Nat
  BY LenProperties
<1>4. /\ \A i \in 1 .. Len(s) : u[i] = s[i]
      /\ \A i \in 1 .. Len(t) : u[i + Len(s)] = t[i]
  <2>1. \A i \in 1 .. Len(t) : (i + Len(s)) - Len(s) = i /\ ~(i + Len(s) <= Len(s))
                               /\ i + Len(s) \in 1 .. Len(s) + Len(t)
    BY <1>3
  <2> QED
    BY <1>2, <1>3, <2>1
<1>5. Announced(u) = Announced(s) + Announced(t)
  BY <1>2, <1>4, AnnouncedConcat
<1> QED
  BY <1>1, <1>5, Zenon

LEMMA AnnouncedOne ==
    ASSUME NEW r \in Reps
    PROVE  << r >> \in Seq(Reps) /\ Announced(<< r >>) = IF InSlot(r) THEN 1 ELSE 0
<1>1. PICK s : s = << r >>
  OBVIOUS
<1>5. s \in Seq(Reps)
  BY <1>1
<1>2. DOMAIN s = {1} /\ s[1] = r
  BY <1>1
<1>3. CASE InSlot(r)
  <2>1. {i \in DOMAIN s : InSlot(s[i])} = {1}
    BY <1>2, <1>3
  <2> QED
    BY <1>1, <1>3, <1>5, <2>1, FS_Singleton DEF Announced
<1>4. CASE ~InSlot(r)
  <2>1. Announced(s) = 0
    BY <1>2, <1>4, AnnouncedNone
  <2> QED
    BY <1>1, <1>4, <1>5, <2>1
<1> QED
  BY <1>3, <1>4

LEMMA AnnouncedAppend ==
    ASSUME NEW s \in Seq(Reps), NEW r \in Reps
    PROVE  /\ Append(s, r) \in Seq(Reps)
           /\ Announced(Append(s, r)) = Announced(s) + IF InSlot(r) THEN 1 ELSE 0
<1>1. PICK u \in Seq(Reps) : u = Append(s, r)
  BY AppendProperties
<1>2. Len(u) = Len(s) + 1 /\ u[Len(s) + 1] = r /\ \A i \in 1 .. Len(s) : u[i] = s[i]
  BY <1>1, AppendProperties
<1>3. PICK t \in Seq(Reps) : t = << r >>
  BY AnnouncedOne
<1>4. Len(t) = 1 /\ t[1] = r
  BY <1>3
<1>5. Len(s) \in Nat
  BY LenProperties
<1>6. Announced(u) = Announced(s) + Announced(t)
  <2>1. \A i \in 1 .. Len(t) : u[i + Len(s)] = t[i]
    BY <1>2, <1>4, <1>5
  <2> QED
    <3>1. Len(u) = Len(s) + Len(t)
      BY <1>2, <1>4
    <3>2. \A i \in 1 .. Len(s) : u[i] = s[i]
      BY <1>2
    <3> QED
      BY <2>1, <3>1, <3>2, AnnouncedConcat
<1> QED
  BY <1>1, <1>3, <1>6, AnnouncedOne

LEMMA AnnouncedTail ==
    ASSUME NEW s \in Seq(Reps), s # <<>>
    PROVE  /\ Tail(s) \in Seq(Reps) /\ Head(s) \in Reps /\ Head(s) = s[1]
           /\ Len(s) = Len(Tail(s)) + 1
           /\ \A i \in 1 .. Len(Tail(s)) : Tail(s)[i] = s[i + 1]
           /\ Announced(s) = (IF InSlot(Head(s)) THEN 1 ELSE 0) + Announced(Tail(s))
<1>1. PICK t \in Seq(Reps) : t = Tail(s)
  BY HeadTailProperties
<1>2. Head(s) \in Reps /\ Len(t) = Len(s) - 1 /\ \A i \in 1 .. Len(t) : t[i] = s[i + 1]
  BY <1>1, HeadTailProperties
<1>3. Len(s) \in Nat \ {0} /\ Head(s) = s[1]
  BY EmptySeq
<1>4. PICK h \in Seq(Reps) : h = << Head(s) >>
  BY <1>2, AnnouncedOne
<1>5. Len(h) = 1 /\ h[1] = s[1]
  BY <1>3, <1>4
<1>6. Len(t) \in Nat /\ Len(s) = Len(h) + Len(t)
  BY <1>2, <1>3, <1>5
<1>7. Announced(s) = Announced(h) + Announced(t)
  <2>1. \A i \in 1 .. Len(h) : s[i] = h[i]
    BY <1>5
  <2>2. \A i \in 1 .. Len(t) : s[i + 1] = t[i]
    BY <1>2
  <2> QED
    <3>1. \A i \in 1 .. Len(t) : s[i + Len(h)] = t[i]
      BY <1>5, <2>2
    <3> QED
      BY <1>6, <2>1, <3>1, AnnouncedConcat
<1> QED
  BY <1>1, <1>2, <1>3, <1>4, <1>5, <1>6, <1>7, AnnouncedOne

(* --------------------------- steps on sequences ------------------------- *)

LEMMA Appended ==
    ASSUME NEW S, NEW s \in Seq(S), NEW x \in S
    PROVE  Append(s, x) \in Seq(S) /\ Len(Append(s, x)) = Len(s) + 1
BY AppendProperties

LEMMA Fronted ==
    ASSUME NEW S, NEW s \in Seq(S), NEW x \in S
    PROVE  << x >> \o s \in Seq(S) /\ Len(<< x >> \o s) = Len(s) + 1
<1>1. PICK t : t = << x >>
  OBVIOUS
<1>2. t \in Seq(S) /\ Len(t) = 1
  BY <1>1
<1>3. t \o s \in Seq(S) /\ Len(t \o s) = 1 + Len(s)
  BY <1>2, ConcatProperties
<1>4. Len(s) \in Nat
  BY LenProperties
<1> QED
  BY <1>1, <1>3, <1>4

LEMMA Popped ==
    ASSUME NEW S, NEW s \in Seq(S), s # <<>>
    PROVE  /\ Tail(s) \in Seq(S) /\ Head(s) \in S /\ Head(s) = s[1]
           /\ Len(Tail(s)) \in Nat /\ Len(s) = Len(Tail(s)) + 1
           /\ \A i \in 1 .. Len(Tail(s)) : Tail(s)[i] = s[i + 1]
<1>1. PICK t \in Seq(S) : t = Tail(s)
  BY HeadTailProperties
<1>2. Head(s) \in S /\ Len(t) = Len(s) - 1 /\ \A i \in 1 .. Len(t) : t[i] = s[i + 1]
  BY <1>1, HeadTailProperties
<1>3. Len(s) \in Nat \ {0} /\ Head(s) = s[1]
  BY EmptySeq
<1> QED
  BY <1>1, <1>2, <1>3

LEMMA EmptyLen ==
    ASSUME NEW S, NEW s \in Seq(S)
    PROVE  Len(s) \in Nat /\ (s = <<>> <=> Len(s) = 0)
BY LenProperties, EmptySeq

(* A drain that takes all.                                                  *)
LEMMA DrainedAll ==
    ASSUME NEW S, NEW s \in Seq(S), NEW max \in Nat, Len(s) <= max
    PROVE  Drained(s, max) = s /\ Undrained(s, max) = <<>>
<1>1. Len(s) \in Nat /\ Lesser(max, Len(s)) = Len(s)
  BY LenProperties DEF Lesser
<1>2. SubSeq(s, 1, Len(s)) = s
  BY <1>1
<1>3. SubSeq(s, Len(s) + 1, Len(s)) = <<>>
  BY <1>1
<1> QED
  BY <1>1, <1>2, <1>3 DEF Drained, Undrained

(* ------------------------------ the intents ----------------------------- *)

LEMMA Asked ==
    /\ Pump \in Intents /\ Loads \subseteq Intents
    /\ NewIntent("PumpFrame", "P1", 0) = Pump /\ (Ask(Pump) <=> asked' = asked)
BY LoopAssumption DEF Pump, Intents, Loads, Origins, Priorities, NewIntent, Ask

LEMMA AskedLoad ==
    ASSUME asked \in [Origins -> Nat]
    PROVE  /\ NewIntent("LoadRom", "Front", 0) \in Loads
           /\ Ask(NewIntent("LoadRom", "Front", 0)) <=> asked' = [asked EXCEPT !["Front"] = @ + 1]
<1>1. "Front" \in Origins
  BY DEF Origins
<1> QED
  BY <1>1, FabricAssumption DEF NewIntent, Ask, Loads

(* What the scheduler takes next: a load, or else a pump.                   *)
LEMMA Intended ==
    ASSUME Typed
    PROVE  /\ HasIntent <=> queues["P0"] # <<>> \/ queues["P1"] # <<>>
           /\ queues["P0"] # <<>> =>
                /\ Top = "P0" /\ NextIntent \in Loads
                /\ CommandOf(NextIntent) = "LoadRom" /\ ReducedIntent(world, NextIntent) = world
           /\ queues["P0"] = <<>> /\ queues["P1"] # <<>> =>
                /\ Top = "P1" /\ NextIntent = Pump
                /\ CommandOf(NextIntent) = "TickDisplay" /\ ReducedIntent(world, NextIntent) = world
<1>1. HasIntent <=> queues["P0"] # <<>> \/ queues["P1"] # <<>>
  BY DEF Typed, HasIntent, Waiting, Priorities
<1>2. ASSUME queues["P0"] # <<>>
      PROVE  /\ Top = "P0" /\ NextIntent \in Loads
             /\ CommandOf(NextIntent) = "LoadRom" /\ ReducedIntent(world, NextIntent) = world
  <2>1. Top = "P0"
    BY <1>2 DEF Top, Waiting
  <2>2. Head(queues["P0"]) \in Loads
    BY <1>2, Popped DEF Typed
  <2> QED
    BY <2>1, <2>2 DEF NextIntent, Waiting, Loads, CommandOf, IsPump, ReducedIntent
<1>3. ASSUME queues["P0"] = <<>>, queues["P1"] # <<>>
      PROVE  /\ Top = "P1" /\ NextIntent = Pump
             /\ CommandOf(NextIntent) = "TickDisplay" /\ ReducedIntent(world, NextIntent) = world
  <2>1. Top = "P1"
    BY <1>3 DEF Top, Waiting
  <2>2. Head(queues["P1"]) \in {Pump}
    BY <1>3, Popped DEF Typed
  <2> QED
    BY <2>1, <2>2 DEF NextIntent, Waiting, Pump, CommandOf, IsPump, ReducedIntent
<1> QED
  BY <1>1, <1>2, <1>3

(* --------------------------- steps of the loop -------------------------- *)

Waits(p0, p1) ==
    /\ queues' \in [Priorities -> Seq(Intents)]
    /\ queues'["P0"] \in Seq(Loads) /\ queues'["P1"] \in Seq({Pump}) /\ queues'["P2"] = <<>>
    /\ Len(queues'["P0"]) = p0 /\ Len(queues'["P1"]) = p1

LEMMA OneMorePump ==
    ASSUME Typed, Enqueue("P1", "PumpFrame", 0)
    PROVE  /\ Waits(Len(queues["P0"]), Len(queues["P1"]) + 1)
           /\ phase = "idle" /\ asked' = asked /\ UNCHANGED <<world, phase, budget, batch, served>>
<1>1. queues' = [queues EXCEPT !["P1"] = Append(@, Pump)] /\ asked' = asked
  BY Asked DEF Enqueue
<1>2. /\ Append(queues["P1"], Pump) \in Seq({Pump}) /\ Append(queues["P1"], Pump) \in Seq(Intents)
      /\ Len(Append(queues["P1"], Pump)) = Len(queues["P1"]) + 1
  <2>1. queues["P1"] \in Seq({Pump}) /\ queues["P1"] \in Seq(Intents) /\ Pump \in {Pump}
    BY DEF Typed, Priorities
  <2> QED
    BY <2>1, Asked, Appended
<1>3. queues' \in [Priorities -> Seq(Intents)]
  BY <1>1, <1>2 DEF Typed
<1>4. queues'["P0"] = queues["P0"] /\ queues'["P1"] = Append(queues["P1"], Pump)
      /\ queues'["P2"] = queues["P2"]
  BY <1>1 DEF Typed, Priorities
<1> QED
  BY <1>1, <1>2, <1>3, <1>4 DEF Typed, Waits, Enqueue

LEMMA LoadAsked ==
    ASSUME Typed, LoadRom
    PROVE  /\ Waits(Len(queues["P0"]) + 1, Len(queues["P1"]) + 1)
           /\ turn = "page" /\ asked' = [asked EXCEPT !["Front"] = @ + 1]
           /\ asked' \in [Origins -> Nat] /\ asked'["Front"] = asked["Front"] + 1
           /\ UNCHANGED <<world, phase, budget, batch, served, fabricVars>>
<1> DEFINE load == NewIntent("LoadRom", "Front", 0)
<1>1. load \in Loads /\ asked' = [asked EXCEPT !["Front"] = @ + 1]
  BY AskedLoad DEF Typed, LoadRom
<1>2. queues' = [[queues EXCEPT !["P0"] = << load >> \o @] EXCEPT !["P1"] = Append(@, Pump)]
  BY DEF LoadRom, Requeued
<1> HIDE DEF load
<1>3. /\ << load >> \o queues["P0"] \in Seq(Loads)
      /\ Len(<< load >> \o queues["P0"]) = Len(queues["P0"]) + 1
  BY <1>1, Fronted DEF Typed
<1>4. << load >> \o queues["P0"] \in Seq(Intents)
  <2>1. load \in Intents /\ queues["P0"] \in Seq(Intents)
    BY <1>1, Asked DEF Typed, Priorities
  <2> QED
    BY <2>1, Fronted
<1>5. /\ Append(queues["P1"], Pump) \in Seq({Pump}) /\ Append(queues["P1"], Pump) \in Seq(Intents)
      /\ Len(Append(queues["P1"], Pump)) = Len(queues["P1"]) + 1
  <2>1. queues["P1"] \in Seq({Pump}) /\ queues["P1"] \in Seq(Intents) /\ Pump \in {Pump}
    BY DEF Typed, Priorities
  <2> QED
    BY <2>1, Asked, Appended
<1>6. PICK q0, q1 : q0 = << load >> \o queues["P0"] /\ q1 = Append(queues["P1"], Pump)
  OBVIOUS
<1>7. queues' = [[queues EXCEPT !["P0"] = q0] EXCEPT !["P1"] = q1]
  BY <1>2, <1>6 DEF Typed, Priorities
<1>8. queues' \in [Priorities -> Seq(Intents)]
  BY <1>4, <1>5, <1>6, <1>7 DEF Typed
<1>9. queues'["P0"] = q0 /\ queues'["P1"] = q1 /\ queues'["P2"] = queues["P2"]
  BY <1>7 DEF Typed, Priorities
<1>10. Waits(Len(queues["P0"]) + 1, Len(queues["P1"]) + 1)
  BY <1>3, <1>5, <1>6, <1>8, <1>9 DEF Typed, Waits
<1>11. "Front" \in Origins
  BY DEF Origins
<1>12. asked' \in [Origins -> Nat] /\ asked'["Front"] = asked["Front"] + 1
  <2>1. asked \in [Origins -> Nat]
    BY DEF Typed
  <2> QED
    BY <1>1, <1>11, <2>1
<1>13. turn = "page" /\ UNCHANGED <<world, phase, budget, batch, served, fabricVars>>
  BY DEF LoadRom
<1> QED
  BY <1>1, <1>10, <1>12, <1>13

(* A load that is refused stays in front of everything.                     *)
Refused ==
    /\ queues["P0"] # <<>> /\ ~RomFits /\ wire' = wire
    /\ Waits(Len(queues["P0"]), Len(queues["P1"]))

Loaded ==
    /\ queues["P0"] # <<>> /\ RomFits
    /\ wire' = [wire EXCEPT !.lossless = Append(@, "LoadRom")]
    /\ Waits(Len(queues["P0"]) - 1, Len(queues["P1"]))

Pumped ==
    /\ queues["P0"] = <<>> /\ queues["P1"] # <<>> /\ wire' = [wire EXCEPT !.mail = TRUE]
    /\ Waits(0, Len(queues["P1"]) - 1)

LEMMA Reduced ==
    ASSUME Typed, Reduce
    PROVE  /\ turn = "scheduler" /\ phase = "intents" /\ budget > 0 /\ budget' = budget - 1
           /\ world' = world /\ UNCHANGED <<phase, batch, asked>>
           /\ UNCHANGED <<turn, attempt, runs, returned, kernel, pool, poll>>
           /\ Refused \/ Loaded \/ Pumped
<1> DEFINE command == CommandOf(NextIntent)
           popped == [queues EXCEPT ![Top] = Tail(@)]
           again == Retry(Sent(command), command)
<1>1. /\ turn = "scheduler" /\ phase = "intents" /\ budget > 0 /\ budget' = budget - 1 /\ HasIntent
      /\ UNCHANGED <<phase, batch, asked>>
      /\ UNCHANGED <<turn, attempt, runs, returned, kernel, pool, poll>>
      /\ world' = ReducedIntent(world, NextIntent)
      /\ queues' = IF again THEN Requeued(popped, NextIntent) ELSE popped
      /\ wire' = WireAfter(command)
  BY DEF Reduce, TakeIntent
<1>2. world' = world
  BY <1>1, Intended
<1>3. CASE queues["P0"] # <<>>
  <2>1. Top = "P0" /\ NextIntent \in Loads /\ command = "LoadRom"
    BY <1>3, Intended
  <2>2. popped = [queues EXCEPT !["P0"] = Tail(queues["P0"])]
    BY <2>1 DEF Typed, Priorities
  <2>3. /\ Tail(queues["P0"]) \in Seq(Loads) /\ Len(Tail(queues["P0"])) = Len(queues["P0"]) - 1
        /\ Tail(queues["P0"]) \in Seq(Intents) /\ Len(queues["P0"]) \in Nat
    <3>1. queues["P0"] \in Seq(Loads) /\ queues["P0"] \in Seq(Intents)
      BY DEF Typed, Priorities
    <3>2. /\ Tail(queues["P0"]) \in Seq(Loads) /\ Len(Tail(queues["P0"])) \in Nat
          /\ Len(queues["P0"]) = Len(Tail(queues["P0"])) + 1
      BY <1>3, <3>1, Popped
    <3>3. Tail(queues["P0"]) \in Seq(Intents)
      BY <1>3, <3>1, Popped
    <3> QED
      BY <3>2, <3>3
  <2>4. PICK t : t = Tail(queues["P0"])
    OBVIOUS
  <2>5. CASE RomFits
    <3>1. ~again /\ wire' = [wire EXCEPT !.lossless = Append(@, "LoadRom")]
      BY <1>1, <2>1, <2>5 DEF Retry, Sent, WireAfter
    <3>2. queues' = [queues EXCEPT !["P0"] = t]
      BY <1>1, <2>2, <2>4, <3>1
    <3>3. queues' \in [Priorities -> Seq(Intents)]
      BY <2>3, <2>4, <3>2 DEF Typed
    <3>4. queues'["P0"] = t /\ queues'["P1"] = queues["P1"] /\ queues'["P2"] = queues["P2"]
      BY <3>2 DEF Typed, Priorities
    <3>5. Loaded
      BY <1>3, <2>3, <2>4, <2>5, <3>1, <3>3, <3>4 DEF Typed, Waits, Loaded
    <3> QED
      BY <1>1, <1>2, <3>5
  <2>6. CASE ~RomFits
    <3>1. again /\ wire' = wire
      BY <1>1, <2>1, <2>6 DEF Retry, Sent, WireAfter, DefaultPolicy
    <3>2. queues' = [popped EXCEPT !["P0"] = << NextIntent >> \o @]
      BY <1>1, <3>1 DEF Requeued
    <3>3. popped["P0"] = t /\ popped \in [Priorities -> Seq(Intents)]
      BY <2>2, <2>3, <2>4 DEF Typed, Priorities
    <3>4. PICK u : u = << NextIntent >> \o t
      OBVIOUS
    <3>5. u \in Seq(Loads) /\ Len(u) = Len(queues["P0"])
      BY <2>1, <2>3, <2>4, <3>4, Fronted
    <3>6. u \in Seq(Intents)
      BY <2>1, <2>3, <2>4, <3>4, Fronted, Asked
    <3>7. queues' = [queues EXCEPT !["P0"] = u]
      BY <2>2, <3>2, <3>3, <3>4 DEF Typed, Priorities
    <3>8. queues' \in [Priorities -> Seq(Intents)]
      BY <3>6, <3>7 DEF Typed
    <3>9. queues'["P0"] = u /\ queues'["P1"] = queues["P1"] /\ queues'["P2"] = queues["P2"]
      BY <3>7 DEF Typed, Priorities
    <3>10. Refused
      BY <1>3, <2>6, <3>1, <3>5, <3>8, <3>9 DEF Typed, Waits, Refused
    <3> QED
      BY <1>1, <1>2, <3>10
  <2> QED
    BY <2>5, <2>6
<1>4. CASE queues["P0"] = <<>>
  <2>1. queues["P1"] # <<>> /\ Top = "P1" /\ command = "TickDisplay"
    BY <1>1, <1>4, Intended
  <2>2. ~again /\ wire' = [wire EXCEPT !.mail = TRUE]
    BY <1>1, <2>1 DEF Retry, Sent, WireAfter
  <2>3. PICK t : t = Tail(queues["P1"])
    OBVIOUS
  <2>4. queues' = [queues EXCEPT !["P1"] = t]
    BY <1>1, <2>1, <2>2, <2>3 DEF Typed, Priorities
  <2>5. t \in Seq({Pump}) /\ Len(t) \in Nat /\ Len(queues["P1"]) = Len(t) + 1
    BY <2>1, <2>3, Popped DEF Typed
  <2>6. t \in Seq(Intents)
    <3>1. queues["P1"] \in Seq(Intents)
      BY DEF Typed, Priorities
    <3> QED
      BY <2>1, <2>3, <3>1, Popped
  <2>7. queues' \in [Priorities -> Seq(Intents)]
    BY <2>4, <2>6 DEF Typed
  <2>8. queues'["P0"] = <<>> /\ queues'["P1"] = t /\ queues'["P2"] = queues["P2"]
    BY <1>4, <2>4 DEF Typed, Priorities
  <2>9. Pumped
    BY <1>4, <2>1, <2>2, <2>5, <2>7, <2>8, Len(<<>>) = 0 DEF Typed, Waits, Pumped
  <2> QED
    BY <1>1, <1>2, <2>9
<1> QED
  BY <1>3, <1>4

(* The scheduler drains all reports, which end in what the GPU has shown.   *)
LEMMA Collected ==
    ASSUME NEW held \in Nat, Roomy(held), Typed, Room(held), Collect
    PROVE  /\ turn = "scheduler" /\ phase = "intents" /\ (budget = 0 \/ ~HasIntent)
           /\ phase' = "reports" /\ wire'.replies = <<>> /\ wire'.lossless = wire.lossless
           /\ wire'.mail = wire.mail /\ wire'.uploads = wire.uploads /\ wire'.shown \in Nat
           /\ wire' = [wire EXCEPT !.replies = <<>>, !.shown = wire'.shown]
           /\ UNCHANGED <<queues, world, budget, asked, served>>
           /\ UNCHANGED <<turn, attempt, runs, kernel, pool, poll>>
           /\ returned' = batch'
           /\ \E e \in Seq(Reps) :
                /\ \A i \in DOMAIN e : e[i].kind = "FrameShown"
                /\ batch' = wire.replies \o e
<1> DEFINE left == ReportBudget - Lesser(ReportBudget, Len(wire.replies))
           n == Lesser(left, wire.shown)
           e == [i \in 1 .. n |-> [kind |-> "FrameShown"]]
<1>1. Len(wire.replies) \in Nat /\ Len(wire.replies) <= ReportBudget
      /\ ReportBudget \in Nat /\ wire.shown \in Nat
  <2>1. Len(wire.replies) \in Nat /\ Len(poll.outbox) \in Nat
    BY LenProperties DEF Typed
  <2> QED
    BY <2>1, FabricAssumption DEF Typed, Room, Roomy, Most
<1>2. n \in Nat /\ wire.shown - n \in Nat
  BY <1>1 DEF Lesser
<1>3. e \in Seq(Reps) /\ \A i \in DOMAIN e : e[i].kind = "FrameShown"
  <2>1. [kind |-> "FrameShown"] \in Reps
    BY DEF Reps
  <2> QED
    BY <1>2, <2>1
<1>4. Drained(wire.replies, ReportBudget) = wire.replies /\ Undrained(wire.replies, ReportBudget) = <<>>
  BY <1>1, DrainedAll DEF Typed
<1>5. batch' = wire.replies \o e /\ returned' = batch'
  BY <1>4 DEF Collect, Gather
<1>6. wire' = [wire EXCEPT !.replies = <<>>, !.shown = wire.shown - n]
  BY <1>4 DEF Collect, Typed
<1>7. /\ wire'.replies = <<>> /\ wire'.lossless = wire.lossless
      /\ wire'.mail = wire.mail /\ wire'.uploads = wire.uploads /\ wire'.shown = wire.shown - n
  BY <1>6 DEF Typed
<1>8. wire' = [wire EXCEPT !.replies = <<>>, !.shown = wire'.shown]
  BY <1>6, <1>7
<1> HIDE DEF e, n
<1> QED
  BY <1>2, <1>3, <1>5, <1>7, <1>8 DEF Collect, Gather

(* The world notes a report and asks for the next tick at the end of one.   *)
LEMMA Reacted ==
    ASSUME Typed, React
    PROVE  /\ turn = "scheduler" /\ phase = "reports" /\ batch # <<>> /\ batch' = Tail(batch)
           /\ Waits(Len(queues["P0"]),
                    Len(queues["P1"]) + IF Head(batch).kind = "TickDone" /\ AutoPump THEN 1 ELSE 0)
           /\ world' \in [paused : BOOLEAN, lane : {0}, romEvents : Nat, shown : Nat]
           /\ wire'.uploads \in Nat /\ wire' = [wire EXCEPT !.uploads = wire'.uploads]
           /\ UNCHANGED <<phase, budget, asked, served>>
           /\ UNCHANGED <<turn, attempt, runs, returned, kernel, pool, poll>>
<1>1. /\ turn = "scheduler" /\ phase = "reports" /\ batch # <<>> /\ batch' = Tail(batch)
      /\ UNCHANGED <<phase, budget, asked, served>>
      /\ UNCHANGED <<turn, attempt, runs, returned, kernel, pool, poll>>
      /\ world' = ReducedReport(world, Head(batch))
      /\ queues' = [queues EXCEPT !["P1"] = @ \o Deferred(Head(batch))]
      /\ wire' = [wire EXCEPT !.uploads = @ + IF Uploads(world, Head(batch)) THEN 1 ELSE 0]
  BY DEF React, TakeReport
<1>2. Head(batch) \in Reps
  BY <1>1, Popped DEF Typed
<1>3. world' \in [paused : BOOLEAN, lane : {0}, romEvents : Nat, shown : Nat]
  <2>4. world \in [paused : BOOLEAN, lane : {0}, romEvents : Nat, shown : Nat]
    BY DEF Typed
  <2>1. CASE Head(batch).kind = "LaneFrame" /\ Head(batch).lane = world.lane
    <3>1. Head(batch).id = 1
      BY <1>2, <2>1 DEF Reps
    <3>2. world' = [world EXCEPT !.shown = 1]
      BY <1>1, <2>1, <3>1 DEF ReducedReport
    <3> QED
      BY <2>4, <3>2
  <2>2. CASE Head(batch).kind = "RomLoaded"
    <3>1. world' = [world EXCEPT !.romEvents = @ + 1]
      BY <1>1, <2>2 DEF ReducedReport
    <3> QED
      BY <2>4, <3>1
  <2>3. CASE /\ ~(Head(batch).kind = "LaneFrame" /\ Head(batch).lane = world.lane)
             /\ Head(batch).kind # "RomLoaded"
    <3>1. world' = world
      BY <1>1, <2>3 DEF ReducedReport
    <3> QED
      BY <2>4, <3>1
  <2> QED
    BY <2>1, <2>2, <2>3
<1>4. wire'.uploads \in Nat /\ wire' = [wire EXCEPT !.uploads = wire'.uploads]
  <2>1. PICK b \in {0, 1} : b = IF Uploads(world, Head(batch)) THEN 1 ELSE 0
    OBVIOUS
  <2>2. wire' = [wire EXCEPT !.uploads = wire.uploads + b]
    BY <1>1, <2>1 DEF Typed
  <2>3. wire'.uploads = wire.uploads + b
    BY <2>2 DEF Typed
  <2>4. wire.uploads \in Nat
    BY DEF Typed
  <2> QED
    BY <2>1, <2>2, <2>3, <2>4
<1>5. PICK q1 : q1 = queues["P1"] \o Deferred(Head(batch))
  OBVIOUS
<1>6. /\ q1 \in Seq({Pump}) /\ q1 \in Seq(Intents)
      /\ Len(q1) = Len(queues["P1"]) + IF Head(batch).kind = "TickDone" /\ AutoPump THEN 1 ELSE 0
  <2>1. PICK d : d = Deferred(Head(batch))
    OBVIOUS
  <2>2. /\ d \in Seq({Pump}) /\ d \in Seq(Intents)
        /\ Len(d) = IF Head(batch).kind = "TickDone" /\ AutoPump THEN 1 ELSE 0
    <3>1. CASE Head(batch).kind = "TickDone" /\ AutoPump
      <4>1. d = << Pump >>
        BY <2>1, <3>1 DEF Deferred
      <4> QED
        BY <3>1, <4>1, Asked
    <3>2. CASE ~(Head(batch).kind = "TickDone" /\ AutoPump)
      <4>1. d = <<>>
        BY <2>1, <3>2 DEF Deferred
      <4> QED
        BY <3>2, <4>1
    <3> QED
      BY <3>1, <3>2
  <2>3. queues["P1"] \in Seq({Pump}) /\ queues["P1"] \in Seq(Intents)
    BY DEF Typed, Priorities
  <2>4. q1 = queues["P1"] \o d
    BY <1>5, <2>1
  <2>5. q1 \in Seq({Pump}) /\ Len(q1) = Len(queues["P1"]) + Len(d)
    BY <2>2, <2>3, <2>4, ConcatProperties
  <2>6. q1 \in Seq(Intents)
    BY <2>2, <2>3, <2>4, ConcatProperties
  <2> QED
    BY <2>2, <2>5, <2>6
<1>7. queues' = [queues EXCEPT !["P1"] = q1]
  BY <1>1, <1>5 DEF Typed, Priorities
<1>8. queues' \in [Priorities -> Seq(Intents)]
  BY <1>6, <1>7 DEF Typed
<1>9. queues'["P0"] = queues["P0"] /\ queues'["P1"] = q1 /\ queues'["P2"] = queues["P2"]
  BY <1>7 DEF Typed, Priorities
<1>10. Waits(Len(queues["P0"]),
             Len(queues["P1"]) + IF Head(batch).kind = "TickDone" /\ AutoPump THEN 1 ELSE 0)
  BY <1>6, <1>8, <1>9 DEF Typed, Waits
<1> QED
  BY <1>1, <1>3, <1>4, <1>10

(* --------------------------- steps of the worker ------------------------ *)

(* The reports of a tick that publishes n frames: the frames in the slots   *)
(* first, one of the lane on display in front, and the end of the tick.     *)
TickShape(t, free, n) ==
    /\ t \in Seq(Reps) /\ Len(t) = n + 1
    /\ t[n + 1].kind = "TickDone"
    /\ \A i \in 1 .. n : t[i].kind = "LaneFrame" /\ t[i].slot = (i <= free)
    /\ t[1].lane = 0

LEMMA TickShaped ==
    ASSUME NEW free \in Nat, NEW times \in {1, 2}
    PROVE  \E n \in 1 .. 2 * Lanes : n = times * Lanes /\ TickShape(TickReports(free, times), free, n)
<1> DEFINE n == times * Lanes
           f == [i \in 1 .. n |->
                  [kind |-> "LaneFrame", lane |-> LaneOf(i), id |-> 1, slot |-> i <= free]]
           d == << [kind |-> "TickDone"] >>
<1>1. n \in 1 .. 2 * Lanes
  BY FabricAssumption
<1>2. LaneOf(1) = 0 /\ \A i \in 1 .. n : LaneOf(i) \in Nat
  <2>1. \A m \in Nat : m % Lanes \in Nat
    BY FabricAssumption
  <2>2. 0 % Lanes = 0
    BY FabricAssumption
  <2> QED
    BY <1>1, <2>1, <2>2 DEF LaneOf
<1>3. PICK g : g = f
  OBVIOUS
<1>4. PICK e : e = d
  OBVIOUS
<1>5. g \in Seq(Reps) /\ Len(g) = n
      /\ \A i \in 1 .. n : g[i].kind = "LaneFrame" /\ g[i].slot = (i <= free) /\ g[i].lane = LaneOf(i)
  <2>1. \A i \in 1 .. n : [kind |-> "LaneFrame", lane |-> LaneOf(i), id |-> 1, slot |-> i <= free] \in Reps
    BY <1>2 DEF Reps
  <2> HIDE DEF n
  <2> QED
    BY <1>1, <1>3, <2>1
<1>6. e \in Seq(Reps) /\ Len(e) = 1 /\ e[1].kind = "TickDone"
  BY <1>4 DEF Reps
<1>7. PICK t : t = g \o e
  OBVIOUS
<1>8. t = TickReports(free, times)
  BY <1>3, <1>4, <1>7 DEF TickReports
<1> HIDE DEF n, f, d
<1>9. t \in Seq(Reps) /\ Len(t) = n + 1
      /\ \A i \in 1 .. n + 1 : t[i] = IF i <= n THEN g[i] ELSE e[i - n]
  <2>1. /\ t \in Seq(Reps) /\ Len(t) = Len(g) + Len(e)
        /\ \A i \in 1 .. Len(g) + Len(e) : t[i] = IF i <= Len(g) THEN g[i] ELSE e[i - Len(g)]
    <3>1. g \in Seq(Reps) /\ e \in Seq(Reps)
      BY <1>5, <1>6
    <3> QED
      BY <1>7, <3>1, ConcatProperties
  <2> QED
    BY <1>5, <1>6, <2>1
<1>10. /\ \A i \in 1 .. n : t[i] = g[i]
       /\ t[n + 1] = e[1]
  <2>1. n \in Nat
    BY <1>1
  <2>2. (n + 1) - n = 1 /\ ~(n + 1 <= n) /\ n + 1 \in 1 .. n + 1
    BY <2>1
  <2> QED
    BY <1>9, <2>1, <2>2
<1>11. TickShape(t, free, n)
  <2>1. 1 \in 1 .. n
    BY <1>1
  <2> QED
    BY <1>2, <1>5, <1>6, <1>9, <1>10, <2>1 DEF TickShape
<1> QED
  BY <1>1, <1>8, <1>11 DEF n

LEMMA KeptTyped ==
    ASSUME NEW s \in Seq(Reps), NEW policy, NEW needed \in Nat
    PROVE  LET k == Kept(policy, s, KernelCapacity, needed)
           IN  /\ k \in Seq(Reps) /\ Len(k) \in Nat /\ Len(k) <= Len(s)
               /\ \A i \in DOMAIN k : \E j \in DOMAIN s : k[i] = s[j]
               /\ policy # "Coalesce" => k = s
<1>1. PICK e : e = Evicted(policy, s, KernelCapacity, needed)
  OBVIOUS
<1>2. Len(s) \in Nat /\ KernelCapacity \in Nat
  BY FabricAssumption, LenProperties
<1>3. e \in Nat /\ e <= Len(s) /\ (policy # "Coalesce" => e = 0)
  BY <1>1, <1>2 DEF Evicted, Fits, Lesser
<1>4. PICK k : k = SubSeq(s, e + 1, Len(s))
  OBVIOUS
<1>5. k = Kept(policy, s, KernelCapacity, needed)
  BY <1>1, <1>4 DEF Kept
<1>6. k \in Seq(Reps) /\ Len(k) = Len(s) - e /\ \A i \in 1 .. Len(s) - e : k[i] = s[e + i]
  <2>1. \A i \in e + 1 .. Len(s) : s[i] \in Reps
    BY <1>2, <1>3, ElementOfSeq
  <2> QED
    BY <1>2, <1>3, <1>4, <2>1, SubSeqProperties
<1>7. e = 0 => k = s
  BY <1>2, <1>4
<1>8. \A i \in DOMAIN k : \E j \in DOMAIN s : k[i] = s[j]
  <2>1. \A i \in DOMAIN k : e + i \in DOMAIN s /\ k[i] = s[e + i]
    BY <1>2, <1>3, <1>6, LenProperties
  <2> QED
    BY <2>1
<1>9. Len(k) \in Nat /\ Len(k) <= Len(s)
  BY <1>2, <1>3, <1>6
<1> QED
  BY <1>3, <1>5, <1>6, <1>7, <1>8, <1>9, Zenon

(* The worker takes a load: at most one report more.                        *)
LoadDone ==
    /\ wire.lossless # <<>>
    /\ wire'.lossless = Tail(wire.lossless) /\ wire'.mail = wire.mail
    /\ wire' = [wire EXCEPT !.lossless = Tail(wire.lossless)]
    /\ pool' = pool
    /\ \/ kernel' = kernel
       \/ kernel' = Append(kernel, [kind |-> "RomLoaded"])

(* The worker takes a tick: what is left of the reports, and those of the   *)
(* tick if it was executed.                                                 *)
TickTaken(k, t, n) ==
    /\ kernel' = k \o t /\ TickShape(t, pool.free, n)
    /\ pool' = [free |-> pool.free - Lesser(pool.free, n),
                ready |-> pool.ready + Lesser(pool.free, n)]

TickDone ==
    /\ wire.lossless = <<>> /\ wire.mail
    /\ wire'.lossless = wire.lossless /\ wire'.mail = FALSE
    /\ wire' = [wire EXCEPT !.mail = FALSE]
    /\ \E k \in Seq(Reps) :
         /\ Len(k) <= Len(kernel)
         /\ \A i \in DOMAIN k : \E j \in DOMAIN kernel : k[i] = kernel[j]
         /\ \/ kernel' = k /\ pool' = pool
            \/ \E n \in 1 .. 2 * Lanes : \E t : TickTaken(k, t, n)

LEMMA Executed ==
    ASSUME Typed, Execute
    PROVE  /\ turn = "worker" /\ poll.stage = "commands" /\ HasCommand
           /\ poll'.stage = poll.stage /\ poll'.outbox = poll.outbox /\ poll'.work \in Nat
           /\ poll' = [poll EXCEPT !.work = poll'.work]
           /\ wire'.replies = wire.replies
           /\ UNCHANGED <<loopVars, turn, attempt, runs, returned>>
           /\ LoadDone \/ TickDone
<1>1. /\ turn = "worker" /\ poll.stage = "commands" /\ HasCommand /\ wire' = WireTaken
      /\ UNCHANGED <<loopVars, turn, attempt, runs, returned>>
  BY DEF Execute
<1> DEFINE policy == DefaultPolicy(NextCommand)
           needed == Farm!ReportsFor(NextCommand)
           kept == Kept(policy, kernel, KernelCapacity, needed)
           executes == Executes(Admission(policy, kernel, KernelCapacity, needed))
           ticks == executes /\ NextCommand = "TickDisplay"
<1>2. PICK times \in {1, 2} :
         /\ times = 2 => ticks
         /\ kernel' = kept \o
              (IF ticks THEN TickReports(pool.free, times)
               ELSE IF executes THEN << [kind |-> "RomLoaded"] >> ELSE <<>>)
         /\ pool' = [free |-> pool.free - (IF ticks THEN Lesser(pool.free, times * Lanes) ELSE 0),
                     ready |-> pool.ready + (IF ticks THEN Lesser(pool.free, times * Lanes) ELSE 0)]
         /\ poll' = [poll EXCEPT !.work = @ + IF executes THEN 1 ELSE 0]
  BY DEF Execute
<1>3. /\ poll'.stage = poll.stage /\ poll'.outbox = poll.outbox /\ poll'.work \in Nat
      /\ poll' = [poll EXCEPT !.work = poll'.work]
  <2>1. poll \in [stage : {"commands", "reports"}, outbox : Seq(Reps), work : Nat]
    BY DEF Typed
  <2>2. PICK b \in {0, 1} : b = IF executes THEN 1 ELSE 0
    OBVIOUS
  <2>3. poll' = [poll EXCEPT !.work = poll.work + b]
    BY <1>2, <2>1, <2>2
  <2> QED
    BY <2>1, <2>2, <2>3
<1>4. needed \in Nat
  BY DEF Farm!ReportsFor
<1>5. PICK k : k = kept
  OBVIOUS
<1>6. /\ k \in Seq(Reps) /\ Len(k) <= Len(kernel)
      /\ \A i \in DOMAIN k : \E j \in DOMAIN kernel : k[i] = kernel[j]
      /\ policy # "Coalesce" => k = kernel
  BY <1>4, <1>5, KeptTyped DEF Typed
<1> HIDE DEF kept, needed
<1>7. CASE wire.lossless # <<>>
  <2>1. NextCommand = "LoadRom"
    <3>1. Head(wire.lossless) \in {"LoadRom"}
      BY <1>7, Popped DEF Typed
    <3> QED
      BY <1>7, <3>1 DEF NextCommand
  <2>2. ~ticks /\ k = kernel
    BY <1>6, <2>1 DEF DefaultPolicy
  <2>3. pool' = pool
    <3>1. pool' = [free |-> pool.free - 0, ready |-> pool.ready + 0]
      BY <1>2, <2>2
    <3>2. pool \in [free : Nat, ready : Nat]
      BY DEF Typed
    <3> QED
      BY <3>1, <3>2
  <2>4. /\ wire' = [wire EXCEPT !.lossless = Tail(wire.lossless)]
        /\ wire'.lossless = Tail(wire.lossless) /\ wire'.mail = wire.mail
        /\ wire'.replies = wire.replies
    <3>1. wire' = [wire EXCEPT !.lossless = Tail(wire.lossless)]
      BY <1>1, <1>7 DEF WireTaken, Typed
    <3> QED
      BY <3>1 DEF Typed
  <2>5. kernel' = kernel \/ kernel' = Append(kernel, [kind |-> "RomLoaded"])
    <3>1. kernel \in Seq(Reps)
      BY DEF Typed
    <3>2. CASE executes
      <4>1. kernel' = kernel \o << [kind |-> "RomLoaded"] >>
        BY <1>2, <1>5, <2>2, <3>2
      <4> QED
        BY <3>1, <4>1
    <3>3. CASE ~executes
      <4>1. kernel' = kernel \o <<>>
        BY <1>2, <1>5, <2>2, <3>3
      <4> QED
        BY <3>1, <4>1
    <3> QED
      BY <3>2, <3>3
  <2>6. LoadDone
    BY <1>7, <2>3, <2>4, <2>5 DEF LoadDone
  <2> QED
    BY <1>1, <1>3, <2>4, <2>6
<1>8. CASE wire.lossless = <<>>
  <2>1. NextCommand = "TickDisplay" /\ wire.mail
    BY <1>1, <1>8 DEF NextCommand, HasCommand
  <2>2. wire' = [wire EXCEPT !.mail = FALSE]
    BY <1>1, <1>8 DEF WireTaken
  <2>3. wire'.lossless = wire.lossless /\ wire'.mail = FALSE /\ wire'.replies = wire.replies
    BY <2>2 DEF Typed
  <2>4. CASE executes
    <3>1. ticks
      BY <2>1, <2>4
    <3>2. pool.free \in Nat
      BY DEF Typed
    <3>3. PICK n \in 1 .. 2 * Lanes :
             n = times * Lanes /\ TickShape(TickReports(pool.free, times), pool.free, n)
      BY <3>2, TickShaped
    <3>4. PICK t : t = TickReports(pool.free, times)
      OBVIOUS
    <3>5. kernel' = k \o t
      BY <1>2, <1>5, <3>1, <3>4
    <3>6. pool' = [free |-> pool.free - Lesser(pool.free, n),
                   ready |-> pool.ready + Lesser(pool.free, n)]
      BY <1>2, <3>1, <3>3
    <3>7. TickTaken(k, t, n)
      BY <3>3, <3>4, <3>5, <3>6 DEF TickTaken
    <3>8. TickDone
      BY <1>6, <1>8, <2>1, <2>2, <2>3, <3>3, <3>7 DEF TickDone
    <3> QED
      BY <1>1, <1>3, <2>3, <3>8
  <2>5. CASE ~executes
    <3>1. kernel' = k
      <4>1. kernel' = k \o <<>>
        BY <1>2, <1>5, <2>5
      <4> QED
        BY <1>6, <4>1
    <3>2. pool' = pool
      <4>1. pool' = [free |-> pool.free - 0, ready |-> pool.ready + 0]
        BY <1>2, <2>5
      <4>2. pool \in [free : Nat, ready : Nat]
        BY DEF Typed
      <4> QED
        BY <4>1, <4>2
    <3>3. TickDone
      BY <1>6, <1>8, <2>1, <2>2, <2>3, <3>1, <3>2 DEF TickDone
    <3> QED
      BY <1>1, <1>3, <2>3, <3>3
  <2> QED
    BY <2>4, <2>5
<1> QED
  BY <1>7, <1>8

LEMMA ReportsTaken ==
    ASSUME NEW held \in Nat, Roomy(held), Typed, Room(held), TakeReports
    PROVE  /\ turn = "worker" /\ poll.stage = "commands" /\ ~HasCommand
           /\ poll'.stage = "reports" /\ poll'.outbox = kernel /\ poll'.work = poll.work
           /\ poll' \in [stage : {"commands", "reports"}, outbox : Seq(Reps), work : Nat]
           /\ kernel' = <<>>
           /\ UNCHANGED <<loopVars, turn, attempt, runs, returned, wire, pool>>
<1>1. kernel \in Seq(Reps) /\ Len(kernel) \in Nat /\ Len(wire.lossless) \in Nat
  BY LenProperties DEF Typed
<1>2. Len(kernel) <= EngineBudget /\ EngineBudget \in Nat
  <2>1. turn = "worker" /\ Lanes \in Nat /\ EngineBudget \in Nat
    BY FabricAssumption DEF TakeReports
  <2>2. PICK due \in Nat : due = IF wire.mail THEN 2 * Lanes + 1 ELSE 0
    BY <2>1
  <2>3. Len(kernel) + Len(wire.lossless) + due <= Most(held)
    BY <2>1, <2>2 DEF Room
  <2>4. Most(held) \in Nat /\ Most(held) <= EngineBudget
    BY <2>1 DEF Roomy, Most
  <2> QED
    <3>1. \A a, b, c, d, e \in Nat : a + b + c <= d /\ d <= e => a <= e
      OBVIOUS
    <3> QED
      BY <1>1, <2>1, <2>3, <2>4, <3>1
<1>3. Drained(kernel, EngineBudget) = kernel /\ Undrained(kernel, EngineBudget) = <<>>
  BY <1>1, <1>2, DrainedAll
<1>4. poll' = [poll EXCEPT !.stage = "reports", !.outbox = kernel] /\ kernel' = <<>>
  BY <1>3 DEF TakeReports
<1>5. poll \in [stage : {"commands", "reports"}, outbox : Seq(Reps), work : Nat]
  BY DEF Typed
<1> QED
  BY <1>1, <1>4, <1>5 DEF TakeReports

(* A report is published if it fits the ring.                               *)
LEMMA Published ==
    ASSUME Typed, Publish
    PROVE  /\ turn = "worker" /\ poll.stage = "reports" /\ poll.outbox # <<>>
           /\ poll'.stage = poll.stage /\ poll'.outbox = Tail(poll.outbox)
           /\ poll' \in [stage : {"commands", "reports"}, outbox : Seq(Reps), work : Nat]
           /\ wire'.lossless = wire.lossless /\ wire'.mail = wire.mail
           /\ wire' = [wire EXCEPT !.replies = wire'.replies]
           /\ wire'.replies = IF RepliesFit(Head(poll.outbox))
                              THEN Append(wire.replies, Head(poll.outbox)) ELSE wire.replies
           /\ UNCHANGED <<loopVars, turn, attempt, runs, returned, kernel, pool>>
<1>1. poll \in [stage : {"commands", "reports"}, outbox : Seq(Reps), work : Nat]
  BY DEF Typed
<1>2. Tail(poll.outbox) \in Seq(Reps) /\ poll.outbox # <<>>
  BY <1>1, Popped DEF Publish
<1>3. PICK b \in {0, 1} : b = IF RepliesFit(Head(poll.outbox)) THEN 1 ELSE 0
  OBVIOUS
<1>4. poll' = [poll EXCEPT !.outbox = Tail(poll.outbox), !.work = poll.work + b]
  BY <1>1, <1>3 DEF Publish
<1>5. wire' = [wire EXCEPT !.replies = IF RepliesFit(Head(poll.outbox))
                 THEN Append(wire.replies, Head(poll.outbox)) ELSE wire.replies]
  <2>1. CASE RepliesFit(Head(poll.outbox))
    BY <2>1 DEF Publish, Typed
  <2>2. CASE ~RepliesFit(Head(poll.outbox))
    <3>1. wire' = wire
      BY <2>2 DEF Publish
    <3>2. wire = [wire EXCEPT !.replies = wire.replies]
      BY DEF Typed
    <3> QED
      BY <2>2, <3>1, <3>2
  <2> QED
    BY <2>1, <2>2
<1>6. PICK r : r = IF RepliesFit(Head(poll.outbox))
                 THEN Append(wire.replies, Head(poll.outbox)) ELSE wire.replies
  OBVIOUS
<1>7. wire' = [wire EXCEPT !.replies = r]
  BY <1>5, <1>6
<1>8. /\ wire'.lossless = wire.lossless /\ wire'.mail = wire.mail /\ wire'.replies = r
      /\ wire' = [wire EXCEPT !.replies = wire'.replies]
  BY <1>7 DEF Typed
<1>9. /\ poll'.stage = poll.stage /\ poll'.outbox = Tail(poll.outbox)
      /\ poll' \in [stage : {"commands", "reports"}, outbox : Seq(Reps), work : Nat]
  <2>1. poll.work + b \in Nat
    BY <1>1, <1>3
  <2>2. PICK s, m : s = Tail(poll.outbox) /\ m = poll.work + b
    OBVIOUS
  <2>3. poll' = [poll EXCEPT !.outbox = s, !.work = m]
    BY <1>4, <2>2
  <2> QED
    BY <1>1, <1>2, <2>1, <2>2, <2>3
<1>10. /\ turn = "worker" /\ poll.stage = "reports"
       /\ UNCHANGED <<loopVars, turn, attempt, runs, returned, kernel, pool>>
  BY DEF Publish
<1> QED
  BY <1>2, <1>6, <1>8, <1>9, <1>10

LEMMA RunEnded ==
    ASSUME Typed, EndWorkerRun
    PROVE  /\ turn = "worker" /\ poll.stage = "reports" /\ poll.outbox = <<>>
           /\ wire'.lossless = wire.lossless /\ wire'.mail = wire.mail
           /\ wire'.replies = wire.replies /\ wire'.uploads \in Nat /\ wire'.shown \in Nat
           /\ wire' = [wire EXCEPT !.uploads = wire'.uploads, !.shown = wire'.shown]
           /\ poll'.stage = "commands" /\ poll'.outbox = <<>>
           /\ poll' \in [stage : {"commands", "reports"}, outbox : Seq(Reps), work : Nat]
           /\ \/ turn' = turn /\ attempt' = attempt
              \/ turn' = "fetch" /\ attempt > MaxAttempts /\ attempt' = attempt
              \/ turn' = "scheduler" /\ attempt <= MaxAttempts /\ attempt' = attempt + 1
           /\ UNCHANGED <<loopVars, returned, kernel, pool>>
<1>1. poll \in [stage : {"commands", "reports"}, outbox : Seq(Reps), work : Nat]
  BY DEF Typed
<1>2. wire.uploads \in Nat /\ wire.shown \in Nat /\ attempt \in Nat
  BY DEF Typed
<1>3. GpuShown \in Nat /\ wire.uploads - GpuShown \in Nat
  BY <1>2, FabricAssumption DEF GpuShown, Lesser
<1>4. wire' = [wire EXCEPT !.uploads = wire.uploads - GpuShown, !.shown = wire.shown + GpuShown]
  BY DEF EndWorkerRun, Typed
<1>5. /\ wire'.lossless = wire.lossless /\ wire'.mail = wire.mail
      /\ wire'.replies = wire.replies
      /\ wire'.uploads = wire.uploads - GpuShown /\ wire'.shown = wire.shown + GpuShown
  BY <1>4 DEF Typed
<1>6. poll' = [poll EXCEPT !.stage = "commands", !.work = 0] /\ poll.outbox = <<>>
  BY DEF EndWorkerRun
<1>7. /\ \/ turn' = turn /\ attempt' = attempt
         \/ turn' = "fetch" /\ attempt > MaxAttempts /\ attempt' = attempt
         \/ turn' = "scheduler" /\ attempt <= MaxAttempts /\ attempt' = attempt + 1
  BY <1>2 DEF EndWorkerRun, MaxAttempts
<1>8. /\ wire'.uploads \in Nat /\ wire'.shown \in Nat
      /\ wire' = [wire EXCEPT !.uploads = wire'.uploads, !.shown = wire'.shown]
  BY <1>2, <1>3, <1>4, <1>5
<1>9. /\ poll'.stage = "commands" /\ poll'.outbox = <<>>
      /\ poll' \in [stage : {"commands", "reports"}, outbox : Seq(Reps), work : Nat]
  BY <1>1, <1>6
<1>10. turn = "worker" /\ poll.stage = "reports" /\ UNCHANGED <<loopVars, returned, kernel, pool>>
  BY DEF EndWorkerRun
<1> QED
  BY <1>5, <1>6, <1>7, <1>8, <1>9, <1>10

LEMMA FetchedOne ==
    ASSUME Typed, Fetch
    PROVE  /\ turn = "fetch" /\ UNCHANGED <<loopVars, attempt, runs, wire, kernel, poll>>
           /\ \/ returned = <<>> /\ turn' = "page" /\ UNCHANGED <<returned, pool>>
              \/ /\ returned # <<>> /\ turn' = turn /\ returned' = Tail(returned)
                 /\ returned' \in Seq(Reps) /\ pool' \in [free : Nat, ready : Nat]
                 /\ IF InSlot(Head(returned)) /\ pool.ready > 0
                    THEN pool'.free = pool.free + 1 /\ pool'.ready = pool.ready - 1
                    ELSE pool' = pool
<1>1. pool \in [free : Nat, ready : Nat] /\ returned \in Seq(Reps)
  BY DEF Typed
<1>2. CASE returned = <<>>
  BY <1>2 DEF Fetch
<1>3. CASE returned # <<>>
  <2>1. Tail(returned) \in Seq(Reps)
    BY <1>1, <1>3, Popped
  <2> QED
    BY <1>1, <1>3, <2>1 DEF Fetch, Fetched, InSlot
<1> QED
  BY <1>2, <1>3

(* ------------------------------- the course ----------------------------- *)

LEMMA RomRoom ==
    ASSUME NEW held \in Nat, Roomy(held), Typed, RomFits
    PROVE  Len(wire.lossless) + 1 <= held
<1>1. PICK n \in Nat : n = Len(wire.lossless) + 1
  <2>1. wire.lossless \in Seq({"LoadRom"})
    BY DEF Typed
  <2> QED
    BY <2>1, LenProperties
<1>2. n * RomSize < (held + 1) * RomSize /\ RomSize \in Nat
  <2>1. CommandRing \in Nat /\ RomSize \in Nat
    BY FabricAssumption
  <2> QED
    BY <1>1, <2>1 DEF RomFits, Roomy
<1>3. CASE n >= held + 1
  <2>1. PICK d \in Nat : n = (held + 1) + d
    <3>1. n - (held + 1) \in Nat /\ n = (held + 1) + (n - (held + 1))
      <4>1. \A a, b \in Nat : a >= b + 1 => a - (b + 1) \in Nat /\ a = (b + 1) + (a - (b + 1))
        OBVIOUS
      <4> QED
        BY <1>1, <1>3, <4>1
    <3> QED
      BY <3>1
  <2>2. n * RomSize = (held + 1) * RomSize + d * RomSize
    BY <1>2, <2>1
  <2>3. d * RomSize \in Nat /\ (held + 1) * RomSize \in Nat
    BY <1>2, <2>1
  <2> QED
    BY <1>2, <2>2, <2>3
<1> QED
  BY <1>1, <1>3

LEMMA MostNat == ASSUME NEW held \in Nat PROVE Most(held) \in Nat
BY FabricAssumption DEF Most

LEMMA InitCourse == ASSUME NEW held \in Nat PROVE Init => Course(held)
<1> SUFFICES ASSUME Init PROVE Course(held)
  OBVIOUS
<1>1. Typed
  BY LoopAssumption, FabricAssumption DEF Init, InitLoop, Typed, Origins, Priorities
<1>2. Rounds
  BY DEF Init, InitLoop, Rounds, HasCommand
<1>3. Drive
  BY DEF Init, Drive
<1>4. Room(held)
  <2>1. Len(<<>>) = 0
    OBVIOUS
  <2> QED
    BY <2>1, FabricAssumption DEF Init, Room, Most
<1> QED
  BY <1>1, <1>2, <1>3, <1>4 DEF Course

LEMMA LoadRomCourse ==
    ASSUME NEW held \in Nat, Course(held), LoadRom
    PROVE  Course(held)'
<1>1. /\ Waits(Len(queues["P0"]) + 1, Len(queues["P1"]) + 1)
      /\ turn = "page" /\ asked' \in [Origins -> Nat]
      /\ UNCHANGED <<world, phase, budget, batch>>
      /\ UNCHANGED <<turn, attempt, returned, wire, kernel, pool, poll>>
  BY LoadAsked DEF Course, fabricVars
<1>2. Typed'
  <2>1. Typed
    BY DEF Course
  <2> QED
    BY <1>1, <2>1 DEF Typed, Waits
<1>3. Rounds'
  BY <1>1 DEF Course, Rounds, HasCommand, MaxAttempts
<1>4. Drive'
  BY <1>1 DEF Course, Rounds, Drive, HasCommand
<1>5. Room(held)'
  BY <1>1 DEF Course, Rounds, Room
<1> QED
  BY <1>2, <1>3, <1>4, <1>5 DEF Course

LEMMA TickCallCourse ==
    ASSUME NEW held \in Nat, Course(held), TickCall
    PROVE  Course(held)'
<1>1. /\ Waits(Len(queues["P0"]), Len(queues["P1"]) + 1)
      /\ turn = "page" /\ turn' = "scheduler" /\ attempt' = 0 /\ returned' = <<>>
      /\ phase = "idle" /\ UNCHANGED <<world, phase, budget, batch, asked>>
      /\ UNCHANGED <<wire, kernel, pool, poll>>
  BY OneMorePump DEF Course, TickCall
<1>2. Typed'
  <2>1. <<>> \in Seq(Reps)
    OBVIOUS
  <2>2. returned' \in Seq(Reps) /\ attempt' \in Nat
    BY <1>1, <2>1
  <2>3. Typed
    BY DEF Course
  <2> QED
    BY <1>1, <2>2, <2>3 DEF Typed, Waits
<1>3. Rounds'
  BY <1>1 DEF Course, Rounds, HasCommand, MaxAttempts
<1>4. Drive'
  BY <1>1 DEF Course, Rounds, Drive, HasCommand
<1>5. Room(held)'
  BY <1>1 DEF Course, Rounds, Room
<1> QED
  BY <1>2, <1>3, <1>4, <1>5 DEF Course

LEMMA BeginCourse ==
    ASSUME NEW held \in Nat, Course(held), Begin
    PROVE  Course(held)'
<1>1. /\ turn = "scheduler" /\ phase = "idle" /\ phase' = "intents"
      /\ budget' = IntentBudget /\ IntentBudget \in Nat
      /\ UNCHANGED <<queues, world, batch, asked>>
      /\ UNCHANGED <<turn, attempt, returned, wire, kernel, pool, poll>>
  BY LoopAssumption DEF Begin, StartFrame, fabricVars
<1>2. Typed'
  <2>1. budget' \in 0 .. IntentBudget /\ phase' \in {"idle", "intents", "reports"}
    BY <1>1
  <2>2. Typed
    BY DEF Course
  <2> QED
    BY <1>1, <2>1, <2>2 DEF Typed
<1>3. Rounds'
  BY <1>1 DEF Course, Rounds, HasCommand, MaxAttempts
<1>4. Drive'
  BY <1>1 DEF Course, Rounds, Drive, HasCommand
<1>5. Room(held)'
  BY <1>1 DEF Course, Rounds, Room
<1> QED
  BY <1>2, <1>3, <1>4, <1>5 DEF Course

LEMMA ReduceCourse ==
    ASSUME NEW held \in Nat, Roomy(held), Course(held), Reduce
    PROVE  Course(held)'
<1>1. /\ turn = "scheduler" /\ phase = "intents" /\ budget > 0 /\ budget' = budget - 1
      /\ world' = world /\ UNCHANGED <<phase, batch, asked>>
      /\ UNCHANGED <<turn, attempt, runs, returned, kernel, pool, poll>>
      /\ Refused \/ Loaded \/ Pumped
  BY Reduced DEF Course
<1>6. /\ wire'.lossless \in Seq({"LoadRom"}) /\ Len(wire'.lossless) <= held
      /\ wire'.mail \in BOOLEAN /\ wire'.replies = wire.replies
      /\ wire' \in [lossless : Seq({"LoadRom"}), mail : BOOLEAN, replies : Seq(Reps),
                    uploads : Nat, shown : Nat]
  <2>0. /\ wire \in [lossless : Seq({"LoadRom"}), mail : BOOLEAN, replies : Seq(Reps),
                     uploads : Nat, shown : Nat]
        /\ Len(wire.lossless) <= held
    BY DEF Course, Typed, Room
  <2>1. CASE Refused
    BY <2>0, <2>1 DEF Refused
  <2>2. CASE Loaded
    <3>1. PICK s : s = Append(wire.lossless, "LoadRom")
      OBVIOUS
    <3>2. s \in Seq({"LoadRom"}) /\ Len(s) = Len(wire.lossless) + 1
      BY <2>0, <3>1, Appended
    <3>3. wire' = [wire EXCEPT !.lossless = s] /\ Len(wire.lossless) + 1 <= held
      BY <2>0, <2>2, <3>1, RomRoom DEF Course, Loaded
    <3> QED
      BY <2>0, <3>2, <3>3
  <2>3. CASE Pumped
    BY <2>0, <2>3 DEF Pumped
  <2> QED
    BY <1>1, <2>1, <2>2, <2>3
<1>7. /\ queues' \in [Priorities -> Seq(Intents)]
      /\ queues'["P0"] \in Seq(Loads) /\ queues'["P1"] \in Seq({Pump}) /\ queues'["P2"] = <<>>
  BY <1>1 DEF Refused, Loaded, Pumped, Waits
<1>2. Typed'
  <2>1. budget' \in 0 .. IntentBudget
    BY <1>1, LoopAssumption DEF Course, Typed
  <2> QED
    BY <1>1, <1>6, <1>7, <2>1 DEF Course, Typed
<1>3. Rounds'
  BY <1>1 DEF Course, Rounds, HasCommand, MaxAttempts
<1>4. Drive'
  BY <1>1 DEF Course, Rounds, Drive, HasCommand
<1>5. Room(held)'
  BY <1>1, <1>6 DEF Course, Rounds, Room
<1> QED
  BY <1>2, <1>3, <1>4, <1>5 DEF Course

LEMMA CollectCourse ==
    ASSUME NEW held \in Nat, Roomy(held), Course(held), Collect
    PROVE  Course(held)'
<1>1. /\ turn = "scheduler" /\ phase = "intents" /\ phase' = "reports"
      /\ wire'.replies = <<>> /\ wire'.lossless = wire.lossless
      /\ wire'.mail = wire.mail /\ wire'.shown \in Nat
      /\ wire' = [wire EXCEPT !.replies = <<>>, !.shown = wire'.shown]
      /\ UNCHANGED <<queues, world, budget, asked>>
      /\ UNCHANGED <<turn, attempt, runs, kernel, pool, poll>>
      /\ returned' = batch'
      /\ \E e \in Seq(Reps) : batch' = wire.replies \o e
  BY Collected DEF Course
<1>6. batch' \in Seq(Reps)
  BY <1>1, ConcatProperties DEF Course, Typed
<1>7. Len(<<>>) = 0
  OBVIOUS
<1>8. wire' \in [lossless : Seq({"LoadRom"}), mail : BOOLEAN, replies : Seq(Reps),
                uploads : Nat, shown : Nat]
  <2>1. wire \in [lossless : Seq({"LoadRom"}), mail : BOOLEAN, replies : Seq(Reps),
                 uploads : Nat, shown : Nat]
    BY DEF Course, Typed
  <2>2. <<>> \in Seq(Reps)
    OBVIOUS
  <2> QED
    BY <1>1, <2>1, <2>2
<1>2. Typed'
  BY <1>1, <1>6, <1>8 DEF Course, Typed
<1>3. Rounds'
  BY <1>1 DEF Course, Rounds, HasCommand, MaxAttempts
<1>4. Drive'
  BY <1>1 DEF Course, Rounds, Drive, HasCommand
<1>5. Room(held)'
  <2>1. Len(wire.replies) \in Nat /\ Len(poll.outbox) \in Nat
    BY LenProperties DEF Course, Typed
  <2>2. 0 + Len(poll.outbox) <= Most(held)
    <3>1. Len(wire.replies) + Len(poll.outbox) <= Most(held)
      BY DEF Course, Room
    <3>2. Most(held) \in Nat
      BY MostNat
    <3>3. \A a, b, c \in Nat : a + b <= c => 0 + b <= c
      OBVIOUS
    <3> QED
      BY <2>1, <3>1, <3>2, <3>3
  <2> QED
    BY <1>1, <1>7, <2>2 DEF Course, Room
<1> QED
  BY <1>2, <1>3, <1>4, <1>5 DEF Course

LEMMA ReactCourse ==
    ASSUME NEW held \in Nat, Course(held), React
    PROVE  Course(held)'
<1>1. /\ turn = "scheduler" /\ phase = "reports" /\ batch # <<>> /\ batch' = Tail(batch)
      /\ queues' \in [Priorities -> Seq(Intents)]
      /\ queues'["P0"] \in Seq(Loads) /\ queues'["P1"] \in Seq({Pump}) /\ queues'["P2"] = <<>>
      /\ world' \in [paused : BOOLEAN, lane : {0}, romEvents : Nat, shown : Nat]
      /\ wire'.uploads \in Nat /\ wire' = [wire EXCEPT !.uploads = wire'.uploads]
      /\ UNCHANGED <<phase, budget, asked>>
      /\ UNCHANGED <<turn, attempt, runs, returned, kernel, pool, poll>>
  BY Reacted DEF Course, Waits
<1>6. batch' \in Seq(Reps)
  BY <1>1, Popped DEF Course, Typed
<1>7. /\ wire'.lossless = wire.lossless /\ wire'.mail = wire.mail /\ wire'.replies = wire.replies
      /\ wire' \in [lossless : Seq({"LoadRom"}), mail : BOOLEAN, replies : Seq(Reps),
                    uploads : Nat, shown : Nat]
  BY <1>1 DEF Course, Typed
<1>2. Typed'
  BY <1>1, <1>6, <1>7 DEF Course, Typed
<1>3. Rounds'
  BY <1>1, <1>7 DEF Course, Rounds, HasCommand, MaxAttempts
<1>4. Drive'
  BY <1>1, <1>7 DEF Course, Rounds, Drive, HasCommand
<1>5. Room(held)'
  BY <1>1, <1>7 DEF Course, Rounds, Room
<1> QED
  BY <1>2, <1>3, <1>4, <1>5 DEF Course

LEMMA FinishCourse ==
    ASSUME NEW held \in Nat, Course(held), Finish
    PROVE  Course(held)'
<1>1. /\ turn = "scheduler" /\ phase = "reports" /\ batch = <<>> /\ phase' = "idle"
      /\ \/ turn' = "ran" /\ (returned # <<>> \/ attempt = MaxAttempts)
         \/ turn' = "worker" /\ returned = <<>> /\ attempt # MaxAttempts
      /\ UNCHANGED <<queues, world, budget, batch, asked>>
      /\ UNCHANGED <<attempt, returned, wire, kernel, pool, poll>>
  BY DEF Finish, EndFrame
<1>6. kernel = <<>> /\ poll.stage = "commands" /\ poll.outbox = <<>> /\ wire.replies = <<>>
  BY <1>1 DEF Course, Rounds
<1>2. Typed'
  <2>1. turn' \in {"page", "scheduler", "ran", "worker", "fetch"}
        /\ phase' \in {"idle", "intents", "reports"}
    BY <1>1
  <2>2. pool' = pool /\ world' = world
    BY <1>1
  <2> QED
    BY <1>1, <2>1, <2>2 DEF Course, Typed
<1>3. Rounds'
  BY <1>1 DEF Course, Rounds, HasCommand, MaxAttempts
<1>4. Drive'
  BY <1>1, <1>6 DEF Course, Rounds, Drive, HasCommand
<1>5. Room(held)'
  <2>1. Len(kernel) = 0
    BY <1>6
  <2>2. Len(wire.lossless) \in Nat /\ Len(wire.lossless) <= held
    BY LenProperties DEF Course, Typed, Room
  <2>3. 0 + Len(wire.lossless) + (IF wire.mail THEN 2 * Lanes + 1 ELSE 0) <= Most(held)
    <3>1. CASE wire.mail
      <4>1. \A a, b, l \in Nat : a <= b => 0 + a + (2 * l + 1) <= b + 2 * l + 1
        OBVIOUS
      <4> QED
        BY <2>2, <3>1, <4>1, FabricAssumption DEF Most
    <3>2. CASE ~wire.mail
      BY <2>2, <3>2, FabricAssumption DEF Most
    <3> QED
      BY <3>1, <3>2
  <2> QED
    BY <1>1, <2>1, <2>3 DEF Course, Room
<1> QED
  BY <1>2, <1>3, <1>4, <1>5 DEF Course

LEMMA LeaveCourse ==
    ASSUME NEW held \in Nat, Course(held), Leave
    PROVE  Course(held)'
<1>1. /\ turn = "ran" /\ turn' = "worker" /\ attempt' = MaxAttempts + 1
      /\ \/ ~AutoPump /\ Waits(Len(queues["P0"]), Len(queues["P1"]) + 1)
         \/ AutoPump /\ queues' = queues
      /\ UNCHANGED <<world, phase, budget, batch, asked>>
      /\ UNCHANGED <<returned, wire, kernel, pool, poll>>
  BY OneMorePump DEF Course, Leave, loopVars
<1>6. kernel = <<>> /\ poll.stage = "commands" /\ poll.outbox = <<>> /\ wire.replies = <<>>
  BY <1>1 DEF Course, Rounds
<1>2. Typed'
  <2>1. attempt' \in Nat
    BY <1>1 DEF MaxAttempts
  <2>2. /\ queues' \in [Priorities -> Seq(Intents)]
        /\ queues'["P0"] \in Seq(Loads) /\ queues'["P1"] \in Seq({Pump}) /\ queues'["P2"] = <<>>
    BY <1>1 DEF Course, Typed, Waits
  <2> QED
    BY <1>1, <2>1, <2>2 DEF Course, Typed
<1>3. Rounds'
  BY <1>1 DEF Course, Rounds, HasCommand, MaxAttempts
<1>4. Drive'
  BY <1>1, <1>6 DEF Course, Rounds, Drive, HasCommand
<1>5. Room(held)'
  <2>1. Len(kernel) = 0
    BY <1>6
  <2>2. Len(wire.lossless) \in Nat /\ Len(wire.lossless) <= held
    BY LenProperties DEF Course, Typed, Room
  <2>3. 0 + Len(wire.lossless) + (IF wire.mail THEN 2 * Lanes + 1 ELSE 0) <= Most(held)
    <3>1. CASE wire.mail
      <4>1. \A a, b, l \in Nat : a <= b => 0 + a + (2 * l + 1) <= b + 2 * l + 1
        OBVIOUS
      <4> QED
        BY <2>2, <3>1, <4>1, FabricAssumption DEF Most
    <3>2. CASE ~wire.mail
      BY <2>2, <3>2, FabricAssumption DEF Most
    <3> QED
      BY <3>1, <3>2
  <2> QED
    BY <1>1, <2>1, <2>3 DEF Course, Room
<1> QED
  BY <1>2, <1>3, <1>4, <1>5 DEF Course

LEMMA ExecuteCourse ==
    ASSUME NEW held \in Nat, Course(held), Execute
    PROVE  Course(held)'
<1>1. /\ turn = "worker" /\ poll.stage = "commands" /\ HasCommand
      /\ poll'.stage = poll.stage /\ poll'.outbox = poll.outbox /\ poll'.work \in Nat
      /\ poll' = [poll EXCEPT !.work = poll'.work]
      /\ wire'.replies = wire.replies
      /\ UNCHANGED <<queues, world, phase, budget, batch, asked>>
      /\ UNCHANGED <<turn, attempt, returned>>
      /\ LoadDone \/ TickDone
  BY Executed DEF Course, loopVars
<1>2. /\ kernel \in Seq(Reps) /\ Len(kernel) \in Nat
      /\ wire.lossless \in Seq({"LoadRom"}) /\ Len(wire.lossless) \in Nat
      /\ wire \in [lossless : Seq({"LoadRom"}), mail : BOOLEAN, replies : Seq(Reps),
                   uploads : Nat, shown : Nat]
      /\ pool \in [free : Nat, ready : Nat]
      /\ poll \in [stage : {"commands", "reports"}, outbox : Seq(Reps), work : Nat]
  BY LenProperties DEF Course, Typed
<1>3. wire.replies = <<>> /\ \A i \in DOMAIN kernel : kernel[i].kind = "RomLoaded"
  BY <1>1 DEF Course, Drive
<1>4. Len(kernel) + Len(wire.lossless) + (IF wire.mail THEN 2 * Lanes + 1 ELSE 0) <= Most(held)
  BY <1>1 DEF Course, Room
<1>5. Most(held) \in Nat /\ Lanes \in Nat \ {0}
  BY MostNat, FabricAssumption
<1>6. /\ kernel' \in Seq(Reps) /\ pool' \in [free : Nat, ready : Nat]
      /\ wire' \in [lossless : Seq({"LoadRom"}), mail : BOOLEAN, replies : Seq(Reps),
                    uploads : Nat, shown : Nat]
      /\ Len(wire'.lossless) <= Len(wire.lossless)
      /\ Len(kernel') + Len(wire'.lossless) + (IF wire'.mail THEN 2 * Lanes + 1 ELSE 0) <= Most(held)
      /\ HasCommand' => \A i \in DOMAIN kernel' : kernel'[i].kind = "RomLoaded"
  <2>1. CASE LoadDone
    <3>1. PICK s \in Seq({"LoadRom"}) : s = Tail(wire.lossless)
      BY <1>2, <2>1, Popped DEF LoadDone
    <3>2. Len(s) \in Nat /\ Len(wire.lossless) = Len(s) + 1
      BY <1>2, <2>1, <3>1, Popped DEF LoadDone
    <3>3. wire' = [wire EXCEPT !.lossless = s] /\ wire'.lossless = s /\ wire'.mail = wire.mail
          /\ pool' = pool
      BY <1>2, <2>1, <3>1 DEF LoadDone
    <3>4. PICK q : q = kernel'
      OBVIOUS
    <3>5. /\ q \in Seq(Reps) /\ Len(q) \in Nat /\ Len(q) <= Len(kernel) + 1
          /\ \A i \in DOMAIN q : q[i].kind = "RomLoaded"
      <4>1. CASE q = kernel
        BY <1>2, <1>3, <4>1
      <4>2. CASE q = Append(kernel, [kind |-> "RomLoaded"])
        <5>1. [kind |-> "RomLoaded"] \in Reps
          BY DEF Reps
        <5>2. /\ q \in Seq(Reps) /\ Len(q) = Len(kernel) + 1
              /\ \A i \in 1 .. Len(kernel) : q[i] = kernel[i]
              /\ q[Len(kernel) + 1] = [kind |-> "RomLoaded"]
          BY <1>2, <4>2, <5>1, AppendProperties
        <5>3. DOMAIN q = 1 .. Len(kernel) + 1 /\ DOMAIN kernel = 1 .. Len(kernel)
          BY <1>2, <5>2, LenProperties
        <5>4. ASSUME NEW i \in DOMAIN q PROVE q[i].kind = "RomLoaded"
          <6>1. \A n \in Nat : \A j \in 1 .. n + 1 : j \in 1 .. n \/ j = n + 1
            OBVIOUS
          <6>2. i \in 1 .. Len(kernel) \/ i = Len(kernel) + 1
            BY <1>2, <5>3, <6>1
          <6>3. CASE i \in 1 .. Len(kernel)
            BY <1>3, <5>2, <5>3, <6>3
          <6>4. CASE i = Len(kernel) + 1
            BY <5>2, <6>4
          <6> QED
            BY <6>2, <6>3, <6>4
        <5>5. Len(q) \in Nat /\ Len(q) <= Len(kernel) + 1
          BY <1>2, <5>2
        <5> QED
          BY <5>2, <5>4, <5>5
      <4> QED
        BY <2>1, <3>4, <4>1, <4>2 DEF LoadDone
    <3>6. PICK m \in Nat : m = IF wire.mail THEN 2 * Lanes + 1 ELSE 0
      BY <1>5
    <3>7. Len(q) + Len(s) + m <= Most(held)
      <4>1. \A a, b, c, d, e, f \in Nat :
              a <= c + 1 /\ d = b + 1 /\ c + d + e <= f => a + b + e <= f
        OBVIOUS
      <4>2. Len(kernel) + Len(wire.lossless) + m <= Most(held)
        BY <1>4, <3>6
      <4> QED
        BY <1>2, <1>5, <3>2, <3>5, <4>1, <4>2
    <3>8. wire' \in [lossless : Seq({"LoadRom"}), mail : BOOLEAN, replies : Seq(Reps),
                     uploads : Nat, shown : Nat]
      BY <1>2, <3>1, <3>3
    <3> QED
      BY <1>2, <3>2, <3>3, <3>4, <3>5, <3>6, <3>7, <3>8
  <2>2. CASE TickDone
    <3>1. /\ wire' = [wire EXCEPT !.mail = FALSE] /\ wire'.lossless = <<>> /\ wire'.mail = FALSE
          /\ wire.lossless = <<>> /\ wire.mail
      BY <2>2 DEF TickDone
    <3>2. wire' \in [lossless : Seq({"LoadRom"}), mail : BOOLEAN, replies : Seq(Reps),
                     uploads : Nat, shown : Nat]
      BY <1>2, <3>1
    <3>3. ~HasCommand'
      BY <3>1 DEF HasCommand
    <3>4. Len(<<>>) = 0 /\ Len(kernel) + 0 + (2 * Lanes + 1) <= Most(held)
      BY <1>4, <3>1
    <3>5. PICK k \in Seq(Reps) :
            /\ Len(k) <= Len(kernel)
            /\ \/ kernel' = k /\ pool' = pool
               \/ \E n \in 1 .. 2 * Lanes : \E t : TickTaken(k, t, n)
      BY <2>2 DEF TickDone
    <3>6. Len(k) \in Nat
      BY LenProperties
    <3>9. /\ Len(wire'.lossless) = 0 /\ Len(wire'.lossless) <= Len(wire.lossless)
          /\ (IF wire'.mail THEN 2 * Lanes + 1 ELSE 0) = 0
      BY <1>2, <3>1, <3>4
    <3>7. CASE kernel' = k /\ pool' = pool
      <4>1. \A a, b, c, d \in Nat : a <= b /\ b + 0 + c <= d => a + 0 + 0 <= d
        OBVIOUS
      <4>2. Len(k) + 0 + 0 <= Most(held)
        BY <1>2, <1>5, <3>4, <3>5, <3>6, <4>1
      <4> QED
        BY <1>2, <3>2, <3>3, <3>7, <3>9, <4>2
    <3>8. CASE \E n \in 1 .. 2 * Lanes : \E t : TickTaken(k, t, n)
      <4>1. PICK n \in 1 .. 2 * Lanes : \E t : TickTaken(k, t, n)
        BY <3>8
      <4>2. PICK t : TickTaken(k, t, n)
        BY <4>1
      <4>3. PICK q : q = kernel'
        OBVIOUS
      <4>4. t \in Seq(Reps) /\ Len(t) = n + 1 /\ q = k \o t
        BY <4>2, <4>3 DEF TickTaken, TickShape
      <4>5. q \in Seq(Reps) /\ Len(q) = Len(k) + Len(t)
        BY <4>4, ConcatProperties
      <4>6. Len(q) + 0 + 0 <= Most(held)
        <5>1. \A a, b, c, d, e \in Nat : a <= b /\ c <= 2 * d /\ b + 0 + (2 * d + 1) <= e
                                         => (a + (c + 1)) + 0 + 0 <= e
          OBVIOUS
        <5>2. n \in Nat /\ n <= 2 * Lanes
          BY <1>5
        <5> QED
          BY <1>2, <1>5, <3>4, <3>5, <3>6, <4>4, <4>5, <5>1, <5>2
      <4>7. pool' \in [free : Nat, ready : Nat]
        <5>1. PICK l : l = Lesser(pool.free, n)
          OBVIOUS
        <5>2. l \in Nat /\ pool.free - l \in Nat
          BY <1>2, <1>5, <5>1 DEF Lesser
        <5>3. pool' = [free |-> pool.free - l, ready |-> pool.ready + l]
          BY <4>2, <5>1 DEF TickTaken
        <5> QED
          BY <1>2, <5>2, <5>3
      <4> QED
        BY <3>2, <3>3, <3>9, <4>3, <4>5, <4>6, <4>7
    <3> QED
      BY <3>5, <3>7, <3>8
  <2> QED
    BY <1>1, <2>1, <2>2
<1>7. Typed'
  <2>1. poll' \in [stage : {"commands", "reports"}, outbox : Seq(Reps), work : Nat]
    BY <1>1, <1>2
  <2> QED
    BY <1>1, <1>6, <2>1 DEF Course, Typed
<1>8. Rounds'
  BY <1>1 DEF Course, Rounds
<1>9. Drive'
  BY <1>1, <1>3, <1>6 DEF Course, Drive
<1>10. Room(held)'
  <2>1. Len(wire.lossless) <= held /\ Len(wire.replies) + Len(poll.outbox) <= Most(held)
    BY DEF Course, Room
  <2>2. Len(wire'.lossless) <= held
    <3>1. Len(wire'.lossless) \in Nat
      BY <1>6, LenProperties
    <3> QED
      BY <1>2, <1>6, <2>1, <3>1
  <2> QED
    BY <1>1, <1>6, <2>1, <2>2 DEF Room
<1> QED
  BY <1>7, <1>8, <1>9, <1>10 DEF Course

LEMMA TakeReportsCourse ==
    ASSUME NEW held \in Nat, Roomy(held), Course(held), TakeReports
    PROVE  Course(held)'
<1>1. /\ turn = "worker" /\ poll.stage = "commands" /\ ~HasCommand
      /\ poll'.stage = "reports" /\ poll'.outbox = kernel
      /\ poll' \in [stage : {"commands", "reports"}, outbox : Seq(Reps), work : Nat]
      /\ kernel' = <<>>
      /\ UNCHANGED <<queues, world, phase, budget, batch, asked>>
      /\ UNCHANGED <<turn, attempt, returned, wire, pool>>
  BY ReportsTaken DEF Course, loopVars
<1>2. Typed'
  <2>1. <<>> \in Seq(Reps)
    OBVIOUS
  <2> QED
    BY <1>1, <2>1 DEF Course, Typed
<1>3. Rounds'
  BY <1>1 DEF Course, Rounds, HasCommand
<1>4. Drive'
  BY <1>1 DEF Course, Drive, HasCommand
<1>5. Room(held)'
  <2>1. /\ kernel \in Seq(Reps) /\ wire.lossless \in Seq({"LoadRom"}) /\ wire.replies \in Seq(Reps)
        /\ poll.outbox \in Seq(Reps)
    BY DEF Course, Typed
  <2>2. /\ Len(kernel) \in Nat /\ Len(wire.lossless) \in Nat /\ Len(wire.replies) \in Nat
        /\ Len(poll.outbox) \in Nat /\ Most(held) \in Nat
    BY <2>1, LenProperties, MostNat
  <2>3. wire.lossless = <<>> /\ ~wire.mail /\ Len(wire.lossless) = 0
    BY <1>1 DEF HasCommand
  <2>4. Len(kernel) + 0 + 0 <= Most(held)
    <3>1. Len(kernel) + Len(wire.lossless) + (IF wire.mail THEN 2 * Lanes + 1 ELSE 0) <= Most(held)
      BY <1>1 DEF Course, Room
    <3> QED
      BY <2>3, <3>1
  <2>5. Len(wire.replies) + Len(kernel) <= Most(held)
    <3>1. CASE kernel = <<>>
      <4>1. Len(kernel) = 0
        BY <3>1
      <4>2. Len(wire.replies) + Len(poll.outbox) <= Most(held)
        BY DEF Course, Room
      <4>3. \A a, b, c \in Nat : a + b <= c => a + 0 <= c
        OBVIOUS
      <4> QED
        BY <2>2, <4>1, <4>2, <4>3
    <3>2. CASE kernel # <<>>
      <4>1. wire.replies = <<>> /\ Len(<<>>) = 0
        BY <1>1, <3>2 DEF Course, Drive
      <4>2. \A a, c \in Nat : a + 0 + 0 <= c => 0 + a <= c
        OBVIOUS
      <4> QED
        BY <2>2, <2>4, <4>1, <4>2
    <3> QED
      BY <3>1, <3>2
  <2>6. Len(<<>>) = 0 /\ 0 + 0 + 0 <= Most(held)
    BY <2>2
  <2> QED
    BY <1>1, <2>3, <2>5, <2>6 DEF Course, Room
<1> QED
  BY <1>2, <1>3, <1>4, <1>5 DEF Course

LEMMA PublishCourse ==
    ASSUME NEW held \in Nat, Course(held), Publish
    PROVE  Course(held)'
<1>1. /\ turn = "worker" /\ poll.stage = "reports" /\ poll.outbox # <<>>
      /\ poll'.stage = poll.stage /\ poll'.outbox = Tail(poll.outbox)
      /\ poll' \in [stage : {"commands", "reports"}, outbox : Seq(Reps), work : Nat]
      /\ wire'.lossless = wire.lossless /\ wire'.mail = wire.mail
      /\ wire' = [wire EXCEPT !.replies = wire'.replies]
      /\ wire'.replies = IF RepliesFit(Head(poll.outbox))
                         THEN Append(wire.replies, Head(poll.outbox)) ELSE wire.replies
      /\ UNCHANGED <<queues, world, phase, budget, batch, asked>>
      /\ UNCHANGED <<turn, attempt, returned, kernel, pool>>
  BY Published DEF Course, loopVars
<1>2. /\ poll.outbox \in Seq(Reps) /\ wire.replies \in Seq(Reps)
      /\ wire \in [lossless : Seq({"LoadRom"}), mail : BOOLEAN, replies : Seq(Reps),
                   uploads : Nat, shown : Nat]
  BY DEF Course, Typed
<1>3. Head(poll.outbox) \in Reps /\ Len(Tail(poll.outbox)) \in Nat
      /\ Len(poll.outbox) = Len(Tail(poll.outbox)) + 1
  BY <1>1, <1>2, Popped
<1>4. PICK r : r = wire'.replies
  OBVIOUS
<1>5. r \in Seq(Reps) /\ Len(r) \in Nat /\ Len(r) <= Len(wire.replies) + 1 /\ Len(wire.replies) \in Nat
  <2>1. Len(wire.replies) \in Nat
    BY <1>2, LenProperties
  <2>2. CASE RepliesFit(Head(poll.outbox))
    <3>1. r = Append(wire.replies, Head(poll.outbox))
      BY <1>1, <1>4, <2>2
    <3>2. r \in Seq(Reps) /\ Len(r) = Len(wire.replies) + 1
      BY <1>2, <1>3, <3>1, Appended
    <3> QED
      BY <2>1, <3>2
  <2>3. CASE ~RepliesFit(Head(poll.outbox))
    BY <1>1, <1>2, <1>4, <2>1, <2>3
  <2> QED
    BY <2>2, <2>3
<1>6. Typed'
  <2>1. wire' \in [lossless : Seq({"LoadRom"}), mail : BOOLEAN, replies : Seq(Reps),
                   uploads : Nat, shown : Nat]
    <3>1. wire' = [wire EXCEPT !.replies = r]
      BY <1>1, <1>4
    <3> QED
      BY <1>2, <1>5, <3>1
  <2> QED
    BY <1>1, <2>1 DEF Course, Typed
<1>7. Rounds'
  BY <1>1 DEF Course, Rounds, HasCommand
<1>8. Drive'
  <2>1. ~HasCommand /\ kernel = <<>>
    BY <1>1 DEF Course, Drive
  <2> QED
    BY <1>1, <2>1 DEF Drive, HasCommand
<1>9. Room(held)'
  <2>1. Len(r) + Len(Tail(poll.outbox)) <= Most(held)
    <3>1. \A a, b, c, d, e \in Nat : a <= b + 1 /\ c = d + 1 /\ b + c <= e => a + d <= e
      OBVIOUS
    <3>2. Len(wire.replies) + Len(poll.outbox) <= Most(held) /\ Most(held) \in Nat
      BY MostNat DEF Course, Room
    <3>3. Len(poll.outbox) \in Nat
      BY <1>3
    <3>4. PICK n \in Nat : n = Len(Tail(poll.outbox))
      BY <1>3
    <3>5. PICK m \in Nat : m = Len(poll.outbox)
      BY <3>3
    <3>6. m = n + 1 /\ Len(wire.replies) + m <= Most(held)
      BY <1>3, <3>2, <3>4, <3>5
    <3>7. Len(r) + n <= Most(held)
      BY <1>5, <3>1, <3>2, <3>6
    <3> QED
      BY <3>4, <3>7
  <2> QED
    BY <1>1, <1>4, <2>1 DEF Course, Room
<1> QED
  BY <1>6, <1>7, <1>8, <1>9 DEF Course

LEMMA EndWorkerRunCourse ==
    ASSUME NEW held \in Nat, Course(held), EndWorkerRun
    PROVE  Course(held)'
<1>1. /\ turn = "worker" /\ poll.stage = "reports" /\ poll.outbox = <<>>
      /\ wire'.lossless = wire.lossless /\ wire'.mail = wire.mail
      /\ wire'.replies = wire.replies /\ wire'.uploads \in Nat /\ wire'.shown \in Nat
      /\ wire' = [wire EXCEPT !.uploads = wire'.uploads, !.shown = wire'.shown]
      /\ poll'.stage = "commands" /\ poll'.outbox = <<>>
      /\ poll' \in [stage : {"commands", "reports"}, outbox : Seq(Reps), work : Nat]
      /\ \/ turn' = turn /\ attempt' = attempt
         \/ turn' = "fetch" /\ attempt > MaxAttempts /\ attempt' = attempt
         \/ turn' = "scheduler" /\ attempt <= MaxAttempts /\ attempt' = attempt + 1
      /\ UNCHANGED <<queues, world, phase, budget, batch, asked>>
      /\ UNCHANGED <<returned, kernel, pool>>
  BY RunEnded DEF Course, loopVars
<1>2. Typed'
  <2>1. wire' \in [lossless : Seq({"LoadRom"}), mail : BOOLEAN, replies : Seq(Reps),
                   uploads : Nat, shown : Nat]
    BY <1>1 DEF Course, Typed
  <2>2. attempt' \in Nat /\ turn' \in {"page", "scheduler", "ran", "worker", "fetch"}
    <3>1. attempt \in Nat
      BY DEF Course, Typed
    <3> QED
      BY <1>1, <3>1
  <2> QED
    BY <1>1, <2>1, <2>2 DEF Course, Typed
<1>3. Rounds'
  <2>1. ~HasCommand /\ kernel = <<>> /\ phase = "idle" /\ batch = <<>>
    BY <1>1 DEF Course, Drive, Rounds
  <2>2. turn' = "scheduler" => attempt' <= MaxAttempts
    <3>1. attempt \in Nat /\ attempt # MaxAttempts
      BY <1>1 DEF Course, Typed, Rounds
    <3> QED
      BY <1>1, <3>1 DEF MaxAttempts
  <2>3. attempt <= MaxAttempts => returned = <<>>
    BY <1>1 DEF Course, Rounds
  <2>4. turn' = "worker" => attempt' # MaxAttempts /\ (attempt' <= MaxAttempts => returned' = <<>>)
    BY <1>1, <2>3 DEF Course, Rounds
  <2>5. turn' # "page" /\ turn' # "ran"
    BY <1>1
  <2>6. turn' = "scheduler" => returned' = <<>>
    BY <1>1, <2>3
  <2> QED
    BY <1>1, <2>1, <2>2, <2>4, <2>5, <2>6 DEF Rounds, HasCommand
<1>4. Drive'
  <2>1. ~HasCommand /\ kernel = <<>>
    BY <1>1 DEF Course, Drive
  <2> QED
    BY <1>1, <2>1 DEF Drive, HasCommand
<1>5. Room(held)'
  BY <1>1 DEF Course, Room
<1> QED
  BY <1>2, <1>3, <1>4, <1>5 DEF Course

LEMMA FetchCourse ==
    ASSUME NEW held \in Nat, Course(held), Fetch
    PROVE  Course(held)'
<1>1. /\ turn = "fetch" /\ UNCHANGED <<queues, world, phase, budget, batch, asked>>
      /\ UNCHANGED <<attempt, wire, kernel, poll>>
      /\ \/ returned = <<>> /\ turn' = "page"
         \/ turn' = turn
      /\ returned = <<>> => returned' = <<>>
      /\ returned' \in Seq(Reps) /\ pool' \in [free : Nat, ready : Nat]
  BY FetchedOne DEF Course, Typed, loopVars
<1>2. Typed'
  BY <1>1 DEF Course, Typed
<1>3. Rounds'
  BY <1>1 DEF Course, Rounds, HasCommand
<1>4. Drive'
  BY <1>1 DEF Course, Drive, HasCommand
<1>5. Room(held)'
  BY <1>1 DEF Course, Room
<1> QED
  BY <1>2, <1>3, <1>4, <1>5 DEF Course

LEMMA NextCourse ==
    ASSUME NEW held \in Nat, Roomy(held), Course(held), [Next]_vars
    PROVE  Course(held)'
<1>1. CASE Next
  BY <1>1, LoadRomCourse, TickCallCourse, BeginCourse, ReduceCourse, CollectCourse, ReactCourse,
     FinishCourse, LeaveCourse, ExecuteCourse, TakeReportsCourse, PublishCourse,
     EndWorkerRunCourse, FetchCourse DEF Next, Run
<1>2. CASE UNCHANGED vars
  BY <1>2 DEF vars, loopVars, fabricVars, Course, Typed, Rounds, Drive, Room, HasCommand
<1> QED
  BY <1>1, <1>2

(* ------------------------------- the slots ------------------------------ *)

LEMMA SlotsRest ==
    ASSUME Slots, kernel' = kernel, poll'.outbox = poll.outbox, wire'.replies = wire.replies,
           returned' = returned, pool' = pool
    PROVE  Slots'
BY DEF Slots, SlotsAccounted

LEMMA AnnouncedEmpty == Announced(<<>>) = 0
BY AnnouncedNone

LEMMA InitSlots == Init => Slots
<1> SUFFICES ASSUME Init PROVE Slots
  OBVIOUS
<1>1. kernel = <<>> /\ poll.outbox = <<>> /\ wire.replies = <<>> /\ returned = <<>>
      /\ pool.free = SlotCount /\ pool.ready = 0
  BY DEF Init
<1>2. SlotsAccounted
  BY <1>1, AnnouncedEmpty, FabricAssumption DEF SlotsAccounted
<1> QED
  BY <1>1, <1>2 DEF Slots, SlotsFirst

(* The frames of a tick that are in slots.                                  *)
LEMMA TickAnnounces ==
    ASSUME NEW free \in Nat, NEW n \in Nat, NEW t, TickShape(t, free, n)
    PROVE  /\ Announced(t) = Lesser(free, n)
           /\ \A i \in DOMAIN t : InSlot(t[i]) <=> i <= Lesser(free, n)
           /\ \A i \in DOMAIN t : i <= free => ~Inline(t[i])
<1>1. DOMAIN t = 1 .. n + 1
  BY LenProperties DEF TickShape
<1>2. \A i \in 1 .. n + 1 : i \in 1 .. n \/ i = n + 1
  OBVIOUS
<1>3. PICK l \in Nat : l = Lesser(free, n)
  BY DEF Lesser
<1>4. l <= n /\ l <= free /\ (l = n \/ l = free)
  BY <1>3 DEF Lesser
<1>5. ASSUME NEW i \in DOMAIN t PROVE (InSlot(t[i]) <=> i <= l) /\ (i <= free => ~Inline(t[i]))
  <2>1. CASE i \in 1 .. n
    <3>1. t[i].kind = "LaneFrame" /\ t[i].slot = (i <= free)
      BY <2>1 DEF TickShape
    <3>2. i <= l <=> i <= free
      BY <1>4, <2>1
    <3>3. InSlot(t[i]) <=> i <= free
      BY <3>1, Zenon DEF InSlot
    <3>4. i <= free => ~Inline(t[i])
      BY <3>1, Zenon DEF Inline
    <3> QED
      BY <3>2, <3>3, <3>4
  <2>2. CASE i = n + 1
    <3>1. t[i].kind = "TickDone"
      BY <2>2 DEF TickShape
    <3>2. ~(i <= l)
      BY <1>4, <2>2
    <3> QED
      BY <3>1, <3>2 DEF InSlot, Inline
  <2> QED
    BY <1>1, <1>2, <2>1, <2>2
<1>6. {i \in DOMAIN t : InSlot(t[i])} = 1 .. l
  <2>1. \A i \in 1 .. l : i \in 1 .. n + 1
    BY <1>4
  <2>2. \A i \in 1 .. n + 1 : i <= l => i \in 1 .. l
    OBVIOUS
  <2> QED
    BY <1>1, <1>5, <2>1, <2>2
<1>7. Cardinality(1 .. l) = l
  BY FS_Interval
<1> QED
  BY <1>3, <1>5, <1>6, <1>7 DEF Announced

LEMMA ExecuteSlots ==
    ASSUME NEW held \in Nat, Course(held), Slots, Execute
    PROVE  Slots'
<1>1. /\ turn = "worker" /\ poll.stage = "commands" /\ HasCommand
      /\ poll'.outbox = poll.outbox /\ wire'.replies = wire.replies /\ returned' = returned
      /\ LoadDone \/ TickDone
  BY Executed DEF Course
<1>2. kernel \in Seq(Reps) /\ pool \in [free : Nat, ready : Nat]
  BY DEF Course, Typed
<1>3. /\ \A i \in DOMAIN kernel : kernel[i].kind = "RomLoaded"
      /\ poll.outbox = <<>>
  BY <1>1 DEF Course, Drive
<1>4. Announced(kernel) = 0
  BY <1>3, AnnouncedNone DEF InSlot
<1>5. SlotsFirst(poll'.outbox)
  BY <1>1 DEF Slots
<1>6. (\E i \in DOMAIN wire'.replies : Inline(wire'.replies[i]))
         => \A j \in DOMAIN poll'.outbox : ~InSlot(poll'.outbox[j])
  BY <1>1 DEF Slots
<1>7. ASSUME NEW q, kernel' = q, \A i \in DOMAIN q : ~InSlot(q[i]), pool' = pool
      PROVE  Slots'
  <2>1. Announced(q) = 0
    BY <1>7, AnnouncedNone
  <2>2. SlotsAccounted'
    BY <1>1, <1>4, <1>7, <2>1 DEF Slots, SlotsAccounted
  <2>3. SlotsFirst(q)
    BY <1>7 DEF SlotsFirst
  <2> QED
    BY <1>5, <1>6, <1>7, <2>2, <2>3 DEF Slots
<1>8. CASE LoadDone
  <2>1. CASE kernel' = kernel
    BY <1>3, <1>7, <1>8, <2>1 DEF LoadDone, InSlot
  <2>2. CASE kernel' = Append(kernel, [kind |-> "RomLoaded"])
    <3>1. [kind |-> "RomLoaded"] \in Reps
      BY DEF Reps
    <3>2. PICK q : q = kernel'
      OBVIOUS
    <3>3. /\ q \in Seq(Reps) /\ Len(q) = Len(kernel) + 1
          /\ \A i \in 1 .. Len(kernel) : q[i] = kernel[i]
          /\ q[Len(kernel) + 1] = [kind |-> "RomLoaded"]
      BY <1>2, <2>2, <3>1, <3>2, AppendProperties
    <3>4. /\ DOMAIN q = 1 .. Len(kernel) + 1 /\ DOMAIN kernel = 1 .. Len(kernel)
          /\ Len(kernel) \in Nat
      BY <1>2, <3>3, LenProperties
    <3>5. ASSUME NEW i \in DOMAIN q PROVE ~InSlot(q[i])
      <4>1. \A n \in Nat : \A j \in 1 .. n + 1 : j \in 1 .. n \/ j = n + 1
        OBVIOUS
      <4>2. i \in 1 .. Len(kernel) \/ i = Len(kernel) + 1
        BY <3>4, <4>1
      <4>3. CASE i \in 1 .. Len(kernel)
        BY <1>3, <3>3, <3>4, <4>3 DEF InSlot
      <4>4. CASE i = Len(kernel) + 1
        BY <3>3, <4>4 DEF InSlot
      <4> QED
        BY <4>2, <4>3, <4>4
    <3>6. pool' = pool
      BY <1>8 DEF LoadDone
    <3> QED
      BY <1>7, <3>2, <3>5, <3>6
  <2> QED
    BY <1>8, <2>1, <2>2 DEF LoadDone
<1>9. CASE TickDone
  <2>1. PICK k \in Seq(Reps) :
          /\ \A i \in DOMAIN k : \E j \in DOMAIN kernel : k[i] = kernel[j]
          /\ \/ kernel' = k /\ pool' = pool
             \/ \E n \in 1 .. 2 * Lanes : \E t : TickTaken(k, t, n)
    BY <1>9 DEF TickDone
  <2>2. \A i \in DOMAIN k : k[i].kind = "RomLoaded"
    BY <1>3, <2>1
  <2>3. \A i \in DOMAIN k : ~InSlot(k[i]) /\ ~Inline(k[i])
    BY <2>2 DEF InSlot, Inline
  <2>4. CASE kernel' = k /\ pool' = pool
    BY <1>7, <2>3, <2>4
  <2>5. CASE \E n \in 1 .. 2 * Lanes : \E t : TickTaken(k, t, n)
    <3>1. PICK n \in 1 .. 2 * Lanes : \E t : TickTaken(k, t, n)
      BY <2>5
    <3>2. PICK t : TickTaken(k, t, n)
      BY <3>1
    <3>3. n \in Nat /\ pool.free \in Nat /\ pool.ready \in Nat
      BY <1>2, FabricAssumption
    <3>4. PICK l \in Nat : l = Lesser(pool.free, n)
      BY <3>3 DEF Lesser
    <3>5. pool'.free = pool.free - l /\ pool'.ready = pool.ready + l /\ l <= pool.free
      <4>1. pool' = [free |-> pool.free - l, ready |-> pool.ready + l]
        BY <3>2, <3>4 DEF TickTaken
      <4>2. l <= pool.free
        BY <3>3, <3>4 DEF Lesser
      <4> QED
        BY <4>1, <4>2
    <3>6. /\ t \in Seq(Reps) /\ Announced(t) = l
          /\ \A i \in DOMAIN t : InSlot(t[i]) <=> i <= l
          /\ \A i \in DOMAIN t : i <= pool.free => ~Inline(t[i])
      <4>1. TickShape(t, pool.free, n)
        BY <3>2 DEF TickTaken
      <4> QED
        BY <3>3, <3>4, <4>1, TickAnnounces DEF TickShape
    <3>7. PICK q : q = k \o t
      OBVIOUS
    <3>8. kernel' = q
      BY <3>2, <3>7 DEF TickTaken
    <3>9. Announced(q) = l
      <4>1. Announced(k) = 0
        BY <2>3, AnnouncedNone
      <4>2. Announced(q) = Announced(k) + Announced(t)
        BY <3>6, <3>7, AnnouncedJoin
      <4> QED
        BY <3>6, <4>1, <4>2
    <3>10. SlotsFirst(q)
      <4>1. /\ Len(q) = Len(k) + Len(t) /\ q \in Seq(Reps)
            /\ \A i \in 1 .. Len(k) + Len(t) : q[i] = IF i <= Len(k) THEN k[i] ELSE t[i - Len(k)]
        BY <3>6, <3>7, ConcatProperties
      <4>2. PICK a, b \in Nat : a = Len(k) /\ b = Len(t)
        BY <3>6, LenProperties
      <4>3. DOMAIN q = 1 .. a + b /\ DOMAIN k = 1 .. a /\ DOMAIN t = 1 .. b
        BY <3>6, <4>1, <4>2, LenProperties
      <4>4. ASSUME NEW i \in DOMAIN q, NEW j \in DOMAIN q, i < j, InSlot(q[j])
            PROVE  ~Inline(q[i])
        <5>1. CASE i <= a
          <6>1. i \in DOMAIN k /\ q[i] = k[i]
            BY <4>1, <4>2, <4>3, <5>1
          <6> QED
            BY <2>3, <6>1
        <5>2. CASE ~(i <= a)
          <6>1. /\ i - a \in 1 .. b /\ j - a \in 1 .. b /\ i - a < j - a
                /\ ~(j <= a)
            BY <4>3, <4>4, <5>2
          <6>2. q[i] = t[i - a] /\ q[j] = t[j - a]
            BY <4>1, <4>2, <4>3, <5>2, <6>1
          <6>3. j - a <= l
            BY <3>6, <4>3, <4>4, <6>1, <6>2
          <6>4. i - a <= pool.free
            BY <3>3, <3>5, <6>1, <6>3
          <6> QED
            BY <3>6, <4>3, <6>1, <6>2, <6>4
        <5> QED
          BY <5>1, <5>2
      <4> QED
        BY <4>4 DEF SlotsFirst
    <3>11. SlotsAccounted'
      <4>1. pool.free + pool.ready = SlotCount
            /\ pool.ready = 0 + Announced(poll.outbox) + Announced(wire.replies) + Announced(returned)
        BY <1>4 DEF Slots, SlotsAccounted
      <4>2. /\ Announced(poll.outbox) \in Nat /\ Announced(wire.replies) \in Nat
            /\ Announced(returned) \in Nat
        BY AnnouncedCount DEF Course, Typed
      <4>3. /\ (pool.free - l) + (pool.ready + l) = SlotCount
            /\ pool.ready + l = l + Announced(poll.outbox) + Announced(wire.replies)
                                  + Announced(returned)
        <5>1. PICK x, y, z \in Nat : x = Announced(poll.outbox) /\ y = Announced(wire.replies)
                                     /\ z = Announced(returned)
          BY <4>2
        <5>2. pool.ready = 0 + x + y + z
          BY <4>1, <5>1
        <5>3. pool.ready + l = l + x + y + z /\ (pool.free - l) + (pool.ready + l) = pool.free + pool.ready
          BY <3>3, <5>2
        <5> QED
          BY <4>1, <5>1, <5>3
      <4> QED
        BY <1>1, <3>5, <3>8, <3>9, <4>3 DEF SlotsAccounted
    <3> QED
      BY <1>5, <1>6, <3>8, <3>10, <3>11 DEF Slots
  <2> QED
    BY <2>1, <2>4, <2>5
<1> QED
  BY <1>1, <1>8, <1>9

LEMMA TakeReportsSlots ==
    ASSUME NEW held \in Nat, Roomy(held), Course(held), Slots, TakeReports
    PROVE  Slots'
<1>1. /\ poll'.outbox = kernel /\ kernel' = <<>> /\ wire' = wire /\ returned' = returned
      /\ pool' = pool /\ turn = "worker" /\ poll.stage = "commands"
  BY ReportsTaken DEF Course
<1>2. poll.outbox = <<>>
  BY <1>1 DEF Course, Drive
<1>3. Announced(kernel) \in Nat /\ Announced(wire.replies) \in Nat /\ Announced(returned) \in Nat
  BY AnnouncedCount DEF Course, Typed
<1>4. SlotsAccounted'
  <2>1. pool.ready = Announced(kernel) + 0 + Announced(wire.replies) + Announced(returned)
    BY <1>2, AnnouncedEmpty DEF Slots, SlotsAccounted
  <2>2. pool.ready = 0 + Announced(kernel) + Announced(wire.replies) + Announced(returned)
    BY <1>3, <2>1
  <2> QED
    BY <1>1, <2>2, AnnouncedEmpty DEF Slots, SlotsAccounted
<1>5. SlotsFirst(<<>>) /\ SlotsFirst(kernel)
  BY DEF Slots, SlotsFirst
<1>6. (\E i \in DOMAIN wire.replies : Inline(wire.replies[i])) => kernel = <<>>
  <2>1. kernel # <<>> => wire.replies = <<>>
    BY <1>1 DEF Course, Drive
  <2> QED
    BY <2>1
<1> QED
  BY <1>1, <1>4, <1>5, <1>6 DEF Slots

(* Without a report that carries pixels a ring holds many, and one with     *)
(* pixels beside them.                                                      *)
LEMMA ShortReports ==
    ASSUME NEW s \in Seq(Reps), \A i \in DOMAIN s : ~Inline(s[i])
    PROVE  Used(s) = Len(s)
<1>1. Carried(s) = {}
  BY DEF Carried
<1>2. Cardinality(Carried(s)) = 0
  BY <1>1, FS_EmptySet
<1> QED
  BY <1>2, LenProperties, FabricAssumption DEF Used

(* A report behind others: of them, and itself.                             *)
LEMMA Behind ==
    ASSUME NEW s \in Seq(Reps), NEW r \in Reps, NEW u, u = Append(s, r)
    PROVE  /\ u \in Seq(Reps) /\ Len(u) = Len(s) + 1 /\ Len(s) \in Nat
           /\ DOMAIN u = 1 .. Len(s) + 1 /\ DOMAIN s = 1 .. Len(s)
           /\ \A i \in DOMAIN s : i \in DOMAIN u /\ u[i] = s[i]
           /\ u[Len(s) + 1] = r
           /\ \A i \in DOMAIN u : i \in DOMAIN s \/ i = Len(s) + 1
<1>1. /\ u \in Seq(Reps) /\ Len(u) = Len(s) + 1
      /\ \A i \in 1 .. Len(s) : u[i] = s[i]
      /\ u[Len(s) + 1] = r
  BY AppendProperties
<1>2. DOMAIN u = 1 .. Len(s) + 1 /\ DOMAIN s = 1 .. Len(s) /\ Len(s) \in Nat
  BY <1>1, LenProperties
<1>3. \A n \in Nat : \A j \in 1 .. n + 1 : j \in 1 .. n \/ j = n + 1
  OBVIOUS
<1>4. \A n \in Nat : \A j \in 1 .. n : j \in 1 .. n + 1
  OBVIOUS
<1> QED
  BY <1>1, <1>2, <1>3, <1>4

(* A report in a slot fits the reply ring, as nothing carries pixels before *)
(* it.                                                                      *)
LEMMA SlotFits ==
    ASSUME NEW held \in Nat, Roomy(held), Course(held), Slots,
           poll.outbox # <<>>, InSlot(Head(poll.outbox))
    PROVE  RepliesFit(Head(poll.outbox))
<1> DEFINE h == Head(poll.outbox)
<1>1. h \in Reps /\ h = poll.outbox[1] /\ poll.outbox \in Seq(Reps)
      /\ Len(poll.outbox) \in Nat \ {0} /\ wire.replies \in Seq(Reps)
  BY Popped, EmptyLen DEF Course, Typed
<1>2. 1 \in DOMAIN poll.outbox
  BY <1>1, LenProperties
<1>3. \A i \in DOMAIN wire.replies : ~Inline(wire.replies[i])
  BY <1>1, <1>2 DEF Slots
<1>4. PICK u : u = Append(wire.replies, h)
  OBVIOUS
<1>5. /\ u \in Seq(Reps) /\ Len(u) = Len(wire.replies) + 1 /\ Len(wire.replies) \in Nat
      /\ \A i \in DOMAIN u : u[i] = h \/ \E j \in DOMAIN wire.replies : u[i] = wire.replies[j]
  BY <1>1, <1>4, Behind
<1>6. \A i \in DOMAIN u : ~Inline(u[i])
  <2>1. ~Inline(h)
    BY DEF InSlot, Inline
  <2> QED
    BY <1>3, <1>5, <2>1
<1>7. Used(u) = Len(u)
  BY <1>5, <1>6, ShortReports
<1>8. Len(u) < ReplyRing
  <2>1. Len(wire.replies) + Len(poll.outbox) <= Most(held)
    BY DEF Course, Room
  <2>2. Most(held) + InlineSize <= ReplyRing
    BY DEF Roomy
  <2>3. \A a, b, c, d, e \in Nat : a + b <= c /\ b # 0 /\ c + d <= e /\ d # 0 => a + 1 < e
    OBVIOUS
  <2>4. InlineSize \in Nat /\ InlineSize # 0 /\ ReplyRing \in Nat
    BY FabricAssumption
  <2>5. Len(wire.replies) + 1 < ReplyRing
    BY <1>1, <1>5, <2>1, <2>2, <2>3, <2>4, MostNat
  <2> QED
    BY <1>5, <2>5
<1> QED
  BY <1>4, <1>7, <1>8 DEF RepliesFit

LEMMA PublishSlots ==
    ASSUME NEW held \in Nat, Roomy(held), Course(held), Slots, Publish
    PROVE  Slots'
<1> DEFINE h == Head(poll.outbox)
<1>1. /\ poll.outbox # <<>> /\ poll'.outbox = Tail(poll.outbox)
      /\ wire'.replies = IF RepliesFit(h) THEN Append(wire.replies, h) ELSE wire.replies
      /\ returned' = returned /\ kernel' = kernel /\ pool' = pool
  BY Published DEF Course
<1>2. poll.outbox \in Seq(Reps) /\ wire.replies \in Seq(Reps)
  BY DEF Course, Typed
<1>3. PICK t : t = Tail(poll.outbox)
  OBVIOUS
<1>4. /\ t \in Seq(Reps) /\ h \in Reps /\ h = poll.outbox[1] /\ Len(poll.outbox) = Len(t) + 1
      /\ \A i \in 1 .. Len(t) : t[i] = poll.outbox[i + 1]
      /\ Announced(poll.outbox) = (IF InSlot(h) THEN 1 ELSE 0) + Announced(t)
  BY <1>1, <1>2, <1>3, AnnouncedTail
<1>5. /\ Len(t) \in Nat /\ DOMAIN t = 1 .. Len(t) /\ DOMAIN poll.outbox = 1 .. Len(t) + 1
  BY <1>2, <1>4, LenProperties
<1>6. \A i \in DOMAIN t : i + 1 \in DOMAIN poll.outbox /\ t[i] = poll.outbox[i + 1]
                          /\ 1 < i + 1
  BY <1>4, <1>5
<1>7. 1 \in DOMAIN poll.outbox
  BY <1>5
<1>8. SlotsFirst(t)
  <2>1. ASSUME NEW i \in DOMAIN t, NEW j \in DOMAIN t, i < j, InSlot(t[j]) PROVE ~Inline(t[i])
    <3>1. i + 1 < j + 1
      BY <1>5, <2>1
    <3>2. SlotsFirst(poll.outbox)
      BY DEF Slots
    <3> QED
      BY <1>6, <2>1, <3>1, <3>2 DEF SlotsFirst
  <2> QED
    BY <2>1 DEF SlotsFirst
<1>9. Inline(h) => \A j \in DOMAIN t : ~InSlot(t[j])
  <2>1. SlotsFirst(poll.outbox)
    BY DEF Slots
  <2> QED
    BY <1>4, <1>6, <1>7, <2>1 DEF SlotsFirst
<1>10. PICK x \in Nat : x = IF InSlot(h) THEN 1 ELSE 0
  OBVIOUS
<1>11. PICK a, b, c, d \in Nat : a = Announced(kernel) /\ b = Announced(t)
                                /\ c = Announced(wire.replies) /\ d = Announced(returned)
  BY <1>4, AnnouncedCount DEF Course, Typed
<1>12. pool.free + pool.ready = SlotCount /\ pool.ready = a + (x + b) + c + d
  BY <1>4, <1>10, <1>11 DEF Slots, SlotsAccounted
<1>13. PICK r : r = wire'.replies
  OBVIOUS
<1>14. CASE RepliesFit(h)
  <2>1. r = Append(wire.replies, h)
    BY <1>1, <1>13, <1>14
  <2>2. Announced(r) = c + x
    BY <1>2, <1>4, <1>10, <1>11, <2>1, AnnouncedAppend
  <2>3. SlotsAccounted'
    <3>1. pool.ready = a + b + (c + x) + d
      BY <1>12
    <3> QED
      BY <1>1, <1>3, <1>11, <1>12, <1>13, <2>2, <3>1 DEF SlotsAccounted
  <2>4. (\E i \in DOMAIN r : Inline(r[i])) => \A j \in DOMAIN t : ~InSlot(t[j])
    <3>1. \A i \in DOMAIN r : r[i] = h \/ \E j \in DOMAIN wire.replies : r[i] = wire.replies[j]
      BY <1>2, <1>4, <2>1, Behind
    <3>2. (\E i \in DOMAIN wire.replies : Inline(wire.replies[i]))
            => \A j \in DOMAIN t : ~InSlot(t[j])
      BY <1>6 DEF Slots
    <3> QED
      BY <1>9, <3>1, <3>2
  <2> QED
    BY <1>1, <1>3, <1>8, <1>13, <2>3, <2>4 DEF Slots
<1>15. CASE ~RepliesFit(h)
  <2>1. r = wire.replies /\ x = 0
    BY <1>1, <1>10, <1>13, <1>15, SlotFits
  <2>2. SlotsAccounted'
    <3>1. pool.ready = a + b + c + d
      BY <1>12, <2>1
    <3> QED
      BY <1>1, <1>3, <1>11, <1>12, <1>13, <2>1, <3>1 DEF SlotsAccounted
  <2>3. (\E i \in DOMAIN r : Inline(r[i])) => \A j \in DOMAIN t : ~InSlot(t[j])
    BY <1>6, <2>1 DEF Slots
  <2> QED
    BY <1>1, <1>3, <1>8, <1>13, <2>2, <2>3 DEF Slots
<1> QED
  BY <1>14, <1>15

LEMMA CollectSlots ==
    ASSUME NEW held \in Nat, Roomy(held), Course(held), Slots, Collect
    PROVE  Slots'
<1>1. /\ turn = "scheduler" /\ phase = "intents" /\ wire'.replies = <<>>
      /\ poll' = poll /\ kernel' = kernel /\ pool' = pool
  BY Collected DEF Course
<1>2. PICK e \in Seq(Reps) :
        (\A i \in DOMAIN e : e[i].kind = "FrameShown") /\ returned' = wire.replies \o e
  BY Collected DEF Course
<1>3. returned = <<>>
  BY <1>1 DEF Course, Rounds
<1>4. Announced(e) = 0
  BY <1>2, AnnouncedNone DEF InSlot
<1>5. wire.replies \in Seq(Reps)
  BY DEF Course, Typed
<1>6. Announced(returned') = Announced(wire.replies) + 0
  BY <1>2, <1>4, <1>5, AnnouncedJoin
<1>7. PICK a, b, c \in Nat : a = Announced(kernel) /\ b = Announced(poll.outbox)
                             /\ c = Announced(wire.replies)
  BY <1>5, AnnouncedCount DEF Course, Typed
<1>8. pool.free + pool.ready = SlotCount /\ pool.ready = a + b + c + 0
  BY <1>3, <1>7, AnnouncedEmpty DEF Slots, SlotsAccounted
<1>9. SlotsAccounted'
  <2>1. Announced(wire'.replies) = 0 /\ Announced(returned') = c
    BY <1>1, <1>6, <1>7, AnnouncedEmpty
  <2>2. pool.ready = a + b + 0 + c
    BY <1>8
  <2> QED
    BY <1>1, <1>7, <1>8, <2>1, <2>2 DEF SlotsAccounted
<1> QED
  BY <1>1, <1>9 DEF Slots

LEMMA FetchSlots ==
    ASSUME NEW held \in Nat, Course(held), Slots, Fetch
    PROVE  Slots'
<1>1. /\ wire' = wire /\ kernel' = kernel /\ poll' = poll
      /\ \/ returned = <<>> /\ returned' = returned /\ pool' = pool
         \/ /\ returned # <<>> /\ returned' = Tail(returned)
            /\ IF InSlot(Head(returned)) /\ pool.ready > 0
               THEN pool'.free = pool.free + 1 /\ pool'.ready = pool.ready - 1
               ELSE pool' = pool
  BY FetchedOne DEF Course
<1>2. CASE returned = <<>>
  BY <1>1, <1>2, SlotsRest
<1>3. CASE returned # <<>>
  <2>1. PICK x \in Nat : x = IF InSlot(Head(returned)) THEN 1 ELSE 0
    OBVIOUS
  <2>2. Announced(returned) = x + Announced(Tail(returned)) /\ Tail(returned) \in Seq(Reps)
    BY <1>3, <2>1, AnnouncedTail DEF Course, Typed
  <2>3. PICK a, b, c, d \in Nat : a = Announced(kernel) /\ b = Announced(poll.outbox)
          /\ c = Announced(wire.replies) /\ d = Announced(Tail(returned))
    BY <2>2, AnnouncedCount DEF Course, Typed
  <2>4. pool.free + pool.ready = SlotCount /\ pool.ready = a + b + c + (x + d)
        /\ pool.free \in Nat /\ pool.ready \in Nat
    BY <2>2, <2>3 DEF Course, Typed, Slots, SlotsAccounted
  <2>5. CASE InSlot(Head(returned))
    <3>1. x = 1 /\ pool.ready > 0
      BY <2>1, <2>4, <2>5
    <3>2. pool'.free = pool.free + 1 /\ pool'.ready = pool.ready - 1
      BY <1>1, <1>3, <2>5, <3>1
    <3>3. pool'.free + pool'.ready = SlotCount /\ pool'.ready = a + b + c + d
      BY <2>4, <3>1, <3>2
    <3>4. SlotsAccounted'
      BY <1>1, <1>3, <2>3, <3>3 DEF SlotsAccounted
    <3> QED
      BY <1>1, <3>4 DEF Slots
  <2>6. CASE ~InSlot(Head(returned))
    <3>1. pool' = pool /\ pool.ready = a + b + c + d
      BY <1>1, <1>3, <2>1, <2>4, <2>6
    <3>2. SlotsAccounted'
      BY <1>1, <1>3, <2>3, <2>4, <3>1 DEF SlotsAccounted
    <3> QED
      BY <1>1, <3>2 DEF Slots
  <2> QED
    BY <2>5, <2>6
<1> QED
  BY <1>2, <1>3

LEMMA NextSlots ==
    ASSUME NEW held \in Nat, Roomy(held), Course(held), Slots, [Next]_vars
    PROVE  Slots'
<1>1. CASE LoadRom
  BY <1>1, SlotsRest DEF LoadRom, fabricVars
<1>2. CASE TickCall
  <2>1. returned = <<>>
    BY <1>2 DEF TickCall, Course, Rounds
  <2> QED
    BY <1>2, <2>1, SlotsRest DEF TickCall
<1>3. CASE Begin
  BY <1>3, SlotsRest DEF Begin, fabricVars
<1>4. CASE Reduce
  <2>1. wire'.replies = wire.replies
    BY <1>4, Reduced DEF Course, Typed, Refused, Loaded, Pumped
  <2> QED
    BY <1>4, <2>1, SlotsRest DEF Reduce
<1>5. CASE React
  <2>1. wire'.replies = wire.replies
    BY <1>5, Reacted DEF Course, Typed
  <2> QED
    BY <1>5, <2>1, SlotsRest DEF React
<1>6. CASE Finish
  BY <1>6, SlotsRest DEF Finish
<1>7. CASE Leave
  BY <1>7, SlotsRest DEF Leave
<1>8. CASE EndWorkerRun
  <2>1. wire'.replies = wire.replies /\ poll'.outbox = poll.outbox /\ kernel' = kernel
        /\ returned' = returned /\ pool' = pool
    BY <1>8, RunEnded DEF Course
  <2> QED
    BY <2>1, SlotsRest
<1>9. CASE UNCHANGED vars
  BY <1>9, SlotsRest DEF vars, fabricVars
<1> QED
  BY <1>1, <1>2, <1>3, <1>4, <1>5, <1>6, <1>7, <1>8, <1>9, CollectSlots, ExecuteSlots,
     TakeReportsSlots, PublishSlots, FetchSlots DEF Next, Run

(* ------------------------------ the display ----------------------------- *)

LEMMA DisplayRest ==
    ASSUME Display, kernel' = kernel, poll'.outbox = poll.outbox, wire'.replies = wire.replies,
           \/ ~(turn' = "ran" \/ (turn' = "scheduler" /\ phase' = "reports"))
           \/ returned' = returned /\ (turn = "ran" \/ (turn = "scheduler" /\ phase = "reports"))
    PROVE  Display'
<1>1. turn' = "ran" \/ (turn' = "scheduler" /\ phase' = "reports") => Reported(0)'
  BY DEF Display, Reported
<1> QED
  BY <1>1 DEF Display

LEMMA InitDisplay == Init => Display
BY DEF Init, Display, DoneLast, HasDone

LEMMA NoReports ==
    /\ DoneLast(<<>>) /\ ~HasDone(<<>>) /\ ~HasShown(<<>>)
BY DEF DoneLast, HasDone, HasShown

LEMMA RomsOnly ==
    ASSUME NEW s \in Seq(Reps), \A i \in DOMAIN s : s[i].kind = "RomLoaded"
    PROVE  DoneLast(s) /\ ~HasDone(s)
BY DEF DoneLast, HasDone, IsDone

(* The worker takes a load while there are only loads.                      *)
LEMMA LoadQuiet ==
    ASSUME kernel \in Seq(Reps), \A i \in DOMAIN kernel : kernel[i].kind = "RomLoaded", LoadDone
    PROVE  DoneLast(kernel') /\ ~HasDone(kernel')
<1>1. CASE kernel' = kernel
  BY <1>1, RomsOnly
<1>2. CASE kernel' = Append(kernel, [kind |-> "RomLoaded"])
  <2>1. [kind |-> "RomLoaded"] \in Reps
    BY DEF Reps
  <2>2. PICK q : q = kernel'
    OBVIOUS
  <2>3. /\ q \in Seq(Reps)
        /\ \A i \in DOMAIN kernel : q[i] = kernel[i]
        /\ q[Len(kernel) + 1] = [kind |-> "RomLoaded"]
        /\ \A i \in DOMAIN q : i \in DOMAIN kernel \/ i = Len(kernel) + 1
    BY <1>2, <2>1, <2>2, Behind
  <2>4. \A i \in DOMAIN q : q[i].kind = "RomLoaded"
    BY <2>3
  <2> QED
    BY <2>2, <2>3, <2>4, RomsOnly
<1> QED
  BY <1>1, <1>2 DEF LoadDone

LEMMA ExecuteDisplay ==
    ASSUME NEW held \in Nat, Course(held), Course(held)', Display, Execute
    PROVE  Display'
<1>1. /\ turn = "worker" /\ HasCommand /\ turn' = "worker"
      /\ poll'.outbox = poll.outbox /\ wire'.replies = wire.replies
      /\ LoadDone \/ TickDone
  BY Executed DEF Course
<1>2. kernel \in Seq(Reps) /\ kernel' \in Seq(Reps)
  BY DEF Course, Typed
<1>3. \A i \in DOMAIN kernel : kernel[i].kind = "RomLoaded"
  BY <1>1 DEF Course, Drive
<1>4. /\ DoneLast(kernel') /\ (HasDone(kernel') => OpensWith(kernel'))
  <2>1. CASE LoadDone
    BY <1>2, <1>3, <2>1, LoadQuiet
  <2>2. CASE TickDone
    <3>1. PICK k \in Seq(Reps) :
            /\ \A i \in DOMAIN k : \E j \in DOMAIN kernel : k[i] = kernel[j]
            /\ \/ kernel' = k
               \/ \E n \in 1 .. 2 * Lanes : \E t : TickTaken(k, t, n)
      BY <2>2 DEF TickDone
    <3>2. \A i \in DOMAIN k : k[i].kind = "RomLoaded"
      BY <1>3, <3>1
    <3>3. CASE kernel' = k
      BY <3>2, <3>3, RomsOnly
    <3>4. CASE \E n \in 1 .. 2 * Lanes : \E t : TickTaken(k, t, n)
      <4>1. PICK n \in 1 .. 2 * Lanes : \E t : TickTaken(k, t, n)
        BY <3>4
      <4>2. PICK t : TickTaken(k, t, n)
        BY <4>1
      <4>3. n \in Nat \ {0}
        BY FabricAssumption
      <4>4. PICK q : q = kernel'
        OBVIOUS
      <4>5. /\ t \in Seq(Reps) /\ Len(t) = n + 1 /\ q = k \o t /\ q \in Seq(Reps)
            /\ \A i \in 1 .. n : t[i].kind = "LaneFrame"
            /\ t[1].lane = 0
        BY <1>2, <4>2, <4>4 DEF TickTaken, TickShape
      <4>6. /\ Len(q) = Len(k) + Len(t)
            /\ \A i \in 1 .. Len(k) + Len(t) : q[i] = IF i <= Len(k) THEN k[i] ELSE t[i - Len(k)]
        BY <4>5, ConcatProperties
      <4>7. PICK a \in Nat : a = Len(k)
        BY LenProperties
      <4>8. /\ Len(q) = a + n + 1 /\ DOMAIN q = 1 .. a + n + 1 /\ DOMAIN k = 1 .. a
            /\ \A i \in 1 .. a : q[i] = k[i]
            /\ \A i \in 1 .. n : q[i + a] = t[i]
        <5>1. \A i \in 1 .. n : i + a \in 1 .. a + (n + 1) /\ ~(i + a <= a) /\ (i + a) - a = i
          BY <4>3
        <5>2. \A i \in 1 .. a : i \in 1 .. a + (n + 1)
          BY <4>3
        <5>3. Len(q) = a + n + 1 /\ DOMAIN q = 1 .. a + n + 1 /\ DOMAIN k = 1 .. a
          BY <4>3, <4>5, <4>6, <4>7, LenProperties
        <5> QED
          BY <4>5, <4>6, <4>7, <5>1, <5>2, <5>3
      <4>9. DoneLast(q)
        <5>1. ASSUME NEW i \in DOMAIN q, IsDone(q[i]) PROVE i = Len(q)
          <6>1. ~(i \in 1 .. a)
            BY <3>2, <4>8, <5>1 DEF IsDone
          <6>2. ~(i - a \in 1 .. n)
            <7>1. i = (i - a) + a
              BY <4>8
            <7> QED
              BY <4>5, <4>8, <5>1, <7>1 DEF IsDone
          <6> QED
            BY <4>3, <4>8, <6>1, <6>2
        <5> QED
          BY <5>1 DEF DoneLast
      <4>10. OpensWith(q)
        <5>1. 1 + a \in DOMAIN q /\ 1 \in 1 .. n
          BY <4>3, <4>8
        <5>2. q[1 + a].kind = "LaneFrame" /\ q[1 + a].lane = 0
          BY <4>5, <4>8, <5>1
        <5>3. \A i \in DOMAIN q : i < 1 + a => i \in 1 .. a
          BY <4>8
        <5>4. \A i \in DOMAIN q : i < 1 + a => q[i].kind = "RomLoaded"
          BY <3>2, <4>8, <5>3
        <5> QED
          BY <5>1, <5>2, <5>4 DEF OpensWith, Shown, IsFrame
      <4> QED
        BY <4>4, <4>9, <4>10
    <3> QED
      BY <3>1, <3>3, <3>4
  <2> QED
    BY <1>1, <2>1, <2>2
<1>5. ~(turn' = "ran" \/ (turn' = "scheduler" /\ phase' = "reports"))
  BY <1>1
<1> QED
  BY <1>1, <1>4, <1>5 DEF Display

LEMMA TakeReportsDisplay ==
    ASSUME NEW held \in Nat, Roomy(held), Course(held), Display, TakeReports
    PROVE  Display'
<1>1. /\ poll'.outbox = kernel /\ kernel' = <<>> /\ wire' = wire /\ turn' = "worker"
      /\ turn = "worker" /\ poll.stage = "commands"
  BY ReportsTaken DEF Course
<1>2. kernel # <<>> => wire.replies = <<>>
  BY <1>1 DEF Course, Drive
<1>3. HasDone(kernel) => kernel # <<>>
  BY NoReports
<1>4. DoneLast(<<>>) /\ ~HasDone(<<>>)
  BY NoReports
<1>5. HasDone(kernel) =>
         /\ ~HasDone(wire.replies) /\ OpensWith(kernel)
         /\ \A i \in DOMAIN wire.replies : ~IsFrame(wire.replies[i])
  BY <1>2, <1>3, <1>4 DEF Display
<1>6. HasDone(wire.replies) => HasShown(wire.replies) /\ kernel = <<>>
  BY <1>2, <1>4 DEF Display
<1> QED
  BY <1>1, <1>4, <1>5, <1>6 DEF Display

(* A frame fits the reply ring if it is the first in it.                    *)
LEMMA FirstFrameFits ==
    ASSUME NEW held \in Nat, Roomy(held), Course(held), poll.outbox # <<>>,
           \A i \in DOMAIN wire.replies : ~IsFrame(wire.replies[i])
    PROVE  RepliesFit(Head(poll.outbox))
<1> DEFINE h == Head(poll.outbox)
<1>1. h \in Reps /\ poll.outbox \in Seq(Reps) /\ wire.replies \in Seq(Reps)
      /\ Len(poll.outbox) \in Nat \ {0}
  BY Popped, EmptyLen DEF Course, Typed
<1>2. PICK u : u = Append(wire.replies, h)
  OBVIOUS
<1>3. /\ u \in Seq(Reps) /\ Len(u) = Len(wire.replies) + 1 /\ Len(wire.replies) \in Nat
      /\ \A i \in DOMAIN wire.replies : u[i] = wire.replies[i]
      /\ \A i \in DOMAIN u : i \in DOMAIN wire.replies \/ i = Len(wire.replies) + 1
  BY <1>1, <1>2, Behind
<1>4. Carried(u) \subseteq {Len(wire.replies) + 1}
  <2>1. \A i \in DOMAIN wire.replies : ~Inline(u[i])
    BY <1>3 DEF IsFrame, Inline
  <2> QED
    BY <1>3, <2>1 DEF Carried
<1>5. Carried(u) = {} \/ Carried(u) = {Len(wire.replies) + 1}
  BY <1>4
<1>6. Cardinality(Carried(u)) = 0 \/ Cardinality(Carried(u)) = 1
  BY <1>5, FS_EmptySet, FS_Singleton
<1>7. Used(u) <= Len(wire.replies) + InlineSize
  <2>1. InlineSize \in Nat \ {0}
    BY FabricAssumption
  <2>2. \A n \in Nat : /\ n + 1 + 0 * (InlineSize - 1) <= n + InlineSize
                      /\ n + 1 + 1 * (InlineSize - 1) <= n + InlineSize
    BY <2>1
  <2> QED
    BY <1>3, <1>6, <2>2 DEF Used
<1>8. Used(u) \in Nat
  BY <1>3, <1>6, FabricAssumption DEF Used
<1>9. Used(u) < ReplyRing
  <2>1. Len(wire.replies) + Len(poll.outbox) <= Most(held)
    BY DEF Course, Room
  <2>2. Most(held) + InlineSize <= ReplyRing
    BY DEF Roomy
  <2>3. \A a, b, c, d, e, f \in Nat : f <= a + d /\ a + b <= c /\ b # 0 /\ c + d <= e => f < e
    OBVIOUS
  <2>4. InlineSize \in Nat /\ ReplyRing \in Nat
    BY FabricAssumption
  <2> QED
    BY <1>1, <1>3, <1>7, <1>8, <2>1, <2>2, <2>3, <2>4, MostNat
<1> QED
  BY <1>2, <1>9 DEF RepliesFit

LEMMA PublishDisplay ==
    ASSUME NEW held \in Nat, Roomy(held), Course(held), Display, Publish
    PROVE  Display'
<1> DEFINE h == Head(poll.outbox)
<1>1. /\ turn' = "worker" /\ poll.outbox # <<>> /\ poll'.outbox = Tail(poll.outbox)
      /\ wire'.replies = IF RepliesFit(h) THEN Append(wire.replies, h) ELSE wire.replies
      /\ kernel' = kernel
  BY Published DEF Course
<1>2. poll.outbox \in Seq(Reps) /\ wire.replies \in Seq(Reps)
  BY DEF Course, Typed
<1>3. PICK t : t = Tail(poll.outbox)
  OBVIOUS
<1>4. /\ t \in Seq(Reps) /\ h \in Reps /\ h = poll.outbox[1]
      /\ Len(t) \in Nat /\ Len(poll.outbox) = Len(t) + 1
      /\ \A i \in 1 .. Len(t) : t[i] = poll.outbox[i + 1]
  BY <1>1, <1>2, <1>3, Popped
<1>5. /\ DOMAIN t = 1 .. Len(t) /\ DOMAIN poll.outbox = 1 .. Len(t) + 1
  BY <1>2, <1>4, LenProperties
<1>6. /\ \A i \in DOMAIN t : i + 1 \in DOMAIN poll.outbox /\ t[i] = poll.outbox[i + 1]
      /\ \A i \in DOMAIN poll.outbox : i = 1 \/ (i - 1 \in DOMAIN t /\ poll.outbox[i] = t[i - 1])
  <2>1. \A i \in DOMAIN t : i + 1 \in DOMAIN poll.outbox
    BY <1>4, <1>5
  <2>2. \A i \in DOMAIN poll.outbox : i = 1 \/ (i - 1 \in 1 .. Len(t) /\ (i - 1) + 1 = i)
    BY <1>4, <1>5
  <2>3. \A i \in DOMAIN poll.outbox : i = 1 \/ (i - 1 \in DOMAIN t /\ poll.outbox[i] = t[i - 1])
    BY <1>4, <1>5, <2>2
  <2> QED
    BY <1>4, <1>5, <2>1, <2>3
<1>7. 1 \in DOMAIN poll.outbox
  BY <1>4, <1>5
<1>8. ~HasDone(wire.replies)
  BY <1>1 DEF Display
<1>9. DoneLast(t)
  <2>1. \A i \in DOMAIN t : IsDone(t[i]) => i + 1 = Len(t) + 1
    BY <1>4, <1>6 DEF Display, DoneLast
  <2>2. \A i \in DOMAIN t : i + 1 = Len(t) + 1 => i = Len(t)
    BY <1>4, <1>5
  <2> QED
    BY <2>1, <2>2 DEF DoneLast
<1>10. IsDone(h) => t = <<>>
  <2>1. IsDone(h) => 1 = Len(t) + 1
    BY <1>4, <1>7 DEF Display, DoneLast
  <2>2. 1 = Len(t) + 1 => Len(t) = 0
    BY <1>4
  <2> QED
    BY <1>4, <2>1, <2>2, EmptyLen
<1>11. HasDone(t) => HasDone(poll.outbox) /\ ~IsDone(h)
  <2>1. HasDone(t) => t # <<>>
    BY NoReports
  <2> QED
    BY <1>6, <1>10, <2>1 DEF HasDone
<1>12. HasDone(poll.outbox) =>
          \/ HasShown(wire.replies)
          \/ /\ OpensWith(poll.outbox)
             /\ \A i \in DOMAIN wire.replies : ~IsFrame(wire.replies[i])
  BY DEF Display
<1>13. OpensWith(poll.outbox) => Shown(h) \/ (~IsFrame(h) /\ OpensWith(t))
  <2>1. ASSUME NEW i \in DOMAIN poll.outbox, Shown(poll.outbox[i]),
               \A k \in DOMAIN poll.outbox : k < i => ~IsFrame(poll.outbox[k])
        PROVE  Shown(h) \/ (~IsFrame(h) /\ OpensWith(t))
    <3>1. CASE i = 1
      BY <1>4, <2>1, <3>1
    <3>2. CASE i # 1
      <4>1. i - 1 \in DOMAIN t /\ Shown(t[i - 1]) /\ 1 < i
        BY <1>5, <1>6, <2>1, <3>2
      <4>2. \A k \in DOMAIN t : k < i - 1 => k + 1 < i
        BY <1>5, <2>1
      <4>3. \A k \in DOMAIN t : k < i - 1 => ~IsFrame(t[k])
        BY <1>6, <2>1, <4>2
      <4>4. ~IsFrame(h)
        BY <1>4, <1>7, <2>1, <4>1
      <4> QED
        BY <4>1, <4>3, <4>4 DEF OpensWith
    <3> QED
      BY <3>1, <3>2
  <2> QED
    BY <2>1 DEF OpensWith
<1>14. PICK r : r = wire'.replies
  OBVIOUS
<1>15. CASE RepliesFit(h)
  <2>1. r = Append(wire.replies, h)
    BY <1>1, <1>14, <1>15
  <2>2. /\ r \in Seq(Reps) /\ Len(r) = Len(wire.replies) + 1
        /\ \A i \in DOMAIN wire.replies : i \in DOMAIN r /\ r[i] = wire.replies[i]
        /\ r[Len(wire.replies) + 1] = h /\ Len(wire.replies) + 1 \in DOMAIN r
        /\ \A i \in DOMAIN r : i \in DOMAIN wire.replies \/ i = Len(wire.replies) + 1
    <3>1. DOMAIN r = 1 .. Len(wire.replies) + 1 /\ Len(wire.replies) \in Nat
      BY <1>2, <1>4, <2>1, Behind
    <3>2. Len(wire.replies) + 1 \in DOMAIN r
      BY <3>1
    <3> QED
      BY <1>2, <1>4, <2>1, <3>2, Behind
  <2>3. DoneLast(r)
    BY <1>8, <2>2 DEF DoneLast, HasDone
  <2>4. HasDone(r) => IsDone(h)
    BY <1>8, <2>2 DEF HasDone
  <2>5. HasShown(wire.replies) \/ Shown(h) => HasShown(r)
    BY <2>2 DEF HasShown
  <2>6. HasDone(r) => HasShown(r) /\ t = <<>>
    <3>1. SUFFICES ASSUME HasDone(r) PROVE HasShown(r) /\ t = <<>>
      OBVIOUS
    <3>2. IsDone(h) /\ t = <<>>
      BY <1>10, <2>4, <3>1
    <3>3. HasDone(poll.outbox)
      BY <1>4, <1>7, <3>2 DEF HasDone
    <3>4. ~OpensWith(t)
      <4>1. DOMAIN t = {}
        BY <3>2
      <4> QED
        BY <4>1 DEF OpensWith
    <3> QED
      BY <1>12, <1>13, <2>5, <3>2, <3>3, <3>4
  <2>7. HasDone(t) =>
          /\ ~HasDone(r)
          /\ \/ HasShown(r)
             \/ OpensWith(t) /\ \A i \in DOMAIN r : ~IsFrame(r[i])
    <3>1. SUFFICES ASSUME HasDone(t)
                   PROVE  /\ ~HasDone(r)
                          /\ \/ HasShown(r)
                             \/ OpensWith(t) /\ \A i \in DOMAIN r : ~IsFrame(r[i])
      OBVIOUS
    <3>2. HasDone(poll.outbox) /\ ~IsDone(h)
      BY <1>11, <3>1
    <3>3. CASE HasShown(wire.replies)
      BY <2>4, <2>5, <3>2, <3>3
    <3>4. CASE /\ OpensWith(poll.outbox)
               /\ \A i \in DOMAIN wire.replies : ~IsFrame(wire.replies[i])
      <4>1. ~IsFrame(h) => \A i \in DOMAIN r : ~IsFrame(r[i])
        BY <2>2, <3>4
      <4> QED
        BY <1>13, <2>4, <2>5, <3>2, <3>4, <4>1
    <3> QED
      BY <1>12, <3>2, <3>3, <3>4
  <2> QED
    BY <1>1, <1>3, <1>9, <1>14, <2>3, <2>6, <2>7 DEF Display
<1>16. CASE ~RepliesFit(h)
  <2>1. r = wire.replies
    BY <1>1, <1>14, <1>16
  <2>2. HasDone(t) => HasShown(r)
    <3>1. SUFFICES ASSUME HasDone(t), ~HasShown(wire.replies) PROVE FALSE
      BY <2>1
    <3>2. \A i \in DOMAIN wire.replies : ~IsFrame(wire.replies[i])
      BY <1>11, <1>12, <3>1
    <3> QED
      BY <1>1, <1>16, <3>2, FirstFrameFits
  <2> QED
    BY <1>1, <1>3, <1>8, <1>9, <1>14, <2>1, <2>2 DEF Display
<1> QED
  BY <1>15, <1>16

LEMMA CollectDisplay ==
    ASSUME NEW held \in Nat, Roomy(held), Course(held), Display, Collect
    PROVE  Display'
<1>1. /\ turn' = turn /\ turn = "scheduler" /\ phase' = "reports" /\ wire'.replies = <<>>
      /\ poll' = poll /\ kernel' = kernel
  BY Collected DEF Course
<1>2. PICK e \in Seq(Reps) :
        (\A i \in DOMAIN e : e[i].kind = "FrameShown") /\ returned' = wire.replies \o e
  BY Collected DEF Course
<1>3. poll.outbox = <<>> /\ wire.replies \in Seq(Reps)
  BY <1>1 DEF Course, Typed, Rounds
<1>4. PICK q : q = returned'
  OBVIOUS
<1>5. /\ q \in Seq(Reps) /\ Len(q) = Len(wire.replies) + Len(e)
      /\ \A i \in 1 .. Len(wire.replies) + Len(e) :
           q[i] = IF i <= Len(wire.replies) THEN wire.replies[i] ELSE e[i - Len(wire.replies)]
  BY <1>2, <1>3, <1>4, ConcatProperties
<1>6. PICK a, b \in Nat : a = Len(wire.replies) /\ b = Len(e)
  BY <1>3, LenProperties
<1>7. DOMAIN q = 1 .. a + b /\ DOMAIN wire.replies = 1 .. a /\ DOMAIN e = 1 .. b
  BY <1>3, <1>5, <1>6, LenProperties
<1>8. ASSUME NEW j \in DOMAIN q, IsDone(q[j]) PROVE j = a /\ IsDone(wire.replies[j]) /\ j \in 1 .. a
  <2>1. CASE j <= a
    <3>1. j \in 1 .. a /\ q[j] = wire.replies[j]
      BY <1>5, <1>6, <1>7, <2>1
    <3> QED
      BY <1>6, <1>7, <1>8, <3>1 DEF Display, DoneLast
  <2>2. CASE ~(j <= a)
    <3>1. j - a \in 1 .. b
      BY <1>7, <2>2
    <3>2. q[j] = e[j - a]
      BY <1>5, <1>6, <1>7, <2>2
    <3> QED
      BY <1>2, <1>7, <1>8, <3>1, <3>2 DEF IsDone
  <2> QED
    BY <2>1, <2>2
<1>9. ASSUME NEW j \in DOMAIN q, IsDone(q[j])
      PROVE  \E i \in 1 .. j : /\ q[i].kind = "LaneFrame" /\ q[i].lane = 0
                               /\ \A k \in i .. j - 1 : q[k].kind # "TickDone"
  <2>1. j = a /\ IsDone(wire.replies[j]) /\ j \in 1 .. a
    BY <1>8, <1>9
  <2>2. HasShown(wire.replies)
    BY <1>7, <2>1 DEF Display, HasDone
  <2>3. PICK i \in 1 .. a : Shown(wire.replies[i])
    BY <1>7, <2>2 DEF HasShown
  <2>4. i \in 1 .. j /\ i \in 1 .. a + b /\ i <= a
    BY <2>1
  <2>5. q[i].kind = "LaneFrame" /\ q[i].lane = 0
    BY <1>5, <1>6, <2>3, <2>4 DEF Shown, IsFrame
  <2>6. ASSUME NEW k \in i .. j - 1 PROVE q[k].kind # "TickDone"
    <3>1. k \in DOMAIN q /\ k # a
      BY <1>7, <2>1
    <3> QED
      BY <1>8, <3>1 DEF IsDone
  <2> QED
    BY <2>4, <2>5, <2>6
<1>10. Reported(0)'
  BY <1>4, <1>9 DEF Reported, IsDone
<1> QED
  BY <1>1, <1>3, <1>10, NoReports DEF Display

LEMMA NextDisplay ==
    ASSUME NEW held \in Nat, Roomy(held), Course(held), Course(held)', Display, [Next]_vars
    PROVE  Display'
<1>1. CASE LoadRom
  BY <1>1, DisplayRest DEF LoadRom, fabricVars
<1>2. CASE TickCall
  BY <1>2, DisplayRest DEF TickCall, Enqueue
<1>3. CASE Begin
  BY <1>3, DisplayRest DEF Begin, StartFrame, fabricVars
<1>4. CASE Reduce
  <2>1. wire'.replies = wire.replies
    BY <1>4, Reduced DEF Course, Typed, Refused, Loaded, Pumped
  <2>2. phase' = "intents"
    BY <1>4, Reduced DEF Course
  <2> QED
    BY <1>4, <2>1, <2>2, DisplayRest DEF Reduce
<1>5. CASE React
  <2>1. wire'.replies = wire.replies
    BY <1>5, Reacted DEF Course, Typed
  <2>2. phase = "reports" /\ turn = "scheduler"
    BY <1>5, Reacted DEF Course
  <2> QED
    BY <1>5, <2>1, <2>2, DisplayRest DEF React
<1>6. CASE Finish
  BY <1>6, DisplayRest DEF Finish, EndFrame
<1>7. CASE Leave
  BY <1>7, DisplayRest DEF Leave
<1>8. CASE EndWorkerRun
  <2>1. wire'.replies = wire.replies /\ poll'.outbox = poll.outbox /\ kernel' = kernel
        /\ phase' = phase /\ turn = "worker" /\ turn' \in {turn, "fetch", "scheduler"}
    BY <1>8, RunEnded DEF Course, loopVars
  <2>2. phase = "idle"
    BY <2>1 DEF Course, Rounds
  <2> QED
    BY <2>1, <2>2, DisplayRest
<1>9. CASE Fetch
  <2>1. wire' = wire /\ poll' = poll /\ kernel' = kernel /\ turn' \in {"fetch", "page"}
    BY <1>9, FetchedOne DEF Course
  <2> QED
    BY <2>1, DisplayRest
<1>10. CASE UNCHANGED vars
  BY <1>10, DisplayRest DEF vars, loopVars, fabricVars
<1> QED
  BY <1>1, <1>2, <1>3, <1>4, <1>5, <1>6, <1>7, <1>8, <1>9, <1>10, CollectDisplay,
     ExecuteDisplay, TakeReportsDisplay, PublishDisplay DEF Next, Run

(* ------------------------------- the pumps ------------------------------ *)

LEMMA PressureParts ==
    ASSUME Typed
    PROVE  /\ Len(queues["P1"]) \in Nat /\ Len(queues["P0"]) \in Nat
           /\ (IntentBudget - 1) * Len(queues["P0"]) \in Nat
           /\ Coming \in Nat /\ Pressure \in Nat /\ Limit \in Nat /\ IntentBudget <= Limit
           /\ IntentBudget \in Nat \ {0} /\ budget \in Nat /\ budget <= IntentBudget
<1>1. /\ Len(queues["P1"]) \in Nat /\ Len(queues["P0"]) \in Nat
      /\ IntentBudget \in Nat \ {0} /\ budget \in Nat /\ budget <= IntentBudget
      /\ asked["Front"] \in Nat
  <2>1. /\ queues["P0"] \in Seq(Loads) /\ queues["P1"] \in Seq({Pump})
        /\ asked \in [Origins -> Nat] /\ "Front" \in Origins /\ budget \in 0 .. IntentBudget
    BY DEF Typed, Origins
  <2> QED
    BY <2>1, LoopAssumption, LenProperties
<1>2. PICK b \in Nat : IntentBudget = b + 1 /\ b = IntentBudget - 1
  <2>1. IntentBudget - 1 \in Nat /\ IntentBudget = (IntentBudget - 1) + 1
    BY <1>1
  <2> QED
    BY <2>1
<1>3. \A m \in Nat : b * m \in Nat
  OBVIOUS
<1>4. (IntentBudget - 1) * Len(queues["P0"]) \in Nat
  BY <1>1, <1>2, <1>3
<1>5. Coming \in Nat
  BY DEF Coming, One
<1>6. Limit \in Nat /\ IntentBudget <= Limit
  <2>1. PICK a \in Nat : a = asked["Front"]
    BY <1>1
  <2>2. (b + 1) * (1 + a) = b + 1 + b * a + a /\ b * a \in Nat
    BY <1>3
  <2> QED
    BY <1>2, <2>1, <2>2 DEF Limit
<1>7. Pressure \in Nat
  <2>1. PICK y, z, d \in Nat : /\ y = Len(queues["P1"]) /\ z = (IntentBudget - 1) * Len(queues["P0"])
                              /\ d = IF AutoPump THEN Coming ELSE 0
    BY <1>1, <1>4, <1>5
  <2>2. Pressure = y + z + d
    BY <2>1 DEF Pressure
  <2> QED
    BY <2>2
<1> QED
  BY <1>1, <1>4, <1>5, <1>6, <1>7

(* How the pressure changes with the queues and the reports.                *)
LEMMA PressureChange ==
    ASSUME Typed, NEW p0 \in Nat, NEW p1 \in Nat, Waits(p0, p1), NEW c \in Nat, Coming' = c
    PROVE  Pressure' = p1 + (IntentBudget - 1) * p0 + (IF AutoPump THEN c ELSE 0)
BY DEF Waits, Pressure

LEMMA PressureStays ==
    ASSUME queues' = queues, Coming' = Coming
    PROVE  Pressure' = Pressure
BY DEF Pressure

LEMMA InitPumping == ASSUME IntentBudget >= 3 PROVE Init => Pumping
<1> SUFFICES ASSUME Init PROVE Pumping
  OBVIOUS
<1>1. /\ queues["P0"] = <<>> /\ queues["P1"] = <<>> /\ wire.mail = FALSE /\ kernel = <<>>
      /\ poll.outbox = <<>> /\ wire.replies = <<>> /\ batch = <<>> /\ turn = "page"
  BY DEF Init, InitLoop, Priorities
<1>2. Coming = 0
  BY <1>1, NoReports DEF Coming, One
<1>3. Pressure = 0
  BY <1>1, <1>2, LoopAssumption, Len(<<>>) = 0 DEF Pressure
<1>4. Limit = IntentBudget
  BY LoopAssumption DEF Init, InitLoop, Limit, Origins
<1>5. DoneOnce(batch)
  BY <1>1 DEF DoneOnce
<1> QED
  BY <1>1, <1>3, <1>4, <1>5, LoopAssumption DEF Pumping

LEMMA LoadRomPumping ==
    ASSUME NEW held \in Nat, Course(held), Pumping, LoadRom
    PROVE  Pumping'
<1>1. /\ Waits(Len(queues["P0"]) + 1, Len(queues["P1"]) + 1)
      /\ turn = "page" /\ turn' = turn /\ asked'["Front"] = asked["Front"] + 1
      /\ batch' = batch /\ wire' = wire /\ kernel' = kernel /\ poll' = poll
  BY LoadAsked DEF Course, fabricVars
<1>2. Typed
  BY DEF Course
<1>3. PICK x, y, c \in Nat : x = Len(queues["P0"]) /\ y = Len(queues["P1"]) /\ c = Coming
  BY <1>2, PressureParts
<1>4. PICK b \in Nat : IntentBudget - 1 = b /\ IntentBudget = b + 1
  BY LoopAssumption
<1>5. Coming' = c
  BY <1>1, <1>3 DEF Coming
<1>6. PICK d \in Nat : d = IF AutoPump THEN c ELSE 0
  OBVIOUS
<1>7. Pressure = y + b * x + d
  BY <1>3, <1>4, <1>6 DEF Pressure
<1>8. Pressure' = (y + 1) + b * (x + 1) + d
  <2>1. Waits(x + 1, y + 1)
    BY <1>1, <1>3
  <2>2. Pressure' = (y + 1) + (IntentBudget - 1) * (x + 1) + (IF AutoPump THEN c ELSE 0)
    BY <1>2, <1>5, <2>1, PressureChange
  <2> QED
    BY <1>4, <1>6, <2>2
<1>9. b * (x + 1) = b * x + b /\ b * x \in Nat
  OBVIOUS
<1>10. PICK a \in Nat : a = asked["Front"]
  BY <1>2 DEF Typed, Origins
<1>11. Limit = (b + 1) * (1 + a) /\ Limit' = (b + 1) * (1 + (a + 1))
  BY <1>1, <1>4, <1>10 DEF Limit
<1>12. (b + 1) * (1 + (a + 1)) = (b + 1) * (1 + a) + b + 1 /\ (b + 1) * (1 + a) \in Nat
  OBVIOUS
<1>13. Pressure + 1 <= Limit
  BY <1>1 DEF Pumping
<1>14. Pressure' + 1 <= Limit' /\ Pressure' <= Limit'
  <2>1. Pressure' = Pressure + b + 1 /\ Limit' = Limit + b + 1
    BY <1>7, <1>8, <1>9, <1>11, <1>12
  <2>2. Pressure \in Nat /\ Limit \in Nat
    BY <1>2, PressureParts
  <2> QED
    BY <1>13, <2>1, <2>2
<1> QED
  BY <1>1, <1>14 DEF Pumping

(* One pump more, on a call of the page.                                    *)
LEMMA PumpAdded ==
    ASSUME Typed, Waits(Len(queues["P0"]), Len(queues["P1"]) + 1), Coming' = Coming
    PROVE  Pressure' = Pressure + 1
<1>1. PICK x, y, c \in Nat : x = Len(queues["P0"]) /\ y = Len(queues["P1"]) /\ c = Coming
  BY PressureParts
<1>2. PICK z \in Nat : z = (IntentBudget - 1) * x
  BY <1>1, PressureParts
<1>3. PICK d \in Nat : d = IF AutoPump THEN c ELSE 0
  OBVIOUS
<1>4. Pressure = y + z + d
  BY <1>1, <1>2, <1>3 DEF Pressure
<1>5. Pressure' = (y + 1) + z + d
  BY <1>1, <1>2, <1>3, PressureChange
<1> QED
  BY <1>4, <1>5

LEMMA TickCallPumping ==
    ASSUME NEW held \in Nat, Course(held), Pumping, TickCall
    PROVE  Pumping'
<1>1. /\ Waits(Len(queues["P0"]), Len(queues["P1"]) + 1)
      /\ turn = "page" /\ turn' = "scheduler" /\ phase' = "idle"
      /\ UNCHANGED <<asked, batch, wire, kernel, poll>>
  BY OneMorePump DEF Course, TickCall
<1>2. Coming' = Coming
  BY <1>1 DEF Coming
<1>3. Pressure' = Pressure + 1
  BY <1>1, <1>2, PumpAdded DEF Course
<1>4. Pressure + 1 <= Limit /\ Limit' = Limit
  BY <1>1 DEF Pumping, Limit
<1> QED
  BY <1>1, <1>3, <1>4 DEF Pumping

LEMMA LeavePumping ==
    ASSUME NEW held \in Nat, Course(held), Pumping, Leave
    PROVE  Pumping'
<1>1. /\ turn = "ran" /\ turn' = "worker"
      /\ \/ ~AutoPump /\ Waits(Len(queues["P0"]), Len(queues["P1"]) + 1)
         \/ AutoPump /\ queues' = queues
      /\ UNCHANGED <<asked, batch, wire, kernel, poll>>
  BY OneMorePump DEF Course, Leave, loopVars
<1>2. Coming' = Coming
  BY <1>1 DEF Coming
<1>3. Pressure + Added <= Limit /\ Limit' = Limit /\ Pressure \in Nat /\ Limit \in Nat
  BY <1>1, PressureParts DEF Course, Pumping, Limit
<1>4. Pressure' + 1 <= Limit'
  <2>1. CASE AutoPump
    BY <1>1, <1>2, <1>3, <2>1, PressureStays DEF Added
  <2>2. CASE ~AutoPump
    <3>1. Pressure' = Pressure + 1
      BY <1>1, <1>2, <2>2, PumpAdded DEF Course
    <3> QED
      BY <1>3, <2>2, <3>1 DEF Added
  <2> QED
    BY <2>1, <2>2
<1>5. Pressure' <= Limit'
  <2>1. Pressure' \in Nat
    <3>1. Pressure' = Pressure \/ Pressure' = Pressure + 1
      BY <1>1, <1>2, PressureStays, PumpAdded DEF Course
    <3> QED
      BY <1>3, <3>1
  <2>2. \A a, b \in Nat : a + 1 <= b => a <= b
    OBVIOUS
  <2>3. Limit' \in Nat
    BY <1>3
  <2> QED
    BY <1>4, <2>1, <2>2, <2>3
<1> QED
  BY <1>1, <1>4, <1>5 DEF Pumping

LEMMA BeginPumping ==
    ASSUME NEW held \in Nat, Course(held), Pumping, Begin
    PROVE  Pumping'
<1>1. /\ turn = "scheduler" /\ phase = "idle" /\ turn' = turn /\ phase' = "intents"
      /\ budget' = IntentBudget
      /\ UNCHANGED <<queues, asked, batch, wire, kernel, poll>>
  BY DEF Begin, StartFrame, fabricVars
<1>2. ~HasCommand
  BY <1>1 DEF Course, Rounds
<1>3. wire.lossless = <<>> /\ wire.mail = FALSE
  BY <1>2 DEF HasCommand, Course, Typed
<1>4. Pressure' = Pressure /\ Limit' = Limit
  BY <1>1 DEF Pressure, Coming, Limit
<1>5. Pressure' + (IntentBudget - IntentBudget) <= Limit' + 0
  <2>1. Pressure \in Nat /\ Limit \in Nat /\ IntentBudget \in Nat /\ Pressure <= Limit
    BY PressureParts DEF Course, Pumping
  <2> QED
    BY <1>4, <2>1
<1>6. One(AutoPump /\ wire'.mail) = 0
  BY <1>1, <1>3 DEF One
<1> QED
  BY <1>1, <1>3, <1>4, <1>5, <1>6 DEF Pumping

LEMMA ReducePumping ==
    ASSUME NEW held \in Nat, RomSize < CommandRing, Course(held), Pumping, Reduce
    PROVE  Pumping'
<1>1. /\ turn = "scheduler" /\ phase = "intents" /\ budget > 0 /\ budget' = budget - 1
      /\ turn' = turn /\ phase' = phase
      /\ UNCHANGED <<asked, batch, kernel, poll>>
      /\ Refused \/ Loaded \/ Pumped
  BY Reduced DEF Course
<1>2. Typed
  BY DEF Course
<1>3. PICK x, y, z, c, l, b \in Nat :
         /\ x = Len(queues["P0"]) /\ y = Len(queues["P1"]) /\ z = (IntentBudget - 1) * x
         /\ c = Coming /\ l = Limit /\ b = IntentBudget - 1 /\ IntentBudget = b + 1
  <2>1. IntentBudget - 1 \in Nat /\ IntentBudget = (IntentBudget - 1) + 1
    BY LoopAssumption
  <2> QED
    BY <1>2, <2>1, PressureParts
<1>4. PICK d \in Nat : d = IF AutoPump THEN c ELSE 0
  OBVIOUS
<1>5. Pressure = y + z + d /\ y + z + d <= l /\ Limit' = l
  BY <1>1, <1>3, <1>4 DEF Pressure, Pumping, Limit
<1>6. /\ wire.lossless # <<>> => y + z + d + b <= l
      /\ wire.lossless = <<>> =>
           /\ y + z + d + (IntentBudget - budget) <= l + One(AutoPump /\ wire.mail)
           /\ budget = IntentBudget \/ queues["P0"] = <<>>
           /\ wire.mail = (budget # IntentBudget)
  BY <1>1, <1>3, <1>5 DEF Pumping
<1>7. wire \in [lossless : Seq({"LoadRom"}), mail : BOOLEAN, replies : Seq(Reps),
                uploads : Nat, shown : Nat]
  BY <1>2 DEF Typed
<1>8. CASE Refused
  <2>1. wire' = wire /\ Waits(x, y)
    BY <1>3, <1>8 DEF Refused
  <2>2. wire.lossless # <<>>
    <3>1. SUFFICES ASSUME wire.lossless = <<>> PROVE FALSE
      OBVIOUS
    <3>2. (Len(wire.lossless) + 1) * RomSize = RomSize
      <4>1. Len(wire.lossless) = 0 /\ RomSize \in Nat
        BY <3>1, FabricAssumption
      <4> QED
        BY <4>1
    <3> QED
      BY <1>8, <3>2 DEF Refused, RomFits
  <2>3. Coming' = c
    BY <1>1, <1>3, <2>1 DEF Coming
  <2>4. Pressure' = y + (IntentBudget - 1) * x + (IF AutoPump THEN c ELSE 0)
    BY <1>2, <2>1, <2>3, PressureChange
  <2>5. Pressure' = y + z + d
    BY <1>3, <1>4, <2>4
  <2> QED
    BY <1>1, <1>3, <1>5, <1>6, <2>1, <2>2, <2>5 DEF Pumping
<1>9. CASE Loaded
  <2>1. wire'.lossless # <<>> /\ wire'.mail = wire.mail /\ wire'.replies = wire.replies
    <3>1. PICK s : s = Append(wire.lossless, "LoadRom")
      OBVIOUS
    <3>2. s \in Seq({"LoadRom"}) /\ Len(s) = Len(wire.lossless) + 1
      BY <1>7, <3>1, Appended
    <3>3. s # <<>>
      <4>1. Len(wire.lossless) \in Nat
        BY <1>7, LenProperties
      <4> QED
        BY <3>2, <4>1, EmptyLen
    <3>4. wire' = [wire EXCEPT !.lossless = s]
      BY <1>9, <3>1 DEF Loaded
    <3> QED
      BY <1>7, <3>3, <3>4
  <2>2. Coming' = c
    BY <1>1, <1>3, <2>1 DEF Coming
  <2>3. x # 0 /\ Waits(x - 1, y)
    <3>1. queues["P0"] # <<>> /\ queues["P0"] \in Seq(Loads)
      BY <1>2, <1>9 DEF Typed, Loaded
    <3>2. x # 0
      BY <1>3, <3>1, EmptyLen
    <3> QED
      BY <1>3, <1>9, <3>2 DEF Loaded
  <2>4. PICK w \in Nat : x = w + 1 /\ w = x - 1
    <3>1. x - 1 \in Nat /\ x = (x - 1) + 1
      BY <2>3
    <3> QED
      BY <3>1
  <2>5. Pressure' = y + (IntentBudget - 1) * w + (IF AutoPump THEN c ELSE 0)
    BY <1>2, <2>2, <2>3, <2>4, PressureChange
  <2>6. b * w + b = b * (w + 1) /\ b * w \in Nat
    OBVIOUS
  <2>7. PICK v \in Nat : v = b * w
    BY <2>6
  <2>8. z = v + b /\ Pressure' = y + v + d
    BY <1>3, <1>4, <2>4, <2>5, <2>6, <2>7
  <2>9. y + v + d + b <= l /\ y + v + d <= l
    BY <1>5, <2>8
  <2> QED
    BY <1>1, <1>3, <1>5, <2>1, <2>8, <2>9 DEF Pumping
<1>10. CASE Pumped
  <2>1. /\ wire'.lossless = wire.lossless /\ wire'.mail = TRUE /\ wire'.replies = wire.replies
        /\ Waits(0, y - 1) /\ x = 0 /\ y # 0
    <3>1. wire' = [wire EXCEPT !.mail = TRUE] /\ queues["P0"] = <<>> /\ queues["P1"] # <<>>
          /\ Waits(0, y - 1)
      BY <1>3, <1>10 DEF Pumped
    <3>2. y # 0
      BY <1>2, <1>3, <3>1, EmptyLen DEF Typed
    <3> QED
      BY <1>3, <1>7, <3>1, <3>2
  <2>2. PICK w \in Nat : y = w + 1 /\ w = y - 1
    <3>1. y - 1 \in Nat /\ y = (y - 1) + 1
      BY <2>1
    <3> QED
      BY <3>1
  <2>3. PICK m \in {0, 1} : m = One(wire.mail)
    BY DEF One
  <2>4. PICK k \in Nat : k = One(HasDone(kernel)) + One(HasDone(poll.outbox))
                             + One(HasDone(wire.replies)) + One(HasDone(batch))
    BY DEF One
  <2>5. c = m + k
    <3>1. One(HasDone(kernel)) \in Nat /\ One(HasDone(poll.outbox)) \in Nat
          /\ One(HasDone(wire.replies)) \in Nat /\ One(HasDone(batch)) \in Nat
      BY DEF One
    <3> QED
      BY <1>3, <2>3, <2>4, <3>1 DEF Coming
  <2>6. Coming' = 1 + k
    <3>1. One(HasDone(kernel)) \in Nat /\ One(HasDone(poll.outbox)) \in Nat
          /\ One(HasDone(wire.replies)) \in Nat /\ One(HasDone(batch)) \in Nat
      BY DEF One
    <3>2. One(wire'.mail) = 1
      BY <2>1 DEF One
    <3>3. Coming' = 1 + One(HasDone(kernel)) + One(HasDone(poll.outbox))
                      + One(HasDone(wire.replies)) + One(HasDone(batch))
      BY <1>1, <2>1, <3>2 DEF Coming
    <3> QED
      BY <2>4, <3>1, <3>3
  <2>7. Pressure' = w + (IntentBudget - 1) * 0 + (IF AutoPump THEN 1 + k ELSE 0)
    BY <1>2, <2>1, <2>2, <2>6, PressureChange
  <2>8. z = 0 /\ (IntentBudget - 1) * 0 = 0
    BY <1>3, <2>1
  <2>9. PICK e \in Nat : e = IF AutoPump THEN 1 + k ELSE 0
    OBVIOUS
  <2>10. Pressure' = w + e
    BY <2>7, <2>8, <2>9
  <2>11. /\ AutoPump => e = 1 + k /\ d = m + k
         /\ ~AutoPump => e = 0 /\ d = 0
    BY <1>4, <2>5, <2>9
  <2>12. w + e <= y + z + d
    BY <2>2, <2>8, <2>11
  <2>13. CASE wire.lossless # <<>>
    <3>1. w + e + b <= l /\ w + e <= l
      BY <1>5, <1>6, <2>12, <2>13
    <3> QED
      BY <1>1, <1>3, <1>5, <2>1, <2>10, <2>13, <3>1 DEF Pumping
  <2>14. CASE wire.lossless = <<>>
    <3>1. queues'["P0"] = <<>>
      <4>1. queues'["P0"] \in Seq(Loads) /\ Len(queues'["P0"]) = 0
        BY <2>1 DEF Waits
      <4> QED
        BY <4>1, EmptyLen
    <3>2. budget \in Nat /\ budget <= IntentBudget
      BY <1>2, PressureParts
    <3>3. PICK g \in Nat : g = IntentBudget - budget /\ budget = IntentBudget - g
      <4>1. IntentBudget - budget \in Nat /\ budget = IntentBudget - (IntentBudget - budget)
        BY <1>3, <3>2
      <4> QED
        BY <4>1
    <3>4. IntentBudget - budget' = g + 1 /\ budget' # IntentBudget
      BY <1>1, <1>3, <3>2, <3>3
    <3>5. y + z + d + g <= l + One(AutoPump /\ wire.mail)
      BY <1>6, <2>14, <3>3
    <3>6. w + e + (g + 1) <= l + One(AutoPump /\ TRUE)
      <4>1. CASE AutoPump
        <5>1. One(AutoPump /\ wire.mail) = m /\ One(AutoPump /\ TRUE) = 1
          BY <1>7, <2>3, <4>1 DEF One
        <5> QED
          BY <2>2, <2>8, <2>11, <3>5, <4>1, <5>1
      <4>2. CASE ~AutoPump
        <5>1. One(AutoPump /\ wire.mail) = 0 /\ One(AutoPump /\ TRUE) = 0
          BY <4>2 DEF One
        <5> QED
          BY <2>2, <2>8, <2>11, <3>5, <4>2, <5>1
      <4> QED
        BY <4>1, <4>2
    <3>7. Pressure' + (IntentBudget - budget') <= Limit' + One(AutoPump /\ wire'.mail)
      BY <1>5, <2>1, <2>10, <3>4, <3>6
    <3>8. wire'.mail = (budget' # IntentBudget)
      BY <2>1, <3>4
    <3>9. Pressure' <= Limit'
      BY <1>5, <2>10, <2>12
    <3> QED
      BY <1>1, <2>1, <2>14, <3>1, <3>7, <3>8, <3>9 DEF Pumping
  <2> QED
    BY <2>13, <2>14
<1> QED
  BY <1>1, <1>8, <1>9, <1>10

(* A queue that stands still, and no more ticks on their way than before.   *)
LEMMA PressureFalls ==
    ASSUME Typed, queues' = queues, Coming' <= Coming
    PROVE  Pressure' \in Nat /\ Pressure' <= Pressure
<1>1. PICK y, z, c \in Nat : /\ y = Len(queues["P1"]) /\ z = (IntentBudget - 1) * Len(queues["P0"])
                            /\ c = Coming
  BY PressureParts
<1>2. Coming' \in Nat
  BY DEF Coming, One
<1>3. Pressure = y + z + (IF AutoPump THEN c ELSE 0)
  BY <1>1 DEF Pressure
<1>4. Pressure' = y + z + (IF AutoPump THEN Coming' ELSE 0)
  BY <1>1 DEF Pressure
<1> QED
  BY <1>1, <1>2, <1>3, <1>4

(* While the worker or the page runs, no pump is added.                     *)
LEMMA RunPumping ==
    ASSUME NEW held \in Nat, Course(held), Pumping, turn \in {"worker", "fetch"},
           turn' \in {"page", "fetch", "worker", "scheduler"},
           UNCHANGED <<queues, phase, batch, asked>>, Coming' <= Coming
    PROVE  Pumping'
<1>1. phase = "idle" /\ Pressure + 1 <= Limit /\ DoneOnce(batch)
  BY DEF Course, Rounds, Pumping
<1>2. Pressure' \in Nat /\ Pressure' <= Pressure /\ Pressure \in Nat /\ Limit \in Nat
  BY PressureFalls, PressureParts DEF Course
<1>3. Limit' = Limit /\ DoneOnce(batch')
  BY <1>1 DEF Limit, DoneOnce
<1>4. Pressure' + 1 <= Limit' /\ Pressure' <= Limit'
  <2>1. \A a, b, c \in Nat : a <= b /\ b + 1 <= c => a + 1 <= c /\ a <= c
    OBVIOUS
  <2> QED
    BY <1>1, <1>2, <1>3, <2>1
<1> QED
  BY <1>1, <1>3, <1>4 DEF Pumping

LEMMA ExecutePumping ==
    ASSUME NEW held \in Nat, Course(held), Course(held)', Pumping, Execute
    PROVE  Pumping'
<1>1. /\ turn = "worker" /\ HasCommand /\ poll'.outbox = poll.outbox
      /\ wire'.replies = wire.replies
      /\ UNCHANGED <<queues, phase, batch, asked, turn>>
      /\ LoadDone \/ TickDone
  BY Executed DEF Course, loopVars
<1>2. /\ kernel \in Seq(Reps) /\ \A i \in DOMAIN kernel : kernel[i].kind = "RomLoaded"
  BY <1>1 DEF Course, Typed, Drive
<1>3. ~HasDone(kernel)
  BY <1>2, RomsOnly
<1>4. CASE LoadDone
  <2>1. ~HasDone(kernel') /\ wire'.mail = wire.mail
    BY <1>2, <1>4, LoadQuiet DEF LoadDone
  <2>2. Coming' = Coming
    BY <1>1, <1>3, <2>1 DEF Coming, One
  <2>3. Coming \in Nat
    BY DEF Coming, One
  <2> QED
    BY <1>1, <2>2, <2>3, RunPumping
<1>5. CASE TickDone
  <2>1. wire.mail /\ ~wire'.mail
    BY <1>5 DEF TickDone
  <2>2. One(wire.mail) = 1 /\ One(HasDone(kernel)) = 0 /\ One(wire'.mail) = 0
    BY <1>3, <2>1 DEF One
  <2>3. PICK a, b, c \in Nat : /\ a = One(HasDone(poll.outbox)) /\ b = One(HasDone(wire.replies))
                              /\ c = One(HasDone(batch))
    BY DEF One
  <2>4. PICK m \in {0, 1} : m = One(HasDone(kernel'))
    BY DEF One
  <2>5. Coming = 1 + 0 + a + b + c
    BY <2>2, <2>3 DEF Coming
  <2>6. Coming' = 0 + m + a + b + c
    BY <1>1, <2>2, <2>3, <2>4 DEF Coming
  <2>7. Coming' <= Coming
    BY <2>5, <2>6
  <2> QED
    BY <1>1, <2>7, RunPumping
<1> QED
  BY <1>1, <1>4, <1>5

LEMMA TakeReportsPumping ==
    ASSUME NEW held \in Nat, Roomy(held), Course(held), Pumping, TakeReports
    PROVE  Pumping'
<1>1. /\ poll'.outbox = kernel /\ kernel' = <<>> /\ wire' = wire
      /\ turn = "worker" /\ poll.stage = "commands"
      /\ UNCHANGED <<queues, phase, batch, asked, turn>>
  BY ReportsTaken DEF Course, loopVars
<1>2. ~HasDone(poll.outbox) /\ ~HasDone(kernel')
  BY <1>1, NoReports DEF Course, Drive
<1>3. PICK a, b, c, d \in Nat : /\ a = One(HasDone(kernel)) /\ b = One(HasDone(wire.replies))
                               /\ c = One(HasDone(batch)) /\ d = One(wire.mail)
  BY DEF One
<1>4. One(HasDone(poll.outbox)) = 0 /\ One(HasDone(kernel')) = 0
  BY <1>2 DEF One
<1>5. Coming = d + a + 0 + b + c
  BY <1>3, <1>4 DEF Coming
<1>6. Coming' = d + 0 + a + b + c
  BY <1>1, <1>3, <1>4 DEF Coming
<1>7. Coming' <= Coming
  BY <1>5, <1>6
<1> QED
  BY <1>1, <1>7, RunPumping

(* The end of a tick among the reports, one taken off or one put on.        *)
LEMMA TailDone ==
    ASSUME NEW s \in Seq(Reps), s # <<>>
    PROVE  /\ HasDone(Tail(s)) => HasDone(s)
           /\ IsDone(Head(s)) => HasDone(s)
           /\ DoneOnce(s) => DoneOnce(Tail(s)) /\ (IsDone(Head(s)) => ~HasDone(Tail(s)))
<1>1. PICK t : t = Tail(s)
  OBVIOUS
<1>2. /\ t \in Seq(Reps) /\ Head(s) = s[1] /\ Len(t) \in Nat /\ Len(s) = Len(t) + 1
      /\ \A i \in 1 .. Len(t) : t[i] = s[i + 1]
  BY <1>1, Popped
<1>3. DOMAIN t = 1 .. Len(t) /\ DOMAIN s = 1 .. Len(t) + 1
  BY <1>2, LenProperties
<1>4. \A i \in DOMAIN t : i \in Nat /\ i + 1 \in DOMAIN s /\ i + 1 # 1 /\ t[i] = s[i + 1]
  BY <1>2, <1>3
<1>5. 1 \in DOMAIN s
  BY <1>2, <1>3
<1>6. HasDone(t) => HasDone(s)
  BY <1>4 DEF HasDone
<1>7. IsDone(Head(s)) => HasDone(s)
  BY <1>2, <1>5 DEF HasDone
<1>8. ASSUME DoneOnce(s) PROVE DoneOnce(t) /\ (IsDone(Head(s)) => ~HasDone(t))
  <2>1. ASSUME NEW i \in DOMAIN t, NEW j \in DOMAIN t, IsDone(t[i]), IsDone(t[j]) PROVE i = j
    <3>1. i + 1 = j + 1
      BY <1>4, <1>8, <2>1 DEF DoneOnce
    <3> QED
      BY <1>4, <3>1
  <2>2. IsDone(Head(s)) => ~HasDone(t)
    BY <1>2, <1>4, <1>5, <1>8 DEF DoneOnce, HasDone
  <2> QED
    BY <2>1, <2>2 DEF DoneOnce
<1> QED
  BY <1>1, <1>6, <1>7, <1>8

LEMMA PublishPumping ==
    ASSUME NEW held \in Nat, Course(held), Display, Display', Pumping, Publish
    PROVE  Pumping'
<1> DEFINE h == Head(poll.outbox)
<1>1. /\ turn = "worker" /\ poll.outbox # <<>> /\ poll'.outbox = Tail(poll.outbox)
      /\ wire'.replies = IF RepliesFit(h) THEN Append(wire.replies, h) ELSE wire.replies
      /\ wire'.mail = wire.mail /\ kernel' = kernel
      /\ UNCHANGED <<queues, phase, batch, asked, turn>>
  BY Published DEF Course, loopVars
<1>2. poll.outbox \in Seq(Reps) /\ wire.replies \in Seq(Reps) /\ h \in Reps
  BY <1>1, Popped DEF Course, Typed
<1>3. HasDone(poll'.outbox) => HasDone(poll.outbox)
  BY <1>1, <1>2, TailDone
<1>4. HasDone(wire'.replies) => HasDone(wire.replies) \/ HasDone(poll.outbox)
  <2>1. CASE RepliesFit(h)
    <3>1. PICK r : r = wire'.replies
      OBVIOUS
    <3>2. r = Append(wire.replies, h)
      BY <1>1, <2>1, <3>1
    <3>3. /\ \A i \in DOMAIN wire.replies : r[i] = wire.replies[i]
          /\ r[Len(wire.replies) + 1] = h
          /\ \A i \in DOMAIN r : i \in DOMAIN wire.replies \/ i = Len(wire.replies) + 1
      BY <1>2, <3>2, Behind
    <3>4. IsDone(h) => HasDone(poll.outbox)
      BY <1>1, <1>2, TailDone
    <3> QED
      BY <3>1, <3>3, <3>4 DEF HasDone
  <2>2. CASE ~RepliesFit(h)
    BY <1>1, <2>2
  <2> QED
    BY <2>1, <2>2
<1>5. ~(HasDone(poll'.outbox) /\ HasDone(wire'.replies))
  BY DEF Display
<1>6. PICK a, b, c, d, a1, b1, k, e \in Nat :
        /\ a = One(HasDone(poll.outbox)) /\ b = One(HasDone(wire.replies))
        /\ c = One(HasDone(batch)) /\ d = One(wire.mail) /\ k = One(HasDone(kernel))
        /\ a1 = One(HasDone(poll'.outbox)) /\ b1 = One(HasDone(wire'.replies)) /\ e = a1 + b1
  BY DEF One
<1>7. e <= a + b
  BY <1>3, <1>4, <1>5, <1>6 DEF One
<1>8. Coming = d + k + a + b + c
  BY <1>6 DEF Coming
<1>9. Coming' = d + k + a1 + b1 + c
  BY <1>1, <1>6 DEF Coming
<1>10. Coming' <= Coming
  BY <1>6, <1>7, <1>8, <1>9
<1> QED
  BY <1>1, <1>10, RunPumping

LEMMA EndWorkerRunPumping ==
    ASSUME NEW held \in Nat, Course(held), Pumping, EndWorkerRun
    PROVE  Pumping'
<1>1. /\ turn = "worker" /\ turn' \in {"worker", "fetch", "scheduler"}
      /\ poll.outbox = <<>> /\ poll'.outbox = <<>> /\ kernel' = kernel
      /\ wire'.mail = wire.mail /\ wire'.replies = wire.replies
      /\ UNCHANGED <<queues, phase, batch, asked>>
  BY RunEnded DEF Course, loopVars
<1>2. Coming' = Coming /\ Coming \in Nat
  BY <1>1 DEF Coming, One
<1> QED
  BY <1>1, <1>2, RunPumping

LEMMA FetchPumping ==
    ASSUME NEW held \in Nat, Course(held), Pumping, Fetch
    PROVE  Pumping'
<1>1. /\ turn = "fetch" /\ turn' \in {"fetch", "page"}
      /\ UNCHANGED <<queues, phase, batch, asked, wire, kernel, poll>>
  BY FetchedOne DEF Course, loopVars
<1>2. Coming' = Coming /\ Coming \in Nat
  BY <1>1 DEF Coming, One
<1> QED
  BY <1>1, <1>2, RunPumping

LEMMA FinishPumping ==
    ASSUME NEW held \in Nat, Course(held), Pumping, Finish
    PROVE  Pumping'
<1>1. /\ turn = "scheduler" /\ phase = "reports" /\ phase' = "idle" /\ turn' \in {"ran", "worker"}
      /\ UNCHANGED <<queues, batch, asked, wire, kernel, poll>>
  BY DEF Finish, EndFrame
<1>2. Coming' = Coming
  BY <1>1 DEF Coming
<1>3. Pressure' = Pressure /\ Limit' = Limit
  BY <1>1, <1>2, PressureStays DEF Limit
<1>4. Pressure + Added <= Limit /\ DoneOnce(batch) /\ Pressure <= Limit
  BY <1>1 DEF Pumping
<1>5. Pressure \in Nat /\ Limit \in Nat
  BY PressureParts DEF Course
<1>6. Pressure + 1 <= Limit
  BY <1>4, <1>5 DEF Added
<1>7. DoneOnce(batch')
  BY <1>1, <1>4 DEF DoneOnce
<1>8. Added' = Added
  BY DEF Added
<1> QED
  BY <1>1, <1>3, <1>4, <1>6, <1>7, <1>8 DEF Pumping

(* The end of a tick becomes the pump of the next.                          *)
LEMMA ReactPumping ==
    ASSUME NEW held \in Nat, Course(held), Pumping, React
    PROVE  Pumping'
<1> DEFINE more == Head(batch).kind = "TickDone" /\ AutoPump
<1>1. /\ turn = "scheduler" /\ phase = "reports" /\ batch # <<>> /\ batch' = Tail(batch)
      /\ Waits(Len(queues["P0"]), Len(queues["P1"]) + IF more THEN 1 ELSE 0)
      /\ wire' = [wire EXCEPT !.uploads = wire'.uploads]
      /\ UNCHANGED <<phase, asked, turn, kernel, poll>>
  BY Reacted DEF Course
<1>2. Typed /\ batch \in Seq(Reps)
  BY DEF Course, Typed
<1>3. wire'.mail = wire.mail /\ wire'.replies = wire.replies
  BY <1>1 DEF Course, Typed
<1>4. DoneOnce(batch) /\ Pressure <= Limit /\ Pressure + Added <= Limit
  BY <1>1 DEF Pumping
<1>5. /\ HasDone(batch') => HasDone(batch)
      /\ IsDone(Head(batch)) => HasDone(batch) /\ ~HasDone(batch')
      /\ DoneOnce(batch')
  BY <1>1, <1>2, <1>4, TailDone
<1>6. PICK y, x, z, m \in Nat : /\ y = Len(queues["P1"]) /\ z = (IntentBudget - 1) * x
                               /\ x = Len(queues["P0"]) /\ m = IF more THEN 1 ELSE 0
  BY <1>2, PressureParts
<1>7. PICK k, b, b1 \in Nat :
        /\ k = One(wire.mail) + One(HasDone(kernel)) + One(HasDone(poll.outbox))
               + One(HasDone(wire.replies))
        /\ b = One(HasDone(batch)) /\ b1 = One(HasDone(batch'))
  BY DEF One
<1>8. Coming = k + b /\ Coming' = k + b1
  BY <1>1, <1>3, <1>7 DEF Coming
<1>9. AutoPump => m + b1 <= b
  BY <1>5, <1>6, <1>7 DEF One, IsDone
<1>10. Pressure = y + z + (IF AutoPump THEN k + b ELSE 0)
  BY <1>6, <1>8 DEF Pressure
<1>11. Pressure' = (y + m) + z + (IF AutoPump THEN k + b1 ELSE 0)
  <2>1. k + b1 \in Nat /\ y + m \in Nat
    OBVIOUS
  <2>3. Waits(x, y + m)
    <3>1. Len(queues["P1"]) + (IF more THEN 1 ELSE 0) = y + m /\ Len(queues["P0"]) = x
      BY <1>6
    <3> HIDE DEF more
    <3> QED
      BY <1>1, <3>1
  <2>2. Pressure' = (y + m) + (IntentBudget - 1) * x + (IF AutoPump THEN k + b1 ELSE 0)
    BY <1>2, <1>8, <2>1, <2>3, PressureChange
  <2> QED
    BY <1>6, <2>2
<1>12. ~AutoPump => m = 0
  BY <1>6
<1>13. Pressure' <= Pressure /\ Pressure' \in Nat /\ Pressure \in Nat
  <2>1. CASE AutoPump
    BY <1>9, <1>10, <1>11, <2>1
  <2>2. CASE ~AutoPump
    BY <1>10, <1>11, <1>12, <2>2
  <2> QED
    BY <2>1, <2>2
<1>14. Limit' = Limit /\ Limit \in Nat /\ Added \in Nat /\ Added' = Added
  BY <1>1, <1>2, PressureParts DEF Limit, Added
<1>15. Pressure' + Added' <= Limit' /\ Pressure' <= Limit'
  <2>1. \A p, q, l, n \in Nat : p <= q /\ q + n <= l => p + n <= l /\ p <= l
    OBVIOUS
  <2> QED
    BY <1>4, <1>13, <1>14, <2>1
<1> QED
  BY <1>1, <1>5, <1>15 DEF Pumping

(* A run of the scheduler that has used its budget has taken off more than  *)
(* gbx_tick adds; one that has not leaves only the ticks on their way.      *)
LEMMA CollectPumping ==
    ASSUME NEW held \in Nat, Roomy(held), IntentBudget >= 3, Course(held), Display, Pumping, Collect
    PROVE  Pumping'
<1>1. /\ turn = "scheduler" /\ phase = "intents" /\ (budget = 0 \/ ~HasIntent)
      /\ phase' = "reports" /\ wire'.replies = <<>> /\ wire'.mail = wire.mail
      /\ UNCHANGED <<queues, asked, turn, kernel, poll>>
  BY Collected DEF Course
<1>2. PICK e \in Seq(Reps) :
        (\A i \in DOMAIN e : e[i].kind = "FrameShown") /\ batch' = wire.replies \o e
  BY Collected DEF Course
<1>3. Typed /\ batch = <<>> /\ kernel = <<>> /\ poll.outbox = <<>> /\ wire.replies \in Seq(Reps)
  BY <1>1 DEF Course, Typed, Rounds
<1>4. DoneOnce(batch') /\ (HasDone(batch') => HasDone(wire.replies))
  <2>1. PICK q : q = batch'
    OBVIOUS
  <2>2. /\ q \in Seq(Reps) /\ Len(q) = Len(wire.replies) + Len(e)
        /\ \A i \in 1 .. Len(wire.replies) + Len(e) :
             q[i] = IF i <= Len(wire.replies) THEN wire.replies[i] ELSE e[i - Len(wire.replies)]
    BY <1>2, <1>3, <2>1, ConcatProperties
  <2>3. PICK a, b \in Nat : a = Len(wire.replies) /\ b = Len(e)
    BY <1>3, LenProperties
  <2>4. DOMAIN q = 1 .. a + b /\ DOMAIN wire.replies = 1 .. a /\ DOMAIN e = 1 .. b
    BY <1>3, <2>2, <2>3, LenProperties
  <2>5. ASSUME NEW j \in DOMAIN q, IsDone(q[j])
        PROVE  j = a /\ j \in DOMAIN wire.replies /\ IsDone(wire.replies[j])
    <3>1. CASE j <= a
      <4>1. j \in 1 .. a /\ q[j] = wire.replies[j]
        BY <2>2, <2>3, <2>4, <3>1
      <4> QED
        BY <2>3, <2>4, <2>5, <4>1 DEF Display, DoneLast
    <3>2. CASE ~(j <= a)
      <4>1. j - a \in 1 .. b
        BY <2>4, <3>2
      <4>2. q[j] = e[j - a]
        BY <2>2, <2>3, <2>4, <3>2
      <4> QED
        BY <1>2, <2>4, <2>5, <4>1, <4>2 DEF IsDone
    <3> QED
      BY <3>1, <3>2
  <2> QED
    BY <2>1, <2>5 DEF DoneOnce, HasDone
<1>5. One(HasDone(kernel)) = 0 /\ One(HasDone(poll.outbox)) = 0 /\ One(HasDone(batch)) = 0
      /\ One(HasDone(wire'.replies)) = 0
  BY <1>1, <1>3, NoReports DEF One
<1>6. PICK m, r, r1 \in {0, 1} : /\ m = One(wire.mail) /\ r = One(HasDone(wire.replies))
                                /\ r1 = One(HasDone(batch'))
  BY DEF One
<1>7. r1 <= r
  BY <1>4, <1>6 DEF One
<1>8. Coming = m + 0 + 0 + r + 0
  BY <1>5, <1>6 DEF Coming
<1>9. Coming' = m + 0 + 0 + 0 + r1
  BY <1>1, <1>5, <1>6 DEF Coming
<1>10. Pressure' \in Nat /\ Pressure' <= Pressure
  <2>1. Coming' <= Coming
    BY <1>7, <1>8, <1>9
  <2> QED
    BY <1>1, <1>3, <2>1, PressureFalls
<1>11. /\ Pressure \in Nat /\ Limit \in Nat /\ IntentBudget <= Limit /\ IntentBudget \in Nat
       /\ Limit' = Limit /\ Added' = Added /\ Added \in Nat /\ Added <= 2 /\ (AutoPump => Added = 1)
  BY <1>1, <1>3, PressureParts DEF Limit, Added
<1>12. Pressure + Added <= Limit
  <2>1. CASE wire.lossless # <<>>
    <3>1. Pressure + (IntentBudget - 1) <= Limit
      BY <1>1, <2>1 DEF Pumping
    <3> QED
      BY <1>11, <3>1
  <2>2. CASE wire.lossless = <<>> /\ budget = 0
    <3>1. Pressure + (IntentBudget - 0) <= Limit + One(AutoPump /\ wire.mail)
      BY <1>1, <2>2 DEF Pumping
    <3>2. One(AutoPump /\ wire.mail) \in {0, 1} /\ (~AutoPump => One(AutoPump /\ wire.mail) = 0)
      BY DEF One
    <3> QED
      BY <1>11, <3>1, <3>2
  <2>3. CASE ~HasIntent
    <3>1. queues["P0"] = <<>> /\ queues["P1"] = <<>> /\ Len(<<>>) = 0
      BY <1>3, <2>3, Intended
    <3>2. (IntentBudget - 1) * 0 = 0
      BY <1>11
    <3>3. Pressure = IF AutoPump THEN Coming ELSE 0
      BY <1>8, <3>1, <3>2 DEF Pressure
    <3>4. Coming \in Nat /\ Coming <= 2
      BY <1>8
    <3> QED
      BY <1>11, <3>3, <3>4
  <2> QED
    BY <1>1, <2>1, <2>2, <2>3
<1>13. Pressure' + Added' <= Limit' /\ Pressure' <= Limit'
  <2>1. \A p, q, l, n \in Nat : p <= q /\ q + n <= l => p + n <= l /\ p <= l
    OBVIOUS
  <2> QED
    BY <1>10, <1>11, <1>12, <2>1
<1> QED
  BY <1>1, <1>4, <1>13 DEF Pumping

LEMMA NextPumping ==
    ASSUME NEW held \in Nat, Roomy(held), IntentBudget >= 3, RomSize < CommandRing,
           Course(held), Course(held)', Display, Display', Pumping, [Next]_vars
    PROVE  Pumping'
<1>1. CASE Next
  BY <1>1, LoadRomPumping, TickCallPumping, BeginPumping, ReducePumping, CollectPumping,
     ReactPumping, FinishPumping, LeavePumping, ExecutePumping, TakeReportsPumping,
     PublishPumping, EndWorkerRunPumping, FetchPumping DEF Next, Run
<1>2. CASE UNCHANGED vars
  <2>1. /\ UNCHANGED <<queues, asked, batch, budget, phase, turn, wire, kernel, poll>>
    BY <1>2 DEF vars, loopVars, fabricVars
  <2>2. Pressure' = Pressure /\ Limit' = Limit /\ Added' = Added
    BY <2>1 DEF Pressure, Coming, Limit, Added
  <2> QED
    BY <2>1, <2>2 DEF Pumping
<1> QED
  BY <1>1, <1>2

(* ----------------------- what the browser is shown ---------------------- *)

(* Whatever the sizes, as long as what a drive of the worker makes fits:   *)
(* each slot of the frame pool is free, or ready and announced by exactly  *)
(* one report on its way to the page (publish_frame, consume_frame).       *)
THEOREM SlotsStayAccounted == Spec => []SlotsAccounted
<1>1. PICK held \in Nat : Roomy(held)
  BY RoomAssumption, FabricAssumption
<1>2. Init => Course(held) /\ Slots
  BY InitCourse, InitSlots
<1>3. Course(held) /\ Slots /\ [Next]_vars => (Course(held) /\ Slots)'
  BY <1>1, NextCourse, NextSlots
<1>4. Course(held) /\ Slots => SlotsAccounted
  BY DEF Slots
<1> QED
  BY <1>2, <1>3, <1>4, PTL DEF Spec

(* What gbx_tick returns names the end of a tick only behind a frame of    *)
(* the lane on display, although reports that do not fit the reply ring    *)
(* are lost (publish_report).                                              *)
THEOREM DisplayIsReported == Spec => []DisplayReported
<1>1. PICK held \in Nat : Roomy(held)
  BY RoomAssumption, FabricAssumption
<1>2. Init => Course(held) /\ Display
  BY InitCourse, InitDisplay
<1>3. Course(held) /\ Display /\ [Next]_vars => (Course(held) /\ Display)'
  BY <1>1, NextCourse, NextDisplay
<1>4. Course(held) /\ Display => DisplayReported
  <2>1. Course(held) => world.lane = 0
    BY DEF Course, Typed
  <2> QED
    BY <2>1 DEF Display, DisplayReported
<1> QED
  BY <1>2, <1>3, <1>4, PTL DEF Spec

(* The pumps that wait stay within a frame's budget for each load the user *)
(* asked for and one more, if the budget takes off more than gbx_tick adds *)
(* (run_once_collect) and a ROM fits the command ring.                     *)
THEOREM PumpsStayBounded ==
    ASSUME IntentBudget >= 3, RomSize < CommandRing
    PROVE  Spec => []PumpsBounded
<1>1. PICK held \in Nat : Roomy(held)
  BY RoomAssumption, FabricAssumption
<1>2. Init => Course(held) /\ Display /\ Pumping
  BY InitCourse, InitDisplay, InitPumping
<1>3. Course(held) /\ Display /\ Pumping /\ [Next]_vars
        => (Course(held) /\ Display /\ Pumping)'
  BY <1>1, NextCourse, NextDisplay, NextPumping
<1>4. Course(held) /\ Display /\ Pumping => PumpsBounded
  <2>1. SUFFICES ASSUME Course(held), Pumping PROVE PumpsBounded
    OBVIOUS
  <2>2. Pressure <= Limit /\ Typed
    BY <2>1 DEF Pumping, Course
  <2>3. PICK y, z, d, l \in Nat :
          /\ y = Len(queues["P1"]) /\ z = (IntentBudget - 1) * Len(queues["P0"])
          /\ d = (IF AutoPump THEN Coming ELSE 0) /\ l = Limit
    BY <2>2, PressureParts
  <2>4. y + z + d <= l
    BY <2>2, <2>3 DEF Pressure
  <2> QED
    BY <2>3, <2>4 DEF PumpsBounded, Limit
<1> QED
  BY <1>2, <1>3, <1>4, PTL DEF Spec

(* ------------------------------ the refusals ---------------------------- *)

Serving == served \in [Origins -> Seq(Nat)]

(* What the loop notes of the intent it took.                               *)
LEMMA ReduceServes ==
    ASSUME Typed, Serving, Reduce
    PROVE  /\ Serving'
           /\ CommandOf(NextIntent) = "LoadRom" /\ RomFits => served' # served
<1> DEFINE intent == NextIntent
           outcome == Sent(CommandOf(intent))
<1>1. served' = IF IsLossless(intent) /\ outcome \in {"Accepted", "Coalesced"}
                THEN [served EXCEPT ![intent.from] = Append(@, intent.nr)] ELSE served
  BY DEF Reduce, TakeIntent
<1>2. CASE queues["P0"] # <<>>
  <2>1. intent \in Loads /\ CommandOf(intent) = "LoadRom"
    BY <1>2, Intended
  <2>2. IsLossless(intent) /\ intent.from = "Front" /\ intent.nr \in Nat /\ "Front" \in Origins
    BY <2>1 DEF IsLossless, DefaultPolicy, Loads, Origins
  <2>3. PICK s \in Seq(Nat) : s = served["Front"]
    BY <2>2 DEF Serving
  <2>4. PICK u : u = Append(s, intent.nr)
    OBVIOUS
  <2>5. u \in Seq(Nat) /\ Len(u) = Len(s) + 1 /\ Len(s) \in Nat
    BY <2>2, <2>3, <2>4, Appended, LenProperties
  <2>6. served' = [served EXCEPT !["Front"] = u] \/ served' = served
    BY <1>1, <2>2, <2>3, <2>4
  <2>7. Serving'
    BY <2>2, <2>5, <2>6 DEF Serving
  <2>8. RomFits => served' # served
    <3>1. SUFFICES ASSUME RomFits PROVE served' # served
      OBVIOUS
    <3>2. outcome = "Accepted"
      BY <2>1, <3>1 DEF Sent
    <3>3. served' = [served EXCEPT !["Front"] = u]
      BY <1>1, <2>2, <2>3, <2>4, <3>2
    <3>4. u # s
      BY <2>5
    <3> QED
      BY <2>2, <2>3, <3>3, <3>4 DEF Serving
  <2> QED
    BY <2>7, <2>8
<1>3. CASE queues["P0"] = <<>>
  <2>1. HasIntent
    BY DEF Reduce
  <2>2. CommandOf(intent) = "TickDisplay"
    BY <1>3, <2>1, Intended
  <2>3. ~IsLossless(intent)
    BY <2>2 DEF IsLossless, DefaultPolicy
  <2> QED
    BY <1>1, <2>2, <2>3 DEF Serving
<1> QED
  BY <1>2, <1>3

(* Only the intents of a run use its budget, and only they are served.      *)
LEMMA OthersServeNothing ==
    ASSUME Typed, [Next]_vars, ~Reduce
    PROVE  served' = served /\ ~(budget' < budget)
<1>1. budget \in Nat /\ budget <= IntentBudget /\ IntentBudget \in Nat
  BY PressureParts
<1>2. \A n \in Nat : ~(n < n)
  OBVIOUS
<1>3. CASE Begin
  BY <1>1, <1>3 DEF Begin, StartFrame
<1>4. CASE ~Begin
  <2>1. UNCHANGED <<served, budget>>
    BY <1>4 DEF Next, Run, LoadRom, TickCall, Enqueue, Collect, Gather, React, TakeReport,
       Finish, EndFrame, Leave, Execute, TakeReports, Publish, EndWorkerRun, Fetch, vars, loopVars
  <2> QED
    BY <1>1, <1>2, <2>1
<1> QED
  BY <1>3, <1>4

LEMMA InitServing == Init => Serving
BY DEF Init, InitLoop, Serving

LEMMA NextServing == Typed /\ Serving /\ [Next]_vars => Serving'
<1> SUFFICES ASSUME Typed, Serving, [Next]_vars PROVE Serving'
  OBVIOUS
<1>1. CASE Reduce
  BY <1>1, ReduceServes
<1>2. CASE ~Reduce
  BY <1>2, OthersServeNothing DEF Serving
<1> QED
  BY <1>1, <1>2

(* A ROM that fits the command ring at all is refused only while commands  *)
(* are in it that the worker is yet to take (EndpointHandle::submit): the  *)
(* next run of the worker makes room. FabricRom.cfg shows the ROM that     *)
(* does not fit.                                                           *)
THEOREM RefusalsPass ==
    ASSUME RomSize < CommandRing
    PROVE  Spec => RefusedForOthers
<1> DEFINE A == (budget' < budget /\ CommandOf(NextIntent) = "LoadRom" /\ served' = served)
                  => wire.lossless # <<>>
<1>1. PICK held \in Nat : Roomy(held)
  BY RoomAssumption, FabricAssumption
<1>2. Init => Course(held) /\ Serving
  BY InitCourse, InitServing
<1>3. Course(held) /\ Serving /\ [Next]_vars => (Course(held) /\ Serving)'
  BY <1>1, NextCourse, NextServing DEF Course
<1>4. Course(held) /\ Serving /\ [Next]_vars => A
  <2>1. SUFFICES ASSUME Course(held), Serving, [Next]_vars, budget' < budget,
                        CommandOf(NextIntent) = "LoadRom", served' = served,
                        wire.lossless = <<>>
                 PROVE  FALSE
    OBVIOUS
  <2>2. Typed
    BY <2>1 DEF Course
  <2>3. Reduce
    BY <2>1, <2>2, OthersServeNothing
  <2>4. ~RomFits
    BY <2>1, <2>2, <2>3, ReduceServes
  <2>5. (Len(wire.lossless) + 1) * RomSize = RomSize
    <3>1. Len(wire.lossless) = 0 /\ RomSize \in Nat
      BY <2>1, FabricAssumption
    <3> QED
      BY <3>1
  <2> QED
    BY <2>4, <2>5 DEF RomFits
<1>5. Course(held) /\ Serving /\ [Next]_vars => [A]_vars
  BY <1>4
<1>6. Spec => [][A]_vars
  <2> HIDE DEF A
  <2> QED
    BY <1>2, <1>3, <1>5, PTL DEF Spec
<1> QED
  BY <1>6 DEF RefusedForOthers
===============================================================================
