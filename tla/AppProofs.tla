------------------------------ MODULE AppProofs ------------------------------
(***************************************************************************)
(* What is proved of the application's scheduler (AppLoop): whatever the   *)
(* services answer, no lossless intent is lost, served twice or overtaken  *)
(* by one of its priority; and the two applications, DirectApp and         *)
(* FabricApp, are such schedulers. Of DirectApp also: its ticks neither    *)
(* multiply nor, in queues of the sizes the code has, stop.                *)
(***************************************************************************)
EXTENDS DirectApp, SequenceTheorems, FiniteSetTheorems, TLAPS

(* ------------------------- one line of intents ------------------------- *)

\* The three queues are one line: what a step does to them is to insert an
\* intent at some place of it or to take the first.

Line(q) == q["P0"] \o q["P1"] \o q["P2"]

Inserted(line, k, x) ==
    [i \in 1 .. Len(line) + 1 |->
        IF i < k THEN line[i] ELSE IF i = k THEN x ELSE line[i - 1]]

Shift(i, k) == IF i < k THEN i ELSE i + 1

Belongs(x, o) == IsLossless(x) /\ x.from = o

(* The places of an origin in a line move with the intents that wait       *)
(* there, and the place of the new intent joins them if it is one of them. *)
LEMMA InsertedPlaces ==
    ASSUME NEW line \in Seq(Intents), NEW x \in Intents, NEW o,
           NEW k \in 1 .. Len(line) + 1, NEW new, new = Inserted(line, k, x)
    PROVE  /\ new \in Seq(Intents) /\ Len(new) = Len(line) + 1
           /\ new[k] = x
           /\ \A i \in Places(line, o) :
                /\ i \in 1 .. Len(line) /\ Shift(i, k) \in Places(new, o)
                /\ new[Shift(i, k)] = line[i]
           /\ \A j \in Places(new, o) :
                j # k => \E i \in Places(line, o) : j = Shift(i, k)
           /\ k \in Places(new, o) <=> Belongs(x, o)
<1>1. Len(line) \in Nat /\ \A i \in 1 .. Len(line) : line[i] \in Intents
  BY ElementOfSeq, LenProperties
<1>2. new \in [1 .. Len(line) + 1 -> Intents]
  BY <1>1 DEF Inserted
<1>3. new \in Seq(Intents) /\ Len(new) = Len(line) + 1 /\ DOMAIN new = 1 .. Len(line) + 1
  BY <1>1, <1>2, IsASeq
<1>4. DOMAIN line = 1 .. Len(line)
  BY LenProperties
<1>5. new[k] = x /\ \A i \in 1 .. Len(line) : new[Shift(i, k)] = line[i]
  BY <1>1 DEF Inserted, Shift
<1>6. ASSUME NEW j \in 1 .. Len(line) + 1, j # k
      PROVE  \E i \in 1 .. Len(line) : j = Shift(i, k) /\ new[j] = line[i]
  <2>1. CASE j < k
    BY <1>1, <2>1 DEF Inserted, Shift
  <2>2. CASE j > k
    <3>1. j - 1 \in 1 .. Len(line) /\ j = Shift(j - 1, k) /\ new[j] = line[j - 1]
      BY <1>1, <2>2 DEF Inserted, Shift
    <3> QED
      BY <3>1
  <2> QED
    BY <1>6, <2>1, <2>2
<1>7. \A i \in Places(line, o) :
        /\ i \in 1 .. Len(line) /\ Shift(i, k) \in Places(new, o)
        /\ new[Shift(i, k)] = line[i]
  <2> SUFFICES ASSUME NEW i \in Places(line, o)
               PROVE  i \in 1 .. Len(line) /\ Shift(i, k) \in Places(new, o)
                      /\ new[Shift(i, k)] = line[i]
    OBVIOUS
  <2>1. i \in 1 .. Len(line) /\ new[Shift(i, k)] = line[i]
    BY <1>4, <1>5 DEF Places
  <2>2. Shift(i, k) \in 1 .. Len(line) + 1
    BY <1>1, <2>1 DEF Shift
  <2> QED
    BY <1>3, <2>1, <2>2 DEF Places
<1>8. \A j \in Places(new, o) : j # k => \E i \in Places(line, o) : j = Shift(i, k)
  <2> QED
    BY <1>3, <1>4, <1>6 DEF Places
<1>9. k \in Places(new, o) <=> Belongs(x, o)
  <2> QED
    BY <1>3, <1>5 DEF Places, Belongs
<1> QED
  BY <1>3, <1>5, <1>7, <1>8, <1>9

(* The order of the places is kept.                                        *)
LEMMA ShiftMonotone ==
    ASSUME NEW i \in Nat, NEW j \in Nat, NEW k \in Nat
    PROVE  /\ i < j <=> Shift(i, k) < Shift(j, k)
           /\ Shift(i, k) # k
  BY DEF Shift

(* An intent that is none of an origin's changes nothing for it.           *)
LEMMA InsertOther ==
    ASSUME NEW line \in Seq(Intents), NEW x \in Intents, NEW o,
           NEW k \in 1 .. Len(line) + 1, NEW new, new = Inserted(line, k, x),
           ~Belongs(x, o),
           NEW n \in Nat, NEW done \in Seq(Nat)
    PROVE  /\ InOrder(line, o, n, done) <=> InOrder(new, o, n, done)
           /\ LatestFirst(line, o, n, done) <=> LatestFirst(new, o, n, done)
<1>1. /\ \A i \in Places(line, o) :
           /\ i \in 1 .. Len(line) /\ Shift(i, k) \in Places(new, o)
           /\ new[Shift(i, k)] = line[i]
      /\ \A j \in Places(new, o) : \E i \in Places(line, o) : j = Shift(i, k)
  <2>1. /\ \A i \in Places(line, o) :
             /\ i \in 1 .. Len(line) /\ Shift(i, k) \in Places(new, o)
             /\ new[Shift(i, k)] = line[i]
        /\ \A j \in Places(new, o) :
             j # k => \E i \in Places(line, o) : j = Shift(i, k)
        /\ k \in Places(new, o) <=> Belongs(x, o)
    BY InsertedPlaces
  <2> QED
    BY <2>1
<1>2. Len(line) \in Nat
  BY LenProperties
<1>3. Unserved(new, o) = Unserved(line, o)
  BY <1>1 DEF Unserved
<1>4. \A i, j \in Places(line, o) : i < j <=> Shift(i, k) < Shift(j, k)
  BY <1>1, <1>2, ShiftMonotone
<1>5. (\A i, j \in Places(line, o) : i < j => line[i].nr < line[j].nr)
      <=> (\A i, j \in Places(new, o) : i < j => new[i].nr < new[j].nr)
  <2>1. ASSUME \A i, j \in Places(line, o) : i < j => line[i].nr < line[j].nr,
               NEW a \in Places(new, o), NEW b \in Places(new, o), a < b
        PROVE  new[a].nr < new[b].nr
    <3>1. PICK i, j \in Places(line, o) : a = Shift(i, k) /\ b = Shift(j, k)
      BY <1>1
    <3> QED
      BY <1>1, <1>4, <2>1, <3>1
  <2>2. ASSUME \A i, j \in Places(new, o) : i < j => new[i].nr < new[j].nr,
               NEW a \in Places(line, o), NEW b \in Places(line, o), a < b
        PROVE  line[a].nr < line[b].nr
    BY <1>1, <1>4, <2>2
  <2> QED
    BY <2>1, <2>2
<1>6. (\A i, j \in Places(line, o) : i < j => line[i].nr > line[j].nr)
      <=> (\A i, j \in Places(new, o) : i < j => new[i].nr > new[j].nr)
  <2>1. ASSUME \A i, j \in Places(line, o) : i < j => line[i].nr > line[j].nr,
               NEW a \in Places(new, o), NEW b \in Places(new, o), a < b
        PROVE  new[a].nr > new[b].nr
    <3>1. PICK i, j \in Places(line, o) : a = Shift(i, k) /\ b = Shift(j, k)
      BY <1>1
    <3> QED
      BY <1>1, <1>4, <2>1, <3>1
  <2>2. ASSUME \A i, j \in Places(new, o) : i < j => new[i].nr > new[j].nr,
               NEW a \in Places(line, o), NEW b \in Places(line, o), a < b
        PROVE  line[a].nr > line[b].nr
    BY <1>1, <1>4, <2>2
  <2> QED
    BY <2>1, <2>2
<1> QED
  BY <1>3, <1>5, <1>6 DEF InOrder, LatestFirst

(* What every new intent of an origin does to its places and numbers.      *)
LEMMA InsertOwn ==
    ASSUME NEW line \in Seq(Intents), NEW x \in Intents, NEW o,
           NEW k \in 1 .. Len(line) + 1, NEW new, new = Inserted(line, k, x),
           Belongs(x, o)
    PROVE  /\ Unserved(new, o) = Unserved(line, o) \cup {x.nr}
           /\ k \in Places(new, o) /\ new[k] = x
           /\ \A i \in Places(line, o) :
                /\ i \in 1 .. Len(line) /\ Shift(i, k) \in Places(new, o)
                /\ new[Shift(i, k)] = line[i]
           /\ \A j \in Places(new, o) :
                j = k \/ \E i \in Places(line, o) : j = Shift(i, k)
           /\ \A i, j \in Places(line, o) : i < j <=> Shift(i, k) < Shift(j, k)
<1>1. /\ \A i \in Places(line, o) :
           /\ i \in 1 .. Len(line) /\ Shift(i, k) \in Places(new, o)
           /\ new[Shift(i, k)] = line[i]
      /\ \A j \in Places(new, o) :
           j # k => \E i \in Places(line, o) : j = Shift(i, k)
      /\ k \in Places(new, o) /\ new[k] = x
  BY InsertedPlaces
<1>2. Len(line) \in Nat
  BY LenProperties
<1>3. Unserved(new, o) = Unserved(line, o) \cup {x.nr}
  <2>1. ASSUME NEW m \in Unserved(new, o) PROVE m \in Unserved(line, o) \cup {x.nr}
    <3>1. PICK j \in Places(new, o) : m = new[j].nr
      BY <2>1 DEF Unserved
    <3>2. CASE j = k
      BY <1>1, <3>1, <3>2
    <3>3. CASE j # k
      <4>1. PICK i \in Places(line, o) : j = Shift(i, k)
        BY <1>1, <3>3
      <4> QED
        BY <1>1, <3>1, <4>1 DEF Unserved
    <3> QED
      BY <3>2, <3>3
  <2>2. ASSUME NEW m \in Unserved(line, o) PROVE m \in Unserved(new, o)
    <3>1. PICK i \in Places(line, o) : m = line[i].nr
      BY <2>2 DEF Unserved
    <3> QED
      BY <1>1, <3>1 DEF Unserved
  <2>3. x.nr \in Unserved(new, o)
    BY <1>1 DEF Unserved
  <2> QED
    BY <2>1, <2>2, <2>3
<1>4. \A i, j \in Places(line, o) : i < j <=> Shift(i, k) < Shift(j, k)
  BY <1>1, <1>2, ShiftMonotone
<1> QED
  BY <1>1, <1>3, <1>4

(* The next intent of a priority joins the line behind the others of it.   *)
LEMMA InsertLast ==
    ASSUME NEW line \in Seq(Intents), NEW x \in Intents, NEW o,
           NEW k \in 1 .. Len(line) + 1, NEW new, new = Inserted(line, k, x),
           Belongs(x, o), \A i \in Places(line, o) : i < k,
           NEW n \in Nat, x.nr = n + 1, NEW done \in Seq(Nat),
           InOrder(line, o, n, done)
    PROVE  InOrder(new, o, n + 1, done)
<1>1. /\ Unserved(new, o) = Unserved(line, o) \cup {n + 1}
      /\ new[k].nr = n + 1
      /\ \A i \in Places(line, o) : i \in 1 .. Len(line) /\ new[i] = line[i]
      /\ \A j \in Places(new, o) : j = k \/ j \in Places(line, o)
  <2>1. /\ Unserved(new, o) = Unserved(line, o) \cup {x.nr}
        /\ k \in Places(new, o) /\ new[k] = x
        /\ \A i \in Places(line, o) :
             /\ i \in 1 .. Len(line) /\ Shift(i, k) \in Places(new, o)
             /\ new[Shift(i, k)] = line[i]
        /\ \A j \in Places(new, o) :
             j = k \/ \E i \in Places(line, o) : j = Shift(i, k)
    BY InsertOwn
  <2>2. \A i \in Places(line, o) : Shift(i, k) = i
    BY DEF Shift
  <2> QED
    BY <2>1, <2>2
<1>2. Len(done) \in Nat /\ Len(line) \in Nat
  BY LenProperties
<1>3. Unserved(new, o) = Len(done) + 1 .. n + 1
  <2>1. Unserved(line, o) = Len(done) + 1 .. n /\ Len(done) <= n
    BY DEF InOrder
  <2>2. Len(done) + 1 .. n + 1 = (Len(done) + 1 .. n) \cup {n + 1}
    BY <1>2, <2>1
  <2> QED
    BY <1>1, <2>1, <2>2
<1>4. \A i \in Places(line, o) : line[i].nr \in 1 .. n
  <2>1. Unserved(line, o) = Len(done) + 1 .. n
    BY DEF InOrder
  <2>2. \A i \in Places(line, o) : line[i].nr \in Len(done) + 1 .. n
    BY <2>1 DEF Unserved
  <2> QED
    BY <1>2, <2>2
<1>5. ASSUME NEW i \in Places(new, o), NEW j \in Places(new, o), i < j
      PROVE  new[i].nr < new[j].nr
  <2>1. i # k \/ j # k
    BY <1>2, <1>5
  <2>2. CASE j = k
    BY <1>1, <1>4, <1>5, <2>2
  <2>3. CASE i = k
    <3>1. j \in Places(line, o) /\ j < k
      BY <1>1, <2>1, <2>3
    <3> QED
      BY <1>1, <1>2, <1>5, <2>3, <3>1
  <2>4. CASE i # k /\ j # k
    BY <1>1, <1>5, <2>4 DEF InOrder
  <2> QED
    BY <2>2, <2>3, <2>4
<1> QED
  BY <1>2, <1>3, <1>5 DEF InOrder

(* An intent put in front of everything is the latest of its origin.       *)
LEMMA InsertFirst ==
    ASSUME NEW line \in Seq(Intents), NEW x \in Intents, NEW o,
           NEW new, new = Inserted(line, 1, x), Belongs(x, o),
           NEW n \in Nat, x.nr = n + 1, NEW done \in Seq(Nat),
           LatestFirst(line, o, n, done)
    PROVE  LatestFirst(new, o, n + 1, done)
<1>1. 1 \in 1 .. Len(line) + 1 /\ Len(line) \in Nat
  BY LenProperties
<1>2. /\ Unserved(new, o) = Unserved(line, o) \cup {n + 1}
      /\ new[1].nr = n + 1
      /\ \A i \in Places(line, o) : new[Shift(i, 1)] = line[i]
      /\ \A j \in Places(new, o) :
           j = 1 \/ \E i \in Places(line, o) : j = Shift(i, 1)
      /\ \A i \in Places(line, o) : i \in 1 .. Len(line)
      /\ \A i, j \in Places(line, o) : i < j <=> Shift(i, 1) < Shift(j, 1)
  <2>1. /\ Unserved(new, o) = Unserved(line, o) \cup {x.nr}
        /\ 1 \in Places(new, o) /\ new[1] = x
        /\ \A i \in Places(line, o) :
             /\ i \in 1 .. Len(line) /\ Shift(i, 1) \in Places(new, o)
             /\ new[Shift(i, 1)] = line[i]
        /\ \A j \in Places(new, o) :
             j = 1 \/ \E i \in Places(line, o) : j = Shift(i, 1)
        /\ \A i, j \in Places(line, o) : i < j <=> Shift(i, 1) < Shift(j, 1)
    BY <1>1, InsertOwn
  <2> QED
    BY <2>1
<1>3. \A i \in Places(line, o) : line[i].nr \in 1 .. n
  BY DEF LatestFirst, Unserved
<1>4. ToSet(done) \cap Unserved(new, o) = {} /\ ToSet(done) \cup Unserved(new, o) = 1 .. n + 1
  <2>1. n + 1 \notin 1 .. n /\ 1 .. n + 1 = (1 .. n) \cup {n + 1}
    OBVIOUS
  <2> QED
    BY <1>2, <2>1 DEF LatestFirst
<1>5. ASSUME NEW a \in Places(new, o), NEW b \in Places(new, o), a < b
      PROVE  new[a].nr > new[b].nr
  <2>1. PICK j \in Places(line, o) : b = Shift(j, 1)
    <3>1. b # 1
      <4>1. a >= 1
        BY <1>2, <1>1 DEF Shift
      <4> QED
        BY <1>5, <4>1, <1>2, <1>1 DEF Shift
    <3> QED
      BY <1>2, <3>1
  <2>2. CASE a = 1
    BY <1>2, <1>3, <2>1, <2>2
  <2>3. CASE a # 1
    <3>1. PICK i \in Places(line, o) : a = Shift(i, 1)
      BY <1>2, <2>3
    <3>2. i < j
      BY <1>2, <1>5, <2>1, <3>1
    <3> QED
      BY <1>2, <2>1, <3>1, <3>2 DEF LatestFirst
  <2> QED
    BY <2>2, <2>3
<1> QED
  BY <1>4, <1>5 DEF LatestFirst

LEMMA FirstOut ==
    ASSUME NEW line \in Seq(Intents), line # <<>>
    PROVE  /\ Tail(line) \in Seq(Intents) /\ Head(line) \in Intents
           /\ 1 \in 1 .. Len(Tail(line)) + 1
           /\ line = Inserted(Tail(line), 1, Head(line))
<1>1. /\ Tail(line) \in Seq(Intents) /\ Head(line) \in Intents
      /\ Len(line) \in Nat /\ Len(Tail(line)) = Len(line) - 1 /\ Len(line) # 0
      /\ Head(line) = line[1]
      /\ \A i \in 1 .. Len(line) - 1 : Tail(line)[i] = line[i + 1]
  BY HeadTailProperties, LenProperties, EmptySeq
<1>2. line = [i \in 1 .. Len(line) |-> line[i]]
  BY LenProperties
<1>3. \A i \in 1 .. Len(line) :
        line[i] = IF i < 1 THEN Tail(line)[i]
                  ELSE IF i = 1 THEN Head(line) ELSE Tail(line)[i - 1]
  BY <1>1
<1>4. line = Inserted(Tail(line), 1, Head(line))
  BY <1>1, <1>2, <1>3 DEF Inserted
<1> QED
  BY <1>1, <1>4

(* Taking the first intent changes nothing for the origins it is not of.   *)
LEMMA TakeOther ==
    ASSUME NEW line \in Seq(Intents), line # <<>>, NEW o, ~Belongs(Head(line), o),
           NEW n \in Nat, NEW done \in Seq(Nat)
    PROVE  /\ InOrder(line, o, n, done) => InOrder(Tail(line), o, n, done)
           /\ LatestFirst(line, o, n, done) => LatestFirst(Tail(line), o, n, done)
  BY FirstOut, InsertOther

(* What taking the first intent does to the origin it is of.               *)
LEMMA TakeOwn ==
    ASSUME NEW line \in Seq(Intents), line # <<>>, NEW o, Belongs(Head(line), o)
    PROVE  LET rest == Tail(line) x == Head(line)
           IN  /\ Unserved(line, o) = Unserved(rest, o) \cup {x.nr}
               /\ 1 \in Places(line, o) /\ line[1] = x
               /\ \A i \in Places(rest, o) :
                    i + 1 \in Places(line, o) /\ line[i + 1] = rest[i] /\ i \in Nat \ {0}
<1> DEFINE rest == Tail(line) x == Head(line)
<1>1. rest \in Seq(Intents) /\ x \in Intents /\ 1 \in 1 .. Len(rest) + 1
      /\ line = Inserted(rest, 1, x)
  BY FirstOut
<1>2. Belongs(x, o)
  OBVIOUS
<1> HIDE DEF rest, x
<1>3. /\ Unserved(line, o) = Unserved(rest, o) \cup {x.nr}
      /\ 1 \in Places(line, o) /\ line[1] = x
      /\ \A i \in Places(rest, o) :
           /\ i \in 1 .. Len(rest) /\ Shift(i, 1) \in Places(line, o)
           /\ line[Shift(i, 1)] = rest[i]
  <2>1. /\ Unserved(line, o) = Unserved(rest, o) \cup {x.nr}
        /\ 1 \in Places(line, o) /\ line[1] = x
        /\ \A i \in Places(rest, o) :
             /\ i \in 1 .. Len(rest) /\ Shift(i, 1) \in Places(line, o)
             /\ line[Shift(i, 1)] = rest[i]
        /\ \A j \in Places(line, o) :
             j = 1 \/ \E i \in Places(rest, o) : j = Shift(i, 1)
        /\ \A i, j \in Places(rest, o) : i < j <=> Shift(i, 1) < Shift(j, 1)
    BY <1>1, <1>2, InsertOwn
  <2> QED
    BY <2>1
<1>4. Len(rest) \in Nat
  BY <1>1, LenProperties
<1> QED
  BY <1>3, <1>4 DEF Shift, rest, x

(* The first of its priority in line has the number that is next.          *)
LEMMA TakeNext ==
    ASSUME NEW line \in Seq(Intents), line # <<>>, NEW o, Belongs(Head(line), o),
           NEW n \in Nat, NEW done \in Seq(Nat), InOrder(line, o, n, done)
    PROVE  InOrder(Tail(line), o, n, Append(done, Head(line).nr))
<1> DEFINE rest == Tail(line) x == Head(line) d == Len(done)
<1>1. /\ Unserved(line, o) = Unserved(rest, o) \cup {x.nr}
      /\ 1 \in Places(line, o) /\ line[1] = x
      /\ \A i \in Places(rest, o) :
           i + 1 \in Places(line, o) /\ line[i + 1] = rest[i] /\ i \in Nat \ {0}
  BY TakeOwn
<1>2. d \in Nat
  BY LenProperties
<1> HIDE DEF rest, x, d
<1>3. /\ done = [i \in 1 .. d |-> i] /\ d <= n
      /\ Unserved(line, o) = d + 1 .. n
      /\ \A i, j \in Places(line, o) : i < j => line[i].nr < line[j].nr
  BY DEF InOrder, d
<1>4. x.nr \in d + 1 .. n
  BY <1>1, <1>3
<1>5. \A i \in Places(rest, o) : rest[i].nr > x.nr
  <2> SUFFICES ASSUME NEW i \in Places(rest, o) PROVE rest[i].nr > x.nr
    OBVIOUS
  <2>1. line[1].nr < line[i + 1].nr
    BY <1>1, <1>3
  <2>2. line[i + 1].nr \in d + 1 .. n
    BY <1>1, <1>3 DEF Unserved
  <2> QED
    BY <1>1, <1>2, <1>4, <2>1, <2>2
<1>6. \A m \in Unserved(rest, o) : m > x.nr
  BY <1>5 DEF Unserved
<1>7. x.nr = d + 1
  <2>1. d + 1 \in Unserved(line, o)
    BY <1>2, <1>3, <1>4
  <2>2. d + 1 = x.nr \/ d + 1 > x.nr
    BY <1>1, <1>6, <2>1
  <2> QED
    BY <1>2, <1>4, <2>2
<1>8. Unserved(rest, o) = d + 2 .. n
  <2>1. ASSUME NEW m \in d + 2 .. n PROVE m \in Unserved(rest, o)
    BY <1>1, <1>2, <1>3, <1>7, <2>1
  <2>2. ASSUME NEW m \in Unserved(rest, o) PROVE m \in d + 2 .. n
    <3>1. m \in d + 1 .. n /\ m > d + 1
      BY <1>1, <1>3, <1>6, <1>7
    <3> QED
      BY <1>2, <3>1
  <2> QED
    BY <2>1, <2>2
<1>9. /\ Append(done, x.nr) = [i \in 1 .. d + 1 |-> i]
      /\ Len(Append(done, x.nr)) = d + 1
  <2>1. /\ Append(done, d + 1) \in Seq(Nat) /\ Len(Append(done, d + 1)) = d + 1
        /\ \A i \in 1 .. d : Append(done, d + 1)[i] = done[i]
        /\ Append(done, d + 1)[d + 1] = d + 1
    BY <1>2, AppendProperties DEF d
  <2>2. Append(done, d + 1) = [i \in 1 .. d + 1 |-> Append(done, d + 1)[i]]
    BY <2>1, LenProperties
  <2>3. \A i \in 1 .. d + 1 : Append(done, d + 1)[i] = i
    BY <1>2, <1>3, <2>1
  <2> QED
    BY <1>7, <2>1, <2>2, <2>3
<1>10. \A i, j \in Places(rest, o) : i < j => rest[i].nr < rest[j].nr
  <2> SUFFICES ASSUME NEW i \in Places(rest, o), NEW j \in Places(rest, o), i < j
               PROVE  rest[i].nr < rest[j].nr
    OBVIOUS
  <2>1. i + 1 < j + 1
    BY <1>1
  <2> QED
    BY <1>1, <1>3, <2>1
<1> DEFINE more == Append(done, x.nr)
<1>11. /\ more = [i \in 1 .. Len(more) |-> i] /\ Len(more) <= n
       /\ Unserved(rest, o) = Len(more) + 1 .. n
  <2>1. more = [i \in 1 .. d + 1 |-> i] /\ Len(more) = d + 1
    BY <1>9
  <2> HIDE DEF more
  <2>2. d + 1 <= n /\ (d + 1) + 1 = d + 2
    BY <1>2, <1>4, <1>7
  <2> QED
    BY <1>8, <2>1, <2>2
<1>12. InOrder(rest, o, n, more)
  BY <1>10, <1>11 DEF InOrder
<1> QED
  BY <1>12 DEF rest, x

(* The number of the first is served once: it no longer waits.             *)
LEMMA TakeLatest ==
    ASSUME NEW line \in Seq(Intents), line # <<>>, NEW o, Belongs(Head(line), o),
           NEW n \in Nat, NEW done \in Seq(Nat), LatestFirst(line, o, n, done)
    PROVE  LatestFirst(Tail(line), o, n, Append(done, Head(line).nr))
<1> DEFINE rest == Tail(line) x == Head(line)
<1>1. /\ Unserved(line, o) = Unserved(rest, o) \cup {x.nr}
      /\ 1 \in Places(line, o) /\ line[1] = x
      /\ \A i \in Places(rest, o) :
           i + 1 \in Places(line, o) /\ line[i + 1] = rest[i] /\ i \in Nat \ {0}
  BY TakeOwn
<1> HIDE DEF rest, x
<1>2. /\ IsInjective(done)
      /\ ToSet(done) \cap Unserved(line, o) = {}
      /\ ToSet(done) \cup Unserved(line, o) = 1 .. n
      /\ \A i, j \in Places(line, o) : i < j => line[i].nr > line[j].nr
  BY DEF LatestFirst
<1>3. x.nr \in 1 .. n /\ x.nr \notin ToSet(done)
  BY <1>1, <1>2
<1>4. \A m \in Unserved(rest, o) : m # x.nr
  <2> SUFFICES ASSUME NEW i \in Places(rest, o) PROVE rest[i].nr # x.nr
    BY DEF Unserved
  <2>1. line[1].nr > line[i + 1].nr
    BY <1>1, <1>2
  <2>2. line[i + 1].nr \in 1 .. n
    BY <1>1, <1>2 DEF Unserved
  <2> QED
    BY <1>1, <1>3, <2>1, <2>2
<1>5. x.nr \in Nat /\ Len(done) \in Nat /\ DOMAIN done = 1 .. Len(done)
  BY <1>3, LenProperties
<1>6. /\ DOMAIN Append(done, x.nr) = 1 .. Len(done) + 1
      /\ \A i \in 1 .. Len(done) : Append(done, x.nr)[i] = done[i]
      /\ Append(done, x.nr)[Len(done) + 1] = x.nr
  BY <1>5, AppendProperties, LenProperties
<1>7. ToSet(Append(done, x.nr)) = ToSet(done) \cup {x.nr}
  BY <1>5, <1>6 DEF ToSet
<1>8. IsInjective(Append(done, x.nr))
  <2>1. \A i \in 1 .. Len(done) : done[i] # x.nr
    BY <1>3, <1>5 DEF ToSet
  <2> QED
    BY <1>2, <1>5, <1>6, <2>1 DEF IsInjective
<1>9. \A i, j \in Places(rest, o) : i < j => rest[i].nr > rest[j].nr
  <2> SUFFICES ASSUME NEW i \in Places(rest, o), NEW j \in Places(rest, o), i < j
               PROVE  rest[i].nr > rest[j].nr
    OBVIOUS
  <2>1. i + 1 < j + 1
    BY <1>1
  <2> QED
    BY <1>1, <1>2, <2>1
<1>10. /\ ToSet(Append(done, x.nr)) \cap Unserved(rest, o) = {}
       /\ ToSet(Append(done, x.nr)) \cup Unserved(rest, o) = 1 .. n
  BY <1>1, <1>2, <1>3, <1>4, <1>7
<1> QED
  BY <1>8, <1>9, <1>10 DEF LatestFirst, rest, x

(* --------------------- the three queues as one line --------------------- *)

Queues == [Priorities -> Seq(Intents)]

(* The place behind the intents that wait with a priority.                 *)
EndOf(q, p) ==
    Len(q["P0"]) + (IF p = "P0" THEN 0 ELSE Len(q["P1"]))
                 + (IF p = "P2" THEN Len(q["P2"]) ELSE 0) + 1

LEMMA Joined ==
    ASSUME NEW s \in Seq(Intents), NEW t \in Seq(Intents)
    PROVE  /\ s \o t \in Seq(Intents) /\ Len(s) \in Nat /\ Len(t) \in Nat
           /\ Len(s \o t) = Len(s) + Len(t) /\ DOMAIN (s \o t) = 1 .. Len(s) + Len(t)
           /\ \A i \in 1 .. Len(s) + Len(t) :
                (s \o t)[i] = IF i <= Len(s) THEN s[i] ELSE t[i - Len(s)]
<1>1. Len(s) \in Nat /\ Len(t) \in Nat
  BY LenProperties
<1>2. s \o t \in Seq(Intents) /\ Len(s \o t) = Len(s) + Len(t)
  BY ConcatProperties
<1>3. DOMAIN (s \o t) = 1 .. Len(s) + Len(t)
  BY <1>2, LenProperties
<1> QED
  BY <1>1, <1>2, <1>3, ConcatProperties

LEMMA Regrouped ==
    ASSUME NEW s \in Seq(Intents), NEW t \in Seq(Intents), NEW u \in Seq(Intents)
    PROVE  (s \o t) \o u = s \o (t \o u)
  BY ConcatAssociative

LEMMA AppendOutside ==
    ASSUME NEW s \in Seq(Intents), NEW t \in Seq(Intents), NEW x \in Intents
    PROVE  s \o Append(t, x) = Append(s \o t, x)
<1>1. << x >> \in Seq(Intents) /\ s \o t \in Seq(Intents)
  BY Joined
<1>2. Append(t, x) = t \o << x >> /\ Append(s \o t, x) = (s \o t) \o << x >>
  BY <1>1, AppendIsConcat
<1>3. (s \o t) \o << x >> = s \o (t \o << x >>)
  BY <1>1, Regrouped
<1> QED
  BY <1>2, <1>3

LEMMA JoinInside ==
    ASSUME NEW s \in Seq(Intents), NEW t \in Seq(Intents), NEW x \in Intents
    PROVE  /\ s \o t \in Seq(Intents) /\ Len(s \o t) = Len(s) + Len(t)
           /\ Len(s) + 1 \in 1 .. Len(s \o t) + 1
           /\ Append(s, x) \o t = Inserted(s \o t, Len(s) + 1, x)
<1>1. /\ Len(s) \in Nat /\ Len(t) \in Nat
      /\ s \o t \in Seq(Intents) /\ Len(s \o t) = Len(s) + Len(t)
      /\ \A i \in 1 .. Len(s) + Len(t) :
           (s \o t)[i] = IF i <= Len(s) THEN s[i] ELSE t[i - Len(s)]
  BY Joined
<1>2. PICK ends \in Seq(Intents) :
        /\ ends = Append(s, x) /\ Len(ends) = Len(s) + 1
        /\ \A i \in 1 .. Len(s) : ends[i] = s[i]
        /\ ends[Len(s) + 1] = x
  BY AppendProperties
<1>9. /\ ends \o t \in Seq(Intents) /\ DOMAIN (ends \o t) = 1 .. Len(ends) + Len(t)
      /\ \A i \in 1 .. Len(ends) + Len(t) :
           (ends \o t)[i] = IF i <= Len(ends) THEN ends[i] ELSE t[i - Len(ends)]
  BY Joined
<1> DEFINE new == ends \o t
<1>3. /\ new \in Seq(Intents) /\ DOMAIN new = 1 .. Len(s) + 1 + Len(t)
      /\ \A i \in 1 .. Len(s) + 1 + Len(t) :
           new[i] = IF i <= Len(s) + 1 THEN ends[i] ELSE t[i - (Len(s) + 1)]
  BY <1>2, <1>9
<1> HIDE DEF new
<1> DEFINE old == s \o t
<1> HIDE DEF old
<1>4. /\ Len(old) = Len(s) + Len(t)
      /\ \A i \in 1 .. Len(s) + Len(t) : old[i] = IF i <= Len(s) THEN s[i] ELSE t[i - Len(s)]
  BY <1>1 DEF old
<1>5. ASSUME NEW i \in 1 .. Len(s) + Len(t) + 1
      PROVE  new[i] = IF i < Len(s) + 1 THEN old[i]
                      ELSE IF i = Len(s) + 1 THEN x ELSE old[i - 1]
  <2>1. CASE i < Len(s) + 1
    <3>1. i \in 1 .. Len(s) /\ i \in 1 .. Len(s) + Len(t) /\ i \in 1 .. Len(s) + 1 + Len(t)
      BY <1>1, <2>1
    <3>2. new[i] = ends[i]
      BY <1>1, <1>3, <3>1
    <3>3. ends[i] = s[i]
      BY <1>2, <3>1
    <3>4. old[i] = s[i]
      BY <1>1, <1>4, <3>1
    <3> QED
      BY <2>1, <3>2, <3>3, <3>4
  <2>2. CASE i = Len(s) + 1
    BY <1>1, <1>2, <1>3, <2>2
  <2>3. CASE i > Len(s) + 1
    <3>1. i - 1 \in 1 .. Len(s) + Len(t) /\ i - 1 > Len(s) /\ (i - 1) - Len(s) = i - (Len(s) + 1)
      BY <1>1, <2>3
    <3>2. old[i - 1] = t[i - (Len(s) + 1)]
      BY <1>1, <1>4, <3>1
    <3>3. new[i] = t[i - (Len(s) + 1)]
      BY <1>1, <1>3, <2>3
    <3> QED
      BY <1>1, <2>3, <3>2, <3>3
  <2>4. i < Len(s) + 1 \/ i = Len(s) + 1 \/ i > Len(s) + 1
    BY <1>1
  <2> QED
    BY <2>1, <2>2, <2>3, <2>4, Zenon
<1>6. new = [i \in 1 .. Len(old) + 1 |-> new[i]]
  <2>1. 1 .. Len(old) + 1 = 1 .. Len(new)
    BY <1>1, <1>3, <1>4, LenProperties
  <2>2. new \in [1 .. Len(new) -> Intents]
    BY <1>3, LenProperties
  <2> QED
    BY <2>1, <2>2, Zenon
<1>7. Len(old) + 1 = Len(s) + Len(t) + 1
  BY <1>1, <1>4
<1>8. new = Inserted(old, Len(s) + 1, x)
  BY <1>5, <1>6, <1>7 DEF Inserted
<1> QED
  BY <1>1, <1>2, <1>8 DEF old, new

LEMMA LineTyped ==
    ASSUME NEW q \in Queues
    PROVE  /\ q["P0"] \in Seq(Intents) /\ q["P1"] \in Seq(Intents) /\ q["P2"] \in Seq(Intents)
           /\ q["P0"] \o q["P1"] \in Seq(Intents) /\ Line(q) \in Seq(Intents)
<1>1. q["P0"] \in Seq(Intents) /\ q["P1"] \in Seq(Intents) /\ q["P2"] \in Seq(Intents)
  BY DEF Queues, Priorities
<1>2. q["P0"] \o q["P1"] \in Seq(Intents)
  BY <1>1, ConcatProperties
<1>3. (q["P0"] \o q["P1"]) \o q["P2"] \in Seq(Intents)
  BY <1>1, <1>2, ConcatProperties
<1> QED
  BY <1>1, <1>2, <1>3 DEF Line

(* Who joins a queue enters the line behind the others of the queue.       *)
LEMMA JoinsLine ==
    ASSUME NEW q \in Queues, NEW p \in Priorities, NEW x \in Intents,
           NEW r, r = [q EXCEPT ![p] = Append(@, x)]
    PROVE  /\ r \in Queues /\ EndOf(q, p) \in 1 .. Len(Line(q)) + 1
           /\ Line(r) = Inserted(Line(q), EndOf(q, p), x)
<1> DEFINE a == q["P0"] b == q["P1"] c == q["P2"]
<1>1. /\ a \in Seq(Intents) /\ b \in Seq(Intents) /\ c \in Seq(Intents)
      /\ a \o b \in Seq(Intents) /\ Line(q) = (a \o b) \o c /\ Line(q) \in Seq(Intents)
  BY LineTyped DEF Line
<1>2. r \in Queues
  <2>1. Append(q[p], x) \in Seq(Intents)
    BY AppendProperties DEF Queues
  <2> QED
    BY <2>1 DEF Queues
<1>3. Len(a) \in Nat /\ Len(b) \in Nat /\ Len(c) \in Nat
  BY <1>1, LenProperties
<1>4. Line(r) = (r["P0"] \o r["P1"]) \o r["P2"]
  BY DEF Line
<1>5. CASE p = "P0"
  <2>1. /\ r["P0"] = Append(a, x) /\ r["P1"] = b /\ r["P2"] = c /\ EndOf(q, p) = Len(a) + 1
    BY <1>3, <1>5 DEF EndOf, Queues, Priorities
  <2> HIDE DEF a, b, c
  <2>5. Append(a, x) \in Seq(Intents)
    BY <1>1, AppendProperties
  <2>6. (Append(a, x) \o b) \o c = Append(a, x) \o (b \o c)
    BY <1>1, <2>5, Regrouped, Zenon
  <2>7. (a \o b) \o c = a \o (b \o c)
    BY <1>1, Regrouped, Zenon
  <2>2. (Append(a, x) \o b) \o c = Append(a, x) \o (b \o c) /\ (a \o b) \o c = a \o (b \o c)
    BY <2>6, <2>7, Zenon
  <2>3. b \o c \in Seq(Intents)
    BY <1>1, ConcatProperties
  <2>8. PICK d \in Seq(Intents) : d = b \o c
    BY <2>3
  <2>9. /\ Len(a) + 1 \in 1 .. Len(a \o d) + 1
        /\ Append(a, x) \o d = Inserted(a \o d, Len(a) + 1, x)
    BY <1>1, JoinInside, Zenon
  <2>4. /\ Len(a) + 1 \in 1 .. Len(a \o (b \o c)) + 1
        /\ Append(a, x) \o (b \o c) = Inserted(a \o (b \o c), Len(a) + 1, x)
    BY <2>8, <2>9, Zenon
  <2> QED
    BY <1>1, <1>2, <1>4, <2>1, <2>2, <2>4
<1>6. CASE p = "P1"
  <2>1. /\ r["P0"] = a /\ r["P1"] = Append(b, x) /\ r["P2"] = c
        /\ EndOf(q, p) = Len(a) + Len(b) + 1
    BY <1>3, <1>6 DEF EndOf, Queues, Priorities
  <2> HIDE DEF a, b, c
  <2>2. a \o Append(b, x) = Append(a \o b, x)
    BY <1>1, AppendOutside
  <2>3. Len(a \o b) = Len(a) + Len(b)
    BY <1>1, ConcatProperties
  <2>4. /\ Len(a \o b) + 1 \in 1 .. Len((a \o b) \o c) + 1
        /\ Append(a \o b, x) \o c = Inserted((a \o b) \o c, Len(a \o b) + 1, x)
    BY <1>1, JoinInside, Zenon
  <2> QED
    BY <1>1, <1>2, <1>4, <2>1, <2>2, <2>3, <2>4
<1>7. CASE p = "P2"
  <2>1. /\ r["P0"] = a /\ r["P1"] = b /\ r["P2"] = Append(c, x)
        /\ EndOf(q, p) = Len(a) + Len(b) + Len(c) + 1
    BY <1>3, <1>7 DEF EndOf, Queues, Priorities
  <2> DEFINE ab == a \o b line == ab \o c
  <2>2. ab \in Seq(Intents) /\ line \in Seq(Intents) /\ line = Line(q)
    BY <1>1
  <2>3. Len(ab) = Len(a) + Len(b) /\ Len(line) = Len(ab) + Len(c)
    BY <1>1, ConcatProperties
  <2> HIDE DEF a, b, c, ab
  <2>4. ab \o Append(c, x) = Append(line, x)
    BY <1>1, <2>2, AppendOutside
  <2> HIDE DEF line
  <2>5. <<>> \in Seq(Intents) /\ line \o <<>> = line /\ Append(line, x) \o <<>> = Append(line, x)
    BY <2>2, ConcatEmptySeq, AppendProperties
  <2>6. /\ Len(line) + 1 \in 1 .. Len(line \o <<>>) + 1
        /\ Append(line, x) \o <<>> = Inserted(line \o <<>>, Len(line) + 1, x)
    BY <2>2, <2>5, JoinInside, Zenon
  <2>7. Line(r) = ab \o Append(c, x)
    BY <1>4, <2>1 DEF ab
  <2> QED
    BY <1>2, <2>1, <2>2, <2>3, <2>4, <2>5, <2>6, <2>7
<1> QED
  BY <1>5, <1>6, <1>7 DEF Priorities

(* Who is put in front of P0 is the first of the line.                     *)
LEMMA LeadsLine ==
    ASSUME NEW q \in Queues, NEW x \in Intents, NEW r, r = Requeued(q, x)
    PROVE  r \in Queues /\ Line(r) = Inserted(Line(q), 1, x)
<1> DEFINE a == q["P0"] b == q["P1"] c == q["P2"]
<1>1. /\ a \in Seq(Intents) /\ b \in Seq(Intents) /\ c \in Seq(Intents)
      /\ b \o c \in Seq(Intents) /\ a \o (b \o c) \in Seq(Intents)
      /\ Line(q) = (a \o b) \o c /\ << x >> \in Seq(Intents) /\ << x >> \o a \in Seq(Intents)
  BY LineTyped, ConcatProperties DEF Line
<1>2. /\ r["P0"] = << x >> \o a /\ r["P1"] = b /\ r["P2"] = c
      /\ r \in Queues
  BY <1>1 DEF Requeued, Queues, Priorities
<1>3. Line(r) = ((<< x >> \o a) \o b) \o c
  BY <1>2 DEF Line
<1> HIDE DEF a, b, c
<1>4. (a \o b) \o c = a \o (b \o c)
  BY <1>1, Regrouped
<1>9. ((<< x >> \o a) \o b) \o c = << x >> \o (a \o (b \o c))
  <2>1. PICK first \in Seq(Intents) : first = << x >>
    BY <1>1
  <2>2. PICK led \in Seq(Intents) : led = first \o a
    BY <1>1, Joined
  <2>3. PICK rest \in Seq(Intents) : rest = b \o c
    BY <1>1
  <2>4. a \in Seq(Intents) /\ b \in Seq(Intents) /\ c \in Seq(Intents)
    BY <1>1
  <2>5. (led \o b) \o c = led \o (b \o c)
    BY <2>4, Regrouped, ZenonT(30)
  <2>6. (first \o a) \o rest = first \o (a \o rest)
    BY <2>4, Regrouped, ZenonT(30)
  <2> QED
    BY <2>1, <2>2, <2>3, <2>5, <2>6
<1> DEFINE line == a \o (b \o c)
<1>5. line \in Seq(Intents) /\ Line(q) = line /\ Line(r) = << x >> \o line
  BY <1>1, <1>3, <1>4, <1>9
<1> HIDE DEF line
<1>6. <<>> \in Seq(Intents) /\ Len(<<>>) = 0 /\ Append(<<>>, x) = << x >> /\ <<>> \o line = line
  BY <1>5, ConcatEmptySeq
<1>7. Append(<<>>, x) \o line = Inserted(<<>> \o line, Len(<<>>) + 1, x)
  BY <1>5, <1>6, JoinInside
<1>8. << x >> \o line = Inserted(line, 1, x)
  BY <1>6, <1>7
<1> QED
  BY <1>2, <1>5, <1>8

(* The intent that is taken is the first of the line; if it is put back,   *)
(* the line is the same.                                                   *)
LEMMA TopOfLine ==
    ASSUME queues \in Queues, HasIntent,
           NEW popped, popped = [queues EXCEPT ![Top] = Tail(@)]
    PROVE  /\ popped \in Queues /\ NextIntent \in Intents
           /\ Line(queues) \in Seq(Intents) /\ Line(queues) # <<>>
           /\ Head(Line(queues)) = NextIntent /\ Line(popped) = Tail(Line(queues))
           /\ Line(Requeued(popped, NextIntent)) = Line(queues)
<1> DEFINE x == NextIntent put == Requeued(popped, x)
<1>1. /\ queues["P0"] \in Seq(Intents) /\ queues["P1"] \in Seq(Intents)
      /\ queues["P2"] \in Seq(Intents)
  BY DEF Queues, Priorities
<1>2. Top \in Priorities /\ queues[Top] # <<>> /\ queues[Top] \in Seq(Intents)
  BY DEF Top, HasIntent, Waiting, Priorities, Queues
<1>3. /\ x \in Intents /\ Tail(queues[Top]) \in Seq(Intents)
      /\ << x >> \o Tail(queues[Top]) = queues[Top]
  <2>1. /\ x = Head(queues[Top]) /\ x \in Intents
        /\ Tail(queues[Top]) \in Seq(Intents)
    BY <1>2, HeadTailProperties DEF NextIntent, Waiting
  <2>2. << x >> \o Tail(queues[Top]) = queues[Top]
    BY <1>2, <2>1, ConcatProperties, HeadTailProperties, LenProperties, EmptySeq, SeqEqual
  <2> QED
    BY <2>1, <2>2
<1>4. popped \in Queues
  BY <1>2, <1>3 DEF Queues
<1> HIDE DEF x
<1>5. Line(put) = Line(queues)
  <2>1. CASE Top = "P0"
    <3>1. put["P0"] = queues["P0"] /\ put["P1"] = queues["P1"] /\ put["P2"] = queues["P2"]
      BY <1>2, <1>3, <2>1 DEF Requeued, Queues, Priorities
    <3> QED
      BY <3>1 DEF Line
  <2>2. CASE Top = "P1"
    <3>1. queues["P0"] = <<>>
      BY <2>2 DEF Top, Waiting
    <3>2. /\ put["P0"] = << x >> \o <<>> /\ put["P1"] = Tail(queues["P1"])
          /\ put["P2"] = queues["P2"]
      BY <1>2, <1>3, <2>2, <3>1 DEF Requeued, Queues, Priorities
    <3>3. << x >> \o <<>> = << x >> /\ <<>> \o queues["P1"] = queues["P1"]
      BY <1>1, <1>3, ConcatEmptySeq
    <3> QED
      BY <1>3, <2>2, <3>1, <3>2, <3>3 DEF Line
  <2>3. CASE Top = "P2"
    <3>1. queues["P0"] = <<>> /\ queues["P1"] = <<>>
      BY <2>3 DEF Top, Waiting
    <3>2. /\ put["P0"] = << x >> \o <<>> /\ put["P1"] = <<>>
          /\ put["P2"] = Tail(queues["P2"])
      BY <1>2, <1>3, <2>3, <3>1 DEF Requeued, Queues, Priorities
    <3>3. << x >> \o <<>> = << x >> /\ <<>> \o queues["P2"] = queues["P2"]
          /\ <<>> \o <<>> = <<>>
      BY <1>1, <1>3, ConcatEmptySeq
    <3> QED
      BY <1>3, <2>3, <3>1, <3>2, <3>3 DEF Line
  <2> QED
    BY <1>2, <2>1, <2>2, <2>3 DEF Priorities
<1>6. Line(queues) = Inserted(Line(popped), 1, x)
  BY <1>3, <1>4, <1>5, LeadsLine
<1>7. Line(popped) \in Seq(Intents) /\ Line(queues) \in Seq(Intents)
  BY <1>4, LineTyped
<1> DEFINE line == Line(queues) rest == Line(popped)
<1>8. /\ Len(rest) \in Nat /\ line = [i \in 1 .. Len(rest) + 1 |-> line[i]]
      /\ \A i \in 1 .. Len(rest) + 1 : line[i] = IF i = 1 THEN x ELSE rest[i - 1]
  <2>1. Len(rest) \in Nat
    BY <1>7, LenProperties
  <2> QED
    BY <1>6, <2>1 DEF Inserted
<1>9. Len(line) = Len(rest) + 1 /\ line # <<>> /\ line[1] = x
      /\ \A i \in 1 .. Len(rest) : line[i + 1] = rest[i]
  <2>1. DOMAIN line = 1 .. Len(rest) + 1
    BY <1>8
  <2>2. Len(line) \in Nat /\ DOMAIN line = 1 .. Len(line)
    BY <1>7, LenProperties
  <2>3. Len(line) = Len(rest) + 1
    BY <1>8, <2>1, <2>2
  <2> HIDE DEF line, rest
  <2> QED
    BY <1>8, <2>3, EmptySeq
<1>10. Head(line) = x /\ Tail(line) = rest
  <2> HIDE DEF line, rest
  <2>1. line \in Seq(Intents) /\ rest \in Seq(Intents)
    BY <1>7 DEF line, rest
  <2>2. /\ Head(line) = line[1] /\ Tail(line) \in Seq(Intents)
        /\ Len(Tail(line)) = Len(line) - 1
        /\ \A i \in 1 .. Len(line) - 1 : Tail(line)[i] = line[i + 1]
    BY <1>9, <2>1, HeadTailProperties
  <2>3. /\ Len(Tail(line)) = Len(rest)
        /\ \A i \in 1 .. Len(rest) : Tail(line)[i] = rest[i]
    BY <1>8, <1>9, <2>2
  <2> QED
    BY <1>9, <2>1, <2>2, <2>3, SeqEqual
<1> QED
  BY <1>3, <1>4, <1>5, <1>7, <1>9, <1>10 DEF x

(* ------------------------ the books of the queues ----------------------- *)

(* An intent of P1 or P2 that must not be lost was enqueued there; in P0   *)
(* those wait that were put in front of it, wherever they came from.       *)
Sorted(q) ==
    \A p \in {"P1", "P2"} : \A i \in DOMAIN q[p] :
        IsLossless(q[p][i]) => q[p][i].from = p

Books(q, ask, srv) ==
    /\ q \in Queues /\ ask \in [Origins -> Nat] /\ srv \in [Origins -> Seq(Nat)]
    /\ Sorted(q)
    /\ \A p \in Priorities : InOrder(Line(q), p, ask[p], srv[p])
    /\ LatestFirst(Line(q), "Front", ask["Front"], srv["Front"])

LEMMA LosslessOps ==
    \A x \in Intents : IsLossless(x) <=> x.op \in {"LoadRom", "DebugStepFrame"}
  BY DEF IsLossless, CommandOf, DefaultPolicy, IsPump, Intents

(* The intents of a priority wait before the end of its queue.             *)
LEMMA PlacesBeforeEnd ==
    ASSUME NEW q \in Queues, Sorted(q), NEW p \in Priorities, NEW i \in Places(Line(q), p)
    PROVE  i < EndOf(q, p)
<1> DEFINE a == q["P0"] b == q["P1"] c == q["P2"] ab == a \o b
           m == Len(a) n == Len(b) o == Len(c) line == Line(q)
<1>1. /\ a \in Seq(Intents) /\ b \in Seq(Intents) /\ c \in Seq(Intents)
      /\ ab \in Seq(Intents) /\ line = ab \o c /\ line \in Seq(Intents)
  BY LineTyped DEF Line
<1>2. /\ m \in Nat /\ n \in Nat /\ o \in Nat
      /\ DOMAIN b = 1 .. n /\ DOMAIN c = 1 .. o
  BY <1>1, LenProperties
<1>3. /\ Len(ab) = m + n
      /\ \A k \in 1 .. m + n : ab[k] = IF k <= m THEN a[k] ELSE b[k - m]
  BY <1>1, ConcatProperties
<1>4. /\ Len(line) = m + n + o
      /\ \A k \in 1 .. m + n + o : line[k] = IF k <= m + n THEN ab[k] ELSE c[k - (m + n)]
  <2> HIDE DEF ab, line
  <2>1. /\ Len(line) = Len(ab) + Len(c)
        /\ \A k \in 1 .. Len(ab) + Len(c) : line[k] = IF k <= Len(ab) THEN ab[k] ELSE c[k - Len(ab)]
    BY <1>1, ConcatProperties
  <2> QED
    BY <1>3, <2>1
<1>5. i \in 1 .. m + n + o /\ IsLossless(line[i]) /\ line[i].from = p
  BY <1>1, <1>4, LenProperties DEF Places
<1>6. EndOf(q, p) = m + (IF p = "P0" THEN 0 ELSE n) + (IF p = "P2" THEN o ELSE 0) + 1
  BY DEF EndOf
<1>7. p \in {"P0", "P1", "P2"}
  BY DEF Priorities
<1>8. /\ \A k \in DOMAIN b : IsLossless(b[k]) => b[k].from = "P1"
      /\ \A k \in DOMAIN c : IsLossless(c[k]) => c[k].from = "P2"
  BY DEF Sorted
<1> HIDE DEF a, b, c, ab, m, n, o, line
<1>9. CASE i > m + n
  <2>1. i - (m + n) \in DOMAIN c /\ line[i] = c[i - (m + n)]
    BY <1>2, <1>4, <1>5, <1>9
  <2>2. p = "P2"
    BY <1>5, <1>8, <2>1
  <2> QED
    BY <1>2, <1>5, <1>6, <2>2
<1>10. CASE i > m /\ i <= m + n
  <2>1. i - m \in DOMAIN b /\ line[i] = b[i - m]
    BY <1>2, <1>3, <1>4, <1>5, <1>10
  <2>2. p = "P1"
    BY <1>5, <1>8, <2>1
  <2> QED
    BY <1>2, <1>5, <1>6, <1>10, <2>2
<1>11. CASE i <= m
  BY <1>2, <1>5, <1>6, <1>7, <1>11
<1> QED
  BY <1>2, <1>5, <1>9, <1>10, <1>11

(* An intent that may be lost changes no books wherever it joins.          *)
LEMMA OtherJoins ==
    ASSUME NEW q, NEW ask, NEW srv, Books(q, ask, srv), NEW p \in Priorities,
           NEW x \in Intents, ~IsLossless(x), NEW r, r = [q EXCEPT ![p] = Append(@, x)]
    PROVE  Books(r, ask, srv)
<1>1. /\ q \in Queues /\ ask \in [Origins -> Nat] /\ srv \in [Origins -> Seq(Nat)]
      /\ Priorities \subseteq Origins /\ "Front" \in Origins
  BY DEF Books, Origins
<1>2. /\ r \in Queues /\ Line(q) \in Seq(Intents)
      /\ EndOf(q, p) \in 1 .. Len(Line(q)) + 1
      /\ Line(r) = Inserted(Line(q), EndOf(q, p), x)
  BY <1>1, JoinsLine, LineTyped
<1>3. \A o : ~Belongs(x, o)
  BY DEF Belongs
<1>4. \A o \in Origins :
        /\ InOrder(Line(q), o, ask[o], srv[o]) => InOrder(Line(r), o, ask[o], srv[o])
        /\ LatestFirst(Line(q), o, ask[o], srv[o]) => LatestFirst(Line(r), o, ask[o], srv[o])
  BY <1>1, <1>2, <1>3, InsertOther
<1>5. Sorted(r)
  <2> SUFFICES ASSUME NEW s \in {"P1", "P2"}, NEW i \in DOMAIN r[s], IsLossless(r[s][i])
               PROVE  r[s][i].from = s
    BY DEF Sorted
  <2>1. CASE s # p
    BY <1>1, <2>1 DEF Books, Sorted, Queues, Priorities
  <2>2. CASE s = p
    <3>1. /\ r[s] = Append(q[s], x) /\ q[s] \in Seq(Intents)
      BY <1>1, <2>2 DEF Queues
    <3>2. i \in 1 .. Len(q[s]) + 1
      BY <3>1, AppendProperties, LenProperties
    <3>3. i # Len(q[s]) + 1
      BY <3>1, AppendProperties
    <3>4. i \in DOMAIN q[s] /\ r[s][i] = q[s][i]
      BY <3>1, <3>2, <3>3, AppendProperties, LenProperties
    <3> QED
      BY <3>4 DEF Books, Sorted
  <2> QED
    BY <2>1, <2>2
<1> QED
  BY <1>1, <1>2, <1>4, <1>5 DEF Books

(* The next intent of a priority is booked when it joins its queue.        *)
LEMMA NextJoins ==
    ASSUME NEW q, NEW ask, NEW srv, Books(q, ask, srv), NEW p \in Priorities,
           NEW x \in Intents, IsLossless(x), x.from = p, x.nr = ask[p] + 1,
           NEW r, r = [q EXCEPT ![p] = Append(@, x)]
    PROVE  Books(r, [ask EXCEPT ![p] = @ + 1], srv)
<1> DEFINE more == [ask EXCEPT ![p] = @ + 1]
<1>1. /\ q \in Queues /\ ask \in [Origins -> Nat] /\ srv \in [Origins -> Seq(Nat)]
      /\ Priorities \subseteq Origins /\ "Front" \in Origins \ Priorities
  BY DEF Books, Origins, Priorities
<1>2. /\ r \in Queues /\ Line(q) \in Seq(Intents)
      /\ EndOf(q, p) \in 1 .. Len(Line(q)) + 1
      /\ Line(r) = Inserted(Line(q), EndOf(q, p), x)
  BY <1>1, JoinsLine, LineTyped
<1>3. more \in [Origins -> Nat] /\ more[p] = ask[p] + 1 /\ \A o \in Origins : o # p => more[o] = ask[o]
  BY <1>1
<1> HIDE DEF more
<1>4. \A o \in Origins : o # p =>
        /\ InOrder(Line(q), o, ask[o], srv[o]) => InOrder(Line(r), o, ask[o], srv[o])
        /\ LatestFirst(Line(q), o, ask[o], srv[o]) => LatestFirst(Line(r), o, ask[o], srv[o])
  BY <1>1, <1>2, InsertOther DEF Belongs
<1>5. InOrder(Line(r), p, ask[p] + 1, srv[p])
  <2>1. \A i \in Places(Line(q), p) : i < EndOf(q, p)
    BY <1>1, PlacesBeforeEnd DEF Books
  <2>2. Belongs(x, p) /\ ask[p] \in Nat /\ srv[p] \in Seq(Nat)
        /\ InOrder(Line(q), p, ask[p], srv[p])
    BY <1>1 DEF Belongs, Books
  <2> QED
    BY <1>2, <2>1, <2>2, InsertLast
<1>6. Sorted(r)
  <2> SUFFICES ASSUME NEW s \in {"P1", "P2"}, NEW i \in DOMAIN r[s], IsLossless(r[s][i])
               PROVE  r[s][i].from = s
    BY DEF Sorted
  <2>1. CASE s # p
    BY <1>1, <2>1 DEF Books, Sorted, Queues, Priorities
  <2>2. CASE s = p
    <3>1. /\ r[s] = Append(q[s], x) /\ q[s] \in Seq(Intents)
      BY <1>1, <2>2 DEF Queues
    <3>2. i \in 1 .. Len(q[s]) + 1
      BY <3>1, AppendProperties, LenProperties
    <3>3. CASE i = Len(q[s]) + 1
      BY <2>2, <3>1, <3>3, AppendProperties
    <3>4. CASE i # Len(q[s]) + 1
      <4>1. i \in DOMAIN q[s] /\ r[s][i] = q[s][i]
        BY <3>1, <3>2, <3>4, AppendProperties, LenProperties
      <4> QED
        BY <4>1 DEF Books, Sorted
    <3> QED
      BY <3>3, <3>4
  <2> QED
    BY <2>1, <2>2
<1>7. \A o \in Priorities : InOrder(Line(r), o, more[o], srv[o])
  BY <1>1, <1>3, <1>4, <1>5 DEF Books
<1>8. LatestFirst(Line(r), "Front", more["Front"], srv["Front"])
  BY <1>1, <1>3, <1>4 DEF Books
<1> QED
  BY <1>1, <1>2, <1>3, <1>6, <1>7, <1>8 DEF Books, more

(* An intent put in front of everything is booked as the latest there.     *)
LEMMA FrontLeads ==
    ASSUME NEW q, NEW ask, NEW srv, Books(q, ask, srv),
           NEW x \in Intents, NEW r, r = Requeued(q, x)
    PROVE  /\ ~IsLossless(x) => Books(r, ask, srv)
           /\ (IsLossless(x) /\ x.from = "Front" /\ x.nr = ask["Front"] + 1)
              => Books(r, [ask EXCEPT !["Front"] = @ + 1], srv)
<1> DEFINE more == [ask EXCEPT !["Front"] = @ + 1]
<1>1. /\ q \in Queues /\ ask \in [Origins -> Nat] /\ srv \in [Origins -> Seq(Nat)]
      /\ Priorities \subseteq Origins /\ "Front" \in Origins \ Priorities
  BY DEF Books, Origins, Priorities
<1>2. /\ r \in Queues /\ Line(q) \in Seq(Intents) /\ 1 \in 1 .. Len(Line(q)) + 1
      /\ Line(r) = Inserted(Line(q), 1, x)
  <2>1. Line(q) \in Seq(Intents)
    BY <1>1, LineTyped
  <2>2. 1 \in 1 .. Len(Line(q)) + 1
    BY <2>1, LenProperties
  <2> QED
    BY <1>1, <2>1, <2>2, LeadsLine
<1>3. /\ more \in [Origins -> Nat] /\ more["Front"] = ask["Front"] + 1
      /\ \A o \in Priorities : more[o] = ask[o]
  BY <1>1
<1> HIDE DEF more
<1>4. \A o \in Origins : ~Belongs(x, o) =>
        /\ InOrder(Line(q), o, ask[o], srv[o]) => InOrder(Line(r), o, ask[o], srv[o])
        /\ LatestFirst(Line(q), o, ask[o], srv[o]) => LatestFirst(Line(r), o, ask[o], srv[o])
  BY <1>1, <1>2, InsertOther
<1>5. Sorted(r)
  <2>1. r["P1"] = q["P1"] /\ r["P2"] = q["P2"]
    BY <1>1 DEF Requeued, Queues, Priorities
  <2> QED
    BY <2>1 DEF Books, Sorted
<1>6. ASSUME ~IsLossless(x) PROVE Books(r, ask, srv)
  <2>1. \A o : ~Belongs(x, o)
    BY <1>6 DEF Belongs
  <2> QED
    BY <1>1, <1>2, <1>4, <1>5, <2>1 DEF Books
<1>7. ASSUME IsLossless(x), x.from = "Front", x.nr = ask["Front"] + 1
      PROVE  Books(r, more, srv)
  <2>1. Belongs(x, "Front") /\ \A o \in Priorities : ~Belongs(x, o)
    BY <1>1, <1>7 DEF Belongs
  <2>2. /\ ask["Front"] \in Nat /\ srv["Front"] \in Seq(Nat)
        /\ LatestFirst(Line(q), "Front", ask["Front"], srv["Front"])
    BY <1>1 DEF Books
  <2>3. LatestFirst(Line(r), "Front", ask["Front"] + 1, srv["Front"])
    BY <1>2, <1>7, <2>1, <2>2, InsertFirst
  <2>4. \A o \in Priorities : InOrder(Line(r), o, ask[o], srv[o])
    BY <1>1, <1>4, <2>1 DEF Books
  <2> QED
    BY <1>1, <1>2, <1>3, <1>5, <2>3, <2>4 DEF Books
<1> QED
  BY <1>6, <1>7 DEF more

(* An intent that is taken leaves the books in order: it was not to be     *)
(* booked, or it is now served, or it is put back.                         *)
LEMMA TopTaken ==
    ASSUME Books(queues, asked, served), HasIntent,
           NEW popped, popped = [queues EXCEPT ![Top] = Tail(@)],
           NEW x, x = NextIntent
    PROVE  /\ x \in Intents
           /\ Books(Requeued(popped, x), asked, served)
           /\ ~IsLossless(x) => Books(popped, asked, served)
           /\ (IsLossless(x) /\ x.from \in Origins)
              => Books(popped, asked, [served EXCEPT ![x.from] = Append(@, x.nr)])
<1> DEFINE put == Requeued(popped, x) line == Line(queues)
           sent == [served EXCEPT ![x.from] = Append(@, x.nr)]
<1>1. /\ queues \in Queues /\ asked \in [Origins -> Nat] /\ served \in [Origins -> Seq(Nat)]
      /\ Priorities \subseteq Origins /\ "Front" \in Origins \ Priorities
  BY DEF Books, Origins, Priorities
<1>2. /\ popped \in Queues /\ x \in Intents
      /\ line \in Seq(Intents) /\ line # <<>>
      /\ Head(line) = x /\ Line(popped) = Tail(line)
      /\ Line(put) = line
  BY <1>1, TopOfLine
<1>3. put \in Queues
  BY <1>2, LeadsLine
<1>4. Sorted(popped) /\ Sorted(put)
  <2>1. Top \in Priorities /\ queues[Top] # <<>> /\ queues[Top] \in Seq(Intents)
    BY <1>1 DEF Top, HasIntent, Waiting, Priorities, Queues
  <2>2. ASSUME NEW s \in {"P1", "P2"}, NEW i \in DOMAIN popped[s], IsLossless(popped[s][i])
        PROVE  popped[s][i].from = s
    <3>1. CASE s # Top
      BY <1>1, <2>2, <3>1 DEF Books, Sorted, Queues, Priorities
    <3>2. CASE s = Top
      <4>1. popped[s] = Tail(queues[s])
        BY <1>1, <2>1, <3>2 DEF Queues
      <4>2. PICK w \in Seq(Intents) : w = queues[s] /\ w # <<>> /\ popped[s] = Tail(w)
        BY <2>1, <3>2, <4>1
      <4>3. /\ Len(w) \in Nat /\ Tail(w) \in Seq(Intents) /\ Len(Tail(w)) = Len(w) - 1
            /\ \A k \in 1 .. Len(Tail(w)) : Tail(w)[k] = w[k + 1]
        BY <4>2, HeadTailProperties, LenProperties
      <4>4. i \in 1 .. Len(w) - 1
        BY <2>2, <4>2, <4>3, LenProperties
      <4>5. i + 1 \in 1 .. Len(w) /\ DOMAIN w = 1 .. Len(w)
        BY <4>3, <4>4, LenProperties
      <4>6. Tail(w)[i] = w[i + 1]
        BY <4>3, <4>4
      <4> QED
        BY <2>2, <4>2, <4>5, <4>6 DEF Books, Sorted
    <3> QED
      BY <3>1, <3>2
  <2>3. Sorted(popped)
    BY <2>2 DEF Sorted
  <2>4. put["P1"] = popped["P1"] /\ put["P2"] = popped["P2"]
    BY <1>2 DEF Requeued, Queues, Priorities
  <2> HIDE DEF put
  <2>5. Sorted(put)
    <3> SUFFICES ASSUME NEW s \in {"P1", "P2"}, NEW i \in DOMAIN put[s], IsLossless(put[s][i])
                 PROVE  put[s][i].from = s
      BY DEF Sorted
    <3>1. put[s] = popped[s]
      BY <2>4
    <3> QED
      BY <2>3, <3>1 DEF Sorted
  <2> QED
    BY <2>3, <2>5
<1>5. Books(put, asked, served)
  <2> HIDE DEF put
  <2> QED
    BY <1>1, <1>2, <1>3, <1>4 DEF Books
<1>6. \A o \in Origins : ~Belongs(x, o) =>
        /\ InOrder(line, o, asked[o], served[o]) => InOrder(Tail(line), o, asked[o], served[o])
        /\ LatestFirst(line, o, asked[o], served[o]) => LatestFirst(Tail(line), o, asked[o], served[o])
  BY <1>1, <1>2, TakeOther
<1>7. ASSUME ~IsLossless(x) PROVE Books(popped, asked, served)
  <2>1. \A o : ~Belongs(x, o)
    BY <1>7 DEF Belongs
  <2> QED
    BY <1>1, <1>2, <1>4, <1>6, <2>1 DEF Books
<1>8. ASSUME IsLossless(x), x.from \in Origins PROVE Books(popped, asked, sent)
  <2>1. Belongs(x, x.from) /\ \A o \in Origins : o # x.from => ~Belongs(x, o)
    BY <1>8 DEF Belongs
  <2>2. x.nr \in Nat
    BY <1>2 DEF Intents
  <2>3. /\ sent \in [Origins -> Seq(Nat)]
        /\ sent[x.from] = Append(served[x.from], x.nr)
        /\ \A o \in Origins : o # x.from => sent[o] = served[o]
    BY <1>1, <1>8, <2>2, AppendProperties
  <2> HIDE DEF sent
  <2>4. \A o \in Priorities : InOrder(Tail(line), o, asked[o], sent[o])
    <3> SUFFICES ASSUME NEW o \in Priorities PROVE InOrder(Tail(line), o, asked[o], sent[o])
      OBVIOUS
    <3>1. InOrder(line, o, asked[o], served[o]) /\ o \in Origins
      BY <1>1 DEF Books
    <3>2. CASE o # x.from
      BY <1>6, <2>1, <2>3, <3>1, <3>2
    <3>3. CASE o = x.from
      <4>1. Belongs(Head(line), o) /\ asked[o] \in Nat /\ served[o] \in Seq(Nat)
        BY <1>1, <1>2, <2>1, <3>3, <3>1
      <4>2. InOrder(Tail(line), o, asked[o], Append(served[o], Head(line).nr))
        BY <1>2, <3>1, <4>1, TakeNext
      <4> QED
        BY <1>2, <2>3, <3>3, <4>2
    <3> QED
      BY <3>2, <3>3
  <2>5. LatestFirst(Tail(line), "Front", asked["Front"], sent["Front"])
    <3>1. LatestFirst(line, "Front", asked["Front"], served["Front"]) /\ "Front" \in Origins
      BY <1>1 DEF Books
    <3>2. CASE "Front" # x.from
      BY <1>6, <2>1, <2>3, <3>1, <3>2
    <3>3. CASE "Front" = x.from
      <4>1. /\ Belongs(Head(line), "Front") /\ asked["Front"] \in Nat
            /\ served["Front"] \in Seq(Nat)
        BY <1>1, <1>2, <2>1, <3>3, <3>1
      <4>2. LatestFirst(Tail(line), "Front", asked["Front"], Append(served["Front"], Head(line).nr))
        BY <1>2, <3>1, <4>1, TakeLatest
      <4> QED
        BY <1>2, <2>3, <3>3, <4>2
    <3> QED
      BY <3>2, <3>3
  <2> QED
    BY <1>1, <1>2, <1>4, <2>3, <2>4, <2>5 DEF Books
<1> QED
  BY <1>2, <1>5, <1>7, <1>8

(* ----------------------- the loop with any services --------------------- *)

\* What a client may enqueue: anything, but what must not be lost is numbered.
Askable == {"PumpFrame", "TogglePause", "SelectDisplayLane", "DebugSnapshot"} \cup Numbered

(* A service may refuse a command that must not be lost, but not drop it.  *)
Lawful(outcome, intent) ==
    /\ outcome \in {"Accepted", "Coalesced", "Dropped", "WouldBlock", "Closed"}
    /\ IsLossless(intent) => outcome # "Dropped"

(* A load in front of everything and a pump, as gbx_load_rom asks for them. *)
LoadAndPump ==
    LET load == NewIntent("LoadRom", "Front", 0)
    IN  /\ "LoadRom" \in Numbered
        /\ queues' = [Requeued(queues, load) EXCEPT !["P1"] = Append(@, Pump)]
        /\ Ask(load)
        /\ UNCHANGED <<world, phase, budget, batch, served>>

LoopNext ==
    \/ \E p \in Priorities, op \in Askable, arg \in Nat : Enqueue(p, op, arg)
    \/ \E op \in Askable, arg \in Nat : EnqueueFront(op, arg)
    \/ LoadAndPump
    \/ StartFrame
    \/ \E outcome : Lawful(outcome, NextIntent) /\ TakeIntent(outcome)
    \/ \E drained : Gather(drained)
    \/ TakeReport
    \/ EndFrame

(* The scheduler with clients and services of any kind.                    *)
LoopSpec == InitLoop /\ [][LoopNext]_loopVars

LEMMA BooksMean == Books(queues, asked, served) => LosslessInOrder /\ FrontConserved
  BY DEF Books, LosslessInOrder, FrontConserved, InLine, Line

LEMMA InitBooks == InitLoop => Books(queues, asked, served)
<1> SUFFICES ASSUME InitLoop PROVE Books(queues, asked, served)
  OBVIOUS
<1>1. <<>> \in Seq(Intents) /\ <<>> \in Seq(Nat) /\ Len(<<>>) = 0
  OBVIOUS
<1>2. queues \in Queues /\ asked \in [Origins -> Nat] /\ served \in [Origins -> Seq(Nat)]
  BY <1>1 DEF InitLoop, Queues
<1>3. Sorted(queues)
  BY DEF InitLoop, Sorted, Priorities
<1>4. Line(queues) = <<>>
  BY <1>1, ConcatEmptySeq DEF InitLoop, Line, Priorities
<1>5. \A o : Places(<<>>, o) = {} /\ Unserved(<<>>, o) = {}
  BY DEF Places, Unserved
<1>6. \A o \in Origins : asked[o] = 0 /\ served[o] = <<>>
  BY DEF InitLoop
<1>7. \A o \in Origins : InOrder(<<>>, o, 0, <<>>)
  BY <1>1, <1>5 DEF InOrder
<1>8. \A o \in Origins : LatestFirst(<<>>, o, 0, <<>>)
  <2>1. ToSet(<<>>) = {} /\ 1 .. 0 = {} /\ IsInjective(<<>>)
    BY DEF ToSet, IsInjective
  <2> QED
    BY <1>5, <2>1 DEF LatestFirst
<1> QED
  BY <1>2, <1>3, <1>4, <1>6, <1>7, <1>8 DEF Books, Origins, Priorities

(* What NewIntent makes of a question a client may ask.                    *)
LEMMA NewIntentFacts ==
    ASSUME Books(queues, asked, served), NEW op \in Askable, NEW o \in Origins, NEW arg \in Nat,
           NEW x, x = NewIntent(op, o, arg), Ask(x)
    PROVE  /\ x \in Intents /\ x.from = o
           /\ IsLossless(x) => x.nr = asked[o] + 1 /\ asked' = [asked EXCEPT ![o] = @ + 1]
           /\ ~IsLossless(x) => asked' = asked
<1>1. asked[o] \in Nat
  BY DEF Books
<1>2. x \in Intents /\ x.from = o /\ x.op = op
  BY <1>1, LoopAssumption DEF NewIntent, Intents, Askable
<1>3. IsLossless(x) <=> op \in Numbered
  BY <1>2, LosslessOps, LoopAssumption DEF Askable
<1> QED
  BY <1>2, <1>3 DEF Ask, NewIntent

LEMMA NextBooks ==
    ASSUME Books(queues, asked, served), [LoopNext]_loopVars
    PROVE  Books(queues, asked, served)'
<1>1. ASSUME NEW p \in Priorities, NEW op \in Askable, NEW arg \in Nat, Enqueue(p, op, arg)
      PROVE  Books(queues, asked, served)'
  <2> DEFINE x == NewIntent(op, p, arg)
  <2>1. /\ queues' = [queues EXCEPT ![p] = Append(@, x)] /\ Ask(x) /\ served' = served
        /\ p \in Origins
    BY <1>1 DEF Enqueue, Origins
  <2> HIDE DEF x
  <2>2. /\ x \in Intents /\ x.from = p
        /\ IsLossless(x) => x.nr = asked[p] + 1 /\ asked' = [asked EXCEPT ![p] = @ + 1]
        /\ ~IsLossless(x) => asked' = asked
    BY <2>1, NewIntentFacts DEF x
  <2>3. CASE IsLossless(x)
    <3>1. PICK r : r = [queues EXCEPT ![p] = Append(@, x)]
      OBVIOUS
    <3>2. Books(r, [asked EXCEPT ![p] = @ + 1], served)
      BY <2>2, <2>3, <3>1, NextJoins
    <3> QED
      BY <2>1, <2>2, <2>3, <3>1, <3>2
  <2>4. CASE ~IsLossless(x)
    BY <2>1, <2>2, <2>4, OtherJoins
  <2> QED
    BY <2>3, <2>4
<1>2. ASSUME NEW op \in Askable, NEW arg \in Nat, EnqueueFront(op, arg)
      PROVE  Books(queues, asked, served)'
  <2> DEFINE x == NewIntent(op, "Front", arg)
  <2>1. /\ queues' = Requeued(queues, x) /\ Ask(x) /\ served' = served
        /\ "Front" \in Origins
    BY <1>2 DEF EnqueueFront, Origins
  <2> HIDE DEF x
  <2>2. /\ x \in Intents /\ x.from = "Front"
        /\ IsLossless(x) => x.nr = asked["Front"] + 1 /\ asked' = [asked EXCEPT !["Front"] = @ + 1]
        /\ ~IsLossless(x) => asked' = asked
    BY <2>1, NewIntentFacts DEF x
  <2>3. PICK r : r = Requeued(queues, x)
    OBVIOUS
  <2>4. /\ ~IsLossless(x) => Books(r, asked, served)
        /\ IsLossless(x) => Books(r, [asked EXCEPT !["Front"] = @ + 1], served)
    BY <2>2, <2>3, FrontLeads
  <2> QED
    BY <2>1, <2>2, <2>3, <2>4
<1>3. ASSUME LoadAndPump PROVE Books(queues, asked, served)'
  <2> DEFINE x == NewIntent("LoadRom", "Front", 0) put == Requeued(queues, x)
  <2>1. /\ queues' = [put EXCEPT !["P1"] = Append(@, Pump)] /\ Ask(x) /\ served' = served
        /\ "Front" \in Origins /\ "P1" \in Priorities /\ "LoadRom" \in Numbered
        /\ "LoadRom" \in Askable
    BY <1>3 DEF LoadAndPump, Origins, Priorities, Askable
  <2>2. x.op = "LoadRom"
    BY DEF NewIntent
  <2> HIDE DEF x
  <2>3. /\ x \in Intents /\ x.from = "Front"
        /\ IsLossless(x) => x.nr = asked["Front"] + 1 /\ asked' = [asked EXCEPT !["Front"] = @ + 1]
    BY <2>1, NewIntentFacts DEF x
  <2>4. IsLossless(x)
    BY <2>2, <2>3, LosslessOps
  <2> HIDE DEF put
  <2>5. Books(put, asked', served)
    BY <2>3, <2>4, FrontLeads DEF put
  <2>6. Pump \in Intents /\ ~IsLossless(Pump)
    <3>1. Pump \in Intents /\ Pump.op = "PumpFrame"
      BY DEF Pump, Intents, Origins, Priorities
    <3> QED
      BY <3>1, LosslessOps
  <2> QED
    BY <2>1, <2>5, <2>6, OtherJoins
<1>4. ASSUME NEW outcome, Lawful(outcome, NextIntent), TakeIntent(outcome)
      PROVE  Books(queues, asked, served)'
  <2> DEFINE x == NextIntent popped == [queues EXCEPT ![Top] = Tail(@)]
             again == Retry(outcome, CommandOf(x))
  <2>1. /\ HasIntent /\ asked' = asked
        /\ queues' = IF again THEN Requeued(popped, x) ELSE popped
        /\ served' = IF IsLossless(x) /\ outcome \in {"Accepted", "Coalesced"}
                     THEN [served EXCEPT ![x.from] = Append(@, x.nr)] ELSE served
    BY <1>4 DEF TakeIntent
  <2>2. /\ x \in Intents
        /\ Books(Requeued(popped, x), asked, served)
        /\ ~IsLossless(x) => Books(popped, asked, served)
        /\ (IsLossless(x) /\ x.from \in Origins)
           => Books(popped, asked, [served EXCEPT ![x.from] = Append(@, x.nr)])
    BY <2>1, TopTaken
  <2>3. x.from \in Origins
    BY <2>2 DEF Intents
  <2>4. again => outcome \in {"Closed", "WouldBlock"}
    BY DEF Retry
  <2>5. (IsLossless(x) /\ outcome \in {"Closed", "WouldBlock"}) => again
    BY DEF Retry, IsLossless
  <2>6. IsLossless(x) => outcome \in {"Accepted", "Coalesced", "WouldBlock", "Closed"}
    BY <1>4 DEF Lawful
  <2> HIDE DEF x, popped, again
  <2> QED
    BY <2>1, <2>2, <2>3, <2>4, <2>5, <2>6
<1>5. ASSUME TakeReport PROVE Books(queues, asked, served)'
  <2> DEFINE more == Deferred(Head(batch))
  <2>1. /\ queues' = [queues EXCEPT !["P1"] = @ \o more] /\ asked' = asked /\ served' = served
        /\ more = <<>> \/ more = << Pump >>
    BY <1>5 DEF TakeReport, Deferred
  <2>2. queues \in Queues /\ "P1" \in Priorities /\ queues["P1"] \in Seq(Intents)
    BY DEF Books, Queues, Priorities
  <2>3. Pump \in Intents /\ ~IsLossless(Pump)
    <3>1. Pump \in Intents /\ Pump.op = "PumpFrame"
      BY DEF Pump, Intents, Origins, Priorities
    <3> QED
      BY <3>1, LosslessOps
  <2> HIDE DEF more
  <2>4. CASE more = <<>>
    <3>1. queues["P1"] \o <<>> = queues["P1"]
      BY <2>2, ConcatEmptySeq
    <3>2. queues' = queues
      BY <2>1, <2>2, <2>4, <3>1 DEF Queues
    <3> QED
      BY <2>1, <3>2
  <2>5. CASE more = << Pump >>
    <3>1. queues["P1"] \o << Pump >> = Append(queues["P1"], Pump)
      BY <2>2, <2>3, AppendIsConcat
    <3>2. queues' = [queues EXCEPT !["P1"] = Append(@, Pump)]
      BY <2>1, <2>2, <2>5, <3>1 DEF Queues
    <3> QED
      BY <2>1, <2>2, <2>3, <3>2, OtherJoins
  <2> QED
    BY <2>1, <2>4, <2>5
<1>6. ASSUME UNCHANGED <<queues, asked, served>> PROVE Books(queues, asked, served)'
  BY <1>6
<1>7. (StartFrame \/ (\E drained : Gather(drained)) \/ EndFrame \/ UNCHANGED loopVars)
      => UNCHANGED <<queues, asked, served>>
  BY DEF StartFrame, Gather, EndFrame, loopVars
<1> QED
  BY <1>1, <1>2, <1>3, <1>4, <1>5, <1>6, <1>7 DEF LoopNext

(* Of what was asked for with one priority none is lost, served twice or   *)
(* overtaken, whatever clients ask and services answer.                    *)
THEOREM LoopKeepsOrder == LoopSpec => []LosslessInOrder /\ []FrontConserved
<1>1. LoopSpec => []Books(queues, asked, served)
  BY InitBooks, NextBooks, PTL DEF LoopSpec
<1>2. Books(queues, asked, served) => LosslessInOrder /\ FrontConserved
  BY BooksMean
<1> QED
  BY <1>1, <1>2, PTL

(* --------------------------- the applications --------------------------- *)

(* A service queue refuses a command that must not be lost, or takes it.   *)
LEMMA DirectLawful ==
    ASSUME NEW c, c = CommandOf(NextIntent), c # "None"
    PROVE  Lawful(KernelOutcome(c), NextIntent)
<1>1. IsLossless(NextIntent) => DefaultPolicy(c) = "Lossless"
  BY DEF IsLossless
<1>2. ASSUME NEW policy, NEW queue, NEW cap, NEW needed
      PROVE  /\ Admission(policy, queue, cap, needed)
                 \in {"Accepted", "Coalesced", "Dropped", "WouldBlock"}
             /\ policy # "BestEffort" =>
                  Admission(policy, queue, cap, needed) # "Dropped"
  BY DEF Admission
<1> QED
  BY <1>1, <1>2 DEF KernelOutcome, Lawful

(* A step of the application is a step of the loop, or none of it.         *)
LEMMA DirectNext == [Next]_vars => [LoopNext]_loopVars
<1> SUFFICES ASSUME [Next]_vars PROVE [LoopNext]_loopVars
  OBVIOUS
<1>1. ASSUME Client PROVE LoopNext
  <2>1. /\ Numbered \cup {"DebugSnapshot", "SelectDisplayLane"} \subseteq Askable
        /\ {"P0", "P1"} \subseteq Priorities /\ 0 \in Nat /\ DisplayLanes \subseteq Nat
    BY LoopAssumption DEF Askable, Priorities
  <2>2. ASSUME NEW op \in Numbered, DemandFront(op) PROVE LoopNext
    BY <2>1, <2>2 DEF DemandFront, LoopNext
  <2>3. ASSUME NEW op \in Askable, NEW p \in Priorities, NEW arg \in Nat, Demand(op, p, arg)
        PROVE  LoopNext
    BY <2>3 DEF Demand, LoopNext
  <2> QED
    BY <1>1, <2>1, <2>2, <2>3 DEF Client
<1>2. ASSUME StartPump PROVE LoopNext
  BY <1>2 DEF StartPump, LoopNext, Askable, Priorities
<1>3. ASSUME Reduce PROVE LoopNext
  <2> DEFINE c == CommandOf(NextIntent)
  <2>1. \/ c = "None" /\ TakeIntent("Accepted")
        \/ c # "None" /\ TakeIntent(KernelOutcome(c))
    BY <1>3 DEF Reduce
  <2>2. Lawful("Accepted", NextIntent)
    BY DEF Lawful
  <2>3. \E outcome : Lawful(outcome, NextIntent) /\ TakeIntent(outcome)
    BY <2>1, <2>2, DirectLawful
  <2> QED
    BY <2>3 DEF LoopNext
<1>4. Begin \/ Collect \/ React \/ Finish => LoopNext
  BY DEF Begin, Collect, React, Finish, LoopNext
<1>5. UNCHANGED vars => UNCHANGED loopVars
  BY DEF vars
<1> QED
  BY <1>1, <1>2, <1>3, <1>4, <1>5 DEF Next, Run

(* The scheduler of the tests and the inspector, with the services in its  *)
(* own process: loads and frame steps of the debugger are neither lost nor *)
(* doubled nor reordered, for every capacity of the queues and budget.     *)
THEOREM DirectKeepsOrder == Spec => []LosslessInOrder /\ []FrontConserved
<1>1. Init => InitLoop
  BY DEF Init
<1>2. Spec => LoopSpec
  BY <1>1, DirectNext, PTL DEF Spec, LoopSpec
<1> QED
  BY <1>2, LoopKeepsOrder

(* --------------------------- places, counted ---------------------------- *)

LEMMA CountFinite ==
    ASSUME NEW S, NEW M, NEW s \in Seq(S)
    PROVE  /\ IsFiniteSet({i \in DOMAIN s : s[i] \in M}) /\ Count(s, M) \in Nat
<1>1. Len(s) \in Nat /\ DOMAIN s = 1 .. Len(s)
  BY LenProperties
<1>2. IsFiniteSet(1 .. Len(s))
  BY <1>1, FS_Interval
<1>3. \A T \in SUBSET (1 .. Len(s)) : IsFiniteSet(T) /\ Cardinality(T) \in Nat
  BY <1>2, FS_Subset, FS_CardinalityType
<1> QED
  BY <1>1, <1>3 DEF Count

(* None where none is meant.                                               *)
LEMMA CountNone ==
    ASSUME NEW M, NEW s, \A i \in DOMAIN s : s[i] \notin M
    PROVE  Count(s, M) = 0
<1>1. {i \in DOMAIN s : s[i] \in M} = {}
  OBVIOUS
<1> QED
  BY <1>1, FS_EmptySet DEF Count

(* Those of two sequences, one behind the other.                           *)
LEMMA CountConcat ==
    ASSUME NEW S, NEW M, NEW s \in Seq(S), NEW t \in Seq(S), NEW u \in Seq(S),
           Len(u) = Len(s) + Len(t),
           \A i \in 1 .. Len(s) : u[i] = s[i],
           \A i \in 1 .. Len(t) : u[i + Len(s)] = t[i]
    PROVE  Count(u, M) = Count(s, M) + Count(t, M)
<1> DEFINE A == {i \in DOMAIN s : s[i] \in M}
           B == {i \in DOMAIN t : t[i] \in M}
           C == {i \in DOMAIN u : u[i] \in M}
           f == [i \in B |-> i + Len(s)]
           D == {i + Len(s) : i \in B}
<1>1. /\ Len(s) \in Nat /\ DOMAIN s = 1 .. Len(s) /\ Len(t) \in Nat /\ DOMAIN t = 1 .. Len(t)
      /\ DOMAIN u = 1 .. Len(u)
  BY LenProperties
<1>2. IsFiniteSet(A) /\ IsFiniteSet(B)
  BY CountFinite
<1>3. f \in Bijection(B, D)
  <2>1. f \in [B -> D]
    OBVIOUS
  <2>2. \A i, j \in B : f[i] = f[j] => i = j
    BY <1>1
  <2>3. \A d \in D : \E i \in B : f[i] = d
    OBVIOUS
  <2> HIDE DEF f, B, D
  <2>4. f \in Injection(B, D)
    BY <2>1, <2>2 DEF Injection, IsInjective
  <2>5. f \in Surjection(B, D)
    BY <2>1, <2>3 DEF Surjection
  <2> QED
    BY <2>4, <2>5 DEF Bijection
<1>4. IsFiniteSet(D) /\ Cardinality(D) = Cardinality(B)
  <2> HIDE DEF f, B, D
  <2>1. ExistsBijection(B, D)
    BY <1>3 DEF ExistsBijection
  <2> QED
    BY <1>2, <2>1, FS_Bijection
<1>5. A \cap D = {}
  BY <1>1
<1>6. C = A \cup D
  <2>1. ASSUME NEW c \in C PROVE c \in A \cup D
    <3>1. CASE c <= Len(s)
      BY <1>1, <2>1, <3>1
    <3>2. CASE c > Len(s)
      <4>1. c - Len(s) \in 1 .. Len(t) /\ c = (c - Len(s)) + Len(s)
        BY <1>1, <3>2
      <4>2. u[c] = t[c - Len(s)]
        BY <4>1
      <4>3. c - Len(s) \in B
        BY <1>1, <2>1, <4>1, <4>2
      <4> QED
        BY <4>1, <4>3
    <3> QED
      BY <1>1, <3>1, <3>2
  <2>2. ASSUME NEW c \in A PROVE c \in C
    BY <1>1, <2>2
  <2>3. ASSUME NEW c \in B PROVE c + Len(s) \in C
    <3>1. c \in 1 .. Len(t) /\ u[c + Len(s)] = t[c]
      BY <1>1, <2>3
    <3>2. c + Len(s) \in DOMAIN u
      BY <1>1, <3>1
    <3>3. t[c] \in M
      BY <2>3
    <3> HIDE DEF A, B, D
    <3> QED
      BY <3>1, <3>2, <3>3
  <2> QED
    BY <2>1, <2>2, <2>3
<1>7. Cardinality(A \cap D) = 0 /\ Cardinality(A) \in Nat /\ Cardinality(B) \in Nat
  <2> HIDE DEF A, B, D
  <2> QED
    BY <1>2, <1>5, FS_EmptySet, FS_CardinalityType
<1>8. Cardinality(C) = Cardinality(A) + Cardinality(B)
  <2> HIDE DEF A, B, C, D
  <2>1. Cardinality(A \cup D) = Cardinality(A) + Cardinality(D) - Cardinality(A \cap D)
    BY <1>2, <1>4, FS_Union
  <2> QED
    BY <1>4, <1>6, <1>7, <2>1
<1> QED
  BY <1>8 DEF Count

LEMMA CountJoin ==
    ASSUME NEW S, NEW M, NEW s \in Seq(S), NEW t \in Seq(S)
    PROVE  s \o t \in Seq(S) /\ Count(s \o t, M) = Count(s, M) + Count(t, M)
<1>1. PICK u \in Seq(S) : u = s \o t
  BY ConcatProperties
<1>2. /\ Len(u) = Len(s) + Len(t)
      /\ \A i \in 1 .. Len(s) + Len(t) : u[i] = IF i <= Len(s) THEN s[i] ELSE t[i - Len(s)]
  BY <1>1, ConcatProperties
<1>3. Len(s) \in Nat /\ Len(t) \in Nat
  BY LenProperties
<1>4. /\ \A i \in 1 .. Len(s) : u[i] = s[i]
      /\ \A i \in 1 .. Len(t) : u[i + Len(s)] = t[i]
  <2>1. \A i \in 1 .. Len(t) : (i + Len(s)) - Len(s) = i /\ ~(i + Len(s) <= Len(s))
                               /\ i + Len(s) \in 1 .. Len(s) + Len(t)
    BY <1>3
  <2> QED
    BY <1>2, <1>3, <2>1
<1>5. Count(u, M) = Count(s, M) + Count(t, M)
  BY <1>2, <1>4, CountConcat
<1> QED
  BY <1>1, <1>5, Zenon

LEMMA CountOne ==
    ASSUME NEW S, NEW M, NEW r \in S
    PROVE  << r >> \in Seq(S) /\ Count(<< r >>, M) = IF r \in M THEN 1 ELSE 0
<1>1. PICK s : s = << r >>
  OBVIOUS
<1>2. s \in Seq(S)
  BY <1>1
<1>3. DOMAIN s = {1} /\ s[1] = r
  BY <1>1
<1>4. CASE r \in M
  <2>1. {i \in DOMAIN s : s[i] \in M} = {1}
    BY <1>3, <1>4
  <2> QED
    BY <1>1, <1>2, <1>4, <2>1, FS_Singleton DEF Count
<1>5. CASE r \notin M
  <2>1. Count(s, M) = 0
    BY <1>3, <1>5, CountNone
  <2> QED
    BY <1>1, <1>2, <1>5, <2>1
<1> QED
  BY <1>4, <1>5

LEMMA CountAppend ==
    ASSUME NEW S, NEW M, NEW s \in Seq(S), NEW r \in S
    PROVE  /\ Append(s, r) \in Seq(S)
           /\ Count(Append(s, r), M) = Count(s, M) + IF r \in M THEN 1 ELSE 0
<1>1. PICK u \in Seq(S) : u = Append(s, r)
  BY AppendProperties
<1>2. Len(u) = Len(s) + 1 /\ u[Len(s) + 1] = r /\ \A i \in 1 .. Len(s) : u[i] = s[i]
  BY <1>1, AppendProperties
<1>3. PICK t \in Seq(S) : t = << r >>
  BY CountOne
<1>4. Len(t) = 1 /\ t[1] = r
  BY <1>3
<1>5. Len(s) \in Nat
  BY LenProperties
<1>6. Count(u, M) = Count(s, M) + Count(t, M)
  <2>1. \A i \in 1 .. Len(t) : u[i + Len(s)] = t[i]
    BY <1>2, <1>4, <1>5
  <2> QED
    <3>1. Len(u) = Len(s) + Len(t)
      BY <1>2, <1>4
    <3>2. \A i \in 1 .. Len(s) : u[i] = s[i]
      BY <1>2
    <3> QED
      BY <2>1, <3>1, <3>2, CountConcat
<1> QED
  BY <1>1, <1>3, <1>6, CountOne

LEMMA CountTail ==
    ASSUME NEW S, NEW M, NEW s \in Seq(S), s # <<>>
    PROVE  /\ Tail(s) \in Seq(S) /\ Head(s) \in S /\ Head(s) = s[1]
           /\ Len(s) = Len(Tail(s)) + 1
           /\ \A i \in 1 .. Len(Tail(s)) : Tail(s)[i] = s[i + 1]
           /\ Count(s, M) = (IF Head(s) \in M THEN 1 ELSE 0) + Count(Tail(s), M)
<1>1. PICK t \in Seq(S) : t = Tail(s)
  BY HeadTailProperties
<1>2. Head(s) \in S /\ Len(t) = Len(s) - 1 /\ \A i \in 1 .. Len(t) : t[i] = s[i + 1]
  BY <1>1, HeadTailProperties
<1>3. Len(s) \in Nat \ {0} /\ Head(s) = s[1]
  BY EmptySeq
<1>4. PICK h \in Seq(S) : h = << Head(s) >>
  BY <1>2, CountOne
<1>5. Len(h) = 1 /\ h[1] = s[1]
  BY <1>3, <1>4
<1>6. Len(t) \in Nat /\ Len(s) = Len(h) + Len(t)
  BY <1>2, <1>3, <1>5
<1>7. Count(s, M) = Count(h, M) + Count(t, M)
  <2>1. \A i \in 1 .. Len(h) : s[i] = h[i]
    BY <1>5
  <2>2. \A i \in 1 .. Len(t) : s[i + 1] = t[i]
    BY <1>2
  <2> QED
    <3>1. \A i \in 1 .. Len(t) : s[i + Len(h)] = t[i]
      BY <1>5, <2>2
    <3> QED
      BY <1>6, <2>1, <3>1, CountConcat
<1> QED
  BY <1>1, <1>2, <1>3, <1>4, <1>5, <1>6, <1>7, CountOne

(* A sequence cut in two.                                                  *)
LEMMA CountSplit ==
    ASSUME NEW S, NEW M, NEW s \in Seq(S), NEW n \in 0 .. Len(s)
    PROVE  /\ SubSeq(s, 1, n) \in Seq(S) /\ SubSeq(s, n + 1, Len(s)) \in Seq(S)
           /\ Count(s, M)
                = Count(SubSeq(s, 1, n), M) + Count(SubSeq(s, n + 1, Len(s)), M)
<1>1. Len(s) \in Nat /\ \A i \in 1 .. Len(s) : s[i] \in S
  BY LenProperties, ElementOfSeq
<1>2. PICK front, rest : front = SubSeq(s, 1, n) /\ rest = SubSeq(s, n + 1, Len(s))
  OBVIOUS
<1>3. front \in Seq(S) /\ rest \in Seq(S)
  BY <1>1, <1>2, SubSeqProperties
<1>4. front \o rest = s
  <2>1. 1 \in 1 .. Len(s) + 1 /\ n \in 1 - 1 .. Len(s) /\ Len(s) \in n .. Len(s)
    BY <1>1
  <2>2. front \o rest = SubSeq(s, 1, Len(s))
    BY <1>2, <2>1, ConcatAdjacentSubSeq
  <2> QED
    BY <2>2, SubSeqFull
<1>5. Count(front \o rest, M) = Count(front, M) + Count(rest, M)
  BY <1>3, CountJoin
<1> QED
  BY <1>2, <1>3, <1>4, <1>5

LEMMA CountFewer ==
    ASSUME NEW S, NEW s \in Seq(S), NEW M, NEW L, L \subseteq M
    PROVE  Count(s, L) <= Count(s, M)
<1>1. /\ IsFiniteSet({i \in DOMAIN s : s[i] \in M})
      /\ {i \in DOMAIN s : s[i] \in L} \subseteq {i \in DOMAIN s : s[i] \in M}
  BY CountFinite
<1> QED
  BY <1>1, FS_Subset DEF Count

(* ------------------------------ the cadence ------------------------------ *)

(* The reports of the kernel, with those of the GPU.                       *)
DirectReps == [kind : {"LaneFrame"}, lane : Nat, id : {1}]
              \cup [kind : {"TickDone", "Debug", "RomLoaded", "FrameShown"}]

(* What may become a tick, and a load, which the bound counts as well.     *)
Cadent == {x \in Intents : IsPump(x) \/ IsLossless(x)}

Waits(q) ==
    Count(q["P0"], Cadent) + Count(q["P1"], Cadent)
    + Count(q["P2"], Cadent)

(* Each tick there will be was started by a pump of the client, or by an   *)
(* intent that it asked for.                                               *)
Paced ==
    /\ queues \in Queues /\ asked \in [Origins -> Nat] /\ started \in Nat
    /\ kernel \in Seq(DirectReps) /\ gpu \in Seq(DirectReps) /\ batch \in Seq(DirectReps)
    /\ Waits(queues) + Count(kernel, Ends) + Count(batch, Ends)
         <= started + Asks

LEMMA WaitsTyped ==
    ASSUME NEW q \in Queues
    PROVE  /\ q["P0"] \in Seq(Intents) /\ q["P1"] \in Seq(Intents) /\ q["P2"] \in Seq(Intents)
           /\ Count(q["P0"], Cadent) \in Nat /\ Count(q["P1"], Cadent) \in Nat
           /\ Count(q["P2"], Cadent) \in Nat /\ Waits(q) \in Nat
<1>1. q["P0"] \in Seq(Intents) /\ q["P1"] \in Seq(Intents) /\ q["P2"] \in Seq(Intents)
  BY DEF Queues, Priorities
<1>2. /\ Count(q["P0"], Cadent) \in Nat /\ Count(q["P1"], Cadent) \in Nat
      /\ Count(q["P2"], Cadent) \in Nat
  BY <1>1, CountFinite
<1> QED
  BY <1>1, <1>2 DEF Waits

(* One queue changes by so many.                                           *)
LEMMA WaitsChange ==
    ASSUME NEW q \in Queues, NEW r \in Queues, NEW p \in Priorities, NEW d \in Int,
           \A o \in Priorities \ {p} : r[o] = q[o],
           Count(r[p], Cadent) = Count(q[p], Cadent) + d
    PROVE  Waits(r) = Waits(q) + d
<1>1. /\ Count(q["P0"], Cadent) \in Nat /\ Count(q["P1"], Cadent) \in Nat
      /\ Count(q["P2"], Cadent) \in Nat
  BY WaitsTyped
<1>2. CASE p = "P0"
  BY <1>1, <1>2 DEF Waits, Priorities
<1>3. CASE p = "P1"
  BY <1>1, <1>3 DEF Waits, Priorities
<1>4. CASE p = "P2"
  BY <1>1, <1>4 DEF Waits, Priorities
<1> QED
  BY <1>2, <1>3, <1>4 DEF Priorities

LEMMA WaitsJoin ==
    ASSUME NEW q \in Queues, NEW p \in Priorities, NEW x \in Intents,
           NEW r, r = [q EXCEPT ![p] = Append(@, x)]
    PROVE  r \in Queues /\ Waits(r) = Waits(q) + IF x \in Cadent THEN 1 ELSE 0
<1>1. /\ q[p] \in Seq(Intents) /\ r[p] = Append(q[p], x)
      /\ \A o \in Priorities \ {p} : r[o] = q[o]
  BY DEF Queues
<1>2. r \in Queues
  BY JoinsLine
<1>3. Count(r[p], Cadent) = Count(q[p], Cadent) + IF x \in Cadent THEN 1 ELSE 0
  BY <1>1, CountAppend
<1>4. (IF x \in Cadent THEN 1 ELSE 0) \in Int
  OBVIOUS
<1> QED
  BY <1>1, <1>2, <1>3, <1>4, WaitsChange

LEMMA WaitsLead ==
    ASSUME NEW q \in Queues, NEW x \in Intents, NEW r, r = Requeued(q, x)
    PROVE  r \in Queues /\ Waits(r) = Waits(q) + IF x \in Cadent THEN 1 ELSE 0
<1>1. /\ q["P0"] \in Seq(Intents) /\ r["P0"] = << x >> \o q["P0"]
      /\ \A o \in Priorities \ {"P0"} : r[o] = q[o]
  BY DEF Queues, Requeued, Priorities
<1>2. r \in Queues
  BY LeadsLine
<1>3. PICK one : one = << x >>
  OBVIOUS
<1>4. one \in Seq(Intents) /\ Count(one, Cadent) = IF x \in Cadent THEN 1 ELSE 0
  BY <1>3, CountOne
<1>5. r["P0"] = one \o q["P0"]
  BY <1>1, <1>3
<1>6. Count(r["P0"], Cadent) = Count(one, Cadent) + Count(q["P0"], Cadent)
  <2>1. PICK old \in Seq(Intents) : old = q["P0"]
    BY <1>1
  <2>2. Count(one \o old, Cadent) = Count(one, Cadent) + Count(old, Cadent)
    BY <1>4, CountJoin
  <2> QED
    BY <1>5, <2>1, <2>2
<1>7. Count(q["P0"], Cadent) \in Nat /\ "P0" \in Priorities
  BY WaitsTyped DEF Priorities
<1>8. Count(r["P0"], Cadent)
        = Count(q["P0"], Cadent) + IF x \in Cadent THEN 1 ELSE 0
  BY <1>4, <1>6, <1>7
<1>9. (IF x \in Cadent THEN 1 ELSE 0) \in Int
  OBVIOUS
<1> QED
  BY <1>1, <1>2, <1>7, <1>8, <1>9, WaitsChange

LEMMA WaitsTake ==
    ASSUME queues \in Queues, HasIntent,
           NEW popped, popped = [queues EXCEPT ![Top] = Tail(@)]
    PROVE  /\ popped \in Queues /\ NextIntent \in Intents
           /\ Waits(queues) = Waits(popped) + IF NextIntent \in Cadent THEN 1 ELSE 0
<1>1. popped \in Queues /\ NextIntent \in Intents
  BY TopOfLine
<1>2. Top \in Priorities /\ queues[Top] # <<>> /\ queues[Top] \in Seq(Intents)
  BY DEF Top, HasIntent, Waiting, Priorities, Queues
<1>3. /\ popped[Top] = Tail(queues[Top]) /\ NextIntent = Head(queues[Top])
      /\ \A o \in Priorities \ {Top} : queues[o] = popped[o]
  BY <1>2 DEF Queues, NextIntent, Waiting
<1>4. Count(queues[Top], Cadent)
        = (IF NextIntent \in Cadent THEN 1 ELSE 0) + Count(popped[Top], Cadent)
  BY <1>2, <1>3, CountTail
<1>5. Count(popped[Top], Cadent) \in Nat
  BY <1>1, <1>2, CountFinite DEF Queues
<1>6. Count(queues[Top], Cadent)
        = Count(popped[Top], Cadent) + IF NextIntent \in Cadent THEN 1 ELSE 0
  BY <1>4, <1>5
<1>7. (IF NextIntent \in Cadent THEN 1 ELSE 0) \in Int
  OBVIOUS
<1> QED
  BY <1>1, <1>2, <1>3, <1>6, <1>7, WaitsChange

(* What the client asks for is counted where it waits and where it is asked *)
(* for.                                                                    *)
LEMMA AsksOneMore ==
    ASSUME asked \in [Origins -> Nat], NEW op \in Askable, NEW o \in Origins, NEW arg \in Nat,
           NEW x, x = NewIntent(op, o, arg), Ask(x)
    PROVE  /\ x \in Intents /\ asked' \in [Origins -> Nat]
           /\ Asks \in Nat /\ Asks' \in Nat
           /\ x \in Cadent => op = "PumpFrame" \/ Asks' = Asks + 1
           /\ Asks' >= Asks
<1>1. /\ asked[o] \in Nat /\ asked["P0"] \in Nat /\ asked["P1"] \in Nat /\ asked["P2"] \in Nat
      /\ asked["Front"] \in Nat
  BY DEF Origins, Priorities
<1>2. x \in Intents /\ x.from = o /\ x.op = op
  BY <1>1, LoopAssumption DEF NewIntent, Intents, Askable
<1>3. x \in Cadent => op = "PumpFrame" \/ op \in Numbered
  BY <1>2, LosslessOps DEF Cadent, IsPump, Askable
<1>4. asked' = IF op \in Numbered THEN [asked EXCEPT ![o] = @ + 1] ELSE asked
  BY <1>2 DEF Ask
<1>5. asked' \in [Origins -> Nat]
  BY <1>1, <1>4
<1>6. ASSUME op \in Numbered
      PROVE  asked'["P0"] + asked'["P1"] + asked'["P2"] + asked'["Front"]
               = asked["P0"] + asked["P1"] + asked["P2"] + asked["Front"] + 1
  <2>1. /\ asked'[o] = asked[o] + 1
        /\ \A k \in Origins \ {o} : asked'[k] = asked[k]
    BY <1>4, <1>6
  <2>2. CASE o = "P0"
    BY <1>1, <2>1, <2>2 DEF Origins, Priorities
  <2>3. CASE o = "P1"
    BY <1>1, <2>1, <2>3 DEF Origins, Priorities
  <2>4. CASE o = "P2"
    BY <1>1, <2>1, <2>4 DEF Origins, Priorities
  <2>5. CASE o = "Front"
    BY <1>1, <2>1, <2>5 DEF Origins, Priorities
  <2> QED
    BY <2>2, <2>3, <2>4, <2>5 DEF Origins, Priorities
<1>7. op \notin Numbered => asked' = asked
  BY <1>4
<1> QED
  BY <1>1, <1>2, <1>3, <1>5, <1>6, <1>7 DEF Asks

(* The ends of the ticks among the reports of a command: one of a tick and *)
(* of a frame step, none of any other.                                     *)
LEMMA EndsOfReports ==
    ASSUME NEW c \in {"TickDisplay", "StepFrame", "LoadRom", "Snapshot"}, NEW times \in {1, 2}
    PROVE  /\ ReportsOf(c, times) \in Seq(DirectReps)
           /\ Count(ReportsOf(c, times), Ends)
                = IF c \in {"TickDisplay", "StepFrame"} THEN 1 ELSE 0
<1> DEFINE done == [kind |-> "TickDone"] debug == [kind |-> "Debug"]
           loaded == [kind |-> "RomLoaded"]
<1>1. PICK frames : frames = LaneFrames(times)
  OBVIOUS
<1>2. Lanes \in Nat \ {0} /\ times * Lanes \in Nat
  BY DirectAssumption
<1>3. /\ DOMAIN frames = 1 .. times * Lanes
      /\ \A i \in 1 .. times * Lanes :
           frames[i] = [kind |-> "LaneFrame", lane |-> (i - 1) % Lanes, id |-> 1]
  BY <1>1 DEF LaneFrames
<1>4. \A i \in 1 .. times * Lanes : frames[i] \in DirectReps /\ frames[i].kind = "LaneFrame"
  <2> SUFFICES ASSUME NEW i \in 1 .. times * Lanes
               PROVE  frames[i] \in DirectReps /\ frames[i].kind = "LaneFrame"
    OBVIOUS
  <2>1. (i - 1) % Lanes \in Nat
    BY <1>2
  <2> QED
    BY <1>3, <2>1 DEF DirectReps
<1>5. frames \in Seq(DirectReps)
  <2>1. frames \in [1 .. times * Lanes -> DirectReps]
    BY <1>1, <1>4 DEF LaneFrames
  <2> QED
    BY <1>2, <2>1, IsASeq
<1>6. Count(frames, Ends) = 0
  <2>1. \A i \in DOMAIN frames : frames[i] \notin Ends
    BY <1>3, <1>4 DEF Ends
  <2> QED
    BY <2>1, CountNone
<1>7. /\ done \in DirectReps /\ debug \in DirectReps /\ loaded \in DirectReps
      /\ done \in Ends /\ debug \notin Ends /\ loaded \notin Ends
  BY DEF DirectReps, Ends
<1> HIDE DEF done, debug, loaded
<1>8. /\ Append(frames, done) \in Seq(DirectReps)
      /\ Count(Append(frames, done), Ends) = 1
  BY <1>5, <1>6, <1>7, CountAppend
<1>9. /\ frames \o << done, debug >> \in Seq(DirectReps)
      /\ Count(frames \o << done, debug >>, Ends) = 1
  <2>1. PICK one, two : one = << done >> /\ two = << done, debug >>
    OBVIOUS
  <2>2. one \in Seq(DirectReps) /\ Count(one, Ends) = 1
    BY <1>7, <2>1, CountOne
  <2>3. two = Append(one, debug)
    BY <2>1
  <2>4. two \in Seq(DirectReps) /\ Count(two, Ends) = 1
    BY <1>7, <2>2, <2>3, CountAppend
  <2>5. /\ frames \o two \in Seq(DirectReps)
        /\ Count(frames \o two, Ends)
             = Count(frames, Ends) + Count(two, Ends)
    BY <1>5, <2>4, CountJoin
  <2> QED
    BY <1>6, <2>1, <2>4, <2>5
<1>10. /\ << debug >> \in Seq(DirectReps) /\ Count(<< debug >>, Ends) = 0
       /\ << loaded >> \in Seq(DirectReps) /\ Count(<< loaded >>, Ends) = 0
  BY <1>7, CountOne
<1>11. CASE c = "TickDisplay"
  BY <1>1, <1>8, <1>11 DEF ReportsOf, done
<1>12. CASE c = "StepFrame"
  BY <1>1, <1>9, <1>12 DEF ReportsOf, done, debug
<1>13. CASE c = "LoadRom"
  BY <1>10, <1>13 DEF ReportsOf, loaded
<1>14. CASE c = "Snapshot"
  BY <1>10, <1>14 DEF ReportsOf, debug
<1> QED
  BY <1>11, <1>12, <1>13, <1>14

(* A queue loses ends when it coalesces, and gains those of what executes. *)
LEMMA EndsSubmitted ==
    ASSUME NEW policy, NEW queue \in Seq(DirectReps), NEW cap \in Nat, NEW needed \in Nat,
           NEW new \in Seq(DirectReps)
    PROVE  /\ Submitted(policy, queue, cap, needed, new) \in Seq(DirectReps)
           /\ Count(Submitted(policy, queue, cap, needed, new), Ends)
                <= Count(queue, Ends)
                   + IF Executes(Admission(policy, queue, cap, needed))
                     THEN Count(new, Ends) ELSE 0
<1> DEFINE n == Evicted(policy, queue, cap, needed)
           kept == Kept(policy, queue, cap, needed)
           does == Executes(Admission(policy, queue, cap, needed))
<1>1. n \in 0 .. Len(queue)
  BY LenProperties DEF Evicted, Fits, Lesser
<1>2. /\ kept \in Seq(DirectReps) /\ SubSeq(queue, 1, n) \in Seq(DirectReps)
      /\ Count(queue, Ends)
           = Count(SubSeq(queue, 1, n), Ends) + Count(kept, Ends)
  BY <1>1, CountSplit DEF Kept
<1>3. /\ Count(queue, Ends) \in Nat /\ Count(kept, Ends) \in Nat
      /\ Count(SubSeq(queue, 1, n), Ends) \in Nat
      /\ Count(new, Ends) \in Nat
  BY <1>2, CountFinite
<1>4. Submitted(policy, queue, cap, needed, new)
        = kept \o IF does THEN new ELSE <<>>
  BY DEF Submitted
<1>5. CASE does
  <2>1. /\ kept \o new \in Seq(DirectReps)
        /\ Count(kept \o new, Ends)
             = Count(kept, Ends) + Count(new, Ends)
    BY <1>2, CountJoin
  <2> QED
    BY <1>2, <1>3, <1>4, <1>5, <2>1
<1>6. CASE ~does
  <2>1. kept \o <<>> = kept
    BY <1>2, ConcatEmptySeq
  <2> QED
    BY <1>2, <1>3, <1>4, <1>6, <2>1
<1> QED
  BY <1>5, <1>6

LEMMA ReportsForNat == \A c : Farm!ReportsFor(c) \in Nat
  BY DEF Farm!ReportsFor

(* A pump that is taken becomes at most one end of a tick, and the end of  *)
(* a tick at most one pump.                                                *)
LEMMA NextPaced == Paced /\ [Next]_vars => Paced'
<1> SUFFICES ASSUME Paced, [Next]_vars PROVE Paced'
  OBVIOUS
<1> DEFINE w == Waits(queues) k == Count(kernel, Ends)
           b == Count(batch, Ends) a == Asks
<1>1. /\ queues \in Queues /\ asked \in [Origins -> Nat] /\ started \in Nat
      /\ kernel \in Seq(DirectReps) /\ gpu \in Seq(DirectReps) /\ batch \in Seq(DirectReps)
      /\ w + k + b <= started + a
  BY DEF Paced
<1>2. w \in Nat /\ k \in Nat /\ b \in Nat
  BY <1>1, WaitsTyped, CountFinite
<1>3. a \in Nat
  BY <1>1 DEF Asks, Origins, Priorities
<1> HIDE DEF w, k, b, a
<1>4. started \in Nat /\ w + k + b <= started + a
  BY <1>1
<1>5. \A sum, i, j, from, to \in Nat :
         sum <= i + from /\ j >= i /\ to >= from => sum <= j + to
  OBVIOUS
<1>6. \A i, j, l, from, to \in Nat : i + j + l <= from + to => i + 1 + j + l <= from + 1 + to
  OBVIOUS
<1>7. w + k + b \in Nat
  BY <1>2
<1>8. ASSUME NEW p \in Priorities, NEW op \in Askable, NEW arg \in Nat,
             Enqueue(p, op, arg), UNCHANGED <<kernel, gpu>>,
             started' = started + IF op = "PumpFrame" THEN 1 ELSE 0
      PROVE  Paced'
  <2> DEFINE x == NewIntent(op, p, arg)
  <2>1. /\ queues' = [queues EXCEPT ![p] = Append(@, x)] /\ Ask(x) /\ batch' = batch
        /\ p \in Origins
    BY <1>8 DEF Enqueue, Origins
  <2> HIDE DEF x
  <2>2. /\ x \in Intents /\ asked' \in [Origins -> Nat] /\ Asks' \in Nat
        /\ x \in Cadent => op = "PumpFrame" \/ Asks' = a + 1
        /\ Asks' >= a
    BY <1>1, <2>1, AsksOneMore DEF x, a
  <2>3. queues' \in Queues /\ Waits(queues') = w + IF x \in Cadent THEN 1 ELSE 0
    BY <1>1, <2>1, <2>2, WaitsJoin DEF w
  <2>4. Waits(queues') + k + b <= started' + Asks'
    <3>1. PICK more \in Nat : more = Asks'
      BY <2>2
    <3>2. CASE x \notin Cadent
      <4>1. more >= a /\ Waits(queues') = w /\ started' >= started /\ started' \in Nat
        BY <1>2, <1>8, <1>4, <2>2, <2>3, <3>1, <3>2
      <4>2. w + k + b <= started' + more
        BY <1>3, <1>4, <1>5, <1>7, <3>1, <4>1
      <4> QED
        BY <3>1, <4>1, <4>2
    <3>3. CASE x \in Cadent /\ op = "PumpFrame"
      <4>1. more >= a /\ Waits(queues') = w + 1 /\ started' = started + 1
        BY <1>8, <2>2, <2>3, <3>1, <3>3
      <4>2. w + k + b <= started + more
        BY <1>3, <1>4, <1>5, <1>7, <3>1, <4>1
      <4> QED
        <5>1. w + 1 + k + b <= started + 1 + more
          BY <1>2, <1>4, <1>6, <3>1, <4>2
        <5> QED
          BY <3>1, <4>1, <5>1
    <3>4. CASE x \in Cadent /\ op # "PumpFrame"
      <4>1. more = a + 1 /\ Waits(queues') = w + 1 /\ started' = started
        BY <1>8, <1>4, <2>2, <2>3, <3>1, <3>4
      <4> QED
        BY <1>2, <1>3, <1>4, <3>1, <4>1
    <3> QED
      BY <3>2, <3>3, <3>4
  <2>5. started' \in Nat
    BY <1>1, <1>8
  <2> QED
    BY <1>1, <1>8, <2>1, <2>2, <2>3, <2>4, <2>5 DEF Paced, k, b
<1>9. ASSUME NEW op \in Numbered, DemandFront(op) PROVE Paced'
  <2> DEFINE x == NewIntent(op, "Front", 0)
  <2>1. /\ queues' = Requeued(queues, x) /\ Ask(x) /\ batch' = batch
        /\ kernel' = kernel /\ gpu' = gpu /\ started' = started
        /\ "Front" \in Origins /\ op \in Askable /\ op # "PumpFrame"
    BY <1>9, LoopAssumption
       DEF DemandFront, EnqueueFront, Origins, Askable
  <2> HIDE DEF x
  <2>2. /\ x \in Intents /\ asked' \in [Origins -> Nat] /\ Asks' \in Nat
        /\ x \in Cadent => Asks' = a + 1
        /\ Asks' >= a
    BY <1>1, <2>1, AsksOneMore DEF x, a
  <2>3. queues' \in Queues /\ Waits(queues') = w + IF x \in Cadent THEN 1 ELSE 0
    BY <1>1, <2>1, <2>2, WaitsLead DEF w
  <2>4. Waits(queues') + k + b <= started + Asks'
    <3>1. PICK more \in Nat : more = Asks'
      BY <2>2
    <3>2. CASE x \notin Cadent
      <4>1. more >= a /\ Waits(queues') = w
        BY <1>2, <2>2, <2>3, <3>1, <3>2
      <4>2. w + k + b <= started + more
        BY <1>3, <1>4, <1>5, <1>7, <3>1, <4>1
      <4> QED
        BY <3>1, <4>1, <4>2
    <3>3. CASE x \in Cadent
      <4>1. more = a + 1 /\ Waits(queues') = w + 1
        BY <2>2, <2>3, <3>1, <3>3
      <4> QED
        BY <1>2, <1>3, <1>4, <3>1, <4>1
    <3> QED
      BY <3>2, <3>3
  <2> QED
    BY <1>1, <2>1, <2>2, <2>3, <2>4 DEF Paced, k, b
<1>10. ASSUME Client PROVE Paced'
  <2>1. /\ Numbered \cup {"DebugSnapshot", "SelectDisplayLane"} \subseteq Askable \ {"PumpFrame"}
        /\ {"P0", "P1"} \subseteq Priorities
    BY LoopAssumption DEF Askable, Priorities
  <2>2. ASSUME NEW op \in Askable \ {"PumpFrame"}, NEW p \in Priorities, NEW arg \in Nat,
               Demand(op, p, arg)
        PROVE  Paced'
    <3>1. /\ Enqueue(p, op, arg) /\ UNCHANGED <<kernel, gpu>>
          /\ started' = started + IF op = "PumpFrame" THEN 1 ELSE 0
      BY <1>1, <2>2 DEF Demand
    <3> QED
      BY <1>8, <3>1
  <2>3. DisplayLanes \subseteq Nat
    BY LoopAssumption
  <2> QED
    BY <1>9, <1>10, <2>1, <2>2, <2>3 DEF Client
<1>11. ASSUME StartPump PROVE Paced'
  <2>1. /\ Enqueue("P1", "PumpFrame", 0) /\ UNCHANGED <<kernel, gpu>>
        /\ started' = started + IF "PumpFrame" = "PumpFrame" THEN 1 ELSE 0
        /\ "P1" \in Priorities /\ "PumpFrame" \in Askable
    BY <1>11 DEF StartPump, Priorities, Askable
  <2> QED
    BY <1>8, <2>1
<1>12. ASSUME Reduce PROVE Paced'
  <2> DEFINE x == NextIntent c == CommandOf(x) one == IF x \in Cadent THEN 1 ELSE 0
             popped == [queues EXCEPT ![Top] = Tail(@)]
             answer == IF c = "None" THEN "Accepted" ELSE KernelOutcome(c)
  <2>1. /\ TakeIntent(answer) /\ started' = started /\ gpu' = gpu
        /\ c = "None" => kernel' = kernel
        /\ c # "None" => \E times \in {1, 2} :
             kernel' = Submitted(DefaultPolicy(c), kernel, KernelCapacity,
                                 Farm!ReportsFor(c), ReportsOf(c, times))
    BY <1>12 DEF Reduce
  <2>2. /\ HasIntent /\ asked' = asked /\ batch' = batch
        /\ queues' = IF Retry(answer, c) THEN Requeued(popped, x) ELSE popped
    BY <2>1 DEF TakeIntent
  <2> HIDE DEF popped
  <2>3. popped \in Queues /\ x \in Intents /\ w = Waits(popped) + one
    BY <1>1, <2>2, WaitsTake DEF popped, w
  <2>4. Requeued(popped, x) \in Queues /\ Waits(Requeued(popped, x)) = Waits(popped) + one
    BY <2>3, WaitsLead
  <2>5. Waits(popped) \in Nat /\ one \in {0, 1}
    BY <2>3, WaitsTyped
  <2>6. queues' \in Queues /\ Waits(queues') = IF Retry(answer, c) THEN w ELSE w - one
    BY <2>2, <2>3, <2>4, <2>5, <1>2
  <2>7. /\ kernel' \in Seq(DirectReps)
        /\ Count(kernel', Ends)
             <= k + IF ~Retry(answer, c) /\ x \in Cadent THEN 1 ELSE 0
    <3>1. CASE c = "None"
      <4>1. kernel' = kernel
        BY <2>1, <3>1
      <4> QED
        BY <1>1, <1>2, <4>1 DEF k
    <3>2. CASE c # "None"
      <4>1. c \in {"TickDisplay", "StepFrame", "LoadRom", "Snapshot"}
        BY <3>2 DEF CommandOf
      <4>2. PICK times \in {1, 2} :
              kernel' = Submitted(DefaultPolicy(c), kernel, KernelCapacity,
                                  Farm!ReportsFor(c), ReportsOf(c, times))
        BY <2>1, <3>2
      <4>3. PICK new : new = ReportsOf(c, times)
        OBVIOUS
      <4>4. /\ new \in Seq(DirectReps)
            /\ Count(new, Ends)
                 = IF c \in {"TickDisplay", "StepFrame"} THEN 1 ELSE 0
        BY <4>1, <4>3, EndsOfReports
      <4>5. KernelCapacity \in Nat /\ Farm!ReportsFor(c) \in Nat
        BY DirectAssumption, ReportsForNat
      <4>6. answer = Admission(DefaultPolicy(c), kernel, KernelCapacity,
                               Farm!ReportsFor(c))
        BY <3>2 DEF KernelOutcome
      <4>7. /\ kernel' \in Seq(DirectReps)
            /\ Count(kernel', Ends)
                 <= k + IF Executes(answer) THEN Count(new, Ends) ELSE 0
        BY <1>1, <4>2, <4>3, <4>4, <4>5, <4>6, EndsSubmitted DEF k
      <4>8. Executes(answer) => ~Retry(answer, c)
        BY DEF Executes, Retry
      <4>9. c \in {"TickDisplay", "StepFrame"} => x \in Cadent
        BY <2>3, LosslessOps DEF CommandOf, Cadent, Intents
      <4>10. Count(kernel', Ends) \in Nat
        BY <4>7, CountFinite
      <4> HIDE DEF answer, c, x
      <4> QED
        BY <1>2, <4>4, <4>7, <4>8, <4>9, <4>10
    <3> QED
      BY <3>1, <3>2
  <2>8. Count(kernel', Ends) \in Nat
    BY <2>7, CountFinite
  <2> HIDE DEF answer, c, x
  <2>9. Waits(queues') + Count(kernel', Ends) + b <= started + a
    <3>1. CASE Retry(answer, c)
      BY <1>1, <1>2, <1>3, <2>6, <2>7, <2>8, <3>1
    <3>2. CASE ~Retry(answer, c)
      BY <1>1, <1>2, <1>3, <2>6, <2>7, <2>8, <3>2
    <3> QED
      BY <3>1, <3>2
  <2>10. Asks' = a
    BY <2>2 DEF Asks, a
  <2> QED
    BY <1>1, <2>1, <2>2, <2>6, <2>7, <2>9, <2>10 DEF Paced, b
<1>13. ASSUME Collect PROVE Paced'
  <2> DEFINE n == Lesser(ReportBudget, Len(kernel)) share == GpuShare
             m == Lesser(share, Len(gpu)) shown == [kind |-> "FrameShown"]
  <2>1. PICK first, rest, frames, left :
          /\ first = SubSeq(kernel, 1, n) /\ rest = SubSeq(kernel, n + 1, Len(kernel))
          /\ frames = [i \in 1 .. m |-> shown] /\ left = SubSeq(gpu, m + 1, Len(gpu))
    OBVIOUS
  <2>2. /\ batch' = first \o frames /\ kernel' = rest /\ gpu' = left
        /\ started' = started /\ queues' = queues /\ asked' = asked
    BY <1>13, <2>1 DEF Collect, Gather, Drained, Undrained
  <2>3. n \in 0 .. Len(kernel) /\ share \in Nat
    BY <1>1, DirectAssumption, LenProperties DEF Lesser, GpuShare
  <2> HIDE DEF n, share
  <2>4. m \in 0 .. Len(gpu) /\ m \in Nat
    BY <1>1, <2>3, LenProperties DEF Lesser
  <2> HIDE DEF m
  <2>5. /\ first \in Seq(DirectReps) /\ rest \in Seq(DirectReps)
        /\ k = Count(first, Ends) + Count(rest, Ends)
    BY <1>1, <2>1, <2>3, CountSplit DEF k
  <2>6. left \in Seq(DirectReps)
    BY <1>1, <2>1, <2>4, CountSplit
  <2>7. /\ frames \in Seq(DirectReps) /\ Count(frames, Ends) = 0
    <3>1. shown \in DirectReps /\ shown \notin Ends
      BY DEF DirectReps, Ends
    <3> HIDE DEF shown
    <3>2. frames \in [1 .. m -> DirectReps] /\ \A i \in DOMAIN frames : frames[i] = shown
      BY <2>1, <3>1
    <3>3. frames \in Seq(DirectReps)
      BY <2>4, <3>2, IsASeq
    <3> QED
      BY <3>1, <3>2, <3>3, CountNone
  <2>8. /\ first \o frames \in Seq(DirectReps)
        /\ Count(first \o frames, Ends)
             = Count(first, Ends) + Count(frames, Ends)
    BY <2>5, <2>7, CountJoin
  <2>9. Count(first, Ends) \in Nat /\ Count(rest, Ends) \in Nat
    BY <2>5, CountFinite
  <2>10. w + Count(kernel', Ends) + Count(batch', Ends)
           <= started + a
    <3>1. PICK f, g \in Nat :
            f = Count(first, Ends) /\ g = Count(rest, Ends)
      BY <2>9
    <3>2. Count(batch', Ends) = f + 0 /\ Count(kernel', Ends) = g
      BY <2>2, <2>7, <2>8, <3>1
    <3>3. k = f + g
      BY <2>5, <3>1
    <3> QED
      BY <1>2, <1>3, <1>4, <3>1, <3>2, <3>3
  <2>11. Asks' = a
    BY <2>2 DEF Asks, a
  <2> QED
    BY <1>1, <2>2, <2>5, <2>6, <2>8, <2>10, <2>11 DEF Paced, w
<1>14. ASSUME React PROVE Paced'
  <2> DEFINE r == Head(batch) more == Deferred(r)
  <2>1. /\ batch # <<>> /\ batch' = Tail(batch) /\ asked' = asked
        /\ kernel' = kernel /\ started' = started
        /\ queues' = [queues EXCEPT !["P1"] = @ \o more]
    BY <1>14 DEF React, TakeReport, Deferred, Pump
  <2>2. /\ Tail(batch) \in Seq(DirectReps) /\ r \in DirectReps
        /\ b = (IF r \in Ends THEN 1 ELSE 0) + Count(Tail(batch), Ends)
    BY <1>1, <2>1, CountTail DEF b
  <2>3. Count(Tail(batch), Ends) \in Nat
    BY <2>2, CountFinite
  <2>4. Asks' = a
    BY <2>1 DEF Asks, a
  <2>5. queues["P1"] \in Seq(Intents) /\ "P1" \in Priorities
    BY <1>1, WaitsTyped DEF Priorities
  <2>6. gpu' \in Seq(DirectReps)
    <3>1. PICK new : new = << [kind |-> "FrameShown"] >>
      OBVIOUS
    <3>2. new \in Seq(DirectReps) /\ <<>> \in Seq(DirectReps)
      BY <3>1 DEF DirectReps
    <3>3. Kept("Must", gpu, GpuCapacity, 1) = gpu
      BY <1>1, SubSeqFull DEF Kept, Evicted
    <3>4. gpu \o new \in Seq(DirectReps) /\ gpu \o <<>> \in Seq(DirectReps)
      BY <1>1, <3>2, ConcatProperties
    <3> QED
      BY <1>1, <1>14, <3>1, <3>3, <3>4 DEF React, Submitted
  <2>7. CASE r.kind = "TickDone" /\ AutoPump
    <3>1. r \in Ends
      BY <2>2, <2>7 DEF DirectReps, Ends
    <3>2. Pump \in Intents /\ Pump \in Cadent
      BY DEF Pump, Intents, Origins, Priorities, Cadent, IsPump
    <3>3. queues["P1"] \o << Pump >> = Append(queues["P1"], Pump)
      BY <2>5, <3>2, AppendIsConcat
    <3>4. queues' = [queues EXCEPT !["P1"] = Append(@, Pump)]
      BY <1>1, <2>1, <2>7, <3>3 DEF Queues, Deferred
    <3>5. queues' \in Queues /\ Waits(queues') = w + 1
      BY <1>1, <2>5, <3>2, <3>4, WaitsJoin DEF w
    <3>6. Waits(queues') + k + Count(Tail(batch), Ends) <= started + a
      BY <1>1, <1>2, <1>3, <2>2, <2>3, <3>1, <3>5
    <3> QED
      BY <1>1, <2>1, <2>2, <2>4, <2>6, <3>5, <3>6 DEF Paced, k
  <2>8. CASE ~(r.kind = "TickDone" /\ AutoPump)
    <3>1. queues["P1"] \o <<>> = queues["P1"]
      BY <2>5, ConcatEmptySeq
    <3>2. queues' = queues
      BY <1>1, <2>1, <2>8, <3>1 DEF Queues, Deferred
    <3>3. w + k + Count(Tail(batch), Ends) <= started + a
      BY <1>1, <1>2, <1>3, <2>2, <2>3
    <3> QED
      BY <1>1, <2>1, <2>2, <2>4, <2>6, <3>2, <3>3 DEF Paced, w, k
  <2> QED
    BY <2>7, <2>8
<1>15. ASSUME UNCHANGED <<queues, asked, started, kernel, gpu, batch>> PROVE Paced'
  BY <1>15 DEF Paced, Waits, Asks
<1>16. Begin \/ Finish \/ UNCHANGED vars
         => UNCHANGED <<queues, asked, started, kernel, gpu, batch>>
  BY DEF Begin, Finish, StartFrame, EndFrame, vars,
         loopVars
<1> QED
  BY <1>10, <1>11, <1>12, <1>13, <1>14, <1>15, <1>16 DEF Next, Run

LEMMA InitPaced == Init => Paced
<1> SUFFICES ASSUME Init PROVE Paced
  OBVIOUS
<1>1. /\ InitLoop /\ kernel = <<>> /\ gpu = <<>> /\ started = 0
  BY DEF Init
<1>2. /\ queues \in Queues /\ \A p \in Priorities : queues[p] = <<>>
      /\ asked \in [Origins -> Nat] /\ \A o \in Origins : asked[o] = 0
      /\ batch = <<>>
  BY <1>1 DEF InitLoop, Queues
<1>3. \A M : Count(<<>>, M) = 0
  <2> SUFFICES ASSUME NEW M PROVE Count(<<>>, M) = 0
    OBVIOUS
  <2>1. \A i \in DOMAIN <<>> : <<>>[i] \notin M
    OBVIOUS
  <2> QED
    BY <2>1, CountNone
<1>4. Waits(queues) = 0 /\ Asks = 0
  BY <1>2, <1>3 DEF Waits, Asks, Priorities, Origins
<1>5. <<>> \in Seq(DirectReps) /\ 0 \in Nat
  OBVIOUS
<1> QED
  BY <1>1, <1>2, <1>3, <1>4, <1>5 DEF Paced

(* The ticks never multiply: each that waits or runs goes back to a pump   *)
(* of the client or to an intent it asked for, whatever the queues evict   *)
(* and the reports ask for (reduce_report).                                *)
THEOREM CadenceStaysBounded == Spec => []CadenceBounded
<1>1. Paced => CadenceBounded
  <2> SUFFICES ASSUME Paced PROVE CadenceBounded
    OBVIOUS
  <2> DEFINE k == Count(kernel, Ends) b == Count(batch, Ends)
  <2>1. /\ queues \in Queues /\ kernel \in Seq(DirectReps) /\ batch \in Seq(DirectReps)
        /\ started \in Nat /\ asked \in [Origins -> Nat]
        /\ Waits(queues) + k + b <= started + Asks
    BY DEF Paced
  <2>2. {Pump} \subseteq Cadent
    BY DEF Pump, Cadent, IsPump, Intents, Origins, Priorities
  <2>3. /\ Count(queues["P0"], {Pump}) <= Count(queues["P0"], Cadent)
        /\ Count(queues["P1"], {Pump}) <= Count(queues["P1"], Cadent)
        /\ Count(queues["P0"], {Pump}) \in Nat
        /\ Count(queues["P1"], {Pump}) \in Nat
    BY <2>1, <2>2, WaitsTyped, CountFewer, CountFinite
  <2>4. /\ Count(queues["P0"], Cadent) \in Nat /\ Count(queues["P1"], Cadent) \in Nat
        /\ Count(queues["P2"], Cadent) \in Nat
    BY <2>1, WaitsTyped
  <2>5. k \in Nat /\ b \in Nat /\ Asks \in Nat
    <3>1. k \in Nat /\ b \in Nat
      BY <2>1, CountFinite
    <3>2. Asks \in Nat
      BY <2>1 DEF Asks, Origins, Priorities
    <3> QED
      BY <3>1, <3>2
  <2>6. Pumps <= Waits(queues) + k + b
    BY <2>3, <2>4, <2>5 DEF Pumps, Waits
  <2>7. Waits(queues) \in Nat /\ Pumps \in Nat
    BY <2>3, <2>4, <2>5 DEF Pumps, Waits
  <2> HIDE DEF k, b
  <2> QED
    BY <2>1, <2>5, <2>6, <2>7 DEF CadenceBounded
<1> QED
  BY <1>1, InitPaced, NextPaced, PTL DEF Spec

(* ------------------------ the cadence does not die ----------------------- *)

(* Somewhere in a sequence, and at a place that is far enough from its     *)
(* front for how many there are behind it.                                 *)
Among(seq, x) == \E i \in DOMAIN seq : seq[i] = x

Near(seq, x, most) ==
    \E i \in DOMAIN seq : seq[i] = x /\ 2 * (Len(seq) - i) + i <= most

EndOfTick == [kind |-> "TickDone"]

Pumped(q) == Among(q["P0"], Pump) \/ Among(q["P1"], Pump)

(* Twice the reports that may join the queue of the kernel in a frame,     *)
(* as far as they have.                                                    *)
Granted == IF phase = "intents" THEN 2 * (IntentBudget - budget) ELSE 0

(* The place of the end of a tick in a queue that is as full as can be.    *)
Most == KernelCapacity + 2 * Lanes - 1

(* Once a tick has been asked for a pump waits, the end of a tick is being *)
(* reduced, or one waits in the queue of the kernel, so close to its front *)
(* that it is drained before as many reports join as would evict it.       *)
Living ==
    /\ phase \in {"idle", "intents", "reports"} /\ budget \in 0 .. IntentBudget
    /\ phase # "reports" => batch = <<>>
    /\ AutoPump /\ started > 0 =>
         \/ Pumped(queues) \/ Among(batch, EndOfTick)
         \/ Near(kernel, EndOfTick, Most + Granted)

(* What the sizes of the code give room for: 64 reports of a kernel with   *)
(* eight lanes, three intents and 32 reports a frame.                      *)
Roomy ==
    /\ KernelCapacity >= 2 * (Lanes + IntentBudget)
    /\ ReportBudget >= 2 * IntentBudget

LEMMA AmongCounts ==
    ASSUME NEW S, NEW M, NEW seq \in Seq(S), NEW x \in M, Among(seq, x)
    PROVE  Count(seq, M) > 0
<1>1. IsFiniteSet({i \in DOMAIN seq : seq[i] \in M}) /\ Count(seq, M) \in Nat
  BY CountFinite
<1>2. {i \in DOMAIN seq : seq[i] \in M} # {}
  BY DEF Among
<1>3. Count(seq, M) # 0
  BY <1>1, <1>2, FS_EmptySet DEF Count
<1> QED
  BY <1>1, <1>3

LEMMA AmongJoin ==
    ASSUME NEW S, NEW s \in Seq(S), NEW t \in Seq(S), NEW x
    PROVE  Among(s \o t, x) <=> Among(s, x) \/ Among(t, x)
<1>1. PICK u \in Seq(S) : u = s \o t
  BY ConcatProperties
<1>2. /\ Len(u) = Len(s) + Len(t) /\ Len(s) \in Nat /\ Len(t) \in Nat
      /\ DOMAIN u = 1 .. Len(u) /\ DOMAIN s = 1 .. Len(s) /\ DOMAIN t = 1 .. Len(t)
      /\ \A i \in 1 .. Len(s) + Len(t) : u[i] = IF i <= Len(s) THEN s[i] ELSE t[i - Len(s)]
  BY <1>1, ConcatProperties, LenProperties
<1>3. ASSUME NEW i \in DOMAIN u, u[i] = x
      PROVE  Among(s, x) \/ Among(t, x)
  <2>1. CASE i <= Len(s)
    BY <1>2, <1>3, <2>1 DEF Among
  <2>2. CASE ~(i <= Len(s))
    <3>1. i - Len(s) \in 1 .. Len(t) /\ t[i - Len(s)] = x
      BY <1>2, <1>3, <2>2
    <3> QED
      BY <1>2, <3>1 DEF Among
  <2> QED
    BY <2>1, <2>2
<1>4. ASSUME NEW i \in DOMAIN s, s[i] = x PROVE Among(u, x)
  <2>1. i \in 1 .. Len(u) /\ u[i] = x
    BY <1>2, <1>4
  <2> QED
    BY <1>2, <2>1 DEF Among
<1>5. ASSUME NEW i \in DOMAIN t, t[i] = x PROVE Among(u, x)
  <2>1. i + Len(s) \in 1 .. Len(u) /\ (i + Len(s)) - Len(s) = i /\ ~(i + Len(s) <= Len(s))
    BY <1>2
  <2>2. u[i + Len(s)] = x
    BY <1>2, <1>5, <2>1
  <2> QED
    BY <1>2, <2>1, <2>2 DEF Among
<1>6. Among(u, x) <=> Among(s, x) \/ Among(t, x)
  BY <1>3, <1>4, <1>5 DEF Among
<1> QED
  BY <1>1, <1>6

LEMMA AmongOne == \A x, y : Among(<< y >>, x) <=> x = y
<1> SUFFICES ASSUME NEW x, NEW y PROVE Among(<< y >>, x) <=> x = y
  OBVIOUS
<1>1. PICK s : s = << y >>
  OBVIOUS
<1>2. DOMAIN s = {1} /\ s[1] = y
  BY <1>1
<1>3. Among(s, x) <=> x = y
  BY <1>2 DEF Among
<1> QED
  BY <1>1, <1>3

LEMMA AmongTail ==
    ASSUME NEW S, NEW s \in Seq(S), s # <<>>, NEW x
    PROVE  Among(s, x) <=> Head(s) = x \/ Among(Tail(s), x)
<1>1. /\ Head(s) \in S /\ Tail(s) \in Seq(S)
      /\ s = << Head(s) >> \o Tail(s)
  BY HeadTailProperties, ConcatProperties
<1>2. PICK h, t \in Seq(S) : h = << Head(s) >> /\ t = Tail(s)
  BY <1>1, CountOne
<1>3. Among(h \o t, x) <=> Among(h, x) \/ Among(t, x)
  BY AmongJoin
<1>4. Among(h, x) <=> x = Head(s)
  BY <1>2, AmongOne
<1> QED
  BY <1>1, <1>2, <1>3, <1>4
(* What a submission leaves of the queue, and what it adds: e reports of   *)
(* the front go, d are left, and more join them.                           *)
Shape(policy, queue, cap, needed, new, d, e, r, more) ==
    /\ e = Evicted(policy, queue, cap, needed) /\ d + e = Len(queue)
    /\ d = Len(Kept(policy, queue, cap, needed))
    /\ r = Submitted(policy, queue, cap, needed, new)
    /\ more = IF Executes(Admission(policy, queue, cap, needed)) THEN new ELSE <<>>
    /\ Len(r) = d + Len(more)
    /\ \A i \in 1 .. d : r[i] = queue[i + e]
    /\ \A j \in 1 .. Len(more) : r[d + j] = more[j]

LEMMA SubmittedShape ==
    ASSUME NEW policy, NEW queue \in Seq(DirectReps), NEW cap \in Nat, NEW needed \in Nat,
           NEW new \in Seq(DirectReps)
    PROVE  \E d, e \in Nat : \E r, more \in Seq(DirectReps) :
             Shape(policy, queue, cap, needed, new, d, e, r, more)
<1>1. PICK n \in Nat : n = Len(queue)
  BY LenProperties
<1>2. PICK e \in Nat : e = Evicted(policy, queue, cap, needed) /\ e <= n
  BY <1>1 DEF Evicted, Fits, Lesser
<1>3. PICK d \in Nat : d = n - e /\ d + e = n
  BY <1>2
<1>4. PICK kept \in Seq(DirectReps) :
        /\ kept = Kept(policy, queue, cap, needed) /\ Len(kept) = d
        /\ \A i \in 1 .. d : kept[i] = queue[i + e]
  <2>1. PICK kept : kept = SubSeq(queue, e + 1, n)
    OBVIOUS
  <2>2. e + 1 \in 1 .. n + 1 /\ n \in (e + 1) - 1 .. n
    BY <1>2
  <2>3. /\ kept \in Seq(DirectReps) /\ Len(kept) = (n - (e + 1)) + 1
        /\ \A i \in 1 .. (n - (e + 1)) + 1 : kept[i] = queue[((e + 1) + i) - 1]
    BY <1>1, <2>1, <2>2, SubSeqProperties
  <2>4. (n - (e + 1)) + 1 = d
    BY <1>3
  <2>5. \A i \in 1 .. d : ((e + 1) + i) - 1 = i + e
    OBVIOUS
  <2>6. kept = Kept(policy, queue, cap, needed)
    BY <1>1, <1>2, <2>1 DEF Kept
  <2>7. kept \in Seq(DirectReps) /\ Len(kept) = d /\ \A i \in 1 .. d : kept[i] = queue[i + e]
    BY <2>3, <2>4, <2>5
  <2> QED
    BY <2>6, <2>7
<1>5. PICK more \in Seq(DirectReps) :
        more = IF Executes(Admission(policy, queue, cap, needed)) THEN new ELSE <<>>
  <2>1. <<>> \in Seq(DirectReps)
    OBVIOUS
  <2> QED
    BY <2>1
<1>6. PICK r \in Seq(DirectReps) : r = kept \o more
  BY ConcatProperties
<1>7. PICK l \in Nat : l = Len(more)
  BY LenProperties
<1>8. /\ Len(r) = d + l
      /\ \A i \in 1 .. d + l : r[i] = IF i <= d THEN kept[i] ELSE more[i - d]
  <2>1. /\ Len(r) = Len(kept) + Len(more)
        /\ \A i \in 1 .. Len(kept) + Len(more) :
             r[i] = IF i <= Len(kept) THEN kept[i] ELSE more[i - Len(kept)]
    BY <1>6, ConcatProperties
  <2>2. Len(kept) = d
    BY <1>4
  <2> QED
    BY <1>7, <2>1, <2>2
<1>9. r = Submitted(policy, queue, cap, needed, new)
  BY <1>4, <1>5, <1>6 DEF Submitted
<1>10. ASSUME NEW i \in 1 .. d PROVE r[i] = queue[i + e]
  <2>1. i \in 1 .. d + l /\ i <= d
    BY <1>3, <1>7
  <2> QED
    BY <1>4, <1>8, <2>1
<1>11. ASSUME NEW j \in 1 .. l PROVE r[d + j] = more[j]
  <2>1. d + j \in 1 .. d + l /\ ~(d + j <= d) /\ (d + j) - d = j
    BY <1>3, <1>7
  <2> QED
    BY <1>8, <2>1
<1>12. Shape(policy, queue, cap, needed, new, d, e, r, more)
  BY <1>1, <1>2, <1>3, <1>4, <1>5, <1>7, <1>8, <1>9, <1>10, <1>11 DEF Shape
<1> QED
  BY <1>12

(* A report that joins evicts none that is near the front and not too far  *)
(* from the end.                                                           *)
LEMMA NearSubmitted ==
    ASSUME NEW policy, NEW queue \in Seq(DirectReps), NEW cap \in Nat,
           NEW new \in Seq(DirectReps), Len(new) = 1,
           NEW x, NEW most \in Nat, most + 1 < 2 * cap, Near(queue, x, most)
    PROVE  Near(Submitted(policy, queue, cap, 1, new), x, most + 2)
<1>1. PICK d \in Nat, e \in Nat, r \in Seq(DirectReps), more \in Seq(DirectReps) :
        Shape(policy, queue, cap, 1, new, d, e, r, more)
  <2>1. 1 \in Nat
    OBVIOUS
  <2> QED
    BY <2>1, SubmittedShape
<1>2. PICK n, k \in Nat : n = Len(queue) /\ k = Len(r)
  BY LenProperties
<1>3. PICK p \in 1 .. n : queue[p] = x /\ 2 * (n - p) + p <= most
  BY <1>2, LenProperties DEF Near
<1>4. d + e = n /\ k >= d /\ k <= d + 1
  <2>1. more = new \/ more = <<>>
    BY <1>1 DEF Shape
  <2>2. d + e = n /\ k = d + Len(more)
    BY <1>1, <1>2 DEF Shape
  <2>3. CASE more = new
    <3>1. Len(more) = 1
      BY <2>3
    <3> QED
      BY <2>2, <3>1
  <2>4. CASE more = <<>>
    <3>1. Len(more) = 0
      BY <2>4
    <3> QED
      BY <2>2, <3>1
  <2> QED
    BY <2>1, <2>3, <2>4
<1>5. e = 0 \/ (n + 1 > cap /\ e <= (n + 1) - cap)
  BY <1>1, <1>2 DEF Shape, Evicted, Fits, Lesser
<1>6. p > e
  BY <1>3, <1>4, <1>5
<1>7. PICK i \in 1 .. d : i + e = p
  <2>1. p - e \in 1 .. d /\ (p - e) + e = p
    BY <1>3, <1>4, <1>6
  <2> QED
    BY <2>1
<1>8. r[i] = x
  BY <1>1, <1>3, <1>7 DEF Shape
<1>9. i \in 1 .. k /\ 2 * (k - i) + i <= most + 2
  BY <1>3, <1>4, <1>7
<1>10. Near(r, x, most + 2)
  BY <1>2, <1>8, <1>9, LenProperties DEF Near
<1> QED
  BY <1>1, <1>10 DEF Shape

(* A report that has its place within the last few.                        *)
LEMMA NearEnd ==
    ASSUME NEW policy, NEW queue \in Seq(DirectReps), NEW cap \in Nat, NEW needed \in Nat,
           NEW new \in Seq(DirectReps), NEW x, NEW j \in 1 .. Len(new), new[j] = x,
           Executes(Admission(policy, queue, cap, needed)),
           NEW most \in Nat, (cap - needed) + j + 2 * (Len(new) - j) <= most
    PROVE  Near(Submitted(policy, queue, cap, needed, new), x, most)
<1>1. PICK d \in Nat, e \in Nat, r \in Seq(DirectReps), more \in Seq(DirectReps) :
        Shape(policy, queue, cap, needed, new, d, e, r, more)
  BY SubmittedShape
<1>2. PICK k, l \in Nat : k = Len(r) /\ l = Len(new)
  BY LenProperties
<1>3. k = d + l /\ r[d + j] = x
  <2>1. more = new
    BY <1>1 DEF Shape
  <2> QED
    BY <1>1, <1>2, <2>1 DEF Shape
<1>4. d + needed <= cap
  <2>1. Fits(Kept(policy, queue, cap, needed), cap, needed)
    BY DEF Admission, Executes
  <2> QED
    BY <1>1, <2>1 DEF Fits, Shape
<1>5. j \in 1 .. l /\ (cap - needed) + j + 2 * (l - j) <= most
  BY <1>2
<1>6. PICK p \in 1 .. k : p = d + j /\ 2 * (k - p) + p <= most
  <2>1. d + j \in 1 .. k /\ k - (d + j) = l - j
    BY <1>3, <1>5
  <2>2. 2 * (k - (d + j)) + (d + j) <= most
    BY <1>4, <1>5, <2>1
  <2> QED
    BY <2>1, <2>2
<1>7. Near(r, x, most)
  BY <1>2, <1>3, <1>6, LenProperties DEF Near
<1> QED
  BY <1>1, <1>7 DEF Shape

LEMMA NearWider ==
    ASSUME NEW S, NEW seq \in Seq(S), NEW x, NEW few \in Nat, NEW most \in Nat, few <= most,
           Near(seq, x, few)
    PROVE  Near(seq, x, most)
<1>1. Len(seq) \in Nat /\ DOMAIN seq = 1 .. Len(seq)
  BY LenProperties
<1> QED
  BY <1>1 DEF Near

(* A coalescing command is executed if the queue has room for its reports  *)
(* at all.                                                                 *)
LEMMA CoalesceExecutes ==
    ASSUME NEW queue \in Seq(DirectReps), NEW cap \in Nat, NEW needed \in Nat, needed <= cap
    PROVE  Executes(Admission("Coalesce", queue, cap, needed))
<1>1. PICK e, kept : e = Evicted("Coalesce", queue, cap, needed)
                     /\ kept = SubSeq(queue, e + 1, Len(queue))
  OBVIOUS
<1>2. Len(queue) \in Nat
  BY LenProperties
<1>3. e \in 0 .. Len(queue) /\ (Len(queue) - e) + needed <= cap
  BY <1>1, <1>2 DEF Evicted, Fits, Lesser
<1>4. Len(kept) = Len(queue) - e
  <2>1. e + 1 \in 1 .. Len(queue) + 1 /\ Len(queue) \in (e + 1) - 1 .. Len(queue)
    BY <1>2, <1>3
  <2>2. Len(kept) = (Len(queue) - (e + 1)) + 1
    BY <1>1, <2>1, SubSeqProperties
  <2> QED
    BY <1>2, <1>3, <2>2
<1>5. Fits(Kept("Coalesce", queue, cap, needed), cap, needed)
  BY <1>1, <1>3, <1>4 DEF Fits, Kept
<1> QED
  BY <1>5 DEF Admission, Executes

(* The pump that waits stays among those that wait when another intent     *)
(* joins them, leads them, or is taken.                                    *)
LEMMA PumpedStays ==
    ASSUME NEW q \in Queues, NEW p \in Priorities, NEW x \in Intents
    PROVE  /\ Pumped(q) => Pumped([q EXCEPT ![p] = Append(@, x)])
           /\ p = "P1" /\ x = Pump => Pumped([q EXCEPT ![p] = Append(@, x)])
           /\ Pumped(q) => Pumped(Requeued(q, x))
<1>1. \A o \in Priorities : q[o] \in Seq(Intents)
  BY DEF Queues
<1>2. PICK one \in Seq(Intents) : one = << x >>
  BY CountOne
<1>3. PICK r : r = [q EXCEPT ![p] = Append(@, x)]
  OBVIOUS
<1>4. /\ r[p] = q[p] \o one /\ \A o \in Priorities \ {p} : r[o] = q[o]
      /\ "P0" \in Priorities /\ "P1" \in Priorities
  BY <1>1, <1>2, <1>3, AppendIsConcat DEF Queues, Priorities
<1>5. \A o \in Priorities : Among(q[o], Pump) => Among(r[o], Pump)
  <2> SUFFICES ASSUME NEW o \in Priorities, Among(q[o], Pump) PROVE Among(r[o], Pump)
    OBVIOUS
  <2>1. CASE o = p
    <3>1. PICK old \in Seq(Intents) : old = q[o]
      BY <1>1
    <3>2. Among(old \o one, Pump) <=> Among(old, Pump) \/ Among(one, Pump)
      BY AmongJoin
    <3> QED
      BY <1>4, <2>1, <3>1, <3>2
  <2>2. CASE o # p
    BY <1>4, <2>2
  <2> QED
    BY <2>1, <2>2
<1>6. p = "P1" /\ x = Pump => Among(r["P1"], Pump)
  <2>1. x = Pump => Among(one, Pump)
    BY <1>2, AmongOne
  <2>2. PICK old \in Seq(Intents) : old = q["P1"]
    BY <1>1, <1>4
  <2>3. Among(old \o one, Pump) <=> Among(old, Pump) \/ Among(one, Pump)
    BY AmongJoin
  <2> QED
    BY <1>4, <2>1, <2>2, <2>3
<1>7. /\ Pumped(q) => Pumped(r)
      /\ p = "P1" /\ x = Pump => Pumped(r)
  BY <1>4, <1>5, <1>6 DEF Pumped
<1>8. Pumped(q) => Pumped(Requeued(q, x))
  <2>1. PICK t : t = Requeued(q, x)
    OBVIOUS
  <2>2. t["P0"] = one \o q["P0"] /\ t["P1"] = q["P1"]
    BY <1>2, <2>1 DEF Requeued, Queues, Priorities
  <2>3. Among(q["P0"], Pump) => Among(t["P0"], Pump)
    <3>1. PICK old \in Seq(Intents) : old = q["P0"]
      BY <1>1, <1>4
    <3>2. Among(one \o old, Pump) <=> Among(one, Pump) \/ Among(old, Pump)
      BY AmongJoin
    <3> QED
      BY <2>2, <3>1, <3>2
  <2> QED
    BY <2>1, <2>2, <2>3 DEF Pumped
<1> QED
  BY <1>3, <1>7, <1>8

LEMMA PumpedTake ==
    ASSUME queues \in Queues, HasIntent, Pumped(queues), NextIntent # Pump,
           NEW popped, popped = [queues EXCEPT ![Top] = Tail(@)]
    PROVE  Pumped(popped)
<1>1. Top \in Priorities /\ queues[Top] # <<>> /\ queues[Top] \in Seq(Intents)
  BY DEF Top, HasIntent, Waiting, Priorities, Queues
<1>2. /\ popped[Top] = Tail(queues[Top]) /\ NextIntent = Head(queues[Top])
      /\ \A o \in Priorities \ {Top} : queues[o] = popped[o]
  BY <1>1 DEF Queues, NextIntent, Waiting
<1>3. Among(queues[Top], Pump) => Among(popped[Top], Pump)
  BY <1>1, <1>2, AmongTail
<1>4. \A o \in Priorities : Among(queues[o], Pump) => Among(popped[o], Pump)
  BY <1>2, <1>3
<1>5. "P0" \in Priorities /\ "P1" \in Priorities
  BY DEF Priorities
<1> QED
  BY <1>4, <1>5 DEF Pumped

(* Where the end of the tick is among the reports of a command.            *)
LEMMA EndAmongReports ==
    ASSUME NEW c \in {"TickDisplay", "StepFrame", "LoadRom", "Snapshot"}, NEW times \in {1, 2},
           NEW new, new = ReportsOf(c, times)
    PROVE  /\ c = "TickDisplay" =>
                /\ Len(new) \in 1 .. 2 * Lanes + 1 /\ new[Len(new)] = EndOfTick
           /\ c = "StepFrame" =>
                /\ Len(new) \in 2 .. 2 * Lanes + 2 /\ new[Len(new) - 1] = EndOfTick
           /\ c \in {"LoadRom", "Snapshot"} => Len(new) = 1
<1> DEFINE debug == [kind |-> "Debug"]
<1>1. PICK n \in Nat : n = times * Lanes /\ n >= 1 /\ n <= 2 * Lanes
  <2>1. Lanes \in Nat \ {0}
    BY DirectAssumption
  <2>2. CASE times = 1
    BY <2>1, <2>2
  <2>3. CASE times = 2
    BY <2>1, <2>3
  <2> QED
    BY <2>2, <2>3
<1>2. PICK frames : frames = LaneFrames(times)
  OBVIOUS
<1>3. /\ ReportsOf("TickDisplay", times) \in Seq(DirectReps)
      /\ ReportsOf("StepFrame", times) \in Seq(DirectReps)
  BY EndsOfReports
<1>4. frames \in Seq(DirectReps) /\ Len(frames) = n
  <2>1. \A i \in 1 .. n : frames[i] \in DirectReps
    <3> SUFFICES ASSUME NEW i \in 1 .. n PROVE frames[i] \in DirectReps
      OBVIOUS
    <3>1. (i - 1) % Lanes \in Nat
      BY DirectAssumption
    <3> QED
      BY <1>1, <1>2, <3>1 DEF LaneFrames, DirectReps
  <2>2. frames \in [1 .. n -> DirectReps]
    BY <1>1, <1>2, <2>1 DEF LaneFrames
  <2> QED
    BY <2>2, IsASeq
<1>5. PICK one, two \in Seq(DirectReps) :
        /\ one = << EndOfTick >> /\ Len(one) = 1 /\ one[1] = EndOfTick
        /\ two = << EndOfTick, debug >> /\ Len(two) = 2 /\ two[1] = EndOfTick
  <2>1. EndOfTick \in DirectReps /\ debug \in DirectReps
    BY DEF DirectReps, EndOfTick
  <2> HIDE DEF debug
  <2>2. PICK one, two : one = << EndOfTick >> /\ two = << EndOfTick, debug >>
    OBVIOUS
  <2>3. one \in Seq(DirectReps) /\ two \in Seq(DirectReps)
    BY <2>1, <2>2
  <2>4. Len(one) = 1 /\ one[1] = EndOfTick /\ Len(two) = 2 /\ two[1] = EndOfTick
    BY <2>2
  <2> QED
    BY <2>2, <2>3, <2>4
<1>6. c = "TickDisplay" => Len(new) = n + 1 /\ new[n + 1] = EndOfTick
  <2> SUFFICES ASSUME c = "TickDisplay" PROVE Len(new) = n + 1 /\ new[n + 1] = EndOfTick
    OBVIOUS
  <2>1. new = Append(frames, EndOfTick)
    BY <1>2 DEF ReportsOf, EndOfTick
  <2>2. EndOfTick \in DirectReps
    BY DEF DirectReps, EndOfTick
  <2> QED
    BY <1>4, <2>1, <2>2, AppendProperties
<1>7. c = "StepFrame" => Len(new) = n + 2 /\ new[n + 1] = EndOfTick
  <2> SUFFICES ASSUME c = "StepFrame" PROVE Len(new) = n + 2 /\ new[n + 1] = EndOfTick
    OBVIOUS
  <2>1. new = frames \o two
    BY <1>2, <1>5 DEF ReportsOf, EndOfTick
  <2>2. /\ Len(new) = Len(frames) + Len(two)
        /\ \A i \in 1 .. Len(frames) + Len(two) :
             new[i] = IF i <= Len(frames) THEN frames[i] ELSE two[i - Len(frames)]
    <3>1. PICK s, t \in Seq(DirectReps) : s = frames /\ t = two
      BY <1>4
    <3>2. /\ Len(s \o t) = Len(s) + Len(t)
          /\ \A i \in 1 .. Len(s) + Len(t) :
               (s \o t)[i] = IF i <= Len(s) THEN s[i] ELSE t[i - Len(s)]
      BY ConcatProperties
    <3> QED
      BY <2>1, <3>1, <3>2
  <2>3. n + 1 \in 1 .. n + 2 /\ ~(n + 1 <= n) /\ (n + 1) - n = 1
    OBVIOUS
  <2> QED
    BY <1>4, <1>5, <2>2, <2>3
<1>8. c \in {"LoadRom", "Snapshot"} => Len(new) = 1
  BY DEF ReportsOf
<1>9. n + 1 \in 1 .. 2 * Lanes + 1 /\ n + 2 \in 2 .. 2 * Lanes + 2 /\ (n + 2) - 1 = n + 1
  BY <1>1, DirectAssumption
<1> QED
  BY <1>6, <1>7, <1>8, <1>9

(* What is near the front of a queue that is drained is drained, or nearer. *)
LEMMA NearDrained ==
    ASSUME NEW queue \in Seq(DirectReps), NEW max \in Nat, NEW x,
           NEW most \in Nat, NEW few \in Nat, most <= few + max, Near(queue, x, most)
    PROVE  Among(Drained(queue, max), x) \/ Near(Undrained(queue, max), x, few)
<1>1. PICK n \in Nat : n = Len(queue)
  BY LenProperties
<1>2. PICK m \in Nat : m = Lesser(max, n) /\ m <= n /\ (m = max \/ m = n)
  BY <1>1 DEF Lesser
<1>3. PICK p \in 1 .. n : queue[p] = x /\ 2 * (n - p) + p <= most
  BY <1>1, LenProperties DEF Near
<1>4. PICK first, rest : first = SubSeq(queue, 1, m) /\ rest = SubSeq(queue, m + 1, n)
  OBVIOUS
<1>5. first = Drained(queue, max) /\ rest = Undrained(queue, max)
  BY <1>1, <1>2, <1>4 DEF Drained, Undrained
<1>6. CASE p <= m
  <2>1. 1 \in 1 .. Len(queue) + 1 /\ m \in 1 - 1 .. Len(queue)
    BY <1>1, <1>2
  <2>2. /\ first \in Seq(DirectReps) /\ Len(first) = (m - 1) + 1
        /\ \A i \in 1 .. (m - 1) + 1 : first[i] = queue[(1 + i) - 1]
    BY <1>4, <2>1, SubSeqProperties
  <2>3. p \in 1 .. (m - 1) + 1 /\ (1 + p) - 1 = p
    BY <1>3, <1>6
  <2>4. p \in DOMAIN first /\ first[p] = x
    BY <1>3, <2>2, <2>3, LenProperties
  <2> QED
    BY <1>5, <2>4 DEF Among
<1>7. CASE ~(p <= m)
  <2>1. m + 1 \in 1 .. Len(queue) + 1 /\ n \in (m + 1) - 1 .. Len(queue)
    BY <1>1, <1>2
  <2>2. /\ rest \in Seq(DirectReps) /\ Len(rest) = (n - (m + 1)) + 1
        /\ \A i \in 1 .. (n - (m + 1)) + 1 : rest[i] = queue[((m + 1) + i) - 1]
    BY <1>4, <2>1, SubSeqProperties
  <2>3. PICK i \in 1 .. (n - (m + 1)) + 1 : i + m = p
    <3>1. p - m \in 1 .. (n - (m + 1)) + 1 /\ (p - m) + m = p
      BY <1>2, <1>3, <1>7
    <3> QED
      BY <3>1
  <2>4. ((m + 1) + i) - 1 = p
    BY <2>3
  <2>5. rest[i] = x
    BY <1>3, <2>2, <2>4
  <2>6. PICK l \in Nat : l = n - m /\ l = Len(rest) /\ DOMAIN rest = 1 .. l
    <3>1. (n - (m + 1)) + 1 = n - m /\ n - m \in Nat
      BY <1>2
    <3> QED
      BY <2>2, <3>1, LenProperties
  <2>7. m = max
    BY <1>2, <1>3, <1>7
  <2>8. i \in 1 .. l /\ 2 * (l - i) + i <= few
    BY <1>2, <1>3, <2>3, <2>6, <2>7
  <2> QED
    BY <1>5, <2>5, <2>6, <2>8 DEF Near
<1> QED
  BY <1>6, <1>7

(* A tick puts an end into the queue of the kernel. Any other command      *)
(* leaves the one that is near, or puts another there.                     *)
LEMMA EndStaysNear ==
    ASSUME Roomy, NEW queue \in Seq(DirectReps),
           NEW c \in {"TickDisplay", "StepFrame", "LoadRom", "Snapshot"}, NEW times \in {1, 2},
           NEW g \in Nat, g + 2 <= 2 * IntentBudget,
           c = "TickDisplay" \/ Near(queue, EndOfTick, Most + g),
           NEW next, next = Submitted(DefaultPolicy(c), queue, KernelCapacity,
                                      Farm!ReportsFor(c), ReportsOf(c, times))
    PROVE  Near(next, EndOfTick, Most + (g + 2))
<1> DEFINE cap == KernelCapacity
<1>1. PICK new \in Seq(DirectReps) : new = ReportsOf(c, times)
  BY EndsOfReports
<1>2. /\ cap \in Nat /\ cap >= 2 * (Lanes + IntentBudget) /\ Lanes \in Nat \ {0}
      /\ IntentBudget \in Nat \ {0}
  BY LoopAssumption, DirectAssumption DEF Roomy
<1>3. /\ c = "TickDisplay" =>
           /\ Len(new) \in 1 .. 2 * Lanes + 1 /\ new[Len(new)] = EndOfTick
      /\ c = "StepFrame" =>
           /\ Len(new) \in 2 .. 2 * Lanes + 2 /\ new[Len(new) - 1] = EndOfTick
      /\ c \in {"LoadRom", "Snapshot"} => Len(new) = 1
  BY <1>1, EndAmongReports
<1>4. PICK l \in Nat : l = Len(new)
  BY LenProperties
<1>5. Most \in Nat /\ Most = (cap + 2 * Lanes) - 1
  BY DirectAssumption DEF Most
<1> HIDE DEF cap
<1>6. CASE c = "TickDisplay"
  <2>1. DefaultPolicy(c) = "Coalesce" /\ Farm!ReportsFor(c) = 2
    BY <1>6 DEF DefaultPolicy, Farm!ReportsFor
  <2>2. Executes(Admission("Coalesce", queue, cap, 2))
    <3>1. 2 \in Nat /\ 2 <= cap
      BY <1>2
    <3> QED
      BY <1>2, <3>1, CoalesceExecutes
  <2>3. l \in 1 .. l /\ new[l] = EndOfTick /\ (cap - 2) + l + 2 * (l - l) <= Most + (g + 2)
    BY <1>5, <1>2, <1>3, <1>4, <1>6
  <2>4. 2 \in Nat /\ Most + (g + 2) \in Nat
    BY <1>5
  <2>5. Near(Submitted("Coalesce", queue, cap, 2, new), EndOfTick, Most + (g + 2))
    BY <1>2, <1>4, <2>2, <2>3, <2>4, NearEnd
  <2> QED
    BY <1>1, <2>1, <2>5 DEF cap
<1>7. CASE c = "StepFrame"
  <2>1. DefaultPolicy(c) = "Lossless" /\ Farm!ReportsFor(c) = 3
    BY <1>7 DEF DefaultPolicy, Farm!ReportsFor
  <2>2. CASE Executes(Admission("Lossless", queue, cap, 3))
    <3>1. PICK j \in Nat : j = l - 1 /\ j >= 1
      BY <1>3, <1>4, <1>7
    <3>2. j \in 1 .. l /\ new[j] = EndOfTick /\ (cap - 3) + j + 2 * (l - j) <= Most + (g + 2)
      BY <1>5, <1>2, <1>3, <1>4, <1>7, <3>1
    <3>3. 3 \in Nat /\ Most + (g + 2) \in Nat
      BY <1>5
    <3>4. Near(Submitted("Lossless", queue, cap, 3, new), EndOfTick, Most + (g + 2))
      BY <1>2, <1>4, <2>2, <3>2, <3>3, NearEnd
    <3> QED
      BY <1>1, <2>1, <3>4 DEF cap
  <2>3. CASE ~Executes(Admission("Lossless", queue, cap, 3))
    <3>1. Kept("Lossless", queue, cap, 3) = queue
      BY SubSeqFull DEF Kept, Evicted
    <3>2. queue \o <<>> = queue
      BY ConcatEmptySeq
    <3>3. next = queue
      BY <2>1, <2>3, <3>1, <3>2 DEF Submitted, cap
    <3>4. Most + g \in Nat /\ Most + (g + 2) \in Nat /\ Most + g <= Most + (g + 2)
      BY <1>5
    <3>5. Near(queue, EndOfTick, Most + g)
      BY <1>7
    <3>6. Near(queue, EndOfTick, Most + (g + 2))
      BY <3>4, <3>5, NearWider
    <3> QED
      BY <3>3, <3>6
  <2> QED
    BY <2>2, <2>3
<1>8. CASE c \in {"LoadRom", "Snapshot"}
  <2>1. Farm!ReportsFor(c) = 1 /\ Len(new) = 1 /\ c # "TickDisplay"
    BY <1>3, <1>8 DEF Farm!ReportsFor
  <2>2. PICK s \in Nat : s = Most + g /\ s + 1 < 2 * cap /\ s + 2 = Most + (g + 2)
    BY <1>5, <1>2
  <2>3. Near(queue, EndOfTick, s)
    BY <2>1, <2>2
  <2>4. Near(Submitted(DefaultPolicy(c), queue, cap, 1, new), EndOfTick, s + 2)
    BY <1>2, <2>1, <2>2, <2>3, NearSubmitted
  <2> QED
    BY <1>1, <2>1, <2>2, <2>4 DEF cap
<1> QED
  BY <1>6, <1>7, <1>8

(* A pump that is taken becomes the end of a tick, that end a pump.        *)
LEMMA NextLiving == Roomy /\ Paced /\ Living /\ [Next]_vars => Living'
<1> SUFFICES ASSUME Roomy, Paced, Living, [Next]_vars PROVE Living'
  OBVIOUS
<1>1. /\ queues \in Queues /\ asked \in [Origins -> Nat] /\ started \in Nat
      /\ kernel \in Seq(DirectReps) /\ gpu \in Seq(DirectReps) /\ batch \in Seq(DirectReps)
  BY DEF Paced
<1>2. /\ phase \in {"idle", "intents", "reports"} /\ budget \in 0 .. IntentBudget
      /\ phase # "reports" => batch = <<>>
  BY DEF Living
<1>3. Most \in Nat
  BY DirectAssumption DEF Most
<1>4. AutoPump /\ started > 0 =>
        Pumped(queues) \/ Among(batch, EndOfTick) \/ Near(kernel, EndOfTick, Most + Granted)
  BY <1>3 DEF Living
<1>5. IntentBudget \in Nat \ {0} /\ ReportBudget \in Nat /\ ReportBudget >= 2 * IntentBudget
  BY LoopAssumption, DirectAssumption DEF Roomy
<1>6. ~Among(<<>>, EndOfTick)
  BY DEF Among
<1>7. ASSUME Pumped(queues'), phase' \in {"idle", "intents", "reports"},
             budget' \in 0 .. IntentBudget, phase' # "reports" => batch' = <<>>
      PROVE  Living'
  BY <1>7 DEF Living
<1>8. ASSUME NEW p \in Priorities, NEW op \in Askable, NEW arg \in Nat,
             Enqueue(p, op, arg), kernel' = kernel,
             op = "PumpFrame" => p = "P1" /\ arg = 0,
             op # "PumpFrame" => started' = started
      PROVE  Living'
  <2> DEFINE x == NewIntent(op, p, arg)
  <2>1. /\ queues' = [queues EXCEPT ![p] = Append(@, x)] /\ Ask(x) /\ batch' = batch
        /\ phase' = phase /\ phase = "idle" /\ budget' = budget /\ p \in Origins
    BY <1>8 DEF Enqueue, Origins
  <2>2. op = "PumpFrame" => x = Pump
    BY <1>8, LoopAssumption DEF NewIntent, Pump
  <2> HIDE DEF x
  <2>3. x \in Intents
    BY <1>1, <2>1, AsksOneMore DEF x
  <2>4. CASE op = "PumpFrame"
    <3>1. Pumped(queues')
      BY <1>1, <1>8, <2>1, <2>2, <2>3, <2>4, PumpedStays
    <3> QED
      BY <1>2, <1>7, <2>1, <3>1
  <2>5. CASE op # "PumpFrame"
    <3>1. Pumped(queues) => Pumped(queues')
      BY <1>1, <2>1, <2>3, PumpedStays
    <3>2. Granted' = Granted
      BY <2>1 DEF Granted
    <3>3. AutoPump /\ started' > 0 =>
            Pumped(queues') \/ Among(batch', EndOfTick)
            \/ Near(kernel', EndOfTick, Most + Granted')
      BY <1>4, <1>8, <2>1, <2>5, <3>1, <3>2
    <3> QED
      BY <1>2, <1>3, <2>1, <3>3 DEF Living
  <2> QED
    BY <2>4, <2>5
<1>9. ASSUME NEW op \in Numbered, DemandFront(op) PROVE Living'
  <2> DEFINE x == NewIntent(op, "Front", 0)
  <2>1. /\ queues' = Requeued(queues, x) /\ Ask(x) /\ batch' = batch
        /\ kernel' = kernel /\ started' = started
        /\ phase' = phase /\ phase = "idle" /\ budget' = budget
        /\ "Front" \in Origins /\ op \in Askable
    BY <1>9 DEF DemandFront, EnqueueFront, Origins, Askable
  <2> HIDE DEF x
  <2>2. x \in Intents
    BY <1>1, <2>1, AsksOneMore DEF x
  <2>3. Pumped(queues) => Pumped(queues')
    BY <1>1, <2>1, <2>2, PumpedStays DEF Priorities
  <2>4. Granted' = Granted
    BY <2>1 DEF Granted
  <2>5. AutoPump /\ started' > 0 =>
          Pumped(queues') \/ Among(batch', EndOfTick)
          \/ Near(kernel', EndOfTick, Most + Granted')
    BY <1>4, <2>1, <2>3, <2>4
  <2> QED
    BY <1>2, <1>3, <2>1, <2>5 DEF Living
<1>10. ASSUME Client PROVE Living'
  <2>1. /\ Numbered \cup {"DebugSnapshot", "SelectDisplayLane"} \subseteq Askable \ {"PumpFrame"}
        /\ {"P0", "P1"} \subseteq Priorities
    BY LoopAssumption DEF Askable, Priorities
  <2>2. ASSUME NEW op \in Askable \ {"PumpFrame"}, NEW p \in Priorities, NEW arg \in Nat,
               Demand(op, p, arg)
        PROVE  Living'
    <3>1. Enqueue(p, op, arg) /\ kernel' = kernel /\ started' = started /\ op # "PumpFrame"
      BY <2>2 DEF Demand
    <3> QED
      BY <1>8, <3>1
  <2>3. DisplayLanes \subseteq Nat
    BY LoopAssumption
  <2> QED
    BY <1>9, <1>10, <2>1, <2>2, <2>3 DEF Client
<1>11. ASSUME StartPump PROVE Living'
  <2>1. /\ Enqueue("P1", "PumpFrame", 0) /\ kernel' = kernel
        /\ "P1" \in Priorities /\ "PumpFrame" \in Askable
    BY <1>11 DEF StartPump, Priorities, Askable
  <2> QED
    BY <1>8, <2>1
<1>12. ASSUME Reduce PROVE Living'
  <2> DEFINE x == NextIntent c == CommandOf(x)
             popped == [queues EXCEPT ![Top] = Tail(@)]
             answer == IF c = "None" THEN "Accepted" ELSE KernelOutcome(c)
  <2>1. /\ TakeIntent(answer) /\ started' = started
        /\ c = "None" => kernel' = kernel
        /\ c # "None" => \E times \in {1, 2} :
             kernel' = Submitted(DefaultPolicy(c), kernel, KernelCapacity,
                                 Farm!ReportsFor(c), ReportsOf(c, times))
    BY <1>12 DEF Reduce
  <2>2. /\ HasIntent /\ batch' = batch /\ phase = "intents" /\ phase' = "intents"
        /\ budget > 0 /\ budget' = budget - 1
        /\ queues' = IF Retry(answer, c) THEN Requeued(popped, x) ELSE popped
    BY <2>1 DEF TakeIntent
  <2> HIDE DEF popped, answer
  <2>3. popped \in Queues /\ x \in Intents
    BY <1>1, <2>2, WaitsTake DEF popped
  <2>4. budget' \in 0 .. IntentBudget /\ batch' = <<>> /\ ~Among(batch, EndOfTick)
    BY <1>2, <1>5, <1>6, <2>2
  <2>5. PICK g \in Nat : g = Granted /\ Granted' = g + 2 /\ g + 2 <= 2 * IntentBudget
    BY <1>2, <1>5, <2>2 DEF Granted
  <2>6. ASSUME AutoPump, started > 0, x # Pump, Pumped(queues) PROVE Pumped(queues')
    <3>1. Pumped(popped)
      BY <1>1, <2>2, <2>6, PumpedTake DEF popped
    <3>2. Pumped(Requeued(popped, x))
      BY <2>3, <3>1, PumpedStays DEF Priorities
    <3> QED
      BY <2>2, <3>1, <3>2
  <2>7. ASSUME x = Pump \/ Near(kernel, EndOfTick, Most + g)
        PROVE  Near(kernel', EndOfTick, Most + (g + 2))
    <3>1. CASE c = "None"
      <4>1. x # Pump
        BY <3>1 DEF CommandOf, IsPump, Pump
      <4>2. Most + g \in Nat /\ Most + (g + 2) \in Nat /\ Most + g <= Most + (g + 2)
        BY <1>3
      <4>3. Near(kernel, EndOfTick, Most + (g + 2))
        BY <1>1, <2>7, <4>1, <4>2, NearWider
      <4> QED
        BY <2>1, <3>1, <4>3
    <3>2. CASE c # "None"
      <4>1. c \in {"TickDisplay", "StepFrame", "LoadRom", "Snapshot"}
        BY <3>2 DEF CommandOf
      <4>2. x = Pump => c = "TickDisplay"
        BY DEF CommandOf, IsPump, Pump
      <4>3. PICK times \in {1, 2} :
              kernel' = Submitted(DefaultPolicy(c), kernel, KernelCapacity,
                                  Farm!ReportsFor(c), ReportsOf(c, times))
        BY <2>1, <3>2
      <4> HIDE DEF c, x
      <4> QED
        BY <1>1, <1>3, <2>5, <2>7, <4>1, <4>2, <4>3, EndStaysNear
    <3> QED
      BY <3>1, <3>2
  <2>8. AutoPump /\ started' > 0 =>
          Pumped(queues') \/ Among(batch', EndOfTick)
          \/ Near(kernel', EndOfTick, Most + Granted')
    BY <1>4, <2>1, <2>2, <2>4, <2>5, <2>6, <2>7
  <2> QED
    BY <1>3, <2>2, <2>4, <2>8 DEF Living
<1>13. ASSUME Collect PROVE Living'
  <2>1. PICK frames : frames = [i \in 1 .. Lesser(GpuShare, Len(gpu)) |-> [kind |-> "FrameShown"]]
    OBVIOUS
  <2>2. PICK first : first = Drained(kernel, ReportBudget)
    OBVIOUS
  <2>3. /\ batch' = first \o frames /\ kernel' = Undrained(kernel, ReportBudget)
        /\ started' = started /\ queues' = queues /\ budget' = budget
        /\ phase = "intents" /\ phase' = "reports"
    BY <1>13, <2>1, <2>2 DEF Collect, Gather
  <2>4. first \in Seq(DirectReps)
    <3>1. Lesser(ReportBudget, Len(kernel)) \in 0 .. Len(kernel)
      BY <1>1, <1>5, LenProperties DEF Lesser
    <3> QED
      BY <1>1, <2>2, <3>1, CountSplit DEF Drained
  <2>5. frames \in Seq(DirectReps)
    <3>1. PICK m \in Nat : m = Lesser(GpuShare, Len(gpu))
      BY <1>1, DirectAssumption, LenProperties DEF Lesser, GpuShare
    <3>2. [kind |-> "FrameShown"] \in DirectReps
      BY DEF DirectReps
    <3>3. frames \in [1 .. m -> DirectReps]
      BY <2>1, <3>1, <3>2
    <3> QED
      BY <3>1, <3>3, IsASeq
  <2>6. Among(first, EndOfTick) => Among(batch', EndOfTick)
    BY <2>3, <2>4, <2>5, AmongJoin
  <2>7. Near(kernel, EndOfTick, Most + Granted)
          => Among(first, EndOfTick) \/ Near(kernel', EndOfTick, Most)
    <3>1. PICK g \in Nat : g = Granted /\ Most + g <= Most + ReportBudget
      BY <1>2, <1>3, <1>5, <2>3 DEF Granted
    <3>2. Most + g \in Nat
      BY <1>3
    <3> QED
      BY <1>1, <1>3, <1>5, <2>2, <2>3, <3>1, <3>2, NearDrained
  <2>8. Granted' = 0 /\ Most + Granted' = Most
    BY <1>3, <2>3 DEF Granted
  <2>9. AutoPump /\ started' > 0 =>
          Pumped(queues') \/ Among(batch', EndOfTick)
          \/ Near(kernel', EndOfTick, Most + Granted')
    BY <1>2, <1>4, <1>6, <2>3, <2>6, <2>7, <2>8
  <2> QED
    BY <1>2, <1>3, <2>3, <2>9 DEF Living
<1>14. ASSUME React PROVE Living'
  <2> DEFINE r == Head(batch) more == Deferred(r)
  <2>1. /\ batch # <<>> /\ batch' = Tail(batch) /\ kernel' = kernel /\ started' = started
        /\ phase = "reports" /\ phase' = "reports" /\ budget' = budget
        /\ queues' = [queues EXCEPT !["P1"] = @ \o more]
    BY <1>14 DEF React, TakeReport
  <2>2. Among(batch, EndOfTick) => r = EndOfTick \/ Among(batch', EndOfTick)
    BY <1>1, <2>1, AmongTail
  <2>3. queues["P1"] \in Seq(Intents) /\ "P1" \in Priorities
    BY <1>1, WaitsTyped DEF Priorities
  <2>4. CASE r.kind = "TickDone" /\ AutoPump
    <3>1. Pump \in Intents
      BY DEF Pump, Intents, Origins, Priorities
    <3>2. queues["P1"] \o << Pump >> = Append(queues["P1"], Pump)
      BY <2>3, <3>1, AppendIsConcat
    <3>3. queues' = [queues EXCEPT !["P1"] = Append(@, Pump)]
      BY <1>1, <2>1, <2>4, <3>2 DEF Queues, Deferred
    <3>4. Pumped(queues')
      BY <1>1, <2>3, <3>1, <3>3, PumpedStays
    <3> QED
      BY <1>2, <1>7, <2>1, <3>4
  <2>5. CASE ~(r.kind = "TickDone" /\ AutoPump)
    <3>1. queues["P1"] \o <<>> = queues["P1"]
      BY <2>3, ConcatEmptySeq
    <3>2. queues' = queues
      BY <1>1, <2>1, <2>5, <3>1 DEF Queues, Deferred
    <3>3. AutoPump => r # EndOfTick
      BY <2>5 DEF EndOfTick
    <3>4. Granted' = Granted
      BY <2>1 DEF Granted
    <3> HIDE DEF r
    <3>5. AutoPump /\ started' > 0 =>
            Pumped(queues') \/ Among(batch', EndOfTick)
            \/ Near(kernel', EndOfTick, Most + Granted')
      BY <1>4, <2>1, <2>2, <3>2, <3>3, <3>4
    <3> QED
      BY <1>2, <1>3, <2>1, <3>5 DEF Living
  <2> QED
    BY <2>4, <2>5
<1>15. ASSUME Begin \/ Finish \/ UNCHANGED vars PROVE Living'
  <2>1. /\ UNCHANGED <<queues, batch, kernel, started>>
        /\ phase' \in {"idle", "intents", "reports"} /\ budget' \in 0 .. IntentBudget
        /\ phase' # "reports" => batch' = <<>>
    BY <1>2, <1>5, <1>15 DEF Begin, Finish, StartFrame, EndFrame, vars, loopVars
  <2>2. Granted' = Granted
    <3>1. CASE Begin
      BY <1>5, <3>1 DEF Begin, StartFrame, Granted
    <3>2. CASE Finish
      BY <3>2 DEF Finish, EndFrame, Granted
    <3>3. CASE UNCHANGED vars
      BY <3>3 DEF vars, loopVars, Granted
    <3> QED
      BY <1>15, <3>1, <3>2, <3>3
  <2>3. AutoPump /\ started' > 0 =>
          Pumped(queues') \/ Among(batch', EndOfTick)
          \/ Near(kernel', EndOfTick, Most + Granted')
    BY <1>4, <2>1, <2>2
  <2> QED
    BY <1>3, <2>1, <2>3 DEF Living
<1> QED
  BY <1>10, <1>11, <1>12, <1>13, <1>14, <1>15 DEF Next, Run

(* The cadence is kept if the queue of the kernel has room for the reports *)
(* of a tick and of the intents of two frames, and a frame drains as many: *)
(* whatever joins the queue evicts no end of a tick that is the last one   *)
(* (drain_reports, reduce_report), so the ticks neither stop nor multiply. *)
THEOREM CadenceStays == ASSUME Roomy PROVE Spec => []CadenceKept
<1>1. Init => Living
  <2>1. ~(0 > 0)
    OBVIOUS
  <2> QED
    BY <2>1, LoopAssumption DEF Init, InitLoop, Living
<1>2. Paced /\ Living => CadenceAlive
  <2> SUFFICES ASSUME Paced, Living, AutoPump, started > 0 PROVE Pumps > 0
    BY DEF CadenceAlive
  <2>1. queues \in Queues /\ kernel \in Seq(DirectReps) /\ batch \in Seq(DirectReps)
    BY DEF Paced
  <2>2. queues["P0"] \in Seq(Intents) /\ queues["P1"] \in Seq(Intents)
    BY <2>1, WaitsTyped
  <2>3. PICK i, j, k, l \in Nat :
          /\ i = Count(queues["P0"], {Pump}) /\ j = Count(queues["P1"], {Pump})
          /\ k = Count(kernel, Ends) /\ l = Count(batch, Ends)
    BY <2>1, <2>2, CountFinite
  <2>4. EndOfTick \in Ends /\ Pump \in {Pump}
    BY DEF EndOfTick, Ends
  <2>5. /\ Among(queues["P0"], Pump) => i > 0
        /\ Among(queues["P1"], Pump) => j > 0
        /\ Among(kernel, EndOfTick) => k > 0
        /\ Among(batch, EndOfTick) => l > 0
    BY <2>1, <2>2, <2>3, <2>4, AmongCounts
  <2>6. \/ Among(queues["P0"], Pump) \/ Among(queues["P1"], Pump)
        \/ Among(kernel, EndOfTick) \/ Among(batch, EndOfTick)
    BY DEF Living, Pumped, Near, Among
  <2>7. i + j + k + l > 0
    BY <2>5, <2>6
  <2> QED
    BY <2>3, <2>7 DEF Pumps
<1> QED
  BY <1>1, <1>2, InitPaced, NextPaced, NextLiving, CadenceStaysBounded, PTL
     DEF Spec, CadenceKept

(* ------------------------------ the browser ----------------------------- *)

CONSTANTS SlotCount, CommandRing, RomSize, ReplyRing, InlineSize, EngineBudget

VARIABLES turn, attempt, runs, returned, wire, pool, poll

Browser == INSTANCE FabricApp

LEMMA BrowserInit == Browser!Init => InitLoop
  BY DEF Browser!Init, Browser!InitLoop, InitLoop, Browser!Priorities, Browser!Origins,
         Priorities, Origins

(* The operators of the loop are the same in the application.              *)
LEMMA BrowserIntents ==
    /\ Browser!Top = Top /\ Browser!NextIntent = NextIntent /\ Browser!HasIntent = HasIntent
    /\ \A i : Browser!CommandOf(i) = CommandOf(i) /\ Browser!IsLossless(i) = IsLossless(i)
    /\ \A c : Browser!DefaultPolicy(c) = DefaultPolicy(c)
    /\ \A w, i : Browser!ReducedIntent(w, i) = ReducedIntent(w, i)
    /\ \A w, i : Browser!Requeued(w, i) = Requeued(w, i)
    /\ \A o, c : Browser!Retry(o, c) = Retry(o, c)
    /\ \A op, o, arg : Browser!NewIntent(op, o, arg) = NewIntent(op, o, arg)
    /\ \A i : Browser!Ask(i) = Ask(i)
<1>1. Browser!Top = Top /\ Browser!NextIntent = NextIntent /\ Browser!HasIntent = HasIntent
  BY DEF Browser!Top, Top, Browser!NextIntent, NextIntent, Browser!HasIntent, HasIntent,
         Browser!Waiting, Waiting, Browser!Priorities, Priorities
<1>2. \A i : Browser!CommandOf(i) = CommandOf(i)
  BY DEF Browser!CommandOf, CommandOf, Browser!IsPump, IsPump
<1>3. \A c : Browser!DefaultPolicy(c) = DefaultPolicy(c)
  BY DEF Browser!DefaultPolicy, DefaultPolicy
<1>4. \A i : Browser!IsLossless(i) = IsLossless(i)
  BY <1>2, <1>3 DEF Browser!IsLossless, IsLossless
<1>5. \A w, i : Browser!ReducedIntent(w, i) = ReducedIntent(w, i)
  BY DEF Browser!ReducedIntent, ReducedIntent
<1>6. \A w, i : Browser!Requeued(w, i) = Requeued(w, i)
  BY DEF Browser!Requeued, Requeued
<1>7. \A o, c : Browser!Retry(o, c) = Retry(o, c)
  BY <1>3 DEF Browser!Retry, Retry
<1>8. \A op, o, arg : Browser!NewIntent(op, o, arg) = NewIntent(op, o, arg)
  BY DEF Browser!NewIntent, NewIntent
<1>9. \A i : Browser!Ask(i) = Ask(i)
  BY DEF Browser!Ask, Ask
<1> QED
  BY <1>1, <1>2, <1>3, <1>4, <1>5, <1>6, <1>7, <1>8, <1>9

LEMMA BrowserTakes == \A outcome : Browser!TakeIntent(outcome) => TakeIntent(outcome)
  BY BrowserIntents DEF Browser!TakeIntent, TakeIntent

(* A step of the browser application is a step of the loop, or none of it. *)
LEMMA BrowserNext ==
    ASSUME "LoadRom" \in Numbered
    PROVE  [Browser!Next]_(Browser!vars) => [LoopNext]_loopVars
<1> SUFFICES ASSUME [Browser!Next]_(Browser!vars) PROVE [LoopNext]_loopVars
  OBVIOUS
<1>1. ASSUME Browser!Enqueue("P1", "PumpFrame", 0) PROVE LoopNext
  <2>1. Enqueue("P1", "PumpFrame", 0)
    BY <1>1, BrowserIntents DEF Browser!Enqueue, Enqueue
  <2> QED
    BY <2>1 DEF LoopNext, Askable, Priorities
<1>2. ASSUME Browser!LoadRom PROVE LoopNext
  <2>1. LoadAndPump
    BY <1>2, BrowserIntents DEF Browser!LoadRom, LoadAndPump, Browser!Pump, Pump
  <2> QED
    BY <2>1 DEF LoopNext
<1>3. ASSUME Browser!TickCall PROVE LoopNext
  BY <1>1, <1>3 DEF Browser!TickCall
<1>4. ASSUME Browser!Begin PROVE LoopNext
  BY <1>4 DEF Browser!Begin, Browser!StartFrame, StartFrame, LoopNext
<1>5. ASSUME Browser!Reduce PROVE LoopNext
  <2> DEFINE sent == Browser!Sent(Browser!CommandOf(Browser!NextIntent))
  <2>1. Browser!TakeIntent(sent)
    BY <1>5 DEF Browser!Reduce
  <2>2. sent \in {"Accepted", "Coalesced", "WouldBlock"}
    BY DEF Browser!Sent
  <2>3. Lawful(sent, NextIntent)
    BY <2>2 DEF Lawful
  <2>4. TakeIntent(sent)
    BY <2>1, BrowserTakes
  <2> QED
    BY <2>3, <2>4 DEF LoopNext
<1>6. ASSUME Browser!Collect PROVE LoopNext
  <2>1. PICK drained : Browser!Gather(drained)
    BY <1>6 DEF Browser!Collect
  <2>2. Gather(drained)
    BY <2>1, BrowserIntents DEF Browser!Gather, Gather
  <2> QED
    BY <2>2 DEF LoopNext
<1>7. ASSUME Browser!React PROVE LoopNext
  <2>1. TakeReport
    BY <1>7 DEF Browser!React, Browser!TakeReport, TakeReport, Browser!ReducedReport,
                ReducedReport, Browser!Deferred, Deferred, Browser!Pump, Pump
  <2> QED
    BY <2>1 DEF LoopNext
<1>8. ASSUME Browser!Finish PROVE LoopNext
  BY <1>8 DEF Browser!Finish, Browser!EndFrame, EndFrame, LoopNext
<1>9. ASSUME Browser!Leave PROVE LoopNext \/ UNCHANGED loopVars
  BY <1>1, <1>9 DEF Browser!Leave, Browser!loopVars, loopVars
<1>10. ASSUME \/ Browser!Execute \/ Browser!TakeReports \/ Browser!Publish
              \/ Browser!EndWorkerRun \/ Browser!Fetch \/ UNCHANGED Browser!vars
       PROVE  UNCHANGED loopVars
  BY <1>10 DEF Browser!Execute, Browser!TakeReports, Browser!Publish, Browser!EndWorkerRun,
               Browser!Fetch, Browser!vars, Browser!fabricVars,
               Browser!loopVars, loopVars
<1> QED
  BY <1>2, <1>3, <1>4, <1>5, <1>6, <1>7, <1>8, <1>9, <1>10 DEF Browser!Next, Browser!Run

(* The scheduler of the browser application, with the services behind the  *)
(* fabric: loads are neither lost nor doubled, for every size of the rings.*)
THEOREM BrowserKeepsOrder ==
    ASSUME "LoadRom" \in Numbered
    PROVE  Browser!Spec => []LosslessInOrder /\ []FrontConserved
<1>1. [Browser!Next]_(Browser!vars) => [LoopNext]_loopVars
  BY BrowserNext
<1>2. Browser!Spec => LoopSpec
  BY <1>1, BrowserInit, PTL DEF Browser!Spec, LoopSpec
<1> QED
  BY <1>2, LoopKeepsOrder
=============================================================================
