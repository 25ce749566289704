----------------------------- MODULE PortsProofs -----------------------------
(***************************************************************************)
(* Mailbox: for every number of messages and every width of the sequence   *)
(* numbers, a mailbox whose two ends share one mutex is a register of the  *)
(* latest message.                                                         *)
(* Endpoint: whatever the sizes of rings, queues and budgets, commands and *)
(* reports pass the ports intact and the outcomes tell what happens.       *)
(* FramePipeline: whatever the sizes, every frame reaches the consumer,    *)
(* in order, and all slots come back.                                      *)
(***************************************************************************)
EXTENDS Mailbox, Endpoint, FramePipeline, SequenceTheorems, TLAPS

(***************************************************************************)
(* The sequence numbers.                                                   *)
(***************************************************************************)

\* The wrapping difference of two sequence numbers, without the modulus.
LEMMA BehindCase ==
    ASSUME NEW w \in Seqs, NEW r \in Seqs
    PROVE  /\ Behind(w, r) = IF w >= r THEN w - r ELSE w - r + SeqSpan
           /\ Behind(w, r) \in Seqs
PROOF
  <1>1. /\ SeqSpan \in Nat /\ SeqSpan > 2
        /\ w \in Int /\ 0 <= w /\ w < SeqSpan /\ r \in Int /\ 0 <= r /\ r < SeqSpan
    BY MailboxAssumption DEF Seqs
  <1>2. CASE w >= r
    BY <1>1, <1>2 DEF Behind, Seqs
  <1>3. CASE w < r
    <2> DEFINE d == (w - r) \div SeqSpan
               m == (w - r) % SeqSpan
    <2>1. d \in Int /\ m \in Int /\ 0 <= m /\ m < SeqSpan /\ w - r = SeqSpan * d + m
      BY <1>1
    <2> HIDE DEF d, m
    <2>2. d = -1
      <3>1. CASE d >= 0
        <4>1. SeqSpan * d >= 0
          BY <1>1, <2>1, <3>1
        <4>2. QED
          BY <4>1, <1>1, <1>3, <2>1
      <3>2. CASE d <= -2
        <4>1. SeqSpan * d <= SeqSpan * (-2)
          BY <1>1, <2>1, <3>2
        <4>2. QED
          BY <4>1, <1>1, <2>1
      <3>3. QED
        BY <2>1, <3>1, <3>2
    <2>3. m = w - r + SeqSpan
      BY <1>1, <2>1, <2>2
    <2>4. Behind(w, r) = m
      BY DEF Behind, m
    <2>5. QED
      BY <1>1, <1>3, <2>3, <2>4 DEF Seqs
  <1>4. QED
    BY <1>1, <1>2, <1>3

\* A send puts the consumer one message further behind, until it is lapped.
LEMMA BehindNext ==
    ASSUME NEW w \in Seqs, NEW r \in Seqs, Behind(w, r) < SeqSpan - 1
    PROVE  /\ (w + 1) % SeqSpan \in Seqs
           /\ Behind((w + 1) % SeqSpan, r) = Behind(w, r) + 1
PROOF
  <1> DEFINE v == (w + 1) % SeqSpan
  <1>1. /\ SeqSpan \in Nat /\ SeqSpan > 2
        /\ w \in Int /\ 0 <= w /\ w < SeqSpan /\ r \in Int /\ 0 <= r /\ r < SeqSpan
    BY MailboxAssumption DEF Seqs
  <1>2. v = IF w + 1 = SeqSpan THEN 0 ELSE w + 1
    <2>1. CASE w + 1 = SeqSpan
      BY <1>1, <2>1
    <2>2. CASE w + 1 < SeqSpan
      BY <1>1, <2>2
    <2>3. QED
      BY <1>1, <2>1, <2>2
  <1> HIDE DEF v
  <1>3. v \in Seqs
    BY <1>1, <1>2 DEF Seqs
  <1>4. Behind(v, r) = IF v >= r THEN v - r ELSE v - r + SeqSpan
    BY <1>3, BehindCase
  <1>5. Behind(w, r) = IF w >= r THEN w - r ELSE w - r + SeqSpan
    BY BehindCase
  <1>6. Behind(v, r) = Behind(w, r) + 1
    BY <1>1, <1>2, <1>4, <1>5
  <1>7. QED
    BY <1>3, <1>6 DEF v

\* Nothing is unread when the sequence numbers agree, and only then.
LEMMA BehindZero ==
    ASSUME NEW w \in Seqs, NEW r \in Seqs
    PROVE  Behind(w, r) = 0 <=> w = r
PROOF
  <1>1. /\ SeqSpan \in Nat
        /\ w \in Int /\ 0 <= w /\ w < SeqSpan /\ r \in Int /\ 0 <= r /\ r < SeqSpan
    BY MailboxAssumption DEF Seqs
  <1>2. QED
    BY <1>1, BehindCase

-----------------------------------------------------------------------------
(***************************************************************************)
(* The inductive invariant.  Inside the mutex the payload, the length, the  *)
(* envelope and the sequence numbers change one at a time, so what holds    *)
(* between them depends on how far the send or the take has come.           *)
(***************************************************************************)

\* The mutex is held by the side that is inside its critical section.
Excluded ==
    /\ lock = "producer" <=> spc # "idle"
    /\ lock = "consumer" <=> rpc # "idle"

Carries(m)  == \A k \in 1 .. Length(m) : words[k] = m

\* What the shared memory holds of the message being sent.
SendSound ==
    /\ spc = "word2" => words[1] = sending /\ Length(sending) = 2
    /\ spc \in {"len", "envelope", "seq", "outcome"} => Carries(sending)
    /\ spc \in {"envelope", "seq", "outcome"} => len = Length(sending)
    /\ spc \in {"seq", "outcome"} => envelope = sending

\* Between sends it holds the latest message.
Stored ==
    spc = "idle" /\ latest # Empty =>
        Carries(latest) /\ len = Length(latest) /\ envelope = latest

\* How far read_seq is behind write_seq tells whether a message is unread: one
\* more while a send has stored the one and not yet loaded the other, and
\* nothing from the acknowledgement on.
Counted ==
    /\ spc \in {"word2", "len", "envelope", "seq"} => Behind(writeSeq, readSeq) < SeqSpan - 1
    /\ spc = "outcome" =>
           /\ Behind(writeSeq, readSeq) >= 1
           /\ Behind(writeSeq, readSeq) = 1 <=> latest = Empty
    /\ spc # "outcome" /\ rpc # "words" =>
           (Behind(writeSeq, readSeq) = 0 <=> latest = Empty)
    /\ rpc = "words" => Behind(writeSeq, readSeq) = 0

\* What the consumer has read so far is of the latest message.
TakeSound ==
    /\ rpc \in {"len", "envelope", "ack", "words"} => latest # Empty
    /\ rpc = "nothing" => latest = Empty
    /\ rpc \in {"len", "envelope", "ack"} => seen = writeSeq /\ reading.words = <<>>
    /\ rpc \in {"envelope", "ack", "words"} => reading.len = Length(latest)
    /\ rpc \in {"ack", "words"} => reading.tag = latest
    /\ rpc = "words" =>
           /\ Len(reading.words) <= reading.len
           /\ \A k \in 1 .. Len(reading.words) : reading.words[k] = latest

Shape ==
    /\ words \in [1 .. 2 -> Messages]
    /\ len \in 0 .. 2 /\ envelope \in Messages
    /\ writeSeq \in Seqs /\ readSeq \in Seqs
    /\ lock \in {"free", "producer", "consumer"}
    /\ spc \in {"idle", "word2", "len", "envelope", "seq", "outcome"}
    /\ sending \in Messages
    /\ outcome \in {"none", "accepted", "coalesced"}
    /\ rpc \in {"idle", "len", "envelope", "ack", "words", "nothing"}
    /\ seen \in Seqs
    /\ reading \in [len : 0 .. 2, tag : Messages, words : Seq(Messages)]
    /\ latest \in Messages \union {Empty}

IInv == Shape /\ Excluded /\ SendSound /\ Stored /\ Counted /\ TakeSound

\* Messages are one payload word long, or two.
LEMMA LengthCases ==
    ASSUME NEW m \in Messages
    PROVE  Length(m) \in 1 .. 2
PROOF
  BY MailboxAssumption DEF Messages, Length

\* A message is not Empty.
LEMMA MessageNotEmpty == Empty \notin Messages
PROOF
  BY MailboxAssumption DEF Messages

-----------------------------------------------------------------------------
(***************************************************************************)
(* The invariant is preserved, action by action.                           *)
(***************************************************************************)

\* A fresh mailbox has nothing unread.
LEMMA InitIInv == MailboxInit => IInv
PROOF
  <1> SUFFICES ASSUME MailboxInit PROVE IInv
    OBVIOUS
  <1>1. 0 \in Messages /\ 0 \in Seqs
    BY MailboxAssumption DEF Messages, Seqs
  <1>2. Behind(0, 0) = 0
    BY <1>1, BehindZero
  <1>3. Shape
    <2>1. <<>> \in Seq(Messages)
      BY EmptySeq
    <2>2. QED
      BY <1>1, <2>1 DEF MailboxInit, Shape, NoReading
  <1>4. Excluded /\ SendSound /\ Stored /\ TakeSound
    BY DEF MailboxInit, Excluded, SendSound, Stored, TakeSound
  <1>5. Counted
    BY <1>2 DEF MailboxInit, Counted
  <1>6. QED
    BY <1>3, <1>4, <1>5 DEF IInv

\* A send enters with the mutex free and writes the first word.
LEMMA SendBeginIInv ==
    ASSUME OneMutex, IInv, NEW m \in Messages, SendBegin(m)
    PROVE  IInv'
PROOF
  <1>1. /\ lock = "free" /\ lock' = "producer" /\ rpc = "idle" /\ spc = "idle"
        /\ spc' = IF Length(m) = 2 THEN "word2" ELSE "len"
        /\ spc' # "idle" /\ spc' \in {"word2", "len"} /\ rpc' = "idle"
    BY DEF IInv, Excluded, SendBegin, Acquire, receiverVars
  <1>2. /\ words' \in [1 .. 2 -> Messages] /\ words'[1] = m /\ sending' = m
    BY DEF IInv, Shape, SendBegin
  <1>3. UNCHANGED <<len, envelope, writeSeq, readSeq, outcome, latest, rpc, seen, reading>>
    BY DEF SendBegin, receiverVars
  <1>4. Shape'
    BY <1>1, <1>2, <1>3 DEF IInv, Shape
  <1>5. Excluded' /\ Stored' /\ TakeSound'
    BY <1>1 DEF Excluded, Stored, TakeSound
  <1>6. SendSound'
    <2>1. CASE Length(m) = 2
      BY <1>1, <1>2, <2>1 DEF SendSound
    <2>2. CASE Length(m) = 1
      <3>1. Carries(m)'
        BY <1>2, <2>2 DEF Carries, Length
      <3>2. QED
        BY <1>1, <1>2, <2>2, <3>1 DEF SendSound, Carries
    <2>3. QED
      BY <2>1, <2>2, LengthCases
  <1>7. Counted'
    BY <1>1, <1>3 DEF IInv, Counted, SendBegin, UnreadBelowSpan, Behind
  <1>8. QED
    BY <1>4, <1>5, <1>6, <1>7 DEF IInv

\* The second word of a message of two.
LEMMA SendWord2IInv ==
    ASSUME IInv, SendWord2
    PROVE  IInv'
PROOF
  <1>1. /\ spc = "word2" /\ spc' = "len" /\ lock = "producer" /\ rpc = "idle" /\ rpc' = rpc
    BY DEF IInv, Excluded, SendWord2, receiverVars
  <1>2. UNCHANGED <<len, envelope, writeSeq, readSeq, lock, sending, outcome, latest, seen, reading>>
    BY DEF SendWord2, receiverVars
  <1>3. /\ words' \in [1 .. 2 -> Messages] /\ words'[1] = words[1] /\ words'[2] = sending
    BY DEF IInv, Shape, SendWord2
  <1>4. Shape'
    BY <1>1, <1>2, <1>3 DEF IInv, Shape
  <1>5. Carries(sending)'
    BY <1>1, <1>2, <1>3 DEF IInv, SendSound, Carries, Length
  <1>6. Excluded' /\ Stored' /\ TakeSound' /\ SendSound'
    BY <1>1, <1>2, <1>5 DEF IInv, Excluded, Stored, TakeSound, SendSound
  <1>7. Counted'
    BY <1>1, <1>2 DEF IInv, Counted, Behind
  <1>8. QED
    BY <1>4, <1>6, <1>7 DEF IInv

\* The length, behind the words.
LEMMA SendLenIInv ==
    ASSUME IInv, SendLen
    PROVE  IInv'
PROOF
  <1>1. /\ spc = "len" /\ spc' = "envelope" /\ lock = "producer" /\ rpc = "idle" /\ rpc' = rpc
    BY DEF IInv, Excluded, SendLen, receiverVars
  <1>2. /\ UNCHANGED <<words, envelope, writeSeq, readSeq, lock, sending, outcome, latest, seen, reading>>
        /\ len' = Length(sending)
    BY DEF SendLen, receiverVars
  <1>3. Shape'
    BY <1>1, <1>2, LengthCases DEF IInv, Shape
  <1>4. Excluded' /\ Stored' /\ TakeSound' /\ SendSound'
    BY <1>1, <1>2 DEF IInv, Excluded, Stored, TakeSound, SendSound, Carries, Length
  <1>5. Counted'
    BY <1>1, <1>2 DEF IInv, Counted, Behind
  <1>6. QED
    BY <1>3, <1>4, <1>5 DEF IInv

\* The envelope, behind the length.
LEMMA SendEnvelopeIInv ==
    ASSUME IInv, SendEnvelope
    PROVE  IInv'
PROOF
  <1>1. /\ spc = "envelope" /\ spc' = "seq" /\ lock = "producer" /\ rpc = "idle" /\ rpc' = rpc
    BY DEF IInv, Excluded, SendEnvelope, receiverVars
  <1>2. /\ UNCHANGED <<words, len, writeSeq, readSeq, lock, sending, outcome, latest, seen, reading>>
        /\ envelope' = sending
    BY DEF SendEnvelope, receiverVars
  <1>3. Shape'
    BY <1>1, <1>2 DEF IInv, Shape
  <1>4. Excluded' /\ Stored' /\ TakeSound' /\ SendSound'
    BY <1>1, <1>2 DEF IInv, Excluded, Stored, TakeSound, SendSound, Carries, Length
  <1>5. Counted'
    BY <1>1, <1>2 DEF IInv, Counted, Behind
  <1>6. QED
    BY <1>3, <1>4, <1>5 DEF IInv

\* The sequence number, behind everything else: the consumer is one message
\* further behind than the latest one tells.
LEMMA SendSeqIInv ==
    ASSUME IInv, SendSeq
    PROVE  IInv'
PROOF
  <1>1. /\ spc = "seq" /\ spc' = "outcome" /\ lock = "producer" /\ rpc = "idle" /\ rpc' = rpc
    BY DEF IInv, Excluded, SendSeq, receiverVars
  <1>2. /\ UNCHANGED <<words, len, envelope, readSeq, lock, sending, outcome, latest, seen, reading>>
        /\ writeSeq' = (writeSeq + 1) % SeqSpan
    BY DEF SendSeq, receiverVars
  <1>3. writeSeq \in Seqs /\ readSeq \in Seqs
    BY DEF IInv, Shape
  <1>4. Behind(writeSeq, readSeq) < SeqSpan - 1
        /\ (Behind(writeSeq, readSeq) = 0 <=> latest = Empty)
    BY <1>1 DEF IInv, Counted
  <1>5. writeSeq' \in Seqs /\ Behind(writeSeq', readSeq) = Behind(writeSeq, readSeq) + 1
    BY <1>2, <1>3, <1>4, BehindNext
  <1>6. Behind(writeSeq, readSeq) \in Nat
    BY <1>3, BehindCase, MailboxAssumption DEF Seqs
  <1>7. Shape'
    BY <1>1, <1>2, <1>5 DEF IInv, Shape
  <1>8. Excluded' /\ Stored' /\ TakeSound' /\ SendSound'
    BY <1>1, <1>2 DEF IInv, Excluded, Stored, TakeSound, SendSound, Carries, Length
  <1>9. Behind(writeSeq, readSeq)' = Behind(writeSeq, readSeq) + 1
    BY <1>2, <1>5 DEF Behind
  <1>10. Counted'
    <2>1. Behind(writeSeq, readSeq)' >= 1
      BY <1>6, <1>9
    <2>2. Behind(writeSeq, readSeq)' = 1 <=> latest' = Empty
      BY <1>2, <1>4, <1>6, <1>9
    <2>3. QED
      BY <1>1, <2>1, <2>2 DEF Counted
  <1>11. QED
    BY <1>7, <1>8, <1>10 DEF IInv

\* The answer to the sender; its message is now the latest.
LEMMA SendOutcomeIInv ==
    ASSUME IInv, SendOutcome
    PROVE  IInv'
PROOF
  <1>1. /\ spc = "outcome" /\ spc' = "idle" /\ lock = "producer" /\ lock' = "free"
        /\ rpc = "idle" /\ rpc' = rpc
    BY DEF IInv, Excluded, SendOutcome, Release, receiverVars
  <1>2. /\ UNCHANGED <<words, len, envelope, writeSeq, readSeq, sending, seen, reading>>
        /\ latest' = sending
    BY DEF SendOutcome, shared, receiverVars
  <1>3. sending \in Messages /\ sending # Empty
    BY MessageNotEmpty DEF IInv, Shape
  <1>4. Shape'
    BY <1>1, <1>2, <1>3 DEF IInv, Shape, SendOutcome
  <1>5. Excluded' /\ TakeSound' /\ SendSound'
    BY <1>1 DEF IInv, Excluded, TakeSound, SendSound
  <1>6. Stored'
    BY <1>1, <1>2 DEF IInv, SendSound, Stored, Carries
  <1>7. Behind(writeSeq, readSeq) >= 1 /\ Behind(writeSeq, readSeq) \in Nat
    BY <1>1, BehindCase, MailboxAssumption DEF IInv, Counted, Shape, Seqs
  <1>8. Counted'
    <2>1. Behind(writeSeq, readSeq)' # 0
      BY <1>2, <1>7 DEF Behind
    <2>2. QED
      BY <1>1, <1>2, <1>3, <2>1 DEF Counted
  <1>9. QED
    BY <1>4, <1>5, <1>6, <1>8 DEF IInv

\* A take enters with the mutex free; the sequence numbers tell it whether
\* there is a latest message.
LEMMA TakeBeginIInv ==
    ASSUME OneMutex, IInv, TakeBegin
    PROVE  IInv'
PROOF
  <1>1. /\ lock = "free" /\ lock' = "consumer" /\ spc = "idle" /\ rpc = "idle" /\ spc' = spc
        /\ rpc' = IF writeSeq # readSeq THEN "len" ELSE "nothing"
    BY DEF IInv, Excluded, TakeBegin, Acquire, HasUnread, senderVars
  <1>2. /\ UNCHANGED <<words, len, envelope, writeSeq, readSeq, sending, outcome, latest>>
        /\ seen' = writeSeq /\ reading' = NoReading
    BY DEF TakeBegin, shared, senderVars
  <1>3. reading' \in [len : 0 .. 2, tag : Messages, words : Seq(Messages)] /\ reading'.words = <<>>
    <2>1. 0 \in Messages /\ <<>> \in Seq(Messages)
      BY EmptySeq, MailboxAssumption DEF Messages
    <2>2. QED
      BY <1>2, <2>1 DEF NoReading
  <1>4. Shape'
    BY <1>1, <1>2, <1>3 DEF IInv, Shape
  <1>5. Excluded' /\ SendSound' /\ Stored'
    BY <1>1, <1>2 DEF IInv, Excluded, SendSound, Stored, Carries, Length
  <1>6. writeSeq = readSeq <=> latest = Empty
    BY <1>1, BehindZero DEF IInv, Counted, Shape
  <1>7. Counted'
    BY <1>1, <1>2 DEF IInv, Counted, Behind
  <1>8. TakeSound'
    BY <1>1, <1>2, <1>3, <1>6 DEF TakeSound
  <1>9. QED
    BY <1>4, <1>5, <1>7, <1>8 DEF IInv

\* The length of the stored message.
LEMMA TakeLenIInv ==
    ASSUME IInv, TakeLen
    PROVE  IInv'
PROOF
  <1>1. /\ rpc = "len" /\ rpc' = "envelope" /\ lock = "consumer" /\ spc = "idle" /\ spc' = spc
    BY DEF IInv, Excluded, TakeLen, senderVars
  <1>2. UNCHANGED <<words, len, envelope, writeSeq, readSeq, lock, sending, outcome, seen, latest>>
    BY DEF TakeLen, shared, senderVars
  <1>3. /\ reading' \in [len : 0 .. 2, tag : Messages, words : Seq(Messages)]
        /\ reading'.len = len /\ reading'.words = reading.words
    BY DEF IInv, Shape, TakeLen
  <1>4. Shape'
    BY <1>1, <1>2, <1>3 DEF IInv, Shape
  <1>5. Excluded' /\ SendSound' /\ Stored'
    BY <1>1, <1>2 DEF IInv, Excluded, SendSound, Stored, Carries, Length
  <1>6. Counted'
    BY <1>1, <1>2 DEF IInv, Counted, Behind
  <1>7. TakeSound'
    BY <1>1, <1>2, <1>3 DEF IInv, TakeSound, Stored, Length
  <1>8. QED
    BY <1>4, <1>5, <1>6, <1>7 DEF IInv

\* Its envelope.
LEMMA TakeEnvelopeIInv ==
    ASSUME IInv, TakeEnvelope
    PROVE  IInv'
PROOF
  <1>1. /\ rpc = "envelope" /\ rpc' = "ack" /\ lock = "consumer" /\ spc = "idle" /\ spc' = spc
    BY DEF IInv, Excluded, TakeEnvelope, senderVars
  <1>2. UNCHANGED <<words, len, envelope, writeSeq, readSeq, lock, sending, outcome, seen, latest>>
    BY DEF TakeEnvelope, shared, senderVars
  <1>3. /\ reading' \in [len : 0 .. 2, tag : Messages, words : Seq(Messages)]
        /\ reading'.tag = envelope /\ reading'.len = reading.len /\ reading'.words = reading.words
    BY DEF IInv, Shape, TakeEnvelope
  <1>4. Shape'
    BY <1>1, <1>2, <1>3 DEF IInv, Shape
  <1>5. Excluded' /\ SendSound' /\ Stored'
    BY <1>1, <1>2 DEF IInv, Excluded, SendSound, Stored, Carries, Length
  <1>6. Counted'
    BY <1>1, <1>2 DEF IInv, Counted, Behind
  <1>7. TakeSound'
    BY <1>1, <1>2, <1>3 DEF IInv, TakeSound, Stored, Length
  <1>8. QED
    BY <1>4, <1>5, <1>6, <1>7 DEF IInv

\* The acknowledgement: nothing was sent since the sequence number was seen.
LEMMA TakeAckIInv ==
    ASSUME IInv, TakeAck
    PROVE  IInv'
PROOF
  <1>1. /\ rpc = "ack" /\ rpc' = "words" /\ lock = "consumer" /\ spc = "idle" /\ spc' = spc
    BY DEF IInv, Excluded, TakeAck, senderVars
  <1>2. /\ UNCHANGED <<words, len, envelope, writeSeq, lock, sending, outcome, seen, reading, latest>>
        /\ readSeq' = seen
    BY DEF TakeAck, Acknowledged, senderVars
  <1>3. seen = writeSeq /\ reading.words = <<>> /\ reading.len = Length(latest)
        /\ reading.tag = latest /\ latest # Empty /\ latest \in Messages
    BY <1>1 DEF IInv, TakeSound, Shape
  <1>4. Shape'
    BY <1>1, <1>2 DEF IInv, Shape
  <1>5. Excluded' /\ SendSound' /\ Stored'
    BY <1>1, <1>2 DEF IInv, Excluded, SendSound, Stored, Carries, Length
  <1>6. Behind(writeSeq, readSeq)' = 0
    <2>1. writeSeq' = readSeq' /\ writeSeq' \in Seqs
      BY <1>2, <1>3 DEF IInv, Shape
    <2>2. Behind(writeSeq', readSeq') = 0
      BY <2>1, BehindZero
    <2>3. QED
      BY <2>2 DEF Behind
  <1>7. Counted'
    BY <1>1, <1>6 DEF Counted
  <1>8. TakeSound'
    <2>1. Len(<<>>) = 0
      BY EmptySeq
    <2>2. Length(latest) \in 1 .. 2
      BY <1>3, LengthCases
    <2>3. QED
      BY <1>1, <1>2, <1>3, <2>1, <2>2 DEF TakeSound, Length
  <1>9. QED
    BY <1>4, <1>5, <1>7, <1>8 DEF IInv

\* The payload is read in place, before the mutex is released.
LEMMA TakeWordIInv ==
    ASSUME IInv, TakeWord
    PROVE  IInv'
PROOF
  <1> DEFINE s == reading.words
             x == words[Len(s) + 1]
  <1>1. /\ rpc = "words" /\ rpc' = rpc /\ lock = "consumer" /\ spc = "idle" /\ spc' = spc
    BY DEF IInv, Excluded, TakeWord, senderVars
  <1>2. UNCHANGED <<words, len, envelope, writeSeq, readSeq, lock, sending, outcome, seen, latest>>
    BY DEF TakeWord, shared, senderVars
  <1>3. /\ s \in Seq(Messages) /\ Len(s) \in Nat /\ reading.len = Length(latest)
        /\ reading.tag = latest /\ latest # Empty /\ latest \in Messages
        /\ Len(s) < reading.len /\ \A k \in 1 .. Len(s) : s[k] = latest
    BY <1>1, LenProperties DEF IInv, TakeSound, Shape, TakeWord
  <1>4. x = latest
    <2>1. Length(latest) \in Int /\ Len(s) + 1 \in 1 .. Length(latest)
      BY <1>3, LengthCases
    <2>2. QED
      BY <1>1, <1>3, <2>1 DEF IInv, Stored, Carries
  <1>5. /\ Append(s, x) \in Seq(Messages) /\ Len(Append(s, x)) = Len(s) + 1
        /\ \A k \in 1 .. Len(s) : Append(s, x)[k] = s[k]
        /\ Append(s, x)[Len(s) + 1] = x
    BY <1>3, <1>4, AppendProperties
  <1>6. reading' = [reading EXCEPT !.words = Append(s, x)]
    BY DEF TakeWord, PayloadWord
  <1>7. /\ reading' \in [len : 0 .. 2, tag : Messages, words : Seq(Messages)]
        /\ reading'.words = Append(s, x) /\ reading'.len = reading.len /\ reading'.tag = reading.tag
    BY <1>5, <1>6 DEF IInv, Shape
  <1>8. Shape'
    BY <1>1, <1>2, <1>7 DEF IInv, Shape
  <1>9. Excluded' /\ SendSound' /\ Stored'
    BY <1>1, <1>2 DEF IInv, Excluded, SendSound, Stored, Carries, Length
  <1>10. Counted'
    BY <1>1, <1>2 DEF IInv, Counted, Behind
  <1>11. \A k \in 1 .. Len(s) + 1 : Append(s, x)[k] = latest
    <2> SUFFICES ASSUME NEW k \in 1 .. Len(s) + 1 PROVE Append(s, x)[k] = latest
      OBVIOUS
    <2>1. CASE k = Len(s) + 1
      BY <1>4, <1>5, <2>1
    <2>2. CASE k # Len(s) + 1
      <3>1. k \in 1 .. Len(s)
        BY <1>3, <2>2
      <3>2. QED
        BY <1>3, <1>5, <3>1
    <2>3. QED
      BY <2>1, <2>2
  <1>12. Len(s) + 1 <= reading.len
    <2>1. reading.len \in Int
      BY <1>3, LengthCases
    <2>2. QED
      BY <1>3, <2>1
  <1> HIDE DEF s, x
  <1>13. TakeSound'
    BY <1>1, <1>2, <1>3, <1>5, <1>7, <1>11, <1>12 DEF TakeSound, Length
  <1>14. QED
    BY <1>8, <1>9, <1>10, <1>13 DEF IInv

\* The message is taken: nothing is unread.
LEMMA TakeReturnIInv ==
    ASSUME IInv, TakeReturn
    PROVE  IInv'
PROOF
  <1>1. /\ rpc = "words" /\ rpc' = "idle" /\ lock' = "free" /\ spc = "idle" /\ spc' = spc
    BY DEF IInv, Excluded, TakeReturn, Release, senderVars
  <1>2. /\ UNCHANGED <<words, len, envelope, writeSeq, readSeq, sending, outcome, seen, reading>>
        /\ latest' = Empty
    BY DEF TakeReturn, shared, senderVars
  <1>3. Shape'
    BY <1>1, <1>2 DEF IInv, Shape
  <1>4. Excluded' /\ SendSound' /\ Stored' /\ TakeSound'
    BY <1>1, <1>2 DEF Excluded, SendSound, Stored, TakeSound
  <1>5. Counted'
    BY <1>1, <1>2 DEF IInv, Counted, Behind
  <1>6. QED
    BY <1>3, <1>4, <1>5 DEF IInv

\* An empty answer changes nothing.
LEMMA TakeNothingIInv ==
    ASSUME IInv, TakeNothing
    PROVE  IInv'
PROOF
  <1>1. /\ rpc = "nothing" /\ rpc' = "idle" /\ lock' = "free" /\ spc = "idle" /\ spc' = spc
    BY DEF IInv, Excluded, TakeNothing, Release, senderVars
  <1>2. UNCHANGED <<words, len, envelope, writeSeq, readSeq, sending, outcome, seen, reading, latest>>
    BY DEF TakeNothing, shared, senderVars
  <1>3. Shape'
    BY <1>1, <1>2 DEF IInv, Shape
  <1>4. Excluded' /\ SendSound' /\ Stored' /\ TakeSound'
    BY <1>1, <1>2 DEF IInv, Excluded, SendSound, Stored, TakeSound, Carries, Length
  <1>5. Counted'
    BY <1>1, <1>2 DEF IInv, Counted, Behind
  <1>6. QED
    BY <1>3, <1>4, <1>5 DEF IInv

\* Every step of either side preserves the invariant.
LEMMA NextIInv == OneMutex /\ IInv /\ [MailboxNext]_mailboxVars => IInv'
PROOF
  <1> SUFFICES ASSUME OneMutex, IInv, [MailboxNext]_mailboxVars PROVE IInv'
    OBVIOUS
  <1>1. CASE Sender
    BY <1>1, SendBeginIInv, SendWord2IInv, SendLenIInv, SendEnvelopeIInv, SendSeqIInv,
       SendOutcomeIInv DEF Sender
  <1>2. CASE Receiver
    BY <1>2, TakeBeginIInv, TakeLenIInv, TakeEnvelopeIInv, TakeAckIInv, TakeWordIInv,
       TakeReturnIInv, TakeNothingIInv DEF Receiver
  <1>3. CASE UNCHANGED mailboxVars
    <2>1. Shape'
      BY <1>3 DEF mailboxVars, IInv, Shape
    <2>2. Excluded' /\ SendSound' /\ Stored' /\ TakeSound'
      BY <1>3 DEF mailboxVars, IInv, Excluded, SendSound, Stored, TakeSound, Carries, Length
    <2>3. Counted'
      BY <1>3 DEF mailboxVars, IInv, Counted, Behind
    <2>4. QED
      BY <2>1, <2>2, <2>3 DEF IInv
  <1>4. QED
    BY <1>1, <1>2, <1>3 DEF MailboxNext

-----------------------------------------------------------------------------
(***************************************************************************)
(* The theorems.                                                           *)
(***************************************************************************)

\* The invariant holds of every mailbox whose two ends share a SharedPort.
THEOREM MailboxInvariant == ASSUME OneMutex PROVE MailboxSpec => []IInv
PROOF
  <1>1. MailboxInit => IInv
    BY InitIInv
  <1>2. IInv /\ [MailboxNext]_mailboxVars => IInv'
    BY NextIInv
  <1>3. QED
    BY <1>1, <1>2, PTL DEF MailboxSpec

\* The answer to a send says whether it displaced an unread message.
LEMMA SendOutcomeMaps ==
    ASSUME IInv, SendOutcome
    PROVE  Register!Send(sending)
PROOF
  <1>1. spc = "outcome"
    BY DEF SendOutcome
  <1>2. /\ Behind(writeSeq, readSeq) >= 1 /\ Behind(writeSeq, readSeq) \in Nat
        /\ (Behind(writeSeq, readSeq) = 1 <=> latest = Empty)
    BY <1>1, BehindCase, MailboxAssumption DEF IInv, Counted, Shape, Seqs
  <1>3. Overwrites(writeSeq, readSeq) <=> latest # Empty
    BY <1>2 DEF Overwrites
  <1>4. QED
    BY <1>3 DEF SendOutcome, receiverVars, Register!Send

\* What a take returns is the latest message, whole.
LEMMA TakeReturnMaps ==
    ASSUME IInv, TakeReturn
    PROVE  Register!Take(Length(latest)) /\ Length(latest) \in 1 .. 2
PROOF
  <1> DEFINE s == reading.words
             n == Length(latest)
  <1>1. rpc = "words" /\ rpc # "idle"
    BY DEF TakeReturn
  <1>2. /\ s \in Seq(Messages) /\ reading.len = n /\ reading.tag = latest
        /\ latest # Empty /\ latest \in Messages
        /\ \A k \in 1 .. Len(s) : s[k] = latest
    BY <1>1 DEF IInv, TakeSound, Shape
  <1>3. Len(s) = n
    BY <1>2 DEF TakeReturn
  <1>4. s \in [1 .. n -> Messages]
    BY <1>2, <1>3, LenProperties
  <1>5. s = [k \in 1 .. n |-> latest]
    BY <1>2, <1>3, <1>4
  <1>6. got' = [tag |-> reading.tag, words |-> s] /\ latest' = Empty /\ outcome' = outcome
    BY DEF TakeReturn, senderVars
  <1>7. n \in 1 .. 2
    BY <1>2, LengthCases
  <1> HIDE DEF s
  <1>8. QED
    BY <1>2, <1>5, <1>6, <1>7 DEF Register!Take, Register!Message

\* A mailbox behind one mutex is a register of the latest message: send and take
\* are atomic, whatever the order of their accesses to the shared memory, a take
\* returns one whole message, and a send learns whether it displaced one.
THEOREM MailboxIsRegister == ASSUME OneMutex PROVE MailboxSpec => ImplementsLatest
PROOF
  <1>1. MailboxInit => Register!Init
    BY DEF MailboxInit, Register!Init
  <1>2. IInv /\ [MailboxNext]_mailboxVars => [Register!Next]_(Register!lvars)
    <2> SUFFICES ASSUME IInv, [MailboxNext]_mailboxVars
                 PROVE  Register!Next \/ UNCHANGED Register!lvars
      OBVIOUS
    <2>1. CASE SendOutcome
      <3>1. Register!Send(sending) /\ sending \in 0 .. MessageSpan - 1
        BY <2>1, SendOutcomeMaps DEF IInv, Shape, Messages
      <3>2. QED
        BY <3>1 DEF Register!Next
    <2>2. CASE TakeReturn
      BY <2>2, TakeReturnMaps DEF Register!Next
    <2>3. CASE TakeNothing
      BY <2>3 DEF IInv, TakeSound, TakeNothing, senderVars, Register!Next, Register!FindNothing
    <2>4. CASE \/ \E m \in Messages : SendBegin(m)
               \/ SendWord2 \/ SendLen \/ SendEnvelope \/ SendSeq
      BY <2>4 DEF SendBegin, SendWord2, SendLen, SendEnvelope, SendSeq, receiverVars, Register!lvars
    <2>5. CASE TakeBegin \/ TakeLen \/ TakeEnvelope \/ TakeAck \/ TakeWord
      BY <2>5 DEF TakeBegin, TakeLen, TakeEnvelope, TakeAck, TakeWord, senderVars, Register!lvars
    <2>6. CASE UNCHANGED mailboxVars
      BY <2>6 DEF mailboxVars, Register!lvars
    <2>7. QED
      BY <2>1, <2>2, <2>3, <2>4, <2>5, <2>6 DEF MailboxNext, Sender, Receiver
  <1>3. QED
    BY <1>1, <1>2, MailboxInvariant, PTL DEF MailboxSpec, ImplementsLatest, Register!Spec

-----------------------------------------------------------------------------
(***************************************************************************)
(* The codecs: what comes out of a port is what went in, but for the group *)
(* of ticks and loads, the pictures and the samples.                       *)
(***************************************************************************)

\* The commands a worker gets to see.
Received(s) == {DecodeCmd(s, EncodeCmd(s, c)) : c \in Commands(s)}

\* A kernel command comes back with every field; ticks and loads, for group 0.
LEMMA KernelCmdBack ==
    ASSUME NEW c \in Commands("kernel")
    PROVE  /\ c.kind \in {"Tick", "LoadRom"} =>
                DecodeCmd("kernel", EncodeCmd("kernel", c)) = [c EXCEPT !.group = 0]
           /\ c.kind \notin {"Tick", "LoadRom"} =>
                DecodeCmd("kernel", EncodeCmd("kernel", c)) = c
PROOF
  <1> DEFINE e == EncodedKernelCmd(c)
             b == DecodedKernelCmd(e)
             Ticks == [kind : {"Tick"}, group : GroupsSent,
                       purpose : {"Display", "Exploration"}, budget : {2}]
             Loads == [kind : {"LoadRom"}, group : GroupsSent, bytes : {"rom"}]
             Others == {[kind |-> "SetInputs", group |-> 1, lanes |-> 3, joypad |-> 5],
                        [kind |-> "Terminate", group |-> 1],
                        [kind |-> "Snapshot", group |-> 1],
                        [kind |-> "MemWindow", group |-> 1, space |-> "Oam", base |-> 2, len |-> 3],
                        [kind |-> "StepInstruction", group |-> 1, count |-> 2],
                        [kind |-> "StepFrame", group |-> 1]}
  <1>1. DecodeCmd("kernel", EncodeCmd("kernel", c)) = b
    BY DEF DecodeCmd, EncodeCmd
  <1>2. c \in Ticks \/ c \in Loads \/ c \in Others
    BY DEF Commands
  <1>3. ASSUME c \in Ticks PROVE c.kind = "Tick" /\ b = [c EXCEPT !.group = 0]
    <2>1. c.kind = "Tick"
      BY <1>3
    <2>2. e = [kind |-> c.kind, purpose |-> c.purpose, budget |-> c.budget]
      BY <2>1 DEF EncodedKernelCmd, Keep, KernelCmdFields
    <2>3. QED
      BY <1>3, <2>1, <2>2 DEF DecodedKernelCmd, Filled
  <1>4. ASSUME c \in Loads PROVE c.kind = "LoadRom" /\ b = [c EXCEPT !.group = 0]
    <2>1. c.kind = "LoadRom"
      BY <1>4
    <2>2. e = [kind |-> c.kind, bytes |-> c.bytes]
      BY <2>1 DEF EncodedKernelCmd, Keep, KernelCmdFields
    <2>3. QED
      BY <1>4, <2>1, <2>2 DEF DecodedKernelCmd, Filled
  <1>5. ASSUME c \in Others PROVE c.kind \notin {"Tick", "LoadRom"} /\ b = c
    BY <1>5 DEF EncodedKernelCmd, DecodedKernelCmd, Keep, KernelCmdFields, DebugCmdFields
  <1> HIDE DEF Ticks, Loads, Others, b
  <1>6. QED
    BY <1>1, <1>2, <1>3, <1>4, <1>5

\* A persist command comes back as it went in.
LEMMA FsCmdBack ==
    ASSUME NEW c \in Commands("fs")
    PROVE  DecodeCmd("fs", EncodeCmd("fs", c)) = c
PROOF
  BY DEF Commands, DecodeCmd, EncodeCmd, DecodedFsCmd, EncodedFsCmd, Keep

\* Of an upload the lane comes back.
LEMMA GpuCmdBack ==
    ASSUME NEW c \in Commands("gpu")
    PROVE  /\ c \in [kind : {"UploadFrame"}, lane : {0, 1}, span : Pictures]
           /\ DecodeCmd("gpu", EncodeCmd("gpu", c))
                = [kind |-> "UploadFrame", lane |-> c.lane, span |-> EmptyFrame]
PROOF
  <1>1. c \in [kind : {"UploadFrame"}, lane : {0, 1}, span : Pictures]
    BY DEF Commands
  <1>2. EncodeCmd("gpu", c) = [kind |-> "UploadFrame", lane |-> c.lane]
    BY <1>1 DEF EncodeCmd, EncodedGpuCmd, Keep
  <1>3. QED
    BY <1>1, <1>2 DEF DecodeCmd, DecodedGpuCmd, Filled

\* Of samples nothing comes back but that some were submitted.
LEMMA AudioCmdBack ==
    ASSUME NEW c \in Commands("audio")
    PROVE  /\ c = [kind |-> "Submit", span |-> [frames |-> 2, slot |-> <<>>]]
           /\ DecodeCmd("audio", EncodeCmd("audio", c)) = [kind |-> "Submit", span |-> EmptyAudio]
PROOF
  <1>1. c = [kind |-> "Submit", span |-> [frames |-> 2, slot |-> <<>>]]
    BY DEF Commands
  <1>2. EncodeCmd("audio", c) = [kind |-> "Submit", frames |-> 2]
    BY <1>1 DEF EncodeCmd, EncodedAudioCmd
  <1>3. QED
    BY <1>1, <1>2 DEF DecodeCmd, DecodedAudioCmd

\* Every command comes back with all that the service reads of it.
LEMMA CommandIntact ==
    ASSUME GroupsSent = {0}, NEW s \in Services, NEW c \in Commands(s)
    PROVE  Meant(DecodeCmd(s, EncodeCmd(s, c))) = Meant(c)
PROOF
  <1>1. CASE s = "kernel"
    <2>1. ASSUME c.kind \in {"Tick", "LoadRom"} PROVE [c EXCEPT !.group = 0] = c
      BY <1>1, <2>1 DEF Commands
    <2>2. QED
      BY <1>1, <2>1, KernelCmdBack
  <1>2. CASE s = "fs"
    BY <1>2, FsCmdBack
  <1>3. CASE s = "gpu"
    <2>1. DOMAIN c = {"kind", "lane", "span"} /\ c.kind = "UploadFrame"
      BY <1>3, GpuCmdBack
    <2>2. QED
      BY <1>3, <2>1, GpuCmdBack DEF Meant, Keep
  <1>4. CASE s = "audio"
    BY <1>4, AudioCmdBack DEF Meant, Keep
  <1>5. QED
    BY <1>1, <1>2, <1>3, <1>4 DEF Services

\* The reports a service makes of the commands it receives.
Made(s) ==
    CASE s = "kernel" ->
           [kind : {"LaneFrame"}, group : {0, 1}, lane : {1}, id : {7}, span : Pictures]
           \cup [kind : {"TickDone"}, group : {0, 1}, lanes : {2}, cycles : {4}]
           \cup [kind : {"RomLoaded"}, group : {0}, len : {9}]
           \cup [kind : {"Snapshot"}, vm : {[cpu |-> 1, ppu |-> 2, timers |-> 3, io |-> 4]}]
           \cup [kind : {"MemWindow"}, space : {"Oam"}, base : {2}, bytes : {6}]
           \cup [kind : {"Stepped"}, step : {"Instruction", "Frame"}, cycles : {4}, pc : {5},
                 disasm : {"op"}]
      [] s = "fs" -> [kind : {"Saved"}, path : {"manual-save", "auto"}, ok : {TRUE}]
      [] s = "gpu" -> [kind : {"FrameShown"}, lane : {0, 1}, id : Nat]
      [] s = "audio" -> [kind : {"Played"}, frames : {0}]

\* What the executed command is answered with are such reports.
LEMMA AnswersMade ==
    ASSUME NEW s \in Services, NEW c \in Received(s), NEW span \in Pictures, shown \in Nat
    PROVE  Answers(c, span) \in Seq(Made(s))
PROOF
  <1>1. PICK cmd \in Commands(s) : c = DecodeCmd(s, EncodeCmd(s, cmd))
    BY DEF Received
  <1>2. CASE s = "kernel"
    <2> DEFINE M == Made("kernel")
    <2>1. \/ c \in [kind : {"Tick"}, group : {0}, purpose : {"Display", "Exploration"}, budget : {2}]
          \/ c \in [kind : {"LoadRom"}, group : {0}, bytes : {"rom"}]
          \/ c \in {[kind |-> "SetInputs", group |-> 1, lanes |-> 3, joypad |-> 5],
                    [kind |-> "Terminate", group |-> 1],
                    [kind |-> "Snapshot", group |-> 1],
                    [kind |-> "MemWindow", group |-> 1, space |-> "Oam", base |-> 2, len |-> 3],
                    [kind |-> "StepInstruction", group |-> 1, count |-> 2],
                    [kind |-> "StepFrame", group |-> 1]}
      BY <1>1, <1>2, KernelCmdBack DEF Commands
    <2>2. /\ \A g \in {0, 1} : [kind |-> "LaneFrame", group |-> g, lane |-> 1, id |-> 7, span |-> span] \in M
          /\ \A g \in {0, 1} : [kind |-> "TickDone", group |-> g, lanes |-> 2, cycles |-> 4] \in M
          /\ [kind |-> "RomLoaded", group |-> 0, len |-> 9] \in M
          /\ [kind |-> "Snapshot", vm |-> [cpu |-> 1, ppu |-> 2, timers |-> 3, io |-> 4]] \in M
          /\ [kind |-> "MemWindow", space |-> "Oam", base |-> 2, bytes |-> 6] \in M
          /\ \A step \in {"Instruction", "Frame"} :
               [kind |-> "Stepped", step |-> step, cycles |-> 4, pc |-> 5, disasm |-> "op"] \in M
      BY DEF Made
    <2> HIDE DEF M
    <2>3. \A g \in {0, 1} : Picture(g, span) \in Seq(M)
      BY <2>2 DEF Picture
    <2>4. \A step \in {"Instruction", "Frame"} : Stepped(step) \in Seq(M)
      BY <2>2 DEF Stepped
    <2>5. CASE c.kind = "Tick"
      BY <2>1, <2>3, <2>5, <1>2 DEF Answers, M
    <2>6. CASE c.kind = "LoadRom"
      BY <2>1, <2>2, <2>6, <1>2 DEF Answers, M
    <2>7. CASE c.kind \in {"SetInputs", "Terminate"}
      BY <2>7 DEF Answers
    <2>8. CASE c.kind = "Snapshot"
      BY <2>2, <2>8, <1>2 DEF Answers, M
    <2>9. CASE c.kind = "MemWindow"
      BY <2>1, <2>2, <2>9, <1>2 DEF Answers, M
    <2>10. CASE c.kind = "StepInstruction"
      BY <2>4, <2>10, <1>2 DEF Answers, M
    <2>11. CASE c.kind = "StepFrame"
      <3>1. c.group = 1
        BY <2>1, <2>11
      <3>2. Picture(1, span) \o Stepped("Frame") \in Seq(M)
        BY <2>3, <2>4, ConcatProperties
      <3>3. QED
        BY <3>1, <3>2, <2>11, <1>2 DEF Answers, M
    <2>12. c.kind \in {"Tick", "LoadRom", "SetInputs", "Terminate", "Snapshot", "MemWindow",
                       "StepInstruction", "StepFrame"}
      BY <2>1
    <2>13. QED
      BY <2>5, <2>6, <2>7, <2>8, <2>9, <2>10, <2>11, <2>12
  <1>3. CASE s = "fs"
    <2>1. c \in [kind : {"Persist"}, path : {"manual-save", "auto"}, bytes : {"state"}]
      BY <1>1, <1>3, FsCmdBack DEF Commands
    <2>2. Answers(c, span) = << [kind |-> "Saved", path |-> c.path, ok |-> TRUE] >>
      BY <2>1 DEF Answers
    <2>3. [kind |-> "Saved", path |-> c.path, ok |-> TRUE] \in Made(s)
      BY <2>1, <1>3 DEF Made
    <2>4. QED
      BY <2>2, <2>3
  <1>4. CASE s = "gpu"
    <2>1. c.kind = "UploadFrame" /\ c.lane \in {0, 1}
      BY <1>1, <1>4, GpuCmdBack
    <2>2. Answers(c, span) = << [kind |-> "FrameShown", lane |-> c.lane, id |-> shown + 1] >>
      BY <2>1 DEF Answers
    <2>3. [kind |-> "FrameShown", lane |-> c.lane, id |-> shown + 1] \in Made(s)
      BY <2>1, <1>4 DEF Made
    <2>4. QED
      BY <2>2, <2>3
  <1>5. CASE s = "audio"
    <2>1. c.kind = "Submit" /\ c.span.frames = 0
      BY <1>1, <1>5, AudioCmdBack DEF EmptyAudio
    <2>2. Answers(c, span) = << [kind |-> "Played", frames |-> 0] >>
      BY <2>1 DEF Answers
    <2>3. [kind |-> "Played", frames |-> 0] \in Made(s)
      BY <1>5 DEF Made
    <2>4. QED
      BY <2>2, <2>3
  <1>6. QED
    BY <1>2, <1>3, <1>4, <1>5 DEF Services

\* Every report comes back with all that the world reads of it.
LEMMA ReportIntact ==
    ASSUME NEW s \in Services, NEW r \in Made(s)
    PROVE  Read(DecodeRep(s, EncodeRep(s, r))) = Read(r)
PROOF
  <1>1. CASE s = "kernel" /\ r.kind = "LaneFrame"
    <2>1. r \in [kind : {"LaneFrame"}, group : {0, 1}, lane : {1}, id : {7}, span : Pictures]
      BY <1>1 DEF Made
    <2> DEFINE e == [kind |-> "LaneFrame", lane |-> 1, id |-> 7,
                     slot |-> EncodedSlot(r.span.slot), pixels |-> r.span.pixels]
               d == [kind |-> "LaneFrame", lane |-> 1, id |-> 7, group |-> 0, span |-> FrameOf(e)]
    <2>2. EncodeRep(s, r) = e
      BY <1>1, <2>1 DEF EncodeRep, EncodedKernelRep, Filled, Keep
    <2>3. FrameOf(e) = r.span
      BY <2>1 DEF FrameOf, EncodedSlot, DecodedSlot, Pictures
    <2>4. DecodeRep(s, e) = d
      BY <1>1 DEF DecodeRep, DecodedKernelRep, Filled, Keep
    <2>5. Read(d) = [kind |-> "LaneFrame", lane |-> 1, id |-> 7, span |-> r.span]
      BY <2>3 DEF Read, Keep
    <2>6. Read(r) = [kind |-> "LaneFrame", lane |-> 1, id |-> 7, span |-> r.span]
      BY <2>1 DEF Read, Keep
    <2>7. QED
      BY <2>2, <2>4, <2>5, <2>6
  <1>2. CASE s = "kernel" /\ r.kind = "TickDone"
    <2>1. r \in [kind : {"TickDone"}, group : {0, 1}, lanes : {2}, cycles : {4}]
      BY <1>2 DEF Made
    <2>2. EncodeRep(s, r) = [kind |-> "TickDone"]
      BY <1>2 DEF EncodeRep, EncodedKernelRep, Keep
    <2>3. DecodeRep(s, EncodeRep(s, r)) = [kind |-> "TickDone", group |-> 0, lanes |-> 0, cycles |-> 0]
      BY <1>2, <2>2 DEF DecodeRep, DecodedKernelRep, Filled
    <2>4. QED
      BY <2>1, <2>3 DEF Read, Keep
  <1>3. CASE s = "kernel" /\ r.kind = "RomLoaded"
    <2>1. r \in [kind : {"RomLoaded"}, group : {0}, len : {9}]
      BY <1>3 DEF Made
    <2>2. EncodeRep(s, r) = [kind |-> "RomLoaded", len |-> 9]
      BY <1>3, <2>1 DEF EncodeRep, EncodedKernelRep, Keep
    <2>3. DecodeRep(s, EncodeRep(s, r)) = [kind |-> "RomLoaded", len |-> 9, group |-> 0]
      BY <1>3, <2>2 DEF DecodeRep, DecodedKernelRep, Filled
    <2>4. QED
      BY <2>1, <2>3 DEF Read, Keep
  <1>4. CASE s = "kernel" /\ r.kind \in {"Snapshot", "MemWindow", "Stepped"}
    <2>1. \/ r \in [kind : {"Snapshot"}, vm : {[cpu |-> 1, ppu |-> 2, timers |-> 3, io |-> 4]}]
          \/ r \in [kind : {"MemWindow"}, space : {"Oam"}, base : {2}, bytes : {6}]
          \/ r \in [kind : {"Stepped"}, step : {"Instruction", "Frame"}, cycles : {4}, pc : {5},
                    disasm : {"op"}]
      BY <1>4 DEF Made
    <2>2. EncodeRep(s, r) = EncodedDebugRep(r)
      BY <1>4 DEF EncodeRep, EncodedKernelRep
    <2>3. EncodedDebugRep(r) = r
      BY <2>1 DEF EncodedDebugRep, EncodedSnapshot, Keep
    <2>4. DecodeRep(s, r) = r
      BY <1>4 DEF DecodeRep, DecodedKernelRep
    <2>5. QED
      BY <2>2, <2>3, <2>4
  <1>5. CASE s \in {"fs", "gpu", "audio"}
    <2>1. \/ r \in [kind : {"Saved"}, path : {"manual-save", "auto"}, ok : {TRUE}]
          \/ r \in [kind : {"FrameShown"}, lane : {0, 1}, id : Nat]
          \/ r \in [kind : {"Played"}, frames : {0}]
      BY <1>5 DEF Made
    <2>2. EncodeRep(s, r) = r
      BY <1>5, <2>1 DEF EncodeRep, EncodedOtherRep, Keep
    <2>3. QED
      BY <1>5, <2>2 DEF DecodeRep
  <1>6. s = "kernel" => r.kind \in {"LaneFrame", "TickDone", "RomLoaded", "Snapshot", "MemWindow", "Stepped"}
    BY DEF Made
  <1>7. QED
    BY <1>1, <1>2, <1>3, <1>4, <1>5, <1>6 DEF Services

-----------------------------------------------------------------------------
(***************************************************************************)
(* The inductive invariant of the endpoint.  A port, the commands due at   *)
(* it, the outcomes recorded and the commands drained agree, class by      *)
(* class; a mailbox holds one command at most, so that what displaces it   *)
(* leaves as many waiting as before.  The reports on their way are such as *)
(* services make, which is what makes their round trip exact.              *)
(***************************************************************************)

\* What the codecs put on the wire.
WireCmds(s) == {EncodeCmd(s, c) : c \in Commands(s)}
WireReps(s) == {EncodeRep(s, r) : r \in Made(s)}

\* The wire records w are the commands, or the reports, m.
WiresCmds(s, w, m) == Len(w) = Len(m) /\ \A i \in 1 .. Len(m) : w[i] = EncodeCmd(s, m[i])
WiresReps(s, w, m) == Len(w) = Len(m) /\ \A i \in 1 .. Len(m) : w[i] = EncodeRep(s, m[i])

\* A port of the class: its records, the commands due, the outcomes recorded and
\* the number drained.
PortSound(s, class, port, d, told, out) ==
    /\ port \in Seq(WireCmds(s)) /\ d \in Seq(Commands(s))
    /\ WiresCmds(s, port, d)
    /\ class = "Coalesce" => Len(port) <= 1
    /\ told \in [Outcomes -> Nat] /\ out \in Nat
    /\ told["Accepted"] = out + Len(port)

Stages == Classes \cup {"idle", "reports", "publish"}

PortsInv ==
    /\ ports \in [Classes -> Seq(WireCmds(service))]
    /\ due \in [Classes -> Seq(Commands(service))]
    /\ drained \in [Classes -> Nat]
    /\ metrics \in [Classes \cup {"replies"} -> [Outcomes -> Nat]]
    /\ \A class \in Classes :
         PortSound(service, class, ports[class], due[class], metrics[class], drained[class])

RepliesInv ==
    /\ replies \in Seq(WireReps(service)) /\ owed \in Seq(Made(service))
    /\ WiresReps(service, replies, owed)

EngineInv ==
    /\ engine \in [stage : Stages, left : 0 .. PollBudget,
                   commands : Seq(Received(service)), outbox : Seq(Made(service))]
    /\ reports \in Seq(Made(service)) /\ shown \in Nat

EndpointIInv == service \in Services /\ PortsInv /\ RepliesInv /\ EngineInv

\* What is left of a sequence when the first n elements have gone.
LEMMA SuffixOf ==
    ASSUME NEW S, NEW q \in Seq(S), NEW n \in 0 .. Len(q)
    PROVE  /\ SubSeq(q, n + 1, Len(q)) \in Seq(S)
           /\ Len(SubSeq(q, n + 1, Len(q))) = Len(q) - n
           /\ \A i \in 1 .. Len(q) - n : SubSeq(q, n + 1, Len(q))[i] = q[n + i]
PROOF
  <1>1. Len(q) \in Nat
    OBVIOUS
  <1>2. CASE n = Len(q)
    <2>1. SubSeq(q, n + 1, Len(q)) = <<>>
      BY <1>2, SubSeqProperties
    <2>2. QED
      BY <1>2, <2>1
  <1>3. CASE n < Len(q)
    BY <1>3, SubSeqProperties
  <1>4. QED
    BY <1>1, <1>2, <1>3

\* The first n elements.
LEMMA PrefixOf ==
    ASSUME NEW S, NEW q \in Seq(S), NEW n \in 0 .. Len(q)
    PROVE  /\ SubSeq(q, 1, n) \in Seq(S)
           /\ Len(SubSeq(q, 1, n)) = n
           /\ \A i \in 1 .. n : SubSeq(q, 1, n)[i] = q[i]
PROOF
  BY SubSeqProperties

\* What drain_queue takes and leaves.
LEMMA DrainedParts ==
    ASSUME NEW S, NEW q \in Seq(S), NEW max \in Nat
    PROVE  /\ Lesser(max, Len(q)) \in 0 .. Len(q) /\ Lesser(max, Len(q)) <= max
           /\ Drained(q, max) \in Seq(S) /\ Undrained(q, max) \in Seq(S)
PROOF
  <1>1. Lesser(max, Len(q)) \in 0 .. Len(q) /\ Lesser(max, Len(q)) <= max
    BY DEF Lesser
  <1>2. QED
    BY <1>1, PrefixOf, SuffixOf DEF Drained, Undrained

\* What a policy leaves of the queue is a part of it.
LEMMA KeptPart ==
    ASSUME NEW S, NEW q \in Seq(S), NEW policy, NEW capacity \in Nat, NEW needed \in Nat
    PROVE  Kept(policy, q, capacity, needed) \in Seq(S)
PROOF
  <1> DEFINE d == Evicted(policy, q, capacity, needed)
  <1>1. d \in 0 .. Len(q)
    BY DEF Evicted, Fits, Lesser
  <1> HIDE DEF d
  <1>2. SubSeq(q, d + 1, Len(q)) \in Seq(S)
    BY <1>1, SuffixOf
  <1>3. QED
    BY <1>2 DEF Kept, d

\* try_send on a ring: the record joins the end of the port.
LEMMA AppendSound ==
    ASSUME NEW s, NEW class, class # "Coalesce", NEW p, NEW d, NEW told, NEW out,
           PortSound(s, class, p, d, told, out), NEW c \in Commands(s)
    PROVE  PortSound(s, class, Append(p, EncodeCmd(s, c)), Append(d, c),
                     [told EXCEPT !["Accepted"] = @ + 1], out)
PROOF
  <1> DEFINE q == Append(p, EncodeCmd(s, c))
             e == Append(d, c)
             t == [told EXCEPT !["Accepted"] = @ + 1]
  <1>1. /\ p \in Seq(WireCmds(s)) /\ d \in Seq(Commands(s)) /\ Len(p) = Len(d)
        /\ \A i \in 1 .. Len(d) : p[i] = EncodeCmd(s, d[i])
        /\ told \in [Outcomes -> Nat] /\ out \in Nat /\ told["Accepted"] = out + Len(p)
    BY DEF PortSound, WiresCmds
  <1>2. EncodeCmd(s, c) \in WireCmds(s)
    BY DEF WireCmds
  <1>3. /\ q \in Seq(WireCmds(s)) /\ Len(q) = Len(p) + 1 /\ q[Len(p) + 1] = EncodeCmd(s, c)
        /\ \A i \in 1 .. Len(p) : q[i] = p[i]
    BY <1>1, <1>2, AppendProperties
  <1>4. /\ e \in Seq(Commands(s)) /\ Len(e) = Len(d) + 1 /\ e[Len(d) + 1] = c
        /\ \A i \in 1 .. Len(d) : e[i] = d[i]
    BY <1>1, AppendProperties
  <1>5. Len(p) \in Nat /\ Len(d) \in Nat
    BY <1>1, LenProperties
  <1>6. t \in [Outcomes -> Nat] /\ t["Accepted"] = told["Accepted"] + 1
    BY <1>1 DEF Outcomes
  <1> HIDE DEF q, e, t
  <1>7. \A i \in 1 .. Len(e) : q[i] = EncodeCmd(s, e[i])
    <2> SUFFICES ASSUME NEW i \in 1 .. Len(e) PROVE q[i] = EncodeCmd(s, e[i])
      OBVIOUS
    <2>1. CASE i = Len(d) + 1
      BY <1>1, <1>3, <1>4, <2>1
    <2>2. CASE i \in 1 .. Len(d)
      BY <1>1, <1>3, <1>4, <2>2
    <2>3. QED
      BY <1>4, <1>5, <2>1, <2>2
  <1>8. PortSound(s, class, q, e, t, out)
    BY <1>1, <1>3, <1>4, <1>5, <1>6, <1>7 DEF PortSound, WiresCmds
  <1>9. QED
    BY <1>8 DEF q, e, t

\* try_send on a mailbox: the record displaces the one that waits.
LEMMA MailboxSound ==
    ASSUME NEW s, NEW p, NEW d, NEW told, NEW out,
           PortSound(s, "Coalesce", p, d, told, out), NEW c \in Commands(s),
           NEW answer, answer = IF p # <<>> THEN "Coalesced" ELSE "Accepted"
    PROVE  PortSound(s, "Coalesce", << EncodeCmd(s, c) >>, << c >>,
                     [told EXCEPT ![answer] = @ + 1], out)
PROOF
  <1> DEFINE q == << EncodeCmd(s, c) >>
             e == << c >>
             t == [told EXCEPT ![answer] = @ + 1]
  <1>1. /\ p \in Seq(WireCmds(s)) /\ Len(p) <= 1
        /\ told \in [Outcomes -> Nat] /\ out \in Nat /\ told["Accepted"] = out + Len(p)
    BY DEF PortSound
  <1>2. EncodeCmd(s, c) \in WireCmds(s)
    BY DEF WireCmds
  <1>3. /\ q \in Seq(WireCmds(s)) /\ Len(q) = 1 /\ q[1] = EncodeCmd(s, c)
        /\ e \in Seq(Commands(s)) /\ Len(e) = 1 /\ e[1] = c
    BY <1>2
  <1>4. t \in [Outcomes -> Nat]
    BY <1>1 DEF Outcomes
  <1>5. t["Accepted"] = out + 1
    <2>1. CASE p = <<>>
      BY <1>1, <2>1 DEF Outcomes
    <2>2. CASE p # <<>>
      <3>1. Len(p) \in Nat \ {0}
        BY <1>1, <2>2, EmptySeq
      <3>2. t["Accepted"] = told["Accepted"]
        BY <1>1, <2>2 DEF Outcomes
      <3>3. QED
        BY <1>1, <3>1, <3>2
    <2>3. QED
      BY <2>1, <2>2
  <1> HIDE DEF q, e, t
  <1>6. PortSound(s, "Coalesce", q, e, t, out)
    BY <1>1, <1>3, <1>4, <1>5 DEF PortSound, WiresCmds
  <1>7. QED
    BY <1>6 DEF q, e, t

\* A command that does not enter is only counted.
LEMMA RefusedSound ==
    ASSUME NEW s, NEW class, NEW p, NEW d, NEW told, NEW out,
           PortSound(s, class, p, d, told, out),
           NEW answer \in {"Dropped", "WouldBlock"}
    PROVE  PortSound(s, class, p, d, [told EXCEPT ![answer] = @ + 1], out)
PROOF
  <1>1. told \in [Outcomes -> Nat]
    BY DEF PortSound
  <1>2. /\ [told EXCEPT ![answer] = @ + 1] \in [Outcomes -> Nat]
        /\ [told EXCEPT ![answer] = @ + 1]["Accepted"] = told["Accepted"]
    BY <1>1 DEF Outcomes
  <1>3. QED
    BY <1>2 DEF PortSound

\* drain_port: the first n commands go, in order, and are what the codec makes of
\* the commands due.
LEMMA DrainSound ==
    ASSUME NEW s, NEW class, NEW p, NEW d, NEW told, NEW out,
           PortSound(s, class, p, d, told, out), NEW n \in 0 .. Len(p)
    PROVE  /\ PortSound(s, class, Undrained(p, n), Undrained(d, n), told, out + n)
           /\ [i \in 1 .. n |-> DecodeCmd(s, SubSeq(p, 1, n)[i])] \in Seq(Received(s))
PROOF
  <1> DEFINE q == SubSeq(p, n + 1, Len(p))
             e == SubSeq(d, n + 1, Len(d))
             cmds == [i \in 1 .. n |-> DecodeCmd(s, SubSeq(p, 1, n)[i])]
  <1>1. /\ p \in Seq(WireCmds(s)) /\ d \in Seq(Commands(s)) /\ Len(p) = Len(d)
        /\ \A i \in 1 .. Len(d) : p[i] = EncodeCmd(s, d[i])
        /\ class = "Coalesce" => Len(p) <= 1
        /\ told \in [Outcomes -> Nat] /\ out \in Nat /\ told["Accepted"] = out + Len(p)
    BY DEF PortSound, WiresCmds
  <1>2. Len(p) \in Nat /\ Len(d) \in Nat /\ n \in Nat /\ n <= Len(p)
    BY <1>1, LenProperties
  <1>3. Undrained(p, n) = q /\ Undrained(d, n) = e
    <2>1. Lesser(n, Len(p)) = n /\ Lesser(n, Len(d)) = n
      BY <1>1, <1>2 DEF Lesser
    <2>2. QED
      BY <2>1 DEF Undrained
  <1>4. /\ q \in Seq(WireCmds(s)) /\ Len(q) = Len(p) - n
        /\ \A i \in 1 .. Len(p) - n : q[i] = p[n + i]
    BY <1>1, SuffixOf
  <1>5. /\ e \in Seq(Commands(s)) /\ Len(e) = Len(d) - n
        /\ \A i \in 1 .. Len(d) - n : e[i] = d[n + i]
    BY <1>1, SuffixOf
  <1>6. cmds \in Seq(Received(s))
    <2>1. \A i \in 1 .. n : SubSeq(p, 1, n)[i] = p[i]
      BY <1>1, PrefixOf
    <2>2. ASSUME NEW i \in 1 .. n PROVE cmds[i] \in Received(s)
      <3>1. i \in 1 .. Len(d)
        BY <1>1, <1>2
      <3>2. d[i] \in Commands(s)
        BY <1>1, <3>1, ElementOfSeq
      <3>3. cmds[i] = DecodeCmd(s, EncodeCmd(s, d[i]))
        BY <1>1, <2>1, <3>1
      <3>4. QED
        BY <3>2, <3>3 DEF Received
    <2>3. cmds = [i \in 1 .. n |-> cmds[i]]
      OBVIOUS
    <2> HIDE DEF cmds
    <2>4. QED
      BY <1>2, <2>2, <2>3
  <1> HIDE DEF q, e
  <1>7. \A i \in 1 .. Len(e) : q[i] = EncodeCmd(s, e[i])
    <2> SUFFICES ASSUME NEW i \in 1 .. Len(e) PROVE q[i] = EncodeCmd(s, e[i])
      OBVIOUS
    <2>1. i \in 1 .. Len(d) - n /\ i \in 1 .. Len(p) - n /\ n + i \in 1 .. Len(d)
      BY <1>1, <1>2, <1>5
    <2>2. q[i] = p[n + i] /\ e[i] = d[n + i] /\ p[n + i] = EncodeCmd(s, d[n + i])
      BY <1>1, <1>4, <1>5, <2>1
    <2>3. QED
      BY <2>2
  <1>8. PortSound(s, class, q, e, told, out + n)
    BY <1>1, <1>2, <1>4, <1>5, <1>7 DEF PortSound, WiresCmds
  <1>9. QED
    BY <1>3, <1>6, <1>8

\* One port changes, soundly; the others stay.
LEMMA OnePort ==
    ASSUME PortsInv, service' = service, NEW cl \in Classes, NEW p, NEW d, NEW t, NEW n,
           PortSound(service, cl, p, d, t, n),
           ports' = [ports EXCEPT ![cl] = p], due' = [due EXCEPT ![cl] = d],
           metrics' = [metrics EXCEPT ![cl] = t], drained' = [drained EXCEPT ![cl] = n]
    PROVE  PortsInv'
PROOF
  <1>1. /\ ports \in [Classes -> Seq(WireCmds(service))]
        /\ due \in [Classes -> Seq(Commands(service))]
        /\ drained \in [Classes -> Nat]
        /\ metrics \in [Classes \cup {"replies"} -> [Outcomes -> Nat]]
        /\ \A class \in Classes :
             PortSound(service, class, ports[class], due[class], metrics[class], drained[class])
    BY DEF PortsInv
  <1>2. /\ p \in Seq(WireCmds(service)) /\ d \in Seq(Commands(service))
        /\ t \in [Outcomes -> Nat] /\ n \in Nat
    BY DEF PortSound
  <1>3. /\ ports' \in [Classes -> Seq(WireCmds(service))]
        /\ due' \in [Classes -> Seq(Commands(service))]
        /\ drained' \in [Classes -> Nat]
        /\ metrics' \in [Classes \cup {"replies"} -> [Outcomes -> Nat]]
    BY <1>1, <1>2
  <1>4. ASSUME NEW class \in Classes
        PROVE  PortSound(service, class, ports'[class], due'[class], metrics'[class], drained'[class])
    <2>1. CASE class = cl
      <3>1. ports'[class] = p /\ due'[class] = d /\ metrics'[class] = t /\ drained'[class] = n
        BY <1>1, <2>1
      <3>2. QED
        BY <2>1, <3>1
    <2>2. CASE class # cl
      <3>1. /\ ports'[class] = ports[class] /\ due'[class] = due[class]
            /\ metrics'[class] = metrics[class] /\ drained'[class] = drained[class]
        BY <1>1, <2>2
      <3>2. QED
        BY <1>1, <3>1
    <2>3. QED
      BY <2>1, <2>2
  <1>5. (WireCmds(service))' = WireCmds(service) /\ (Commands(service))' = Commands(service)
    OBVIOUS
  <1>6. QED
    BY <1>3, <1>4, <1>5 DEF PortsInv

\* Nothing that the ports depend on changes.
LEMMA PortsKept ==
    ASSUME PortsInv, UNCHANGED <<service, ports, due, metrics, drained>>
    PROVE  PortsInv'
PROOF
  BY DEF PortsInv

\* No reply is added or taken.
LEMMA RepliesKept ==
    ASSUME RepliesInv, UNCHANGED <<service, replies, owed>>
    PROVE  RepliesInv'
PROOF
  BY DEF RepliesInv

\* A metric of one port counts one answer more.
LEMMA RecordedRow ==
    ASSUME PortsInv, NEW port \in Classes \cup {"replies"}, NEW answer \in Outcomes
    PROVE  /\ Recorded(port, answer)
                = [metrics EXCEPT ![port] = [metrics[port] EXCEPT ![answer] = @ + 1]]
           /\ [metrics[port] EXCEPT ![answer] = @ + 1] \in [Outcomes -> Nat]
PROOF
  BY DEF Recorded, PortsInv

\* At the start nothing waits anywhere.
LEMMA EndpointInitIInv == EndpointInit => EndpointIInv
PROOF
  <1> SUFFICES ASSUME EndpointInit PROVE EndpointIInv
    OBVIOUS
  <1>1. service \in Services /\ shown = 0 /\ reports = <<>> /\ engine = NewEngine
        /\ replies = <<>> /\ owed = <<>>
    BY DEF EndpointInit
  <1>2. PortsInv
    <2> DEFINE row == [o \in Outcomes |-> 0]
    <2>1. /\ ports = [class \in Classes |-> <<>>] /\ due = [class \in Classes |-> <<>>]
          /\ drained = [class \in Classes |-> 0]
          /\ metrics = [port \in Classes \cup {"replies"} |-> row]
      BY DEF EndpointInit
    <2>2. row \in [Outcomes -> Nat] /\ row["Accepted"] = 0
      BY DEF Outcomes
    <2> HIDE DEF row
    <2>3. /\ <<>> \in Seq(WireCmds(service)) /\ <<>> \in Seq(Commands(service)) /\ Len(<<>>) = 0
      BY EmptySeq
    <2>4. \A class \in Classes : PortSound(service, class, <<>>, <<>>, row, 0)
      BY <2>2, <2>3 DEF PortSound, WiresCmds
    <2>5. QED
      BY <2>1, <2>2, <2>3, <2>4 DEF PortsInv
  <1>3. RepliesInv
    BY <1>1, EmptySeq DEF RepliesInv, WiresReps
  <1>4. EngineInv
    BY <1>1, EmptySeq, EndpointAssumption DEF EngineInv, NewEngine, Stages
  <1>5. QED
    BY <1>1, <1>2, <1>3, <1>4 DEF EndpointIInv

\* EndpointHandle::submit.
LEMMA SubmitKeeps == ASSUME EndpointIInv, Submit PROVE EndpointIInv'
PROOF
  <1>1. PICK cmd \in Commands(service) :
          LET class == Class(service, cmd)
              answer == PortOutcome(class)
              enters == answer \in {"Accepted", "Coalesced"}
          IN  /\ HasPort(class)
              /\ metrics' = Recorded(class, answer)
              /\ ports' = IF enters
                          THEN [ports EXCEPT ![class] = Queued(@, class, EncodeCmd(service, cmd))]
                          ELSE ports
              /\ due' = IF enters THEN [due EXCEPT ![class] = Queued(@, class, cmd)] ELSE due
    BY DEF Submit
  <1> DEFINE class == Class(service, cmd)
             answer == PortOutcome(class)
             row == [metrics[class] EXCEPT ![answer] = @ + 1]
  <1>2. UNCHANGED <<service, replies, engine, reports, shown, owed, drained>>
    BY DEF Submit
  <1>3. service \in Services /\ PortsInv /\ RepliesInv /\ EngineInv
    BY DEF EndpointIInv
  <1>4. class \in Classes
    BY <1>3 DEF Commands, Class, KernelClass, ClassFromPolicy, DebugPolicy, Classes, Services
  <1>5. /\ answer \in Outcomes
        /\ answer \in {"Accepted", "Coalesced", "Dropped", "WouldBlock"}
        /\ class = "Coalesce" => answer = IF ports[class] # <<>> THEN "Coalesced" ELSE "Accepted"
        /\ class # "Coalesce" => answer # "Coalesced"
    BY <1>4 DEF PortOutcome, Outcomes, Classes
  <1>6. /\ metrics' = Recorded(class, answer)
        /\ answer \in {"Accepted", "Coalesced"} =>
             /\ ports' = [ports EXCEPT ![class] = Queued(@, class, EncodeCmd(service, cmd))]
             /\ due' = [due EXCEPT ![class] = Queued(@, class, cmd)]
        /\ answer \notin {"Accepted", "Coalesced"} => ports' = ports /\ due' = due
    BY <1>1
  <1> HIDE DEF class, answer
  <1>7. /\ ports \in [Classes -> Seq(WireCmds(service))]
        /\ due \in [Classes -> Seq(Commands(service))]
        /\ drained \in [Classes -> Nat]
        /\ PortSound(service, class, ports[class], due[class], metrics[class], drained[class])
    BY <1>3, <1>4 DEF PortsInv
  <1>8. metrics' = [metrics EXCEPT ![class] = row]
    BY <1>3, <1>4, <1>5, <1>6, RecordedRow
  <1>9. drained' = [drained EXCEPT ![class] = drained[class]]
    BY <1>2, <1>4, <1>7
  <1>10. PortsInv'
    <2>1. CASE answer \notin {"Accepted", "Coalesced"}
      <3>1. PortSound(service, class, ports[class], due[class], row, drained[class])
        BY <1>5, <1>7, <2>1, RefusedSound
      <3>2. ports' = [ports EXCEPT ![class] = ports[class]] /\ due' = [due EXCEPT ![class] = due[class]]
        BY <1>4, <1>6, <1>7, <2>1
      <3>3. QED
        BY <1>2, <1>3, <1>4, <1>8, <1>9, <3>1, <3>2, OnePort
    <2>2. CASE answer \in {"Accepted", "Coalesced"} /\ class = "Coalesce"
      <3>1. PortSound(service, class, << EncodeCmd(service, cmd) >>, << cmd >>, row, drained[class])
        BY <1>5, <1>7, <2>2, MailboxSound
      <3>2. /\ ports' = [ports EXCEPT ![class] = << EncodeCmd(service, cmd) >>]
            /\ due' = [due EXCEPT ![class] = << cmd >>]
        BY <1>6, <2>2 DEF Queued
      <3>3. QED
        BY <1>2, <1>3, <1>4, <1>8, <1>9, <3>1, <3>2, OnePort
    <2>3. CASE answer \in {"Accepted", "Coalesced"} /\ class # "Coalesce"
      <3>1. answer = "Accepted"
        BY <1>5, <2>3
      <3>2. PortSound(service, class, Append(ports[class], EncodeCmd(service, cmd)),
                      Append(due[class], cmd), row, drained[class])
        BY <1>7, <2>3, <3>1, AppendSound
      <3>3. /\ ports' = [ports EXCEPT ![class] = Append(ports[class], EncodeCmd(service, cmd))]
            /\ due' = [due EXCEPT ![class] = Append(due[class], cmd)]
        BY <1>6, <2>3 DEF Queued
      <3>4. QED
        BY <1>2, <1>3, <1>4, <1>8, <1>9, <3>2, <3>3, OnePort
    <2>4. QED
      BY <2>1, <2>2, <2>3
  <1>11. RepliesInv' /\ EngineInv'
    BY <1>2, <1>3, RepliesKept DEF EngineInv
  <1>12. QED
    BY <1>2, <1>3, <1>10, <1>11 DEF EndpointIInv

\* drain_port.
LEMMA DrainPortKeeps == ASSUME EndpointIInv, DrainPort PROVE EndpointIInv'
PROOF
  <1> DEFINE class == engine.stage
             n == Lesser(engine.left, Len(ports[class]))
             cmds == [i \in 1 .. n |-> DecodeCmd(service, SubSeq(ports[class], 1, n)[i])]
             stage == IF engine.left = n THEN "reports" ELSE NextStage(class)
  <1>1. /\ class \in Classes
        /\ ports' = [ports EXCEPT ![class] = Undrained(@, n)]
        /\ due' = [due EXCEPT ![class] = Undrained(@, n)]
        /\ drained' = [drained EXCEPT ![class] = @ + n]
        /\ engine' = [engine EXCEPT !.commands = cmds, !.left = @ - n, !.stage = stage]
        /\ UNCHANGED <<service, replies, metrics, reports, shown, owed>>
    BY DEF DrainPort
  <1>2. service \in Services /\ PortsInv /\ RepliesInv /\ EngineInv
    BY DEF EndpointIInv
  <1>3. engine \in [stage : Stages, left : 0 .. PollBudget,
                    commands : Seq(Received(service)), outbox : Seq(Made(service))]
    BY <1>2 DEF EngineInv
  <1>4. stage \in Stages
    BY <1>1 DEF Stages, NextStage, Classes
  <1> HIDE DEF class, stage
  <1>5. /\ ports \in [Classes -> Seq(WireCmds(service))]
        /\ metrics \in [Classes \cup {"replies"} -> [Outcomes -> Nat]]
        /\ PortSound(service, class, ports[class], due[class], metrics[class], drained[class])
    BY <1>1, <1>2 DEF PortsInv
  <1>6. Len(ports[class]) \in Nat
    BY <1>1, <1>5, LenProperties
  <1>7. engine.left \in 0 .. PollBudget /\ PollBudget \in Nat
    BY <1>3, EndpointAssumption
  <1>8. n \in 0 .. Len(ports[class]) /\ engine.left - n \in 0 .. PollBudget
    BY <1>6, <1>7 DEF Lesser
  <1> HIDE DEF n
  <1>9. /\ PortSound(service, class, Undrained(ports[class], n), Undrained(due[class], n),
                     metrics[class], drained[class] + n)
        /\ cmds \in Seq(Received(service))
    BY <1>5, <1>8, DrainSound
  <1> HIDE DEF cmds
  <1>10. metrics' = [metrics EXCEPT ![class] = metrics[class]]
    BY <1>1, <1>5
  <1>11. PortsInv'
    BY <1>1, <1>2, <1>9, <1>10, OnePort
  <1>12. engine' \in [stage : Stages, left : 0 .. PollBudget,
                      commands : Seq(Received(service)), outbox : Seq(Made(service))]
    BY <1>1, <1>3, <1>4, <1>8, <1>9
  <1>13. RepliesInv' /\ EngineInv'
    BY <1>1, <1>2, <1>12, RepliesKept DEF EngineInv
  <1>14. QED
    BY <1>1, <1>2, <1>11, <1>13 DEF EndpointIInv

\* The service's try_submit.
LEMMA ExecuteCommandKeeps == ASSUME EndpointIInv, ExecuteCommand PROVE EndpointIInv'
PROOF
  <1> DEFINE cmd == Head(engine.commands)
             policy == ServicePolicy(cmd)
             executes == Executes(Admission(policy, reports, QueueCap, Needed(cmd)))
             kept == Kept(policy, reports, QueueCap, Needed(cmd))
  <1>1. PICK span \in Pictures :
          /\ reports' = kept \o (IF executes THEN Answers(cmd, span) ELSE <<>>)
          /\ shown' = IF executes /\ cmd.kind = "UploadFrame" THEN shown + 1 ELSE shown
    BY DEF ExecuteCommand
  <1>2. /\ engine.commands # <<>> /\ engine' = [engine EXCEPT !.commands = Tail(@)]
        /\ UNCHANGED <<service, ports, replies, metrics, due, owed, drained>>
    BY DEF ExecuteCommand
  <1>3. service \in Services /\ PortsInv /\ RepliesInv /\ EngineInv
    BY DEF EndpointIInv
  <1>4. /\ engine \in [stage : Stages, left : 0 .. PollBudget,
                       commands : Seq(Received(service)), outbox : Seq(Made(service))]
        /\ reports \in Seq(Made(service)) /\ shown \in Nat
    BY <1>3 DEF EngineInv
  <1>5. engine.commands \in Seq(Received(service))
    BY <1>4
  <1>6. cmd \in Received(service) /\ Tail(engine.commands) \in Seq(Received(service))
    BY <1>2, <1>5, HeadTailProperties
  <1>7. Needed(cmd) \in Nat /\ QueueCap \in Nat
    BY EndpointAssumption DEF Needed
  <1>8. kept \in Seq(Made(service))
    BY <1>4, <1>7, KeptPart
  <1>9. Answers(cmd, span) \in Seq(Made(service)) /\ <<>> \in Seq(Made(service))
    BY <1>3, <1>4, <1>6, AnswersMade, EmptySeq
  <1>10. shown' \in Nat
    BY <1>1, <1>4
  <1>11. reports' \in Seq(Made(service))
    <2> HIDE DEF kept, executes, cmd
    <2>1. CASE executes
      BY <1>1, <1>8, <1>9, <2>1, ConcatProperties
    <2>2. CASE ~executes
      BY <1>1, <1>8, <1>9, <2>2, ConcatProperties
    <2>3. QED
      BY <2>1, <2>2
  <1>12. engine' \in [stage : Stages, left : 0 .. PollBudget,
                      commands : Seq(Received(service)), outbox : Seq(Made(service))]
    BY <1>2, <1>4, <1>6
  <1>13. PortsInv' /\ RepliesInv'
    BY <1>2, <1>3, PortsKept, RepliesKept
  <1>14. QED
    BY <1>2, <1>3, <1>10, <1>11, <1>12, <1>13 DEF EndpointIInv, EngineInv

\* The service's try_poll_report and publish_report.
LEMMA ReportsKeep ==
    ASSUME EndpointIInv, TakeServiceReports \/ PublishReport
    PROVE  EndpointIInv'
PROOF
  <1>1. service \in Services /\ PortsInv /\ RepliesInv /\ EngineInv
    BY DEF EndpointIInv
  <1>2. /\ engine \in [stage : Stages, left : 0 .. PollBudget,
                       commands : Seq(Received(service)), outbox : Seq(Made(service))]
        /\ reports \in Seq(Made(service)) /\ shown \in Nat
    BY <1>1 DEF EngineInv
  <1>3. CASE TakeServiceReports
    <2> DEFINE taken == Drained(reports, PollBudget)
               left == Undrained(reports, PollBudget)
    <2>1. /\ engine' = [engine EXCEPT !.stage = "publish", !.outbox = taken]
          /\ reports' = left
          /\ UNCHANGED <<service, ports, replies, metrics, shown, due, owed, drained>>
      BY <1>3 DEF TakeServiceReports
    <2>2. taken \in Seq(Made(service)) /\ left \in Seq(Made(service))
      BY <1>2, DrainedParts, EndpointAssumption
    <2> HIDE DEF taken, left
    <2>3. engine' \in [stage : Stages, left : 0 .. PollBudget,
                       commands : Seq(Received(service)), outbox : Seq(Made(service))]
      BY <1>2, <2>1, <2>2 DEF Stages
    <2>4. PortsInv' /\ RepliesInv'
      BY <1>1, <2>1, PortsKept, RepliesKept
    <2>5. QED
      BY <1>1, <1>2, <2>1, <2>2, <2>3, <2>4 DEF EndpointIInv, EngineInv
  <1>4. CASE PublishReport
    <2> DEFINE rep == Head(engine.outbox)
               fits == Len(replies) < ReplyCap
               answer == IF fits THEN "Accepted" ELSE "WouldBlock"
    <2>1. /\ engine.outbox # <<>>
          /\ metrics' = Recorded("replies", answer)
          /\ replies' = IF fits THEN Append(replies, EncodeRep(service, rep)) ELSE replies
          /\ owed' = IF fits THEN Append(owed, rep) ELSE owed
          /\ engine' = [engine EXCEPT !.outbox = Tail(@)]
          /\ UNCHANGED <<service, ports, reports, shown, due, drained>>
      BY <1>4 DEF PublishReport
    <2>2. engine.outbox \in Seq(Made(service))
      BY <1>2
    <2>3. rep \in Made(service) /\ Tail(engine.outbox) \in Seq(Made(service))
      BY <2>1, <2>2, HeadTailProperties
    <2>4. answer \in Outcomes
      BY DEF Outcomes
    <2> HIDE DEF rep, fits, answer
    <2>5. engine' \in [stage : Stages, left : 0 .. PollBudget,
                       commands : Seq(Received(service)), outbox : Seq(Made(service))]
      BY <1>2, <2>1, <2>3
    <2>6. PortsInv'
      <3> DEFINE row == [metrics["replies"] EXCEPT ![answer] = @ + 1]
      <3>1. metrics' = [metrics EXCEPT !["replies"] = row] /\ row \in [Outcomes -> Nat]
        BY <1>1, <2>1, <2>4, RecordedRow
      <3> HIDE DEF row
      <3>2. metrics \in [Classes \cup {"replies"} -> [Outcomes -> Nat]]
        BY <1>1 DEF PortsInv
      <3>3. /\ metrics' \in [Classes \cup {"replies"} -> [Outcomes -> Nat]]
            /\ \A class \in Classes : metrics'[class] = metrics[class]
        BY <3>1, <3>2 DEF Classes
      <3>4. QED
        BY <1>1, <2>1, <3>3 DEF PortsInv
    <2>7. RepliesInv'
      <3>1. /\ replies \in Seq(WireReps(service)) /\ owed \in Seq(Made(service))
            /\ Len(replies) = Len(owed)
            /\ \A i \in 1 .. Len(owed) : replies[i] = EncodeRep(service, owed[i])
        BY <1>1 DEF RepliesInv, WiresReps
      <3>2. CASE ~fits
        BY <1>1, <2>1, <3>2, RepliesKept
      <3>3. CASE fits
        <4>1. EncodeRep(service, rep) \in WireReps(service)
          BY <2>3 DEF WireReps
        <4>2. PICK q \in Seq(WireReps(service)) : q = Append(replies, EncodeRep(service, rep))
          BY <3>1, <4>1, AppendProperties
        <4>3. PICK e \in Seq(Made(service)) : e = Append(owed, rep)
          BY <2>3, <3>1, AppendProperties
        <4>4. /\ Len(q) = Len(replies) + 1 /\ q[Len(replies) + 1] = EncodeRep(service, rep)
              /\ \A i \in 1 .. Len(replies) : q[i] = replies[i]
          BY <3>1, <4>1, <4>2, AppendProperties
        <4>5. /\ Len(e) = Len(owed) + 1 /\ e[Len(owed) + 1] = rep
              /\ \A i \in 1 .. Len(owed) : e[i] = owed[i]
          BY <2>3, <3>1, <4>3, AppendProperties
        <4>6. Len(owed) \in Nat
          BY <3>1, LenProperties
        <4>7. \A i \in 1 .. Len(e) : q[i] = EncodeRep(service, e[i])
          <5> SUFFICES ASSUME NEW i \in 1 .. Len(e) PROVE q[i] = EncodeRep(service, e[i])
            OBVIOUS
          <5>1. CASE i = Len(owed) + 1
            BY <3>1, <4>4, <4>5, <5>1
          <5>2. CASE i \in 1 .. Len(owed)
            BY <3>1, <4>4, <4>5, <5>2
          <5>3. QED
            BY <4>5, <4>6, <5>1, <5>2
        <4>8. WiresReps(service, q, e)
          BY <3>1, <4>4, <4>5, <4>7 DEF WiresReps
        <4>9. replies' = q /\ owed' = e
          BY <2>1, <3>3, <4>2, <4>3
        <4>10. service' = service
          BY <2>1
        <4>11. QED
          BY <4>8, <4>9, <4>10 DEF RepliesInv
      <3>4. QED
        BY <3>2, <3>3
    <2>8. QED
      BY <1>1, <1>2, <2>1, <2>5, <2>6, <2>7 DEF EndpointIInv, EngineInv
  <1>5. QED
    BY <1>3, <1>4

\* A poll begins or ends, or the scheduler takes the replies.
LEMMA RestKeeps ==
    ASSUME EndpointIInv, BeginPoll \/ EndPoll \/ DrainReports
    PROVE  EndpointIInv'
PROOF
  <1>1. service \in Services /\ PortsInv /\ RepliesInv /\ EngineInv
    BY DEF EndpointIInv
  <1>2. /\ engine \in [stage : Stages, left : 0 .. PollBudget,
                       commands : Seq(Received(service)), outbox : Seq(Made(service))]
        /\ reports \in Seq(Made(service)) /\ shown \in Nat
    BY <1>1 DEF EngineInv
  <1>3. CASE BeginPoll
    <2>1. /\ engine' = [engine EXCEPT !.stage = "Lossless", !.left = PollBudget]
          /\ UNCHANGED <<service, ports, replies, metrics, reports, shown, due, owed, drained>>
      BY <1>3 DEF BeginPoll
    <2>2. PollBudget \in 0 .. PollBudget /\ "Lossless" \in Stages
      BY EndpointAssumption DEF Stages, Classes
    <2>3. engine' \in [stage : Stages, left : 0 .. PollBudget,
                       commands : Seq(Received(service)), outbox : Seq(Made(service))]
      BY <1>2, <2>1, <2>2
    <2>4. QED
      BY <1>1, <1>2, <2>1, <2>3, PortsKept, RepliesKept DEF EndpointIInv, EngineInv
  <1>4. CASE EndPoll
    <2>1. /\ engine' = NewEngine
          /\ UNCHANGED <<service, ports, replies, metrics, reports, shown, due, owed, drained>>
      BY <1>4 DEF EndPoll
    <2>2. engine' \in [stage : Stages, left : 0 .. PollBudget,
                       commands : Seq(Received(service)), outbox : Seq(Made(service))]
      BY <2>1, EmptySeq, EndpointAssumption DEF NewEngine, Stages
    <2>3. QED
      BY <1>1, <1>2, <2>1, <2>2, PortsKept, RepliesKept DEF EndpointIInv, EngineInv
  <1>5. CASE DrainReports
    <2>1. /\ replies' = <<>> /\ owed' = <<>>
          /\ UNCHANGED <<service, ports, metrics, engine, reports, shown, due, drained>>
      BY <1>5 DEF DrainReports
    <2>2. RepliesInv'
      BY <2>1, EmptySeq DEF RepliesInv, WiresReps
    <2>3. QED
      BY <1>1, <1>2, <2>1, <2>2, PortsKept DEF EndpointIInv, EngineInv
  <1>6. QED
    BY <1>3, <1>4, <1>5

\* The invariant holds in every reachable state.
LEMMA EndpointInvariant == EndpointSpec => []EndpointIInv
PROOF
  <1>1. EndpointIInv /\ [EndpointNext]_endpointVars => EndpointIInv'
    <2> SUFFICES ASSUME EndpointIInv, [EndpointNext]_endpointVars PROVE EndpointIInv'
      OBVIOUS
    <2>1. CASE UNCHANGED endpointVars
      BY <2>1, PortsKept, RepliesKept DEF endpointVars, EndpointIInv, EngineInv
    <2>2. CASE EndpointNext
      BY <2>2, SubmitKeeps, DrainPortKeeps, ExecuteCommandKeeps, ReportsKeep, RestKeeps
      DEF EndpointNext
    <2>3. QED
      BY <2>1, <2>2
  <1>2. QED
    BY <1>1, EndpointInitIInv, PTL DEF EndpointSpec

-----------------------------------------------------------------------------

\* What the submitter was told is what happens: whatever the sizes of the rings,
\* the queue and the budget, and for whatever groups, the commands accepted at a
\* port are those the worker drained from it and those that wait there.
THEOREM SubmitterWasTold == EndpointSpec => []OutcomesExact
PROOF
  <1>1. EndpointIInv => OutcomesExact
    BY DEF EndpointIInv, PortsInv, PortSound, OutcomesExact
  <1>2. QED
    BY <1>1, EndpointInvariant, PTL

\* While ticks and loads are for group 0, commands and reports pass a port in the
\* order they were accepted, once each, with all that the one who gets them reads.
THEOREM MessagesPassIntact ==
    ASSUME GroupsSent = {0} PROVE EndpointSpec => []MessagesIntact
PROOF
  <1>1. EndpointIInv => MessagesIntact
    <2> SUFFICES ASSUME EndpointIInv PROVE MessagesIntact
      OBVIOUS
    <2>1. service \in Services /\ PortsInv /\ RepliesInv
      BY DEF EndpointIInv
    <2>2. ASSUME NEW class \in Classes
          PROVE  /\ Len(ports[class]) = Len(due[class])
                 /\ \A i \in DOMAIN due[class] :
                      Meant(DecodeCmd(service, ports[class][i])) = Meant(due[class][i])
      <3>1. /\ due[class] \in Seq(Commands(service)) /\ Len(ports[class]) = Len(due[class])
            /\ \A i \in 1 .. Len(due[class]) : ports[class][i] = EncodeCmd(service, due[class][i])
        BY <2>1 DEF PortsInv, PortSound, WiresCmds
      <3>2. DOMAIN due[class] = 1 .. Len(due[class])
        BY <3>1, LenProperties
      <3>3. \A i \in 1 .. Len(due[class]) : due[class][i] \in Commands(service)
        BY <3>1, ElementOfSeq
      <3>4. QED
        BY <2>1, <3>1, <3>2, <3>3, CommandIntact
    <2>3. /\ Len(replies) = Len(owed)
          /\ \A i \in DOMAIN owed : Read(DecodeRep(service, replies[i])) = Read(owed[i])
      <3>1. /\ owed \in Seq(Made(service)) /\ Len(replies) = Len(owed)
            /\ \A i \in 1 .. Len(owed) : replies[i] = EncodeRep(service, owed[i])
        BY <2>1 DEF RepliesInv, WiresReps
      <3>2. DOMAIN owed = 1 .. Len(owed)
        BY <3>1, LenProperties
      <3>3. \A i \in 1 .. Len(owed) : owed[i] \in Made(service)
        BY <3>1, ElementOfSeq
      <3>4. QED
        BY <2>1, <3>1, <3>2, <3>3, ReportIntact
    <2>4. QED
      BY <2>2, <2>3 DEF MessagesIntact
  <1>2. QED
    BY <1>1, EndpointInvariant, PTL

(***************************************************************************)
(* The frame pipeline, for pools, event rings and scenarios of every size  *)
(* and on both targets: shape, order, pairing, and that everything is back *)
(* in its place at the end.                                                *)
(*                                                                         *)
(* Frames are numbered, so the whole state can be told from counts: which  *)
(* frames were pushed, popped, announced. The invariant says how many      *)
(* slots and events there are between those counts (CountsAgree), that no  *)
(* slot is in two places (Apart), which frame lies in which slot (InSlots) *)
(* and which event names it (Told, Paired).                                *)
(***************************************************************************)

(* Where the worker is, or comes back to after waiting.                    *)
Waits == ppc \in {"load", "compare", "parked"}
Place == IF Waits THEN back ELSE ppc

Owned == Place \in {"write", "ready"}

Holding == cpc \in {"event", "release", "notify_pop", "notify_last_pop", "last_release"}

Own == IF Owned THEN 1 ELSE 0
Hold == IF Holding THEN 1 ELSE 0

Pushed == current + (IF Place = "event" THEN 1 ELSE 0)
Popped == Len(frames) + Hold

Typed ==
    /\ target \in Targets
    /\ free \in Seq(Slots) /\ ready \in Seq(Slots)
    /\ data \in [Slots -> Frames]
    /\ events \in Seq(Frames \X Slots)
    /\ counter \in [Waitable -> 0 .. FrameCount]
    /\ ppc \in {"acquire", "write", "ready", "event", "load", "compare", "parked"}
    /\ back \in {"acquire", "ready", "event"}
    /\ expected \in 0 .. FrameCount
    /\ current \in 0 .. FrameCount /\ pslot \in Slots
    /\ cpc \in ConsumerTable
    /\ cslot \in Slots /\ waking \in Waitable
    /\ budget \in 0 .. DrainBudget
    /\ frames \in Seq(Frames) /\ announced \in Seq(Frames)

(* What each target's consumer goes through; the worker never waits for    *)
(* room on the ready ring.                                                 *)
Turns ==
    /\ Waits => back # "ready"
    /\ cpc # "mismatch"
    /\ ~Parks => cpc \in {"pop", "event", "release"}
    /\ cpc = "event" => ~Parks

CountsAgree ==
    /\ Len(free) + Len(ready) + Own + Hold = SlotCount
    /\ Len(ready) = Pushed - Popped
    /\ Len(events) = current - Len(announced)
    /\ Len(events) <= EventCap
    /\ Place # "acquire" => current < FrameCount
    /\ counter["free"] = Len(frames)
    /\ counter["ready"] = Popped
    /\ counter["event"] = Len(announced)

Apart ==
    /\ \A i, j \in 1 .. Len(free) : free[i] = free[j] => i = j
    /\ \A i, j \in 1 .. Len(ready) : ready[i] = ready[j] => i = j
    /\ \A i \in 1 .. Len(free), j \in 1 .. Len(ready) : free[i] # ready[j]
    /\ Owned => /\ \A i \in 1 .. Len(free) : free[i] # pslot
                /\ \A i \in 1 .. Len(ready) : ready[i] # pslot
    /\ Holding => /\ \A i \in 1 .. Len(free) : free[i] # cslot
                  /\ \A i \in 1 .. Len(ready) : ready[i] # cslot
    /\ Owned /\ Holding => pslot # cslot

InSlots ==
    /\ \A i \in 1 .. Len(ready) : data[ready[i]] = Popped + i - 1
    /\ Place = "ready" => data[pslot] = current
    /\ Holding => data[cslot] = Len(frames)

Told ==
    /\ \A i \in 1 .. Len(events) : events[i][1] = Len(announced) + i - 1
    /\ \A i \in 1 .. Len(frames) : frames[i] = i - 1
    /\ \A i \in 1 .. Len(announced) : announced[i] = i - 1

(* Natively each frame is announced between its two halves, so the slot of *)
(* an event that waits is known.                                           *)
SlotOf(n) == IF n >= Popped THEN ready[n - Popped + 1] ELSE cslot

Paired ==
    ~Parks =>
        /\ Len(announced) = IF cpc = "release" THEN Len(frames) + 1 ELSE Len(frames)
        /\ \A i \in 1 .. Len(events) : events[i][2] = SlotOf(Len(announced) + i - 1)
        /\ Place = "event" => pslot = SlotOf(current)

FramesIInv == Typed /\ Turns /\ CountsAgree /\ Apart /\ InSlots /\ Told /\ Paired

USE FramePipelineAssumption DEF Slots, Frames, Waitable

(* ----------------------------- sequences ------------------------------ *)

LEMMA AppendFacts ==
    ASSUME NEW S, NEW s \in Seq(S), NEW e \in S
    PROVE  /\ Append(s, e) \in Seq(S)
           /\ Len(Append(s, e)) = Len(s) + 1
           /\ \A i \in 1 .. Len(s) : Append(s, e)[i] = s[i]
           /\ Append(s, e)[Len(s) + 1] = e
BY AppendProperties

LEMMA TailFacts ==
    ASSUME NEW S, NEW s \in Seq(S), s # <<>>
    PROVE  /\ Tail(s) \in Seq(S)
           /\ Len(s) >= 1
           /\ Len(Tail(s)) = Len(s) - 1
           /\ \A i \in 1 .. Len(s) - 1 : Tail(s)[i] = s[i + 1]
           /\ Head(s) = s[1] /\ s[1] \in S
BY HeadTailProperties, ElementOfSeq, EmptySeq

LEMMA Lengths ==
    ASSUME Typed
    PROVE  /\ Len(free) \in Nat /\ Len(ready) \in Nat /\ Len(events) \in Nat
           /\ Len(frames) \in Nat /\ Len(announced) \in Nat /\ current \in Nat
BY LenProperties DEF Typed

LEMMA InitFrames == Init => FramesIInv
<1> SUFFICES ASSUME Init PROVE FramesIInv
  OBVIOUS
<1> USE DEF Init
<1>1. /\ Place = "acquire" /\ ~Owned /\ ~Holding /\ cpc = "pop" /\ ppc = "acquire"
      /\ Own = 0 /\ Hold = 0
  BY DEF Place, Waits, Owned, Holding, Own, Hold
<1>2. Len(free) = SlotCount /\ free \in Seq(Slots)
  <2>1. \A i \in 1 .. SlotCount : i - 1 \in Slots
    OBVIOUS
  <2> QED BY <2>1
<1>3. ready = <<>> /\ events = <<>> /\ frames = <<>> /\ announced = <<>>
  OBVIOUS
<1>4. Typed
  BY <1>2 DEF Typed, ConsumerTable
<1>5. Turns
  BY <1>1 DEF Turns, Waits
<1>5a. CountsAgree
  <2>1. /\ Len(ready) = 0 /\ Len(events) = 0 /\ Len(frames) = 0 /\ Len(announced) = 0
        /\ current = 0 /\ Pushed = 0 /\ Popped = 0
    BY <1>1, <1>3 DEF Pushed, Popped
  <2>2. counter["free"] = 0 /\ counter["ready"] = 0 /\ counter["event"] = 0
    OBVIOUS
  <2> HIDE DEF Init
  <2> QED BY <1>1, <1>2, <2>1, <2>2 DEF CountsAgree
<1>6. Apart
  <2>1. \A i, j \in 1 .. SlotCount : free[i] = free[j] => i = j
    OBVIOUS
  <2> QED BY <1>1, <1>2, <1>3, <2>1 DEF Apart
<1>7. InSlots /\ Told /\ Paired
  BY <1>1, <1>3 DEF InSlots, Told, Paired
<1> QED BY <1>4, <1>5, <1>5a, <1>6, <1>7 DEF FramesIInv

(* ------------------------------- worker ------------------------------- *)

(* Waiting, waking and trying in vain change nothing but ppc and expected. *)
LEMMA WaitIInv ==
    ASSUME FramesIInv, Place' = Place,
           (ppc \in {"acquire", "write", "ready", "event", "load", "compare", "parked"})',
           (back \in {"acquire", "ready", "event"})', (expected \in 0 .. FrameCount)',
           (Waits => back # "ready")',
           UNCHANGED <<target, free, ready, data, events, counter, current, pslot,
                       cpc, cslot, waking, budget, frames, announced>>
    PROVE  FramesIInv'
<1>1. /\ Owned' = Owned /\ Holding' = Holding /\ Own' = Own /\ Hold' = Hold
      /\ Pushed' = Pushed /\ Popped' = Popped /\ Parks' = Parks
  BY DEF Owned, Holding, Own, Hold, Pushed, Popped, Parks
<1>2. Typed' /\ Turns'
  BY <1>1 DEF FramesIInv, Typed, Turns, Waits
<1>3. CountsAgree'
  BY <1>1 DEF FramesIInv, CountsAgree
<1>4. Apart'
  BY <1>1 DEF FramesIInv, Apart
<1>5. InSlots' /\ Told'
  BY <1>1 DEF FramesIInv, InSlots, Told
<1>6. Paired'
  BY <1>1 DEF FramesIInv, Paired, SlotOf
<1> QED BY <1>2, <1>3, <1>4, <1>5, <1>6 DEF FramesIInv

LEMMA WaitAtIInv ==
    ASSUME FramesIInv, NEW place \in {"acquire", "event"}, ppc = place, WaitAt(place),
           expected' = expected,
           UNCHANGED <<target, free, ready, data, events, counter, current, pslot,
                       cpc, cslot, waking, budget, frames, announced>>
    PROVE  FramesIInv'
<1>1. Place = place /\ Place' = place
  BY DEF Place, Waits, WaitAt
<1>2. /\ (ppc \in {"acquire", "write", "ready", "event", "load", "compare", "parked"})'
      /\ (back \in {"acquire", "ready", "event"})' /\ (expected \in 0 .. FrameCount)'
      /\ (Waits => back # "ready")'
  BY DEF WaitAt, FramesIInv, Typed
<1> QED BY <1>1, <1>2, WaitIInv

LEMMA AcquireFreeIInv ==
    ASSUME FramesIInv, AcquireFree
    PROVE  FramesIInv'
<1> USE DEF AcquireFree, consumerVars
<1>1. CASE free = <<>>
  BY <1>1, WaitAtIInv
<1>2. CASE free # <<>>
  <2>1. /\ Place = "acquire" /\ Place' = "write" /\ Owned' /\ ~Owned /\ Holding' = Holding
        /\ Parks' = Parks
    BY <1>2 DEF Place, Waits, Owned, Holding, Parks
  <2>2. /\ Own = 0 /\ Own' = 1 /\ Hold' = Hold /\ Hold \in {0, 1}
        /\ Pushed' = Pushed /\ Popped' = Popped
    BY <2>1 DEF Own, Hold, Pushed, Popped
  <2>3. /\ free' \in Seq(Slots) /\ Len(free) >= 1 /\ Len(free') = Len(free) - 1
        /\ \A i \in 1 .. Len(free) - 1 : free'[i] = free[i + 1]
        /\ pslot' = free[1] /\ pslot' \in Slots
    <3>1. free \in Seq(Slots) /\ free' = Tail(free) /\ pslot' = Head(free)
      BY <1>2 DEF FramesIInv, Typed
    <3> HIDE DEF AcquireFree
    <3> QED BY <1>2, <3>1, TailFacts
  <2>4. Len(free) \in Nat /\ Len(ready) \in Nat
    BY Lengths DEF FramesIInv
  <2>5. Typed' /\ Turns'
    BY <1>2, <2>1, <2>3 DEF FramesIInv, Typed, Turns, Waits
  <2>u. /\ ready' = ready /\ events' = events /\ frames' = frames /\ announced' = announced
        /\ current' = current /\ counter' = counter /\ cslot' = cslot /\ current < FrameCount
    BY <1>2
  <2> HIDE DEF AcquireFree
  <2>6. CountsAgree'
    <3>1. CountsAgree
      BY DEF FramesIInv
    <3>2. Len(free') + Len(ready') + Own' + Hold' = SlotCount
      BY <2>u, <2>2, <2>3, <2>4, <3>1 DEF CountsAgree
    <3>3. Len(ready') = Pushed' - Popped'
      BY <2>u, <2>2, <3>1 DEF CountsAgree
    <3> QED BY <2>u, <2>1, <2>2, <3>1, <3>2, <3>3 DEF CountsAgree
  <2>7. Apart'
    <3>0. \A i \in 1 .. Len(free') :
             i + 1 \in 1 .. Len(free) /\ free'[i] = free[i + 1] /\ 1 \in 1 .. Len(free) /\ i + 1 # 1
      BY <2>3, <2>4
    <3>1. /\ \A i, j \in 1 .. Len(free') : free'[i] = free'[j] => i = j
          /\ \A i \in 1 .. Len(free') : free'[i] # pslot'
      <4>1. ASSUME NEW i \in 1 .. Len(free'), NEW j \in 1 .. Len(free'), free'[i] = free'[j]
            PROVE  i = j
        <5>1. i + 1 = j + 1
          BY <3>0, <4>1 DEF FramesIInv, Apart
        <5> QED BY <5>1, <2>3, <2>4
      <4>2. ASSUME NEW i \in 1 .. Len(free') PROVE free'[i] # pslot'
        BY <2>3, <3>0 DEF FramesIInv, Apart
      <4> QED BY <4>1, <4>2
    <3>2. /\ \A i \in 1 .. Len(free'), j \in 1 .. Len(ready) : free'[i] # ready[j]
          /\ \A j \in 1 .. Len(ready) : ready[j] # pslot'
      BY <2>3, <2>4 DEF FramesIInv, Apart
    <3>3. Holding => /\ \A i \in 1 .. Len(free') : free'[i] # cslot
                     /\ pslot' # cslot
      BY <2>3, <2>4 DEF FramesIInv, Apart
    <3> QED BY <2>u, <2>1, <3>1, <3>2, <3>3 DEF FramesIInv, Apart
  <2> USE DEF AcquireFree
  <2>8. InSlots' /\ Told'
    BY <1>2, <2>1, <2>2 DEF FramesIInv, InSlots, Told
  <2>9. Paired'
    BY <1>2, <2>1, <2>2 DEF FramesIInv, Paired, SlotOf
  <2> QED BY <2>5, <2>6, <2>7, <2>8, <2>9 DEF FramesIInv
<1> QED BY <1>1, <1>2

LEMMA WriteFrameIInv ==
    ASSUME FramesIInv, WriteFrame
    PROVE  FramesIInv'
<1> USE DEF WriteFrame, consumerVars, workerVars
<1>1. Place = "write" /\ Place' = "ready" /\ Owned' /\ Owned /\ Holding' = Holding /\ Parks' = Parks
  BY DEF Place, Waits, Owned, Holding, Parks
<1>2. Own' = Own /\ Hold' = Hold /\ Pushed' = Pushed /\ Popped' = Popped
  BY <1>1 DEF Own, Hold, Pushed, Popped
<1>3. /\ current \in Frames /\ pslot \in Slots
      /\ data'[pslot] = current
      /\ \A s \in Slots : s # pslot => data'[s] = data[s]
  BY <1>1 DEF FramesIInv, Typed, CountsAgree
<1>4. Typed' /\ Turns'
  BY <1>1, <1>3 DEF FramesIInv, Typed, Turns, Waits
<1>5. CountsAgree'
  BY <1>1, <1>2 DEF FramesIInv, CountsAgree
<1>6. Apart'
  BY <1>1 DEF FramesIInv, Apart
<1>7. InSlots'
  <2>1. \A i \in 1 .. Len(ready) : ready[i] \in Slots /\ ready[i] # pslot
    BY <1>1, ElementOfSeq DEF FramesIInv, Typed, Apart
  <2>2. Holding => cslot \in Slots /\ cslot # pslot
    BY <1>1 DEF FramesIInv, Typed, Apart
  <2> QED BY <1>1, <1>2, <1>3, <2>1, <2>2 DEF FramesIInv, InSlots
<1>8. Told'
  BY DEF FramesIInv, Told
<1>9. Paired'
  BY <1>1, <1>2 DEF FramesIInv, Paired, SlotOf
<1> QED BY <1>4, <1>5, <1>6, <1>7, <1>8, <1>9 DEF FramesIInv

(* The worker that holds a slot finds room for it.                         *)
LEMMA ReadyHasRoom == FramesIInv /\ Owned => Len(ready) < SlotCount
BY Lengths DEF FramesIInv, CountsAgree, Own, Hold

LEMMA PushReadyIInv ==
    ASSUME FramesIInv, PushReady
    PROVE  FramesIInv'
<1> USE DEF PushReady, consumerVars, Enqueue
<1>1. Place = "ready" /\ Owned /\ Holding' = Holding /\ Parks' = Parks
  BY DEF Place, Waits, Owned, Holding, Parks
<1>2. ready' = Append(ready, pslot) /\ ppc' = "event" /\ back' = back
  <2>1. ~(Len(ready) >= SlotCount)
    <3>1. Len(ready) < SlotCount /\ Len(ready) \in Nat
      BY <1>1, ReadyHasRoom, Lengths DEF FramesIInv
    <3> HIDE DEF PushReady
    <3> QED BY <3>1
  <2> QED BY <2>1
<1>3. Place' = "event" /\ ~Owned'
  BY <1>2 DEF Place, Waits, Owned
<1>4. /\ Own = 1 /\ Own' = 0 /\ Hold' = Hold /\ Hold \in {0, 1}
      /\ Pushed' = Pushed + 1 /\ Popped' = Popped /\ Pushed = current
  BY <1>1, <1>3 DEF Own, Hold, Pushed, Popped, FramesIInv, Typed
<1>5. /\ ready' \in Seq(Slots) /\ Len(ready') = Len(ready) + 1
      /\ \A i \in 1 .. Len(ready) : ready'[i] = ready[i]
      /\ ready'[Len(ready) + 1] = pslot
  <2>1. ready \in Seq(Slots) /\ pslot \in Slots
    BY DEF FramesIInv, Typed
  <2> HIDE DEF Slots, PushReady
  <2> QED BY <1>2, <2>1, AppendFacts
<1>6. Len(free) \in Nat /\ Len(ready) \in Nat /\ Len(frames) \in Nat /\ current \in Nat
      /\ Len(announced) \in Nat /\ Len(events) \in Nat
  BY Lengths DEF FramesIInv
<1>7. Typed' /\ Turns'
  BY <1>1, <1>2, <1>5 DEF FramesIInv, Typed, Turns, Waits
<1>u. /\ free' = free /\ data' = data /\ events' = events /\ frames' = frames
      /\ announced' = announced /\ current' = current /\ counter' = counter
      /\ cslot' = cslot /\ pslot' = pslot /\ cpc' = cpc
  BY <1>1, <1>2
<1> HIDE DEF PushReady
<1>8. CountsAgree'
  <2>1. CountsAgree /\ current < FrameCount
    BY <1>1 DEF FramesIInv, CountsAgree
  <2>2. Popped \in Nat
    BY <1>4, <1>6 DEF Popped
  <2>3. Len(free') + Len(ready') + Own' + Hold' = SlotCount /\ Len(ready') = Pushed' - Popped'
    BY <1>u, <1>4, <1>5, <1>6, <2>1, <2>2 DEF CountsAgree
  <2> QED
    BY <1>u, <1>4, <2>1, <2>3 DEF CountsAgree
<1>9. Apart'
  <2>1. \A i, j \in 1 .. Len(ready') : ready'[i] = ready'[j] => i = j
    <3>1. \A i \in 1 .. Len(ready') : i \in 1 .. Len(ready) \/ i = Len(ready) + 1
      BY <1>5, <1>6
    <3> QED BY <1>1, <1>5, <1>6, <3>1 DEF FramesIInv, Apart
  <2>0. \A i \in 1 .. Len(ready') :
          \/ i \in 1 .. Len(ready) /\ ready'[i] = ready[i]
          \/ ready'[i] = pslot
    <3>1. \A i \in 1 .. Len(ready') : i \in 1 .. Len(ready) \/ i = Len(ready) + 1
      BY <1>5, <1>6
    <3> QED BY <1>5, <3>1
  <2>2. \A i \in 1 .. Len(free), j \in 1 .. Len(ready') : free[i] # ready'[j]
    BY <1>1, <2>0 DEF FramesIInv, Apart
  <2>3. Holding => \A i \in 1 .. Len(ready') : ready'[i] # cslot
    BY <1>1, <2>0 DEF FramesIInv, Apart
  <2> QED BY <1>u, <1>1, <1>3, <2>1, <2>2, <2>3 DEF FramesIInv, Apart
<1>10. Popped + Len(ready) = current /\ Popped \in Nat
  BY <1>4, <1>6 DEF FramesIInv, CountsAgree, Popped
<1>11. InSlots'
  <2>1. \A i \in 1 .. Len(ready') : data[ready'[i]] = Popped + i - 1
    <3>1. \A i \in 1 .. Len(ready') : i \in 1 .. Len(ready) \/ i = Len(ready) + 1
      BY <1>5, <1>6
    <3>2. data[pslot] = current
      BY <1>1 DEF FramesIInv, InSlots
    <3> SUFFICES ASSUME NEW i \in 1 .. Len(ready') PROVE data[ready'[i]] = Popped + i - 1
      OBVIOUS
    <3>3. CASE i \in 1 .. Len(ready)
      BY <1>5, <3>3 DEF FramesIInv, InSlots
    <3>4. CASE i = Len(ready) + 1
      <4>1. data[ready'[i]] = current
        BY <1>5, <3>2, <3>4
      <4>2. Popped + i - 1 = current
        BY <1>6, <1>10, <3>4
      <4> QED BY <4>1, <4>2
    <3> QED BY <3>1, <3>3, <3>4
  <2> QED BY <1>u, <1>1, <1>3, <1>4, <2>1 DEF FramesIInv, InSlots
<1>12. Told'
  BY <1>u DEF FramesIInv, Told
<1>13. Paired'
  <2>1. SUFFICES ASSUME ~Parks PROVE Paired'
    BY <1>1 DEF Paired
  <2>2. \A n \in Nat : n < current => (SlotOf(n))' = SlotOf(n)
    <3> SUFFICES ASSUME NEW n \in Nat, n < current PROVE (SlotOf(n))' = SlotOf(n)
      OBVIOUS
    <3>1. CASE n >= Popped
      <4>1. n - Popped + 1 \in 1 .. Len(ready)
        BY <1>6, <1>10, <3>1
      <4> QED BY <1>4, <1>5, <3>1, <4>1 DEF SlotOf
    <3>2. CASE ~(n >= Popped)
      BY <1>u, <1>4, <3>2 DEF SlotOf
    <3> QED BY <3>1, <3>2
  <2>3. (SlotOf(current))' = pslot
    <3>1. current >= Popped /\ current - Popped + 1 = Len(ready) + 1
      BY <1>6, <1>10
    <3> QED BY <1>u, <1>4, <1>5, <3>1 DEF SlotOf
  <2>4. \A i \in 1 .. Len(events) :
           Len(announced) + i - 1 \in Nat /\ Len(announced) + i - 1 < current
    BY <1>6 DEF FramesIInv, CountsAgree
  <2> QED BY <1>u, <1>1, <2>1, <2>2, <2>3, <2>4 DEF FramesIInv, Paired
<1> QED BY <1>7, <1>8, <1>9, <1>11, <1>12, <1>13 DEF FramesIInv

LEMMA PushEventIInv ==
    ASSUME FramesIInv, PushEvent
    PROVE  FramesIInv'
<1> USE DEF PushEvent, consumerVars
<1>1. CASE EventRingFull
  BY <1>1, WaitAtIInv
<1>2. CASE ~EventRingFull
  <2>1. /\ Place = "event" /\ Place' = "acquire" /\ ~Owned' /\ ~Owned /\ Holding' = Holding
        /\ Parks' = Parks
    BY <1>2 DEF Place, Waits, Owned, Holding, Parks
  <2>2. current < FrameCount /\ current \in Nat /\ pslot \in Slots
    BY <2>1 DEF FramesIInv, Typed, CountsAgree
  <2>3. /\ Own = 0 /\ Own' = 0 /\ Hold' = Hold /\ Hold \in {0, 1}
        /\ Pushed' = Pushed /\ Popped' = Popped
    BY <1>2, <2>1, <2>2 DEF Own, Hold, Pushed, Popped
  <2>4. /\ free' = free /\ ready' = ready /\ data' = data /\ frames' = frames
        /\ announced' = announced /\ current' = current + 1 /\ counter' = counter
        /\ cslot' = cslot /\ pslot' = pslot /\ cpc' = cpc
        /\ events' = Append(events, <<current, pslot>>) /\ Len(events) < EventCap
    <3>1. Len(events) \in Nat
      BY Lengths DEF FramesIInv
    <3> QED BY <1>2, <3>1 DEF EventRingFull
  <2>5. /\ events' \in Seq(Frames \X Slots) /\ Len(events') = Len(events) + 1
        /\ \A i \in 1 .. Len(events) : events'[i] = events[i]
        /\ events'[Len(events) + 1] = <<current, pslot>>
    <3>1. <<current, pslot>> \in Frames \X Slots
      BY <2>2
    <3>2. events \in Seq(Frames \X Slots)
      BY DEF FramesIInv, Typed
    <3> HIDE DEF PushEvent, Frames, Slots
    <3> QED BY <2>4, <3>1, <3>2, AppendFacts
  <2>6. Len(events) \in Nat /\ Len(announced) \in Nat
    BY Lengths DEF FramesIInv
  <2>7. Typed' /\ Turns'
    <3>1. current + 1 \in 0 .. FrameCount
      BY <2>2
    <3>2. /\ target' = target /\ expected' = expected /\ back' = back /\ ppc' = "acquire"
          /\ waking' = waking /\ budget' = budget
      BY <1>2
    <3> HIDE DEF PushEvent
    <3> QED BY <2>1, <2>4, <2>5, <3>1, <3>2 DEF FramesIInv, Typed, Turns, Waits
  <2> HIDE DEF PushEvent
  <2>8. CountsAgree'
    <3>1. CountsAgree
      BY DEF FramesIInv
    <3>2. Len(events') = current' - Len(announced') /\ Len(events') <= EventCap
      BY <2>2, <2>4, <2>5, <2>6, <3>1 DEF CountsAgree
    <3>3. /\ Len(free') + Len(ready') + Own' + Hold' = SlotCount
          /\ Len(ready') = Pushed' - Popped'
      BY <2>3, <2>4, <3>1 DEF CountsAgree
    <3> QED BY <2>1, <2>3, <2>4, <3>1, <3>2, <3>3 DEF CountsAgree
  <2>9. Apart'
    BY <2>1, <2>4 DEF FramesIInv, Apart
  <2>10. InSlots'
    BY <2>1, <2>3, <2>4 DEF FramesIInv, InSlots
  <2>11. \A i \in 1 .. Len(events') : i \in 1 .. Len(events) \/ i = Len(events) + 1
    BY <2>5, <2>6
  <2>12. Len(announced) + Len(events) = current
    BY <2>2, <2>6 DEF FramesIInv, CountsAgree
  <2>13. Told'
    <3>1. ASSUME NEW i \in 1 .. Len(events') PROVE events'[i][1] = Len(announced) + i - 1
      <4>1. CASE i \in 1 .. Len(events)
        BY <2>5, <4>1 DEF FramesIInv, Told
      <4>2. CASE i = Len(events) + 1
        <5>1. events'[i][1] = current
          BY <2>5, <4>2
        <5> QED BY <2>2, <2>6, <2>12, <4>2, <5>1
      <4> QED BY <2>11, <4>1, <4>2
    <3> QED BY <2>4, <3>1 DEF FramesIInv, Told
  <2>14. Paired'
    <3>1. SUFFICES ASSUME ~Parks PROVE Paired'
      BY <2>1 DEF Paired
    <3>2. \A n : (SlotOf(n))' = SlotOf(n)
      BY <2>3, <2>4 DEF SlotOf
    <3>3. ASSUME NEW i \in 1 .. Len(events')
          PROVE  events'[i][2] = SlotOf(Len(announced) + i - 1)
      <4>1. CASE i \in 1 .. Len(events)
        BY <2>5, <3>1, <4>1 DEF FramesIInv, Paired
      <4>2. CASE i = Len(events) + 1
        <5>1. events'[i][2] = pslot /\ pslot = SlotOf(current)
          BY <2>1, <2>5, <3>1, <4>2 DEF FramesIInv, Paired
        <5>2. Len(announced) + i - 1 = current
          BY <2>2, <2>6, <2>12, <4>2
        <5> QED BY <5>1, <5>2
      <4> QED BY <2>11, <4>1, <4>2
    <3> QED BY <2>1, <2>4, <3>1, <3>2, <3>3 DEF FramesIInv, Paired
  <2> QED BY <2>7, <2>8, <2>9, <2>10, <2>13, <2>14 DEF FramesIInv
<1> QED BY <1>1, <1>2

LEMMA WorkerIInv == FramesIInv /\ Worker => FramesIInv'
<1> SUFFICES ASSUME FramesIInv, Worker PROVE FramesIInv'
  OBVIOUS
<1>1. CASE LoadExpected
  <2>1. counter[RingOf(back)] \in 0 .. FrameCount
    <3>1. RingOf(back) \in Waitable
      BY DEF FramesIInv, Typed, RingOf
    <3> QED BY <3>1 DEF FramesIInv, Typed
  <2>2. Place' = Place
    BY <1>1 DEF LoadExpected, Place, Waits
  <2>3. /\ (ppc \in {"acquire", "write", "ready", "event", "load", "compare", "parked"})'
        /\ (back \in {"acquire", "ready", "event"})' /\ (expected \in 0 .. FrameCount)'
        /\ (Waits => back # "ready")'
    BY <1>1, <2>1 DEF LoadExpected, FramesIInv, Typed, Turns, Waits
  <2> QED BY <1>1, <2>2, <2>3, WaitIInv DEF LoadExpected, consumerVars
<1>2. CASE CompareAndPark
  <2>1. Place' = Place
    BY <1>2 DEF CompareAndPark, workerVars, Place, Waits, FramesIInv, Typed
  <2>2. /\ (ppc \in {"acquire", "write", "ready", "event", "load", "compare", "parked"})'
        /\ (back \in {"acquire", "ready", "event"})' /\ (expected \in 0 .. FrameCount)'
        /\ (Waits => back # "ready")'
    BY <1>2 DEF CompareAndPark, workerVars, FramesIInv, Typed, Turns, Waits
  <2> QED BY <1>2, <2>1, <2>2, WaitIInv DEF CompareAndPark, workerVars, consumerVars
<1> QED BY <1>1, <1>2, AcquireFreeIInv, WriteFrameIInv, PushReadyIInv, PushEventIInv DEF Worker
(* ------------------------------ consumer ------------------------------ *)

(* Turning to the other ring, yielding, waking the worker.                 *)
LEMMA QuietIInv ==
    ASSUME FramesIInv, Parks, Place' = Place, Holding' = Holding,
           (ppc \in {"acquire", "write", "ready", "event", "load", "compare", "parked"})',
           (Waits => back # "ready")',
           (cpc \in ConsumerTable /\ cpc \notin {"mismatch", "event"})',
           (budget \in 0 .. DrainBudget)',
           UNCHANGED <<target, free, ready, data, events, counter, back, expected, current,
                       pslot, cslot, waking, frames, announced>>
    PROVE  FramesIInv'
<1>1. /\ Owned' = Owned /\ Own' = Own /\ Hold' = Hold
      /\ Pushed' = Pushed /\ Popped' = Popped /\ Parks'
  BY DEF Owned, Own, Hold, Pushed, Popped, Parks
<1>2. Typed' /\ Turns'
  BY <1>1 DEF FramesIInv, Typed, Turns
<1>3. CountsAgree'
  BY <1>1 DEF FramesIInv, CountsAgree
<1>4. Apart'
  BY <1>1 DEF FramesIInv, Apart
<1>5. InSlots' /\ Told' /\ Paired'
  BY <1>1 DEF FramesIInv, InSlots, Told, Paired
<1> QED BY <1>2, <1>3, <1>4, <1>5 DEF FramesIInv

(* The oldest ready slot goes to the consumer.                             *)
LEMMA PopIInv ==
    ASSUME FramesIInv, PopReadySlot, ~Holding, Holding',
           (cpc \in ConsumerTable)',
           IF Parks THEN cpc' # "event" ELSE cpc = "pop" /\ cpc' = "event"
    PROVE  FramesIInv'
<1> USE DEF PopReadySlot, workerVars
<1>1. Place' = Place /\ Owned' = Owned /\ Parks' = Parks /\ Waits' = Waits
  BY DEF Place, Waits, Owned, Parks
<1>2. /\ Own' = Own /\ Hold = 0 /\ Hold' = 1 /\ Pushed' = Pushed /\ Own \in {0, 1}
      /\ Popped' = Popped + 1 /\ Popped = Len(frames) /\ Len(frames) \in Nat
  <2>1. Len(frames) \in Nat
    BY Lengths DEF FramesIInv
  <2>2. frames' = frames /\ current' = current
    OBVIOUS
  <2> HIDE DEF PopReadySlot
  <2> QED BY <1>1, <2>1, <2>2 DEF Own, Hold, Pushed, Popped
<1>3. /\ ready' \in Seq(Slots) /\ Len(ready) >= 1 /\ Len(ready') = Len(ready) - 1
      /\ \A i \in 1 .. Len(ready) - 1 : ready'[i] = ready[i + 1]
      /\ cslot' = ready[1] /\ cslot' \in Slots
  <2>1. ready # <<>> /\ ready' = Tail(ready) /\ cslot' = Head(ready) /\ ready \in Seq(Slots)
    BY DEF FramesIInv, Typed
  <2> HIDE DEF PopReadySlot
  <2> QED BY <2>1, TailFacts
<1>u. /\ free' = free /\ data' = data /\ events' = events /\ frames' = frames
      /\ announced' = announced /\ current' = current /\ pslot' = pslot
      /\ counter' = [counter EXCEPT !["ready"] = counter["ready"] + 1]
      /\ target' = target /\ ppc' = ppc /\ back' = back /\ expected' = expected
      /\ budget' = budget /\ waking' = "ready"
  BY DEF Bumped
<1>4. /\ Len(free) \in Nat /\ Len(ready) \in Nat /\ current \in Nat /\ Len(events) \in Nat
      /\ Len(announced) \in Nat
  BY Lengths DEF FramesIInv
<1> HIDE DEF PopReadySlot
<1>5. /\ Pushed = Popped + Len(ready) /\ Pushed \in Nat /\ Pushed <= FrameCount
      /\ current <= Pushed
  <2>1. Pushed \in Nat /\ Pushed <= FrameCount /\ current <= Pushed
    BY <1>4 DEF FramesIInv, Typed, CountsAgree, Pushed
  <2> QED BY <1>2, <1>4, <2>1 DEF FramesIInv, CountsAgree
<1>6. /\ counter'["free"] = counter["free"] /\ counter'["event"] = counter["event"]
      /\ counter'["ready"] = Popped' /\ counter' \in [Waitable -> 0 .. FrameCount]
  <2>1. counter["ready"] + 1 = Popped' /\ Popped' \in 0 .. FrameCount
    <3>1. counter["ready"] = Popped
      BY DEF FramesIInv, CountsAgree
    <3>2. Popped \in Nat
      BY <1>2
    <3> QED BY <1>2, <1>3, <1>4, <1>5, <3>1, <3>2
  <2> QED BY <1>u, <2>1 DEF FramesIInv, Typed
<1>7. Typed' /\ Turns'
  BY <1>u, <1>1, <1>3, <1>6 DEF FramesIInv, Typed, Turns, Holding
<1>8. CountsAgree'
  <2>1. CountsAgree
    BY DEF FramesIInv
  <2>2. Len(ready') = Pushed' - Popped'
    BY <1>2, <1>3, <1>4, <1>5
  <2>3. Len(free') + Len(ready') + Own' + Hold' = SlotCount
    <3>1. Len(free) + Len(ready) + Own + Hold = SlotCount
      BY <2>1 DEF CountsAgree
    <3> QED BY <1>u, <1>2, <1>3, <1>4, <3>1
  <2> QED BY <1>u, <1>1, <1>6, <2>1, <2>2, <2>3 DEF CountsAgree
<1>9. \A i \in 1 .. Len(ready') :
        i + 1 \in 1 .. Len(ready) /\ ready'[i] = ready[i + 1] /\ 1 \in 1 .. Len(ready) /\ i + 1 # 1
  BY <1>3, <1>4
<1>10. Apart'
  <2>1. ASSUME NEW i \in 1 .. Len(ready'), NEW j \in 1 .. Len(ready'), ready'[i] = ready'[j]
        PROVE  i = j
    <3>1. i + 1 = j + 1
      BY <1>9, <2>1 DEF FramesIInv, Apart
    <3> QED BY <1>3, <1>4, <3>1
  <2>2. ASSUME NEW i \in 1 .. Len(ready')
        PROVE  ready'[i] # cslot' /\ (Owned => ready'[i] # pslot)
    BY <1>3, <1>9 DEF FramesIInv, Apart
  <2>3. ASSUME NEW i \in 1 .. Len(free)
        PROVE  free[i] # cslot' /\ \A j \in 1 .. Len(ready') : free[i] # ready'[j]
    BY <1>3, <1>4, <1>9 DEF FramesIInv, Apart
  <2>4. Owned => pslot # cslot'
    BY <1>3, <1>4 DEF FramesIInv, Apart
  <2> QED BY <1>u, <1>1, <2>1, <2>2, <2>3, <2>4 DEF FramesIInv, Apart
<1>11. InSlots'
  <2>1. ASSUME NEW i \in 1 .. Len(ready') PROVE data[ready'[i]] = Popped' + i - 1
    <3>1. data[ready[i + 1]] = Popped + (i + 1) - 1
      BY <1>9 DEF FramesIInv, InSlots
    <3> QED BY <1>2, <1>3, <1>4, <1>9, <3>1
  <2>2. data[cslot'] = Len(frames)
    <3>1. data[ready[1]] = Popped + 1 - 1
      BY <1>3, <1>4 DEF FramesIInv, InSlots
    <3> QED BY <1>2, <1>3, <3>1
  <2> QED BY <1>u, <1>1, <2>1, <2>2 DEF FramesIInv, InSlots
<1>12. Told'
  BY <1>u DEF FramesIInv, Told
<1>13. Paired'
  <2>1. SUFFICES ASSUME ~Parks PROVE Paired'
    BY <1>1 DEF Paired
  <2>2. cpc = "pop" /\ cpc' = "event" /\ Len(announced) = Len(frames)
    BY <2>1 DEF FramesIInv, Paired
  <2>3. ASSUME NEW n \in Nat, n >= Popped, n < Pushed
        PROVE  (SlotOf(n))' = SlotOf(n)
    <3>1. CASE n = Popped
      <4>1. SlotOf(n) = ready[1]
        BY <1>2, <3>1 DEF SlotOf
      <4>2. ~(n >= Popped')
        BY <1>2, <3>1
      <4>3. (SlotOf(n))' = cslot'
        BY <4>2 DEF SlotOf
      <4> QED BY <1>3, <4>1, <4>3
    <3>2. CASE n > Popped
      <4>1. n - Popped' + 1 \in 1 .. Len(ready') /\ n >= Popped'
        <5>1. Popped' = Popped + 1 /\ Popped \in Nat
          BY <1>2
        <5>2. Len(ready') = Len(ready) - 1 /\ Len(ready) \in Nat
          BY <1>3, <1>4
        <5>3. Pushed = Popped + Len(ready)
          BY <1>5
        <5> QED BY <2>3, <3>2, <5>1, <5>2, <5>3
      <4>2. ready'[n - Popped' + 1] = ready[n - Popped' + 1 + 1]
        BY <1>9, <4>1
      <4>3. n - Popped' + 1 + 1 = n - Popped + 1
        BY <1>2, <2>3
      <4> QED BY <2>3, <4>1, <4>2, <4>3 DEF SlotOf
    <3> QED BY <1>2, <2>3, <3>1, <3>2
  <2>4. ASSUME NEW i \in 1 .. Len(events)
        PROVE  (SlotOf(Len(announced) + i - 1))' = SlotOf(Len(announced) + i - 1)
    <3>1. /\ Len(announced) + i - 1 \in Nat /\ Len(announced) + i - 1 >= Popped
          /\ Len(announced) + i - 1 < Pushed
      <4>1. Len(events) = current - Len(announced)
        BY DEF FramesIInv, CountsAgree
      <4> QED BY <1>2, <1>4, <1>5, <2>2, <4>1
    <3>2. \A n \in Nat : n >= Popped /\ n < Pushed => (SlotOf(n))' = SlotOf(n)
      BY <2>3
    <3> QED BY <1>u, <3>1, <3>2
  <2>5. Place = "event" => (SlotOf(current))' = SlotOf(current)
    <3>1. SUFFICES ASSUME Place = "event" PROVE (SlotOf(current))' = SlotOf(current)
      OBVIOUS
    <3>2. current < Pushed
      BY <1>4, <3>1 DEF Pushed
    <3>3. current >= Popped
      BY <1>2, <1>4, <2>2 DEF FramesIInv, CountsAgree
    <3>4. \A n \in Nat : n >= Popped /\ n < Pushed => (SlotOf(n))' = SlotOf(n)
      BY <2>3
    <3> QED BY <1>u, <1>4, <3>2, <3>3, <3>4
  <2> QED BY <1>u, <1>1, <2>1, <2>2, <2>4, <2>5 DEF FramesIInv, Paired
<1> QED BY <1>7, <1>8, <1>10, <1>11, <1>12, <1>13 DEF FramesIInv
(* The oldest event is read; natively it belongs to the frame at hand.     *)
LEMMA EventIInv ==
    ASSUME FramesIInv, PopEvent, Holding' = Holding,
           (cpc \in ConsumerTable)', (budget \in 0 .. DrainBudget)',
           IF Parks THEN cpc' \notin {"event", "mismatch"} ELSE cpc = "event" /\ cpc' = "release"
    PROVE  FramesIInv'
<1> USE DEF PopEvent, workerVars
<1>1. Place' = Place /\ Owned' = Owned /\ Parks' = Parks /\ Waits' = Waits
  BY DEF Place, Waits, Owned, Parks
<1>2. Own' = Own /\ Hold' = Hold /\ Pushed' = Pushed /\ Popped' = Popped
  BY <1>1 DEF Own, Hold, Pushed, Popped
<1>u. /\ free' = free /\ ready' = ready /\ data' = data /\ frames' = frames
      /\ current' = current /\ pslot' = pslot /\ cslot' = cslot
      /\ counter' = [counter EXCEPT !["event"] = counter["event"] + 1]
      /\ target' = target /\ ppc' = ppc /\ back' = back /\ expected' = expected
      /\ waking' = "event"
  BY DEF Bumped
<1>3. /\ events' \in Seq(Frames \X Slots) /\ Len(events) >= 1 /\ Len(events') = Len(events) - 1
      /\ \A i \in 1 .. Len(events) - 1 : events'[i] = events[i + 1]
      /\ announced' = Append(announced, events[1][1]) /\ events[1][1] \in Frames
  <2>1. /\ events # <<>> /\ events' = Tail(events) /\ events \in Seq(Frames \X Slots)
        /\ announced' = Append(announced, Head(events)[1])
    BY DEF FramesIInv, Typed
  <2> HIDE DEF PopEvent
  <2>2. /\ Tail(events) \in Seq(Frames \X Slots) /\ Len(events) >= 1
        /\ Len(Tail(events)) = Len(events) - 1
        /\ \A i \in 1 .. Len(events) - 1 : Tail(events)[i] = events[i + 1]
        /\ Head(events) = events[1] /\ events[1] \in Frames \X Slots
    BY <2>1, TailFacts
  <2> QED BY <2>1, <2>2
<1> HIDE DEF PopEvent
<1>4. /\ announced' \in Seq(Frames) /\ Len(announced') = Len(announced) + 1
      /\ \A i \in 1 .. Len(announced) : announced'[i] = announced[i]
      /\ announced'[Len(announced) + 1] = events[1][1]
  <2>1. announced \in Seq(Frames)
    BY DEF FramesIInv, Typed
  <2> HIDE DEF Frames
  <2> QED BY <1>3, <2>1, AppendFacts
<1>5. /\ Len(events) \in Nat /\ Len(announced) \in Nat /\ Len(frames) \in Nat
      /\ current \in Nat /\ current <= FrameCount
  BY Lengths DEF FramesIInv, Typed
<1>6. Len(events) = current - Len(announced)
  BY DEF FramesIInv, CountsAgree
<1>7. /\ counter'["free"] = counter["free"] /\ counter'["ready"] = counter["ready"]
      /\ counter'["event"] = Len(announced') /\ counter' \in [Waitable -> 0 .. FrameCount]
  <2>1. counter["event"] = Len(announced)
    BY DEF FramesIInv, CountsAgree
  <2>2. counter["event"] + 1 = Len(announced') /\ Len(announced') \in 0 .. FrameCount
    BY <1>3, <1>4, <1>5, <1>6, <2>1
  <2> QED BY <1>u, <2>2 DEF FramesIInv, Typed
<1>8. Typed' /\ Turns'
  BY <1>u, <1>1, <1>3, <1>4, <1>7 DEF FramesIInv, Typed, Turns
<1>9. CountsAgree'
  <2>1. CountsAgree
    BY DEF FramesIInv
  <2>2. Len(events') = current' - Len(announced') /\ Len(events') <= EventCap
    BY <1>u, <1>3, <1>4, <1>5, <1>6, <2>1 DEF CountsAgree
  <2> QED BY <1>u, <1>1, <1>2, <1>7, <2>1, <2>2 DEF CountsAgree
<1>10. Apart' /\ InSlots'
  BY <1>u, <1>1, <1>2 DEF FramesIInv, Apart, InSlots
<1>11. ASSUME NEW i \in 1 .. Len(events')
       PROVE  i + 1 \in 1 .. Len(events) /\ events'[i] = events[i + 1]
  <2>1. i \in 1 .. Len(events) - 1 /\ i + 1 \in 1 .. Len(events)
    <3>1. Len(events') = Len(events) - 1 /\ Len(events) \in Nat
      BY <1>3, <1>5
    <3> QED BY <3>1
  <2> QED BY <1>3, <2>1
<1>12. events[1][1] = Len(announced)
  <2>1. events[1][1] = Len(announced) + 1 - 1
    BY <1>3, <1>5 DEF FramesIInv, Told
  <2> QED BY <1>5, <2>1
<1>13. Told'
  <2>1. ASSUME NEW i \in 1 .. Len(events') PROVE events'[i][1] = Len(announced') + i - 1
    <3>1. events[i + 1][1] = Len(announced) + (i + 1) - 1
      BY <1>11 DEF FramesIInv, Told
    <3>2. Len(announced) + (i + 1) - 1 = Len(announced') + i - 1
      BY <1>3, <1>4, <1>5
    <3> QED BY <1>11, <3>1, <3>2
  <2>2. ASSUME NEW i \in 1 .. Len(announced') PROVE announced'[i] = i - 1
    <3>1. CASE i \in 1 .. Len(announced)
      BY <1>4, <3>1 DEF FramesIInv, Told
    <3>2. CASE i = Len(announced) + 1
      BY <1>4, <1>5, <1>12, <3>2
    <3> QED BY <1>4, <1>5, <3>1, <3>2
  <2> QED BY <1>u, <2>1, <2>2 DEF FramesIInv, Told
<1>14. Paired'
  <2>1. SUFFICES ASSUME ~Parks PROVE Paired'
    BY <1>1 DEF Paired
  <2>2. cpc = "event" /\ cpc' = "release" /\ Len(announced) = Len(frames)
    BY <2>1 DEF FramesIInv, Paired
  <2>3. \A n : (SlotOf(n))' = SlotOf(n)
    BY <1>u, <1>2 DEF SlotOf
  <2>4. ASSUME NEW i \in 1 .. Len(events')
        PROVE  events'[i][2] = SlotOf(Len(announced') + i - 1)
    <3>1. events[i + 1][2] = SlotOf(Len(announced) + (i + 1) - 1)
      BY <1>11, <2>1 DEF FramesIInv, Paired
    <3>2. Len(announced) + (i + 1) - 1 = Len(announced') + i - 1
      BY <1>3, <1>4, <1>5
    <3> QED BY <1>11, <3>1, <3>2
  <2>5. Len(announced') = Len(frames') + 1
    BY <1>u, <1>4, <2>2
  <2> QED BY <1>u, <1>1, <2>1, <2>2, <2>3, <2>4, <2>5 DEF FramesIInv, Paired
<1> QED BY <1>8, <1>9, <1>10, <1>13, <1>14 DEF FramesIInv

(* The frame is read and its slot goes back to the free ring.              *)
LEMMA TakeIInv ==
    ASSUME FramesIInv, TakeFrame, Holding, ~Holding',
           (cpc \in ConsumerTable)',
           IF Parks THEN cpc' \notin {"event", "mismatch"} ELSE cpc = "release" /\ cpc' = "pop"
    PROVE  FramesIInv'
<1> USE DEF TakeFrame, workerVars, Released
<1>1. Place' = Place /\ Owned' = Owned /\ Parks' = Parks /\ Waits' = Waits
  BY DEF Place, Waits, Owned, Parks
<1>u. /\ ready' = ready /\ data' = data /\ events' = events /\ announced' = announced
      /\ current' = current /\ pslot' = pslot /\ cslot' = cslot
      /\ counter' = [counter EXCEPT !["free"] = counter["free"] + 1]
      /\ target' = target /\ ppc' = ppc /\ back' = back /\ expected' = expected
      /\ waking' = "free" /\ budget' = budget
      /\ frames' = Append(frames, data[cslot]) /\ free' = Append(free, cslot)
  BY DEF Bumped
<1> HIDE DEF TakeFrame
<1>2. data[cslot] = Len(frames) /\ data[cslot] \in Frames /\ cslot \in Slots
  BY DEF FramesIInv, Typed, InSlots
<1>3. /\ frames' \in Seq(Frames) /\ Len(frames') = Len(frames) + 1
      /\ \A i \in 1 .. Len(frames) : frames'[i] = frames[i]
      /\ frames'[Len(frames) + 1] = Len(frames)
  <2>1. frames \in Seq(Frames)
    BY DEF FramesIInv, Typed
  <2> HIDE DEF Frames
  <2> QED BY <1>u, <1>2, <2>1, AppendFacts
<1>4. /\ free' \in Seq(Slots) /\ Len(free') = Len(free) + 1
      /\ \A i \in 1 .. Len(free) : free'[i] = free[i]
      /\ free'[Len(free) + 1] = cslot
  <2>1. free \in Seq(Slots)
    BY DEF FramesIInv, Typed
  <2> HIDE DEF Slots
  <2> QED BY <1>u, <1>2, <2>1, AppendFacts
<1>5. /\ Len(free) \in Nat /\ Len(ready) \in Nat /\ Len(frames) \in Nat /\ current \in Nat
      /\ Len(announced) \in Nat
  BY Lengths DEF FramesIInv
<1>6. /\ Own' = Own /\ Own \in {0, 1} /\ Hold = 1 /\ Hold' = 0 /\ Pushed' = Pushed
      /\ Popped' = Popped /\ Popped = Len(frames) + 1
  BY <1>u, <1>1, <1>3, <1>5 DEF Own, Hold, Pushed, Popped
<1>7. /\ counter'["free"] = Len(frames') /\ counter'["ready"] = counter["ready"]
      /\ counter'["event"] = counter["event"] /\ counter' \in [Waitable -> 0 .. FrameCount]
  <2>1. counter["free"] = Len(frames) /\ counter["ready"] = Popped
    BY DEF FramesIInv, CountsAgree
  <2>2. counter["free"] + 1 = Popped /\ Popped \in 0 .. FrameCount
    BY <1>6, <2>1 DEF FramesIInv, Typed
  <2> QED BY <1>u, <1>3, <1>6, <2>1, <2>2 DEF FramesIInv, Typed
<1>8. Typed' /\ Turns'
  BY <1>u, <1>1, <1>3, <1>4, <1>7 DEF FramesIInv, Typed, Turns
<1>9. CountsAgree'
  <2>1. CountsAgree
    BY DEF FramesIInv
  <2>2. Len(free') + Len(ready') + Own' + Hold' = SlotCount
    <3>1. Len(free) + Len(ready) + Own + Hold = SlotCount
      BY <2>1 DEF CountsAgree
    <3> QED BY <1>u, <1>4, <1>5, <1>6, <3>1
  <2> QED BY <1>u, <1>1, <1>6, <1>7, <2>1, <2>2 DEF CountsAgree
<1>10. \A i \in 1 .. Len(free') : i \in 1 .. Len(free) \/ i = Len(free) + 1
  BY <1>4, <1>5
<1>11. Apart'
  <2>1. ASSUME NEW i \in 1 .. Len(free'), NEW j \in 1 .. Len(free'), free'[i] = free'[j]
        PROVE  i = j
    BY <1>4, <1>10, <2>1 DEF FramesIInv, Apart
  <2>2. ASSUME NEW i \in 1 .. Len(free')
        PROVE  /\ \A j \in 1 .. Len(ready) : free'[i] # ready[j]
               /\ Owned => free'[i] # pslot
    <3>1. CASE i \in 1 .. Len(free)
      BY <1>4, <3>1 DEF FramesIInv, Apart
    <3>2. CASE i = Len(free) + 1
      BY <1>4, <3>2 DEF FramesIInv, Apart
    <3> QED BY <1>10, <3>1, <3>2
  <2> QED BY <1>u, <1>1, <2>1, <2>2 DEF FramesIInv, Apart
<1>12. InSlots'
  BY <1>u, <1>1, <1>6 DEF FramesIInv, InSlots
<1>13. Told'
  <2>1. ASSUME NEW i \in 1 .. Len(frames') PROVE frames'[i] = i - 1
    <3>1. CASE i \in 1 .. Len(frames)
      BY <1>3, <3>1 DEF FramesIInv, Told
    <3>2. CASE i = Len(frames) + 1
      BY <1>3, <1>5, <3>2
    <3> QED BY <1>3, <1>5, <3>1, <3>2
  <2> QED BY <1>u, <2>1 DEF FramesIInv, Told
<1>14. Paired'
  <2>1. SUFFICES ASSUME ~Parks PROVE Paired'
    BY <1>1 DEF Paired
  <2>2. cpc = "release" /\ cpc' = "pop" /\ Len(announced) = Len(frames) + 1
    BY <2>1 DEF FramesIInv, Paired
  <2>3. \A n : (SlotOf(n))' = SlotOf(n)
    BY <1>u, <1>6 DEF SlotOf
  <2> QED BY <1>u, <1>1, <1>3, <2>1, <2>2, <2>3 DEF FramesIInv, Paired
<1> QED BY <1>8, <1>9, <1>11, <1>12, <1>13, <1>14 DEF FramesIInv

LEMMA NotifyIInv ==
    ASSUME FramesIInv, WebNotify
    PROVE  FramesIInv'
<1>1. /\ cpc \in {"notify_pop", "notify_last_pop", "notify_free", "notify_last_free",
                 "notify_event", "notify_last_event"}
      /\ cpc' = AfterNotify[cpc]
      /\ ppc' = IF ppc = "parked" /\ RingOf(back) = waking THEN back ELSE ppc
      /\ UNCHANGED <<free, ready, data, events, counter, workerVars,
                     cslot, waking, budget, frames, announced>>
  BY DEF WebNotify, Notify, AfterNotify
<1>2. /\ cpc' \in ConsumerTable /\ cpc' \notin {"mismatch", "event"}
      /\ Holding' = Holding
  <2>1. CASE cpc = "notify_pop"
    BY <1>1, <2>1 DEF AfterNotify, ConsumerTable, Holding
  <2>2. CASE cpc = "notify_last_pop"
    BY <1>1, <2>2 DEF AfterNotify, ConsumerTable, Holding
  <2>3. CASE cpc = "notify_free"
    BY <1>1, <2>3 DEF AfterNotify, ConsumerTable, Holding
  <2>4. CASE cpc = "notify_last_free"
    BY <1>1, <2>4 DEF AfterNotify, ConsumerTable, Holding
  <2>5. CASE cpc = "notify_event"
    BY <1>1, <2>5 DEF AfterNotify, ConsumerTable, Holding
  <2>6. CASE cpc = "notify_last_event"
    BY <1>1, <2>6 DEF AfterNotify, ConsumerTable, Holding
  <2> QED BY <1>1, <2>1, <2>2, <2>3, <2>4, <2>5, <2>6
<1>3. Parks
  BY <1>1 DEF FramesIInv, Turns
<1>4. Place' = Place
  BY <1>1 DEF workerVars, Place, Waits, FramesIInv, Typed
<1>5. /\ (ppc \in {"acquire", "write", "ready", "event", "load", "compare", "parked"})'
      /\ (Waits => back # "ready")' /\ (budget \in 0 .. DrainBudget)'
  BY <1>1 DEF workerVars, Waits, FramesIInv, Typed, Turns
<1> QED BY <1>1, <1>2, <1>3, <1>4, <1>5, QuietIInv DEF workerVars

LEMMA ConsumerIInv == FramesIInv /\ Consumer => FramesIInv'
<1> SUFFICES ASSUME FramesIInv, Consumer PROVE FramesIInv'
  OBVIOUS
<1>1. CASE NativePop
  BY <1>1, PopIInv DEF NativePop, Holding, ConsumerTable
<1>2. CASE NativeEvent
  <2>1. Head(events) = <<data[cslot], cslot>>
    <3>1. /\ events # <<>> /\ events \in Seq(Frames \X Slots) /\ ~Parks /\ cpc = "event"
          /\ Holding
      BY <1>2 DEF NativeEvent, PopEvent, FramesIInv, Typed, Holding
    <3>2. /\ Head(events) = events[1] /\ events[1] \in Frames \X Slots /\ Len(events) >= 1
          /\ Len(events) \in Nat /\ Len(announced) \in Nat /\ Len(frames) \in Nat
      BY <3>1, TailFacts, Lengths DEF FramesIInv
    <3>3. Len(announced) = Len(frames) /\ data[cslot] = Len(frames)
      BY <3>1 DEF FramesIInv, Paired, InSlots
    <3>4. events[1][1] = Len(announced) + 1 - 1 /\ events[1][2] = SlotOf(Len(announced) + 1 - 1)
      BY <3>1, <3>2 DEF FramesIInv, Told, Paired
    <3>5. Len(announced) + 1 - 1 = Len(frames) /\ Popped = Len(frames) + 1
      BY <3>1, <3>2, <3>3 DEF Popped, Hold
    <3>6. SlotOf(Len(frames)) = cslot
      BY <3>2, <3>5 DEF SlotOf
    <3> QED BY <3>2, <3>3, <3>4, <3>5, <3>6
  <2>2. cpc = "event" /\ cpc' = "release" /\ PopEvent /\ ~Parks /\ budget' = budget
    BY <1>2, <2>1 DEF NativeEvent
  <2>3. Holding' = Holding /\ cpc' \in ConsumerTable
    BY <2>2 DEF Holding, ConsumerTable
  <2>4. budget' \in 0 .. DrainBudget
    BY <2>2 DEF FramesIInv, Typed
  <2> QED BY <2>2, <2>3, <2>4, EventIInv
<1>3. CASE NativeRelease
  BY <1>3, TakeIInv DEF NativeRelease, Holding, ConsumerTable
<1>4. CASE WebPop
  BY <1>4, PopIInv DEF WebPop, Holding, ConsumerTable, AfterNotify
<1>5. CASE WebRelease
  BY <1>5, TakeIInv DEF WebRelease, Holding, ConsumerTable, AfterNotify
<1>6. CASE WebTurnToEvents
  <2>1. /\ Parks /\ Place' = Place /\ Holding' = Holding
        /\ (cpc \in ConsumerTable /\ cpc \notin {"mismatch", "event"})'
        /\ (budget \in 0 .. DrainBudget)'
    BY <1>6 DEF WebTurnToEvents, workerVars, Place, Waits, Holding, ConsumerTable
  <2>2. /\ (ppc \in {"acquire", "write", "ready", "event", "load", "compare", "parked"})'
        /\ (Waits => back # "ready")'
    BY <1>6 DEF WebTurnToEvents, workerVars, Waits, FramesIInv, Typed, Turns
  <2> QED BY <1>6, <2>1, <2>2, QuietIInv DEF WebTurnToEvents, workerVars
<1>7. CASE WebEvent
  <2>1. /\ PopEvent /\ Parks /\ Holding' = Holding
        /\ cpc' \in ConsumerTable /\ cpc' \notin {"event", "mismatch"}
    BY <1>7 DEF WebEvent, Holding, ConsumerTable, AfterNotify
  <2>2. budget' \in 0 .. DrainBudget
    BY <1>7 DEF WebEvent, FramesIInv, Typed
  <2> QED BY <2>1, <2>2, EventIInv
<1>8. CASE WebEndTurn
  <2>1. /\ Parks /\ Place' = Place /\ Holding' = Holding
        /\ (cpc \in ConsumerTable /\ cpc \notin {"mismatch", "event"})'
    BY <1>8 DEF WebEndTurn, workerVars, Place, Waits, Holding, ConsumerTable
  <2>2. /\ (ppc \in {"acquire", "write", "ready", "event", "load", "compare", "parked"})'
        /\ (Waits => back # "ready")' /\ (budget \in 0 .. DrainBudget)'
    BY <1>8 DEF WebEndTurn, workerVars, Waits, FramesIInv, Typed, Turns
  <2> QED BY <1>8, <2>1, <2>2, QuietIInv DEF WebEndTurn, workerVars
<1>9. CASE WebReturn
  <2>1. /\ Parks /\ Place' = Place /\ Holding' = Holding
        /\ (cpc \in ConsumerTable /\ cpc \notin {"mismatch", "event"})'
    BY <1>9 DEF WebReturn, workerVars, Place, Waits, Holding, ConsumerTable
  <2>2. /\ (ppc \in {"acquire", "write", "ready", "event", "load", "compare", "parked"})'
        /\ (Waits => back # "ready")' /\ (budget \in 0 .. DrainBudget)'
    BY <1>9 DEF WebReturn, workerVars, Waits, FramesIInv, Typed, Turns
  <2> QED BY <1>9, <2>1, <2>2, QuietIInv DEF WebReturn, workerVars
<1> QED BY <1>1, <1>2, <1>3, <1>4, <1>5, <1>6, <1>7, <1>8, <1>9, NotifyIInv DEF Consumer

LEMMA NextFrames == FramesIInv /\ [Next]_vars => FramesIInv'
<1> SUFFICES ASSUME FramesIInv, [Next]_vars PROVE FramesIInv'
  OBVIOUS
<1>1. CASE UNCHANGED vars
  <2>1. Place' = Place
    BY <1>1 DEF vars, Place, Waits
  <2> QED BY <1>1, <2>1, WaitIInv DEF vars, FramesIInv, Typed, Turns, Waits
<1> QED BY <1>1, WorkerIInv, ConsumerIInv DEF Next

THEOREM PipelineInvariant == Spec => []FramesIInv
BY InitFrames, NextFrames, PTL DEF Spec

(* Rings, counters and places keep their shape.                            *)
THEOREM PipelineTypeOK == Spec => []TypeOK
<1>1. FramesIInv => TypeOK
  <2> SUFFICES ASSUME FramesIInv PROVE TypeOK
    OBVIOUS
  <2>1. Len(free) <= SlotCount /\ Len(ready) <= SlotCount
    BY Lengths DEF FramesIInv, CountsAgree, Own, Hold
  <2>2. ToSet(free) \subseteq Slots /\ ToSet(ready) \subseteq Slots
        /\ ToSet(events) \subseteq Frames \X Slots
    <3>1. ASSUME NEW S, NEW s \in Seq(S) PROVE ToSet(s) \subseteq S
      BY ElementOfSeq DEF ToSet
    <3> QED BY <3>1 DEF FramesIInv, Typed
  <2> QED BY <2>1, <2>2 DEF FramesIInv, Typed, CountsAgree, TypeOK
<1> QED BY <1>1, PipelineInvariant, PTL

(* Frames and events arrive complete and in order on both targets, the     *)
(* native consumer's assertions hold, and no worker waits for room on the  *)
(* ready ring (produce_frame, consume_frames, native_e2e.rs).              *)
THEOREM FramesArriveInOrder == Spec => []InOrder
<1>1. FramesIInv => InOrder
  <2> SUFFICES ASSUME FramesIInv PROVE InOrder
    OBVIOUS
  <2>0. ASSUME NEW s \in Seq(Frames), \A i \in 1 .. Len(s) : s[i] = i - 1
        PROVE  s = Numbered(Len(s))
    <3>1. s = [i \in 1 .. Len(s) |-> s[i]]
      OBVIOUS
    <3>2. [i \in 1 .. Len(s) |-> s[i]] = [i \in 1 .. Len(s) |-> i - 1]
      BY <2>0
    <3> QED BY <3>1, <3>2 DEF Numbered
  <2>1. frames = Numbered(Len(frames))
    BY <2>0 DEF FramesIInv, Typed, Told
  <2>2. announced = Numbered(Len(announced))
    BY <2>0 DEF FramesIInv, Typed, Told
  <2>3. PairsMatch
    BY DEF FramesIInv, Turns, Waits, PairsMatch
  <2> QED BY <2>1, <2>2, <2>3 DEF InOrder
<1> QED BY <1>1, PipelineInvariant, PTL

(* When the native consumer has all frames, every slot is free and both    *)
(* rings are empty (assert_reconciliation).                                *)
THEOREM EverythingReturns == Spec => []Reconciled
<1>1. FramesIInv => Reconciled
  <2> SUFFICES ASSUME FramesIInv, ~Parks, Len(frames) = FrameCount, ppc = "acquire", cpc = "pop"
               PROVE  Len(free) = SlotCount /\ ready = <<>> /\ events = <<>>
    BY DEF Reconciled
  <2>1. /\ Place = "acquire" /\ Own = 0 /\ Hold = 0 /\ Pushed = current
        /\ Popped = Len(frames) /\ Len(announced) = Len(frames)
    BY Lengths DEF FramesIInv, Place, Waits, Own, Owned, Hold, Holding, Pushed, Popped, Paired
  <2>2. Len(ready) = 0 /\ Len(events) = 0 /\ Len(free) = SlotCount
    <3>1. current <= FrameCount
      BY DEF FramesIInv, Typed
    <3> QED BY <2>1, <3>1, Lengths DEF FramesIInv, CountsAgree
  <2> QED BY <2>2, EmptySeq DEF FramesIInv, Typed
<1> QED BY <1>1, PipelineInvariant, PTL
==============================================================================
