------------------------------- MODULE Mailbox ------------------------------
(***************************************************************************)
(* transport/src/mailbox.rs: a single-slot mailbox in shared memory.  A     *)
(* send overwrites the payload and advances write_seq; a take compares the  *)
(* two sequence numbers, copies write_seq to read_seq and lends the payload *)
(* to the caller.                                                           *)
(*                                                                          *)
(* SharedPort (transport-fabric/src/port.rs) guards a mailbox with a mutex. *)
(* In one address space both ends share that mutex; a worker that attaches  *)
(* to the shared memory (fabric-worker-wasm, build_worker_endpoint) wraps   *)
(* it in a mutex of its own, so the two ends do not exclude each other.     *)
(* Every access to the shared memory is a step.                             *)
(***************************************************************************)
EXTENDS Integers, Sequences

CONSTANTS
    MessageSpan,   \* message identities are taken modulo this (model bound)
    SeqSpan,       \* number of values of a sequence counter: 2^32 in the code
    OneMutex,      \* do producer and consumer share one SharedPort?
    Empty          \* no message

ASSUME MailboxAssumption ==
    /\ MessageSpan \in Nat \ {0}
    /\ SeqSpan \in Nat /\ SeqSpan > 2
    /\ OneMutex \in BOOLEAN
    /\ Empty \notin 0 .. MessageSpan - 1

Messages == 0 .. MessageSpan - 1
Seqs == 0 .. SeqSpan - 1

\* Messages differ in length: one payload word or two.
Length(m) == 1 + (m % 2)

VARIABLES
    words,      \* payload: two words
    len,        \* payload_len
    envelope,   \* envelope_packed
    writeSeq, readSeq,
    lock,       \* who holds the mutex of the SharedPort (if there is only one)
    spc,        \* producer: "idle", "word2", "len", "envelope", "seq", "outcome"
    sending,    \* the message being sent
    outcome,    \* what the last send returned
    rpc,        \* consumer: "idle", "len", "envelope", "ack", "words", "nothing"
    seen,       \* consumer: the write_seq it loaded
    reading,    \* consumer: length, tag and words read so far
    got,        \* the record handed to the caller
    latest      \* history: the newest message sent and not yet taken

mailboxVars == <<words, len, envelope, writeSeq, readSeq, lock, spc, sending, outcome,
          rpc, seen, reading, got, latest>>
shared == <<words, len, envelope, writeSeq, readSeq>>
senderVars == <<spc, sending, outcome>>
receiverVars == <<rpc, seen, reading, got>>

NoReading == [len |-> 0, tag |-> 0, words |-> <<>>]

MailboxInit ==
    /\ words = [k \in 1 .. 2 |-> 0] /\ len = 0 /\ envelope = 0
    /\ writeSeq = 0 /\ readSeq = 0
    /\ lock = "free"
    /\ spc = "idle" /\ sending = 0 /\ outcome = "none"
    /\ rpc = "idle" /\ seen = 0 /\ reading = NoReading /\ got = Empty
    /\ latest = Empty

-----------------------------------------------------------------------------
(* The mutex of SharedPort.                                                *)

Acquire(side) == IF OneMutex THEN lock = "free" /\ lock' = side ELSE UNCHANGED lock
Release       == lock' = "free"

Behind(w, r) == (w - r) % SeqSpan

\* Slips the properties below have to catch (none of them is in the code).
OverwritesFromTwo(w, r)   == Behind(w, r) > 2
HasUnreadFromTwo(w, r)    == Behind(w, r) > 1

\* The next send found the previous one unread.
Overwrites(w, r) == Behind(w, r) > 1

HasUnread(w, r) == w # r

\* What take_latest stores in read_seq.
Acknowledged(s) == s

\* The k-th word of the payload slice.
PayloadWord(k) == k

-----------------------------------------------------------------------------
(* try_send.                                                               *)

\* Bound: the sequence counters do not lap each other.
UnreadBelowSpan == Behind(writeSeq, readSeq) < SeqSpan - 1

\* ProducerPort::try_send takes the mutex; copy_payload writes the first word.
SendBegin(m) ==
    /\ spc = "idle"
    /\ UnreadBelowSpan
    /\ Acquire("producer")
    /\ sending' = m
    /\ words' = [words EXCEPT ![1] = m]
    /\ spc' = IF Length(m) = 2 THEN "word2" ELSE "len"
    /\ UNCHANGED <<len, envelope, writeSeq, readSeq, outcome, receiverVars, latest>>

SendWord2 ==
    /\ spc = "word2"
    /\ words' = [words EXCEPT ![2] = sending]
    /\ spc' = "len"
    /\ UNCHANGED <<len, envelope, writeSeq, readSeq, lock, sending, outcome,
                   receiverVars, latest>>

SendLen ==
    /\ spc = "len"
    /\ len' = Length(sending)
    /\ spc' = "envelope"
    /\ UNCHANGED <<words, envelope, writeSeq, readSeq, lock, sending, outcome,
                   receiverVars, latest>>

SendEnvelope ==
    /\ spc = "envelope"
    /\ envelope' = sending
    /\ spc' = "seq"
    /\ UNCHANGED <<words, len, writeSeq, readSeq, lock, sending, outcome,
                   receiverVars, latest>>

SendSeq ==
    /\ spc = "seq"
    /\ writeSeq' = (writeSeq + 1) % SeqSpan
    /\ spc' = "outcome"
    /\ UNCHANGED <<words, len, envelope, readSeq, lock, sending, outcome,
                   receiverVars, latest>>

\* The load of read_seq decides what the caller is told.
SendOutcome ==
    /\ spc = "outcome"
    /\ outcome' = IF Overwrites(writeSeq, readSeq) THEN "coalesced" ELSE "accepted"
    /\ latest' = sending
    /\ Release
    /\ spc' = "idle"
    /\ UNCHANGED <<shared, sending, receiverVars>>

-----------------------------------------------------------------------------
(* take_latest, and the caller's use of the borrowed record.               *)

TakeBegin ==
    /\ rpc = "idle"
    /\ Acquire("consumer")
    /\ seen' = writeSeq
    /\ reading' = NoReading
    /\ rpc' = IF HasUnread(writeSeq, readSeq) THEN "len" ELSE "nothing"
    /\ UNCHANGED <<shared, senderVars, got, latest>>

TakeLen ==
    /\ rpc = "len"
    /\ reading' = [reading EXCEPT !.len = len]
    /\ rpc' = "envelope"
    /\ UNCHANGED <<shared, lock, senderVars, seen, got, latest>>

TakeEnvelope ==
    /\ rpc = "envelope"
    /\ reading' = [reading EXCEPT !.tag = envelope]
    /\ rpc' = "ack"
    /\ UNCHANGED <<shared, lock, senderVars, seen, got, latest>>

\* read_seq is stored before the payload is looked at.
TakeAck ==
    /\ rpc = "ack"
    /\ readSeq' = Acknowledged(seen)
    /\ rpc' = "words"
    /\ UNCHANGED <<words, len, envelope, writeSeq, lock, senderVars, seen,
                   reading, got, latest>>

\* The callback of drain_records decodes the payload in place.
TakeWord ==
    /\ rpc = "words"
    /\ Len(reading.words) < reading.len
    /\ reading' = [reading EXCEPT !.words =
                     Append(@, words[PayloadWord(Len(reading.words) + 1)])]
    /\ UNCHANGED <<shared, lock, senderVars, rpc, seen, got, latest>>

TakeReturn ==
    /\ rpc = "words"
    /\ Len(reading.words) = reading.len
    /\ got' = [tag |-> reading.tag, words |-> reading.words]
    /\ latest' = Empty
    /\ Release
    /\ rpc' = "idle"
    /\ UNCHANGED <<shared, senderVars, seen, reading>>

\* None: the mutex is released and nothing was delivered.
TakeNothing ==
    /\ rpc = "nothing"
    /\ got' = Empty
    /\ Release
    /\ rpc' = "idle"
    /\ UNCHANGED <<shared, senderVars, seen, reading, latest>>

Sender ==
    \/ \E m \in Messages : SendBegin(m)
    \/ SendWord2
    \/ SendLen
    \/ SendEnvelope
    \/ SendSeq
    \/ SendOutcome

Receiver ==
    \/ TakeBegin
    \/ TakeLen
    \/ TakeEnvelope
    \/ TakeAck
    \/ TakeWord
    \/ TakeReturn
    \/ TakeNothing

MailboxNext == Sender \/ Receiver

MailboxSpec == MailboxInit /\ [][MailboxNext]_mailboxVars

\* A send runs to its end once begun; the consumer polls for ever, and the mutex
\* (parking_lot, eventually fair) lets it in again and again.
FairMailboxSpec ==
    /\ MailboxSpec
    /\ WF_mailboxVars(Sender /\ spc # "idle")
    /\ SF_mailboxVars(TakeBegin)
    /\ WF_mailboxVars(Receiver /\ rpc # "idle")

-----------------------------------------------------------------------------
(* Properties.                                                             *)

\* Shape of the state.
MailboxTypeOK ==
    /\ words \in [1 .. 2 -> Messages]
    /\ len \in 0 .. 2 /\ envelope \in Messages
    /\ writeSeq \in Seqs /\ readSeq \in Seqs
    /\ lock \in {"free", "producer", "consumer"}
    /\ spc \in {"idle", "word2", "len", "envelope", "seq", "outcome"}
    /\ sending \in Messages
    /\ outcome \in {"none", "accepted", "coalesced"}
    /\ rpc \in {"idle", "len", "envelope", "ack", "words", "nothing"}
    /\ seen \in Seqs
    /\ reading.len \in 0 .. 2 /\ reading.tag \in Messages
    /\ Len(reading.words) <= 2
    /\ latest \in Messages \union {Empty}

\* A record handed to the caller is one message: tag, length and every word
\* belong to the same send.
RecordWhole ==
    got # Empty => got = [tag   |-> got.tag,
                          words |-> [k \in 1 .. Length(got.tag) |-> got.tag]]

\* The mailbox is a register of the latest message: the consumer gets the newest
\* one, whole, once, an empty answer means that nothing is unread, and
\* "coalesced" is reported exactly when an unread message was displaced.
Register == INSTANCE LatestValue
ImplementsLatest == Register!Spec

\* An unread message does not stay in the mailbox while the consumer polls.
UnreadIsTaken == latest # Empty ~> latest = Empty
=============================================================================
