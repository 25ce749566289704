----------------------------- MODULE RecordQueue ----------------------------
(***************************************************************************)
(* What a message ring promises: a queue of records.  A record is either    *)
(* appended whole or not at all, and is delivered once, in order, with the  *)
(* contents it was sent with.                                               *)
(***************************************************************************)
EXTENDS Integers, Sequences

CONSTANTS MaxRecord, IdSpan

VARIABLES queue, delivered

qvars == <<queue, delivered>>

\* The words of a record of n words: its envelope word and its payload words.
Delivery(id, n) ==
    [k \in 1 .. n |-> IF k = 1 THEN <<"envelope", id, n>> ELSE <<"data", id, 0>>]

Init == queue = <<>> /\ delivered = <<>>

Send(id, n) ==
    /\ queue' = Append(queue, <<id, n>>)
    /\ UNCHANGED delivered

Receive ==
    /\ queue # <<>>
    /\ delivered' = Delivery(Head(queue)[1], Head(queue)[2])
    /\ queue' = Tail(queue)

Next == (\E id \in 0 .. IdSpan - 1, n \in 1 .. MaxRecord : Send(id, n)) \/ Receive

Spec == Init /\ [][Next]_qvars
=============================================================================
