---------------------------- MODULE SlotExchange ----------------------------
(***************************************************************************)
(* What a slot pool promises its two users: two FIFO queues of slot         *)
(* indices.  The producer takes slots from the free queue and appends them  *)
(* to the ready queue; the consumer takes them from the ready queue and     *)
(* appends them to the free queue.  Every operation is atomic, an empty     *)
(* answer is given only when the queue is empty, and a push always works.   *)
(***************************************************************************)
EXTENDS Integers, Sequences

CONSTANT SlotCount

VARIABLES free, ready, held, outcome

xvars == <<free, ready, held, outcome>>

Users == {"producer", "consumer"}

Init ==
    /\ free = [i \in 1 .. SlotCount |-> i - 1]
    /\ ready = <<>>
    /\ held = [a \in Users |-> {}]
    /\ outcome = [a \in Users |-> "none"]

\* The call is under way; nothing is visible to the other side yet.
Begin(a) ==
    /\ outcome' = [outcome EXCEPT ![a] = "none"]
    /\ UNCHANGED <<free, ready, held>>

FindEmpty(a, queue) ==
    /\ queue = <<>>
    /\ outcome' = [outcome EXCEPT ![a] = "empty"]
    /\ UNCHANGED <<free, ready, held>>

Finish(a, slots) ==
    /\ held' = [held EXCEPT ![a] = slots]
    /\ outcome' = [outcome EXCEPT ![a] = "ok"]

AcquireFree ==
    /\ free # <<>>
    /\ free' = Tail(free)
    /\ Finish("producer", held["producer"] \union {Head(free)})
    /\ UNCHANGED ready

PushReady(s) ==
    /\ s \in held["producer"]
    /\ ready' = Append(ready, s)
    /\ Finish("producer", held["producer"] \ {s})
    /\ UNCHANGED free

PopReady ==
    /\ ready # <<>>
    /\ ready' = Tail(ready)
    /\ Finish("consumer", held["consumer"] \union {Head(ready)})
    /\ UNCHANGED free

ReleaseFree(s) ==
    /\ s \in held["consumer"]
    /\ free' = Append(free, s)
    /\ Finish("consumer", held["consumer"] \ {s})
    /\ UNCHANGED ready

Next ==
    \/ \E a \in Users : Begin(a)
    \/ FindEmpty("producer", free)
    \/ FindEmpty("consumer", ready)
    \/ AcquireFree
    \/ PopReady
    \/ \E s \in held["producer"] : PushReady(s)
    \/ \E s \in held["consumer"] : ReleaseFree(s)

Spec == Init /\ [][Next]_xvars
=============================================================================
