---------------------------- MODULE ServiceQueue ----------------------------
(***************************************************************************)
(* The report queue that every in-process service keeps (services-common), *)
(* as functions of its contents: LocalQueue holds the reports of commands  *)
(* that were executed at submission, and the policy of the command decides *)
(* what happens when the reports it is expected to yield do not fit.       *)
(***************************************************************************)
EXTENDS Naturals, Sequences, SequencesExt

Lesser(a, b) == IF a < b THEN a ELSE b

Fits(queue, capacity, needed) == Len(queue) + needed <= capacity

(* A bug: the queue is emptied to make room.                               *)
EvictedAll(policy, queue, capacity, needed) ==
    IF policy # "Coalesce" \/ Fits(queue, capacity, needed) THEN 0 ELSE Len(queue)

(* Coalesce pops from the front, whatever the reports are, until the new   *)
(* ones fit or nothing is left to pop.                                     *)
Evicted(policy, queue, capacity, needed) ==
    IF policy # "Coalesce" \/ Fits(queue, capacity, needed)
    THEN 0
    ELSE Lesser(Len(queue), (Len(queue) + needed) - capacity)

Kept(policy, queue, capacity, needed) ==
    SubSeq(queue, Evicted(policy, queue, capacity, needed) + 1, Len(queue))

(* The outcome handed back to the scheduler: only Accepted and Coalesced   *)
(* execute the command.                                                    *)
Admission(policy, queue, capacity, needed) ==
    IF ~Fits(Kept(policy, queue, capacity, needed), capacity, needed)
    THEN IF policy = "BestEffort" THEN "Dropped" ELSE "WouldBlock"
    ELSE IF Evicted(policy, queue, capacity, needed) = 0
         THEN "Accepted" ELSE "Coalesced"

Executes(outcome) == outcome \in {"Accepted", "Coalesced"}

(* drain_queue: at most max reports leave from the front.                  *)
Drained(queue, max) == SubSeq(queue, 1, Lesser(max, Len(queue)))

Undrained(queue, max) == SubSeq(queue, Lesser(max, Len(queue)) + 1, Len(queue))
=============================================================================
