----------------------------- MODULE LatestValue ----------------------------
(***************************************************************************)
(* What a mailbox promises: a register that holds the newest message not    *)
(* yet taken.  A send tells its caller whether it displaced one, a take     *)
(* returns the whole message and empties the register, and a take that      *)
(* finds the register empty returns nothing.                                *)
(***************************************************************************)
EXTENDS Integers, Sequences

CONSTANTS MessageSpan, Empty

VARIABLES latest, got, outcome

lvars == <<latest, got, outcome>>

Message(m, n) == [tag |-> m, words |-> [k \in 1 .. n |-> m]]

Init == latest = Empty /\ got = Empty /\ outcome = "none"

Send(m) ==
    /\ latest' = m
    /\ outcome' = IF latest = Empty THEN "accepted" ELSE "coalesced"
    /\ UNCHANGED got

Take(n) ==
    /\ latest # Empty
    /\ got' = Message(latest, n)
    /\ latest' = Empty
    /\ UNCHANGED outcome

\* A take answers "nothing" only when there is nothing.
FindNothing ==
    /\ latest = Empty
    /\ got' = Empty
    /\ UNCHANGED <<latest, outcome>>

Next == (\E m \in 0 .. MessageSpan - 1 : Send(m)) \/ (\E n \in 1 .. 2 : Take(n)) \/ FindNothing

Spec == Init /\ [][Next]_lvars
=============================================================================
