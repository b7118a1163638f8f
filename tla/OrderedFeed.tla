---------------------------- MODULE OrderedFeed -----------------------------
(***************************************************************************)
(* What a user is promised about each subject it may watch, whatever       *)
(* happens to its subscriptions and connections: the messages handed to    *)
(* its handlers are published ones, in the order they were published, none *)
(* of them twice.  Messages may be missing.                                *)
(***************************************************************************)
EXTENDS Integers

CONSTANT Subjects

VARIABLES
    published,   \* published[s]: messages of s so far, numbered from 0
    heard,       \* heard[s]: one more than the last number handed to a handler
    received     \* received[s]: how many were handed to a handler

vars == <<published, heard, received>>

TypeOK ==
    /\ published \in [Subjects -> Nat]
    /\ heard \in [Subjects -> Nat]
    /\ received \in [Subjects -> Nat]

Init ==
    /\ published = [s \in Subjects |-> 0]
    /\ heard = [s \in Subjects |-> 0]
    /\ received = [s \in Subjects |-> 0]

Publish(s) ==
    /\ published' = [published EXCEPT ![s] = @ + 1]
    /\ UNCHANGED <<heard, received>>

Deliver(s) ==
    /\ \E n \in heard[s]..(published[s] - 1) : heard' = [heard EXCEPT ![s] = n + 1]
    /\ received' = [received EXCEPT ![s] = @ + 1]
    /\ UNCHANGED published

Next == \E s \in Subjects : Publish(s) \/ Deliver(s)

Spec == Init /\ [][Next]_vars

\* No more messages of a subject are received than were published up to the
\* last one received: the counters of user.go (MarketRx, OrdersRx, TradesRx)
\* never count a message twice.
NoOvercount == \A s \in Subjects : received[s] <= heard[s] /\ heard[s] <= published[s]
=============================================================================
