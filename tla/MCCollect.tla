----------------------------- MODULE MCCollect ------------------------------
(* Instances of Collect for TLC.                                           *)
EXTENDS Collect

MCBounds == <<2, 5>>
MCSla == [delivery |-> 60, p99 |-> 5, p999 |-> 5]

Shard(due, got, ends, n, missing, fast, slow, bounds) ==
    [due |-> due, got |-> got, ends |-> ends, copies |-> 0, ordered |-> TRUE,
     rx |-> n, gaps |-> missing, dups |-> 0, bounds |-> bounds,
     samples |-> (2 :> fast @@ 3 :> 1 @@ 9 :> slow)]

\* A shard that lost half, one that lost nothing, one whose 55 % round to 60 %, one
\* with other buckets, and one that got nothing.
MCOthers ==
    {Shard(4, 2, TRUE, 2, 2, 1, 0, MCBounds),
     Shard(3, 3, TRUE, 3, 0, 1, 0, MCBounds),
     Shard(20, 11, TRUE, 11, 9, 1, 0, MCBounds),
     Shard(5, 5, TRUE, 5, 0, 1, 1, <<5>>),
     [Shard(2, 0, FALSE, 0, 0, 0, 0, MCBounds) EXCEPT !.samples = [v \in {2, 3, 9} |-> 0]]}
=============================================================================
