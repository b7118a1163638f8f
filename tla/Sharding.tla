------------------------------ MODULE Sharding ------------------------------
(***************************************************************************)
(* Who owns what: the modulo stripe of ShardIndices, and the stripe of one *)
(* class of consecutive items (trading-sim/partition.go, and the loops of  *)
(* MarketShard.Run and AccountShard.Run that use it).  Processes compute   *)
(* it on their own, each from its --shard-id and --shard-count.            *)
(***************************************************************************)
EXTENDS Integers

\* The stripe of a shard.
ShardIndices(total, shardID, shardCount) ==
    {i \in shardID..(total - 1) : (i - shardID) % shardCount = 0}

\* A class covers the items start, ..., end - 1.
ClassRange(class) == class.start..(class.end - 1)

\* The items of a class that a shard publishes.
\* A bug in it: the stripe runs over global indices and is then offset again.
OwnedWithoutOffset(class, shardID, shardCount) ==
    ShardIndices(class.end - class.start, shardID, shardCount)
Owned(class, shardID, shardCount) ==
    {class.start + i : i \in ShardIndices(class.end - class.start, shardID, shardCount)}
=============================================================================
