----------------------------- MODULE AccountPub -----------------------------
(***************************************************************************)
(* AccountShard.runTier (trading-sim/account.go): one goroutine publishing *)
(* the orders and trades of the algo users of one tier round-robin, over   *)
(* PubLoop.  Which of the two a tick publishes is a coin toss.             *)
(***************************************************************************)
EXTENDS PubLoop

CONSTANTS
    N,         \* algo users of the tier this shard owns
    Batch,     \* 256: messages counted locally before OrdersPub, TradesPub
    MaxTicks   \* bound: ticks before stop

ASSUME NAssumption == N \in Nat \ {0}
ASSUME BatchAssumption == Batch \in Nat \ {0} /\ MaxTicks \in Nat

Users == 0..(N - 1)
Kinds == {"orders", "trades"}

VARIABLES
    seq,         \* one sequence of numbers for all users and both kinds
    userIdx,     \* the user whose turn it is
    local,       \* localOrders, localTrades
    published,   \* OrdersPub, TradesPub
    sent,        \* ghost: messages Publish accepted, per kind
    failed,      \* ghost: messages it failed to send, per kind
    turns,       \* ghost: ticks each user had
    late         \* ghost: ticks after stop was set

tickVars == <<seq, userIdx, local, published, sent, failed, turns, late>>
vars == <<loopVars, tickVars>>

TypeOK ==
    /\ LoopTypeOK
    /\ seq \in Nat /\ userIdx \in Users
    /\ local \in [Kinds -> Nat] /\ published \in [Kinds -> Nat]
    /\ sent \in [Kinds -> Nat] /\ failed \in [Kinds -> Nat]
    /\ turns \in [Users -> Nat] /\ late \in Nat

Init ==
    /\ LoopInit
    /\ seq = 0 /\ userIdx = 0
    /\ local = [k \in Kinds |-> 0] /\ published = [k \in Kinds |-> 0]
    /\ sent = [k \in Kinds |-> 0] /\ failed = [k \in Kinds |-> 0]
    /\ turns = [u \in Users |-> 0] /\ late = 0

\* The user whose turn comes next.
NextUser == (userIdx + 1) % N

\* A tick: the user's turn and the number are used up, and the message is
\* counted, before the outcome of Publish is looked at.
Tick ==
    /\ pc = "wait"
    /\ seq < MaxTicks \/ (stop /\ seq = MaxTicks)
    /\ userIdx' = NextUser
    /\ turns' = [turns EXCEPT ![userIdx] = @ + 1]
    /\ seq' = seq + 1
    /\ late' = IF stop THEN late + 1 ELSE late

Counted(k) == [local EXCEPT ![k] = @ + 1]

\* Publish works.  Both counters are looked at, and one that stands at
\* exactly Batch is moved to the shard's.
\* A bug in it: the local counter is not set back.
TickOKKeeps(k) ==
    /\ Tick
    /\ sent' = [sent EXCEPT ![k] = @ + 1]
    /\ local' = Counted(k)
    /\ published' = [j \in Kinds |->
                        published[j] + (IF Counted(k)[j] = Batch THEN Batch ELSE 0)]
    /\ pc' = "inner"
    /\ UNCHANGED <<up, stop, failed>>
TickOK(k) ==
    /\ Tick
    /\ sent' = [sent EXCEPT ![k] = @ + 1]
    /\ local' = [j \in Kinds |-> IF Counted(k)[j] = Batch THEN 0 ELSE Counted(k)[j]]
    /\ published' = [j \in Kinds |->
                        published[j] + (IF Counted(k)[j] = Batch THEN Batch ELSE 0)]
    /\ pc' = "inner"
    /\ UNCHANGED <<up, stop, failed>>

\* Publish fails on a broken connection: the loop is left at once.
TickFailed(k) ==
    /\ Tick /\ ~up
    /\ failed' = [failed EXCEPT ![k] = @ + 1]
    /\ local' = Counted(k)
    /\ pc' = "close"
    /\ UNCHANGED <<up, stop, published, sent>>

\* After the loop; the local counters end with the goroutine.
Final ==
    /\ pc = "final"
    /\ published' = [k \in Kinds |-> published[k] + local[k]]
    /\ local' = [k \in Kinds |-> 0]
    /\ pc' = "done"
    /\ UNCHANGED <<up, stop, seq, userIdx, sent, failed, turns, late>>

LoopOnly(A) == A /\ UNCHANGED tickVars

\* All the goroutine does without the broker, which may refuse connections and
\* leave those it has unread.
OwnStep ==
    \/ LoopOnly(Outer) \/ LoopOnly(DialFail) \/ LoopOnly(Inner)
    \/ LoopOnly(CloseConn) \/ LoopOnly(Sleep)
    \/ \E k \in Kinds : TickFailed(k)
    \/ Final

Next ==
    \/ OwnStep \/ LoopOnly(DialOK) \/ \E k \in Kinds : TickOK(k)
    \/ LoopOnly(Break) \/ LoopOnly(SetStop)

Spec == Init /\ [][Next]_vars

\* The goroutine keeps running, and a Write on a connection that has ended
\* returns; nothing is assumed of the broker.
FairSpec == Spec /\ WF_vars(OwnStep)

-----------------------------------------------------------------------------
(* Properties *)

\* What is counted is what was attempted, per kind: no tick is lost or counted
\* twice, even when the failures upset the batches (account.go:97-114, 124).
CountsAttempts ==
    \A k \in Kinds : published[k] + local[k] = sent[k] + failed[k]

\* Every user gets a turn in every round, failures or not: the ticks of two
\* users never differ by more than one (account.go:92-93).
EvenTurns == \A u, v \in Users : turns[u] <= turns[v] + 1

\* The goroutine returns after stop, after one more tick at most, unless the
\* broker keeps the connection of a Write and never reads it again
\* (account.go:89-101, transport.go:71, 125).
Stops == []<>~HeldUp => (stop ~> pc = "done" /\ late <= 1)

\* What is exported lags behind by less than a batch, as long as no Publish
\* failed.  A failure may take local past Batch, which only Final makes good: the
\* test is for the exact value, and a failed tick skips it (account.go:97-114).
LagsLessThanBatch == \A k \in Kinds : failed[k] = 0 => local[k] < Batch
=============================================================================
