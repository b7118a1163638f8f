----------------------------- MODULE MarketPub ------------------------------
(***************************************************************************)
(* MarketShard.runClass (trading-sim/market.go): one goroutine publishing  *)
(* the ticks of the symbols of one class round-robin, over PubLoop.        *)
(***************************************************************************)
EXTENDS PubLoop, Sequences

CONSTANTS
    N,         \* symbols of the class this shard owns; Run skips an empty set
    Batch,     \* 512: ticks counted locally before Published is updated
    MaxTicks   \* bound: ticks before stop

ASSUME NAssumption == N \in Nat \ {0}
ASSUME BatchAssumption == Batch \in Nat \ {0} /\ MaxTicks \in Nat

Syms == 0..(N - 1)

VARIABLES
    symSeqs,      \* next sequence number per symbol
    symIdx,       \* the symbol whose turn it is
    localPub,
    published,    \* MarketShard.Published
    ticks,        \* ticks so far
    wire,         \* ghost: the sequence numbers Publish accepted, per symbol
    sent,         \* ghost: how many it accepted
    late          \* ghost: ticks after stop was set

tickVars == <<symSeqs, symIdx, localPub, published, ticks, wire, sent, late>>
vars == <<loopVars, tickVars>>

TypeOK ==
    /\ LoopTypeOK
    /\ symSeqs \in [Syms -> Nat] /\ symIdx \in Syms
    /\ localPub \in 0..(Batch - 1) /\ published \in Nat
    /\ ticks \in Nat /\ wire \in [Syms -> Seq(Nat)] /\ sent \in Nat /\ late \in Nat

Init ==
    /\ LoopInit
    /\ symSeqs = [s \in Syms |-> 0] /\ symIdx = 0
    /\ localPub = 0 /\ published = 0
    /\ ticks = 0 /\ wire = [s \in Syms |-> <<>>] /\ sent = 0 /\ late = 0

LoopOnly(A) == A /\ UNCHANGED tickVars

\* A connection is made; numbers, turn and batch go on where they were.
\* A bug in it: the numbers start again with each connection.
DialStartsOver ==
    /\ DialOK
    /\ symSeqs' = [s \in Syms |-> 0]
    /\ UNCHANGED <<symIdx, localPub, published, ticks, wire, sent, late>>
Dial == LoopOnly(DialOK)

\* The symbol whose turn comes after that of s.
Turn(s) == (s + 1) % N

\* A tick uses up one of the symbol's numbers before Publish is called.
SeqsAfterTick == [symSeqs EXCEPT ![symIdx] = @ + 1]

\* A tick comes.  The bound leaves room for one tick after stop.
Tick ==
    /\ pc = "wait"
    /\ ticks < MaxTicks \/ (stop /\ ticks = MaxTicks)
    /\ ticks' = ticks + 1
    /\ late' = IF stop THEN late + 1 ELSE late
    /\ symSeqs' = SeqsAfterTick

\* One more tick in localPub, moved to Published when the batch is full.
Count ==
    IF localPub + 1 = Batch
    THEN published' = published + Batch /\ localPub' = 0
    ELSE localPub' = localPub + 1 /\ UNCHANGED published

TickOK ==
    /\ Tick
    /\ wire' = [wire EXCEPT ![symIdx] = Append(@, symSeqs[symIdx])]
    /\ sent' = sent + 1
    /\ symIdx' = Turn(symIdx)
    /\ Count
    /\ pc' = "inner"
    /\ UNCHANGED <<up, stop>>

\* Publish fails on a broken connection: the symbol keeps its turn.
\* Bugs in it: the turn passes on; the tick is counted.
TickFailedAdvances ==
    /\ Tick /\ ~up
    /\ symIdx' = Turn(symIdx)
    /\ pc' = "close"
    /\ UNCHANGED <<up, stop, localPub, published, wire, sent>>
TickFailedCounts ==
    /\ Tick /\ ~up
    /\ Count
    /\ pc' = "close"
    /\ UNCHANGED <<up, stop, symIdx, wire, sent>>
TickFailed ==
    /\ Tick /\ ~up
    /\ pc' = "close"
    /\ UNCHANGED <<up, stop, symIdx, localPub, published, wire, sent>>

\* After the loop; localPub ends with the goroutine.
Final ==
    /\ pc = "final"
    /\ published' = published + localPub /\ localPub' = 0
    /\ pc' = "done"
    /\ UNCHANGED <<up, stop, symSeqs, symIdx, ticks, wire, sent, late>>

\* All the goroutine does without the broker, which may refuse connections and
\* leave those it has unread.
OwnStep ==
    \/ LoopOnly(Outer) \/ LoopOnly(DialFail) \/ LoopOnly(Inner)
    \/ LoopOnly(CloseConn) \/ LoopOnly(Sleep)
    \/ TickFailed \/ Final

Next ==
    \/ OwnStep \/ Dial \/ TickOK
    \/ LoopOnly(Break) \/ LoopOnly(SetStop)

Spec == Init /\ [][Next]_vars

\* The goroutine keeps running: ticks come, dials return (they have a timeout),
\* and so does a Write on a connection that has ended.  A Write on one that works
\* need not: nothing is assumed of the broker.
FairSpec == Spec /\ WF_vars(OwnStep)

-----------------------------------------------------------------------------
(* Properties *)

\* Published, with the ticks not moved to it yet, counts exactly the messages
\* that Publish accepted: none twice, none of those that failed, across any
\* number of reconnections (market.go:87-94, 105).
CountExact == published + localPub = sent

\* The symbols of a class tick at the same rate: round-robin turns put no
\* symbol more than one accepted message ahead of another, because a failed
\* Publish does not use up the turn (market.go:87-90).
EvenTicks == \A s, t \in Syms : Len(wire[s]) <= Len(wire[t]) + 1

\* A symbol's sequence numbers are used once and in increasing order, over all
\* connections: what subscribers count as a gap is a failed Publish or a loss
\* (market.go:52-54).
SeqsIncrease ==
    \A s \in Syms : \A j, k \in 1..Len(wire[s]) : j < k => wire[s][j] < wire[s][k]

\* At most one message is published after stop: the loop may be waiting for
\* its tick when stop is set (market.go:82-84).
OneLateTick == late <= 1

\* The goroutine returns after stop, after one more message at most, and its
\* count is complete then (main waits for it before it reads the counters).  Only
\* one thing keeps it from that, whatever connections are refused or lost: a
\* Write on a connection that the broker keeps and never reads again
\* (market.go:82-87, transport.go:71, 125).
Stops == []<>~HeldUp => (stop ~> pc = "done" /\ published = sent /\ OneLateTick)
=============================================================================
