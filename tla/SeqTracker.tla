----------------------------- MODULE SeqTracker -----------------------------
(***************************************************************************)
(* The sequence check of a market subscription: what the closure built by  *)
(* subMarket (trading-sim/user.go) does with the sequence number of one    *)
(* message.  Its state is the seqState of that subscription.  Uint64       *)
(* wrap-around is out of scope: a symbol publishes at most a few thousand  *)
(* ticks per second.                                                       *)
(***************************************************************************)
EXTENDS Integers

SeqState == [last : Nat, init : BOOLEAN]

\* &seqState{}: a subscription that has seen nothing.
Fresh == [last |-> 0, init |-> FALSE]

\* What one message adds to GapCount.
\* Bugs in it: the next number in sequence counts as a gap of one; a jump counts
\* as one gap however long it is.
GapOfOffByOne(st, seq) == IF st.init /\ seq > st.last THEN seq - st.last ELSE 0
GapOfCountsOnce(st, seq) == IF st.init /\ seq > st.last + 1 THEN 1 ELSE 0
GapOf(st, seq) == IF st.init /\ seq > st.last + 1 THEN seq - st.last - 1 ELSE 0

\* What one message adds to DupCount.
\* A bug in it: a repetition counts, a late message does not.
DupOfRepeated(st, seq) == IF st.init /\ seq = st.last THEN 1 ELSE 0
DupOf(st, seq) == IF st.init /\ seq <= st.last THEN 1 ELSE 0

\* The state after the message: last moves to seq even when seq is older.
Observe(st, seq) == [last |-> seq, init |-> TRUE]
=============================================================================
