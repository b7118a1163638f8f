---------------------------- MODULE GapTracking -----------------------------
(***************************************************************************)
(* What GapCount and DupCount are worth: the sequence check of one         *)
(* subscription (SeqTracker) at the end of a path that may lose messages,  *)
(* deliver them twice or deliver them out of order.  UserConn has the real *)
(* path, a FIFO connection; this module asks what the two counters promise *)
(* for any path, which is what they are there to measure.                  *)
(***************************************************************************)
EXTENDS Integers, Sequences, FiniteSets, SequencesExt, SeqTracker

CONSTANTS
    MaxSeq,     \* bound: messages published
    MaxDups,    \* bound: messages the path duplicates
    MaxLost     \* bound: messages the path loses

ASSUME BoundsAssumption == MaxSeq \in Nat /\ MaxDups \in Nat /\ MaxLost \in Nat

VARIABLES
    fifo,       \* whether the path keeps the order; it never changes
    pubSeq,     \* the publisher's next sequence number: symSeqs[i]
    path,       \* the messages under way
    lost, copied,
    st,         \* the seqState of the subscription
    rx, gaps, dups,
    first,      \* ghost: the first sequence number received, 0 before
    received,   \* ghost: all of them
    skipped     \* ghost: the numbers jumped over, each counted as a gap

pathVars == <<fifo, pubSeq, path, lost, copied>>
countVars == <<st, rx, gaps, dups, first, received, skipped>>
vars == <<pathVars, countVars>>

TypeOK ==
    /\ fifo \in BOOLEAN
    /\ pubSeq \in Nat /\ path \in Seq(Nat) /\ lost \in Nat /\ copied \in Nat
    /\ st \in SeqState
    /\ rx \in Nat /\ gaps \in Nat /\ dups \in Nat /\ first \in Nat
    /\ received \in SUBSET Nat /\ skipped \in SUBSET Nat

Init ==
    /\ fifo \in BOOLEAN
    /\ pubSeq = 0 /\ path = <<>> /\ lost = 0 /\ copied = 0
    /\ st = Fresh /\ rx = 0 /\ gaps = 0 /\ dups = 0
    /\ first = 0 /\ received = {} /\ skipped = {}

\* runClass numbers each message of a symbol before it publishes it.
Publish ==
    /\ pubSeq < MaxSeq
    /\ pubSeq' = pubSeq + 1
    /\ path' = Append(path, pubSeq)
    /\ UNCHANGED <<fifo, lost, copied, countVars>>

Lose(i) ==
    /\ lost < MaxLost
    /\ lost' = lost + 1
    /\ path' = RemoveAt(path, i)
    /\ UNCHANGED <<fifo, pubSeq, copied, countVars>>

\* The copy goes to the back, behind messages published after the original.
Duplicate(i) ==
    /\ copied < MaxDups
    /\ copied' = copied + 1
    /\ path' = Append(path, path[i])
    /\ UNCHANGED <<fifo, pubSeq, lost, countVars>>

\* The market handler is called with a message.
Handle(seq) ==
    /\ rx' = rx + 1
    /\ gaps' = gaps + GapOf(st, seq)
    /\ dups' = dups + DupOf(st, seq)
    /\ st' = Observe(st, seq)
    /\ first' = IF st.init THEN first ELSE seq
    /\ received' = received \cup {seq}
    /\ skipped' = IF st.init THEN skipped \cup (st.last + 1)..(seq - 1) ELSE skipped

Deliver(i) ==
    /\ fifo => i = 1
    /\ Handle(path[i])
    /\ path' = RemoveAt(path, i)
    /\ UNCHANGED <<fifo, pubSeq, lost, copied>>

Next ==
    \/ Publish
    \/ \E i \in 1..Len(path) : Lose(i) \/ Duplicate(i) \/ Deliver(i)

Spec == Init /\ [][Next]_vars

-----------------------------------------------------------------------------
(* Properties *)

\* The messages that never arrived, among those between the first and the
\* highest that did.
Missing == {m \in first..pubSeq : m \notin received /\ \E r \in received : m < r}

\* Whatever the path does, no missing message goes uncounted: GapCount is at
\* least the number of holes in what arrived (user.go:123-124).  It may be
\* more: last moves back on a late message, and the next one in order then
\* counts as a gap (user.go:129).
NoUndercount == Cardinality(Missing) <= gaps

\* GapCount is never more than the number of holes without a sign of it: where
\* last moved back, and numbers already passed are counted once more, DupCount
\* has counted the message that moved it (user.go:123-129).
OvercountShows == dups = 0 => gaps = Cardinality(Missing)

\* On a path that keeps the order and copies nothing, GapCount is the number
\* of missing messages exactly, and nothing is counted as a duplicate.
Exact == fifo /\ copied = 0 => gaps = Cardinality(Missing) /\ dups = 0
=============================================================================
