---------------------------- MODULE CollectProofs ---------------------------
(***************************************************************************)
(* Proofs about GapTracking and about Collect, which extends it.           *)
(*                                                                         *)
(* GapTracking: what the counters of the sequence check promise for any    *)
(* number of messages, losses and copies, and any order of delivery.  The  *)
(* ghost skipped carries the argument: every number between the first and  *)
(* any later arrival has arrived or was skipped, and no more numbers were  *)
(* skipped than gaps counted; as long as no duplicate is counted, they are *)
(* just as many.                                                           *)
(*                                                                         *)
(* Collect: the followed shard is a GapTracking that is restarted once, so *)
(* what its counters promise holds here as well.  The files: a result is   *)
(* in the bucket whole or not at all, and a last copy that is still to     *)
(* list the files brings those in place, whatever the counters do.  The    *)
(* verdict: what the counters promise survives the merge and the rounding. *)
(***************************************************************************)
EXTENDS Collect, TallyProofs, SequenceTheorems

-----------------------------------------------------------------------------
(* GapTracking: the inductive invariant *)

\* Before the first message nothing is counted.
Untouched == ~st.init => rx = 0 /\ gaps = 0 /\ dups = 0 /\ received = {}

\* The position of the subscription is that of a message that arrived.
LastArrived == st.init => st.last \in received

\* A number between the first message and one that arrived has arrived too, or
\* was skipped.
NoneForgotten ==
    \A r \in received : \A m \in first..r : m \in received \cup skipped

SkippedCounted == IsFiniteSet(skipped) /\ Cardinality(skipped) <= gaps

IInv == TypeOK /\ Untouched /\ LastArrived /\ NoneForgotten /\ SkippedCounted

-----------------------------------------------------------------------------
(* Every step keeps IInv *)

LEMMA InitIInv == Init => IInv
<1> SUFFICES ASSUME Init PROVE IInv
  OBVIOUS
<1>1. TypeOK
  BY DEF Init, TypeOK, SeqState, Fresh
<1>2. SkippedCounted
  BY FS_EmptySet DEF Init, SkippedCounted
<1> QED
  BY <1>1, <1>2 DEF Init, IInv, Untouched, LastArrived, NoneForgotten, Fresh

\* RemoveAt leaves a sequence of what was in the path.
LEMMA Removed ==
    ASSUME NEW s \in Seq(Nat), NEW k \in 1..Len(s)
    PROVE  RemoveAt(s, k) \in Seq(Nat) /\ s[k] \in Nat
<1>1. SubSeq(s, 1, k - 1) \in Seq(Nat)
  OBVIOUS
<1>2. SubSeq(s, k + 1, Len(s)) \in Seq(Nat)
  OBVIOUS
<1>3. s[k] \in Nat
  OBVIOUS
<1> QED
  BY <1>1, <1>2, <1>3 DEF RemoveAt

\* The path changes and the counters do not.
LEMMA PathIInv ==
    ASSUME IInv, UNCHANGED <<fifo, countVars>>, pubSeq' \in Nat, path' \in Seq(Nat),
           lost' \in Nat, copied' \in Nat
    PROVE  IInv'
<1> USE DEF IInv, countVars
<1>1. TypeOK'
  BY DEF TypeOK
<1>2. Untouched' /\ LastArrived' /\ NoneForgotten'
  BY DEF Untouched, LastArrived, NoneForgotten
<1>3. SkippedCounted'
  BY DEF SkippedCounted
<1> QED
  BY <1>1, <1>2, <1>3

\* A message is counted: the numbers it jumps over are as many as the gaps it
\* adds, and nothing between the first message and it is forgotten.
LEMMA HandleIInv ==
    ASSUME IInv, NEW seq \in Nat, Handle(seq), UNCHANGED fifo, path' \in Seq(Nat),
           UNCHANGED <<pubSeq, lost, copied>>
    PROVE  IInv'
<1> DEFINE jump == (st.last + 1)..(seq - 1)
<1>1. /\ st.last \in Nat /\ st.init \in BOOLEAN /\ first \in Nat
      /\ rx \in Nat /\ gaps \in Nat /\ dups \in Nat
      /\ received \subseteq Nat /\ skipped \subseteq Nat
  BY DEF IInv, TypeOK, SeqState
<1>2. /\ rx' = rx + 1 /\ received' = received \cup {seq}
      /\ st'.last = seq /\ st'.init = TRUE /\ st' \in SeqState
      /\ first' = IF st.init THEN first ELSE seq
      /\ skipped' = IF st.init THEN skipped \cup jump ELSE skipped
      /\ gaps' = gaps + GapOf(st, seq) /\ dups' = dups + DupOf(st, seq)
  BY DEF Handle, Observe, SeqState
<1>3. /\ GapOf(st, seq) = IF st.init /\ seq > st.last + 1 THEN seq - st.last - 1 ELSE 0
      /\ DupOf(st, seq) = IF st.init /\ seq <= st.last THEN 1 ELSE 0
  BY DEF GapOf, DupOf
<1>4. st.init => IsFiniteSet(jump) /\ Cardinality(jump) <= GapOf(st, seq)
  <2>1. /\ IsFiniteSet(jump)
        /\ Cardinality(jump) = IF st.last + 1 > seq - 1 THEN 0
                               ELSE (seq - 1) - (st.last + 1) + 1
    <3>1. st.last + 1 \in Int /\ seq - 1 \in Int
      BY <1>1
    <3> QED
      BY <3>1, FS_Interval, Zenon
  <2> HIDE DEF jump
  <2> QED
    BY <1>1, <1>3, <2>1
<1>5. jump \subseteq Nat
  BY <1>1
<1>6. gaps' \in Nat /\ dups' \in Nat
  BY <1>1, <1>2, <1>3
<1>7. TypeOK'
  <2>1. first' \in Nat /\ received' \in SUBSET Nat /\ skipped' \in SUBSET Nat
        /\ rx' \in Nat
    <3> HIDE DEF jump
    <3> QED
      BY <1>1, <1>2, <1>5
  <2>2. /\ fifo \in BOOLEAN /\ pubSeq \in Nat /\ lost \in Nat /\ copied \in Nat
    BY DEF IInv, TypeOK
  <2> QED
    BY <1>2, <1>6, <2>1, <2>2 DEF TypeOK
<1>8. Untouched' /\ LastArrived'
  BY <1>2 DEF Untouched, LastArrived
<1>9. NoneForgotten'
  <2> SUFFICES ASSUME NEW r \in received', NEW m \in first'..r
               PROVE  m \in received' \cup skipped'
    BY DEF NoneForgotten
  <2>1. CASE ~st.init
    <3>1. received' = {seq} /\ first' = seq
      BY <1>2, <2>1 DEF IInv, Untouched
    <3>2. r = seq /\ m = seq
      BY <3>1
    <3> QED
      BY <3>1, <3>2
  <2>2. CASE st.init
    <3>1. first' = first /\ skipped' = skipped \cup jump /\ st.last \in received
      BY <1>2, <2>2 DEF IInv, LastArrived
    <3>2. m \in Nat /\ first <= m /\ m <= r
      BY <1>1, <1>2, <3>1
    <3>3. CASE r \in received
      BY <1>1, <1>2, <3>1, <3>2, <3>3 DEF IInv, NoneForgotten
    <3>4. CASE r = seq /\ m <= st.last
      <4>1. m \in first..st.last
        BY <1>1, <3>2, <3>4
      <4> QED
        BY <1>2, <3>1, <4>1 DEF IInv, NoneForgotten
    <3>5. CASE r = seq /\ m > st.last
      <4>1. m \in jump \/ m = seq
        BY <1>1, <3>2, <3>5
      <4> QED
        BY <1>2, <3>1, <4>1
    <3> QED
      BY <1>1, <1>2, <3>2, <3>3, <3>4, <3>5
  <2> QED
    BY <1>1, <2>1, <2>2
<1>10. SkippedCounted'
  <2>1. IsFiniteSet(skipped) /\ Cardinality(skipped) <= gaps /\ Cardinality(skipped) \in Nat
    BY FS_CardinalityType DEF IInv, SkippedCounted
  <2>2. CASE st.init
    <3>1. IsFiniteSet(jump) /\ Cardinality(jump) <= GapOf(st, seq) /\ Cardinality(jump) \in Nat
      BY <1>4, <2>2, FS_CardinalityType
    <3>2. skipped' = skipped \cup jump
      BY <1>2, <2>2
    <3> HIDE DEF jump
    <3>3. /\ IsFiniteSet(skipped') /\ IsFiniteSet(skipped \cap jump)
          /\ Cardinality(skipped') =
                Cardinality(skipped) + Cardinality(jump) - Cardinality(skipped \cap jump)
      BY <2>1, <3>1, <3>2, FS_Union, FS_Subset
    <3>4. Cardinality(skipped \cap jump) \in Nat
      BY <3>3, FS_CardinalityType
    <3>5. GapOf(st, seq) \in Nat
      BY <1>1, <1>3
    <3> QED
      BY <1>1, <1>2, <2>1, <3>1, <3>3, <3>4, <3>5 DEF SkippedCounted
  <2>3. CASE ~st.init
    BY <1>1, <1>2, <1>3, <2>1, <2>3 DEF SkippedCounted
  <2> QED
    BY <1>1, <2>2, <2>3
<1> QED
  BY <1>7, <1>8, <1>9, <1>10 DEF IInv

LEMMA NextIInv == IInv /\ [Next]_vars => IInv'
<1> SUFFICES ASSUME IInv, [Next]_vars PROVE IInv'
  OBVIOUS
<1>1. /\ pubSeq \in Nat /\ path \in Seq(Nat) /\ lost \in Nat /\ copied \in Nat
  BY DEF IInv, TypeOK
<1>2. CASE Publish
  BY <1>1, <1>2, PathIInv DEF Publish
<1>3. ASSUME NEW k \in 1..Len(path), Lose(k) PROVE IInv'
  BY <1>1, <1>3, Removed, PathIInv DEF Lose
<1>4. ASSUME NEW k \in 1..Len(path), Duplicate(k) PROVE IInv'
  <2>1. path' \in Seq(Nat) /\ copied' \in Nat
    BY <1>1, <1>4, Removed DEF Duplicate
  <2> QED
    BY <1>1, <1>4, <2>1, PathIInv DEF Duplicate
<1>5. ASSUME NEW k \in 1..Len(path), Deliver(k) PROVE IInv'
  <2>1. path[k] \in Nat /\ path' \in Seq(Nat)
    BY <1>1, <1>5, Removed DEF Deliver
  <2>2. Handle(path[k]) /\ UNCHANGED <<fifo, pubSeq, lost, copied>>
    BY <1>5 DEF Deliver
  <2> QED
    BY <2>1, <2>2, HandleIInv
<1>6. CASE UNCHANGED vars
  <2>1. UNCHANGED <<fifo, countVars, pubSeq, path, lost, copied>>
    BY <1>6 DEF vars, pathVars
  <2> QED
    BY <1>1, <2>1, PathIInv
<1> QED
  BY <1>2, <1>3, <1>4, <1>5, <1>6 DEF Next

LEMMA Invariant == Spec => []IInv
BY InitIInv, NextIInv, PTL DEF Spec

\* The missing messages are among the skipped numbers.
LEMMA MissingCounted == IInv => NoUndercount
<1> SUFFICES ASSUME IInv PROVE Cardinality(Missing) <= gaps
  BY DEF NoUndercount
<1>1. Missing \subseteq skipped
  <2> SUFFICES ASSUME NEW m \in Missing PROVE m \in skipped
    OBVIOUS
  <2>1. /\ m \in first..pubSeq /\ m \notin received
        /\ \E r \in received : m < r
    BY DEF Missing
  <2>2. PICK r \in received : m < r
    BY <2>1
  <2>3. m \in first..r
    BY <2>1, <2>2 DEF IInv, TypeOK
  <2> QED
    BY <2>1, <2>3 DEF IInv, NoneForgotten
<1>2. IsFiniteSet(skipped) /\ Cardinality(skipped) <= gaps /\ gaps \in Nat
  BY DEF IInv, SkippedCounted, TypeOK
<1>3. /\ IsFiniteSet(Missing) /\ Cardinality(Missing) <= Cardinality(skipped)
  BY <1>1, <1>2, FS_Subset
<1>4. Cardinality(Missing) \in Nat /\ Cardinality(skipped) \in Nat
  BY <1>2, <1>3, FS_CardinalityType
<1> QED
  BY <1>2, <1>3, <1>4

-----------------------------------------------------------------------------
(* A path that keeps the order and copies nothing *)

Clean == fifo /\ copied = 0

\* The messages under way are those still to come, in order, and the numbers
\* skipped are exactly the holes in what arrived.
Rising(s) == \A a \in 1..Len(s) : \A b \in 1..Len(s) : a < b => s[a] < s[b]
Ahead == \A a \in 1..Len(path) : path[a] < pubSeq /\ (st.init => st.last < path[a])
HolesSkipped ==
    /\ IsFiniteSet(skipped) /\ gaps = Cardinality(skipped) /\ dups = 0
    /\ st.init => /\ st.last \in received /\ first <= st.last /\ st.last < pubSeq
                  /\ received \cup skipped = first..st.last
    /\ ~st.init => received = {} /\ skipped = {}
    /\ received \cap skipped = {}

OInv == Clean => Rising(path) /\ Ahead /\ HolesSkipped

LEMMA InitOInv == Init => OInv
BY FS_EmptySet DEF Init, OInv, Clean, Rising, Ahead, HolesSkipped, Fresh

\* RemoveAt keeps what is left in its order.
LEMMA RemovedAt ==
    ASSUME NEW s \in Seq(Nat), NEW k \in 1..Len(s)
    PROVE  /\ Len(RemoveAt(s, k)) = Len(s) - 1
           /\ \A a \in 1..(Len(s) - 1) :
                RemoveAt(s, k)[a] = IF a < k THEN s[a] ELSE s[a + 1]
<1> DEFINE l == SubSeq(s, 1, k - 1)
           r == SubSeq(s, k + 1, Len(s))
<1>1. /\ l \in Seq(Nat) /\ Len(l) = k - 1
      /\ \A a \in 1..(k - 1) : l[a] = s[a]
  OBVIOUS
<1>2. /\ r \in Seq(Nat) /\ Len(r) = Len(s) - k
      /\ \A a \in 1..(Len(s) - k) : r[a] = s[k + a]
  OBVIOUS
<1>3. RemoveAt(s, k) = l \o r
  BY DEF RemoveAt
<1> HIDE DEF l, r
<1>4. Len(s) \in Nat /\ k \in Int /\ 1 <= k /\ k <= Len(s)
  OBVIOUS
<1>5. /\ Len(l \o r) = Len(l) + Len(r)
      /\ \A a \in 1..(Len(l) + Len(r)) :
            (l \o r)[a] = IF a <= Len(l) THEN l[a] ELSE r[a - Len(l)]
  BY <1>1, <1>2, ConcatProperties, Zenon
<1>6. Len(l) + Len(r) = Len(s) - 1
  BY <1>1, <1>2, <1>4
<1>7. ASSUME NEW a \in 1..(Len(s) - 1)
      PROVE  (l \o r)[a] = IF a < k THEN s[a] ELSE s[a + 1]
  <2>1. (l \o r)[a] = IF a <= Len(l) THEN l[a] ELSE r[a - Len(l)]
    BY <1>5, <1>6
  <2>2. CASE a < k
    BY <1>1, <1>4, <2>1, <2>2
  <2>3. CASE ~(a < k)
    <3> DEFINE b == a - Len(l)
    <3>1. b \in 1..(Len(s) - k) /\ k + b = a + 1 /\ ~(a <= Len(l))
      BY <1>1, <1>4, <2>3
    <3>2. (l \o r)[a] = r[b]
      BY <2>1, <3>1
    <3> HIDE DEF b
    <3>3. r[b] = s[k + b]
      BY <1>2, <3>1
    <3> QED
      BY <2>3, <3>1, <3>2, <3>3
  <2> QED
    BY <2>2, <2>3
<1> QED
  BY <1>3, <1>5, <1>6, <1>7

LEMMA RisingRemoved ==
    ASSUME NEW s \in Seq(Nat), NEW k \in 1..Len(s), Rising(s)
    PROVE  /\ Rising(RemoveAt(s, k))
           /\ \A a \in 1..Len(RemoveAt(s, k)) : \E b \in 1..Len(s) :
                RemoveAt(s, k)[a] = s[b] /\ (k = 1 => b > 1)
<1> DEFINE t == RemoveAt(s, k)
           at(a) == IF a < k THEN a ELSE a + 1
<1>1. Len(t) = Len(s) - 1 /\ \A a \in 1..(Len(s) - 1) : t[a] = IF a < k THEN s[a] ELSE s[a + 1]
  BY RemovedAt
<1> HIDE DEF t
<1>2. \A a \in 1..Len(t) : at(a) \in 1..Len(s) /\ t[a] = s[at(a)] /\ (k = 1 => at(a) > 1)
  BY <1>1
<1>3. \A a \in 1..Len(t) : \A b \in 1..Len(t) : a < b => at(a) < at(b)
  BY <1>1
<1> HIDE DEF at
<1>4. Rising(t)
  BY <1>2, <1>3 DEF Rising
<1> QED
  BY <1>2, <1>4 DEF t

\* A message that comes next in order: what it jumps over are new holes.
LEMMA HandleHoles ==
    ASSUME IInv, HolesSkipped, NEW seq \in Nat, Handle(seq), seq < pubSeq,
           st.init => st.last < seq, UNCHANGED pubSeq
    PROVE  HolesSkipped'
<1> DEFINE jump == (st.last + 1)..(seq - 1)
<1>1. /\ st.last \in Nat /\ st.init \in BOOLEAN /\ first \in Nat /\ pubSeq \in Nat
      /\ gaps \in Nat /\ dups \in Nat
      /\ received \subseteq Nat /\ skipped \subseteq Nat
  BY DEF IInv, TypeOK, SeqState
<1>2. /\ received' = received \cup {seq} /\ st'.last = seq /\ st'.init = TRUE
      /\ first' = IF st.init THEN first ELSE seq
      /\ skipped' = IF st.init THEN skipped \cup jump ELSE skipped
      /\ gaps' = gaps + GapOf(st, seq) /\ dups' = dups + DupOf(st, seq)
  BY DEF Handle, Observe
<1>3. CASE ~st.init
  <2>1. GapOf(st, seq) = 0 /\ DupOf(st, seq) = 0
    BY <1>3 DEF GapOf, DupOf
  <2>2. /\ received = {} /\ skipped = {} /\ gaps = Cardinality(skipped) /\ dups = 0
        /\ IsFiniteSet(skipped)
    BY <1>3 DEF HolesSkipped
  <2>3. received' = {seq} /\ skipped' = {} /\ first' = seq
    BY <1>2, <1>3, <2>2
  <2>4. seq..seq = {seq}
    OBVIOUS
  <2> HIDE DEF jump
  <2>5. gaps' = Cardinality(skipped') /\ dups' = 0 /\ IsFiniteSet(skipped')
    <3>1. gaps' = gaps /\ dups' = dups
      BY <1>1, <1>2, <2>1
    <3> QED
      BY <2>2, <2>3, <3>1
  <2>6. received' \cup skipped' = first'..st'.last
    BY <1>2, <2>3, <2>4
  <2>7. st'.last \in received' /\ first' <= st'.last /\ st'.last < pubSeq' /\ received' \cap skipped' = {}
    BY <1>1, <1>2, <2>3
  <2> QED
    BY <1>2, <2>5, <2>6, <2>7 DEF HolesSkipped
<1>4. CASE st.init
  <2>1. /\ st.last < seq /\ first <= st.last /\ received \cup skipped = first..st.last
        /\ received \cap skipped = {} /\ gaps = Cardinality(skipped) /\ dups = 0
        /\ IsFiniteSet(skipped)
    BY <1>4 DEF HolesSkipped
  <2>2. DupOf(st, seq) = 0 /\ GapOf(st, seq) = seq - st.last - 1
    BY <1>1, <1>4, <2>1 DEF GapOf, DupOf
  <2>3. /\ IsFiniteSet(jump)
        /\ Cardinality(jump) = IF st.last + 1 > seq - 1 THEN 0
                               ELSE (seq - 1) - (st.last + 1) + 1
    <3>1. st.last + 1 \in Int /\ seq - 1 \in Int
      BY <1>1
    <3> QED
      BY <3>1, FS_Interval, Zenon
  <2>4. \A x \in Int : x \in jump <=> st.last < x /\ x < seq
    BY <1>1
  <2>5. jump \subseteq Int
    BY <1>1
  <2> HIDE DEF jump
  <2>6. Cardinality(jump) = seq - st.last - 1
    BY <1>1, <2>1, <2>3
  <2>7. \A x \in received \cup skipped : x \in Int /\ x <= st.last
    BY <1>1, <2>1
  <2>8. (received \cup skipped) \cap jump = {}
    <3>1. ASSUME NEW x \in received \cup skipped, x \in jump PROVE FALSE
      <4>1. x \in Int /\ x <= st.last /\ st.last < x
        BY <2>4, <2>7, <3>1
      <4> QED
        BY <1>1, <4>1
    <3> QED
      BY <3>1
  <2>9. received' \cap skipped' = {}
    <3>1. seq \notin skipped /\ seq \notin jump
      BY <1>1, <2>1, <2>4, <2>7
    <3> QED
      BY <1>2, <1>4, <2>1, <2>8, <3>1
  <2>10. received' \cup skipped' = first'..st'.last
    <3>1. ASSUME NEW x \in first..seq PROVE x \in received' \cup skipped'
      <4>1. x \in Int /\ (x <= st.last => x \in first..st.last)
        BY <1>1
      <4>2. x = seq \/ x <= st.last \/ (st.last < x /\ x < seq)
        BY <1>1, <4>1
      <4> QED
        BY <1>2, <1>4, <2>1, <2>4, <4>1, <4>2
    <3>2. ASSUME NEW x \in received' \cup skipped' PROVE x \in first..seq
      <4>1. x = seq \/ x \in first..st.last \/ x \in jump
        BY <1>2, <1>4, <2>1
      <4>2. x \in jump => x \in Int /\ st.last < x /\ x < seq
        BY <2>4, <2>5
      <4> QED
        BY <1>1, <2>1, <4>1, <4>2
    <3> QED
      BY <1>2, <1>4, <3>1, <3>2
  <2>11. /\ IsFiniteSet(skipped \cup jump)
         /\ Cardinality(skipped \cup jump)
                = Cardinality(skipped) + Cardinality(jump) - Cardinality(skipped \cap jump)
    BY <2>1, <2>3, FS_Union
  <2>12. Cardinality(skipped \cap jump) = 0
    BY <2>8, FS_EmptySet
  <2>13. gaps' = Cardinality(skipped') /\ dups' = 0 /\ IsFiniteSet(skipped')
    BY <1>1, <1>2, <1>4, <2>1, <2>2, <2>6, <2>11, <2>12
  <2>14. st'.last \in received' /\ first' <= st'.last /\ st'.last < pubSeq'
    BY <1>1, <1>2, <1>4, <2>1
  <2> QED
    BY <1>2, <2>9, <2>10, <2>13, <2>14 DEF HolesSkipped
<1> QED
  BY <1>1, <1>3, <1>4

LEMMA DeliverOInv ==
    ASSUME IInv, OInv, NEW n \in 1..Len(path), Deliver(n)
    PROVE  OInv'
<1> SUFFICES ASSUME Clean' PROVE (Rising(path) /\ Ahead /\ HolesSkipped)'
  BY DEF OInv
<1>1. /\ Clean /\ n = 1 /\ UNCHANGED pubSeq /\ path' = RemoveAt(path, n)
      /\ Handle(path[n]) /\ path \in Seq(Nat) /\ pubSeq \in Nat
  BY DEF Deliver, Clean, IInv, TypeOK
<1>2. Rising(path) /\ Ahead /\ HolesSkipped
  BY <1>1 DEF OInv
<1>3. path[n] \in Nat /\ path[n] < pubSeq /\ (st.init => st.last < path[n])
  BY <1>1, <1>2 DEF Ahead
<1>4. HolesSkipped'
  BY <1>1, <1>2, <1>3, HandleHoles
<1>5. /\ Rising(path')
      /\ \A a \in 1..Len(path') : \E b \in 1..Len(path) : path'[a] = path[b] /\ b > 1
  BY <1>1, <1>2, RisingRemoved
<1>6. st'.last = path[n] /\ st'.init = TRUE
  BY <1>1 DEF Handle, Observe
<1>7. Ahead'
  <2> SUFFICES ASSUME NEW a \in 1..Len(path')
               PROVE  path'[a] < pubSeq' /\ st'.last < path'[a]
    BY DEF Ahead
  <2>1. PICK b \in 1..Len(path) : path'[a] = path[b] /\ b > 1
    BY <1>5
  <2>2. path[n] < path[b]
    BY <1>1, <1>2, <2>1 DEF Rising
  <2> QED
    BY <1>1, <1>2, <1>6, <2>1, <2>2 DEF Ahead
<1> QED
  BY <1>4, <1>5, <1>7 DEF Rising

LEMMA NextOInv == IInv /\ OInv /\ [Next]_vars => OInv'
<1> SUFFICES ASSUME IInv, OInv, [Next]_vars PROVE OInv'
  OBVIOUS
<1>1. /\ pubSeq \in Nat /\ path \in Seq(Nat) /\ copied \in Nat
      /\ st.last \in Nat
  BY DEF IInv, TypeOK, SeqState
<1>2. CASE Publish
  <2> SUFFICES ASSUME Clean' PROVE (Rising(path) /\ Ahead /\ HolesSkipped)'
    BY DEF OInv
  <2>1. /\ Clean /\ pubSeq' = pubSeq + 1 /\ path' = Append(path, pubSeq)
        /\ UNCHANGED <<st, rx, gaps, dups, first, received, skipped>>
    BY <1>2 DEF Publish, Clean, countVars
  <2>2. Rising(path) /\ Ahead /\ HolesSkipped
    BY <2>1 DEF OInv
  <2>3. /\ Len(path') = Len(path) + 1
        /\ \A a \in 1..Len(path') : path'[a] = IF a <= Len(path) THEN path[a] ELSE pubSeq
    BY <1>1, <2>1
  <2>4. Ahead'
    BY <1>1, <2>1, <2>2, <2>3 DEF Ahead, HolesSkipped
  <2>5. Rising(path')
    BY <1>1, <2>2, <2>3 DEF Rising, Ahead
  <2>6. HolesSkipped'
    BY <1>1, <2>1, <2>2 DEF HolesSkipped
  <2> QED
    BY <2>4, <2>5, <2>6 DEF Rising
<1>3. ASSUME NEW n \in 1..Len(path), Lose(n) PROVE OInv'
  <2> SUFFICES ASSUME Clean' PROVE (Rising(path) /\ Ahead /\ HolesSkipped)'
    BY DEF OInv
  <2>1. /\ Clean /\ path' = RemoveAt(path, n) /\ UNCHANGED pubSeq
        /\ UNCHANGED <<st, rx, gaps, dups, first, received, skipped>>
    BY <1>3 DEF Lose, Clean, countVars
  <2>2. Rising(path) /\ Ahead /\ HolesSkipped
    BY <2>1 DEF OInv
  <2>3. /\ Rising(path')
        /\ \A a \in 1..Len(path') : \E b \in 1..Len(path) : path'[a] = path[b]
    BY <1>1, <2>1, <2>2, RisingRemoved
  <2>4. Ahead' /\ HolesSkipped'
    BY <2>1, <2>2, <2>3 DEF Ahead, HolesSkipped
  <2> QED
    BY <2>3, <2>4 DEF Rising
<1>4. ASSUME NEW n \in 1..Len(path), Duplicate(n) PROVE OInv'
  BY <1>1, <1>4 DEF OInv, Clean, Duplicate
<1>5. ASSUME NEW n \in 1..Len(path), Deliver(n) PROVE OInv'
  BY <1>5, DeliverOInv
<1>6. CASE UNCHANGED vars
  BY <1>6 DEF vars, pathVars, countVars, OInv, Clean, Rising, Ahead, HolesSkipped
<1> QED
  BY <1>2, <1>3, <1>4, <1>5, <1>6 DEF Next

LEMMA InvariantClean == Spec => [](IInv /\ OInv)
<1>1. Init => IInv /\ OInv
  BY InitIInv, InitOInv
<1>2. IInv /\ OInv /\ [Next]_vars => (IInv /\ OInv)'
  BY NextIInv, NextOInv
<1> QED
  BY <1>1, <1>2, PTL DEF Spec

\* Then the missing messages are exactly the skipped numbers.
LEMMA HolesMissing ==
    ASSUME IInv, HolesSkipped
    PROVE  gaps = Cardinality(Missing) /\ dups = 0
<1>1. HolesSkipped
  OBVIOUS
<1>2. st.last \in Nat /\ first \in Nat /\ pubSeq \in Nat /\ st.init \in BOOLEAN
  BY DEF IInv, TypeOK, SeqState
<1>3. Missing = skipped
  <2>1. CASE ~st.init
    BY <1>1, <2>1 DEF HolesSkipped, Missing
  <2>2. CASE st.init
    <3>1. /\ st.last \in received /\ first <= st.last /\ st.last < pubSeq
          /\ received \cup skipped = first..st.last /\ received \cap skipped = {}
      BY <1>1, <2>2 DEF HolesSkipped
    <3>2. ASSUME NEW m \in skipped PROVE m \in Missing
      <4>1. m \in first..st.last /\ m # st.last /\ m \notin received
        BY <3>1
      <4> QED
        BY <1>2, <3>1, <4>1 DEF Missing
    <3>3. ASSUME NEW m \in Missing PROVE m \in skipped
      <4>1. PICK r \in received : m < r
        BY DEF Missing
      <4>2. m \in first..pubSeq /\ m \notin received /\ r \in first..st.last
        BY <3>1 DEF Missing
      <4>3. m \in first..st.last
        BY <1>2, <4>1, <4>2
      <4> QED
        BY <3>1, <4>2, <4>3
    <3> QED
      BY <3>2, <3>3
  <2> QED
    BY <1>2, <2>1, <2>2
<1> QED
  BY <1>1, <1>3 DEF HolesSkipped

LEMMA CleanExact == IInv /\ OInv => Exact
<1> SUFFICES ASSUME IInv, OInv, Clean PROVE gaps = Cardinality(Missing) /\ dups = 0
  BY DEF Exact, Clean
<1> QED
  BY HolesMissing DEF OInv

-----------------------------------------------------------------------------
(* A path that copies nothing, in any order *)

\* Only published numbers arrive.
Published ==
    /\ IsFiniteSet(received) /\ \A r \in received : r < pubSeq
    /\ \A a \in 1..Len(path) : path[a] < pubSeq

\* Without copies every number is in one place only, so that rx counts numbers.
EachOnce(s) == \A a \in 1..Len(s) : \A b \in 1..Len(s) : a # b => s[a] # s[b]
NoneLate(s, got) == \A a \in 1..Len(s) : s[a] \notin got
HandledOnce == copied = 0 => rx = Cardinality(received) /\ EachOnce(path) /\ NoneLate(path, received)

DInv == Published /\ HandledOnce

LEMMA InitDInv == Init => DInv
BY FS_EmptySet DEF Init, DInv, Published, HandledOnce, EachOnce, NoneLate

LEMMA OnceRemoved ==
    ASSUME NEW s \in Seq(Nat), NEW k \in 1..Len(s)
    PROVE  /\ \A a \in 1..Len(RemoveAt(s, k)) : \E b \in 1..Len(s) :
                RemoveAt(s, k)[a] = s[b]
           /\ EachOnce(s) => EachOnce(RemoveAt(s, k))
           /\ EachOnce(s) => \A a \in 1..Len(RemoveAt(s, k)) : RemoveAt(s, k)[a] # s[k]
<1> DEFINE t == RemoveAt(s, k)
           at(a) == IF a < k THEN a ELSE a + 1
<1>1. Len(t) = Len(s) - 1 /\ \A a \in 1..(Len(s) - 1) : t[a] = IF a < k THEN s[a] ELSE s[a + 1]
  BY RemovedAt
<1> HIDE DEF t
<1>2. \A a \in 1..Len(t) : at(a) \in 1..Len(s) /\ t[a] = s[at(a)] /\ at(a) # k
  BY <1>1
<1>3. \A a \in 1..Len(t) : \A b \in 1..Len(t) : a # b => at(a) # at(b)
  BY <1>1
<1> HIDE DEF at
<1>4. EachOnce(s) => EachOnce(t)
  BY <1>2, <1>3 DEF EachOnce
<1>5. EachOnce(s) => \A a \in 1..Len(t) : t[a] # s[k]
  BY <1>2 DEF EachOnce
<1> QED
  BY <1>2, <1>4, <1>5 DEF t

LEMMA NextDInv == IInv /\ DInv /\ [Next]_vars => DInv'
<1> SUFFICES ASSUME IInv, DInv, [Next]_vars PROVE DInv'
  OBVIOUS
<1>1. /\ pubSeq \in Nat /\ path \in Seq(Nat) /\ copied \in Nat /\ rx \in Nat
      /\ received \subseteq Nat
  BY DEF IInv, TypeOK
<1>2. /\ IsFiniteSet(received) /\ \A r \in received : r < pubSeq
      /\ \A a \in 1..Len(path) : path[a] < pubSeq
      /\ copied = 0 => rx = Cardinality(received) /\ EachOnce(path) /\ NoneLate(path, received)
  BY DEF DInv, Published, HandledOnce
<1>3. CASE Publish
  <2>1. /\ pubSeq' = pubSeq + 1 /\ path' = Append(path, pubSeq)
        /\ UNCHANGED <<copied, rx, received>>
    BY <1>3 DEF Publish, countVars
  <2>2. /\ Len(path') = Len(path) + 1
        /\ \A a \in 1..Len(path') : path'[a] = IF a <= Len(path) THEN path[a] ELSE pubSeq
    BY <1>1, <2>1
  <2>3. Published'
    <3>1. \A r \in received : r < pubSeq + 1
      BY <1>1, <1>2
    <3>2. \A a \in 1..Len(path') : path'[a] < pubSeq + 1
      BY <1>1, <1>2, <2>2
    <3> QED
      BY <1>2, <2>1, <3>1, <3>2 DEF Published
  <2>4. EachOnce(path) => EachOnce(path')
    BY <1>1, <1>2, <2>2 DEF EachOnce
  <2>5. NoneLate(path, received) => NoneLate(path', received')
    BY <1>1, <1>2, <2>1, <2>2 DEF NoneLate
  <2> QED
    BY <1>2, <2>1, <2>3, <2>4, <2>5 DEF DInv, HandledOnce
<1>4. ASSUME NEW n \in 1..Len(path), Lose(n) PROVE DInv'
  <2>1. path' = RemoveAt(path, n) /\ UNCHANGED <<pubSeq, copied, rx, received>>
    BY <1>4 DEF Lose, countVars
  <2>2. /\ \A a \in 1..Len(path') : \E b \in 1..Len(path) : path'[a] = path[b]
        /\ EachOnce(path) => EachOnce(path')
    BY <1>1, <2>1, OnceRemoved, SMTT(40)
  <2>3. Published'
    BY <1>2, <2>1, <2>2 DEF Published
  <2>4. NoneLate(path, received) => NoneLate(path', received')
    BY <2>1, <2>2 DEF NoneLate
  <2> QED
    BY <1>2, <2>1, <2>2, <2>3, <2>4 DEF DInv, HandledOnce
<1>5. ASSUME NEW n \in 1..Len(path), Duplicate(n) PROVE DInv'
  <2>1. /\ copied' = copied + 1 /\ path' = Append(path, path[n])
        /\ UNCHANGED <<pubSeq, rx, received>>
    BY <1>5 DEF Duplicate, countVars
  <2>2. Published'
    BY <1>1, <1>2, <2>1 DEF Published
  <2>3. copied' # 0
    BY <1>1, <2>1
  <2> QED
    BY <2>2, <2>3 DEF DInv, HandledOnce
<1>6. ASSUME NEW n \in 1..Len(path), Deliver(n) PROVE DInv'
  <2>1. /\ path' = RemoveAt(path, n) /\ UNCHANGED <<pubSeq, copied>>
        /\ rx' = rx + 1 /\ received' = received \cup {path[n]}
    BY <1>6 DEF Deliver, Handle
  <2>2. /\ \A a \in 1..Len(path') : \E b \in 1..Len(path) : path'[a] = path[b]
        /\ EachOnce(path) => EachOnce(path')
        /\ EachOnce(path) => \A a \in 1..Len(path') : path'[a] # path[n]
    BY <1>1, <2>1, OnceRemoved
  <2>3. IsFiniteSet(received')
    BY <1>2, <2>1, FS_AddElement
  <2>4. Published'
    BY <1>2, <2>1, <2>2, <2>3 DEF Published
  <2>5. ASSUME EachOnce(path), NoneLate(path, received) PROVE NoneLate(path', received')
    BY <2>1, <2>2, <2>5 DEF NoneLate
  <2>6. ASSUME NoneLate(path, received) PROVE Cardinality(received') = Cardinality(received) + 1
    <3>1. path[n] \notin received
      BY <2>6 DEF NoneLate
    <3> QED
      BY <1>2, <2>1, <3>1, FS_AddElement
  <2> QED
    BY <1>2, <2>1, <2>2, <2>4, <2>5, <2>6 DEF DInv, HandledOnce
<1>7. CASE UNCHANGED vars
  BY <1>7 DEF vars, pathVars, countVars, DInv, Published, HandledOnce, EachOnce, NoneLate
<1> QED
  BY <1>3, <1>4, <1>5, <1>6, <1>7 DEF Next

-----------------------------------------------------------------------------
(* Any path *)

\* As long as no duplicate is counted the numbers arrive in order, and those
\* skipped are exactly the holes.
UInv == dups = 0 => HolesSkipped

LEMMA InitUInv == Init => UInv
BY FS_EmptySet DEF Init, UInv, HolesSkipped, Fresh

LEMMA HandleUInv ==
    ASSUME IInv, UInv, NEW seq \in Nat, Handle(seq), seq < pubSeq, UNCHANGED pubSeq
    PROVE  UInv'
<1> SUFFICES ASSUME dups' = 0 PROVE HolesSkipped'
  BY DEF UInv
<1>1. st.last \in Nat /\ st.init \in BOOLEAN /\ dups \in Nat
  BY DEF IInv, TypeOK, SeqState
<1>2. dups' = dups + DupOf(st, seq) /\ DupOf(st, seq) = IF st.init /\ seq <= st.last THEN 1 ELSE 0
  BY DEF Handle, DupOf
<1>3. dups = 0 /\ ~(st.init /\ seq <= st.last)
  BY <1>1, <1>2
<1>4. HolesSkipped /\ (st.init => st.last < seq)
  BY <1>1, <1>3 DEF UInv
<1> QED
  BY <1>4, HandleHoles

LEMMA NextUInv == IInv /\ DInv /\ UInv /\ [Next]_vars => UInv'
<1> SUFFICES ASSUME IInv, DInv, UInv, [Next]_vars PROVE UInv'
  OBVIOUS
<1>1. pubSeq \in Nat /\ path \in Seq(Nat) /\ st.last \in Nat
  BY DEF IInv, TypeOK, SeqState
<1>2. ASSUME UNCHANGED countVars, pubSeq' = pubSeq \/ pubSeq' = pubSeq + 1 PROVE UInv'
  BY <1>1, <1>2 DEF countVars, UInv, HolesSkipped
<1>3. CASE Publish
  BY <1>2, <1>3 DEF Publish
<1>4. ASSUME NEW n \in 1..Len(path), Lose(n) \/ Duplicate(n) PROVE UInv'
  BY <1>2, <1>4 DEF Lose, Duplicate
<1>5. ASSUME NEW n \in 1..Len(path), Deliver(n) PROVE UInv'
  <2>1. Handle(path[n]) /\ UNCHANGED pubSeq /\ path[n] \in Nat
    BY <1>1, <1>5 DEF Deliver
  <2>2. path[n] < pubSeq
    BY DEF DInv, Published
  <2> QED
    BY <2>1, <2>2, HandleUInv
<1>6. CASE UNCHANGED vars
  BY <1>2, <1>6 DEF vars, pathVars
<1> QED
  BY <1>3, <1>4, <1>5, <1>6 DEF Next

LEMMA InvariantAny == Spec => [](IInv /\ DInv /\ UInv)
<1>1. Init => IInv /\ DInv /\ UInv
  BY InitIInv, InitDInv, InitUInv
<1>2. IInv /\ DInv /\ UInv /\ [Next]_vars => (IInv /\ DInv /\ UInv)'
  BY NextIInv, NextDInv, NextUInv
<1> QED
  BY <1>1, <1>2, PTL DEF Spec

-----------------------------------------------------------------------------
(* The end of the drain *)

\* What the two counters are worth when the drain ends: with the ends of the run
\* received and no copies, every number was handled once or is among the gaps.
LEMMA EndsCounted ==
    ASSUME IInv, DInv, first = 0, {0, pubSeq - 1} \subseteq received, copied = 0
    PROVE  rx = Cardinality(received) /\ pubSeq <= Cardinality(received) + gaps
<1>1. /\ pubSeq \in Nat /\ gaps \in Nat /\ rx = Cardinality(received)
      /\ IsFiniteSet(received) /\ received \subseteq Nat
  BY DEF IInv, TypeOK, DInv, Published, HandledOnce
<1>2. Cardinality(Missing) <= gaps
  BY MissingCounted DEF NoUndercount
<1>3. 0..(pubSeq - 1) \subseteq received \cup Missing
  <2> SUFFICES ASSUME NEW m \in 0..(pubSeq - 1), m \notin received PROVE m \in Missing
    OBVIOUS
  <2>1. m \in first..pubSeq /\ m < pubSeq - 1 /\ pubSeq - 1 \in received
    BY <1>1
  <2> QED
    BY <2>1 DEF Missing
<1>4. IsFiniteSet(0..pubSeq) /\ IsFiniteSet(0..(pubSeq - 1)) /\ Cardinality(0..(pubSeq - 1)) = pubSeq
  <2>1. 0 \in Int /\ pubSeq \in Int /\ pubSeq - 1 \in Int
    BY <1>1
  <2>2. /\ IsFiniteSet(0..pubSeq) /\ IsFiniteSet(0..(pubSeq - 1))
        /\ Cardinality(0..(pubSeq - 1)) = IF 0 > pubSeq - 1 THEN 0 ELSE (pubSeq - 1) - 0 + 1
    BY <2>1, FS_Interval, Zenon
  <2> QED
    BY <1>1, <2>2
<1>5. IsFiniteSet(Missing)
  <2>1. Missing \subseteq 0..pubSeq
    BY DEF Missing
  <2> QED
    BY <1>4, <2>1, FS_Subset
<1>6. /\ IsFiniteSet(received \cup Missing)
      /\ Cardinality(received \cup Missing)
            = Cardinality(received) + Cardinality(Missing) - Cardinality(received \cap Missing)
      /\ Cardinality(received \cap Missing) \in Nat
  <2>1. IsFiniteSet(received \cap Missing)
    BY <1>1, FS_Subset
  <2> QED
    BY <1>1, <1>5, <2>1, FS_Union, FS_CardinalityType
<1>7. Cardinality(0..(pubSeq - 1)) <= Cardinality(received \cup Missing)
  BY <1>3, <1>6, FS_Subset
<1>8. Cardinality(received) \in Nat /\ Cardinality(Missing) \in Nat
  BY <1>1, <1>5, FS_CardinalityType
<1> QED
  BY <1>1, <1>2, <1>4, <1>6, <1>7, <1>8

\* Where all arrived, in order and without copies, nothing was counted as wrong.
LEMMA NothingMissing ==
    ASSUME IInv, OInv, DInv, ~(Cardinality(received) < pubSeq), ~(copied > 0), fifo
    PROVE  gaps = 0 /\ dups = 0
<1>1. /\ pubSeq \in Nat /\ first \in Nat /\ copied \in Nat
      /\ IsFiniteSet(received) /\ received \subseteq Nat /\ \A r \in received : r < pubSeq
  BY DEF IInv, TypeOK, DInv, Published
<1>2. IsFiniteSet(0..(pubSeq - 1)) /\ Cardinality(0..(pubSeq - 1)) = pubSeq
  <2>1. 0 \in Int /\ pubSeq - 1 \in Int
    BY <1>1
  <2>2. /\ IsFiniteSet(0..(pubSeq - 1))
        /\ Cardinality(0..(pubSeq - 1)) = IF 0 > pubSeq - 1 THEN 0 ELSE (pubSeq - 1) - 0 + 1
    BY <2>1, FS_Interval, Zenon
  <2> QED
    BY <1>1, <2>2
<1>3. received \subseteq 0..(pubSeq - 1)
  BY <1>1
<1>4. received = 0..(pubSeq - 1)
  <2>1. Cardinality(received) \in Nat
    BY <1>1, FS_CardinalityType
  <2>2. /\ Cardinality(received) <= Cardinality(0..(pubSeq - 1))
        /\ Cardinality(received) = Cardinality(0..(pubSeq - 1)) => received = 0..(pubSeq - 1)
    BY <1>2, <1>3, FS_Subset
  <2> QED
    BY <1>1, <1>2, <2>1, <2>2
<1>5. Missing = {}
  <2> SUFFICES ASSUME NEW m \in first..pubSeq, NEW r \in received, m < r PROVE m \in received
    BY DEF Missing
  <2> QED
    BY <1>1, <1>4
<1>6. Cardinality({}) = 0
  BY FS_EmptySet
<1>7. Exact
  BY CleanExact
<1> QED
  BY <1>1, <1>5, <1>6, <1>7 DEF Exact

-----------------------------------------------------------------------------
(* Theorems *)

\* The counters and the path keep their types: DupCount and GapCount never go
\* below zero.
THEOREM TypeCorrect == Spec => []TypeOK
<1>1. IInv => TypeOK
  BY DEF IInv
<1> QED
  BY <1>1, Invariant, PTL

\* No missing message goes uncounted, in whatever order messages arrive.
THEOREM NoUndercountHolds == Spec => []NoUndercount
BY MissingCounted, Invariant, PTL

\* GapCount exceeds the number of holes in what arrived only if DupCount shows
\* that a number came late or twice, in whatever order messages arrive.
THEOREM OvercountShowsHolds == Spec => []OvercountShows
<1>1. IInv /\ UInv => OvercountShows
  BY HolesMissing DEF UInv, OvercountShows
<1> QED
  BY <1>1, InvariantAny, PTL

\* On a path that keeps the order and copies nothing, GapCount is exactly the
\* number of messages missing between the first and the last one, and DupCount
\* stays 0.
THEOREM ExactHolds == Spec => []Exact
BY InvariantClean, CleanExact, PTL

-----------------------------------------------------------------------------
(* The counters *)

Counters == IInv /\ OInv /\ DInv /\ UInv

LEMMA StartCounters == Init => Counters
BY InitIInv, InitOInv, InitDInv, InitUInv DEF Counters

LEMMA StepCounters == Counters /\ [Next]_vars => Counters'
BY NextIInv, NextOInv, NextDInv, NextUInv DEF Counters

LEMMA RestartCounters == Init' => Counters'
BY StartCounters, PTL

LEMMA KeepCounters == CollectInit /\ [][CollectNext]_collectVars => []Counters
<1>1. CollectInit => Counters
  BY StartCounters DEF CollectInit
<1>2. Counters /\ [CollectNext]_collectVars => Counters'
  <2> SUFFICES ASSUME Counters, [CollectNext]_collectVars PROVE Counters'
    OBVIOUS
  <2>1. CASE UNCHANGED vars
    BY <2>1, StepCounters
  <2>2. CASE Traffic
    BY <2>2, StepCounters DEF Traffic, Next
  <2>3. ASSUME NEW k \in 1..Len(path), Receive(k) PROVE Counters'
    BY <2>3, StepCounters DEF Receive, Next
  <2>4. CASE Finish
    BY <2>4, RestartCounters DEF Finish, Init
  <2>5. CASE Wait \/ FinalSync \/ SshFails \/ Fetch
    BY <2>5, <2>1 DEF Wait, FinalSync, SshFails, Fetch, shardVars
  <2>6. CASE TimerStart \/ PullFails \/ List \/ SyncEnd
    BY <2>6, <2>1 DEF TimerStart, PullFails, List, SyncEnd, shardVars
  <2>7. ASSUME NEW p \in Shards,
               WriteResult(p) \/ Rename(p) \/ Die(p) \/ Upload(p) \/ UploadFails(p)
        PROVE  Counters'
    BY <2>7, <2>1 DEF WriteResult, Rename, Die, Upload, UploadFails, shardVars
  <2>8. CASE UNCHANGED collectVars
    BY <2>8, <2>1 DEF collectVars, shardVars
  <2> QED
    BY <2>2, <2>3, <2>4, <2>5, <2>6, <2>7, <2>8 DEF CollectNext, SweepStep, SyncStep
<1> QED
  BY <1>1, <1>2, PTL

-----------------------------------------------------------------------------
(* The files *)

FilesTypeOK ==
    /\ json \in [Shards -> {"none", "full"}] /\ bucket \in [Shards -> {"none", "full"}]
    /\ sync \in {"idle", "pull", "push", "bad"}
    /\ sweep \in {"wait", "sync", "syncing", "fetch", "done"}

\* Only complete files are copied, a complete file stays, and files are listed
\* only while they are copied.
ListingWhole == \A p \in listing : p \in Shards /\ json[p] = "full"
ListedWhilePushing == listing # {} => sync \in {"push", "bad"}

\* What a last copy brings that is to list the files still: it is in place as long
\* as the service has not listed files, in the bucket or on the list after that
\* unless a copy failed, and in the bucket when the service is done.
Brought ==
    /\ placed \subseteq {p \in Shards : json[p] = "full"}
    /\ sweep = "syncing" /\ sync = "push" =>
            \A p \in placed : bucket[p] = "full" \/ p \in listing
    /\ sweep \in {"fetch", "done"} => \A p \in placed : bucket[p] = "full"
    /\ sweep = "done" => placed \subseteq fetched
AskedFor == final # "none" => sweep \in {"syncing", "fetch", "done"}
Promised == AskedFor /\ (sweep = "syncing" => sync # "idle") /\ (final = "ahead" => Brought)

\* Nothing is collected before the drain ends.
CollectsLater == running => sweep = "wait" /\ sync = "idle" /\ listing = {}

FInv == CollectsLater /\ FilesTypeOK /\ ListingWhole /\ ListedWhilePushing /\ Promised

LEMMA InitFInv == CollectInit => FInv
BY DEF CollectInit, FInv, FilesTypeOK, ListingWhole, ListedWhilePushing, Promised, AskedFor, Brought, CollectsLater, Shards

LEMMA SweepFInv == FInv /\ (Wait \/ FinalSync \/ SshFails \/ Fetch) => FInv'
<1> USE DEF FInv, FilesTypeOK, ListingWhole, ListedWhilePushing, Promised, AskedFor, Brought, CollectsLater
<1>1. ASSUME FInv, Wait PROVE FInv'
  BY <1>1 DEF Wait, procVars, syncVars, shardVars
<1>2. ASSUME FInv, FinalSync PROVE FInv'
  BY <1>2 DEF FinalSync, procVars, shardVars
<1>3. ASSUME FInv, SshFails PROVE FInv'
  BY <1>3 DEF SshFails, procVars, syncVars, shardVars
<1>4. ASSUME FInv, Fetch PROVE FInv'
  BY <1>4 DEF Fetch, procVars, syncVars
<1> QED
  BY <1>1, <1>2, <1>3, <1>4

LEMMA SyncFInv == FInv /\ (TimerStart \/ PullFails \/ List \/ SyncEnd) => FInv'
<1> USE DEF FInv, FilesTypeOK, ListingWhole, ListedWhilePushing, Promised, AskedFor, Brought, CollectsLater
<1>1. ASSUME FInv, TimerStart PROVE FInv'
  BY <1>1 DEF TimerStart, procVars, sweepVars, shardVars
<1>2. ASSUME FInv, List PROVE FInv'
  BY <1>2 DEF List, procVars, sweepVars, shardVars
<1>3. ASSUME FInv, SyncEnd PROVE FInv'
  BY <1>3 DEF SyncEnd, procVars, shardVars
<1>4. ASSUME FInv, PullFails PROVE FInv'
  BY <1>4 DEF PullFails, procVars, shardVars
<1> QED
  BY <1>1, <1>2, <1>3, <1>4

LEMMA FileFInv ==
    ASSUME FInv, NEW p \in Shards,
           WriteResult(p) \/ Rename(p) \/ Die(p) \/ Upload(p) \/ UploadFails(p)
    PROVE  FInv'
<1> USE DEF FInv, FilesTypeOK, ListingWhole, ListedWhilePushing, Promised, AskedFor, Brought, CollectsLater
<1>1. CASE WriteResult(p) \/ Die(p)
  BY <1>1 DEF WriteResult, Die, syncVars, sweepVars, shardVars
<1>2. CASE Rename(p)
  BY <1>2 DEF Rename, syncVars, sweepVars, shardVars
<1>3. CASE Upload(p)
  BY <1>3 DEF Upload, procVars, sweepVars, shardVars
<1>4. CASE UploadFails(p)
  BY <1>4 DEF UploadFails, procVars, sweepVars, shardVars
<1> QED
  BY <1>1, <1>2, <1>3, <1>4

\* The end of the drain puts the file of the other shard in place, or does not.
LEMMA FinishFInv == FInv /\ Finish => FInv'
BY DEF Finish, FInv, FilesTypeOK, ListingWhole, ListedWhilePushing, Promised, AskedFor, Brought, CollectsLater,
       syncVars, sweepVars, Shards

LEMMA OtherFInv ==
    FInv /\ (Traffic \/ (\E k \in 1..Len(path) : Receive(k)) \/ UNCHANGED collectVars) => FInv'
BY DEF Traffic, Receive, collectVars, FInv, FilesTypeOK, ListingWhole,
       ListedWhilePushing, Promised, AskedFor, Brought, CollectsLater, procVars, syncVars, sweepVars,
       shardVars

LEMMA KeepFInv == CollectSpec => []FInv
<1>1. FInv /\ [CollectNext]_collectVars => FInv'
  BY SweepFInv, SyncFInv, FileFInv, FinishFInv, OtherFInv
     DEF CollectNext, SweepStep, SyncStep
<1> QED
  BY InitFInv, <1>1, PTL DEF CollectSpec

-----------------------------------------------------------------------------
(* Histograms *)

\* Those with counts for their buckets; and with no sample above a limit, which is
\* one of the bounds.
Increasing(bounds) == \A a, b \in 1..Len(bounds) : a < b => bounds[a] < bounds[b]
Shaped(h) ==
    /\ h.bounds \in Seq(Nat \ {0}) /\ Increasing(h.bounds) /\ h.bounds # <<>>
    /\ h.counts \in [1..(Len(h.bounds) + 1) -> Nat]
Within(h, limit) ==
    h # NoHist =>
        /\ Shaped(h)
        /\ \E b \in 1..Len(h.bounds) : h.bounds[b] = limit
        /\ \A b \in 1..Len(h.bounds) : h.bounds[b] = limit =>
                \A n \in 1..(Len(h.bounds) + 1) : n > b => h.counts[n] = 0

\* A latency is not above the bound of the bucket it belongs to, or of any later.
LEMMA BucketBelow ==
    ASSUME NEW bounds \in Seq(Nat \ {0}), Increasing(bounds), NEW v \in Nat,
           NEW b \in 1..Len(bounds), v <= bounds[b]
    PROVE  BucketOf(bounds, v) \in Nat /\ BucketOf(bounds, v) <= b
<1> DEFINE below == {n \in DOMAIN bounds : bounds[n] < v}
<1>1. Len(bounds) \in Nat /\ b \in Nat /\ \A n \in 1..Len(bounds) : bounds[n] \in Nat
  OBVIOUS
<1>2. below \subseteq 1..(b - 1)
  <2> SUFFICES ASSUME NEW n \in 1..Len(bounds), bounds[n] < v PROVE n < b
    BY <1>1
  <2>1. CASE n = b
    BY <1>1, <2>1
  <2>2. CASE b < n
    <3>1. bounds[b] < bounds[n]
      BY <2>2 DEF Increasing
    <3> QED
      BY <1>1, <3>1
  <2> QED
    BY <1>1, <2>1, <2>2
<1>3. IsFiniteSet(1..(b - 1)) /\ Cardinality(1..(b - 1)) = b - 1
  <2>1. 1 \in Int /\ b - 1 \in Int
    BY <1>1
  <2>2. /\ IsFiniteSet(1..(b - 1))
        /\ Cardinality(1..(b - 1)) = IF 1 > b - 1 THEN 0 ELSE (b - 1) - 1 + 1
    BY <2>1, FS_Interval, Zenon
  <2> QED
    BY <1>1, <2>2
<1>4. IsFiniteSet(below) /\ Cardinality(below) <= b - 1
  BY <1>2, <1>3, FS_Subset
<1>5. Cardinality(below) \in Nat
  BY <1>4, FS_CardinalityType
<1>6. BucketOf(bounds, v) = 1 + Cardinality(below)
  BY DEF BucketOf
<1> HIDE DEF below
<1> QED
  BY <1>1, <1>4, <1>5, <1>6

\* The histogram of samples that are all within a limit.
LEMMA HistogramWithin ==
    ASSUME NEW bounds \in Seq(Nat \ {0}), Increasing(bounds),
           NEW V \in SUBSET Nat, IsFiniteSet(V), NEW s \in [V -> Nat],
           NEW limit, \E b \in 1..Len(bounds) : bounds[b] = limit,
           \A v \in V : s[v] > 0 => v <= limit
    PROVE  Within(Histogram(bounds, s), limit)
<1> DEFINE In(n) == {v \in V : BucketOf(bounds, v) = n}
           part(n) == [v \in In(n) |-> s[v]]
           h == [bounds |-> bounds, counts |-> [n \in 1..(Len(bounds) + 1) |-> Tally(part(n))]]
<1>1. CASE \A v \in V : s[v] = 0
  BY <1>1 DEF Histogram, Within
<1>2. CASE ~(\A v \in V : s[v] = 0)
  <2>1. Histogram(bounds, s) = h
    BY <1>2 DEF Histogram
  <2>2. ASSUME NEW n PROVE IsFiniteSet(In(n)) /\ part(n) \in [In(n) -> Nat]
    BY FS_Subset
  <2>3. ASSUME NEW n PROVE Tally(part(n)) \in Nat
    <3> HIDE DEF In
    <3> QED
      BY <2>2, UnitsFinite
  <2>4. ASSUME NEW b \in 1..Len(bounds), bounds[b] = limit,
               NEW n \in 1..(Len(bounds) + 1), n > b
        PROVE  Tally(part(n)) = 0
    <3>1. ASSUME NEW v \in In(n) PROVE part(n)[v] = 0
      <4>1. v \in V /\ v \in Nat /\ BucketOf(bounds, v) = n /\ s[v] \in Nat
        BY <3>1
      <4>2. ~(v <= bounds[b])
        BY <2>4, <4>1, BucketBelow
      <4>3. ~(s[v] > 0)
        BY <2>4, <4>1, <4>2
      <4>4. s[v] = 0
        BY <4>1, <4>3
      <4> HIDE DEF In
      <4> QED
        BY <3>1, <4>4
    <3> HIDE DEF In
    <3>2. part(n) \in [In(n) -> Nat]
      BY <2>2
    <3> HIDE DEF part
    <3> QED
      BY <3>1, <3>2, TallyZero
  <2> HIDE DEF part, In
  <2>5. /\ h.bounds = bounds /\ h.counts \in [1..(Len(bounds) + 1) -> Nat]
        /\ \A n \in 1..(Len(bounds) + 1) : h.counts[n] = Tally(part(n))
    BY <2>3
  <2> HIDE DEF h
  <2>6. Within(h, limit)
    BY <2>4, <2>5 DEF Within, Shaped
  <2> QED
    BY <2>1, <2>6
<1> QED
  BY <1>1, <1>2

\* A merge keeps the limit: it adds bucket to bucket, or leaves a histogram out.
LEMMA MergeWithin ==
    ASSUME NEW h1, NEW h2, NEW limit, Within(h1, limit), Within(h2, limit),
           h1 # NoHist => h1 = [bounds |-> h1.bounds, counts |-> h1.counts]
    PROVE  Within(MergeHist(h1, h2), limit)
<1>1. CASE h1 = NoHist \/ h2.bounds # h1.bounds
  BY <1>1 DEF MergeHist
<1>2. CASE ~(h1 = NoHist \/ h2.bounds # h1.bounds)
  <2> DEFINE K == 1..(Len(h1.bounds) + 1)
             sum == [n \in K |-> h1.counts[n] + h2.counts[n]]
             m == [bounds |-> h1.bounds, counts |-> sum]
  <2>0. h2 # NoHist
    <3> SUFFICES ASSUME h2 = NoHist PROVE FALSE
      OBVIOUS
    <3>1. h1.bounds = <<>>
      BY <1>2 DEF NoHist
    <3>2. \E b \in 1..Len(h1.bounds) : h1.bounds[b] = limit
      BY <1>2 DEF Within
    <3> QED
      BY <3>1, <3>2
  <2>1. /\ h1.counts \in [K -> Nat] /\ h2.counts \in [K -> Nat] /\ h1.bounds = h2.bounds
        /\ h1.bounds \in Seq(Nat \ {0}) /\ Increasing(h1.bounds) /\ h1.bounds # <<>>
    BY <1>2, <2>0 DEF Within, Shaped
  <2>2. MergeHist(h1, h2) = m
    BY <1>2, <2>1 DEF MergeHist
  <2>3. sum \in [K -> Nat]
    <3> HIDE DEF K
    <3> QED
      BY <2>1
  <2>4. ASSUME NEW b \in 1..Len(h1.bounds), h1.bounds[b] = limit, NEW n \in K, n > b
        PROVE  sum[n] = 0
    <3>1. h1.counts[n] = 0 /\ h2.counts[n] = 0
      BY <1>2, <2>0, <2>1, <2>4 DEF Within
    <3> QED
      BY <3>1
  <2>5. m.bounds = h1.bounds /\ m.counts = sum
    OBVIOUS
  <2>6. Within(m, limit)
    <3> HIDE DEF m, sum
    <3> QED
      BY <1>2, <2>1, <2>3, <2>4, <2>5 DEF Within, Shaped
  <2> QED
    BY <2>2, <2>6
<1> QED
  BY <1>1, <1>2

LEMMA MergeNone == ASSUME NEW s, Len(s) = 0 PROVE MergedHist(s) = NoHist
<1> DEFINE F(f) == [k \in 0..Len(s) |-> IF k = 0 THEN NoHist ELSE MergeHist(f[k - 1], s[k].hist)]
           m == CHOOSE f : f = F(f)
           g == [k \in {0} |-> NoHist]
<1>1. MergedHist(s) = m[0]
  BY DEF MergedHist
<1>2. g = F(g)
  <2>1. 0..Len(s) = {0}
    OBVIOUS
  <2> QED
    BY <2>1
<1>3. m = F(m)
  <2> HIDE DEF F, g
  <2> QED
    BY <1>2
<1> HIDE DEF m
<1> QED
  BY <1>1, <1>3

\* Histograms are merged in the order of the results, of which there are one or two.
LEMMA MergeOrder ==
    ASSUME NEW s, Len(s) \in {1, 2}
    PROVE  MergedHist(s) = IF Len(s) = 1 THEN s[1].hist ELSE MergeHist(s[1].hist, s[2].hist)
<1> DEFINE n == Len(s)
           F(f) == [k \in 0..n |-> IF k = 0 THEN NoHist ELSE MergeHist(f[k - 1], s[k].hist)]
           m == CHOOSE f : f = F(f)
           g == [k \in 0..n |-> IF k = 0 THEN NoHist
                                ELSE IF k = 1 THEN MergeHist(NoHist, s[1].hist)
                                ELSE MergeHist(MergeHist(NoHist, s[1].hist), s[2].hist)]
<1>1. MergedHist(s) = m[n]
  BY DEF MergedHist
<1>2. g = F(g)
  <2>1. ASSUME NEW k \in 0..n
        PROVE  g[k] = IF k = 0 THEN NoHist ELSE MergeHist(g[k - 1], s[k].hist)
    <3>1. k \in {0, 1, 2} /\ (k # 0 => k - 1 \in 0..n)
      <4>1. CASE n = 1
        BY <4>1
      <4>2. CASE n = 2
        BY <4>2
      <4> QED
        BY <4>1, <4>2
    <3> QED
      BY <3>1
  <2> QED
    BY <2>1
<1>3. m = F(m)
  <2> HIDE DEF F, g
  <2> QED
    BY <1>2
<1> HIDE DEF m
<1>4. /\ m[0] = NoHist /\ m[1] = MergeHist(m[0], s[1].hist)
      /\ n = 2 => m[2] = MergeHist(m[1], s[2].hist)
  BY <1>3
<1>5. m[1] = s[1].hist
  BY <1>4 DEF MergeHist
<1> QED
  BY <1>1, <1>4, <1>5

-----------------------------------------------------------------------------
(* Percentiles *)

LEMMA NatLeast ==
    ASSUME NEW T, T \subseteq Nat, T # {}
    PROVE  \E x \in T : \A y \in T : ~(y < x)
<1>1. PICK x \in T : \A y \in T : ~(<<y, x>> \in OpToRel(<, Nat))
  BY NatLessThanWellFounded, WFMin
<1> QED
  BY <1>1 DEF OpToRel

\* The counts add up bucket by bucket.
LEMMA CountStep ==
    ASSUME NEW h, Shaped(h), NEW k \in 1..(Len(h.bounds) + 1)
    PROVE  /\ CountUpTo(h, k - 1) \in Nat /\ h.counts[k] \in Nat
           /\ CountUpTo(h, k) = CountUpTo(h, k - 1) + h.counts[k]
           /\ k = 1 => CountUpTo(h, k - 1) = 0
<1> DEFINE S == 1..k
           T == 1..(k - 1)
           f == [n \in S |-> h.counts[n]]
           g == [n \in T |-> h.counts[n]]
<1>1. Len(h.bounds) \in Nat /\ k \in Nat /\ h.counts \in [1..(Len(h.bounds) + 1) -> Nat]
  BY DEF Shaped
<1>2. /\ f \in [S -> Nat] /\ f[k] = h.counts[k] /\ f[k] \in Nat
      /\ g \in [T -> Nat] /\ k \in S /\ T = S \ {k}
      /\ \A y \in T : g[y] = f[y]
  <2>1. T = S \ {k}
    BY <1>1
  <2> QED
    BY <1>1, <2>1
<1>3. IsFiniteSet(S) /\ IsFiniteSet(T)
  <2>1. 1 \in Int /\ k \in Int /\ k - 1 \in Int
    BY <1>1
  <2> QED
    BY <2>1, FS_Interval, Zenon
<1>4. CountUpTo(h, k) = Tally(f) /\ CountUpTo(h, k - 1) = Tally(g)
  BY DEF CountUpTo
<1> HIDE DEF f, g, S, T
<1>5. Tally(f) = Tally(g) + f[k]
  <2>1. ASSUME NEW x, x = k PROVE Tally(f) = Tally(g) + f[x]
    <3>1. x \in S /\ T = S \ {x}
      BY <1>2, <2>1, Zenon
    <3>2. f \in [S -> Nat] /\ g \in [T -> Nat] /\ \A y \in T : g[y] = f[y]
      BY <1>2
    <3> QED
      BY <1>3, <3>1, <3>2, TallyExtend
  <2> QED
    BY <2>1
<1>6. Tally(g) \in Nat
  BY <1>2, <1>3, UnitsFinite
<1>7. ASSUME k = 1 PROVE Tally(g) = 0
  <2>1. \A y \in T : g[y] = 0
    BY <1>7 DEF T
  <2> QED
    BY <1>2, <2>1, TallyZero
<1> QED
  BY <1>2, <1>4, <1>5, <1>6, <1>7

LEMMA CountWhole ==
    ASSUME NEW h, Shaped(h), NEW k \in 1..(Len(h.bounds) + 1)
    PROVE  CountUpTo(h, k) \in Nat
<1>1. /\ CountUpTo(h, k - 1) \in Nat /\ h.counts[k] \in Nat
      /\ CountUpTo(h, k) = CountUpTo(h, k - 1) + h.counts[k]
  BY CountStep
<1> QED
  BY <1>1

\* Up to the limit they are all there.
LEMMA CountLimit ==
    ASSUME NEW h, NEW limit, Within(h, limit), h # NoHist,
           NEW b \in 1..Len(h.bounds), h.bounds[b] = limit
    PROVE  CountUpTo(h, b) = Total(h)
<1> DEFINE K == 1..(Len(h.bounds) + 1)
           f == [n \in K |-> h.counts[n]]
           B == 1..b
           g == [n \in B |-> h.counts[n]]
<1>1. /\ Len(h.bounds) \in Nat /\ b \in Nat /\ h.counts \in [K -> Nat]
      /\ \A n \in K : n > b => h.counts[n] = 0
  BY DEF Within, Shaped
<1>2. /\ f \in [K -> Nat] /\ g \in [B -> Nat] /\ B \subseteq K
      /\ \A n \in B : g[n] = f[n]
      /\ \A n \in K : n \notin B => f[n] = 0
  BY <1>1
<1>3. Len(h.counts) = Len(h.bounds) + 1
  BY <1>1
<1>4. CountUpTo(h, b) = Tally(g) /\ Total(h) = Tally(f)
  BY <1>3 DEF CountUpTo, Total
<1> HIDE DEF f, g, B, K
<1>5. Tally(f) = Tally(g)
  BY <1>2, TallyZeros, SMTT(40)
<1> QED
  BY <1>4, <1>5

\* Shares are in thousandths.
Permille == 1..1000

\* The share is first reached in bucket n, which has c samples, after others before.
Crosses(h, permille, n, c, before) ==
    /\ n \in 1..(Len(h.bounds) + 1) /\ c \in Nat \ {0} /\ before \in Nat
    /\ Crossing(h, permille) = n
    /\ h.counts[n] = c /\ CountUpTo(h, n - 1) = before
    /\ 1000 * before < permille * Total(h)
    /\ permille * Total(h) - 1000 * before <= 1000 * c
    /\ \A j \in 1..(n - 1) : ~Reaches(h, permille, j)

LEMMA ShapedSize ==
    ASSUME NEW h, Shaped(h)
    PROVE  /\ Len(h.bounds) \in Nat \ {0} /\ Len(h.counts) = Len(h.bounds) + 1
           /\ \A n \in 1..Len(h.bounds) : h.bounds[n] \in Nat \ {0}
           /\ Total(h) \in Nat
<1>1. /\ h.bounds \in Seq(Nat \ {0}) /\ h.bounds # <<>>
      /\ h.counts \in [1..(Len(h.bounds) + 1) -> Nat]
  BY DEF Shaped
<1>2. Len(h.bounds) \in Nat \ {0}
  BY <1>1
<1>3. \A n \in 1..Len(h.bounds) : h.bounds[n] \in Nat \ {0}
  BY <1>1
<1>4. Len(h.counts) = Len(h.bounds) + 1
  BY <1>1, <1>2
<1>5. Total(h) \in Nat
  <2>1. Len(h.counts) \in 1..(Len(h.bounds) + 1)
    BY <1>2, <1>4
  <2> QED
    BY <2>1, CountWhole DEF Total
<1> QED
  BY <1>2, <1>3, <1>4, <1>5

\* The bucket of a percentile is the first that reaches the share, so that it has
\* at least as many samples as are asked of it.
LEMMA CrossingFirst ==
    ASSUME NEW h, Shaped(h), NEW permille \in Permille, Total(h) # 0
    PROVE  \E n, c, before : Crosses(h, permille, n, c, before)
<1> DEFINE K == 1..(Len(h.bounds) + 1)
           T == {n \in K : Reaches(h, permille, n)}
           total == Total(h)
           last == Len(h.bounds) + 1
<1>1. /\ Len(h.bounds) \in Nat /\ Len(h.counts) = last /\ K \subseteq Nat /\ last \in K
      /\ total \in Nat /\ total > 0
  BY ShapedSize
<1>2. CountUpTo(h, last) = total
  BY <1>1 DEF Total
<1>3. last \in T
  <2>1. 1000 * CountUpTo(h, last) >= permille * total
    <3> HIDE DEF total
    <3>1. permille * total <= 1000 * total
      BY <1>1 DEF Permille
    <3> QED
      BY <1>2, <3>1
  <2> QED
    BY <1>1, <2>1 DEF Reaches
<1>4. PICK x \in T : \A y \in T : ~(y < x)
  <2>1. T \subseteq Nat /\ T # {}
    BY <1>1, <1>3
  <2> HIDE DEF T
  <2> QED
    BY <2>1, NatLeast
<1> DEFINE i == Crossing(h, permille)
<1>5. /\ i \in K /\ Reaches(h, permille, i)
      /\ \A j \in 1..(i - 1) : ~Reaches(h, permille, j)
  <2>1. \A j \in 1..(x - 1) : j \in K /\ j < x
    BY <1>1
  <2>2. x \in K /\ Reaches(h, permille, x) /\ \A j \in 1..(x - 1) : ~Reaches(h, permille, j)
    BY <1>4, <2>1
  <2>3. 1..Len(h.counts) = K
    BY <1>1
  <2> HIDE DEF K
  <2> QED
    BY <2>2, <2>3, ZenonT(40) DEF Crossing
<1> HIDE DEF i
<1> DEFINE c == h.counts[i]
           before == CountUpTo(h, i - 1)
           share == permille * total
<1>6. c \in Nat /\ before \in Nat /\ CountUpTo(h, i) = before + c /\ (i = 1 => before = 0)
  BY <1>5, CountStep
<1>7. share <= 1000 * (before + c)
  BY <1>5, <1>6 DEF Reaches
<1>8. share \in Nat
  <2> HIDE DEF total
  <2> QED
    BY <1>1 DEF Permille
<1>9. 1000 * before < share
  <2>1. CASE i = 1
    <3>1. permille * total > 0
      <4> HIDE DEF total
      <4> QED
        BY <1>1 DEF Permille
    <3> QED
      BY <1>6, <2>1, <3>1
  <2>2. CASE i # 1
    <3>1. i - 1 \in 1..(i - 1)
      BY <1>1, <1>5, <2>2
    <3>2. ~(1000 * before >= share)
      BY <1>5, <3>1 DEF Reaches
    <3> HIDE DEF before, share
    <3> QED
      BY <1>6, <1>8, <3>2
  <2> QED
    BY <2>1, <2>2
<1>10. c \in Nat \ {0} /\ share - 1000 * before <= 1000 * c
  <2> HIDE DEF c, before, share
  <2> QED
    BY <1>6, <1>7, <1>8, <1>9
<1>11. Crosses(h, permille, i, c, before)
  <2>1. Crossing(h, permille) = i
    BY DEF i
  <2> QED
    BY <1>5, <1>6, <1>9, <1>10, <2>1 DEF Crosses
<1> HIDE DEF c, before
<1> QED
  BY <1>11

\* The ends of a bucket, the open last one too.
LEMMA BucketEnds ==
    ASSUME NEW h, Shaped(h), NEW n \in 1..(Len(h.bounds) + 1)
    PROVE  /\ Lower(h.bounds, n) \in Nat /\ Upper(h.bounds, n) \in Nat
           /\ Lower(h.bounds, n) < Upper(h.bounds, n)
           /\ n <= Len(h.bounds) => Upper(h.bounds, n) = h.bounds[n]
<1> DEFINE B == h.bounds
           size == Len(B)
<1>1. /\ size \in Nat \ {0} /\ \A k \in 1..size : B[k] \in Nat \ {0}
      /\ \A k, l \in 1..size : k < l => B[k] < B[l]
  BY ShapedSize DEF Shaped, Increasing
<1> HIDE DEF B, size
<1>2. n \in 1..(size + 1)
  BY DEF B, size
<1>3. ASSUME NEW k \in 1..size
      PROVE  Lower(B, k) \in Nat /\ Lower(B, k) < B[k]
  <2>1. CASE k > 1
    <3>1. k - 1 \in 1..size /\ k - 1 < k
      BY <1>1, <2>1
    <3> QED
      BY <1>1, <2>1, <3>1 DEF Lower
  <2>2. CASE ~(k > 1)
    BY <1>1, <2>2 DEF Lower
  <2> QED
    BY <2>1, <2>2
<1>4. CASE n <= size
  <2>1. n \in 1..size
    BY <1>1, <1>2, <1>4
  <2>2. Upper(B, n) = B[n]
    BY <1>4 DEF Upper, size
  <2> QED
    BY <1>1, <1>3, <2>1, <2>2 DEF B
<1>5. CASE ~(n <= size)
  <2>1. n = size + 1 /\ size \in 1..size /\ n - 1 = size /\ n > 1
    BY <1>1, <1>2, <1>5
  <2>2. Lower(B, n) = B[size]
    BY <2>1 DEF Lower
  <2>3. Upper(B, n) = 2 * B[size] - Lower(B, size)
    BY <1>5 DEF Upper, size
  <2>4. Lower(B, size) \in Nat /\ Lower(B, size) < B[size] /\ B[size] \in Nat
    BY <1>1, <1>3, <2>1
  <2> QED
    BY <1>5, <2>2, <2>3, <2>4 DEF B, size
<1> QED
  BY <1>4, <1>5

\* The arithmetic of the interpolation: it stays within the bucket, above its lower end.
InBucket(c, low, up, inside) ==
    /\ 1000 * c * low + inside * (up - low) <= up * (1000 * c)
    /\ ~(1000 * c * low + inside * (up - low) <= low * (1000 * c))

LEMMA Interpolated ==
    ASSUME NEW c \in Nat, NEW low \in Nat, NEW up \in Nat, low < up,
           NEW inside \in Nat \ {0}, inside <= 1000 * c
    PROVE  InBucket(c, low, up, inside)
<1> DEFINE d == 1000 * c
           w == up - low
<1>1. d \in Nat /\ w \in Nat \ {0} /\ inside <= d /\ up = low + w
  OBVIOUS
<1> HIDE DEF d, w
<1>2. inside * w <= d * w
  BY <1>1
<1>3. d * (low + w) = d * low + d * w
  BY <1>1
<1>4. inside * w > 0
  BY <1>1
<1>5. d * low + inside * w <= up * d /\ ~(d * low + inside * w <= low * d)
  BY <1>1, <1>2, <1>3, <1>4
<1> QED
  BY <1>5 DEF d, w, InBucket

LEMMA Times == ASSUME NEW d \in Nat, NEW a \in Nat, NEW b \in Nat, a <= b PROVE d * a <= d * b
OBVIOUS

\* A rounded fraction is off by at most a half, and does not pass a whole number
\* that the fraction does not pass.
LEMMA Divided ==
    ASSUME NEW n \in Nat, NEW d \in Nat \ {0}
    PROVE  n \div d \in Int /\ d * (n \div d) <= n /\ n < d * (n \div d) + d
OBVIOUS

LEMMA NearestHalf ==
    ASSUME NEW num \in Nat, NEW den \in Nat \ {0}
    PROVE  /\ Nearest(num, den) \in Nat
           /\ 2 * (den * Nearest(num, den)) <= 2 * num + den
           /\ 2 * num < 2 * (den * Nearest(num, den)) + den
<1> DEFINE n == 2 * num + den
           d == 2 * den
           q == n \div d
<1>1. n \in Nat /\ d \in Nat \ {0}
  OBVIOUS
<1>2. q \in Int /\ d * q <= n /\ n < d * q + d
  <2> HIDE DEF n, d
  <2> QED
    BY <1>1, Divided
<1>3. Nearest(num, den) = q
  BY DEF Nearest
<1> HIDE DEF q
<1>4. d * q = 2 * (den * q)
  BY <1>2
<1>5. 2 * (den * q) <= 2 * num + den /\ 2 * num < 2 * (den * q) + den /\ den * q \in Int
  BY <1>2, <1>4
<1>6. q >= 0
  <2> SUFFICES ASSUME q <= -1 PROVE FALSE
    BY <1>2
  <2>1. den * q <= -den
    BY <1>2
  <2> QED
    BY <1>5, <2>1
<1> QED
  BY <1>2, <1>3, <1>5, <1>6

LEMMA NearestBetween ==
    ASSUME NEW num \in Nat, NEW den \in Nat \ {0}, NEW low \in Nat, NEW up \in Nat,
           low * den <= num, num <= up * den
    PROVE  Nearest(num, den) \in Nat /\ low <= Nearest(num, den) /\ Nearest(num, den) <= up
<1> DEFINE q == Nearest(num, den)
<1>1. /\ q \in Nat /\ 2 * (den * q) <= 2 * num + den /\ 2 * num < 2 * (den * q) + den
  BY NearestHalf
<1> HIDE DEF q
<1>2. low <= q
  <2> SUFFICES ASSUME q + 1 <= low PROVE FALSE
    BY <1>1
  <2>1. den * (q + 1) <= den * low
    BY <1>1, Times
  <2>2. den * (q + 1) = den * q + den /\ den * low = low * den
    BY <1>1
  <2> QED
    BY <1>1, <2>1, <2>2
<1>3. q <= up
  <2> SUFFICES ASSUME up + 1 <= q PROVE FALSE
    BY <1>1
  <2>1. den * (up + 1) <= den * q
    BY <1>1, Times
  <2>2. den * (up + 1) = up * den + den
    OBVIOUS
  <2> QED
    BY <1>1, <2>1, <2>2
<1> QED
  BY <1>1, <1>2, <1>3 DEF q

\* A percentile lies in the bucket where the share is reached.
LEMMA PercentileInBucket ==
    ASSUME NEW h, Shaped(h), NEW permille \in Permille, Total(h) # 0
    PROVE  /\ Percentile(h, permille) \in Nat
           /\ 100 * Lower(h.bounds, Crossing(h, permille)) <= Percentile(h, permille)
           /\ Percentile(h, permille) <= 100 * Upper(h.bounds, Crossing(h, permille))
<1>1. PICK i, c, before : Crosses(h, permille, i, c, before)
  BY CrossingFirst
<1> DEFINE low == Lower(h.bounds, i)
           up == Upper(h.bounds, i)
           share == permille * Total(h)
           inside == share - 1000 * before
           num == 1000 * c * low + inside * (up - low)
           den == 1000 * c
<1>2. /\ i \in 1..(Len(h.bounds) + 1) /\ c \in Nat \ {0} /\ before \in Nat
      /\ Crossing(h, permille) = i
      /\ h.counts[i] = c /\ CountUpTo(h, i - 1) = before
      /\ 1000 * before < share /\ inside <= 1000 * c
  BY <1>1 DEF Crosses
<1>3. low \in Nat /\ up \in Nat /\ low < up
  BY <1>2, BucketEnds
<1>4. inside \in Nat \ {0}
  <2>1. share \in Nat
    <3> DEFINE t == Total(h)
    <3>1. t \in Nat
      BY ShapedSize
    <3> HIDE DEF t
    <3>2. permille * t \in Nat
      BY <3>1 DEF Permille
    <3> QED
      BY <3>2 DEF t
  <2> HIDE DEF share
  <2> QED
    BY <1>2, <2>1
<1>5. Percentile(h, permille) = Nearest(100 * num, den)
  BY <1>2 DEF Percentile
<1>6. num <= up * den /\ low * den < num
  <2> HIDE DEF low, up, inside
  <2>1. c \in Nat /\ inside <= 1000 * c
    BY <1>2 DEF inside
  <2>2. InBucket(c, low, up, inside)
    BY <1>3, <1>4, <2>1, Interpolated
  <2>3. num \in Int /\ den \in Int /\ low * den \in Int
    BY <1>2, <1>3, <1>4
  <2> HIDE DEF num, den
  <2> QED
    BY <2>2, <2>3 DEF InBucket, num, den
<1>7. num \in Int /\ den \in Nat \ {0}
  <2> HIDE DEF low, up, inside
  <2> QED
    BY <1>2, <1>3, <1>4
<1> HIDE DEF num, den, low, up
<1>8. /\ num \in Nat /\ 100 * num \in Nat
      /\ (100 * low) * den <= 100 * num /\ 100 * num <= (100 * up) * den
  <2>1. low * den \in Nat /\ up * den \in Nat
    BY <1>3, <1>7
  <2>2. (100 * low) * den = 100 * (low * den) /\ (100 * up) * den = 100 * (up * den)
    BY <1>3, <1>7
  <2> QED
    BY <1>6, <1>7, <2>1, <2>2
<1>9. 100 * low \in Nat /\ 100 * up \in Nat
  BY <1>3
<1>10. /\ Nearest(100 * num, den) \in Nat
       /\ 100 * low <= Nearest(100 * num, den) /\ Nearest(100 * num, den) <= 100 * up
  BY <1>7, <1>8, <1>9, NearestBetween
<1> QED
  BY <1>2, <1>5, <1>10 DEF low, up

\* It is not above a limit that no sample exceeds.
LEMMA PercentileWithin ==
    ASSUME NEW h, NEW limit \in Nat, Within(h, limit), NEW permille \in Permille
    PROVE  Percentile(h, permille) <= 100 * limit
<1>1. CASE Total(h) = 0
  BY <1>1 DEF Percentile
<1>2. CASE Total(h) # 0
  <2>1. h # NoHist
    <3> SUFFICES ASSUME h = NoHist PROVE Total(h) = 0
      BY <1>2
    <3> DEFINE f == [n \in 1..0 |-> h.counts[n]]
    <3>1. Total(h) = Tally(f)
      BY DEF Total, CountUpTo, NoHist
    <3>2. f \in [1..0 -> Nat] /\ \A n \in 1..0 : f[n] = 0
      OBVIOUS
    <3> HIDE DEF f
    <3> QED
      BY <3>1, <3>2, TallyZero
  <2>2. Shaped(h)
    BY <2>1 DEF Within
  <2>3. PICK b \in 1..Len(h.bounds) : h.bounds[b] = limit
    BY <2>1 DEF Within
  <2>4. PICK i, c, before : Crosses(h, permille, i, c, before)
    BY <1>2, <2>2, CrossingFirst
  <2>5. Reaches(h, permille, b)
    <3> DEFINE total == Total(h)
    <3>1. CountUpTo(h, b) = total
      BY <2>1, <2>3, CountLimit, ZenonT(60)
    <3>2. total \in Nat
      BY <2>2, ShapedSize
    <3>3. permille * total <= 1000 * total
      <4> HIDE DEF total
      <4> QED
        BY <3>2 DEF Permille
    <3> QED
      BY <3>1, <3>2, <3>3 DEF Reaches
  <2>6. /\ i \in 1..Len(h.bounds) /\ i <= b /\ Crossing(h, permille) = i
    <3>1. /\ i \in 1..(Len(h.bounds) + 1) /\ Crossing(h, permille) = i
          /\ ~(b \in 1..(i - 1)) /\ Len(h.bounds) \in Nat
      BY <2>2, <2>4, <2>5, ShapedSize DEF Crosses
    <3> QED
      BY <3>1
  <2>7. Upper(h.bounds, i) \in Nat /\ Upper(h.bounds, i) <= limit
    <3>1. /\ Upper(h.bounds, i) \in Nat /\ Upper(h.bounds, i) = h.bounds[i]
          /\ Len(h.bounds) \in Nat
      <4>1. Len(h.bounds) \in Nat /\ i \in 1..(Len(h.bounds) + 1) /\ i <= Len(h.bounds)
        BY <2>2, <2>6, ShapedSize
      <4> QED
        BY <2>2, <4>1, BucketEnds
    <3> QED
      BY <2>2, <2>3, <2>6, <3>1 DEF Shaped, Increasing
  <2>8. Percentile(h, permille) \in Nat /\ Percentile(h, permille) <= 100 * Upper(h.bounds, i)
    BY <1>2, <2>2, <2>6, PercentileInBucket
  <2> QED
    BY <2>7, <2>8
<1> QED
  BY <1>1, <1>2

-----------------------------------------------------------------------------
(* Ranks *)

\* The samples of a histogram, by latency, and how many of them are in a bucket or
\* not above it.
Samples(s) ==
    /\ DOMAIN s \subseteq Nat /\ IsFiniteSet(DOMAIN s) /\ s \in [DOMAIN s -> Nat]
On(s, A) == [v \in A |-> s[v]]
AtBucket(bounds, s, n) == {v \in DOMAIN s : BucketOf(bounds, v) = n}
ByBucket(bounds, s, n) == {v \in DOMAIN s : BucketOf(bounds, v) <= n}
UpTo(s, v) == {w \in DOMAIN s : w <= v}
AtCount(bounds, s, n) == Tally(On(s, AtBucket(bounds, s, n)))
ByCount(bounds, s, n) == Tally(On(s, ByBucket(bounds, s, n)))

\* What is in each bucket, from two shards.
Files(h, s1, s2) ==
    /\ Shaped(h) /\ Samples(s1) /\ Samples(s2)
    /\ \A n \in 1..(Len(h.bounds) + 1) :
            h.counts[n] = AtCount(h.bounds, s1, n) + AtCount(h.bounds, s2, n)

LEMMA OnPart ==
    ASSUME NEW s, Samples(s), NEW A, A \subseteq DOMAIN s
    PROVE  /\ On(s, A) \in [A -> Nat] /\ IsFiniteSet(A) /\ \A v \in A : On(s, A)[v] = s[v]
           /\ Tally(On(s, A)) \in Nat
<1>1. IsFiniteSet(A) /\ On(s, A) \in [A -> Nat] /\ \A v \in A : On(s, A)[v] = s[v]
  <2>1. IsFiniteSet(A)
    BY FS_Subset DEF Samples
  <2> QED
    BY <2>1 DEF Samples, On
<1>2. Tally(On(s, A)) \in Nat
  BY <1>1, UnitsFinite
<1> QED
  BY <1>1, <1>2

LEMMA OnMore ==
    ASSUME NEW s, Samples(s), NEW B, B \subseteq DOMAIN s, NEW A, A \subseteq B
    PROVE  Tally(On(s, A)) <= Tally(On(s, B))
<1>1. /\ On(s, A) \in [A -> Nat] /\ On(s, B) \in [B -> Nat] /\ IsFiniteSet(B)
      /\ \A v \in A : On(s, A)[v] = On(s, B)[v]
  BY OnPart
<1> QED
  BY <1>1, TallyPart

LEMMA OnParts ==
    ASSUME NEW s, Samples(s), NEW C, C \subseteq DOMAIN s, NEW A, NEW B, Parts(C, A, B)
    PROVE  Tally(On(s, C)) = Tally(On(s, A)) + Tally(On(s, B))
<1>1. A \subseteq C /\ B \subseteq C
  BY DEF Parts
<1>2. ASSUME NEW f, f = On(s, C), NEW g, g = On(s, A), NEW h, h = On(s, B)
      PROVE  Tally(f) = Tally(g) + Tally(h)
  <2>1. IsFiniteSet(C) /\ f \in [C -> Nat]
    BY <1>2, OnPart
  <2>2. g \in [A -> Nat] /\ \A x \in A : g[x] = f[x]
    BY <1>1, <1>2, OnPart DEF On
  <2>3. h \in [B -> Nat] /\ \A x \in B : h[x] = f[x]
    BY <1>1, <1>2, OnPart DEF On
  <2> QED
    BY <2>1, <2>2, <2>3, TallySplit
<1> QED
  BY <1>2

\* Every latency has a bucket, a greater one the same or a later one.
LEMMA BucketRange ==
    ASSUME NEW bounds \in Seq(Nat \ {0}), NEW v \in Nat
    PROVE  BucketOf(bounds, v) \in 1..(Len(bounds) + 1)
<1> DEFINE below == {n \in DOMAIN bounds : bounds[n] < v}
           size == Len(bounds)
<1>1. size \in Nat /\ below \subseteq 1..size
  OBVIOUS
<1>2. IsFiniteSet(1..size) /\ Cardinality(1..size) = size
  <2>1. 1 \in Int /\ size \in Int
    BY <1>1
  <2>2. IsFiniteSet(1..size) /\ Cardinality(1..size) = IF 1 > size THEN 0 ELSE size - 1 + 1
    BY <2>1, FS_Interval, Zenon
  <2> QED
    BY <1>1, <2>2
<1>3. IsFiniteSet(below) /\ Cardinality(below) <= size
  BY <1>1, <1>2, FS_Subset
<1>4. Cardinality(below) \in Nat
  BY <1>3, FS_CardinalityType
<1>5. BucketOf(bounds, v) = 1 + Cardinality(below)
  BY DEF BucketOf
<1> HIDE DEF below
<1> QED
  BY <1>1, <1>3, <1>4, <1>5

LEMMA BucketOrder ==
    ASSUME NEW bounds \in Seq(Nat \ {0}), NEW v \in Nat, NEW w \in Nat, v <= w
    PROVE  BucketOf(bounds, v) <= BucketOf(bounds, w)
<1> DEFINE below(x) == {n \in DOMAIN bounds : bounds[n] < x}
           size == Len(bounds)
<1>1. size \in Nat /\ \A n \in 1..size : bounds[n] \in Nat
  OBVIOUS
<1>2. below(v) \subseteq below(w) /\ below(w) \subseteq 1..size
  BY <1>1
<1>3. IsFiniteSet(1..size)
  <2>1. 1 \in Int /\ size \in Int
    BY <1>1
  <2> QED
    BY <2>1, FS_Interval, Zenon
<1>4. IsFiniteSet(below(w)) /\ IsFiniteSet(below(v)) /\ Cardinality(below(v)) <= Cardinality(below(w))
  BY <1>2, <1>3, FS_Subset
<1>5. Cardinality(below(v)) \in Nat /\ Cardinality(below(w)) \in Nat
  BY <1>4, FS_CardinalityType
<1>6. BucketOf(bounds, v) = 1 + Cardinality(below(v)) /\ BucketOf(bounds, w) = 1 + Cardinality(below(w))
  BY DEF BucketOf
<1> HIDE DEF below
<1> QED
  BY <1>4, <1>5, <1>6

\* Bucket by bucket.
LEMMA ByStep ==
    ASSUME NEW bounds \in Seq(Nat \ {0}), NEW s, Samples(s), NEW n \in Nat
    PROVE  /\ ByCount(bounds, s, n) \in Nat /\ AtCount(bounds, s, n + 1) \in Nat
           /\ ByCount(bounds, s, n + 1) = ByCount(bounds, s, n) + AtCount(bounds, s, n + 1)
<1> DEFINE A == ByBucket(bounds, s, n)
           B == AtBucket(bounds, s, n + 1)
           C == ByBucket(bounds, s, n + 1)
<1>1. \A v \in DOMAIN s : v \in Nat /\ BucketOf(bounds, v) \in 1..(Len(bounds) + 1)
  BY BucketRange DEF Samples
<1>2. /\ A \subseteq DOMAIN s /\ B \subseteq DOMAIN s /\ C \subseteq DOMAIN s
      /\ Parts(C, A, B)
  BY <1>1 DEF ByBucket, AtBucket, Parts
<1> HIDE DEF A, B, C
<1>3. Tally(On(s, A)) \in Nat /\ Tally(On(s, B)) \in Nat
  BY <1>2, OnPart
<1>4. Tally(On(s, C)) = Tally(On(s, A)) + Tally(On(s, B))
  BY <1>2, OnParts
<1> QED
  BY <1>3, <1>4 DEF A, B, C, ByCount, AtCount

LEMMA ByNone ==
    ASSUME NEW bounds \in Seq(Nat \ {0}), NEW s, Samples(s)
    PROVE  ByCount(bounds, s, 0) = 0
<1> DEFINE A == ByBucket(bounds, s, 0)
<1>1. \A v \in DOMAIN s : v \in Nat /\ BucketOf(bounds, v) \in 1..(Len(bounds) + 1)
  BY BucketRange DEF Samples
<1>2. A = {}
  BY <1>1 DEF ByBucket
<1> HIDE DEF A
<1>3. On(s, A) \in [A -> Nat] /\ \A v \in A : On(s, A)[v] = 0
  BY <1>2, OnPart
<1>4. Tally(On(s, A)) = 0
  BY <1>3, TallyZero
<1> QED
  BY <1>4 DEF A, ByCount

LEMMA SetInduction ==
    ASSUME NEW T, 0 \in T, \A m \in Nat : m \in T => m + 1 \in T
    PROVE  Nat \subseteq T
<1> SUFFICES ASSUME Nat \ T # {} PROVE FALSE
  OBVIOUS
<1>1. PICK x \in Nat \ T : \A y \in Nat \ T : ~(y < x)
  BY NatLeast, Zenon
<1>2. x - 1 \in Nat /\ x - 1 \in T
  BY <1>1
<1>3. (x - 1) + 1 \in T
  BY <1>2
<1> QED
  BY <1>1, <1>3

\* The counts up to a bucket are the samples that belong there.
LEMMA CountBy ==
    ASSUME NEW h, NEW s1, NEW s2, Files(h, s1, s2), NEW k \in 0..(Len(h.bounds) + 1)
    PROVE  CountUpTo(h, k) = ByCount(h.bounds, s1, k) + ByCount(h.bounds, s2, k)
<1> DEFINE size == Len(h.bounds) + 1
           A(n) == ByCount(h.bounds, s1, n)
           B(n) == ByCount(h.bounds, s2, n)
           T == {n \in Nat : n <= size => CountUpTo(h, n) = A(n) + B(n)}
<1>1. /\ Shaped(h) /\ h.bounds \in Seq(Nat \ {0}) /\ size \in Nat \ {0} /\ Samples(s1) /\ Samples(s2)
      /\ Len(h.bounds) \in Nat
  BY ShapedSize DEF Files, Shaped
<1>2. 0 \in T
  <2>1. A(0) = 0 /\ B(0) = 0
    BY <1>1, ByNone
  <2>2. CountUpTo(h, 0) = 0
    <3>1. 1 \in 1..(Len(h.bounds) + 1) /\ 1 - 1 = 0
      BY <1>1
    <3> QED
      BY <1>1, <3>1, CountStep
  <2> QED
    BY <2>1, <2>2
<1>3. ASSUME NEW m \in Nat, m \in T PROVE m + 1 \in T
  <2> SUFFICES ASSUME m + 1 <= size PROVE CountUpTo(h, m + 1) = A(m + 1) + B(m + 1)
    OBVIOUS
  <2>1. m + 1 \in 1..size /\ (m + 1) - 1 = m /\ m <= size
    BY <1>1
  <2>2. CountUpTo(h, m) = A(m) + B(m)
    BY <1>3, <2>1
  <2>3. /\ CountUpTo(h, m + 1) = CountUpTo(h, m) + h.counts[m + 1]
    BY <1>1, <2>1, CountStep
  <2>4. h.counts[m + 1] = AtCount(h.bounds, s1, m + 1) + AtCount(h.bounds, s2, m + 1)
    BY <2>1 DEF Files
  <2>5. /\ A(m + 1) = A(m) + AtCount(h.bounds, s1, m + 1)
        /\ B(m + 1) = B(m) + AtCount(h.bounds, s2, m + 1)
        /\ A(m) \in Nat /\ B(m) \in Nat
        /\ AtCount(h.bounds, s1, m + 1) \in Nat /\ AtCount(h.bounds, s2, m + 1) \in Nat
    BY <1>1, ByStep
  <2> HIDE DEF A, B
  <2> QED
    BY <2>2, <2>3, <2>4, <2>5
<1> HIDE DEF T
<1>4. Nat \subseteq T
  BY <1>2, <1>3, SetInduction
<1>5. k \in T /\ k <= size
  BY <1>1, <1>4
<1> QED
  BY <1>5 DEF T

\* A finite set of numbers has a greatest.
LEMMA NatGreatest ==
    ASSUME NEW S, S \subseteq Nat, IsFiniteSet(S), S # {}
    PROVE  \E m \in S : \A x \in S : x <= m
<1> DEFINE Top(U) == \E m \in U : \A x \in U : x <= m
           T == {n \in Nat : \A U \in SUBSET S : Cardinality(U) = n /\ U # {} => Top(U)}
<1>1. \A U \in SUBSET S : IsFiniteSet(U) /\ Cardinality(U) \in Nat
  BY FS_Subset, FS_CardinalityType
<1>2. 0 \in T
  BY <1>1, FS_EmptySet
<1>3. ASSUME NEW n \in Nat, n \in T PROVE n + 1 \in T
  <2> SUFFICES ASSUME NEW U \in SUBSET S, Cardinality(U) = n + 1, U # {} PROVE Top(U)
    OBVIOUS
  <2>1. PICK a \in U : TRUE
    OBVIOUS
  <2> DEFINE W == U \ {a}
  <2>2. Cardinality(W) = n /\ W \in SUBSET S
    <3>1. IsFiniteSet(U)
      BY <1>1
    <3>2. Cardinality(U \ {a}) = Cardinality(U) - 1
      BY <3>1, FS_RemoveElement
    <3> QED
      BY <3>2
  <2>3. CASE W = {}
    <3>1. a \in Nat
      OBVIOUS
    <3>2. U = {a}
      BY <2>3, Zenon
    <3>3. a <= a
      BY <3>1
    <3> QED
      BY <3>2, <3>3
  <2>4. CASE W # {}
    <3>1. Top(W)
      BY <1>3, <2>2, <2>4
    <3>2. PICK m \in W : \A x \in W : x <= m
      BY <3>1
    <3>3. a \in Nat /\ m \in Nat /\ a \in U /\ m \in U /\ \A x \in U : x \in Nat
      BY <3>2
    <3>4. CASE a <= m
      BY <3>2, <3>3, <3>4
    <3>5. CASE ~(a <= m)
      BY <3>2, <3>3, <3>5
    <3> QED
      BY <3>4, <3>5
  <2> QED
    BY <2>3, <2>4
<1> HIDE DEF T, Top
<1>4. Cardinality(S) \in T
  <2>1. Nat \subseteq T
    BY <1>2, <1>3, SetInduction
  <2> QED
    BY <1>1, <2>1
<1> QED
  BY <1>4 DEF T, Top

\* The samples up to a latency and those up to a bucket.
LEMMA UpToCovers ==
    ASSUME NEW bounds \in Seq(Nat \ {0}), NEW s, Samples(s), NEW x, NEW k,
           \A v \in ByBucket(bounds, s, k) : v <= x
    PROVE  ByCount(bounds, s, k) <= SamplesUpTo(s, x)
<1>1. ByBucket(bounds, s, k) \subseteq UpTo(s, x) /\ UpTo(s, x) \subseteq DOMAIN s
  BY DEF ByBucket, UpTo
<1> QED
  BY <1>1, OnMore DEF ByCount, SamplesUpTo, On, UpTo

LEMMA UpToWithin ==
    ASSUME NEW bounds \in Seq(Nat \ {0}), NEW s, Samples(s), NEW x, NEW k,
           \A v \in UpTo(s, x) : BucketOf(bounds, v) <= k
    PROVE  SamplesUpTo(s, x) <= ByCount(bounds, s, k)
<1>1. UpTo(s, x) \subseteq ByBucket(bounds, s, k) /\ ByBucket(bounds, s, k) \subseteq DOMAIN s
  BY DEF ByBucket, UpTo
<1> QED
  BY <1>1, OnMore DEF ByCount, SamplesUpTo, On, UpTo

LEMMA CountTypes ==
    ASSUME NEW s, Samples(s)
    PROVE  /\ \A x : SamplesUpTo(s, x) \in Nat
           /\ \A bounds, k : ByCount(bounds, s, k) \in Nat
<1>1. ASSUME NEW x PROVE SamplesUpTo(s, x) \in Nat
  <2>1. UpTo(s, x) \subseteq DOMAIN s
    BY DEF UpTo
  <2> QED
    BY <2>1, OnPart DEF SamplesUpTo, On, UpTo
<1>2. ASSUME NEW bounds, NEW k PROVE ByCount(bounds, s, k) \in Nat
  <2>1. ByBucket(bounds, s, k) \subseteq DOMAIN s
    BY DEF ByBucket
  <2> QED
    BY <2>1, OnPart DEF ByCount
<1> QED
  BY <1>1, <1>2

\* A latency that the share of all samples does not exceed, and the least of them.
EnoughOf(s1, s2, x, share) == 1000 * (SamplesUpTo(s1, x) + SamplesUpTo(s2, x)) >= share
HasRank(s1, s2, x, share) ==
    /\ EnoughOf(s1, s2, x, share)
    /\ \A v \in DOMAIN s1 \cup DOMAIN s2 : v < x => ~EnoughOf(s1, s2, v, share)

\* The sample with the rank of a percentile is in the bucket where the counts
\* reach the share.
LEMMA Ranked ==
    ASSUME NEW h, NEW s1, NEW s2, Files(h, s1, s2),
           NEW permille \in Permille, Total(h) # 0
    PROVE  \E x \in DOMAIN s1 \cup DOMAIN s2 :
              /\ HasRank(s1, s2, x, permille * Total(h))
              /\ BucketOf(h.bounds, x) = Crossing(h, permille)
<1> DEFINE V == DOMAIN s1 \cup DOMAIN s2
           bounds == h.bounds
           share == permille * Total(h)
           up(x) == SamplesUpTo(s1, x) + SamplesUpTo(s2, x)
           E == {x \in V : EnoughOf(s1, s2, x, share)}
<1>1. /\ Shaped(h) /\ Samples(s1) /\ Samples(s2) /\ V \subseteq Nat
      /\ bounds \in Seq(Nat \ {0}) /\ Len(bounds) \in Nat /\ Total(h) \in Nat
  BY ShapedSize DEF Files, Shaped, Samples
<1>2. PICK i, c, before : Crosses(h, permille, i, c, before)
  BY <1>1, CrossingFirst
<1>3. /\ i \in 1..(Len(bounds) + 1) /\ i \in Nat /\ c \in Nat \ {0} /\ before \in Nat
      /\ Crossing(h, permille) = i
      /\ 1000 * before < share /\ share - 1000 * before <= 1000 * c
      /\ CountUpTo(h, i - 1) = before /\ CountUpTo(h, i) = before + c
  <2>1. i \in 1..(Len(bounds) + 1)
    BY <1>2 DEF Crosses
  <2>2. CountUpTo(h, i) = CountUpTo(h, i - 1) + h.counts[i]
    BY <1>1, <2>1, CountStep
  <2> QED
    BY <1>1, <1>2, <2>1, <2>2 DEF Crosses
<1>4. share \in Nat
  <2> DEFINE t == Total(h)
  <2>1. t \in Nat
    BY <1>1
  <2> HIDE DEF t
  <2>2. permille * t \in Nat
    BY <2>1 DEF Permille
  <2> QED
    BY <2>2 DEF t
<1> DEFINE b1(k) == ByCount(bounds, s1, k)
           b2(k) == ByCount(bounds, s2, k)
<1>5. before = b1(i - 1) + b2(i - 1) /\ before + c = b1(i) + b2(i)
  <2>1. i - 1 \in 0..(Len(bounds) + 1) /\ i \in 0..(Len(bounds) + 1)
    BY <1>1, <1>3
  <2> QED
    BY <1>3, <2>1, CountBy
<1>6. /\ \A x : SamplesUpTo(s1, x) \in Nat /\ SamplesUpTo(s2, x) \in Nat
      /\ \A k : b1(k) \in Nat /\ b2(k) \in Nat
  BY <1>1, CountTypes
<1>7. \A v, w \in V : v <= w => BucketOf(bounds, v) <= BucketOf(bounds, w)
  BY <1>1, BucketOrder
<1>8. \A v \in V : v \in Nat /\ BucketOf(bounds, v) \in Nat
  <2>1. ASSUME NEW v \in V PROVE v \in Nat /\ BucketOf(bounds, v) \in Nat
    <3>1. v \in Nat
      BY <1>1, <2>1
    <3>2. BucketOf(bounds, v) \in 1..(Len(bounds) + 1)
      BY <1>1, <3>1, BucketRange
    <3> HIDE DEF bounds
    <3> QED
      BY <1>1, <3>1, <3>2
  <2> HIDE DEF V
  <2> QED
    BY <2>1
<1> HIDE DEF share, b1, b2
\* What is in the buckets up to this one is enough.
<1>9. ASSUME NEW x, \A v \in V : BucketOf(bounds, v) <= i => v <= x
      PROVE  EnoughOf(s1, s2, x, share)
  <2>1. b1(i) <= SamplesUpTo(s1, x) /\ b2(i) <= SamplesUpTo(s2, x)
    <3>1. /\ \A v \in ByBucket(bounds, s1, i) : v <= x
          /\ \A v \in ByBucket(bounds, s2, i) : v <= x
      BY <1>9 DEF ByBucket
    <3> QED
      BY <1>1, <3>1, UpToCovers DEF b1, b2
  <2>2. share <= 1000 * (b1(i) + b2(i))
    BY <1>3, <1>4, <1>5
  <2> QED
    BY <1>4, <1>6, <2>1, <2>2 DEF EnoughOf
\* What is in the buckets below is not.
<1>10. ASSUME NEW x, \A v \in V : v <= x => BucketOf(bounds, v) <= i - 1
       PROVE  ~EnoughOf(s1, s2, x, share)
  <2>1. SamplesUpTo(s1, x) <= b1(i - 1) /\ SamplesUpTo(s2, x) <= b2(i - 1)
    <3>1. /\ \A v \in UpTo(s1, x) : BucketOf(bounds, v) <= i - 1
          /\ \A v \in UpTo(s2, x) : BucketOf(bounds, v) <= i - 1
      BY <1>10 DEF UpTo
    <3> QED
      BY <1>1, <3>1, UpToWithin DEF b1, b2
  <2>2. 1000 * (b1(i - 1) + b2(i - 1)) < share
    BY <1>3, <1>5
  <2> QED
    BY <1>4, <1>6, <2>1, <2>2 DEF EnoughOf
<1> DEFINE W == {v \in V : BucketOf(bounds, v) <= i}
<1>11. PICK m \in W : \A v \in W : v <= m
  <2>1. W # {}
    <3> SUFFICES ASSUME W = {} PROVE FALSE
      OBVIOUS
    <3>1. \A v \in V : v <= -1 => BucketOf(bounds, v) <= i - 1
      BY <1>8
    <3>2. \A v \in V : BucketOf(bounds, v) <= i => v <= -1
      OBVIOUS
    <3> QED
      BY <1>9, <1>10, <3>1, <3>2
  <2>2. W \subseteq Nat /\ IsFiniteSet(W)
    <3>1. IsFiniteSet(DOMAIN s1) /\ IsFiniteSet(DOMAIN s2)
      BY <1>1 DEF Samples
    <3>2. IsFiniteSet(V)
      BY <3>1, FS_Union
    <3>3. W \subseteq V
      OBVIOUS
    <3> HIDE DEF W, V
    <3> QED
      BY <1>1, <3>2, <3>3, FS_Subset
  <2> HIDE DEF W
  <2> QED
    BY <2>1, <2>2, NatGreatest
<1>12. m \in E
  BY <1>9, <1>11
<1>13. PICK x \in E : \A y \in E : ~(y < x)
  <2>1. E \subseteq Nat /\ E # {}
    BY <1>1, <1>12
  <2> HIDE DEF E
  <2> QED
    BY <2>1, NatLeast
<1>14. x \in V /\ x \in Nat /\ BucketOf(bounds, x) \in Nat /\ EnoughOf(s1, s2, x, share)
  BY <1>8, <1>13
<1>15. \A v \in V : v < x => ~EnoughOf(s1, s2, v, share)
  BY <1>13
<1>16. BucketOf(bounds, x) = i
  <2>1. CASE BucketOf(bounds, x) <= i - 1
    <3>1. \A v \in V : v <= x => BucketOf(bounds, v) <= i - 1
      BY <1>3, <1>7, <1>8, <1>14, <2>1
    <3> QED
      BY <1>10, <1>14, <3>1
  <2>2. CASE BucketOf(bounds, x) > i
    <3>1. ~(x <= m)
      <4>1. m \in V /\ BucketOf(bounds, m) <= i /\ BucketOf(bounds, m) \in Nat
        BY <1>8, <1>11
      <4> QED
        BY <1>3, <1>7, <1>14, <2>2, <4>1
    <3>2. m \in Nat /\ m < x /\ m \in V
      BY <1>8, <1>11, <1>14, <3>1
    <3> QED
      BY <1>12, <1>15, <3>2
  <2> QED
    BY <1>3, <1>14, <2>1, <2>2
<1>17. HasRank(s1, s2, x, share)
  BY <1>14, <1>15 DEF HasRank
<1> QED
  BY <1>3, <1>14, <1>16, <1>17 DEF share

-----------------------------------------------------------------------------
(* The samples behind a merge *)

NoSamples == [v \in {} |-> 0]

\* The histogram of these samples, of which there are some.
Holds(h, s) ==
    /\ Shaped(h) /\ Samples(s) /\ Tally(s) # 0
    /\ h = [bounds |-> h.bounds, counts |-> h.counts]
    /\ \A n \in 1..(Len(h.bounds) + 1) : h.counts[n] = AtCount(h.bounds, s, n)

LEMMA NoneSampled ==
    /\ Samples(NoSamples) /\ DOMAIN NoSamples = {} /\ Tally(NoSamples) = 0
    /\ \A bounds, n : AtCount(bounds, NoSamples, n) = 0
    /\ \A x : SamplesUpTo(NoSamples, x) = 0
<1> DEFINE none == NoSamples
<1>1. DOMAIN none = {} /\ none \in [{} -> Nat] /\ \A v \in {} : none[v] = 0
  BY DEF NoSamples
<1> HIDE DEF none
<1>2. Samples(none)
  BY <1>1, FS_EmptySet DEF Samples
<1>3. ASSUME NEW A, A \subseteq DOMAIN none PROVE Tally(On(none, A)) = 0
  <2>1. On(none, A) \in [A -> Nat] /\ \A v \in A : On(none, A)[v] = 0
    BY <1>1, <1>3 DEF On
  <2> QED
    BY <2>1, TallyZero
<1>4. Tally(none) = 0
  BY <1>1, TallyZero
<1>5. ASSUME NEW bounds, NEW n PROVE AtCount(bounds, none, n) = 0
  <2>1. AtBucket(bounds, none, n) \subseteq DOMAIN none
    BY DEF AtBucket
  <2> QED
    BY <1>3, <2>1 DEF AtCount
<1>6. ASSUME NEW x PROVE SamplesUpTo(none, x) = 0
  <2>1. UpTo(none, x) \subseteq DOMAIN none
    BY DEF UpTo
  <2> QED
    BY <1>3, <2>1 DEF SamplesUpTo, On, UpTo
<1> QED
  BY <1>1, <1>2, <1>4, <1>5, <1>6 DEF none

LEMMA SampleTypes ==
    ASSUME NEW o, Plausible(o)
    PROVE  Samples(o.samples) /\ Tally(o.samples) \in Nat
<1>1. Samples(o.samples)
  BY DEF Plausible, Samples
<1> DEFINE s == o.samples
           V == DOMAIN s
<1>2. IsFiniteSet(V) /\ s \in [V -> Nat]
  BY <1>1 DEF Samples
<1> HIDE DEF s, V
<1>3. Tally(s) \in Nat
  BY <1>2, UnitsFinite
<1> QED
  BY <1>1, <1>3 DEF s

LEMMA HistogramHolds ==
    ASSUME NEW o, Plausible(o), NEW h, h = Histogram(o.bounds, o.samples), h # NoHist
    PROVE  Holds(h, o.samples)
<1> DEFINE s == o.samples
           V == DOMAIN s
           bounds == o.bounds
           counts == [n \in 1..(Len(bounds) + 1) |-> AtCount(bounds, s, n)]
<1>1. /\ bounds \in Seq(Nat \ {0}) /\ Increasing(bounds) /\ Sla.p99 \in ToSet(bounds)
      /\ Samples(s) /\ IsFiniteSet(V) /\ s \in [V -> Nat]
  BY DEF Plausible, UsableBounds, Increasing, Samples
<1>2. bounds # <<>>
  BY <1>1 DEF ToSet
<1>3. ~(\A v \in V : s[v] = 0) /\ h = [bounds |-> bounds, counts |-> counts]
  BY DEF Histogram, AtCount, On, AtBucket
<1>4. \A n : AtCount(bounds, s, n) \in Nat
  <2>1. ASSUME NEW n PROVE AtCount(bounds, s, n) \in Nat
    <3>1. AtBucket(bounds, s, n) \subseteq DOMAIN s
      BY DEF AtBucket
    <3> QED
      BY <1>1, <3>1, OnPart DEF AtCount
  <2> QED
    BY <2>1
<1> HIDE DEF s, bounds
<1>5. /\ h.bounds = bounds /\ h.counts = counts /\ counts \in [1..(Len(bounds) + 1) -> Nat]
      /\ \A n \in 1..(Len(bounds) + 1) : counts[n] = AtCount(bounds, s, n)
  BY <1>3, <1>4
<1>6. Tally(s) # 0
  <2>1. PICK v \in V : s[v] # 0
    BY <1>3
  <2>2. s[v] \in Nat /\ Tally(s) \in Nat
    BY <1>1, <2>1, UnitsFinite
  <2>3. s[v] <= Tally(s)
    BY <1>1, <2>1, TallyAtLeast
  <2> QED
    BY <2>1, <2>2, <2>3
<1> HIDE DEF counts, V
<1>7. Holds(h, s)
  BY <1>1, <1>2, <1>3, <1>5, <1>6 DEF Holds, Shaped
<1> QED
  BY <1>7 DEF s

\* A merge has the samples of those shards that have its buckets.
LEMMA OneFile ==
    ASSUME NEW h, NEW s, Holds(h, s)
    PROVE  /\ Files(h, s, NoSamples) /\ Files(h, NoSamples, s)
           /\ Tally(s) \in Nat \ {0}
<1>1. \A n \in 1..(Len(h.bounds) + 1) : h.counts[n] = AtCount(h.bounds, s, n) /\ h.counts[n] \in Nat
  BY DEF Holds, Shaped
<1>2. \A n : AtCount(h.bounds, NoSamples, n) = 0
  BY NoneSampled
<1>3. \A n \in 1..(Len(h.bounds) + 1) :
         /\ h.counts[n] = AtCount(h.bounds, s, n) + AtCount(h.bounds, NoSamples, n)
         /\ h.counts[n] = AtCount(h.bounds, NoSamples, n) + AtCount(h.bounds, s, n)
  BY <1>1, <1>2
<1> DEFINE V == DOMAIN s
<1>4. IsFiniteSet(V) /\ s \in [V -> Nat] /\ Tally(s) # 0
  BY DEF Holds, Samples
<1> HIDE DEF V
<1>5. Tally(s) \in Nat
  BY <1>4, UnitsFinite
<1> QED
  BY <1>3, <1>4, <1>5, NoneSampled DEF Holds, Files

Counted(h, s1, s2) ==
    /\ Files(h, s1, s2) /\ Tally(s1) \in Nat /\ Tally(s2) \in Nat
    /\ Tally(s1) + Tally(s2) # 0
With(h, m, s) == IF h.bounds = m.bounds THEN s ELSE NoSamples

LEMMA MergeFiles ==
    ASSUME NEW h1, NEW h2, NEW s1, NEW s2,
           h1 # NoHist => Holds(h1, s1), h2 # NoHist => Holds(h2, s2),
           NEW m, m = MergeHist(h1, h2), m # NoHist
    PROVE  Counted(m, With(h1, m, s1), With(h2, m, s2))
<1>1. \A h, s : Holds(h, s) => h.bounds # <<>>
  BY DEF Holds, Shaped
<1>2. NoHist.bounds = <<>>
  BY DEF NoHist
<1>3. Tally(NoSamples) = 0
  BY NoneSampled
<1>4. CASE h1 = NoHist
  <2>1. m = h2
    BY <1>4 DEF MergeHist
  <2>2. With(h1, m, s1) = NoSamples /\ With(h2, m, s2) = s2 /\ Holds(m, s2)
    BY <1>1, <1>2, <1>4, <2>1 DEF With
  <2> QED
    BY <1>3, <2>2, OneFile DEF Counted
<1>5. CASE h1 # NoHist /\ h2.bounds # h1.bounds
  <2>1. m = h1
    BY <1>5 DEF MergeHist
  <2>2. With(h1, m, s1) = s1 /\ With(h2, m, s2) = NoSamples /\ Holds(m, s1)
    BY <1>5, <2>1 DEF With
  <2> QED
    BY <1>3, <2>2, OneFile DEF Counted
<1>6. CASE h1 # NoHist /\ h2.bounds = h1.bounds
  <2> DEFINE bounds == h1.bounds
             K == 1..(Len(bounds) + 1)
             sum == [n \in K |-> h1.counts[n] + h2.counts[n]]
  <2>1. Holds(h1, s1) /\ Holds(h2, s2)
    BY <1>1, <1>2, <1>6
  <2>2. /\ h1 = [bounds |-> bounds, counts |-> h1.counts] /\ h1.counts \in [K -> Nat]
        /\ h2.counts \in [K -> Nat]
        /\ \A n \in K : h1.counts[n] = AtCount(bounds, s1, n) /\ h2.counts[n] = AtCount(bounds, s2, n)
        /\ bounds \in Seq(Nat \ {0}) /\ Increasing(bounds) /\ bounds # <<>>
        /\ Samples(s1) /\ Samples(s2)
    BY <1>6, <2>1 DEF Holds, Shaped
  <2>3. m = [bounds |-> bounds, counts |-> sum]
    BY <1>6, <2>2 DEF MergeHist
  <2>4. /\ m.bounds = bounds /\ m.counts = sum /\ sum \in [K -> Nat]
        /\ \A n \in K : sum[n] = AtCount(bounds, s1, n) + AtCount(bounds, s2, n)
    <3> HIDE DEF bounds, K
    <3>1. sum \in [K -> Nat]
      BY <2>2
    <3>2. \A n \in K : sum[n] = AtCount(bounds, s1, n) + AtCount(bounds, s2, n)
      BY <2>2
    <3> HIDE DEF sum
    <3>3. m.bounds = bounds /\ m.counts = sum
      BY <2>3
    <3> QED
      BY <3>1, <3>2, <3>3
  <2>5. With(h1, m, s1) = s1 /\ With(h2, m, s2) = s2
    BY <1>6, <2>4 DEF With
  <2>6. Tally(s1) \in Nat \ {0} /\ Tally(s2) \in Nat \ {0}
    BY <2>1, OneFile
  <2> HIDE DEF bounds, sum
  <2>7. Files(m, s1, s2)
    BY <2>2, <2>4 DEF Files, Shaped
  <2> QED
    BY <2>5, <2>6, <2>7 DEF Counted
<1> QED
  BY <1>4, <1>5, <1>6

\* The counts of all buckets are all samples.
LEMMA TotalSamples ==
    ASSUME NEW h, NEW s1, NEW s2, Files(h, s1, s2)
    PROVE  Total(h) = Tally(s1) + Tally(s2)
<1> DEFINE size == Len(h.bounds) + 1
<1>1. /\ h.bounds \in Seq(Nat \ {0}) /\ Samples(s1) /\ Samples(s2)
      /\ size \in Nat /\ Len(h.counts) = size /\ size \in 0..(Len(h.bounds) + 1)
  BY ShapedSize DEF Files, Shaped
<1>2. Total(h) = ByCount(h.bounds, s1, size) + ByCount(h.bounds, s2, size)
  BY <1>1, CountBy DEF Total
<1>3. ASSUME NEW s, Samples(s) PROVE ByCount(h.bounds, s, size) = Tally(s)
  <2>1. ASSUME NEW v \in DOMAIN s PROVE BucketOf(h.bounds, v) <= size
    <3>1. v \in Nat
      BY <1>3 DEF Samples
    <3>2. BucketOf(h.bounds, v) \in 1..(Len(h.bounds) + 1)
      BY <1>1, <3>1, BucketRange
    <3> QED
      BY <3>2
  <2>2. ByBucket(h.bounds, s, size) = DOMAIN s
    BY <2>1 DEF ByBucket
  <2>3. On(s, DOMAIN s) = s
    BY <1>3 DEF On, Samples
  <2> QED
    BY <2>2, <2>3 DEF ByCount
<1> QED
  BY <1>1, <1>2, <1>3

-----------------------------------------------------------------------------
(* The verdict *)

\* The followed shard's outcome is there when its drain has ended, the other
\* one when its file is opened.
OutcomesPlausible ==
    /\ ~running /\ sweep # "done" => outcome = <<outcome[1]>> /\ Plausible(outcome[1])
    /\ sweep # "done" => fetched = {}
    /\ sweep = "done" => /\ outcome = <<outcome[1], outcome[2]>>
                         /\ Plausible(outcome[1]) /\ Plausible(outcome[2])
                         /\ fetched \subseteq Shards

\* Samples are counts of latencies.
Sampled == samples \in [Latencies -> Nat]

VInv == Counters /\ FInv /\ Sampled /\ OutcomesPlausible

LEMMA FinishPlausible ==
    ASSUME Counters, Sampled, Finish PROVE outcome' = <<outcome'[1]>> /\ Plausible(outcome'[1])
<1> DEFINE o == [due |-> pubSeq, got |-> Cardinality(received),
                 ends |-> first = 0 /\ {0, pubSeq - 1} \subseteq received,
                 copies |-> copied, ordered |-> fifo,
                 rx |-> rx, gaps |-> gaps, dups |-> dups,
                 bounds |-> Bounds, samples |-> samples]
<1>1. outcome' = <<o>>
  BY DEF Finish
<1>2. /\ pubSeq \in Nat /\ rx \in Nat /\ gaps \in Nat /\ dups \in Nat /\ IsFiniteSet(received)
  BY DEF Counters, IInv, TypeOK, DInv, Published
<1>3. Cardinality(received) \in Nat
  BY <1>2, FS_CardinalityType
<1>4. first = 0 /\ {0, pubSeq - 1} \subseteq received /\ copied = 0
        => rx = Cardinality(received) /\ pubSeq <= Cardinality(received) + gaps
  BY EndsCounted DEF Counters
<1>5. ~(Cardinality(received) < pubSeq) /\ ~(copied > 0) /\ fifo => gaps = 0 /\ dups = 0
  BY NothingMissing DEF Counters
<1>6. UsableBounds(Bounds)
  BY BucketsAssumption
<1>7. /\ DOMAIN samples \subseteq Nat /\ IsFiniteSet(DOMAIN samples)
      /\ samples \in [DOMAIN samples -> Nat]
  BY CollectAssumption DEF Sampled
<1>8. /\ o.due = pubSeq /\ o.got = Cardinality(received) /\ o.copies = copied
      /\ o.rx = rx /\ o.gaps = gaps /\ o.dups = dups /\ o.ordered = fifo
      /\ o.ends = (first = 0 /\ {0, pubSeq - 1} \subseteq received)
      /\ o.bounds = Bounds /\ o.samples = samples
  OBVIOUS
<1> HIDE DEF o
<1>9. Plausible(o)
  BY <1>2, <1>3, <1>4, <1>5, <1>6, <1>7, <1>8 DEF Plausible
<1> QED
  BY <1>1, <1>9

LEMMA AppendToOne == ASSUME NEW a, NEW b PROVE Append(<<a>>, b) = <<a, b>>
<1> DEFINE S == {a, b}
<1>1. <<a>> \in Seq(S) /\ Len(<<a>>) = 1 /\ <<a>>[1] = a /\ b \in S
  OBVIOUS
<1> HIDE DEF S
<1>2. <<a, b>> = [k \in 1..2 |-> IF k = 1 THEN a ELSE b]
  OBVIOUS
<1>3. Append(<<a>>, b) = [k \in 1..2 |-> IF k = 1 THEN a ELSE b]
  BY <1>1
<1> QED
  BY <1>2, <1>3

LEMMA FetchPlausible ==
    ASSUME OutcomesPlausible, FInv, Fetch PROVE OutcomesPlausible'
<1>1. PICK other \in Others : outcome' = Append(outcome, other)
  BY DEF Fetch
<1>2. /\ sweep = "fetch" /\ sweep' = "done" /\ UNCHANGED running
      /\ fetched' = {p \in Shards : bucket[p] = "full"}
  BY DEF Fetch
<1>3. ~running /\ outcome = <<outcome[1]>> /\ Plausible(outcome[1])
  BY <1>2 DEF OutcomesPlausible, FInv, CollectsLater
<1>4. Plausible(other)
  BY OthersAssumption
<1>5. outcome' = <<outcome[1], other>>
  <2>1. Append(<<outcome[1]>>, other) = <<outcome[1], other>>
    BY AppendToOne
  <2> QED
    BY <1>1, <1>3, <2>1
<1>6. outcome'[1] = outcome[1] /\ outcome'[2] = other
  BY <1>5
<1> QED
  BY <1>2, <1>3, <1>4, <1>5, <1>6 DEF OutcomesPlausible

LEMMA KeepSampled == CollectSpec => []Sampled
<1>1. CollectInit => Sampled
  BY DEF CollectInit, Sampled
<1>2. Sampled /\ [CollectNext]_collectVars => Sampled'
  <2> SUFFICES ASSUME Sampled, [CollectNext]_collectVars PROVE Sampled'
    OBVIOUS
  <2>1. CASE UNCHANGED samples
    BY <2>1 DEF Sampled
  <2>2. CASE Traffic \/ Fetch \/ UNCHANGED collectVars
    BY <2>1, <2>2 DEF Traffic, Fetch, collectVars, shardVars
  <2>3. ASSUME NEW k \in 1..Len(path), Receive(k) PROVE Sampled'
    <3>1. CASE \E v \in Latencies : samples' = [samples EXCEPT ![v] = @ + 1]
      BY <3>1 DEF Sampled
    <3> QED
      BY <2>1, <2>3, <3>1 DEF Receive
  <2>4. CASE Finish
    BY <2>4 DEF Finish, Sampled
  <2>5. CASE Wait \/ FinalSync \/ SshFails \/ PullFails \/ SyncEnd \/ TimerStart \/ List
    BY <2>1, <2>5 DEF Wait, FinalSync, SshFails, PullFails, SyncEnd, TimerStart, List, shardVars
  <2>6. ASSUME NEW p \in Shards,
               WriteResult(p) \/ Rename(p) \/ Die(p) \/ Upload(p) \/ UploadFails(p)
        PROVE  Sampled'
    BY <2>1, <2>6 DEF WriteResult, Rename, Die, Upload, UploadFails, shardVars
  <2> QED
    BY <2>2, <2>3, <2>4, <2>5, <2>6 DEF CollectNext, SweepStep, SyncStep
<1> QED
  BY <1>1, <1>2, PTL DEF CollectSpec

LEMMA KeepVInv == CollectSpec => []VInv
<1>1. CollectInit => OutcomesPlausible
  BY DEF CollectInit, OutcomesPlausible
<1>2. Counters /\ FInv /\ Sampled /\ OutcomesPlausible /\ [CollectNext]_collectVars => OutcomesPlausible'
  <2> SUFFICES ASSUME Counters, FInv, Sampled, OutcomesPlausible, [CollectNext]_collectVars
               PROVE  OutcomesPlausible'
    OBVIOUS
  <2>1. running => sweep = "wait"
    BY DEF FInv, CollectsLater
  <2>2. CASE UNCHANGED <<running, outcome, sweep, fetched>>
    BY <2>2 DEF OutcomesPlausible
  <2>3. CASE Traffic \/ (\E k \in 1..Len(path) : Receive(k)) \/ UNCHANGED collectVars
    BY <2>2, <2>3 DEF Traffic, Receive, collectVars, shardVars, sweepVars
  <2>4. CASE Finish
    <3>1. outcome' = <<outcome'[1]>> /\ Plausible(outcome'[1])
      BY <2>4, FinishPlausible
    <3>2. sweep' = "wait" /\ fetched' = {}
      BY <2>1, <2>4 DEF Finish, sweepVars, OutcomesPlausible
    <3> QED
      BY <3>1, <3>2 DEF OutcomesPlausible
  <2>5. CASE Wait \/ FinalSync \/ SshFails \/ PullFails \/ SyncEnd
    <3>1. /\ sweep # "done" => sweep' # "done"
          /\ sweep = "done" => UNCHANGED sweep
          /\ UNCHANGED <<running, outcome, fetched>>
      BY <2>5 DEF Wait, FinalSync, SshFails, PullFails, SyncEnd, shardVars
    <3> QED
      BY <3>1 DEF OutcomesPlausible
  <2>6. CASE Fetch
    BY <2>6, FetchPlausible
  <2>7. CASE TimerStart \/ List
    BY <2>2, <2>7 DEF TimerStart, List, shardVars, sweepVars
  <2>8. ASSUME NEW p \in Shards,
               WriteResult(p) \/ Rename(p) \/ Die(p) \/ Upload(p) \/ UploadFails(p)
        PROVE  OutcomesPlausible'
    BY <2>2, <2>8 DEF WriteResult, Rename, Die, Upload, UploadFails, shardVars, sweepVars
  <2> QED
    BY <2>3, <2>4, <2>5, <2>6, <2>7, <2>8 DEF CollectNext, SweepStep, SyncStep
<1> QED
  BY <1>1, <1>2, KeepCounters, KeepFInv, KeepSampled, PTL DEF CollectSpec, VInv

\* The sum over the merged shards, in the order of their names.
Both(F, x, y) == (IF 1 \in F THEN x ELSE 0) + (IF 2 \in F THEN y ELSE 0)
ByShard(F, x, y) == [p \in F |-> IF p = 1 THEN x ELSE y]
ByName(F, x, y) == [k \in 1..Cardinality(F) |-> IF k = 1 /\ 1 \in F THEN x ELSE y]

LEMMA PairSize == Cardinality({1, 2}) = 2
<1>1. {1, 2} = {1} \cup {2} /\ 2 \notin {1}
  OBVIOUS
<1>2. IsFiniteSet({1}) /\ Cardinality({1}) = 1
  BY FS_Singleton
<1>3. Cardinality({1} \cup {2}) = Cardinality({1}) + 1
  BY <1>1, <1>2, FS_AddElement
<1> QED
  BY <1>1, <1>2, <1>3

LEMMA ShardSums ==
    ASSUME NEW F \in SUBSET Shards, F # {}, NEW x \in Nat, NEW y \in Nat
    PROVE  Tally(ByShard(F, x, y)) = Both(F, x, y) /\ Tally(ByName(F, x, y)) = Both(F, x, y)
<1>1. CASE F = {1}
  <2>1. Cardinality(F) = 1
    BY <1>1, FS_Singleton
  <2>2. 1..1 = {1}
    OBVIOUS
  <2>3. ByShard(F, x, y) = [p \in {1} |-> x] /\ ByName(F, x, y) = [p \in {1} |-> x]
    BY <1>1, <2>1, <2>2 DEF ByShard, ByName
  <2>4. [p \in {1} |-> x] \in [{1} -> Nat] /\ [p \in {1} |-> x][1] = x
    OBVIOUS
  <2>5. Tally([p \in {1} |-> x]) = x
    BY <2>4, TallyOne
  <2> QED
    BY <1>1, <2>3, <2>5 DEF Both
<1>2. CASE F = {2}
  <2>1. Cardinality(F) = 1
    BY <1>2, FS_Singleton
  <2>2. 1..1 = {1}
    OBVIOUS
  <2>3. ByShard(F, x, y) = [p \in {2} |-> y] /\ ByName(F, x, y) = [p \in {1} |-> y]
    BY <1>2, <2>1, <2>2 DEF ByShard, ByName
  <2>4. /\ [p \in {2} |-> y] \in [{2} -> Nat] /\ [p \in {2} |-> y][2] = y
        /\ [p \in {1} |-> y] \in [{1} -> Nat] /\ [p \in {1} |-> y][1] = y
    OBVIOUS
  <2>5. Tally([p \in {2} |-> y]) = y /\ Tally([p \in {1} |-> y]) = y
    BY <2>4, TallyOne
  <2> QED
    BY <1>2, <2>3, <2>5 DEF Both
<1>3. CASE F = {1, 2}
  <2>1. Cardinality(F) = 2
    BY <1>3, PairSize
  <2>2. 1..2 = {1, 2}
    OBVIOUS
  <2> DEFINE f == [p \in {1, 2} |-> IF p = 1 THEN x ELSE y]
  <2>3. ByShard(F, x, y) = f /\ ByName(F, x, y) = f
    BY <1>3, <2>1, <2>2 DEF ByShard, ByName
  <2>4. f \in [{1, 2} -> Nat] /\ f[1] = x /\ f[2] = y
    OBVIOUS
  <2> HIDE DEF f
  <2>5. Tally(f) = f[1] + f[2]
    <3>1. 1 # 2
      OBVIOUS
    <3> QED
      BY <2>4, <3>1, TallyTwo
  <2> QED
    BY <1>3, <2>3, <2>4, <2>5 DEF Both
<1> QED
  BY <1>1, <1>2, <1>3 DEF Shards

\* The ratio of a merge exceeds what was delivered by at most half a unit, if what
\* is due is among what was handled and the gaps.
LEMMA ScaledShare ==
    ASSUME NEW k \in Nat, NEW due \in Nat, NEW e \in Nat, NEW a \in Nat,
           due <= e, k * e <= a + 100 * e
    PROVE  k * due <= a + 100 * due
<1>1. CASE k <= 100
  <2>1. due * k <= due * 100
    BY <1>1, Times
  <2>2. k * due \in Nat /\ due * k = k * due
    OBVIOUS
  <2> QED
    BY <2>1, <2>2
<1>2. CASE k > 100
  <2> DEFINE m == k - 100
  <2>1. m \in Nat /\ k = m + 100
    BY <1>2
  <2> HIDE DEF m
  <2>2. m * due <= m * e
    BY <2>1, Times
  <2>3. k * due = m * due + 100 * due /\ k * e = m * e + 100 * e
    BY <2>1
  <2>4. m * due \in Nat /\ m * e \in Nat
    BY <2>1
  <2> QED
    BY <2>2, <2>3, <2>4
<1> QED
  BY <1>1, <1>2

LEMMA RatioSound ==
    ASSUME NEW d \in 0..100, NEW due \in Nat, NEW got \in Nat, NEW g \in Nat, NEW dd \in Nat,
           due <= got + g, 100 * Ratio(got, g, dd) >= d * RatioScale
    PROVE  100 * (2 * RatioScale * got + due) >= 2 * RatioScale * d * due
<1> DEFINE s == RatioScale
           k == 2 * s * d
           a == 200 * (s * got)
           e == got + g
           r == Ratio(got, g, dd)
<1>1. s \in Nat \ {0}
  BY RatioScaleAssumption
<1>2. k \in Nat /\ a \in Nat /\ e \in Nat /\ due <= e /\ s * got \in Nat
  <2> HIDE DEF s
  <2> QED
    BY <1>1
<1>3. 100 * (2 * s * got + due) = a + 100 * due
  <2> HIDE DEF s
  <2> QED
    BY <1>1
<1>4. k * e <= a + 100 * e
  <2>1. CASE g = 0 /\ dd = 0
    <3>1. e = got
      BY <2>1
    <3>2. s * d <= s * 100
      BY <1>1, Times
    <3>3. k <= 200 * s /\ 200 * s \in Nat
      <4> HIDE DEF s
      <4>1. s * d \in Nat /\ k = 2 * (s * d)
        BY <1>1
      <4> QED
        BY <1>1, <3>2, <4>1
    <3>4. got * k <= got * (200 * s)
      <4> HIDE DEF k, s
      <4> QED
        BY <1>2, <3>3, Times
    <3>5. got * (200 * s) = a
      <4> HIDE DEF s
      <4> QED
        BY <1>1
    <3>6. got * k = k * e /\ k * e \in Nat
      <4> HIDE DEF k
      <4> QED
        BY <1>2, <3>1
    <3> HIDE DEF k, s, a, e
    <3> QED
      BY <1>2, <3>4, <3>5, <3>6
  <2>2. CASE ~(g = 0 /\ dd = 0) /\ e > 0
    <3>1. r = Nearest(s * got, e)
      BY <2>2 DEF Ratio
    <3>2. r \in Nat /\ 2 * (e * r) <= 2 * (s * got) + e
      <4> DEFINE x == s * got
      <4>1. x \in Nat /\ e \in Nat \ {0}
        BY <1>2, <2>2
      <4>2. r = Nearest(x, e)
        BY <3>1
      <4> HIDE DEF s, e, r, x
      <4>3. Nearest(x, e) \in Nat /\ 2 * (e * Nearest(x, e)) <= 2 * x + e
        BY <4>1, NearestHalf
      <4> QED
        BY <4>2, <4>3 DEF x
    <3>3. 100 * r >= d * s /\ d * s \in Nat
      <4>1. 100 * r >= d * s
        OBVIOUS
      <4> HIDE DEF s, r
      <4> QED
        BY <1>1, <4>1
    <3> HIDE DEF r
    <3>4. e * (d * s) <= e * (100 * r)
      <4> HIDE DEF s, e
      <4> QED
        BY <1>2, <3>2, <3>3, Times
    <3>5. k * e = 2 * (e * (d * s)) /\ e * (100 * r) = 100 * (e * r)
      <4> HIDE DEF s, e
      <4> QED
        BY <1>1, <1>2, <3>2
    <3>6. e * (d * s) \in Nat /\ e * r \in Nat
      <4> HIDE DEF s, e
      <4> QED
        BY <1>2, <3>2, <3>3
    <3> HIDE DEF k, s, e
    <3> QED
      BY <1>2, <3>2, <3>4, <3>5, <3>6
  <2>3. CASE e = 0
    <3> HIDE DEF k, e
    <3>1. k * e = 0
      BY <1>2, <2>3
    <3> QED
      BY <1>2, <2>3, <3>1
  <2> HIDE DEF e
  <2> QED
    BY <1>2, <2>1, <2>2, <2>3
<1> HIDE DEF a, e
<1>5. k * due <= a + 100 * due
  <2> HIDE DEF k
  <2> QED
    BY <1>2, <1>4, ScaledShare
<1> QED
  BY <1>3, <1>5 DEF s, k

\* The counters of a merge are the sums of those of its shards.
LEMMA MergedSums ==
    ASSUME fetched \in SUBSET Shards, fetched # {},
           Plausible(outcome[1]), Plausible(outcome[2])
    PROVE  /\ Merged.received = Both(fetched, outcome[1].rx, outcome[2].rx)
           /\ Merged.gaps = Both(fetched, outcome[1].gaps, outcome[2].gaps)
           /\ Merged.dups = Both(fetched, outcome[1].dups, outcome[2].dups)
           /\ GotInAll = Both(fetched, outcome[1].got, outcome[2].got)
           /\ DueInAll = Both(fetched, outcome[1].due, outcome[2].due)
<1> DEFINE n == Cardinality(fetched)
           o1 == outcome[1]
           o2 == outcome[2]
           results == [k \in 1..n |-> Result(IF k = 1 /\ 1 \in fetched THEN 1 ELSE 2)]
<1>1. /\ o1.rx \in Nat /\ o1.gaps \in Nat /\ o1.dups \in Nat /\ o1.got \in Nat /\ o1.due \in Nat
      /\ o2.rx \in Nat /\ o2.gaps \in Nat /\ o2.dups \in Nat /\ o2.got \in Nat /\ o2.due \in Nat
  BY DEF Plausible
<1>2. /\ [k \in DOMAIN results |-> results[k].received] = ByName(fetched, o1.rx, o2.rx)
      /\ [k \in DOMAIN results |-> results[k].gaps] = ByName(fetched, o1.gaps, o2.gaps)
      /\ [k \in DOMAIN results |-> results[k].dups] = ByName(fetched, o1.dups, o2.dups)
  BY DEF ByName, Result, MakeChanResult
<1>3. /\ Merged.received = Tally(ByName(fetched, o1.rx, o2.rx))
      /\ Merged.gaps = Tally(ByName(fetched, o1.gaps, o2.gaps))
      /\ Merged.dups = Tally(ByName(fetched, o1.dups, o2.dups))
  <2>1. Merged = MergeChannel(results)
    BY DEF Merged
  <2> HIDE DEF results
  <2> QED
    BY <1>2, <2>1 DEF MergeChannel, MakeChanResult
<1>4. /\ [p \in fetched |-> outcome[p].got] = ByShard(fetched, o1.got, o2.got)
      /\ [p \in fetched |-> outcome[p].due] = ByShard(fetched, o1.due, o2.due)
  BY DEF ByShard, Shards
<1> HIDE DEF results, o1, o2, n
<1>5. /\ Tally(ByName(fetched, o1.rx, o2.rx)) = Both(fetched, o1.rx, o2.rx)
      /\ Tally(ByName(fetched, o1.gaps, o2.gaps)) = Both(fetched, o1.gaps, o2.gaps)
      /\ Tally(ByName(fetched, o1.dups, o2.dups)) = Both(fetched, o1.dups, o2.dups)
      /\ Tally(ByShard(fetched, o1.got, o2.got)) = Both(fetched, o1.got, o2.got)
      /\ Tally(ByShard(fetched, o1.due, o2.due)) = Both(fetched, o1.due, o2.due)
  BY <1>1, ShardSums
<1> QED
  BY <1>3, <1>4, <1>5 DEF o1, o2, GotInAll, DueInAll

LEMMA SoundVerdict == OutcomesPlausible => VerdictSound
<1> SUFFICES ASSUME OutcomesPlausible, Verdict = "PASS",
                    \A p \in fetched : outcome[p].ends /\ outcome[p].copies = 0
             PROVE  100 * (2 * RatioScale * GotInAll + DueInAll)
                        >= 2 * RatioScale * Sla.delivery * DueInAll
  BY DEF VerdictSound
<1>1. sweep = "done" /\ fetched # {} /\ Passes(Merged, Sla)
  BY DEF Verdict
<1>2. Plausible(outcome[1]) /\ Plausible(outcome[2]) /\ fetched \in SUBSET Shards
  BY <1>1 DEF OutcomesPlausible
<1> DEFINE o1 == outcome[1]
           o2 == outcome[2]
           got == Both(fetched, o1.got, o2.got)
           due == Both(fetched, o1.due, o2.due)
           rcv == Both(fetched, o1.rx, o2.rx)
           gap == Both(fetched, o1.gaps, o2.gaps)
           dup == Both(fetched, o1.dups, o2.dups)
<1>3. /\ Merged.received = rcv /\ Merged.gaps = gap /\ Merged.dups = dup
      /\ GotInAll = got /\ DueInAll = due
  BY <1>1, <1>2, MergedSums
<1>4. /\ got \in Nat /\ due \in Nat /\ rcv \in Nat /\ gap \in Nat /\ dup \in Nat
      /\ rcv = got /\ due <= got + gap
  <2>1. /\ 1 \in fetched => o1.rx = o1.got /\ o1.due <= o1.got + o1.gaps
        /\ 2 \in fetched => o2.rx = o2.got /\ o2.due <= o2.got + o2.gaps
        /\ o1.due \in Nat /\ o1.got \in Nat /\ o1.rx \in Nat /\ o1.gaps \in Nat /\ o1.dups \in Nat
        /\ o2.due \in Nat /\ o2.got \in Nat /\ o2.rx \in Nat /\ o2.gaps \in Nat /\ o2.dups \in Nat
    BY <1>2 DEF Plausible
  <2> HIDE DEF o1, o2
  <2> QED
    BY <2>1 DEF Both
<1>5. 100 * Ratio(Merged.received, Merged.gaps, Merged.dups) >= Sla.delivery * RatioScale
  BY <1>1 DEF Passes
<1> HIDE DEF got, due, rcv, gap, dup
<1>6. 100 * (2 * RatioScale * got + due) >= 2 * RatioScale * Sla.delivery * due
  <2>1. Sla.delivery \in 0..100
    BY CollectAssumption
  <2>2. 100 * Ratio(got, gap, dup) >= Sla.delivery * RatioScale
    BY <1>3, <1>4, <1>5
  <2> DEFINE percent == Sla.delivery
  <2> HIDE DEF o1, o2, percent
  <2>3. percent \in 0..100 /\ 100 * Ratio(got, gap, dup) >= percent * RatioScale
    BY <2>1, <2>2 DEF percent
  <2>4. 100 * (2 * RatioScale * got + due) >= 2 * RatioScale * percent * due
    BY <1>4, <2>3, RatioSound
  <2> QED
    BY <2>4 DEF percent
<1> QED
  BY <1>3, <1>6

\* What is within a limit in each merged shard is within it in the merge.
LEMMA MergedWithin ==
    ASSUME fetched \in SUBSET Shards, fetched # {}, NEW limit,
           \A p \in fetched : Within(Result(p).hist, limit)
    PROVE  Within(Merged.hist, limit)
<1> DEFINE n == Cardinality(fetched)
           name(k) == IF k = 1 /\ 1 \in fetched THEN 1 ELSE 2
           results == [k \in 1..n |-> Result(name(k))]
<1>1. Merged.hist = MergedHist(results)
  BY DEF Merged, MergeChannel, MakeChanResult
<1>2. CASE fetched = {1} \/ fetched = {2}
  <2>1. n = 1
    BY <1>2, FS_Singleton
  <2>2. Len(results) = 1 /\ results[1] = Result(name(1)) /\ name(1) \in fetched
    BY <1>2, <2>1
  <2> HIDE DEF results, name
  <2>3. MergedHist(results) = Result(name(1)).hist
    BY <2>2, MergeOrder
  <2> QED
    BY <1>1, <2>2, <2>3
<1>3. CASE fetched = {1, 2}
  <2>1. n = 2
    BY <1>3, PairSize
  <2>2. Len(results) = 2 /\ results[1] = Result(1) /\ results[2] = Result(2)
    BY <1>3, <2>1
  <2>3. MergedHist(results) = MergeHist(Result(1).hist, Result(2).hist)
    <3> HIDE DEF results
    <3>1. Len(results) \in {1, 2} /\ Len(results) # 1
      BY <2>2
    <3> QED
      BY <2>2, <3>1, MergeOrder
  <2>4. Result(1).hist # NoHist => Result(1).hist =
            [bounds |-> Result(1).hist.bounds, counts |-> Result(1).hist.counts]
    BY DEF Result, MakeChanResult, Histogram
  <2>5. Within(Result(1).hist, limit) /\ Within(Result(2).hist, limit)
    BY <1>3
  <2> DEFINE h1 == Result(1).hist
             h2 == Result(2).hist
  <2> HIDE DEF h1, h2
  <2>6. Within(MergeHist(h1, h2), limit)
    BY <2>4, <2>5, MergeWithin DEF h1, h2
  <2> QED
    BY <1>1, <2>3, <2>6 DEF h1, h2
<1> QED
  BY <1>2, <1>3 DEF Shards

\* The samples of a shard with usable bounds, none of them above a limit that is one.
LEMMA ResultWithin ==
    ASSUME NEW p, Plausible(outcome[p]), NEW limit \in {Sla.p99, Sla.p999},
           \A v \in DOMAIN outcome[p].samples : outcome[p].samples[v] > 0 => v <= limit
    PROVE  limit \in Nat /\ Within(Result(p).hist, limit)
<1> DEFINE o == outcome[p]
           V == DOMAIN o.samples
<1>1. /\ o.bounds \in Seq(Nat \ {0}) /\ Increasing(o.bounds) /\ limit \in ToSet(o.bounds)
      /\ V \in SUBSET Nat /\ IsFiniteSet(V) /\ o.samples \in [V -> Nat]
  BY DEF Plausible, UsableBounds, Increasing
<1>2. /\ \E b \in 1..Len(o.bounds) : o.bounds[b] = limit
      /\ limit \in Nat
  BY <1>1 DEF ToSet
<1>3. Result(p).hist = Histogram(o.bounds, o.samples)
  BY DEF Result, MakeChanResult
<1> HIDE DEF o
<1>4. \A v \in V : o.samples[v] > 0 => v <= limit
  BY DEF o
<1> HIDE DEF V
<1> QED
  BY <1>1, <1>2, <1>3, <1>4, HistogramWithin

LEMMA NoAlarm == OutcomesPlausible => NoFalseAlarm
<1> DEFINE Fault(p) ==
        LET o == outcome[p]
        IN  \/ o.got < o.due \/ o.copies > 0 \/ ~o.ordered
            \/ \E v \in DOMAIN o.samples : o.samples[v] > 0 /\ (v > Sla.p99 \/ v > Sla.p999)
<1> SUFFICES ASSUME OutcomesPlausible, Verdict = "FAIL", \A p \in fetched : ~Fault(p)
             PROVE  FALSE
  BY DEF NoFalseAlarm
<1>1. sweep = "done" /\ fetched # {} /\ ~Passes(Merged, Sla)
  BY DEF Verdict
<1>2. Plausible(outcome[1]) /\ Plausible(outcome[2]) /\ fetched \in SUBSET Shards
  BY <1>1 DEF OutcomesPlausible
<1>3. ASSUME NEW p \in fetched PROVE Plausible(outcome[p])
  BY <1>2 DEF Shards
<1>4. ASSUME NEW p \in fetched PROVE outcome[p].gaps = 0 /\ outcome[p].dups = 0
  BY <1>3 DEF Plausible
<1>5. 100 * Ratio(Merged.received, Merged.gaps, Merged.dups) >= Sla.delivery * RatioScale
  <2>1. /\ Merged.gaps = Both(fetched, outcome[1].gaps, outcome[2].gaps)
        /\ Merged.dups = Both(fetched, outcome[1].dups, outcome[2].dups)
    BY <1>1, <1>2, MergedSums
  <2>2. Merged.gaps = 0 /\ Merged.dups = 0
    BY <1>4, <2>1 DEF Both
  <2>3. Ratio(Merged.received, Merged.gaps, Merged.dups) = RatioScale
    BY <2>2 DEF Ratio
  <2>4. RatioScale * Sla.delivery <= RatioScale * 100
    BY CollectAssumption, RatioScaleAssumption, Times
  <2>5. RatioScale * Sla.delivery = Sla.delivery * RatioScale
    BY CollectAssumption, RatioScaleAssumption
  <2> QED
    BY <2>3, <2>4, <2>5, CollectAssumption, RatioScaleAssumption
<1>6. ASSUME NEW limit \in {Sla.p99, Sla.p999}
      PROVE  limit \in Nat /\ Within(Merged.hist, limit)
  <2>1. ASSUME NEW p \in fetched PROVE limit \in Nat /\ Within(Result(p).hist, limit)
    <3>1. ASSUME NEW v \in DOMAIN outcome[p].samples, outcome[p].samples[v] > 0
          PROVE  v <= limit
      <4>1. v \in Nat /\ Sla.p99 \in Nat /\ Sla.p999 \in Nat
        <5>1. /\ outcome[p].bounds \in Seq(Nat \ {0})
              /\ {Sla.p99, Sla.p999} \subseteq ToSet(outcome[p].bounds)
              /\ DOMAIN outcome[p].samples \subseteq Nat
          BY <1>3 DEF Plausible, UsableBounds
        <5>2. ToSet(outcome[p].bounds) \subseteq Nat
          BY <5>1 DEF ToSet
        <5> QED
          BY <5>1, <5>2, <3>1
      <4>2. ~(v > Sla.p99) /\ ~(v > Sla.p999)
        BY <3>1
      <4> QED
        BY <4>1, <4>2
    <3> QED
      BY <1>3, <3>1, ResultWithin
  <2>2. limit \in Nat
    BY <1>1, <2>1
  <2>3. Within(Merged.hist, limit)
    BY <1>1, <1>2, <2>1, MergedWithin
  <2> QED
    BY <2>2, <2>3
<1> DEFINE most == 990
           nearly == 999
           limit == Sla.p99
           limit2 == Sla.p999
<1>7. most \in Permille /\ nearly \in Permille
  BY DEF Permille
<1>8. /\ Percentile(Merged.hist, most) <= 100 * limit
      /\ Percentile(Merged.hist, nearly) <= 100 * limit2
  <2>1. /\ limit \in Nat /\ Within(Merged.hist, limit)
        /\ limit2 \in Nat /\ Within(Merged.hist, limit2)
    BY <1>6
  <2> HIDE DEF most, nearly, limit, limit2
  <2> QED
    BY <1>7, <2>1, PercentileWithin
<1> QED
  BY <1>1, <1>5, <1>8 DEF Passes

-----------------------------------------------------------------------------
(* Percentiles of a merge *)

\* The samples of a shard, if they are in the merge.
Mine(p) == IF p \in fetched THEN With(Result(p).hist, Merged.hist, outcome[p].samples) ELSE NoSamples

LEMMA ResultHolds ==
    ASSUME NEW p, Plausible(outcome[p])
    PROVE  Result(p).hist # NoHist => Holds(Result(p).hist, outcome[p].samples)
<1>1. Result(p).hist = Histogram(outcome[p].bounds, outcome[p].samples)
  BY DEF Result, MakeChanResult
<1> QED
  BY <1>1, HistogramHolds

LEMMA MergedFiles ==
    ASSUME fetched \in SUBSET Shards, Merged.hist # NoHist,
           Plausible(outcome[1]), Plausible(outcome[2])
    PROVE  Counted(Merged.hist, Mine(1), Mine(2))
<1> DEFINE n == Cardinality(fetched)
           name(k) == IF k = 1 /\ 1 \in fetched THEN 1 ELSE 2
           results == [k \in 1..n |-> Result(name(k))]
           m == Merged.hist
<1>1. m = MergedHist(results)
  BY DEF Merged, MergeChannel, MakeChanResult
<1>2. /\ Result(1).hist # NoHist => Holds(Result(1).hist, outcome[1].samples)
      /\ Result(2).hist # NoHist => Holds(Result(2).hist, outcome[2].samples)
  BY ResultHolds
<1>3. CASE fetched = {1}
  <2>1. n = 1
    BY <1>3, FS_Singleton
  <2>2. Len(results) = 1 /\ results[1] = Result(1)
    BY <1>3, <2>1
  <2>3. m = Result(1).hist
    <3> HIDE DEF results, m
    <3> QED
      BY <1>1, <2>2, MergeOrder
  <2>4. Holds(m, outcome[1].samples)
    BY <1>2, <2>3
  <2>5. Mine(1) = outcome[1].samples /\ Mine(2) = NoSamples
    BY <1>3, <2>3 DEF Mine, With
  <2> HIDE DEF m
  <2> QED
    BY <2>4, <2>5, OneFile, NoneSampled DEF Counted, m
<1>4. CASE fetched = {2}
  <2>1. n = 1
    BY <1>4, FS_Singleton
  <2>2. Len(results) = 1 /\ results[1] = Result(2)
    BY <1>4, <2>1
  <2>3. m = Result(2).hist
    <3> HIDE DEF results, m
    <3> QED
      BY <1>1, <2>2, MergeOrder
  <2>4. Holds(m, outcome[2].samples)
    BY <1>2, <2>3
  <2>5. Mine(1) = NoSamples /\ Mine(2) = outcome[2].samples
    BY <1>4, <2>3 DEF Mine, With
  <2> HIDE DEF m
  <2> QED
    BY <2>4, <2>5, OneFile, NoneSampled DEF Counted, m
<1>5. CASE fetched = {1, 2}
  <2>1. n = 2
    BY <1>5, PairSize
  <2>2. Len(results) = 2 /\ results[1] = Result(1) /\ results[2] = Result(2)
    BY <1>5, <2>1
  <2>3. m = MergeHist(Result(1).hist, Result(2).hist)
    <3> HIDE DEF results, m
    <3>1. Len(results) \in {1, 2} /\ Len(results) # 1
      BY <2>2
    <3> QED
      BY <1>1, <2>2, <3>1, MergeOrder
  <2>4. /\ Mine(1) = With(Result(1).hist, m, outcome[1].samples)
        /\ Mine(2) = With(Result(2).hist, m, outcome[2].samples)
    BY <1>5 DEF Mine
  <2>5. ASSUME NEW h1, h1 = Result(1).hist, NEW h2, h2 = Result(2).hist, NEW h, h = m
        PROVE  Counted(h, With(h1, h, outcome[1].samples), With(h2, h, outcome[2].samples))
    <3>1. /\ h1 # NoHist => Holds(h1, outcome[1].samples)
          /\ h2 # NoHist => Holds(h2, outcome[2].samples)
          /\ h = MergeHist(h1, h2) /\ h # NoHist
      BY <1>2, <2>3, <2>5
    <3> QED
      BY <3>1, MergeFiles
  <2> QED
    BY <2>4, <2>5
<1>6. CASE fetched = {}
  <2>1. n = 0
    BY <1>6, FS_EmptySet
  <2>2. Len(results) = 0
    BY <2>1
  <2>3. m = NoHist
    <3> HIDE DEF results, m
    <3> QED
      BY <1>1, <2>2, MergeNone
  <2> QED
    BY <2>3
<1> QED
  BY <1>3, <1>4, <1>5, <1>6 DEF Shards

\* The sums over the merged shards.
InMerge == {p \in fetched : Result(p).hist.bounds = Merged.hist.bounds}

LEMMA MergeSums ==
    ASSUME fetched \in SUBSET Shards, Counted(Merged.hist, Mine(1), Mine(2)),
           Plausible(outcome[1]), Plausible(outcome[2])
    PROVE  /\ UNION {DOMAIN outcome[p].samples : p \in InMerge} = DOMAIN Mine(1) \cup DOMAIN Mine(2)
           /\ Tally([p \in InMerge |-> Tally(outcome[p].samples)]) = Tally(Mine(1)) + Tally(Mine(2))
           /\ \A v : Tally([p \in InMerge |-> SamplesUpTo(outcome[p].samples, v)])
                        = SamplesUpTo(Mine(1), v) + SamplesUpTo(Mine(2), v)
<1> DEFINE s1 == outcome[1].samples
           s2 == outcome[2].samples
<1>1. /\ InMerge \in SUBSET Shards
      /\ Mine(1) = IF 1 \in InMerge THEN s1 ELSE NoSamples
      /\ Mine(2) = IF 2 \in InMerge THEN s2 ELSE NoSamples
  BY DEF InMerge, Mine, With
<1>2. /\ Samples(s1) /\ Tally(s1) \in Nat /\ \A v : SamplesUpTo(s1, v) \in Nat
      /\ Samples(s2) /\ Tally(s2) \in Nat /\ \A v : SamplesUpTo(s2, v) \in Nat
  BY SampleTypes, CountTypes
<1>3. /\ DOMAIN NoSamples = {} /\ Tally(NoSamples) = 0
      /\ \A v : SamplesUpTo(NoSamples, v) = 0
  BY NoneSampled
<1>4. InMerge # {}
  <2> SUFFICES ASSUME InMerge = {} PROVE FALSE
    OBVIOUS
  <2>1. Mine(1) = NoSamples /\ Mine(2) = NoSamples
    BY <1>1
  <2> QED
    BY <1>3, <2>1 DEF Counted
<1>5. UNION {DOMAIN outcome[p].samples : p \in InMerge} = DOMAIN Mine(1) \cup DOMAIN Mine(2)
  <2>1. UNION {DOMAIN outcome[p].samples : p \in InMerge}
          = (IF 1 \in InMerge THEN DOMAIN s1 ELSE {}) \cup (IF 2 \in InMerge THEN DOMAIN s2 ELSE {})
    BY <1>1 DEF Shards
  <2> HIDE DEF s1, s2
  <2> QED
    BY <1>1, <1>3, <2>1
<1>6. Tally([p \in InMerge |-> Tally(outcome[p].samples)]) = Tally(Mine(1)) + Tally(Mine(2))
  <2>1. [p \in InMerge |-> Tally(outcome[p].samples)] = ByShard(InMerge, Tally(s1), Tally(s2))
    BY <1>1 DEF ByShard, Shards
  <2> HIDE DEF s1, s2
  <2>2. Tally(ByShard(InMerge, Tally(s1), Tally(s2))) = Both(InMerge, Tally(s1), Tally(s2))
    BY <1>1, <1>2, <1>4, ShardSums
  <2> QED
    BY <1>1, <1>3, <2>1, <2>2 DEF Both
<1>7. ASSUME NEW v
      PROVE  Tally([p \in InMerge |-> SamplesUpTo(outcome[p].samples, v)])
                = SamplesUpTo(Mine(1), v) + SamplesUpTo(Mine(2), v)
  <2> DEFINE x == SamplesUpTo(s1, v)
             y == SamplesUpTo(s2, v)
  <2>1. [p \in InMerge |-> SamplesUpTo(outcome[p].samples, v)] = ByShard(InMerge, x, y)
    BY <1>1 DEF ByShard, Shards
  <2>2. x \in Nat /\ y \in Nat
    BY <1>2
  <2>3. /\ SamplesUpTo(Mine(1), v) = IF 1 \in InMerge THEN x ELSE 0
        /\ SamplesUpTo(Mine(2), v) = IF 2 \in InMerge THEN y ELSE 0
    BY <1>1, <1>3
  <2> HIDE DEF x, y
  <2>4. Tally(ByShard(InMerge, x, y)) = Both(InMerge, x, y)
    BY <1>1, <1>4, <2>2, ShardSums
  <2> QED
    BY <2>1, <2>3, <2>4 DEF Both
<1> QED
  BY <1>5, <1>6, <1>7

\* A percentile and the sample of its rank.
LEMMA RankBucket ==
    ASSUME NEW h, NEW s1, NEW s2, Counted(h, s1, s2), NEW permille \in Permille
    PROVE  \E q \in DOMAIN s1 \cup DOMAIN s2 :
              /\ HasRank(s1, s2, q, permille * (Tally(s1) + Tally(s2)))
              /\ 100 * Lower(h.bounds, BucketOf(h.bounds, q)) <= Percentile(h, permille)
              /\ Percentile(h, permille) <= 100 * Upper(h.bounds, BucketOf(h.bounds, q))
<1>1. Files(h, s1, s2) /\ Shaped(h) /\ Total(h) = Tally(s1) + Tally(s2) /\ Total(h) # 0
  BY TotalSamples DEF Counted, Files
<1>2. PICK q \in DOMAIN s1 \cup DOMAIN s2 :
         /\ HasRank(s1, s2, q, permille * Total(h))
         /\ BucketOf(h.bounds, q) = Crossing(h, permille)
  BY <1>1, Ranked
<1>3. /\ 100 * Lower(h.bounds, Crossing(h, permille)) <= Percentile(h, permille)
      /\ Percentile(h, permille) <= 100 * Upper(h.bounds, Crossing(h, permille))
  BY <1>1, PercentileInBucket
<1> QED
  BY <1>1, <1>2, <1>3

LEMMA RightPercentiles == OutcomesPlausible => PercentilesRight
<1> DEFINE h == Merged.hist
           values == UNION {DOMAIN outcome[p].samples : p \in InMerge}
           total == Tally([p \in InMerge |-> Tally(outcome[p].samples)])
           UpToAll(v) == Tally([p \in InMerge |-> SamplesUpTo(outcome[p].samples, v)])
           Enough(v, permille) == 1000 * UpToAll(v) >= permille * total
           Right(permille) ==
              \E q \in values :
                /\ Enough(q, permille)
                /\ \A v \in values : v < q => ~Enough(v, permille)
                /\ 100 * Lower(h.bounds, BucketOf(h.bounds, q)) <= Percentile(h, permille)
                /\ Percentile(h, permille) <= 100 * Upper(h.bounds, BucketOf(h.bounds, q))
<1> SUFFICES ASSUME OutcomesPlausible, h # NoHist
             PROVE  \A permille \in {500, 990, 999} : Right(permille)
  BY DEF PercentilesRight, InMerge
<1>1. fetched # {}
  <2> SUFFICES ASSUME fetched = {} PROVE FALSE
    OBVIOUS
  <2> DEFINE results == [k \in 1..Cardinality(fetched) |->
                            Result(IF k = 1 /\ 1 \in fetched THEN 1 ELSE 2)]
  <2>1. Cardinality(fetched) = 0
    BY FS_EmptySet
  <2>2. Len(results) = 0 /\ h = MergedHist(results)
    BY <2>1 DEF Merged, MergeChannel, MakeChanResult
  <2> HIDE DEF results
  <2> QED
    BY <2>2, MergeNone
<1>2. Plausible(outcome[1]) /\ Plausible(outcome[2]) /\ fetched \in SUBSET Shards
  BY <1>1 DEF OutcomesPlausible
<1>3. Counted(h, Mine(1), Mine(2))
  BY <1>2, MergedFiles
<1> DEFINE s1 == Mine(1)
           s2 == Mine(2)
<1>4. /\ values = DOMAIN s1 \cup DOMAIN s2 /\ total = Tally(s1) + Tally(s2)
      /\ \A v : UpToAll(v) = SamplesUpTo(s1, v) + SamplesUpTo(s2, v)
  BY <1>2, <1>3, MergeSums
<1> HIDE DEF h, values, total, UpToAll, s1, s2
<1>5. ASSUME NEW permille \in Permille PROVE Right(permille)
  <2> DEFINE Around(q) ==
        /\ 100 * Lower(h.bounds, BucketOf(h.bounds, q)) <= Percentile(h, permille)
        /\ Percentile(h, permille) <= 100 * Upper(h.bounds, BucketOf(h.bounds, q))
  <2>1. PICK q \in DOMAIN s1 \cup DOMAIN s2 :
           HasRank(s1, s2, q, permille * (Tally(s1) + Tally(s2))) /\ Around(q)
    BY <1>3, RankBucket DEF s1, s2
  <2>2. \A v : Enough(v, permille) <=> EnoughOf(s1, s2, v, permille * (Tally(s1) + Tally(s2)))
    BY <1>4 DEF EnoughOf
  <2> HIDE DEF Around, Enough
  <2>3. Enough(q, permille) /\ \A v \in values : v < q => ~Enough(v, permille)
    BY <1>4, <2>1, <2>2 DEF HasRank
  <2>4. q \in values
    BY <1>4, <2>1
  <2> QED
    BY <2>1, <2>3, <2>4 DEF Around
<1> HIDE DEF Right
<1>6. {500, 990, 999} \subseteq Permille
  BY DEF Permille
<1> QED
  BY <1>5, <1>6

-----------------------------------------------------------------------------
(* Theorems *)

\* In the whole run the counters of the followed shard keep what GapTracking
\* promises of them.
THEOREM CollectCounts == CollectSpec => [](NoUndercount /\ OvercountShows /\ Exact)
<1>1. Counters => NoUndercount /\ OvercountShows /\ Exact
  BY MissingCounted, HolesMissing, CleanExact DEF Counters, UInv, OvercountShows
<1> QED
  BY <1>1, KeepCounters, PTL DEF CollectSpec

\* The bucket never has half a result.
THEOREM NeverPartialHolds == CollectSpec => []NeverPartial
<1>1. FInv => NeverPartial
  BY DEF FInv, FilesTypeOK, NeverPartial
<1> QED
  BY <1>1, KeepFInv, PTL

\* The results in place when the sweep asks for the last copy are merged, if that
\* copy is still to list them and nothing of it fails.
THEOREM FinalSyncCompleteHolds == CollectSpec => []FinalSyncComplete
<1>1. FInv => FinalSyncComplete
  BY DEF FInv, Promised, Brought, FinalSyncComplete
<1> QED
  BY <1>1, KeepFInv, PTL

\* A PASS is sound where the ends of the run arrived and nothing was copied: the
\* share that the sweep promises was delivered over all merged shards, less at most
\* half a unit of the last digit that the ratio is rounded to.
THEOREM VerdictSoundHolds == CollectSpec => []VerdictSound
<1>1. VInv => VerdictSound
  BY SoundVerdict DEF VInv
<1> QED
  BY <1>1, KeepVInv, PTL

\* A FAIL has a reason in what happened to a merged shard: it missed a message, got
\* a copy or got them out of order, or sampled a latency above a limit.
THEOREM NoFalseAlarmHolds == CollectSpec => []NoFalseAlarm
<1>1. VInv => NoFalseAlarm
  BY NoAlarm DEF VInv
<1> QED
  BY <1>1, KeepVInv, PTL

\* A percentile of the merged histograms is in the bucket of the sample that has
\* its rank among the samples of the merged shards.
THEOREM PercentilesRightHolds == CollectSpec => []PercentilesRight
<1>1. VInv => PercentilesRight
  BY RightPercentiles DEF VInv
<1> QED
  BY <1>1, KeepVInv, PTL
=============================================================================
