---------------------------- MODULE StartupProofs ---------------------------
(***************************************************************************)
(* Proofs about Sharding, ClassCut, Visible and Startup, which composes    *)
(* them.                                                                   *)
(*                                                                         *)
(* Sharding and ClassCut, for every list of percentages, any number of     *)
(* items and any number of shards: the stripe of ShardIndices is a         *)
(* partition, the cutting loop keeps its classes apart and without holes   *)
(* behind the cursor, and so every item ends up with exactly one owner.    *)
(*                                                                         *)
(* Visible, for every number of symbols, slots and tries: a user starts    *)
(* with the slots it asked for, all different, half of them from its       *)
(* screen, and with the other symbols in the pool that scrolling draws     *)
(* from.                                                                   *)
(*                                                                         *)
(* Startup, for every command line: what the user needs of its screens is  *)
(* what ParseScreens leaves, and what it watches is published once.        *)
(***************************************************************************)
EXTENDS Startup, FiniteSetTheorems, TLAPS

-----------------------------------------------------------------------------
(* Sharding *)

\* Some stripe holds j: that of j % K.
LEMMA StripeExists ==
    ASSUME NEW K \in Nat \ {0}, NEW j \in Nat
    PROVE  \E s \in 0..(K - 1) : s <= j /\ (j - s) % K = 0
<1> DEFINE q == j \div K
           r == j % K
<1>1. r \in 0..(K - 1)
  OBVIOUS
<1>2. j = K * q + r
  BY SMT
<1>3. q \in Nat
  BY Z3
<1> HIDE DEF q, r
<1>4. K * q >= 0
  BY <1>3, Z3
<1>5. (K * q) % K = 0
  BY <1>3, Z3
<1>6. j - r = K * q /\ r <= j
  BY <1>1, <1>2, <1>3, <1>4
<1> QED
  BY <1>1, <1>5, <1>6

\* No other stripe holds i.
LEMMA StripeUnique ==
    ASSUME NEW K \in Nat \ {0}, NEW j \in Nat,
           NEW s \in 0..(K - 1), NEW t \in 0..(K - 1), s <= j, t <= j,
           (j - s) % K = 0, (j - t) % K = 0
    PROVE  s = t
<1> DEFINE p == (j - s) \div K
           q == (j - t) \div K
<1>1. /\ j - s = K * p /\ p \in Int
      /\ j - t = K * q /\ q \in Int
  BY Z3
<1> HIDE DEF p, q
<1>2. K * (p - q) = t - s
  BY <1>1
<1>3. CASE p > q
  <2>1. K * (p - q) >= K
    BY <1>1, <1>3, Z3
  <2> QED
    BY <1>2, <2>1
<1>4. CASE p < q
  <2>1. K * (p - q) <= -K
    BY <1>1, <1>4, Z3
  <2> QED
    BY <1>2, <2>1
<1>5. CASE p = q
  BY <1>1, <1>5
<1> QED
  BY <1>1, <1>3, <1>4, <1>5

\* ShardIndices (partition.go:18-24) is a partition: every index is in the
\* stripe of exactly one shard.
THEOREM StripesPartition ==
    ASSUME NEW n \in Nat, NEW K \in Nat \ {0}, NEW j \in 0..(n - 1)
    PROVE  \E s \in 0..(K - 1) :
              /\ j \in ShardIndices(n, s, K)
              /\ \A t \in 0..(K - 1) : j \in ShardIndices(n, t, K) => t = s
<1>0. j \in Nat
  OBVIOUS
<1>1. PICK r \in 0..(K - 1) : r <= j /\ (j - r) % K = 0
  BY <1>0, StripeExists, Zenon
<1>2. j \in ShardIndices(n, r, K)
  BY <1>1 DEF ShardIndices
<1>3. ASSUME NEW t \in 0..(K - 1), j \in ShardIndices(n, t, K)
      PROVE  t = r
  <2>1. t <= j /\ (j - t) % K = 0
    BY <1>3 DEF ShardIndices
  <2> QED
    BY <1>0, <1>1, <2>1, StripeUnique, Zenon
<1> QED
  BY <1>1, <1>2, <1>3

\* The same for the items of a class, striped as MarketShard.Run and
\* AccountShard.Run do: each has one owner, and owned items are of the class.
THEOREM OwnedPartition ==
    ASSUME NEW class \in [start : Nat, end : Nat], NEW K \in Nat \ {0}
    PROVE  /\ \A item \in ClassRange(class) : \E s \in 0..(K - 1) :
                 /\ item \in Owned(class, s, K)
                 /\ \A t \in 0..(K - 1) : item \in Owned(class, t, K) => t = s
           /\ \A s \in 0..(K - 1) : Owned(class, s, K) \subseteq ClassRange(class)
<1> DEFINE size == class.end - class.start
<1>1. ASSUME NEW item \in ClassRange(class)
      PROVE  \E s \in 0..(K - 1) :
                /\ item \in Owned(class, s, K)
                /\ \A t \in 0..(K - 1) : item \in Owned(class, t, K) => t = s
  <2>1. item - class.start \in 0..(size - 1) /\ size \in Nat
    BY <1>1 DEF ClassRange
  <2>2. PICK s \in 0..(K - 1) :
            /\ item - class.start \in ShardIndices(size, s, K)
            /\ \A t \in 0..(K - 1) :
                  item - class.start \in ShardIndices(size, t, K) => t = s
    <3> HIDE DEF size
    <3> QED
      BY <2>1, StripesPartition
  <2>3. item = class.start + (item - class.start)
    BY <1>1 DEF ClassRange
  <2>4. item \in Owned(class, s, K)
    BY <2>2, <2>3 DEF Owned
  <2>5. ASSUME NEW t \in 0..(K - 1), item \in Owned(class, t, K)
        PROVE  t = s
    <3>1. PICK j \in ShardIndices(size, t, K) : item = class.start + j
      BY <2>5 DEF Owned
    <3>2. j = item - class.start
      BY <3>1, <2>1 DEF ShardIndices
    <3> QED
      BY <2>2, <3>1, <3>2
  <2> QED
    BY <2>4, <2>5
<1>2. ASSUME NEW s \in 0..(K - 1)
      PROVE  Owned(class, s, K) \subseteq ClassRange(class)
  BY <1>2 DEF Owned, ShardIndices, ClassRange
<1> QED
  BY <1>1, <1>2

-----------------------------------------------------------------------------
(* ClassCut *)

\* The strengthening of TypeOK that is inductive: classes lie one behind the
\* other, none is empty or goes past total, they end at the cursor or before
\* while the loop runs, and cover all items before the cursor.  When the loop
\* of a built-in table is over, nothing is left behind the cursor.
Apart ==
    /\ \A a \in 1..Len(classes) :
        classes[a].start < classes[a].end /\ classes[a].end <= total
    /\ \A a, l \in 1..Len(classes) : a < l => classes[a].end <= classes[l].start
BehindCursor ==
    /\ cursor <= total
    /\ pc \in {"loop", "fix"} => \A a \in 1..Len(classes) : classes[a].end <= cursor
Covered ==
    /\ \A item \in 0..(cursor - 1) :
        \E a \in 1..Len(classes) : item \in ClassRange(classes[a])
    /\ pc = "done" /\ classes # <<>> => \A item \in 0..(total - 1) :
        \E a \in 1..Len(classes) : item \in ClassRange(classes[a])
TableDone ==
    spec.builtin /\ (i > Len(spec.parts) \/ pc \in {"fix", "done"}) => cursor = total
CutInv == TypeOK /\ Apart /\ BehindCursor /\ Covered /\ TableDone

LEMMA InputTypes ==
    ASSUME spec \in Specs, total \in Totals
    PROVE  /\ spec \in [builtin : BOOLEAN, parts : Seq(Part)]
           /\ spec.builtin => /\ spec.parts # <<>>
                              /\ \A a \in 1..Len(spec.parts) : spec.parts[a].form = "ok"
           /\ total \in Nat
BY SpecsAssumption, NumbersAssumption

LEMMA ClassAt ==
    ASSUME NEW cs \in Seq(Class), NEW a \in 1..Len(cs)
    PROVE  cs[a] \in Class /\ cs[a].start \in Nat /\ cs[a].end \in Nat
<1>1. cs[a] \in Class
  OBVIOUS
<1> QED
  BY <1>1 DEF Class

\* An entry gets at least one item, and its class ends between the cursor and
\* the total.
LEMMA CutEndBounds ==
    ASSUME NEW pct \in Int, total \in Nat, cursor \in Nat, cursor <= total, i \in Nat,
           spec \in [builtin : BOOLEAN, parts : Seq(Part)]
    PROVE  /\ Count(pct) \in Nat \ {0}
           /\ CutEnd(Count(pct)) \in Nat
           /\ cursor <= CutEnd(Count(pct)) /\ CutEnd(Count(pct)) <= total
           /\ i = Len(spec.parts) => CutEnd(Count(pct)) = total
<1>1. 2 * pct * total + 100 \in Int
  OBVIOUS
<1>2. (2 * pct * total + 100) \div 200 \in Int
  BY <1>1
<1>3. Count(pct) \in Nat \ {0}
  <2> DEFINE rounded == (2 * pct * total + 100) \div 200
  <2>1. rounded \in Int
    BY <1>2
  <2> HIDE DEF rounded
  <2>2. (IF rounded < 1 THEN 1 ELSE rounded) \in Nat \ {0}
    BY <2>1
  <2> QED
    BY <2>2 DEF Count, rounded
<1> DEFINE c == Count(pct)
<1> HIDE DEF c
<1>4. c \in Nat \ {0}
  BY <1>3 DEF c
<1>5. Len(spec.parts) \in Nat
  OBVIOUS
<1> QED
  BY <1>3, <1>4, <1>5 DEF c, CutEnd

LEMMA InitCutInv == Init => CutInv
<1> SUFFICES ASSUME Init PROVE CutInv
  OBVIOUS
<1> USE InputTypes DEF Init
<1>1. Len(spec.parts) \in Nat
  OBVIOUS
<1>2. TypeOK
  BY <1>1 DEF TypeOK
<1>3. Apart /\ BehindCursor /\ Covered
  BY DEF Apart, BehindCursor, Covered
<1>4. TableDone
  BY <1>1 DEF TableDone
<1> QED
  BY <1>2, <1>3, <1>4 DEF CutInv

\* What a well-formed entry does: it appends a class that starts at the cursor
\* and ends at the new cursor, or nothing when no item is left.
LEMMA CutEntryInv == CutInv /\ Cut => CutInv'
<1> SUFFICES ASSUME CutInv, Cut PROVE CutInv'
  OBVIOUS
<1> DEFINE end == CutEnd(Count(part.pct))
           n == Len(classes)
           c == [start |-> cursor, end |-> end]
<1>1. /\ spec \in [builtin : BOOLEAN, parts : Seq(Part)]
      /\ total \in Nat /\ cursor \in Nat /\ cursor <= total
      /\ classes \in Seq(Class) /\ n \in Nat
      /\ i \in 1..Len(spec.parts) /\ Len(spec.parts) \in Nat
  BY InputTypes DEF CutInv, TypeOK, BehindCursor, Cut
<1>2. part.pct \in Int
  <2>1. part \in Part
    BY <1>1 DEF part
  <2> QED
    BY <2>1 DEF Part
<1>3. /\ end \in Nat /\ cursor <= end /\ end <= total
      /\ i = Len(spec.parts) => end = total
  <2>1. i \in Nat
    BY <1>1
  <2> QED
    BY <1>1, <1>2, <2>1, CutEndBounds
<1>4. /\ classes' = IF cursor < end THEN Append(classes, c) ELSE classes
      /\ cursor' = end /\ pc' = (IF end >= total THEN "fix" ELSE "loop")
      /\ i' = i + 1 /\ spec' = spec /\ total' = total /\ pc = "loop"
  BY DEF Cut
<1> HIDE DEF end
<1>5. c \in Class
  BY <1>1, <1>3 DEF Class
<1>6. TypeOK'
  BY <1>1, <1>3, <1>4, <1>5 DEF CutInv, TypeOK
<1>7. \A a \in 1..n : classes[a].end <= cursor /\ classes[a].start < classes[a].end
                      /\ classes[a].start \in Nat /\ classes[a].end \in Nat
  BY <1>1, <1>4, ClassAt DEF CutInv, BehindCursor, Apart
<1>8. TableDone'
  BY <1>1, <1>3, <1>4 DEF TableDone
<1>9. CASE cursor < end
  <2>1. /\ Len(classes') = n + 1 /\ classes'[n + 1] = c
        /\ \A a \in 1..n : classes'[a] = classes[a]
    BY <1>1, <1>4, <1>9
  <2>2. Apart'
    <3>1. \A a \in 1..(n + 1) : a \in 1..n \/ a = n + 1
      BY <1>1
    <3>2. \A a \in 1..(n + 1) :
              classes'[a].start < classes'[a].end /\ classes'[a].end <= total
      BY <1>1, <1>3, <1>7, <1>9, <2>1, <3>1 DEF CutInv, Apart
    <3>3. \A a, l \in 1..(n + 1) : a < l => classes'[a].end <= classes'[l].start
      BY <1>1, <1>7, <2>1, <3>1, SMTT(40) DEF CutInv, Apart
    <3> QED
      BY <1>4, <2>1, <3>2, <3>3 DEF Apart
  <2>3. BehindCursor'
    BY <1>1, <1>3, <1>4, <1>7, <1>9, <2>1 DEF BehindCursor
  <2>4. Covered'
    <3>1. ASSUME NEW item \in 0..(end - 1)
          PROVE  \E a \in 1..(n + 1) : item \in ClassRange(classes'[a])
      <4>1. CASE item < cursor
        <5>1. item \in 0..(cursor - 1)
          BY <1>1, <1>3, <4>1
        <5>2. PICK a \in 1..n : item \in ClassRange(classes[a])
          BY <5>1 DEF CutInv, Covered
        <5> QED
          BY <1>1, <2>1, <5>2
      <4>2. CASE item >= cursor
        <5>1. item \in ClassRange(c)
          BY <1>1, <1>3, <4>2 DEF ClassRange
        <5> QED
          BY <1>1, <2>1, <5>1
      <4> QED
        BY <1>1, <1>3, <4>1, <4>2
    <3> QED
      BY <1>4, <2>1, <3>1 DEF Covered
  <2> QED
    BY <1>6, <2>2, <2>3, <2>4, <1>8 DEF CutInv
<1>10. CASE ~(cursor < end)
  <2>1. classes' = classes /\ cursor' = cursor
    BY <1>1, <1>3, <1>4, <1>10
  <2> QED
    BY <1>4, <1>6, <1>8, <2>1 DEF CutInv, Apart, BehindCursor, Covered
<1> QED
  BY <1>1, <1>3, <1>9, <1>10

LEMMA FixUpCutInv == CutInv /\ FixUp => CutInv'
<1> SUFFICES ASSUME CutInv, FixUp PROVE CutInv'
  OBVIOUS
<1> DEFINE n == Len(classes)
<1>1. /\ total \in Nat /\ cursor \in Nat /\ cursor <= total
      /\ classes \in Seq(Class) /\ n \in Nat
      /\ pc = "fix" /\ pc' = "done"
      /\ spec' = spec /\ total' = total /\ i' = i /\ cursor' = cursor
  BY InputTypes DEF CutInv, TypeOK, BehindCursor, FixUp
<1>2. TableDone'
  BY <1>1 DEF CutInv, TableDone
<1>3. BehindCursor'
  BY <1>1 DEF BehindCursor
<1>4. CASE ~spec.builtin /\ cursor < total /\ classes # <<>>
  <2> DEFINE c == [start |-> classes[n].start, end |-> total]
  <2>1. /\ n \in 1..n
        /\ classes[n].start < classes[n].end /\ classes[n].end <= cursor
    <3>1. n \in 1..n
      BY <1>1, <1>4
    <3> QED
      BY <1>1, <3>1 DEF CutInv, Apart, BehindCursor
  <2>2. classes[n] \in Class /\ c \in Class
    <3>1. classes[n] \in Class /\ classes[n].start \in Nat
      BY <1>1, <2>1, ClassAt
    <3> QED
      BY <1>1, <3>1 DEF Class
  <2>3. [classes[n] EXCEPT !.end = total] = c
    BY <2>2 DEF Class
  <2>4. classes' = [classes EXCEPT ![n] = c]
    BY <1>4, <2>3 DEF FixUp
  <2>5. /\ classes' \in Seq(Class) /\ Len(classes') = n /\ classes'[n] = c
        /\ \A a \in 1..n : a # n => classes'[a] = classes[a]
    BY <1>1, <2>1, <2>2, <2>4
  <2>6. c \in Class /\ c.start = classes[n].start /\ c.end = total
    BY <2>2
  <2> HIDE DEF c
  <2>7. TypeOK'
    BY <1>1, <2>5 DEF CutInv, TypeOK
  <2>8. \A a \in 1..n : classes[a].start \in Nat /\ classes[a].end \in Nat
    BY <1>1, ClassAt
  <2>9. Apart'
    <3>1. \A a \in 1..n :
              classes'[a].start < classes'[a].end /\ classes'[a].end <= total
      BY <1>1, <2>1, <2>5, <2>6, <2>8 DEF CutInv, Apart
    <3>2. ASSUME NEW a \in 1..n, NEW l \in 1..n, a < l
          PROVE  classes'[a].end <= classes'[l].start
      <4>1. a # n /\ classes'[a] = classes[a] /\ classes'[l].start = classes[l].start
        BY <1>1, <2>5, <2>6, <3>2
      <4> QED
        BY <3>2, <4>1 DEF CutInv, Apart
    <3> QED
      BY <1>1, <2>5, <3>1, <3>2 DEF Apart
  <2>10. \A item \in 0..(total - 1) : \E a \in 1..n : item \in ClassRange(classes'[a])
    <3> SUFFICES ASSUME NEW item \in 0..(total - 1)
                 PROVE  \E a \in 1..n : item \in ClassRange(classes'[a])
      OBVIOUS
    <3>1. CASE item < cursor
      <4>1. item \in 0..(cursor - 1)
        BY <1>1, <3>1
      <4>2. PICK a \in 1..n : item \in ClassRange(classes[a])
        BY <4>1 DEF CutInv, Covered
      <4>3. CASE a = n
        <5>1. item \in ClassRange(c)
          BY <1>1, <2>1, <2>6, <2>8, <4>2, <4>3 DEF ClassRange
        <5> QED
          BY <2>1, <2>5, <5>1
      <4> QED
        BY <2>5, <4>2, <4>3
    <3>2. CASE item >= cursor
      <4>1. item \in ClassRange(c)
        BY <1>1, <2>1, <2>6, <2>8, <3>2 DEF ClassRange
      <4> QED
        BY <2>1, <2>5, <4>1
    <3> QED
      BY <1>1, <3>1, <3>2
  <2>11. Covered'
    BY <1>1, <2>5, <2>10 DEF Covered
  <2> QED
    BY <1>2, <1>3, <2>7, <2>9, <2>11 DEF CutInv
<1>5. CASE ~(~spec.builtin /\ cursor < total /\ classes # <<>>)
  <2>1. classes' = classes
    BY <1>5 DEF FixUp
  <2>2. classes # <<>> => cursor = total
    BY <1>1, <1>5 DEF CutInv, TableDone
  <2> QED
    BY <1>1, <1>2, <1>3, <2>1, <2>2 DEF CutInv, TypeOK, Apart, Covered
<1> QED
  BY <1>4, <1>5

LEMMA NextCutInv == CutInv /\ [Next]_vars => CutInv'
<1> SUFFICES ASSUME CutInv, [Next]_vars PROVE CutInv'
  OBVIOUS
<1>1. /\ spec \in [builtin : BOOLEAN, parts : Seq(Part)]
      /\ spec.builtin => \A a \in 1..Len(spec.parts) : spec.parts[a].form = "ok"
      /\ i \in 1..(Len(spec.parts) + 1) /\ Len(spec.parts) \in Nat
  BY InputTypes DEF CutInv, TypeOK
<1>2. CASE SkipBlank
  <2>1. /\ i \in 1..Len(spec.parts) /\ i' = i + 1 /\ pc = "loop"
        /\ UNCHANGED <<spec, total, pc, cursor, classes>> /\ ~spec.builtin
    BY <1>1, <1>2 DEF SkipBlank, part
  <2>2. TypeOK' /\ TableDone'
    BY <1>1, <2>1 DEF CutInv, TypeOK, TableDone
  <2>3. Apart' /\ BehindCursor' /\ Covered'
    BY <2>1 DEF CutInv, Apart, BehindCursor, Covered
  <2> QED
    BY <2>2, <2>3 DEF CutInv
<1>3. CASE Reject
  <2>1. /\ pc' = "error" /\ pc = "loop"
        /\ UNCHANGED <<spec, total, i, cursor, classes>>
    BY <1>3 DEF Reject
  <2> QED
    BY <2>1 DEF CutInv, TypeOK, Apart, BehindCursor, Covered, TableDone
<1>4. CASE Cut
  BY <1>4, CutEntryInv
<1>5. CASE EndLoop
  <2>1. /\ pc' = "fix" /\ pc = "loop" /\ i > Len(spec.parts)
        /\ UNCHANGED <<spec, total, i, cursor, classes>>
    BY <1>5 DEF EndLoop
  <2> QED
    BY <2>1 DEF CutInv, TypeOK, Apart, BehindCursor, Covered, TableDone
<1>6. CASE FixUp
  BY <1>6, FixUpCutInv
<1>7. CASE UNCHANGED vars
  BY <1>7 DEF vars, CutInv, TypeOK, Apart, BehindCursor, Covered, TableDone
<1> QED
  BY <1>2, <1>3, <1>4, <1>5, <1>6, <1>7 DEF Next

LEMMA CutInvariant == Spec => []CutInv
BY InitCutInv, NextCutInv, PTL DEF Spec

\* The cutting loop keeps its types, for every list and every number of items.
THEOREM CutTypeCorrect == Spec => []TypeOK
<1>1. CutInv => TypeOK
  BY DEF CutInv
<1> QED
  BY <1>1, CutInvariant, PTL

\* An item of one of several classes that lie one behind the other has one owner
\* among all pairs of a class and a shard.
InOrder(cut) == \A a, b \in 1..Len(cut) : a < b => cut[a].end <= cut[b].start

OwnersIn(cut, item, K) ==
    {p \in (1..Len(cut)) \X (0..(K - 1)) : item \in Owned(cut[p[1]], p[2], K)}

LEMMA OneOwner ==
    ASSUME NEW cut \in Seq(Class), NEW K \in Nat \ {0}, InOrder(cut),
           NEW item, NEW a \in 1..Len(cut), item \in ClassRange(cut[a])
    PROVE  \E o : OwnersIn(cut, item, K) = {o}
<1> DEFINE owners == OwnersIn(cut, item, K)
<1>1. \A b \in 1..Len(cut) : cut[b] \in Class /\ cut[b].start \in Nat /\ cut[b].end \in Nat
  BY ClassAt
<1>2. PICK s \in 0..(K - 1) :
          /\ item \in Owned(cut[a], s, K)
          /\ \A t \in 0..(K - 1) : item \in Owned(cut[a], t, K) => t = s
  BY <1>1, OwnedPartition DEF Class
<1>3. <<a, s>> \in owners
  BY <1>2 DEF OwnersIn
<1>4. ASSUME NEW p \in owners
      PROVE  p = <<a, s>>
  <2>1. /\ p \in (1..Len(cut)) \X (0..(K - 1))
        /\ item \in Owned(cut[p[1]], p[2], K)
    BY <1>4 DEF OwnersIn
  <2>2. /\ p = <<p[1], p[2]>> /\ p[1] \in 1..Len(cut) /\ p[2] \in 0..(K - 1)
    BY <2>1
  <2>3. item \in ClassRange(cut[p[1]])
    BY <1>1, <2>1, <2>2, OwnedPartition DEF Class
  <2>4. p[1] = a
    <3> DEFINE b == p[1]
    <3>1. b \in 1..Len(cut) /\ item \in ClassRange(cut[b])
      BY <2>2, <2>3
    <3> HIDE DEF b
    <3>2. /\ cut[a].start <= item /\ item < cut[a].end /\ item \in Int
          /\ cut[b].start <= item /\ item < cut[b].end
      BY <1>1, <3>1 DEF ClassRange
    <3>3. ~(a < b) /\ ~(b < a)
      <4>1. /\ a < b => cut[a].end <= cut[b].start
            /\ b < a => cut[b].end <= cut[a].start
        BY <3>1 DEF InOrder
      <4>2. /\ cut[a].start \in Int /\ cut[a].end \in Int
            /\ cut[b].start \in Int /\ cut[b].end \in Int
        BY <1>1, <3>1
      <4> QED
        BY <3>2, <4>1, <4>2
    <3>4. b = a
      BY <3>1, <3>3
    <3> QED
      BY <3>4 DEF b
  <2> QED
    BY <1>2, <2>1, <2>2, <2>4
<1> HIDE DEF owners
<1>5. owners = {<<a, s>>}
  BY <1>3, <1>4
<1> QED
  BY <1>5 DEF owners

LEMMA SingleOwnerInv == CutInv => SingleOwner
<1> SUFFICES ASSUME CutInv, pc = "done", classes # <<>>, NEW K \in ShardCounts
             PROVE  /\ \A item \in 0..(total - 1) : \E o \in Owners(item, K) :
                            \A p \in Owners(item, K) : p = o
                    /\ \A a \in 1..Len(classes), s \in 0..(K - 1) :
                            Owned(classes[a], s, K) \subseteq 0..(total - 1)
  BY DEF SingleOwner
<1>1. /\ K \in Nat \ {0} /\ total \in Nat /\ classes \in Seq(Class)
      /\ Len(classes) \in Nat
  BY InputTypes, NumbersAssumption DEF CutInv, TypeOK
<1>2. ASSUME NEW a \in 1..Len(classes)
      PROVE  /\ classes[a] \in Class
             /\ classes[a].end \in Nat /\ classes[a].start \in Nat
             /\ classes[a].end <= total
  BY <1>1, ClassAt DEF CutInv, Apart
<1>3. ASSUME NEW item \in 0..(total - 1)
      PROVE  \E o \in Owners(item, K) : \A p \in Owners(item, K) : p = o
  <2>1. PICK a \in 1..Len(classes) : item \in ClassRange(classes[a])
    BY <1>1 DEF CutInv, Covered
  <2>2. InOrder(classes)
    BY DEF CutInv, Apart, InOrder
  <2>3. \E o : OwnersIn(classes, item, K) = {o}
    BY <1>1, <2>1, <2>2, OneOwner
  <2>4. Owners(item, K) = OwnersIn(classes, item, K)
    BY DEF Owners, OwnersIn
  <2> QED
    BY <2>3, <2>4
<1>4. ASSUME NEW a \in 1..Len(classes), NEW s \in 0..(K - 1)
      PROVE  Owned(classes[a], s, K) \subseteq 0..(total - 1)
  <2>1. ClassRange(classes[a]) \subseteq 0..(total - 1)
    BY <1>1, <1>2 DEF ClassRange
  <2>2. Owned(classes[a], s, K) \subseteq ClassRange(classes[a])
    BY <1>1, <1>2, OwnedPartition DEF Class
  <2> QED
    BY <2>1, <2>2
<1> QED
  BY <1>3, <1>4

\* Every item has exactly one publisher, and nobody publishes an item that
\* does not exist: for every list of percentages, number of items and number
\* of shards.
THEOREM SingleOwnerHolds == Spec => []SingleOwner
BY SingleOwnerInv, CutInvariant, PTL

\* While the loop runs there are items left, so the first entry gets a class.
Begun ==
    /\ pc = "loop" /\ total > 0 => cursor < total
    /\ total > 0 /\ (\E a \in 1..(i - 1) : spec.parts[a].form = "ok") => classes # <<>>

LEMMA BegunStep == CutInv /\ Begun /\ [Next]_vars => Begun'
<1> SUFFICES ASSUME CutInv, Begun, [Next]_vars PROVE Begun'
  OBVIOUS
<1>1. /\ spec \in [builtin : BOOLEAN, parts : Seq(Part)]
      /\ total \in Nat /\ cursor \in Nat /\ cursor <= total /\ classes \in Seq(Class)
      /\ i \in 1..(Len(spec.parts) + 1) /\ Len(spec.parts) \in Nat
  BY InputTypes DEF CutInv, TypeOK, BehindCursor
<1>2. CASE SkipBlank
  <2>1. /\ i' = i + 1 /\ pc = "loop" /\ UNCHANGED <<spec, total, pc, cursor, classes>>
        /\ spec.parts[i].form = "blank"
    BY <1>2 DEF SkipBlank, part
  <2>2. \A a \in 1..(i' - 1) : a \in 1..(i - 1) \/ a = i
    BY <1>1, <2>1
  <2> QED
    BY <2>1, <2>2 DEF Begun
<1>3. CASE Cut
  <2> DEFINE end == CutEnd(Count(part.pct))
             c == [start |-> cursor, end |-> end]
  <2>1. /\ pc = "loop" /\ i \in 1..Len(spec.parts) /\ spec' = spec /\ total' = total
        /\ classes' = IF cursor < end THEN Append(classes, c) ELSE classes
        /\ cursor' = end /\ pc' = (IF end >= total THEN "fix" ELSE "loop")
    BY <1>1, <1>3 DEF Cut
  <2>2. part.pct \in Int
    <3>1. part \in Part
      BY <1>1, <2>1 DEF part
    <3> QED
      BY <3>1 DEF Part
  <2>3. Count(part.pct) \in Nat \ {0} /\ end \in Nat
    <3>1. i \in Nat
      BY <1>1
    <3> QED
      BY <1>1, <2>2, <3>1, CutEndBounds
  <2>4. total > 0 => cursor < end
    <3> SUFFICES ASSUME total > 0 PROVE cursor < end
      OBVIOUS
    <3>1. cursor < total
      BY <2>1 DEF Begun
    <3> DEFINE n == Count(part.pct)
    <3> HIDE DEF n
    <3>2. n \in Nat \ {0} /\ end = CutEnd(n)
      BY <2>3 DEF n
    <3> QED
      BY <1>1, <3>1, <3>2 DEF CutEnd
  <2> HIDE DEF end
  <2>5. total > 0 => classes' # <<>>
    BY <1>1, <2>1, <2>4
  <2>6. pc' = "loop" /\ total' > 0 => cursor' < total'
    BY <1>1, <2>1, <2>3
  <2> QED
    BY <2>1, <2>5, <2>6 DEF Begun
<1>4. CASE FixUp
  <2>1. /\ pc' = "done" /\ spec' = spec /\ total' = total /\ i' = i
        /\ classes # <<>> => classes' # <<>>
    BY <1>1, <1>4 DEF FixUp
  <2> QED
    BY <2>1 DEF Begun
<1>5. CASE Reject \/ EndLoop \/ UNCHANGED vars
  <2>1. /\ UNCHANGED <<spec, total, i, cursor, classes>>
        /\ pc' = "loop" => pc = "loop"
    BY <1>5 DEF Reject, EndLoop, vars
  <2> QED
    BY <2>1 DEF Begun
<1> QED
  BY <1>2, <1>3, <1>4, <1>5 DEF Next

\* A list with an entry covers all items, built-in or parsed.
THEOREM EntriesCoverHolds == Spec => []EntriesCover
<1>1. Init => Begun
  <2> SUFFICES ASSUME Init PROVE Begun
    OBVIOUS
  <2>1. 1..(i - 1) = {}
    BY DEF Init
  <2> QED
    BY <2>1 DEF Init, Begun
<1>2. CutInv /\ Begun => EntriesCover
  <2> SUFFICES ASSUME CutInv, Begun, pc = "done", total > 0,
                      \E a \in 1..(i - 1) : spec.parts[a].form = "ok"
               PROVE  classes # <<>> /\ classes[Len(classes)].end = total
    BY DEF EntriesCover
  <2> DEFINE n == Len(classes)
  <2>1. classes # <<>> /\ classes \in Seq(Class) /\ n \in Nat /\ n \in 1..n /\ total \in Nat
    BY InputTypes DEF CutInv, TypeOK, Begun
  <2>2. \A a \in 1..n : classes[a].start \in Nat /\ classes[a].end \in Nat
    BY <2>1, ClassAt
  <2>3. PICK a \in 1..n : total - 1 \in ClassRange(classes[a])
    <3>1. total - 1 \in 0..(total - 1)
      BY <2>1
    <3> QED
      BY <2>1, <3>1 DEF CutInv, Covered
  <2>4. classes[a].end = total
    <3>1. classes[a].end <= total /\ classes[a].end \in Nat /\ classes[a].start \in Nat
      BY <2>2, <2>3 DEF CutInv, Apart
    <3> QED
      BY <2>1, <2>3, <3>1 DEF ClassRange
  <2>5. ~(a < n)
    <3> SUFFICES ASSUME a < n PROVE FALSE
      OBVIOUS
    <3>1. /\ classes[a].end <= classes[n].start /\ classes[n].start < classes[n].end
          /\ classes[n].end <= total
      BY <2>1, <2>3 DEF CutInv, Apart
    <3> QED
      BY <2>1, <2>2, <2>4, <3>1
  <2>6. a = n
    BY <2>1, <2>3, <2>5
  <2> QED
    BY <2>1, <2>4, <2>6
<1> QED
  BY <1>1, <1>2, BegunStep, CutInvariant, PTL DEF Spec

-----------------------------------------------------------------------------
(* Sequences without repetitions *)

LEMMA SeqMonotonic ==
    ASSUME NEW S, NEW T, S \subseteq T, NEW s \in Seq(S)
    PROVE  s \in Seq(T)
  OBVIOUS

\* A sequence without repetitions is as long as its range is large.
LEMMA InjectiveLen ==
    ASSUME NEW n \in Nat, NEW s, DOMAIN s = 1..n, s = [j \in 1..n |-> s[j]], IsInjective(s)
    PROVE  IsFiniteSet(Range(s)) /\ Cardinality(Range(s)) = n
<1>1. IsFiniteSet(1..n) /\ Cardinality(1..n) = n
  BY FS_Interval
<1>2. s \in [1..n -> Range(s)]
  BY DEF Range
<1>3. s \in Injection(1..n, Range(s))
  BY <1>2 DEF Injection, IsInjective
<1>4. s \in Surjection(1..n, Range(s))
  BY <1>2 DEF Surjection, Range
<1>5. ExistsBijection(1..n, Range(s))
  BY <1>3, <1>4 DEF ExistsBijection, Bijection
<1> QED
  BY <1>1, <1>5, FS_Bijection

\* Appending something new keeps it so.
LEMMA AppendFresh ==
    ASSUME NEW S, NEW s \in Seq(S), IsInjective(s), NEW e \in S, e \notin Range(s)
    PROVE  /\ Append(s, e) \in Seq(S)
           /\ IsInjective(Append(s, e))
           /\ Len(Append(s, e)) = Len(s) + 1
           /\ \A j \in 1..Len(s) : Append(s, e)[j] = s[j]
           /\ Range(Append(s, e)) = Range(s) \cup {e}
<1> DEFINE t == Append(s, e)
<1>1. /\ t \in Seq(S) /\ Len(t) = Len(s) + 1 /\ DOMAIN t = 1..(Len(s) + 1)
      /\ \A j \in 1..Len(s) : t[j] = s[j]
      /\ t[Len(s) + 1] = e
  OBVIOUS
<1>2. DOMAIN s = 1..Len(s) /\ Len(s) \in Nat
  OBVIOUS
<1> HIDE DEF t
<1>3. \A j \in 1..Len(s) : t[j] # e
  BY <1>1, <1>2 DEF Range
<1>4. IsInjective(t)
  <2>1. SUFFICES ASSUME NEW a \in 1..(Len(s) + 1), NEW b \in 1..(Len(s) + 1), t[a] = t[b]
                 PROVE  a = b
    BY <1>1 DEF IsInjective
  <2>2. CASE a \in 1..Len(s) /\ b \in 1..Len(s)
    BY <2>1, <2>2, <1>1, <1>2 DEF IsInjective
  <2>3. CASE a = Len(s) + 1 \/ b = Len(s) + 1
    BY <2>1, <2>3, <1>1, <1>2, <1>3
  <2> QED
    BY <2>2, <2>3, <1>2
<1>5. Range(t) = Range(s) \cup {e}
  <2>1. 1..(Len(s) + 1) = 1..Len(s) \cup {Len(s) + 1}
    BY <1>2
  <2> QED
    BY <2>1, <1>1, <1>2 DEF Range
<1> QED
  BY <1>1, <1>4, <1>5 DEF t

\* So does taking the first element away, which is not met again.
LEMMA TailInjective ==
    ASSUME NEW S, NEW s \in Seq(S), s # <<>>, IsInjective(s)
    PROVE  /\ Tail(s) \in Seq(S)
           /\ IsInjective(Tail(s))
           /\ Len(Tail(s)) = Len(s) - 1
           /\ Head(s) \in S
           /\ Head(s) \in Range(s)
           /\ Head(s) \notin Range(Tail(s))
           /\ Range(Tail(s)) \subseteq Range(s)
<1>1. /\ Len(s) \in Nat /\ Len(s) > 0 /\ DOMAIN s = 1..Len(s)
      /\ Tail(s) \in Seq(S) /\ Len(Tail(s)) = Len(s) - 1
      /\ DOMAIN Tail(s) = 1..(Len(s) - 1)
      /\ \A j \in 1..(Len(s) - 1) : Tail(s)[j] = s[j + 1]
      /\ Head(s) = s[1] /\ s[1] \in S
  OBVIOUS
<1>2. \A a, b \in 1..Len(s) : s[a] = s[b] => a = b
  BY <1>1 DEF IsInjective
<1>3. IsInjective(Tail(s))
  <2>1. SUFFICES ASSUME NEW a \in 1..(Len(s) - 1), NEW b \in 1..(Len(s) - 1),
                        Tail(s)[a] = Tail(s)[b]
                 PROVE  a = b
    BY <1>1 DEF IsInjective
  <2>2. s[a + 1] = s[b + 1] /\ a + 1 \in 1..Len(s) /\ b + 1 \in 1..Len(s)
    BY <2>1, <1>1
  <2> QED
    BY <2>2, <1>2
<1>4. \A j \in 1..(Len(s) - 1) : j + 1 \in 1..Len(s) /\ s[j + 1] # s[1]
  BY <1>1, <1>2
<1>5. Head(s) \in Range(s)
  BY <1>1 DEF Range
<1>6. Range(Tail(s)) \subseteq Range(s) /\ Head(s) \notin Range(Tail(s))
  BY <1>1, <1>4 DEF Range
<1> QED
  BY <1>1, <1>3, <1>5, <1>6

-----------------------------------------------------------------------------
(* Visible: the inductive invariant *)

\* The screen's symbols are different indices of the screen's range.
ScreenPart ==
    /\ fromScreen \in Seq(Indices) /\ Len(fromScreen) = kScreen
    /\ IsInjective(fromScreen)

\* What is sampled, or left to be copied, is different indices of the pool.
SamplePart == zipfPicked \in Seq(Pool) /\ IsInjective(zipfPicked)

\* The slots filled so far start with the screen's part, are different and
\* meet nothing that is still to be copied.
SlotsPart ==
    /\ visibleIdx \in Seq(AllSymbols) /\ IsInjective(visibleIdx)
    /\ Len(visibleIdx) >= kScreen
    /\ \A j \in 1..kScreen : visibleIdx[j] \in Indices
    /\ Len(visibleIdx) + Len(zipfPicked) = k
    /\ Range(visibleIdx) \cap Range(zipfPicked) = {}

BuildInv ==
    /\ BuildTypeOK
    /\ Usable(cfg)
    /\ step = "screen" => zipfPicked = <<>>
    /\ step # "screen" => ScreenPart /\ SamplePart
    /\ step = "sample" => Len(zipfPicked) <= kZipf
    /\ step \in {"assemble", "built"} => SlotsPart
    /\ step = "built" => zipfPicked = <<>> /\ notVisible = AllSymbols \ Range(visibleIdx)

\* What the configuration says about the sizes.
LEMMA Sizes ==
    ASSUME Usable(cfg)
    PROVE  /\ cfg.symbols \in Nat /\ cfg.visibleK \in Nat /\ k \in Nat /\ k <= cfg.symbols
           /\ screen \in Screen /\ screen.start <= screen.end /\ screen.end <= cfg.symbols
           /\ Indices = screen.start..(screen.end - 1)
           /\ Indices \subseteq AllSymbols
           /\ IsFiniteSet(Indices) /\ Cardinality(Indices) = screen.end - screen.start
           /\ kScreen = Lesser(k \div 2, screen.end - screen.start)
           /\ kScreen \in Nat /\ kScreen <= k /\ kZipf \in Nat
           /\ IsFiniteSet(AllSymbols) /\ Cardinality(AllSymbols) = cfg.symbols
<1>1. /\ cfg \in Config /\ Len(cfg.screens) \in Nat \ {0}
      /\ \A j \in 1..Len(cfg.screens) :
            /\ cfg.screens[j] \in Screen
            /\ cfg.screens[j].start <= cfg.screens[j].end
            /\ cfg.screens[j].end <= cfg.symbols
  BY DEF Usable, Config
<1>2. cfg.symbols \in Nat /\ cfg.visibleK \in Nat /\ cfg.uid \in Nat
  BY <1>1 DEF Config
<1>3. k \in Nat /\ k <= cfg.symbols
  BY <1>2 DEF k, Lesser
<1>4. (cfg.uid % Len(cfg.screens)) + 1 \in 1..Len(cfg.screens)
  <2>1. (cfg.uid % Len(cfg.screens)) \in 0..(Len(cfg.screens) - 1)
    BY <1>1, <1>2, Z3
  <2> QED
    BY <2>1, <1>1
<1>5. screen \in Screen /\ screen.start <= screen.end /\ screen.end <= cfg.symbols
  BY <1>1, <1>4 DEF screen
<1>6. screen.start \in Nat /\ screen.end \in Nat
  BY <1>5 DEF Screen
<1>7. Lesser(screen.end, cfg.symbols) = screen.end
  BY <1>2, <1>5, <1>6 DEF Lesser
<1>8. Indices = screen.start..(screen.end - 1)
  BY <1>7 DEF Indices
<1>9. Indices \subseteq AllSymbols
  BY <1>2, <1>5, <1>6, <1>8 DEF AllSymbols
<1>10. IsFiniteSet(Indices) /\ Cardinality(Indices) = screen.end - screen.start
  <2> DEFINE last == screen.end - 1
  <2>1. screen.start \in Int /\ last \in Int
    BY <1>6
  <2>2. IsFiniteSet(screen.start..last)
        /\ Cardinality(screen.start..last) = IF screen.start > last THEN 0 ELSE last - screen.start + 1
    BY <2>1, FS_Interval
  <2> QED
    BY <2>2, <1>5, <1>6, <1>8
<1>11. kScreen = Lesser(k \div 2, screen.end - screen.start)
  BY <1>10 DEF kScreen
<1>12. k \div 2 \in Nat /\ k \div 2 <= k
  BY <1>3, Z3
<1>13. kScreen \in Nat /\ kScreen <= k
  BY <1>3, <1>5, <1>6, <1>11, <1>12 DEF Lesser
<1>14. kZipf \in Nat
  BY <1>3, <1>13 DEF kZipf
<1>15. IsFiniteSet(AllSymbols) /\ Cardinality(AllSymbols) = cfg.symbols
  <2> DEFINE last == cfg.symbols - 1
  <2>1. last \in Int
    BY <1>2
  <2>2. IsFiniteSet(0..last) /\ Cardinality(0..last) = IF 0 > last THEN 0 ELSE last - 0 + 1
    BY <2>1, FS_Interval
  <2> QED
    BY <2>2, <1>2 DEF AllSymbols
<1> QED
  BY <1>2, <1>3, <1>5, <1>8, <1>9, <1>10, <1>11, <1>13, <1>14, <1>15

\* A pool of all that the screen's part leaves is large enough for the rest.
LEMMA PoolSize ==
    ASSUME Usable(cfg), ScreenPart
    PROVE  IsFiniteSet(Pool) /\ Cardinality(Pool) = cfg.symbols - kScreen /\ Cardinality(Pool) >= kZipf
<1>1. /\ cfg.symbols \in Nat /\ k \in Nat /\ k <= cfg.symbols /\ Indices \subseteq AllSymbols
      /\ kScreen \in Nat
      /\ IsFiniteSet(AllSymbols) /\ Cardinality(AllSymbols) = cfg.symbols
  BY Sizes
<1>2. /\ DOMAIN fromScreen = 1..kScreen
      /\ fromScreen = [j \in 1..kScreen |-> fromScreen[j]]
      /\ IsInjective(fromScreen)
      /\ \A j \in 1..kScreen : fromScreen[j] \in Indices
  BY DEF ScreenPart
<1>3. Cardinality(Range(fromScreen)) = kScreen
  BY <1>1, <1>2, InjectiveLen
<1>4. Range(fromScreen) \subseteq AllSymbols
  BY <1>1, <1>2 DEF Range
<1>5. AllSymbols \cap Range(fromScreen) = Range(fromScreen)
  BY <1>4
<1>6. IsFiniteSet(Pool) /\ Cardinality(Pool) = cfg.symbols - kScreen
  <2>1. /\ IsFiniteSet(AllSymbols \ Range(fromScreen))
        /\ Cardinality(AllSymbols \ Range(fromScreen))
                = Cardinality(AllSymbols) - Cardinality(AllSymbols \cap Range(fromScreen))
    BY <1>1, FS_Difference
  <2>2. Cardinality(AllSymbols \ Range(fromScreen)) = cfg.symbols - kScreen
    BY <2>1, <1>1, <1>3, <1>5
  <2> QED
    BY <2>1, <2>2 DEF Pool
<1> QED
  BY <1>1, <1>6 DEF kZipf

LEMMA BuildInitInv == BuildInit => BuildInv
<1> SUFFICES ASSUME BuildInit PROVE BuildInv
  OBVIOUS
<1>1. Usable(cfg) /\ cfg \in Config
  BY ConfigsAssumption DEF BuildInit, Usable
<1> QED
  BY <1>1 DEF BuildInit, BuildInv, BuildTypeOK

\* No step changes the configuration, nor what is derived from it.
LEMMA SameConfig ==
    ASSUME UNCHANGED cfg
    PROVE  /\ AllSymbols' = AllSymbols /\ k' = k /\ screen' = screen
           /\ Indices' = Indices /\ kScreen' = kScreen /\ kZipf' = kZipf
           /\ Usable(cfg)' <=> Usable(cfg)
  BY DEF AllSymbols, k, screen, Indices, kScreen, kZipf, Usable

LEMMA SamePool ==
    ASSUME UNCHANGED <<cfg, fromScreen>>
    PROVE  Pool' = Pool
  BY DEF Pool, AllSymbols

LEMMA PickScreenInv ==
    ASSUME BuildInv, PickScreen
    PROVE  BuildInv'
<1>1. UNCHANGED <<cfg, zipfPicked, rng, visibleIdx, notVisible>> /\ step = "screen"
      /\ step' = "sample" /\ Usable(cfg) /\ BuildTypeOK /\ zipfPicked = <<>>
  BY DEF BuildInv, PickScreen
<1>2. /\ kZipf \in Nat /\ kScreen \in Nat /\ Indices \subseteq AllSymbols
      /\ AllSymbols' = AllSymbols /\ Indices' = Indices
      /\ kScreen' = kScreen /\ kZipf' = kZipf /\ cfg.symbols \in Nat
  BY <1>1, Sizes, SameConfig
<1>3. PICK first \in [1..kScreen -> Indices] : IsInjective(first) /\ fromScreen' = first
  BY DEF PickScreen
<1>4. first \in Seq(Indices) /\ Len(first) = kScreen
  BY <1>2
<1>5. ScreenPart'
  BY <1>2, <1>3, <1>4 DEF ScreenPart
<1>6. fromScreen' \in Seq(Nat)
  <2>1. \A idx \in Indices : idx \in Nat
    BY <1>2 DEF AllSymbols
  <2>2. first \in [1..kScreen -> Nat]
    BY <1>3, <2>1
  <2> QED
    BY <1>2, <1>3, <2>2
<1>7. maxTries' \in Nat
  <2>1. kZipf * TriesPerPick \in Nat
    BY <1>2, TriesAssumption
  <2> QED
    BY <2>1 DEF PickScreen
<1>8. SamplePart'
  BY <1>1 DEF SamplePart, IsInjective
<1>9. BuildTypeOK'
  BY <1>1, <1>6, <1>7 DEF BuildTypeOK
<1>10. Len(zipfPicked') <= kZipf'
  BY <1>1, <1>2
<1> QED
  BY <1>1, <1>5, <1>8, <1>9, <1>10 DEF BuildInv

\* A step of the sampling that appends nothing, or an index that is not picked.
LEMMA SampleStepInv ==
    ASSUME BuildInv, step = "sample", Len(zipfPicked) < kZipf,
           UNCHANGED <<cfg, step, fromScreen, visibleIdx, notVisible>>,
           rng' \in {0, 1}, maxTries' \in Nat,
           UNCHANGED zipfPicked \/ \E idx \in Unpicked : zipfPicked' = Append(zipfPicked, idx)
    PROVE  BuildInv'
<1>1. BuildTypeOK /\ Usable(cfg) /\ ScreenPart /\ SamplePart
  BY DEF BuildInv
<1>2. /\ kZipf \in Nat /\ Pool' = Pool /\ kZipf' = kZipf /\ Indices' = Indices /\ kScreen' = kScreen
      /\ Pool \subseteq Nat
  BY <1>1, Sizes, SameConfig, SamePool DEF Pool, AllSymbols
<1>3. ScreenPart'
  BY <1>1, <1>2 DEF ScreenPart
<1>4. SamplePart' /\ Len(zipfPicked') <= kZipf
  <2>1. CASE UNCHANGED zipfPicked
    BY <2>1, <1>1, <1>2 DEF SamplePart
  <2>2. CASE \E idx \in Unpicked : zipfPicked' = Append(zipfPicked, idx)
    <3>1. PICK idx \in Unpicked : zipfPicked' = Append(zipfPicked, idx)
      BY <2>2
    <3>2. idx \in Pool /\ idx \notin Range(zipfPicked)
      BY DEF Unpicked
    <3>3. zipfPicked' \in Seq(Pool) /\ IsInjective(zipfPicked') /\ Len(zipfPicked') = Len(zipfPicked) + 1
      BY <1>1, <3>1, <3>2, AppendFresh DEF SamplePart
    <3>4. Len(zipfPicked) \in Nat
      BY <1>1 DEF SamplePart
    <3> QED
      BY <1>2, <3>3, <3>4 DEF SamplePart
  <2> QED
    BY <2>1, <2>2
<1>5. zipfPicked' \in Seq(Nat)
  BY <1>2, <1>4, SeqMonotonic DEF SamplePart
<1>6. BuildTypeOK'
  BY <1>1, <1>5 DEF BuildTypeOK
<1> QED
  BY <1>1, <1>2, <1>3, <1>4, <1>6 DEF BuildInv

LEMMA DrawInv ==
    ASSUME BuildInv, Draw
    PROVE  BuildInv'
<1>1. PICK idx \in Pool :
        zipfPicked' = IF idx \in Range(zipfPicked) THEN zipfPicked ELSE Append(zipfPicked, idx)
  BY DEF Draw
<1>2. UNCHANGED zipfPicked \/ \E new \in Unpicked : zipfPicked' = Append(zipfPicked, new)
  BY <1>1 DEF Unpicked
<1>3. maxTries' \in Nat /\ rng' \in {0, 1}
  BY DEF Draw, BuildInv, BuildTypeOK
<1> QED
  BY <1>2, <1>3, SampleStepInv DEF Draw

LEMMA FillInv ==
    ASSUME BuildInv, Fill
    PROVE  BuildInv'
<1>1. \E new \in Unpicked : zipfPicked' = Append(zipfPicked, new)
  BY DEF Fill
<1>2. maxTries' \in Nat /\ rng' \in {0, 1}
  BY DEF Fill, BuildInv, BuildTypeOK
<1> QED
  BY <1>1, <1>2, SampleStepInv DEF Fill

LEMMA SampledInv ==
    ASSUME BuildInv, Sampled
    PROVE  BuildInv'
<1>1. /\ UNCHANGED <<cfg, fromScreen, zipfPicked, rng, maxTries, notVisible>>
      /\ step = "sample" /\ step' = "assemble" /\ visibleIdx' = fromScreen
      /\ BuildTypeOK /\ Usable(cfg) /\ ScreenPart /\ SamplePart
      /\ Len(zipfPicked) <= kZipf
      /\ Len(zipfPicked) >= kZipf \/ Unpicked = {}
  BY DEF BuildInv, Sampled
<1>2. /\ AllSymbols' = AllSymbols /\ k' = k /\ Indices' = Indices /\ kScreen' = kScreen
      /\ kZipf' = kZipf /\ Pool' = Pool /\ Indices \subseteq AllSymbols
      /\ kScreen \in Nat /\ kZipf \in Nat /\ k \in Nat
  BY <1>1, Sizes, SameConfig, SamePool
<1>3. ScreenPart' /\ SamplePart'
  BY <1>1, <1>2 DEF ScreenPart, SamplePart
<1>4. /\ zipfPicked \in Seq(Pool) /\ Len(zipfPicked) \in Nat
      /\ DOMAIN zipfPicked = 1..Len(zipfPicked)
      /\ zipfPicked = [j \in 1..Len(zipfPicked) |-> zipfPicked[j]]
      /\ IsInjective(zipfPicked)
  BY <1>1 DEF SamplePart
<1>5. Len(zipfPicked) = kZipf
  <2>1. CASE Unpicked = {}
    <3>1. Range(zipfPicked) = Pool
      BY <1>4, <2>1 DEF Unpicked, Range
    <3>2. Cardinality(Range(zipfPicked)) = Len(zipfPicked)
      BY <1>4, InjectiveLen
    <3> QED
      BY <3>1, <3>2, <1>1, <1>2, <1>4, PoolSize
  <2> QED
    BY <2>1, <1>1, <1>2, <1>4
<1>6. visibleIdx' \in Seq(AllSymbols) /\ Len(visibleIdx') = kScreen /\ IsInjective(visibleIdx')
  BY <1>1, <1>2 DEF ScreenPart
<1>7. \A j \in 1..kScreen : visibleIdx'[j] \in Indices
  BY <1>1 DEF ScreenPart
<1>8. Range(visibleIdx') \cap Range(zipfPicked) = {}
  <2>1. Range(zipfPicked) \subseteq Pool
    BY <1>4 DEF Range
  <2> QED
    BY <1>1, <2>1 DEF Pool
<1>9. Len(visibleIdx') + Len(zipfPicked') = k'
  BY <1>1, <1>2, <1>5, <1>6 DEF kZipf
<1>10. SlotsPart'
  <2>1. Len(visibleIdx') >= kScreen
    BY <1>2, <1>6
  <2> QED
    BY <2>1, <1>1, <1>2, <1>6, <1>7, <1>8, <1>9 DEF SlotsPart
<1>11. BuildTypeOK'
  BY <1>1 DEF BuildTypeOK
<1> QED
  BY <1>1, <1>3, <1>10, <1>11 DEF BuildInv

LEMMA AssembleInv ==
    ASSUME BuildInv, Assemble
    PROVE  BuildInv'
<1>1. /\ UNCHANGED <<cfg, step, fromScreen, rng, maxTries, notVisible>>
      /\ step = "assemble" /\ zipfPicked # <<>> /\ zipfPicked' = Tail(zipfPicked)
      /\ visibleIdx' = IF Head(zipfPicked) \in Range(visibleIdx) THEN visibleIdx
                       ELSE Append(visibleIdx, Head(zipfPicked))
      /\ BuildTypeOK /\ Usable(cfg) /\ ScreenPart /\ SamplePart /\ SlotsPart
  BY DEF BuildInv, Assemble
<1>2. /\ AllSymbols' = AllSymbols /\ k' = k /\ Indices' = Indices /\ kScreen' = kScreen
      /\ Pool' = Pool /\ Pool \subseteq AllSymbols /\ AllSymbols \subseteq Nat
      /\ kScreen \in Nat /\ k \in Nat
  BY <1>1, Sizes, SameConfig, SamePool DEF Pool, AllSymbols
<1>3. /\ zipfPicked' \in Seq(Pool) /\ IsInjective(zipfPicked')
      /\ Len(zipfPicked') = Len(zipfPicked) - 1
      /\ Head(zipfPicked) \in Pool /\ Head(zipfPicked) \in Range(zipfPicked)
      /\ Head(zipfPicked) \notin Range(zipfPicked')
      /\ Range(zipfPicked') \subseteq Range(zipfPicked)
  BY <1>1, TailInjective DEF SamplePart
<1>4. Head(zipfPicked) \notin Range(visibleIdx) /\ Head(zipfPicked) \in AllSymbols
  BY <1>1, <1>2, <1>3 DEF SlotsPart
<1>5. visibleIdx' = Append(visibleIdx, Head(zipfPicked))
  BY <1>1, <1>4
<1>6. /\ visibleIdx \in Seq(AllSymbols) /\ IsInjective(visibleIdx)
      /\ Len(visibleIdx) >= kScreen
      /\ \A j \in 1..kScreen : visibleIdx[j] \in Indices
      /\ Len(visibleIdx) + Len(zipfPicked) = k
      /\ Range(visibleIdx) \cap Range(zipfPicked) = {}
  BY <1>1 DEF SlotsPart
<1>7. /\ visibleIdx' \in Seq(AllSymbols) /\ IsInjective(visibleIdx')
      /\ Len(visibleIdx') = Len(visibleIdx) + 1
      /\ \A j \in 1..Len(visibleIdx) : visibleIdx'[j] = visibleIdx[j]
      /\ Range(visibleIdx') = Range(visibleIdx) \cup {Head(zipfPicked)}
  BY <1>4, <1>5, <1>6, AppendFresh
<1>8. Len(visibleIdx) \in Nat /\ Len(zipfPicked) \in Nat
  BY <1>1, <1>6 DEF SamplePart
<1>9. Len(visibleIdx') >= kScreen /\ Len(visibleIdx') + Len(zipfPicked') = k
  BY <1>2, <1>3, <1>6, <1>7, <1>8
<1>10. \A j \in 1..kScreen : visibleIdx'[j] \in Indices
  BY <1>2, <1>6, <1>7, <1>8
<1>11. Range(visibleIdx') \cap Range(zipfPicked') = {}
  BY <1>3, <1>6, <1>7
<1>12. SlotsPart'
  BY <1>2, <1>7, <1>9, <1>10, <1>11 DEF SlotsPart
<1>13. ScreenPart' /\ SamplePart'
  BY <1>1, <1>2, <1>3 DEF ScreenPart, SamplePart
<1>14. zipfPicked' \in Seq(Nat) /\ visibleIdx' \in Seq(Nat)
  <2>1. Pool \subseteq Nat
    BY <1>2
  <2> QED
    BY <2>1, <1>2, <1>3, <1>7, SeqMonotonic
<1>15. BuildTypeOK'
  BY <1>1, <1>14 DEF BuildTypeOK
<1> QED
  BY <1>1, <1>12, <1>13, <1>15 DEF BuildInv

LEMMA BuiltInv ==
    ASSUME BuildInv, Built
    PROVE  BuildInv'
<1>1. /\ UNCHANGED <<cfg, fromScreen, zipfPicked, rng, maxTries, visibleIdx>>
      /\ step' = "built" /\ zipfPicked = <<>>
      /\ notVisible' = AllSymbols \ Range(visibleIdx)
      /\ BuildTypeOK /\ Usable(cfg) /\ ScreenPart /\ SamplePart /\ SlotsPart
  BY DEF BuildInv, Built
<1>2. /\ AllSymbols' = AllSymbols /\ k' = k /\ Indices' = Indices /\ kScreen' = kScreen
      /\ Pool' = Pool /\ AllSymbols \subseteq Nat
  BY <1>1, SameConfig, SamePool, Sizes DEF AllSymbols
<1>3. ScreenPart' /\ SamplePart'
  BY <1>1, <1>2 DEF ScreenPart, SamplePart
<1>4. SlotsPart'
  BY <1>1, <1>2 DEF SlotsPart
<1>5. notVisible' = AllSymbols' \ Range(visibleIdx') /\ notVisible' \subseteq Nat
  BY <1>1, <1>2
<1>6. BuildTypeOK'
  BY <1>1, <1>5 DEF BuildTypeOK
<1> QED
  BY <1>1, <1>3, <1>4, <1>5, <1>6 DEF BuildInv

LEMMA BuildStutterInv ==
    ASSUME BuildInv, UNCHANGED buildVars
    PROVE  BuildInv'
<1>1. /\ UNCHANGED <<cfg, step, fromScreen, zipfPicked, rng, maxTries, visibleIdx, notVisible>>
  BY DEF buildVars
<1>2. /\ AllSymbols' = AllSymbols /\ k' = k /\ Indices' = Indices /\ kScreen' = kScreen
      /\ kZipf' = kZipf /\ Pool' = Pool
  BY <1>1, SameConfig, SamePool
<1> QED
  BY <1>1, <1>2 DEF BuildInv, BuildTypeOK, ScreenPart, SamplePart, SlotsPart

LEMMA BuildStepInv == BuildInv /\ [BuildNext]_buildVars => BuildInv'
BY PickScreenInv, DrawInv, FillInv, SampledInv, AssembleInv, BuiltInv, BuildStutterInv
   DEF BuildNext

THEOREM BuildInvariant == BuildSpec => []BuildInv
BY BuildInitInv, BuildStepInv, PTL DEF BuildSpec

-----------------------------------------------------------------------------
(* Visible: theorems *)

\* Every variable of buildVisible keeps its type: in particular the number of
\* tries left never goes below zero.
THEOREM BuildTypeCorrect == BuildSpec => []BuildTypeOK
<1>1. BuildInv => BuildTypeOK
  BY DEF BuildInv
<1> QED
  BY <1>1, BuildInvariant, PTL

LEMMA SlotsInv == BuildInv => SlotsAndRest
<1> SUFFICES ASSUME BuildInv, step = "built" PROVE SlotsAndRest
  BY DEF SlotsAndRest
<1>1. SlotsPart /\ zipfPicked = <<>> /\ notVisible = AllSymbols \ Range(visibleIdx)
      /\ Usable(cfg)
  BY DEF BuildInv
<1>2. visibleIdx \in Seq(AllSymbols) /\ Len(visibleIdx) = k /\ IsInjective(visibleIdx)
  <2>1. k \in Nat /\ Len(zipfPicked) = 0
    BY <1>1, Sizes
  <2> QED
    BY <1>1, <2>1 DEF SlotsPart
<1> QED
  BY <1>1, <1>2 DEF SlotsAndRest

\* A user starts with as many different symbols as it asked for or exist, and
\* the pool for scrolling is exactly the rest.
THEOREM SlotsCorrect == BuildSpec => []SlotsAndRest
BY SlotsInv, BuildInvariant, PTL

\* Half of the slots, or the whole screen if it is smaller, show symbols of
\* the user's screen.
THEOREM HalfCorrect == BuildSpec => []HalfFromScreen
<1>1. BuildInv => HalfFromScreen
  <2> SUFFICES ASSUME BuildInv, step = "built" PROVE HalfFromScreen
    BY DEF HalfFromScreen
  <2> DEFINE onScreen == {s \in 1..Len(visibleIdx) : visibleIdx[s] \in screen.start..(screen.end - 1)}
  <2>1. SlotsPart /\ Usable(cfg)
    BY DEF BuildInv
  <2>2. /\ Indices = screen.start..(screen.end - 1) /\ kScreen \in Nat
        /\ kScreen = Lesser(k \div 2, screen.end - screen.start)
    BY <2>1, Sizes
  <2>3. Len(visibleIdx) \in Nat /\ Len(visibleIdx) >= kScreen
    BY <2>1 DEF SlotsPart
  <2>4. 1..kScreen \subseteq onScreen
    BY <2>1, <2>2, <2>3 DEF SlotsPart
  <2>5. IsFiniteSet(1..Len(visibleIdx)) /\ Cardinality(1..kScreen) = kScreen
    BY <2>2, <2>3, FS_Interval
  <2>6. onScreen \in SUBSET (1..Len(visibleIdx))
    OBVIOUS
  <2>7. IsFiniteSet(onScreen) /\ Cardinality(onScreen) \in Nat
    BY <2>5, <2>6, FS_Subset, FS_CardinalityType
  <2>8. Cardinality(1..kScreen) <= Cardinality(onScreen)
    BY <2>4, <2>7, FS_Subset
  <2> QED
    BY <2>2, <2>5, <2>8 DEF HalfFromScreen
<1> QED
  BY <1>1, BuildInvariant, PTL

-----------------------------------------------------------------------------
(* Induction over the natural numbers, stated for sets *)

LEMMA NatLeast ==
    ASSUME NEW T, T \subseteq Nat, T # {}
    PROVE  \E x \in T : \A y \in T : ~(y < x)
<1>1. PICK x \in T : \A y \in T : ~(<<y, x>> \in OpToRel(<, Nat))
  BY NatLessThanWellFounded, WFMin
<1> QED
  BY <1>1 DEF OpToRel

LEMMA SetInduction ==
    ASSUME NEW T, 0 \in T, \A m \in Nat : m \in T => m + 1 \in T
    PROVE  Nat \subseteq T
<1> SUFFICES ASSUME Nat \ T # {} PROVE FALSE
  OBVIOUS
<1>1. PICK x \in Nat \ T : \A y \in Nat \ T : ~(y < x)
  BY NatLeast, Zenon
<1>2. x - 1 \in Nat /\ x - 1 \in T
  BY <1>1
<1>3. (x - 1) + 1 \in T
  BY <1>2
<1> QED
  BY <1>1, <1>3

-----------------------------------------------------------------------------
(* ParseScreens *)

\* The ranges a user can start on.
Good(n) ==
    {s \in Screen : s.start <= s.end /\ s.end <= n /\ (n > 0 => s.start < s.end)}

LEMMA CapTypes ==
    ScreenCaps[1] \in Nat /\ ScreenCaps[2] \in Nat /\ ScreenCaps[3] \in Nat
<1>1. ScreenCaps \in Seq(Nat) /\ Len(ScreenCaps) = 3
  BY CapsAssumption
<1>2. ASSUME NEW s \in Seq(Nat), NEW j \in 1..Len(s) PROVE s[j] \in Nat
  OBVIOUS
<1> QED
  BY <1>1, <1>2, SMTT(40)

LEMMA DefaultsGood ==
    ASSUME NEW n \in Nat
    PROVE  DefaultScreens(n) \in Seq(Good(n)) /\ DefaultScreens(n) # <<>>
<1> DEFINE cap(j) == Lesser(ScreenCaps[j], n)
           home == [start |-> 0, end |-> cap(1)]
           trending == [start |-> 0, end |-> cap(2)]
           midcap == [start |-> cap(2), end |-> cap(3)]
           one == IF cap(1) > 0 THEN <<home>> ELSE <<>>
           two == IF cap(2) > cap(1) THEN <<trending>> ELSE <<>>
           three == IF cap(3) > cap(2) THEN <<midcap>> ELSE <<>>
           kept == one \o two \o three
           all == [start |-> 0, end |-> n]
<1>1. /\ ScreenCaps[1] \in Nat /\ ScreenCaps[2] \in Nat /\ ScreenCaps[3] \in Nat
  BY CapTypes
<1>2. cap(1) \in 0..n /\ cap(2) \in 0..n /\ cap(3) \in 0..n
  BY <1>1 DEF Lesser
<1>3. DefaultScreens(n) = IF kept = <<>> THEN <<all>> ELSE kept
  BY DEF DefaultScreens
<1> HIDE DEF cap
<1>4. all \in Good(n)
  BY DEF Good, Screen
<1>5. cap(1) > 0 => home \in Good(n)
  BY <1>2 DEF Good, Screen
<1>6. cap(2) > cap(1) => trending \in Good(n)
  BY <1>2 DEF Good, Screen
<1>7. cap(3) > cap(2) => midcap \in Good(n)
  BY <1>2 DEF Good, Screen
<1>8. one \in Seq(Good(n)) /\ two \in Seq(Good(n)) /\ three \in Seq(Good(n))
  <2> HIDE DEF home, trending, midcap
  <2> QED
    BY <1>5, <1>6, <1>7
<1> HIDE DEF one, two, three, all
<1>9. kept \in Seq(Good(n)) /\ <<all>> \in Seq(Good(n)) /\ <<all>> # <<>>
  BY <1>4, <1>8
<1> QED
  BY <1>3, <1>9

\* One turn of the loop over the entries: from the ranges kept to the next ones.
Turn(entries, n, j, before) ==
    IF entries[j].form = "ok" /\ entries[j].first < RangeOf(entries[j], n).end
    THEN Append(before, RangeOf(entries[j], n)) ELSE before

LEMMA TurnGood ==
    ASSUME NEW n \in Nat, NEW entries \in Seq(Entry), NEW j \in 1..Len(entries),
           NEW before \in Seq(Good(n))
    PROVE  Turn(entries, n, j, before) \in Seq(Good(n))
<1> DEFINE e == entries[j]
           r == RangeOf(e, n)
<1>1. e.first \in Nat /\ e.last \in Int
  <2>1. e \in Entry
    OBVIOUS
  <2> QED
    BY <2>1 DEF Entry
<1>2. CASE e.form = "ok" /\ e.first < r.end
  <2>1. r = [start |-> e.first, end |-> Lesser(e.last + 1, n)]
    BY DEF RangeOf
  <2>2. Lesser(e.last + 1, n) \in Int /\ Lesser(e.last + 1, n) <= n
    BY <1>1 DEF Lesser
  <2>3. r \in Good(n)
    <3> DEFINE last == Lesser(e.last + 1, n)
               from == e.first
    <3>1. from \in Nat /\ last \in Int /\ last <= n /\ from < last
      BY <1>1, <1>2, <2>1, <2>2
    <3>2. r = [start |-> from, end |-> last]
      BY <2>1
    <3> HIDE DEF from, last, r
    <3>3. last \in Nat
      BY <3>1
    <3> QED
      BY <3>1, <3>2, <3>3 DEF Good, Screen
  <2>4. Turn(entries, n, j, before) = Append(before, r)
    BY <1>2 DEF Turn
  <2> HIDE DEF r
  <2> QED
    BY <2>3, <2>4
<1>3. CASE ~(e.form = "ok" /\ e.first < r.end)
  BY <1>3 DEF Turn
<1> QED
  BY <1>2, <1>3

\* The loop is well defined: some function does what it says.
LEMMA LoopExists ==
    ASSUME NEW n \in Nat, NEW entries \in Seq(Entry)
    PROVE  \E f : f = [j \in 0..Len(entries) |->
                          IF j = 0 THEN <<>> ELSE Turn(entries, n, j, f[j - 1])]
<1> DEFINE L == Len(entries)
           Does(f, m) == \A j \in 1..m : f[j] = Turn(entries, n, j, f[j - 1])
           T == {m \in Nat : \E f : f[0] = <<>> /\ DOMAIN f = 0..m /\ Does(f, m)}
<1>1. 0 \in T
  <2> DEFINE f == [j \in 0..0 |-> <<>>]
  <2>1. f[0] = <<>> /\ DOMAIN f = 0..0 /\ Does(f, 0)
    OBVIOUS
  <2> QED
    BY <2>1
<1>2. ASSUME NEW m \in Nat, m \in T PROVE m + 1 \in T
  <2>1. PICK f : f[0] = <<>> /\ DOMAIN f = 0..m /\ Does(f, m)
    BY <1>2
  <2> DEFINE g == [j \in 0..(m + 1) |-> IF j <= m THEN f[j] ELSE Turn(entries, n, j, f[j - 1])]
  <2>2. DOMAIN g = 0..(m + 1) /\ \A j \in 0..m : g[j] = f[j]
    OBVIOUS
  <2>3. g[m + 1] = Turn(entries, n, m + 1, f[(m + 1) - 1])
    OBVIOUS
  <2> HIDE DEF g
  <2>4. g[0] = <<>>
    BY <2>1, <2>2
  <2>5. ASSUME NEW j \in 1..(m + 1) PROVE g[j] = Turn(entries, n, j, g[j - 1])
    <3>1. CASE j \in 1..m
      <4>1. j - 1 \in 0..m /\ j \in 0..m
        BY <3>1
      <4> QED
        BY <2>1, <2>2, <3>1, <4>1
    <3>2. CASE j = m + 1
      <4>1. (m + 1) - 1 \in 0..m
        OBVIOUS
      <4> QED
        BY <2>2, <2>3, <3>2, <4>1
    <3> QED
      BY <3>1, <3>2
  <2> QED
    BY <2>2, <2>4, <2>5
<1> HIDE DEF T
<1>3. L \in T
  <2>1. Nat \subseteq T
    BY <1>1, <1>2, SetInduction
  <2> QED
    BY <2>1
<1>4. PICK f : f[0] = <<>> /\ DOMAIN f = 0..L /\ Does(f, L)
  BY <1>3 DEF T
<1> DEFINE h == [j \in 0..L |-> IF j = 0 THEN <<>> ELSE Turn(entries, n, j, f[j - 1])]
<1>5. \A j \in 0..L : h[j] = IF j = 0 THEN <<>> ELSE Turn(entries, n, j, f[j - 1])
  OBVIOUS
<1>6. DOMAIN h = 0..L
  OBVIOUS
<1> HIDE DEF h
<1>7. \A j \in 0..L : h[j] = f[j]
  <2> SUFFICES ASSUME NEW j \in 0..L PROVE h[j] = f[j]
    OBVIOUS
  <2>1. j = 0 \/ j \in 1..L
    OBVIOUS
  <2> QED
    BY <1>4, <1>5, <2>1
<1>8. \A j \in 1..L : j - 1 \in 0..L
  OBVIOUS
<1>9. h = [j \in 0..L |-> IF j = 0 THEN <<>> ELSE Turn(entries, n, j, h[j - 1])]
  <2>1. \A j \in 0..L : (IF j = 0 THEN <<>> ELSE Turn(entries, n, j, f[j - 1]))
                      = (IF j = 0 THEN <<>> ELSE Turn(entries, n, j, h[j - 1]))
    <3> SUFFICES ASSUME NEW j \in 0..L, j # 0
                 PROVE  Turn(entries, n, j, f[j - 1]) = Turn(entries, n, j, h[j - 1])
      OBVIOUS
    <3>1. j \in 1..L
      OBVIOUS
    <3> QED
      BY <1>7, <1>8, <3>1
  <2> QED
    BY <2>1 DEF h
<1> QED
  BY <1>9

LEMMA KeptGood ==
    ASSUME NEW n \in Nat, NEW entries \in Seq(Entry)
    PROVE  Kept(entries, n) \in Seq(Good(n))
<1> DEFINE L == Len(entries)
           Is(f) == f = [j \in 0..L |-> IF j = 0 THEN <<>> ELSE Turn(entries, n, j, f[j - 1])]
           kept == CHOOSE f : Is(f)
<1>1. Kept(entries, n) = kept[L]
  BY DEF Kept, Turn
<1>2. Is(kept)
  BY LoopExists
<1> HIDE DEF kept
<1>3. kept[0] = <<>> /\ \A j \in 1..L : kept[j] = Turn(entries, n, j, kept[j - 1])
  <2>1. \A j \in 0..L : kept[j] = IF j = 0 THEN <<>> ELSE Turn(entries, n, j, kept[j - 1])
    BY <1>2
  <2>2. 0 \in 0..L /\ \A j \in 1..L : j \in 0..L /\ j # 0
    OBVIOUS
  <2> QED
    BY <2>1, <2>2
<1> DEFINE T == {m \in Nat : m <= L => kept[m] \in Seq(Good(n))}
<1>4. 0 \in T
  <2>1. <<>> \in Seq(Good(n))
    OBVIOUS
  <2>2. kept[0] \in Seq(Good(n))
    BY <1>3, <2>1
  <2> QED
    BY <2>2
<1>5. ASSUME NEW m \in Nat, m \in T PROVE m + 1 \in T
  <2> SUFFICES ASSUME m + 1 <= L PROVE kept[m + 1] \in Seq(Good(n))
    OBVIOUS
  <2>1. m + 1 \in 1..L /\ (m + 1) - 1 = m /\ kept[m] \in Seq(Good(n))
    BY <1>5
  <2>2. kept[m + 1] = Turn(entries, n, m + 1, kept[m])
    BY <1>3, <2>1
  <2> QED
    BY <2>1, <2>2, TurnGood
<1> HIDE DEF T
<1>6. Nat \subseteq T
  BY <1>4, <1>5, SetInduction
<1>7. kept[L] \in Seq(Good(n))
  <2>1. L \in T
    BY <1>6
  <2> QED
    BY <2>1 DEF T
<1> QED
  BY <1>1, <1>7

\* Whatever it is told, ParseScreens leaves ranges that a user can start on.
LEMMA ParseScreensGood ==
    ASSUME NEW n \in Nat, NEW entries \in Seq(Entry)
    PROVE  ParseScreens(entries, n) \in Seq(Good(n)) /\ ParseScreens(entries, n) # <<>>
BY KeptGood, DefaultsGood DEF ParseScreens

-----------------------------------------------------------------------------
(* Startup: the inductive invariant *)

FlagsInv ==
    /\ flags \in FlagTypes
    /\ Lesser(flags.algoUsers, flags.users) > 0 => Lesser(flags.algoUsers, flags.users) \in Totals
    /\ phase \notin {"flags", "exit"} => flags.algoUsers <= flags.users

\* The loop over a list ends behind the last entry, or behind one that is well
\* formed.
Ended ==
    pc \in {"fix", "done"} =>
        i > Len(spec.parts) \/ \E j \in 1..(i - 1) : spec.parts[j].form = "ok"

CutPart ==
    /\ CutInv /\ Begun /\ Ended
    /\ phase \in {"flags", "screens", "ticks"} => spec = flags.ticks /\ total = flags.symbols
    /\ phase = "tiers" => spec = flags.tiers /\ total = flags.algoUsers

\* A finished table of a list for n items.
Table(cut, list, n) ==
    /\ cut \in Seq(Class) /\ InOrder(cut)
    /\ \A a \in 1..Len(cut) : cut[a].end <= n
    /\ cut # <<>> => \A item \in 0..(n - 1) : \E a \in 1..Len(cut) : item \in ClassRange(cut[a])
    /\ n > 0 /\ HasEntry(list) => cut # <<>>

TablesInv ==
    /\ phase \in {"tiers", "launch", "user", "running"} =>
            Table(tickClasses, flags.ticks, flags.symbols)
    /\ phase \in {"launch", "user", "running"} =>
            IF flags.algoUsers > 0 THEN Table(classes, flags.tiers, flags.algoUsers)
            ELSE classes = <<>>

\* No user is looked at yet.
Blank ==
    /\ step = "screen" /\ fromScreen = <<>> /\ zipfPicked = <<>> /\ rng = 0 /\ maxTries = 0
    /\ visibleIdx = <<>> /\ notVisible = {}

UserInv ==
    /\ cfg \in Config /\ cfg.symbols = flags.symbols
    /\ phase \notin {"flags", "screens", "exit"} =>
            cfg.screens \in Seq(Good(cfg.symbols)) /\ cfg.screens # <<>>
    /\ phase \notin {"user", "running"} => Blank
    /\ phase = "user" => BuildInv /\ step # "built"
    /\ phase = "running" => Blank \/ (BuildInv /\ step = "built")

Phases == {"flags", "screens", "ticks", "tiers", "launch", "user", "running", "exit"}

StartInv == phase \in Phases /\ FlagsInv /\ CutPart /\ TablesInv /\ UserInv

LEMMA EndedStep == CutInv /\ Ended /\ [Next]_vars => Ended'
<1> SUFFICES ASSUME CutInv, Ended, [Next]_vars PROVE Ended'
  OBVIOUS
<1>1. i \in Nat
  BY DEF CutInv, TypeOK
<1>2. CASE SkipBlank \/ Reject
  BY <1>2 DEF SkipBlank, Reject, Ended
<1>3. CASE Cut
  <2>1. i \in 1..(i' - 1) /\ spec' = spec /\ spec.parts[i].form = "ok"
    <3>1. i' = i + 1 /\ spec' = spec /\ spec.parts[i].form = "ok" /\ i \in 1..(Len(spec.parts) + 1)
      BY <1>3 DEF Cut, part, CutInv, TypeOK
    <3> QED
      BY <1>1, <3>1
  <2> QED
    BY <2>1 DEF Ended
<1>4. CASE EndLoop
  BY <1>4 DEF EndLoop, Ended
<1>5. CASE FixUp \/ UNCHANGED vars
  BY <1>5 DEF FixUp, vars, Ended
<1> QED
  BY <1>2, <1>3, <1>4, <1>5 DEF Next

\* A new list starts like the first one.
LEMMA CutAtStart == Init => CutInv /\ Begun /\ Ended
<1> SUFFICES ASSUME Init PROVE CutInv /\ Begun /\ Ended
  OBVIOUS
<1>1. 1..(i - 1) = {}
  BY DEF Init
<1>2. Begun /\ Ended
  BY <1>1 DEF Init, Begun, Ended
<1> QED
  BY <1>2, InitCutInv

LEMMA CutRestarts == Init' => (CutInv /\ Begun /\ Ended)'
BY CutAtStart, PTL

\* When a list is cut, its table is complete.
LEMMA CutDone ==
    ASSUME CutInv, Begun, Ended, pc = "done"
    PROVE  Table(classes, spec, total)
<1>1. classes \in Seq(Class) /\ InOrder(classes) /\ \A a \in 1..Len(classes) : classes[a].end <= total
  BY DEF CutInv, TypeOK, Apart, InOrder
<1>2. classes # <<>> => \A item \in 0..(total - 1) :
            \E a \in 1..Len(classes) : item \in ClassRange(classes[a])
  BY DEF CutInv, Covered
<1>3. ASSUME total > 0, HasEntry(spec) PROVE classes # <<>>
  <2>1. PICK j \in 1..Len(spec.parts) : spec.parts[j].form = "ok"
    BY <1>3 DEF HasEntry
  <2>2. i \in 1..(Len(spec.parts) + 1) /\ Len(spec.parts) \in Nat
    BY InputTypes DEF CutInv, TypeOK
  <2>3. \E m \in 1..(i - 1) : spec.parts[m].form = "ok"
    <3>1. CASE i > Len(spec.parts)
      <4>1. j \in 1..(i - 1)
        BY <2>2, <3>1
      <4> QED
        BY <2>1, <4>1
    <3>2. CASE ~(i > Len(spec.parts))
      BY <3>2 DEF Ended
    <3> QED
      BY <3>1, <3>2
  <2> QED
    BY <1>3, <2>3 DEF Begun
<1> QED
  BY <1>1, <1>2, <1>3 DEF Table

\* What ParseScreens left is what buildVisible needs.
LEMMA GoodUsable ==
    ASSUME cfg \in Config, cfg.screens \in Seq(Good(cfg.symbols)), cfg.screens # <<>>
    PROVE  Usable(cfg)
<1>1. \A j \in 1..Len(cfg.screens) : cfg.screens[j] \in Good(cfg.symbols)
  OBVIOUS
<1> QED
  BY <1>1 DEF Usable, Good

LEMMA BlankBuild ==
    ASSUME cfg \in Config, Usable(cfg), Blank
    PROVE  BuildInv
BY DEF Blank, BuildInv, BuildTypeOK

LEMMA InitStartInv == StartInit => StartInv
<1> SUFFICES ASSUME StartInit PROVE StartInv
  OBVIOUS
<1>1. phase \in Phases /\ FlagsInv
  BY FlagsAssumption DEF StartInit, Phases, FlagsInv
<1>2. /\ flags.ticks \in Specs /\ flags.symbols \in Totals /\ flags.symbols \in Nat
      /\ flags.visibleK \in Nat
  BY <1>1, NumbersAssumption DEF FlagsInv, FlagTypes
<1>3. Init
  BY <1>2 DEF StartInit, Init
<1>4. CutPart
  BY <1>3, CutAtStart DEF StartInit, CutPart
<1>5. TablesInv
  BY DEF StartInit, TablesInv
<1>6. Blank
  BY DEF StartInit, Blank
<1>7. cfg \in Config /\ cfg.symbols = flags.symbols
  <2>1. cfg = [symbols |-> flags.symbols, visibleK |-> flags.visibleK, screens |-> <<>>, uid |-> 0]
    BY DEF StartInit
  <2>2. <<>> \in Seq(Screen)
    OBVIOUS
  <2> QED
    BY <1>2, <2>1, <2>2 DEF Config
<1>8. UserInv
  BY <1>6, <1>7 DEF StartInit, UserInv
<1> QED
  BY <1>1, <1>4, <1>5, <1>8 DEF StartInv

LEMMA SameCut ==
    ASSUME CutInv, Begun, Ended, UNCHANGED vars
    PROVE  CutInv' /\ Begun' /\ Ended'
BY NextCutInv, BegunStep, EndedStep

\* A step before the user is looked at that leaves its variables alone.
LEMMA SameBlank ==
    ASSUME UserInv, UNCHANGED buildVars, flags'.symbols = flags.symbols,
           phase \notin {"user", "running"}, phase' # "user",
           phase \in {"flags", "screens", "exit"} => phase' \in {"flags", "screens", "exit"}
    PROVE  UserInv'
<1>1. UNCHANGED <<cfg, step, fromScreen, zipfPicked, rng, maxTries, visibleIdx, notVisible>>
  BY DEF buildVars
<1>2. Blank'
  BY <1>1 DEF UserInv, Blank
<1> QED
  BY <1>1, <1>2 DEF UserInv

LEMMA CheckFlagsInv ==
    ASSUME StartInv, CheckFlags
    PROVE  StartInv'
<1>1. /\ phase = "flags" /\ phase' \in {"screens", "exit"}
      /\ UNCHANGED vars /\ UNCHANGED buildVars
      /\ (phase' = "screens" /\ flags' = [flags EXCEPT !.algoUsers = Lesser(flags.algoUsers, flags.users)])
          \/ (phase' = "exit" /\ flags' = flags)
  BY DEF CheckFlags
<1>2. flags \in FlagTypes /\ flags.algoUsers \in Int /\ flags.users \in Int
  BY DEF StartInv, FlagsInv, FlagTypes
<1> DEFINE least == Lesser(flags.algoUsers, flags.users)
<1>3. least \in Int /\ least <= flags.users /\ Lesser(least, flags.users) = least
  BY <1>2 DEF Lesser
<1>4. /\ flags' \in FlagTypes /\ flags'.users = flags.users
      /\ flags'.ticks = flags.ticks /\ flags'.symbols = flags.symbols
      /\ (phase' = "screens" /\ flags'.algoUsers = least) \/ (phase' = "exit" /\ flags' = flags)
  <2>1. CASE phase' = "screens" /\ flags' = [flags EXCEPT !.algoUsers = least]
    <3> HIDE DEF least
    <3> QED
      BY <1>2, <1>3, <2>1 DEF FlagTypes
  <2>2. CASE phase' = "exit" /\ flags' = flags
    BY <1>2, <2>2
  <2> QED
    BY <1>1, <2>1, <2>2
<1>5. FlagsInv'
  <2>1. least > 0 => least \in Totals
    BY DEF StartInv, FlagsInv
  <2>2. CASE phase' = "screens" /\ flags'.algoUsers = least
    <3>1. Lesser(flags'.algoUsers, flags'.users) = least /\ flags'.algoUsers <= flags'.users
      BY <1>3, <1>4, <2>2
    <3> HIDE DEF least
    <3> QED
      BY <1>4, <2>1, <3>1 DEF FlagsInv
  <2>3. CASE phase' = "exit" /\ flags' = flags
    BY <1>4, <2>1, <2>3 DEF FlagsInv
  <2> QED
    BY <1>4, <2>2, <2>3
<1>6. CutPart'
  <2>1. CutInv' /\ Begun' /\ Ended'
    BY <1>1, SameCut DEF StartInv, CutPart
  <2>2. spec' = spec /\ total' = total
    BY <1>1 DEF vars
  <2> QED
    BY <1>1, <1>4, <2>1, <2>2 DEF StartInv, CutPart
<1>7. TablesInv'
  BY <1>1 DEF TablesInv
<1>8. UserInv'
  BY <1>1, <1>4, SameBlank DEF StartInv
<1> QED
  BY <1>1, <1>5, <1>6, <1>7, <1>8 DEF StartInv, Phases

LEMMA GetScreensInv ==
    ASSUME StartInv, GetScreens
    PROVE  StartInv'
<1>1. /\ phase = "screens" /\ UNCHANGED vars /\ UNCHANGED flags
      /\ UNCHANGED <<step, fromScreen, zipfPicked, rng, maxTries, visibleIdx, notVisible>>
      /\ (phase' = "exit" /\ UNCHANGED cfg)
          \/ (phase' = "ticks"
              /\ cfg' = [cfg EXCEPT !.screens = ParseScreens(flags.screens, flags.symbols)])
  BY DEF GetScreens
<1>2. /\ cfg \in Config /\ cfg.symbols = flags.symbols /\ flags.symbols \in Nat /\ Blank
      /\ flags.screens \in Seq(Entry)
  BY <1>1, NumbersAssumption DEF StartInv, UserInv, FlagsInv, FlagTypes
<1>3. FlagsInv'
  BY <1>1 DEF StartInv, FlagsInv
<1>4. CutPart'
  <2>1. CutInv' /\ Begun' /\ Ended'
    BY <1>1, SameCut DEF StartInv, CutPart
  <2>2. spec' = spec /\ total' = total
    BY <1>1 DEF vars
  <2> QED
    BY <1>1, <2>1, <2>2 DEF StartInv, CutPart
<1>5. TablesInv'
  BY <1>1 DEF TablesInv
<1>6. Blank'
  BY <1>1, <1>2 DEF Blank
<1>7. UserInv'
  <2>1. CASE phase' = "exit" /\ UNCHANGED cfg
    BY <1>1, <1>2, <1>6, <2>1 DEF UserInv
  <2>2. CASE phase' = "ticks" /\ cfg' = [cfg EXCEPT !.screens = ParseScreens(flags.screens, flags.symbols)]
    <3> DEFINE parsed == ParseScreens(flags.screens, flags.symbols)
    <3>1. parsed \in Seq(Good(cfg.symbols)) /\ parsed # <<>>
      BY <1>2, ParseScreensGood
    <3> HIDE DEF parsed
    <3>2. \A t : t \in Seq(Good(cfg.symbols)) => t \in Seq(Screen)
      <4>1. Good(cfg.symbols) \subseteq Screen
        BY DEF Good
      <4> QED
        BY <4>1, SeqMonotonic
    <3>3. parsed \in Seq(Screen)
      BY <3>1, <3>2
    <3>4. cfg' \in Config /\ cfg'.symbols = cfg.symbols /\ cfg'.screens = parsed
      BY <1>2, <2>2, <3>3 DEF Config, parsed
    <3> QED
      BY <1>1, <1>2, <1>6, <2>2, <3>1, <3>4 DEF UserInv
  <2> QED
    BY <1>1, <2>1, <2>2
<1> QED
  BY <1>1, <1>3, <1>4, <1>5, <1>7 DEF StartInv, Phases

LEMMA CutStepInv ==
    ASSUME StartInv, CutStep
    PROVE  StartInv'
<1>1. /\ phase \in {"ticks", "tiers"} /\ Next
      /\ UNCHANGED buildVars /\ UNCHANGED <<flags, phase, tickClasses>>
  BY DEF CutStep
<1>2. CutInv' /\ Begun' /\ Ended'
  BY <1>1, NextCutInv, BegunStep, EndedStep DEF StartInv, CutPart
<1>3. spec' = spec /\ total' = total
  BY <1>1 DEF Next, SkipBlank, Reject, Cut, EndLoop, FixUp
<1>4. FlagsInv'
  BY <1>1 DEF StartInv, FlagsInv
<1>5. CutPart'
  BY <1>1, <1>2, <1>3 DEF StartInv, CutPart
<1>6. TablesInv'
  BY <1>1 DEF StartInv, TablesInv
<1>7. UserInv'
  BY <1>1, SameBlank DEF StartInv
<1> QED
  BY <1>1, <1>4, <1>5, <1>6, <1>7 DEF StartInv

LEMMA TicksParsedInv ==
    ASSUME StartInv, TicksParsed
    PROVE  StartInv'
<1>1. /\ phase = "ticks" /\ pc = "done" /\ tickClasses' = classes
      /\ UNCHANGED buildVars /\ UNCHANGED flags
      /\ pc' = "loop" /\ i' = 1 /\ cursor' = 0 /\ classes' = <<>>
      /\ (flags.algoUsers > 0 /\ phase' = "tiers" /\ spec' = flags.tiers /\ total' = flags.algoUsers)
          \/ (~(flags.algoUsers > 0) /\ phase' = "launch" /\ UNCHANGED <<spec, total>>)
  BY DEF TicksParsed
<1>2. /\ CutInv /\ Begun /\ Ended /\ spec = flags.ticks /\ total = flags.symbols
      /\ spec \in Specs /\ total \in Totals
  BY <1>1 DEF StartInv, CutPart, CutInv, TypeOK
<1>3. flags.tiers \in Specs /\ (flags.algoUsers > 0 => flags.algoUsers \in Totals)
  <2>1. /\ flags.tiers \in Specs /\ flags.algoUsers \in Int /\ flags.users \in Int
        /\ flags.algoUsers <= flags.users
    BY <1>1 DEF StartInv, FlagsInv, FlagTypes
  <2>2. Lesser(flags.algoUsers, flags.users) = flags.algoUsers
    BY <2>1 DEF Lesser
  <2> QED
    BY <2>1, <2>2 DEF StartInv, FlagsInv
<1>4. Init'
  BY <1>1, <1>2, <1>3 DEF Init
<1>5. CutPart'
  BY <1>1, <1>4, CutRestarts DEF CutPart
<1>6. TablesInv'
  <2>1. Table(tickClasses', flags'.ticks, flags'.symbols)
    BY <1>1, <1>2, CutDone
  <2>2. phase' \in {"launch", "user", "running"} => ~(flags'.algoUsers > 0) /\ classes' = <<>>
    BY <1>1
  <2> QED
    BY <2>1, <2>2 DEF TablesInv
<1>7. FlagsInv' /\ phase' \in Phases
  BY <1>1 DEF StartInv, FlagsInv, Phases
<1>8. UserInv'
  BY <1>1, SameBlank DEF StartInv
<1> QED
  BY <1>5, <1>6, <1>7, <1>8 DEF StartInv

LEMMA ParsedInv ==
    ASSUME StartInv, TiersParsed \/ ParseFails
    PROVE  StartInv'
<1>1. /\ phase \in {"ticks", "tiers"} /\ phase' \in {"launch", "exit"}
      /\ phase' = "launch" => phase = "tiers" /\ pc = "done"
      /\ UNCHANGED vars /\ UNCHANGED buildVars /\ UNCHANGED <<flags, tickClasses>>
  BY DEF TiersParsed, ParseFails
<1>2. UNCHANGED <<spec, total, pc, i, cursor, classes>>
  BY <1>1 DEF vars
<1>3. CutInv' /\ Begun' /\ Ended'
  BY <1>1, SameCut DEF StartInv, CutPart
<1>4. CutPart'
  BY <1>1, <1>3 DEF CutPart
<1>5. TablesInv'
  <2>1. CASE phase' = "exit"
    BY <2>1 DEF TablesInv
  <2>2. CASE phase' = "launch"
    <3>1. Table(classes, flags.tiers, flags.algoUsers) /\ Table(tickClasses, flags.ticks, flags.symbols)
      BY <1>1, <2>2, CutDone DEF StartInv, CutPart, TablesInv
    <3>2. flags.algoUsers > 0 \/ classes = <<>>
      <4>1. total = flags.algoUsers /\ total \in Nat /\ classes \in Seq(Class) /\ Apart
        BY <1>1, <2>2, InputTypes DEF StartInv, CutPart, CutInv, TypeOK
      <4>2. ASSUME total = 0 PROVE classes = <<>>
        <5>1. CASE Len(classes) = 0
          BY <4>1, <5>1
        <5>2. CASE Len(classes) # 0
          <6>1. 1 \in 1..Len(classes)
            BY <4>1, <5>2
          <6>2. classes[1].start \in Nat /\ classes[1].end \in Nat
            BY <4>1, <6>1, ClassAt
          <6>3. classes[1].start < classes[1].end /\ classes[1].end <= total
            BY <4>1, <6>1 DEF Apart
          <6> QED
            BY <4>2, <6>2, <6>3
        <5> QED
          BY <5>1, <5>2
      <4> QED
        BY <4>1, <4>2
    <3> QED
      BY <1>1, <1>2, <3>1, <3>2 DEF TablesInv
  <2> QED
    BY <1>1, <2>1, <2>2
<1>6. FlagsInv' /\ phase' \in Phases
  BY <1>1 DEF StartInv, FlagsInv, Phases
<1>7. UserInv'
  BY <1>1, SameBlank DEF StartInv
<1> QED
  BY <1>4, <1>5, <1>6, <1>7 DEF StartInv

LEMMA LaunchInv ==
    ASSUME StartInv, Launch
    PROVE  StartInv'
<1>1. /\ phase = "launch" /\ UNCHANGED vars /\ UNCHANGED <<flags, tickClasses>>
      /\ UNCHANGED <<step, fromScreen, zipfPicked, rng, maxTries, visibleIdx, notVisible>>
      /\ (phase' = "user" /\ \E uid \in MyUsers : cfg' = [cfg EXCEPT !.uid = uid])
          \/ (phase' \in {"running", "exit"} /\ UNCHANGED cfg)
  BY DEF Launch
<1>2. /\ cfg \in Config /\ cfg.symbols = flags.symbols /\ Blank
      /\ cfg.screens \in Seq(Good(cfg.symbols)) /\ cfg.screens # <<>>
  BY <1>1 DEF StartInv, UserInv
<1>3. CutPart'
  <2>1. CutInv' /\ Begun' /\ Ended'
    BY <1>1, SameCut DEF StartInv, CutPart
  <2> QED
    BY <1>1, <2>1 DEF CutPart
<1>4. TablesInv'
  <2>1. classes' = classes
    BY <1>1 DEF vars
  <2> QED
    BY <1>1, <2>1 DEF StartInv, TablesInv
<1>5. FlagsInv' /\ phase' \in Phases
  BY <1>1 DEF StartInv, FlagsInv, Phases
<1>6. Blank'
  BY <1>1, <1>2 DEF Blank
<1>7. UserInv'
  <2>1. CASE phase' \in {"running", "exit"} /\ UNCHANGED cfg
    BY <1>1, <1>2, <1>6, <2>1 DEF UserInv
  <2>2. CASE phase' = "user" /\ \E uid \in MyUsers : cfg' = [cfg EXCEPT !.uid = uid]
    <3>1. PICK uid \in MyUsers : cfg' = [cfg EXCEPT !.uid = uid]
      BY <2>2
    <3>2. uid \in Nat
      <4>1. flags.shardID \in Nat
        BY DEF StartInv, FlagsInv, FlagTypes
      <4> QED
        BY <4>1 DEF MyUsers, ShardIndices
    <3>3. cfg' \in Config /\ cfg'.symbols = cfg.symbols /\ cfg'.screens = cfg.screens
      BY <1>2, <3>1, <3>2 DEF Config
    <3>4. BuildInv'
      <4>1. (cfg \in Config)' /\ Usable(cfg)'
        <5>1. \A j \in 1..Len(cfg.screens) : cfg.screens[j] \in Good(cfg.symbols)
          BY <1>2
        <5> QED
          BY <1>2, <3>3, <5>1 DEF Usable, Good, Config, Screen
      <4> QED
        BY <1>6, <4>1 DEF Blank, BuildInv, BuildTypeOK
    <3> QED
      BY <1>1, <1>2, <1>6, <2>2, <3>3, <3>4 DEF UserInv, Blank
  <2> QED
    BY <1>1, <2>1, <2>2
<1> QED
  BY <1>3, <1>4, <1>5, <1>7 DEF StartInv

LEMMA UserStepInv ==
    ASSUME StartInv, UserStep
    PROVE  StartInv'
<1>1. /\ phase = "user" /\ BuildNext /\ UNCHANGED vars /\ UNCHANGED <<flags, tickClasses>>
      /\ phase' = IF step' = "built" THEN "running" ELSE "user"
  BY DEF UserStep
<1>2. cfg' = cfg
  BY <1>1 DEF BuildNext, PickScreen, Draw, Fill, Sampled, Assemble, Built
<1>3. BuildInv'
  BY <1>1, BuildStepInv DEF StartInv, UserInv
<1>4. CutPart'
  <2>1. CutInv' /\ Begun' /\ Ended'
    BY <1>1, SameCut DEF StartInv, CutPart
  <2> QED
    BY <1>1, <2>1 DEF CutPart
<1>5. TablesInv'
  <2>1. classes' = classes
    BY <1>1 DEF vars
  <2> QED
    BY <1>1, <2>1 DEF StartInv, TablesInv
<1>6. FlagsInv' /\ phase' \in Phases
  BY <1>1 DEF StartInv, FlagsInv, Phases
<1>7. UserInv'
  BY <1>1, <1>2, <1>3 DEF StartInv, UserInv
<1> QED
  BY <1>4, <1>5, <1>6, <1>7 DEF StartInv

LEMMA StutterStartInv ==
    ASSUME StartInv, UNCHANGED startVars
    PROVE  StartInv'
<1>1. UNCHANGED vars /\ UNCHANGED buildVars /\ UNCHANGED <<flags, phase, tickClasses>>
  BY DEF startVars
<1>2. /\ UNCHANGED <<cfg, step, fromScreen, zipfPicked, rng, maxTries, visibleIdx, notVisible>>
      /\ UNCHANGED <<spec, total, pc, i, cursor, classes>>
  BY <1>1 DEF buildVars, vars
<1>3. CutPart'
  <2>1. CutInv' /\ Begun' /\ Ended'
    BY <1>1, SameCut DEF StartInv, CutPart
  <2> QED
    BY <1>1, <1>2, <2>1 DEF StartInv, CutPart
<1>4. TablesInv' /\ FlagsInv' /\ phase' \in Phases
  BY <1>1, <1>2 DEF StartInv, TablesInv, FlagsInv
<1>5. UserInv'
  <2>1. BuildInv => BuildInv'
    BY <1>1, BuildStepInv
  <2> QED
    BY <1>1, <1>2, <2>1 DEF StartInv, UserInv, Blank
<1> QED
  BY <1>3, <1>4, <1>5 DEF StartInv

LEMMA StartInvariant == StartSpec => []StartInv
<1>1. StartInv /\ [StartNext]_startVars => StartInv'
  BY CheckFlagsInv, GetScreensInv, CutStepInv, TicksParsedInv, ParsedInv, LaunchInv,
     UserStepInv, StutterStartInv DEF StartNext
<1> QED
  BY <1>1, InitStartInv, PTL DEF StartSpec

-----------------------------------------------------------------------------
(* Startup: theorems *)

\* Every user finds a screen to start on, and a range that exists, whatever
\* --screens says and however many symbols there are (partition.go:119-191).
THEOREM ScreensUsableHolds == StartSpec => []ScreensUsable
<1>1. StartInv => ScreensUsable
  <2> SUFFICES ASSUME StartInv, phase \notin {"flags", "screens", "exit"}
               PROVE  /\ cfg.screens # <<>>
                      /\ \A s \in Range(cfg.screens) :
                          /\ s.start <= s.end /\ s.end <= cfg.symbols
                          /\ cfg.symbols > 0 => s.start < s.end
    BY DEF ScreensUsable
  <2>1. cfg.screens \in Seq(Good(cfg.symbols)) /\ cfg.screens # <<>>
    BY DEF StartInv, UserInv
  <2>2. \A s \in Range(cfg.screens) : s \in Good(cfg.symbols)
    BY <2>1 DEF Range
  <2> QED
    BY <2>1, <2>2 DEF Good
<1> QED
  BY <1>1, StartInvariant, PTL

\* In the composed program too, the tables that are cut give every item one
\* owner, and the user that is built has its slots and the rest in its pool.
THEOREM StartupParts == StartSpec => [](SingleOwner /\ SlotsAndRest)
<1>1. StartInv => SingleOwner
  BY SingleOwnerInv DEF StartInv, CutPart
<1>2. StartInv => SlotsAndRest
  <2> SUFFICES ASSUME StartInv, step = "built" PROVE SlotsAndRest
    BY DEF SlotsAndRest
  <2>1. BuildInv
    BY DEF StartInv, UserInv, Blank
  <2> QED
    BY <2>1, SlotsInv
<1> QED
  BY <1>1, <1>2, StartInvariant, PTL

\* An item that a table covers has one publisher, and any other has none.
LEMMA PublishersOf ==
    ASSUME flags \in FlagTypes, NEW cut, NEW list, NEW n \in Nat, Table(cut, list, n),
           NEW item \in Nat
    PROVE  /\ item < n /\ HasEntry(list) => Cardinality(Publishers(cut, item)) = 1
           /\ ~(item < n) => Cardinality(Publishers(cut, item)) = 0
<1> DEFINE K == flags.shardCount
<1>1. K \in Nat \ {0}
  BY NumbersAssumption DEF FlagTypes
<1>2. Publishers(cut, item) = OwnersIn(cut, item, K)
  BY DEF Publishers, OwnersIn
<1> HIDE DEF K
<1>3. cut \in Seq(Class) /\ InOrder(cut)
  BY DEF Table
<1>4. ASSUME item < n, HasEntry(list)
      PROVE  Cardinality(Publishers(cut, item)) = 1
  <2>1. n > 0 /\ item \in 0..(n - 1)
    BY <1>4
  <2>2. PICK a \in 1..Len(cut) : item \in ClassRange(cut[a])
    BY <1>4, <2>1 DEF Table
  <2>3. PICK o : OwnersIn(cut, item, K) = {o}
    BY <1>1, <1>3, <2>2, OneOwner
  <2> QED
    BY <1>2, <2>3, FS_Singleton
<1>5. ASSUME ~(item < n)
      PROVE  Cardinality(Publishers(cut, item)) = 0
  <2>1. ASSUME NEW p \in OwnersIn(cut, item, K) PROVE FALSE
    <3>1. p[1] \in 1..Len(cut) /\ p[2] \in 0..(K - 1) /\ item \in Owned(cut[p[1]], p[2], K)
      BY <2>1 DEF OwnersIn
    <3>2. cut[p[1]] \in Class /\ cut[p[1]].end \in Nat /\ cut[p[1]].end <= n
      BY <1>3, <3>1, ClassAt DEF Table
    <3>3. item \in ClassRange(cut[p[1]])
      BY <1>1, <3>1, <3>2, OwnedPartition DEF Class
    <3> QED
      BY <1>5, <3>2, <3>3 DEF ClassRange
  <2>2. OwnersIn(cut, item, K) = {}
    BY <2>1
  <2> QED
    BY <1>2, <2>2, FS_EmptySet
<1> QED
  BY <1>4, <1>5

\* What a user watches is published, and once, for every command line, every
\* list of percentages and any number of shards: the tick classes, the clamp of
\* --algo-users with the tiers, and buildVisible agree, although they never meet
\* at run time (partition.go, main.go:126-160, user.go:272-317).
THEOREM EveryFeedPublishedHolds == StartSpec => []EveryFeedPublished
<1>1. StartInv => EveryFeedPublished
  <2> SUFFICES ASSUME StartInv, phase = "running" PROVE EveryFeedPublished
    BY DEF EveryFeedPublished
  <2>1. /\ flags \in FlagTypes /\ flags.symbols \in Nat /\ flags.algoUsers \in Int
        /\ flags.users \in Int /\ flags.algoUsers <= flags.users /\ flags.shardID \in Nat
    BY NumbersAssumption DEF StartInv, FlagsInv, FlagTypes
  <2>2. Table(tickClasses, flags.ticks, flags.symbols)
    BY DEF StartInv, TablesInv
  <2>3. IF flags.algoUsers > 0 THEN Table(classes, flags.tiers, flags.algoUsers)
        ELSE classes = <<>>
    BY DEF StartInv, TablesInv
  <2>4. ASSUME NEW symbol \in Range(visibleIdx)
        PROVE  symbol \in Nat /\ symbol < flags.symbols
    <3>1. cfg.symbols = flags.symbols
      BY DEF StartInv, UserInv
    <3>2. BuildInv /\ step = "built"
      <4>1. CASE Blank
        BY <2>4, <4>1 DEF Blank, Range
      <4>2. CASE BuildInv /\ step = "built"
        BY <4>2
      <4> QED
        BY <4>1, <4>2 DEF StartInv, UserInv
    <3>3. visibleIdx \in Seq(AllSymbols)
      BY <3>2 DEF BuildInv, SlotsPart
    <3>4. symbol \in AllSymbols
      BY <3>3 DEF Range
    <3> QED
      BY <2>1, <3>1, <3>4 DEF AllSymbols
  <2>5. HasEntry(flags.ticks) => \A symbol \in Range(visibleIdx) :
            Cardinality(Publishers(tickClasses, symbol)) = 1
    BY <2>1, <2>2, <2>4, PublishersOf
  <2>6. HasEntry(flags.tiers) => \A uid \in MyUsers :
            Cardinality(Publishers(classes, uid)) = IF uid < flags.algoUsers THEN 1 ELSE 0
    <3> SUFFICES ASSUME HasEntry(flags.tiers), NEW uid \in MyUsers
                 PROVE  Cardinality(Publishers(classes, uid)) = IF uid < flags.algoUsers THEN 1 ELSE 0
      OBVIOUS
    <3>1. uid \in Nat
      BY <2>1 DEF MyUsers, ShardIndices
    <3>2. CASE flags.algoUsers > 0
      <4>1. flags.algoUsers \in Nat /\ Table(classes, flags.tiers, flags.algoUsers)
        BY <2>1, <2>3, <3>2
      <4> QED
        BY <2>1, <3>1, <4>1, PublishersOf
    <3>3. CASE ~(flags.algoUsers > 0)
      <4>1. ~(uid < flags.algoUsers)
        BY <2>1, <3>1, <3>3
      <4>2. classes = <<>> /\ 1..Len(classes) = {}
        BY <2>3, <3>3
      <4>3. Publishers(classes, uid) = {}
        BY <4>2 DEF Publishers
      <4> QED
        BY <4>1, <4>3, FS_EmptySet
    <3> QED
      BY <3>2, <3>3
  <2>7. \A tier \in 1..Len(classes) : ClassRange(classes[tier]) \subseteq 0..(flags.users - 1)
    <3> SUFFICES ASSUME NEW tier \in 1..Len(classes)
                 PROVE  ClassRange(classes[tier]) \subseteq 0..(flags.users - 1)
      OBVIOUS
    <3>1. CASE flags.algoUsers > 0
      <4>1. /\ classes \in Seq(Class) /\ classes[tier].end <= flags.algoUsers
        BY <2>3, <3>1 DEF Table
      <4>2. classes[tier].start \in Nat /\ classes[tier].end \in Nat
        BY <4>1, ClassAt
      <4> QED
        BY <2>1, <4>1, <4>2 DEF ClassRange
    <3>2. CASE ~(flags.algoUsers > 0)
      BY <2>3, <3>2
    <3> QED
      BY <3>1, <3>2
  <2> QED
    BY <2>5, <2>6, <2>7 DEF EveryFeedPublished
<1> QED
  BY <1>1, StartInvariant, PTL
=============================================================================
