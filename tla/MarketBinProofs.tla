-------------------------- MODULE MarketBinProofs ---------------------------
(***************************************************************************)
(* Proofs about MarketBin, for any number of symbols, any --conns and any  *)
(* batch sizes: what the two printed counts are worth, and that nothing is *)
(* received twice.  The invariant BInv relates the shared counters to the  *)
(* local ones at every moment.  For ReceivedOnce a tick is the step that   *)
(* matters: its frames go to disjoint stripes, so they add no more to all  *)
(* that is under way than they are (TallySpread).                          *)
(***************************************************************************)
EXTENDS MarketBin, TallyProofs

\* A goroutine that has not started or has returned has nothing counted locally;
\* those whose Write failed have returned.
Returned ==
    /\ \A c \in Pubs : ppc[c] \in {"dial", "done"} => pubLocal[c] = 0
    /\ \A c \in failed : ppc[c] = "done"
    /\ \A t \in Subs : spc[t] \in {"dial", "subscribe", "done"} => subLocal[t] = 0

\* One result per subscriber that has returned.
ResultsSent == latCh = Cardinality({t \in Subs : spc[t] = "done"})

\* What was written is in published and the local counts, less what was lost
\* with a failed Write or counted before one.
WrittenBalance ==
    LET counted == published + Tally(pubLocal)
    IN  /\ wrote - counted <= (PubBatch - 1) * Cardinality(failed)
        /\ counted - wrote <= PerTick * Cardinality(failed)

\* What was read is in received and the local counts.
ReadBalance == received + Tally(subLocal) = handled

\* A count is printed when all goroutines have returned.
Reported ==
    /\ pubReport # -1 => pubReport = published /\ \A c \in Pubs : ppc[c] = "done"
    /\ subReport # -1 => subReport = received /\ \A t \in Subs : spc[t] = "done"

BInv ==
    /\ TypeOK /\ Returned /\ ResultsSent
    /\ WrittenBalance /\ ReadBalance /\ ReceivedOnce /\ Reported

-----------------------------------------------------------------------------
(* The connections *)

LEMMA ConnsTypes ==
    ASSUME NEW flag \in ConnFlags
    PROVE  NumConns(flag) \in Nat \ {0}
BY FlagsAssumption, SymbolsAssumption DEF NumConns

LEMMA Goroutines ==
    ASSUME TypeOK
    PROVE  /\ IsFiniteSet(Pubs) /\ IsFiniteSet(Subs)
           /\ Cardinality(Subs) \in Nat
<1>1. NumConns(pubFlag) \in Nat \ {0} /\ NumConns(subFlag) \in Nat \ {0}
  BY ConnsTypes DEF TypeOK
<1>2. IsFiniteSet(0..(NumConns(pubFlag) - 1)) /\ IsFiniteSet(0..(NumConns(subFlag) - 1))
  <2>1. NumConns(pubFlag) - 1 \in Int /\ NumConns(subFlag) - 1 \in Int /\ 0 \in Int
    BY <1>1
  <2> QED
    BY <2>1, FS_Interval
<1> QED
  BY <1>2, FS_CardinalityType DEF Pubs, Subs

LEMMA SameConns ==
    ASSUME UNCHANGED flags
    PROVE  Pubs' = Pubs /\ Subs' = Subs /\ pubFlag' = pubFlag /\ subFlag' = subFlag
BY DEF flags, Pubs, Subs, NumConns

\* The local counts can be added up.
LEMMA LocalTypes ==
    ASSUME TypeOK
    PROVE  /\ pubLocal \in [Pubs -> Nat] /\ subLocal \in [Subs -> Nat] /\ inFlight \in [Subs -> Nat]
           /\ Tally(pubLocal) \in Nat /\ Tally(subLocal) \in Nat /\ Tally(inFlight) \in Nat
<1>1. pubLocal \in [Pubs -> Nat] /\ subLocal \in [Subs -> Nat] /\ inFlight \in [Subs -> Nat]
  BY BatchAssumption DEF TypeOK
<1> QED
  BY <1>1, Goroutines, UnitsFinite

LEMMA FailedTypes ==
    ASSUME TypeOK
    PROVE  IsFiniteSet(failed) /\ Cardinality(failed) \in Nat
BY Goroutines, FS_Subset, FS_CardinalityType DEF TypeOK

LEMMA InitBInv == Init => BInv
<1> SUFFICES ASSUME Init PROVE BInv
  OBVIOUS
<1> USE BatchAssumption
<1>1. NumConns(subFlag) \in Nat \ {0}
  BY ConnsTypes DEF Init
<1>2. IsFiniteSet(Subs)
  <2>1. NumConns(subFlag) - 1 \in Int /\ 0 \in Int
    BY <1>1
  <2>2. IsFiniteSet(0..(NumConns(subFlag) - 1))
    BY <2>1, FS_Interval
  <2> QED
    BY <2>2 DEF Subs
<1>3. Cardinality(Subs) \in Nat
  BY <1>2, FS_CardinalityType
<1>4. TypeOK
  <2>1. 0 \in 0..(PubBatch - 1) /\ 0 \in 0..(SubBatch - 1) /\ 0 \in 0..Cardinality(Subs)
    BY <1>3
  <2>2. pubLocal \in [Pubs -> 0..(PubBatch - 1)] /\ subLocal \in [Subs -> 0..(SubBatch - 1)]
    BY <2>1 DEF Init
  <2>3. ppc \in [Pubs -> {"dial", "test", "wait", "final", "done"}]
        /\ spc \in [Subs -> {"dial", "subscribe", "read", "await", "done"}]
    BY DEF Init
  <2>4. subUp \in [Subs -> BOOLEAN] /\ stopCh \in [Subs -> BOOLEAN] /\ inFlight \in [Subs -> Nat]
    BY DEF Init
  <2> QED
    BY <2>1, <2>2, <2>3, <2>4 DEF Init, TypeOK
<1>5. Tally(pubLocal) = 0 /\ Tally(subLocal) = 0 /\ Tally(inFlight) = 0
  <2>1. /\ pubLocal \in [Pubs -> Nat] /\ \A c \in Pubs : pubLocal[c] = 0
        /\ subLocal \in [Subs -> Nat] /\ \A t \in Subs : subLocal[t] = 0
        /\ inFlight \in [Subs -> Nat] /\ \A t \in Subs : inFlight[t] = 0
    BY DEF Init
  <2> QED
    BY <2>1, TallyZero
<1>6. Cardinality(failed) = 0
  BY FS_EmptySet DEF Init
<1>7. Returned /\ Reported
  BY DEF Init, Returned, Reported
<1>8. ResultsSent
  <2>1. {t \in Subs : spc[t] = "done"} = {}
    BY DEF Init
  <2> QED
    BY <2>1, FS_EmptySet DEF Init, ResultsSent
<1>9. WrittenBalance /\ ReadBalance /\ ReceivedOnce
  BY <1>5, <1>6 DEF Init, WrittenBalance, ReadBalance, ReceivedOnce
<1> QED
  BY <1>4, <1>7, <1>8, <1>9 DEF BInv

-----------------------------------------------------------------------------
(* market-sim-bin *)

\* What a tick puts on its way is no more than its frames: the stripes of the
\* subscriber do not overlap.
LEMMA FanOutSpread ==
    ASSUME TypeOK, NEW n \in Nat, NEW f, DOMAIN f = 1..n, FanOut(f)
    PROVE  inFlight' \in [Subs -> Nat] /\ Tally(inFlight') <= Tally(inFlight) + n
<1> DEFINE conns == NumConns(subFlag)
<1>1. PICK lose \in SUBSET (DOMAIN f) :
        inFlight' = [t \in Subs |->
            inFlight[t] + IF Subscribed(t)
                          THEN Cardinality({k \in DOMAIN f \ lose : f[k] \in Partition(t, conns)})
                          ELSE 0]
  BY DEF FanOut
<1> DEFINE share(t) == {k \in DOMAIN f \ lose : f[k] \in Partition(t, conns)}
           own == [t \in Subs |-> IF Subscribed(t) THEN share(t) ELSE {}]
<1>2. inFlight \in [Subs -> Nat] /\ IsFiniteSet(Subs)
  BY LocalTypes, Goroutines
<1>3. IsFiniteSet(1..n) /\ Cardinality(1..n) = n
  <2>1. 1 \in Int /\ n \in Int
    OBVIOUS
  <2> QED
    BY <2>1, FS_Interval
<1>4. own \in [Subs -> SUBSET (1..n)]
  OBVIOUS
<1>5. ASSUME NEW t \in Subs, NEW u \in Subs, t # u
      PROVE  own[t] \cap own[u] = {}
  <2>1. ASSUME NEW j, j \in own[t], j \in own[u] PROVE FALSE
    <3>1. j \in share(t) /\ j \in share(u)
      BY <2>1
    <3>2. f[j] \in Partition(t, conns) /\ f[j] \in Partition(u, conns)
      BY <3>1
    <3>3. f[j] % conns = t /\ f[j] % conns = u
      BY <3>2, Zenon DEF Partition
    <3> QED
      BY <1>5, <3>3, Zenon
  <2> HIDE DEF own
  <2> QED
    BY <2>1
<1>6. ASSUME NEW t \in Subs
      PROVE  /\ inFlight'[t] = inFlight[t] + Cardinality(own[t])
             /\ Cardinality(own[t]) \in Nat
  <2>1. Cardinality({}) = 0
    BY FS_EmptySet
  <2>2. inFlight'[t] = inFlight[t] + IF Subscribed(t) THEN Cardinality(share(t)) ELSE 0
    BY <1>1
  <2>3. own[t] = IF Subscribed(t) THEN share(t) ELSE {}
    OBVIOUS
  <2>4. own[t] \in SUBSET (1..n)
    BY <1>4
  <2>5. Cardinality(own[t]) \in Nat
    BY <1>3, <2>4, FS_Subset, FS_CardinalityType
  <2> HIDE DEF share, own
  <2> QED
    BY <2>1, <2>2, <2>3, <2>5
<1>7. DOMAIN inFlight' = Subs /\ inFlight' = [t \in Subs |-> inFlight'[t]]
  BY <1>1
<1> HIDE DEF own
<1>8. inFlight' \in [Subs -> Nat]
  BY <1>2, <1>6, <1>7
<1>9. \A t \in Subs : inFlight'[t] <= inFlight[t] + Cardinality(own[t])
  BY <1>2, <1>6, <1>8
<1>10. Tally(inFlight') <= Tally(inFlight) + Cardinality(1..n)
  BY <1>2, <1>3, <1>4, <1>5, <1>8, <1>9, TallySpread
<1> QED
  BY <1>3, <1>8, <1>10

\* A step of the publishing process that sends nothing to the other one.
LEMMA PubOnly ==
    ASSUME BInv, UNCHANGED <<flags, subVars, inFlight>>, wrote' >= wrote, wrote' \in Nat
    PROVE  /\ pubFlag' \in ConnFlags /\ subFlag' \in ConnFlags
           /\ ResultsSent' /\ ReadBalance' /\ ReceivedOnce'
<1>1. /\ Pubs' = Pubs /\ Subs' = Subs /\ pubFlag' = pubFlag /\ subFlag' = subFlag
      /\ UNCHANGED <<subStop, spc, subUp, subLocal, stopCh, received, latCh, handled, subReport, inFlight>>
  BY SameConns DEF subVars
<1>2. pubFlag' \in ConnFlags /\ subFlag' \in ConnFlags /\ wrote \in Nat /\ handled \in Nat
  BY <1>1 DEF BInv, TypeOK
<1>3. ResultsSent' /\ ReadBalance'
  BY <1>1 DEF BInv, ResultsSent, ReadBalance
<1>4. ReceivedOnce'
  <2>1. Tally(inFlight) \in Nat /\ Tally(inFlight') = Tally(inFlight)
    BY <1>1, LocalTypes DEF BInv
  <2> QED
    BY <1>1, <1>2, <2>1 DEF BInv, ReceivedOnce
<1> QED
  BY <1>2, <1>3, <1>4

\* What one goroutine adds to the shared and to its local count together is what
\* all of them have counted more.
LEMMA CountedMore ==
    ASSUME TypeOK, NEW c \in Pubs, NEW d \in Int,
           pubLocal' \in [Pubs -> Nat], published' \in Nat,
           \A e \in Pubs : e # c => pubLocal'[e] = pubLocal[e],
           published' + pubLocal'[c] = published + pubLocal[c] + d
    PROVE  /\ Tally(pubLocal') \in Nat
           /\ published' + Tally(pubLocal') = published + Tally(pubLocal) + d
<1>1. pubLocal \in [Pubs -> Nat] /\ IsFiniteSet(Pubs) /\ published \in Nat
  BY LocalTypes, Goroutines DEF TypeOK
<1>2. Tally(pubLocal') + pubLocal[c] = Tally(pubLocal) + pubLocal'[c]
  BY <1>1, TallyUpdate
<1>3. Tally(pubLocal) \in Nat /\ Tally(pubLocal') \in Nat
  BY <1>1, UnitsFinite
<1> DEFINE l == pubLocal[c]
           l1 == pubLocal'[c]
           p1 == published'
           t == Tally(pubLocal)
           t1 == Tally(pubLocal')
<1>4. /\ l \in Nat /\ l1 \in Nat /\ p1 \in Nat /\ t \in Nat /\ t1 \in Nat
      /\ t1 + l = t + l1 /\ p1 + l1 = published + l + d
  BY <1>1, <1>2, <1>3
<1> HIDE DEF l, l1, p1, t, t1
<1>5. p1 + t1 = published + t + d
  BY <1>1, <1>4
<1> QED
  BY <1>4, <1>5 DEF p1, t, t1

\* What a failed tick adds, if its rest is dropped.
LEMMA TickLessRest ==
    ASSUME NEW p \in Nat, NEW p1 \in Nat, NEW l \in Nat, NEW r \in Nat, NEW k \in Nat,
           p1 + r = p + l + k
    PROVE  k - r \in Int /\ p1 + 0 = p + l + (k - r)
OBVIOUS

\* PubDial, PubTest, PubFinal: one goroutine goes on, and the rest may be added.
LEMMA PubLoopBInv ==
    ASSUME BInv, NEW c \in Pubs, PubDial(c) \/ PubTest(c) \/ PubFinal(c)
    PROVE  BInv'
<1>0. /\ TypeOK /\ ppc \in [Pubs -> {"dial", "test", "wait", "final", "done"}]
      /\ pubLocal \in [Pubs -> 0..(PubBatch - 1)] /\ published \in Nat /\ wrote \in Nat
      /\ failed \in SUBSET Pubs /\ PubBatch \in Nat \ {0}
  BY BatchAssumption DEF BInv, TypeOK
<1>1. UNCHANGED <<flags, subVars, inFlight, pubStop, failed, wrote, pubReport>>
  BY DEF PubDial, PubTest, PubFinal
<1>2. /\ pubFlag' \in ConnFlags /\ subFlag' \in ConnFlags
      /\ ResultsSent' /\ ReadBalance' /\ ReceivedOnce'
  BY <1>0, <1>1, PubOnly
<1>3. /\ Pubs' = Pubs /\ Subs' = Subs /\ pubFlag' = pubFlag /\ subFlag' = subFlag
      /\ UNCHANGED <<subStop, spc, subUp, subLocal, stopCh, received, latCh, handled, subReport, inFlight>>
  BY <1>1, SameConns DEF subVars
<1>4. /\ ppc' \in [Pubs -> {"dial", "test", "wait", "final", "done"}]
      /\ ppc[c] # "done" /\ \A d \in Pubs : d # c => ppc'[d] = ppc[d]
  BY <1>0 DEF PubDial, PubTest, PubFinal, PubAt
<1>5. /\ pubLocal' \in [Pubs -> 0..(PubBatch - 1)] /\ published' \in Nat
      /\ \A d \in Pubs : d # c => pubLocal'[d] = pubLocal[d]
      /\ published' + pubLocal'[c] = published + pubLocal[c]
      /\ ppc'[c] \in {"dial", "done"} => pubLocal'[c] = 0
  <2>1. CASE PubDial(c) \/ PubTest(c)
    <3>1. UNCHANGED <<pubLocal, published>>
      BY <2>1 DEF PubDial, PubTest
    <3>2. ppc'[c] \in {"dial", "done"} => ppc[c] = "dial"
      BY <1>0, <2>1 DEF PubDial, PubTest, PubAt
    <3>3. ppc[c] = "dial" => pubLocal[c] = 0
      BY DEF BInv, Returned
    <3> QED
      BY <1>0, <3>1, <3>2, <3>3
  <2>2. CASE PubFinal(c)
    <3>1. published' = published + pubLocal[c] /\ pubLocal' = [pubLocal EXCEPT ![c] = 0] /\ ppc[c] = "final"
      BY <2>2 DEF PubFinal, PubAt
    <3>2. pubLocal[c] \in Nat
      BY <1>0
    <3> QED
      BY <1>0, <3>1, <3>2
  <2> QED
    BY <2>1, <2>2
<1>6. TypeOK'
  BY <1>0, <1>1, <1>2, <1>3, <1>4, <1>5 DEF BInv, TypeOK
<1>7. Returned'
  <2>1. ASSUME NEW d \in Pubs, ppc'[d] \in {"dial", "done"} PROVE pubLocal'[d] = 0
    BY <1>0, <1>4, <1>5, <2>1 DEF BInv, Returned
  <2>2. \A d \in failed : ppc'[d] = "done"
    BY <1>0, <1>4 DEF BInv, Returned
  <2>3. \A t \in Subs : spc[t] \in {"dial", "subscribe", "done"} => subLocal[t] = 0
    BY DEF BInv, Returned
  <2> QED
    BY <1>1, <1>3, <2>1, <2>2, <2>3 DEF Returned
<1>8. WrittenBalance'
  <2>1. pubLocal' \in [Pubs -> Nat] /\ published' + pubLocal'[c] = published + pubLocal[c] + 0
    BY <1>0, <1>5
  <2>2. published' + Tally(pubLocal') = published + Tally(pubLocal) + 0
    BY <1>0, <1>5, <2>1, CountedMore
  <2>3. published + Tally(pubLocal) \in Nat
    BY <1>0, LocalTypes
  <2> QED
    BY <1>1, <2>2, <2>3 DEF BInv, WrittenBalance
<1>9. Reported'
  <2>1. pubReport = -1
    BY <1>4 DEF BInv, Reported
  <2> QED
    BY <1>1, <1>3, <2>1 DEF BInv, Reported
<1> QED
  BY <1>2, <1>6, <1>7, <1>8, <1>9 DEF BInv

\* main of market-sim-bin.
LEMMA PubMainBInv ==
    ASSUME BInv, PubSetStop \/ PubReport
    PROVE  BInv'
<1>0. TypeOK /\ published \in Nat /\ wrote \in Nat
  BY DEF BInv, TypeOK
<1>1. UNCHANGED <<flags, subVars, inFlight, ppc, pubLocal, published, failed, wrote>>
  BY DEF PubSetStop, PubReport
<1>2. /\ pubFlag' \in ConnFlags /\ subFlag' \in ConnFlags
      /\ ResultsSent' /\ ReadBalance' /\ ReceivedOnce'
  BY <1>0, <1>1, PubOnly
<1>3. /\ Pubs' = Pubs /\ Subs' = Subs /\ pubFlag' = pubFlag /\ subFlag' = subFlag
      /\ UNCHANGED <<subStop, spc, subUp, subLocal, stopCh, received, latCh, handled, subReport, inFlight>>
  BY <1>1, SameConns DEF subVars
<1>4. /\ pubStop' \in BOOLEAN /\ pubReport' \in Nat \cup {-1}
      /\ pubReport' # -1 => pubReport' = published /\ \A c \in Pubs : ppc[c] = "done"
  <2>1. CASE PubSetStop
    BY <2>1 DEF PubSetStop, BInv, TypeOK, Reported
  <2>2. CASE PubReport
    BY <1>0, <2>2 DEF PubReport, TypeOK
  <2> QED
    BY <2>1, <2>2
<1>5. TypeOK'
  BY <1>0, <1>1, <1>2, <1>3, <1>4 DEF TypeOK
<1>6. Returned' /\ WrittenBalance' /\ Reported'
  BY <1>1, <1>3, <1>4 DEF BInv, Returned, WrittenBalance, Reported
<1> QED
  BY <1>2, <1>5, <1>6 DEF BInv

\* What Encode moves to published and what Rest leaves are all that was counted.
LEMMA BatchSplit ==
    ASSUME NEW a \in Nat, NEW b \in Nat \ {0}
    PROVE  /\ (a \div b) \in Nat /\ (a % b) \in 0..(b - 1)
           /\ b * (a \div b) + (a % b) = a
<1>1. (a \div b) \in Nat /\ (a % b) \in 0..(b - 1)
  BY Z3
<1>2. b * (a \div b) + (a % b) = a
  BY Z3
<1> QED
  BY <1>1, <1>2

\* A tick's frames are counted in published and in what Rest would keep.
LEMMA EncodeCount ==
    ASSUME TypeOK, NEW c \in Pubs, NEW f, Encode(c, f)
    PROVE  /\ published' \in Nat /\ Rest(c) \in 0..(PubBatch - 1)
           /\ published' + Rest(c) = published + pubLocal[c] + PerTick
           /\ ppc[c] = "wait"
<1>1. pubLocal[c] \in Nat /\ PerTick \in Nat \ {0} /\ PubBatch \in Nat \ {0} /\ published \in Nat
  BY BatchAssumption DEF TypeOK
<1> DEFINE a == pubLocal[c] + PerTick
           q == a \div PubBatch
           r == a % PubBatch
<1>2. a \in Nat
  BY <1>1
<1> HIDE DEF a
<1>3. q \in Nat /\ r \in 0..(PubBatch - 1) /\ PubBatch * q + r = a
  BY <1>1, <1>2, BatchSplit
<1>4. published' = published + PubBatch * q /\ Rest(c) = r /\ ppc[c] = "wait"
  BY DEF Encode, Rest, a
<1> HIDE DEF q, r
<1>5. PubBatch * q \in Nat /\ r \in Nat
  BY <1>1, <1>3
<1> QED
  BY <1>1, <1>2, <1>3, <1>4, <1>5 DEF a

\* A step that puts at most n messages on their way and has written n.
LEMMA SendKeeps ==
    ASSUME BInv, UNCHANGED <<flags, subVars>>, NEW n \in Nat, NEW f, DOMAIN f = 1..n, FanOut(f),
           wrote' = wrote + n
    PROVE  /\ pubFlag' \in ConnFlags /\ subFlag' \in ConnFlags
           /\ inFlight' \in [Subs -> Nat] /\ wrote' \in Nat
           /\ ResultsSent' /\ ReadBalance' /\ ReceivedOnce'
<1>0. TypeOK /\ wrote \in Nat /\ handled \in Nat
  BY DEF BInv, TypeOK
<1>1. /\ Pubs' = Pubs /\ Subs' = Subs /\ pubFlag' = pubFlag /\ subFlag' = subFlag
      /\ UNCHANGED <<subStop, spc, subUp, subLocal, stopCh, received, latCh, handled, subReport>>
  BY SameConns DEF subVars
<1>2. inFlight' \in [Subs -> Nat] /\ Tally(inFlight') <= Tally(inFlight) + n
  BY <1>0, FanOutSpread
<1>3. Tally(inFlight) \in Nat /\ Tally(inFlight') \in Nat
  BY <1>0, <1>2, LocalTypes, Goroutines, UnitsFinite
<1>4. ReceivedOnce'
  <2>1. handled + Tally(inFlight) <= wrote /\ handled' = handled
    BY <1>1 DEF BInv, ReceivedOnce
  <2>2. handled' + Tally(inFlight') <= wrote'
    BY <1>0, <1>2, <1>3, <2>1
  <2> QED
    BY <2>2 DEF ReceivedOnce
<1>5. ResultsSent' /\ ReadBalance'
  BY <1>1 DEF BInv, ResultsSent, ReadBalance
<1>6. pubFlag' \in ConnFlags /\ subFlag' \in ConnFlags
  BY <1>0, <1>1 DEF TypeOK
<1> QED
  BY <1>0, <1>2, <1>4, <1>5, <1>6

LEMMA WriteOKBInv ==
    ASSUME BInv, NEW c \in Pubs, WriteOK(c)
    PROVE  BInv'
<1>0. /\ TypeOK /\ ppc \in [Pubs -> {"dial", "test", "wait", "final", "done"}]
      /\ pubLocal \in [Pubs -> 0..(PubBatch - 1)] /\ published \in Nat /\ wrote \in Nat
      /\ failed \in SUBSET Pubs /\ PubBatch \in Nat \ {0} /\ PerTick \in Nat
  BY BatchAssumption DEF BInv, TypeOK
<1>1. PICK f \in [1..PerTick -> Partition(c, NumConns(pubFlag))] : Encode(c, f) /\ FanOut(f)
  BY DEF WriteOK
<1>2. /\ UNCHANGED <<flags, subVars, pubStop, failed, pubReport>>
      /\ pubLocal' = [pubLocal EXCEPT ![c] = Rest(c)] /\ wrote' = wrote + PerTick
      /\ ppc' = [ppc EXCEPT ![c] = "test"]
  BY DEF WriteOK
<1>3. /\ pubFlag' \in ConnFlags /\ subFlag' \in ConnFlags
      /\ inFlight' \in [Subs -> Nat] /\ wrote' \in Nat
      /\ ResultsSent' /\ ReadBalance' /\ ReceivedOnce'
  <2>1. DOMAIN f = 1..PerTick
    BY <1>1
  <2> QED
    BY <1>0, <1>1, <1>2, <2>1, SendKeeps
<1>4. /\ Pubs' = Pubs /\ Subs' = Subs /\ pubFlag' = pubFlag /\ subFlag' = subFlag
      /\ UNCHANGED <<subStop, spc, subUp, subLocal, stopCh, received, latCh, handled, subReport>>
  BY <1>2, SameConns DEF subVars
<1>5. /\ published' \in Nat /\ Rest(c) \in 0..(PubBatch - 1)
      /\ published' + Rest(c) = published + pubLocal[c] + PerTick
      /\ ppc[c] = "wait"
  BY <1>0, <1>1, EncodeCount
<1>6. /\ pubLocal' \in [Pubs -> 0..(PubBatch - 1)] /\ pubLocal'[c] = Rest(c)
      /\ \A d \in Pubs : d # c => pubLocal'[d] = pubLocal[d] /\ ppc'[d] = ppc[d]
      /\ ppc' \in [Pubs -> {"dial", "test", "wait", "final", "done"}] /\ ppc'[c] = "test"
  BY <1>0, <1>2, <1>5
<1>7. TypeOK'
  BY <1>0, <1>2, <1>3, <1>4, <1>5, <1>6 DEF TypeOK
<1>8. Returned'
  <2>1. ASSUME NEW d \in Pubs, ppc'[d] \in {"dial", "done"} PROVE pubLocal'[d] = 0
    BY <1>6, <2>1 DEF BInv, Returned
  <2>2. \A d \in failed : ppc'[d] = "done"
    BY <1>0, <1>5, <1>6 DEF BInv, Returned
  <2>3. \A t \in Subs : spc[t] \in {"dial", "subscribe", "done"} => subLocal[t] = 0
    BY DEF BInv, Returned
  <2> QED
    BY <1>2, <1>4, <2>1, <2>2, <2>3 DEF Returned
<1>9. WrittenBalance'
  <2>1. pubLocal' \in [Pubs -> Nat] /\ pubLocal[c] \in Nat /\ Rest(c) \in Nat
    BY <1>0, <1>5, <1>6
  <2>2. published' + pubLocal'[c] = published + pubLocal[c] + PerTick
    BY <1>5, <1>6
  <2>3. \A d \in Pubs : d # c => pubLocal'[d] = pubLocal[d]
    BY <1>6
  <2>4. published' + Tally(pubLocal') = published + Tally(pubLocal) + PerTick
    BY <1>0, <1>5, <2>1, <2>2, <2>3, CountedMore
  <2> DEFINE before == published + Tally(pubLocal)
             after == published' + Tally(pubLocal')
  <2>5. before \in Nat /\ after = before + PerTick
    BY <1>0, <2>4, LocalTypes
  <2> HIDE DEF before, after
  <2>6. wrote' - after = wrote - before /\ after - wrote' = before - wrote
    BY <1>0, <1>2, <2>5
  <2> QED
    BY <1>2, <2>6 DEF BInv, WrittenBalance, before, after
<1>10. Reported'
  <2>1. pubReport = -1
    BY <1>5 DEF BInv, Reported
  <2> QED
    BY <1>2, <1>4, <2>1 DEF BInv, Reported
<1> QED
  BY <1>3, <1>7, <1>8, <1>9, <1>10 DEF BInv

\* A failed Write puts the count off by less than a batch downwards and by at
\* most the frames of a tick upwards.
LEMMA WriteFailedBInv ==
    ASSUME BInv, NEW c \in Pubs, WriteFailed(c)
    PROVE  BInv'
<1>0. /\ TypeOK /\ ppc \in [Pubs -> {"dial", "test", "wait", "final", "done"}]
      /\ pubLocal \in [Pubs -> 0..(PubBatch - 1)] /\ published \in Nat /\ wrote \in Nat
      /\ failed \in SUBSET Pubs /\ PubBatch \in Nat \ {0} /\ PerTick \in Nat
  BY BatchAssumption DEF BInv, TypeOK
<1>1. PICK n \in 0..(PerTick - 1) :
        /\ wrote' = wrote + n
        /\ \E f \in [1..PerTick -> Partition(c, NumConns(pubFlag))] :
            Encode(c, f) /\ FanOut([j \in 1..n |-> f[j]])
  BY DEF WriteFailed
<1>2. PICK f \in [1..PerTick -> Partition(c, NumConns(pubFlag))] :
            Encode(c, f) /\ FanOut([j \in 1..n |-> f[j]])
  BY <1>1
<1>3. /\ UNCHANGED <<flags, subVars, pubStop, pubReport>>
      /\ pubLocal' = [pubLocal EXCEPT ![c] = 0] /\ failed' = failed \cup {c}
      /\ ppc' = [ppc EXCEPT ![c] = "done"]
  BY DEF WriteFailed
<1>4. /\ pubFlag' \in ConnFlags /\ subFlag' \in ConnFlags
      /\ inFlight' \in [Subs -> Nat] /\ wrote' \in Nat
      /\ ResultsSent' /\ ReadBalance' /\ ReceivedOnce'
  <2>1. n \in Nat /\ DOMAIN [j \in 1..n |-> f[j]] = 1..n
    OBVIOUS
  <2> QED
    BY <1>1, <1>2, <1>3, <2>1, SendKeeps
<1>5. /\ Pubs' = Pubs /\ Subs' = Subs /\ pubFlag' = pubFlag /\ subFlag' = subFlag
      /\ UNCHANGED <<subStop, spc, subUp, subLocal, stopCh, received, latCh, handled, subReport>>
  BY <1>3, SameConns DEF subVars
<1>6. /\ published' \in Nat /\ Rest(c) \in 0..(PubBatch - 1)
      /\ published' + Rest(c) = published + pubLocal[c] + PerTick
      /\ ppc[c] = "wait"
  BY <1>0, <1>2, EncodeCount
<1>7. /\ pubLocal' \in [Pubs -> 0..(PubBatch - 1)] /\ pubLocal'[c] = 0
      /\ \A d \in Pubs : d # c => pubLocal'[d] = pubLocal[d] /\ ppc'[d] = ppc[d]
      /\ ppc' \in [Pubs -> {"dial", "test", "wait", "final", "done"}] /\ ppc'[c] = "done"
  BY <1>0, <1>3
<1>8. failed' \in SUBSET Pubs /\ c \notin failed
  BY <1>0, <1>3, <1>6 DEF BInv, Returned
<1>9. TypeOK'
  BY <1>0, <1>3, <1>4, <1>5, <1>6, <1>7, <1>8 DEF TypeOK
<1>10. Returned'
  <2>1. ASSUME NEW d \in Pubs, ppc'[d] \in {"dial", "done"} PROVE pubLocal'[d] = 0
    BY <1>7, <2>1 DEF BInv, Returned
  <2>2. \A d \in failed' : ppc'[d] = "done"
    BY <1>0, <1>3, <1>7 DEF BInv, Returned
  <2>3. \A t \in Subs : spc[t] \in {"dial", "subscribe", "done"} => subLocal[t] = 0
    BY DEF BInv, Returned
  <2> QED
    BY <1>5, <2>1, <2>2, <2>3 DEF Returned
<1>11. WrittenBalance'
  <2>1. pubLocal' \in [Pubs -> Nat] /\ pubLocal[c] \in Nat /\ Rest(c) \in Nat
    BY <1>0, <1>6, <1>7
  <2> DEFINE before == published + Tally(pubLocal)
             after == published' + Tally(pubLocal')
             r == Rest(c)
             m == Cardinality(failed)
             d == PerTick - r
  <2>2. \A e \in Pubs : e # c => pubLocal'[e] = pubLocal[e]
    BY <1>7
  <2>3. after = before + d /\ Tally(pubLocal') \in Nat
    <3>1. d \in Int /\ published' + pubLocal'[c] = published + pubLocal[c] + d
      <4>1. /\ published \in Nat /\ published' \in Nat /\ pubLocal[c] \in Nat
            /\ Rest(c) \in Nat /\ PerTick \in Nat /\ pubLocal'[c] = 0
            /\ published' + Rest(c) = published + pubLocal[c] + PerTick
        BY <1>0, <1>6, <1>7, <2>1
      <4> QED
        BY <4>1, TickLessRest
    <3>2. TypeOK /\ published' \in Nat
      BY <1>0, <1>6
    <3> HIDE DEF d
    <3> QED
      BY <2>1, <2>2, <3>1, <3>2, CountedMore
  <2>4. before \in Nat /\ after \in Nat /\ r \in 0..(PubBatch - 1) /\ after + r = before + PerTick
    <3>1. before \in Nat
      BY <1>0, LocalTypes
    <3>2. published' \in Nat /\ Tally(pubLocal') \in Nat
      BY <1>6, <2>3
    <3>3. after \in Nat
      BY <3>2
    <3> HIDE DEF before, after
    <3> QED
      BY <1>0, <1>6, <2>1, <2>3, <3>1, <3>3, SMTT(40)
  <2>5. m \in Nat /\ Cardinality(failed') = m + 1
    BY <1>0, <1>3, <1>8, FailedTypes, FS_AddElement
  <2>6. wrote - before <= (PubBatch - 1) * m /\ before - wrote <= PerTick * m
    BY DEF BInv, WrittenBalance
  <2> HIDE DEF before, after, r, m, d
  <2>7. (PubBatch - 1) * (m + 1) = (PubBatch - 1) * m + (PubBatch - 1) /\ (PubBatch - 1) * m \in Int
    BY <1>0, <2>5, Z3
  <2>8. PerTick * (m + 1) = PerTick * m + PerTick /\ PerTick * m \in Int
    BY <1>0, <2>5, Z3
  <2>9. n \in Nat /\ n <= PerTick - 1 /\ wrote' = wrote + n
    BY <1>0, <1>1
  <2>10. wrote' - after <= (PubBatch - 1) * (m + 1)
    <3> DEFINE w == (PubBatch - 1) * m
    <3>1. w \in Int /\ wrote - before <= w
      BY <2>6, <2>7
    <3>2. (PubBatch - 1) * (m + 1) = w + (PubBatch - 1)
      BY <2>7
    <3> HIDE DEF w
    <3>3. wrote' - after <= w + (PubBatch - 1)
      BY <1>0, <2>4, <2>9, <3>1
    <3> QED
      BY <3>2, <3>3
  <2>11. after - wrote' <= PerTick * (m + 1)
    <3> DEFINE w == PerTick * m
    <3>1. w \in Int /\ before - wrote <= w
      BY <2>6, <2>8
    <3>2. PerTick * (m + 1) = w + PerTick
      BY <2>8
    <3> HIDE DEF w
    <3>3. after - wrote' <= w + PerTick
      BY <1>0, <2>4, <2>9, <3>1
    <3> QED
      BY <3>2, <3>3
  <2> QED
    BY <2>5, <2>10, <2>11 DEF WrittenBalance, after
<1>12. Reported'
  <2>1. pubReport = -1
    BY <1>6 DEF BInv, Reported
  <2> QED
    BY <1>3, <1>5, <2>1 DEF BInv, Reported
<1> QED
  BY <1>4, <1>9, <1>10, <1>11, <1>12 DEF BInv

-----------------------------------------------------------------------------
(* market-sub-bin *)

\* A step of the subscribing process.
LEMMA SubOnly ==
    ASSUME BInv, UNCHANGED <<flags, pubVars>>
    PROVE  /\ Pubs' = Pubs /\ Subs' = Subs /\ pubFlag' = pubFlag /\ subFlag' = subFlag
           /\ UNCHANGED <<pubStop, ppc, pubLocal, published, failed, wrote, pubReport>>
           /\ WrittenBalance'
<1>1. /\ Pubs' = Pubs /\ Subs' = Subs /\ pubFlag' = pubFlag /\ subFlag' = subFlag
      /\ UNCHANGED <<pubStop, ppc, pubLocal, published, failed, wrote, pubReport>>
  BY SameConns DEF pubVars
<1> QED
  BY <1>1 DEF BInv, WrittenBalance

\* What one goroutine counts more, in received and locally, all of them have
\* read more.
LEMMA ReadMore ==
    ASSUME BInv, NEW t \in Subs, NEW d \in Nat,
           subLocal' \in [Subs -> Nat], received' \in Nat,
           \A u \in Subs : u # t => subLocal'[u] = subLocal[u],
           received' + subLocal'[t] = received + subLocal[t] + d,
           handled' = handled + d
    PROVE  ReadBalance'
<1>1. subLocal \in [Subs -> Nat] /\ IsFiniteSet(Subs) /\ received \in Nat /\ handled \in Nat
  BY LocalTypes, Goroutines DEF BInv, TypeOK
<1>2. Tally(subLocal') + subLocal[t] = Tally(subLocal) + subLocal'[t]
  BY <1>1, TallyUpdate
<1>3. Tally(subLocal) \in Nat /\ Tally(subLocal') \in Nat
  BY <1>1, UnitsFinite
<1>4. received + Tally(subLocal) = handled
  BY DEF BInv, ReadBalance
<1> DEFINE l == subLocal[t]
           l1 == subLocal'[t]
           p1 == received'
           s == Tally(subLocal)
           s1 == Tally(subLocal')
<1>5. /\ l \in Nat /\ l1 \in Nat /\ p1 \in Nat /\ s \in Nat /\ s1 \in Nat
      /\ s1 + l = s + l1 /\ p1 + l1 = received + l + d
  BY <1>1, <1>2, <1>3
<1> HIDE DEF l, l1, p1, s, s1
<1>6. p1 + s1 = received + s + d
  BY <1>1, <1>5
<1>7. received + s = handled
  BY <1>4 DEF s
<1>8. p1 + s1 = handled'
  BY <1>6, <1>7
<1> QED
  BY <1>8 DEF p1, s1, ReadBalance

\* SubDial, SubFrames, ReadFailed, Watch: a goroutine or its watcher goes on, and nothing is
\* counted.
LEMMA SubLoopBInv ==
    ASSUME BInv, NEW t \in Subs, SubDial(t) \/ SubFrames(t) \/ ReadFailed(t) \/ Watch(t)
    PROVE  BInv'
<1>0. /\ TypeOK /\ spc \in [Subs -> {"dial", "subscribe", "read", "await", "done"}] /\ subUp \in [Subs -> BOOLEAN]
      /\ stopCh \in [Subs -> BOOLEAN] /\ IsFiniteSet(Subs) /\ Cardinality(Subs) \in Nat
  BY Goroutines DEF BInv, TypeOK
<1>1. UNCHANGED <<flags, pubVars, inFlight, subStop, subLocal, received, handled, subReport>>
  BY DEF SubDial, SubFrames, ReadFailed, Watch
<1>2. /\ Pubs' = Pubs /\ Subs' = Subs /\ pubFlag' = pubFlag /\ subFlag' = subFlag
      /\ UNCHANGED <<pubStop, ppc, pubLocal, published, failed, wrote, pubReport>>
      /\ WrittenBalance'
  BY <1>1, SubOnly
<1> DEFINE Done == {u \in Subs : spc[u] = "done"}
           Done1 == {u \in Subs : spc'[u] = "done"}
<1>3. /\ spc' \in [Subs -> {"dial", "subscribe", "read", "await", "done"}]
      /\ subUp' \in [Subs -> BOOLEAN] /\ stopCh' \in [Subs -> BOOLEAN]
      /\ spc[t] # "done" /\ \A u \in Subs : u # t => spc'[u] = spc[u]
      /\ spc'[t] \in {"dial", "subscribe", "done"} => spc[t] \in {"dial", "subscribe"}
      /\ (spc'[t] # "done" /\ latCh' = latCh) \/ (spc'[t] = "done" /\ latCh' = latCh + 1)
  <2>1. CASE SubDial(t)
    BY <1>0, <2>1 DEF SubDial, SubAt
  <2>2. CASE ReadFailed(t)
    BY <1>0, <2>2 DEF ReadFailed, SubAt
  <2>3. CASE Watch(t)
    BY <1>0, <2>3 DEF Watch
  <2>4. CASE SubFrames(t)
    BY <1>0, <2>4 DEF SubFrames, SubAt
  <2> QED
    BY <2>1, <2>2, <2>3, <2>4
<1>4. latCh' = Cardinality(Done1) /\ latCh' \in 0..Cardinality(Subs)
  <2>1. latCh = Cardinality(Done) /\ IsFiniteSet(Done)
    BY <1>0, FS_Subset DEF BInv, ResultsSent
  <2>2. CASE spc'[t] # "done" /\ latCh' = latCh
    <3>1. Done1 = Done
      BY <1>3, <2>2
    <3> QED
      BY <1>0, <2>1, <2>2, <3>1 DEF TypeOK
  <2>3. CASE spc'[t] = "done" /\ latCh' = latCh + 1
    <3>1. Done1 = Done \cup {t} /\ t \notin Done
      BY <1>3, <2>3
    <3> HIDE DEF Done, Done1
    <3>2. Cardinality(Done1) = Cardinality(Done) + 1
      BY <2>1, <3>1, FS_AddElement
    <3>3. Done1 \in SUBSET Subs
      BY DEF Done1
    <3>4. Cardinality(Done1) <= Cardinality(Subs) /\ Cardinality(Done) \in Nat
      BY <1>0, <2>1, <3>3, FS_Subset, FS_CardinalityType
    <3> QED
      BY <1>0, <2>1, <2>3, <3>2, <3>4
  <2> QED
    BY <1>3, <2>2, <2>3
<1>5. TypeOK'
  BY <1>0, <1>1, <1>2, <1>3, <1>4 DEF TypeOK
<1>6. Returned'
  <2>1. ASSUME NEW u \in Subs, spc'[u] \in {"dial", "subscribe", "done"} PROVE subLocal[u] = 0
    BY <1>3, <2>1 DEF BInv, Returned
  <2> QED
    BY <1>1, <1>2, <2>1 DEF BInv, Returned
<1>7. ResultsSent'
  BY <1>2, <1>4 DEF ResultsSent
<1>8. ReadBalance' /\ ReceivedOnce'
  BY <1>1, <1>2 DEF BInv, ReadBalance, ReceivedOnce
<1>9. Reported'
  <2>1. subReport = -1
    BY <1>3 DEF BInv, Reported
  <2> QED
    BY <1>1, <1>2, <2>1 DEF BInv, Reported
<1> QED
  BY <1>2, <1>5, <1>6, <1>7, <1>8, <1>9 DEF BInv

LEMMA ReadMsgBInv ==
    ASSUME BInv, NEW t \in Subs, ReadMsg(t)
    PROVE  BInv'
<1>0. /\ TypeOK /\ subLocal \in [Subs -> 0..(SubBatch - 1)] /\ SubBatch \in Nat \ {0}
      /\ inFlight \in [Subs -> Nat] /\ received \in Nat /\ handled \in Nat /\ wrote \in Nat
      /\ IsFiniteSet(Subs)
  BY BatchAssumption, Goroutines DEF BInv, TypeOK
<1>1. /\ UNCHANGED <<flags, pubVars, subStop, spc, subUp, stopCh, latCh, subReport>>
      /\ spc[t] = "read" /\ inFlight[t] > 0 /\ inFlight' = [inFlight EXCEPT ![t] = @ - 1]
      /\ handled' = handled + 1
  BY DEF ReadMsg
<1>2. /\ Pubs' = Pubs /\ Subs' = Subs /\ pubFlag' = pubFlag /\ subFlag' = subFlag
      /\ UNCHANGED <<pubStop, ppc, pubLocal, published, failed, wrote, pubReport>>
      /\ WrittenBalance'
  BY <1>1, SubOnly
<1>3. /\ subLocal' \in [Subs -> 0..(SubBatch - 1)] /\ received' \in Nat
      /\ \A u \in Subs : u # t => subLocal'[u] = subLocal[u]
      /\ received' + subLocal'[t] = received + subLocal[t] + 1
  <2>1. CASE subLocal[t] + 1 = SubBatch
    <3>1. received' = received + SubBatch /\ subLocal' = [subLocal EXCEPT ![t] = 0]
      BY <2>1 DEF ReadMsg
    <3> QED
      BY <1>0, <2>1, <3>1
  <2>2. CASE subLocal[t] + 1 # SubBatch
    <3>1. received' = received /\ subLocal' = [subLocal EXCEPT ![t] = subLocal[t] + 1]
      BY <2>2 DEF ReadMsg
    <3>2. subLocal[t] + 1 \in 0..(SubBatch - 1)
      BY <1>0, <2>2
    <3> QED
      BY <1>0, <3>1, <3>2
  <2> QED
    BY <2>1, <2>2
<1>4. inFlight' \in [Subs -> Nat] /\ inFlight'[t] = inFlight[t] - 1
      /\ \A u \in Subs : u # t => inFlight'[u] = inFlight[u]
  BY <1>0, <1>1
<1>5. TypeOK'
  BY <1>0, <1>1, <1>2, <1>3, <1>4 DEF TypeOK
<1>6. ReadBalance'
  <2>1. subLocal' \in [Subs -> Nat]
    BY <1>0, <1>3
  <2>2. received' \in Nat /\ (\A u \in Subs : u # t => subLocal'[u] = subLocal[u])
        /\ received' + subLocal'[t] = received + subLocal[t] + 1
    BY <1>3
  <2> QED
    BY <1>1, <2>1, <2>2, ReadMore
<1>7. ReceivedOnce'
  <2>1. Tally(inFlight') + inFlight[t] = Tally(inFlight) + inFlight'[t]
    BY <1>0, <1>4, TallyUpdate
  <2>2. Tally(inFlight) \in Nat /\ Tally(inFlight') \in Nat
    BY <1>0, <1>4, UnitsFinite
  <2> DEFINE f == Tally(inFlight)
             f1 == Tally(inFlight')
  <2>3. f1 + 1 = f /\ f \in Nat /\ f1 \in Nat
    <3>1. inFlight[t] \in Nat /\ inFlight'[t] = inFlight[t] - 1
      BY <1>0, <1>4
    <3> QED
      BY <2>1, <2>2, <3>1
  <2>4. handled + f <= wrote
    BY DEF BInv, ReceivedOnce
  <2> HIDE DEF f, f1
  <2>5. handled' + f1 <= wrote'
    BY <1>0, <1>1, <1>2, <2>3, <2>4
  <2> QED
    BY <2>5 DEF ReceivedOnce, f1
<1>8. Returned'
  <2>1. ASSUME NEW u \in Subs, spc[u] \in {"dial", "subscribe", "done"} PROVE subLocal'[u] = 0
    BY <1>1, <1>3, <2>1 DEF BInv, Returned
  <2> QED
    BY <1>1, <1>2, <2>1 DEF BInv, Returned
<1>9. ResultsSent' /\ Reported'
  <2>1. subReport = -1
    BY <1>1 DEF BInv, Reported
  <2> QED
    BY <1>1, <1>2, <2>1 DEF BInv, ResultsSent, Reported
<1> QED
  BY <1>2, <1>5, <1>6, <1>7, <1>8, <1>9 DEF BInv

\* One more goroutine that has returned, and one more result.
LEMMA OneMoreResult ==
    ASSUME BInv, NEW t \in Subs, Subs' = Subs, spc[t] # "done",
           spc' = [spc EXCEPT ![t] = "done"], latCh' = latCh + 1
    PROVE  ResultsSent' /\ latCh' \in 0..Cardinality(Subs)
<1> DEFINE Done == {u \in Subs : spc[u] = "done"}
           Done1 == {u \in Subs : spc'[u] = "done"}
<1>0. /\ spc \in [Subs -> {"dial", "subscribe", "read", "await", "done"}]
      /\ IsFiniteSet(Subs) /\ Cardinality(Subs) \in Nat
  BY Goroutines DEF BInv, TypeOK
<1>1. latCh = Cardinality(Done) /\ IsFiniteSet(Done)
  BY <1>0, FS_Subset DEF BInv, ResultsSent
<1>2. Done1 = Done \cup {t} /\ t \notin Done /\ Done1 \in SUBSET Subs
  BY <1>0
<1> HIDE DEF Done, Done1
<1>3. Cardinality(Done1) = Cardinality(Done) + 1
  BY <1>1, <1>2, FS_AddElement
<1>4. Cardinality(Done1) <= Cardinality(Subs) /\ Cardinality(Done) \in Nat
  BY <1>0, <1>1, <1>2, FS_Subset, FS_CardinalityType
<1>5. latCh' = Cardinality(Done1) /\ latCh' \in 0..Cardinality(Subs)
  BY <1>0, <1>1, <1>3, <1>4
<1> QED
  BY <1>5 DEF ResultsSent, Done1

\* The rest is added, which moves messages from the local count to received.
LEMMA SubFinalBInv ==
    ASSUME BInv, NEW t \in Subs, SubFinal(t)
    PROVE  BInv'
<1>0. /\ TypeOK /\ subLocal \in [Subs -> 0..(SubBatch - 1)] /\ SubBatch \in Nat \ {0}
      /\ spc \in [Subs -> {"dial", "subscribe", "read", "await", "done"}] /\ subUp \in [Subs -> BOOLEAN]
      /\ received \in Nat /\ handled \in Nat
  BY BatchAssumption DEF BInv, TypeOK
<1>1. /\ UNCHANGED <<flags, pubVars, inFlight, subStop, stopCh, handled, subReport>>
      /\ spc[t] = "await" /\ spc' = [spc EXCEPT ![t] = "done"]
      /\ received' = received + subLocal[t] /\ subLocal' = [subLocal EXCEPT ![t] = 0]
      /\ latCh' = latCh + 1 /\ subUp' = [subUp EXCEPT ![t] = FALSE]
  BY DEF SubFinal, SubAt
<1>2. /\ Pubs' = Pubs /\ Subs' = Subs /\ pubFlag' = pubFlag /\ subFlag' = subFlag
      /\ UNCHANGED <<pubStop, ppc, pubLocal, published, failed, wrote, pubReport>>
      /\ WrittenBalance'
  BY <1>1, SubOnly
<1>3. /\ subLocal' \in [Subs -> 0..(SubBatch - 1)] /\ received' \in Nat /\ subLocal'[t] = 0
      /\ \A u \in Subs : u # t => subLocal'[u] = subLocal[u]
      /\ received' + subLocal'[t] = received + subLocal[t] + 0
  <2>1. subLocal[t] \in Nat /\ 0 \in 0..(SubBatch - 1)
    BY <1>0
  <2> QED
    BY <1>0, <1>1, <2>1
<1>4. ResultsSent' /\ latCh' \in 0..Cardinality(Subs)
  BY <1>1, <1>2, OneMoreResult
<1>5. /\ spc' \in [Subs -> {"dial", "subscribe", "read", "await", "done"}] /\ subUp' \in [Subs -> BOOLEAN]
      /\ \A u \in Subs : u # t => spc'[u] = spc[u]
  BY <1>0, <1>1
<1>6. TypeOK'
  BY <1>0, <1>1, <1>2, <1>3, <1>4, <1>5 DEF TypeOK
<1>7. ReadBalance'
  <2>1. subLocal' \in [Subs -> Nat]
    BY <1>0, <1>3
  <2>2. received' \in Nat /\ (\A u \in Subs : u # t => subLocal'[u] = subLocal[u])
        /\ received' + subLocal'[t] = received + subLocal[t] + 0
    BY <1>3
  <2>3. handled' = handled + 0
    BY <1>0, <1>1
  <2> QED
    BY <2>1, <2>2, <2>3, ReadMore
<1>8. Returned'
  <2>1. ASSUME NEW u \in Subs, spc'[u] \in {"dial", "subscribe", "done"} PROVE subLocal'[u] = 0
    BY <1>3, <1>5, <2>1 DEF BInv, Returned
  <2> QED
    BY <1>1, <1>2, <2>1 DEF BInv, Returned
<1>9. ReceivedOnce'
  BY <1>1, <1>2 DEF BInv, ReceivedOnce
<1>10. Reported'
  <2>1. subReport = -1
    BY <1>1 DEF BInv, Reported
  <2> QED
    BY <1>1, <1>2, <2>1 DEF BInv, Reported
<1> QED
  BY <1>2, <1>4, <1>6, <1>7, <1>8, <1>9, <1>10 DEF BInv

\* A connection that breaks loses some of what was on its way.
LEMMA SubBreakBInv ==
    ASSUME BInv, NEW t \in Subs, SubBreak(t)
    PROVE  BInv'
<1>0. /\ TypeOK /\ inFlight \in [Subs -> Nat] /\ subUp \in [Subs -> BOOLEAN]
      /\ handled \in Nat /\ wrote \in Nat /\ IsFiniteSet(Subs)
  BY Goroutines DEF BInv, TypeOK
<1>1. PICK n \in 0..inFlight[t] : inFlight' = [inFlight EXCEPT ![t] = n]
  BY DEF SubBreak
<1>2. /\ UNCHANGED <<flags, pubVars, subStop, spc, subLocal, stopCh, received, latCh, handled, subReport>>
      /\ subUp' = [subUp EXCEPT ![t] = FALSE]
  BY DEF SubBreak
<1>3. /\ Pubs' = Pubs /\ Subs' = Subs /\ pubFlag' = pubFlag /\ subFlag' = subFlag
      /\ UNCHANGED <<pubStop, ppc, pubLocal, published, failed, wrote, pubReport>>
      /\ WrittenBalance'
  BY <1>2, SubOnly
<1>4. /\ inFlight' \in [Subs -> Nat] /\ inFlight'[t] = n /\ n \in Nat /\ n <= inFlight[t]
      /\ inFlight[t] \in Nat /\ \A u \in Subs : u # t => inFlight'[u] = inFlight[u]
  BY <1>0, <1>1
<1>5. TypeOK'
  BY <1>0, <1>2, <1>3, <1>4 DEF TypeOK
<1>6. ReceivedOnce'
  <2>1. Tally(inFlight') + inFlight[t] = Tally(inFlight) + inFlight'[t]
    BY <1>0, <1>4, TallyUpdate
  <2>2. Tally(inFlight) \in Nat /\ Tally(inFlight') \in Nat
    BY <1>0, <1>4, UnitsFinite
  <2> DEFINE f == Tally(inFlight)
             f1 == Tally(inFlight')
             old == inFlight[t]
  <2>3. f1 + old = f + n /\ f \in Nat /\ f1 \in Nat /\ old \in Nat /\ n <= old
    BY <1>4, <2>1, <2>2
  <2>4. handled + f <= wrote
    BY DEF BInv, ReceivedOnce
  <2> HIDE DEF f, f1, old
  <2>5. f1 <= f
    BY <1>4, <2>3
  <2>6. handled + f1 <= wrote
    BY <1>0, <2>3, <2>4, <2>5
  <2> QED
    BY <1>2, <1>3, <2>6 DEF ReceivedOnce, f1
<1>7. Returned' /\ ResultsSent' /\ ReadBalance' /\ Reported'
  BY <1>2, <1>3 DEF BInv, Returned, ResultsSent, ReadBalance, Reported
<1> QED
  BY <1>3, <1>5, <1>6, <1>7 DEF BInv

\* main of market-sub-bin.
LEMMA SubMainBInv ==
    ASSUME BInv, SubSetStop \/ SubReport
    PROVE  BInv'
<1>0. TypeOK /\ received \in Nat
  BY DEF BInv, TypeOK
<1>1. UNCHANGED <<flags, pubVars, inFlight, spc, subUp, subLocal, stopCh, received, latCh, handled>>
  BY DEF SubSetStop, SubReport
<1>2. /\ Pubs' = Pubs /\ Subs' = Subs /\ pubFlag' = pubFlag /\ subFlag' = subFlag
      /\ UNCHANGED <<pubStop, ppc, pubLocal, published, failed, wrote, pubReport>>
      /\ WrittenBalance'
  BY <1>1, SubOnly
<1>3. /\ subStop' \in BOOLEAN /\ subReport' \in Nat \cup {-1}
      /\ subReport' # -1 => subReport' = received /\ \A t \in Subs : spc[t] = "done"
  <2>1. CASE SubSetStop
    BY <2>1 DEF SubSetStop, BInv, TypeOK, Reported
  <2>2. CASE SubReport
    BY <1>0, <2>2 DEF SubReport, TypeOK
  <2> QED
    BY <2>1, <2>2
<1>4. TypeOK'
  BY <1>0, <1>1, <1>2, <1>3 DEF TypeOK
<1>5. Returned' /\ ResultsSent' /\ ReadBalance' /\ ReceivedOnce' /\ Reported'
  BY <1>1, <1>2, <1>3 DEF BInv, Returned, ResultsSent, ReadBalance, ReceivedOnce, Reported
<1> QED
  BY <1>2, <1>4, <1>5 DEF BInv

LEMMA StutterBInv ==
    ASSUME BInv, UNCHANGED vars
    PROVE  BInv'
<1>1. /\ UNCHANGED <<flags, pubVars, subVars, inFlight>>
      /\ UNCHANGED <<subStop, spc, subUp, subLocal, stopCh, received, latCh, handled, subReport>>
  BY DEF vars, subVars
<1>2. /\ Pubs' = Pubs /\ Subs' = Subs /\ pubFlag' = pubFlag /\ subFlag' = subFlag
      /\ UNCHANGED <<pubStop, ppc, pubLocal, published, failed, wrote, pubReport>>
      /\ WrittenBalance'
  BY <1>1, SubOnly
<1>3. TypeOK'
  BY <1>1, <1>2 DEF BInv, TypeOK
<1>4. Returned' /\ ResultsSent' /\ ReadBalance' /\ ReceivedOnce' /\ Reported'
  BY <1>1, <1>2 DEF BInv, Returned, ResultsSent, ReadBalance, ReceivedOnce, Reported
<1> QED
  BY <1>2, <1>3, <1>4 DEF BInv

LEMMA NextBInv == BInv /\ [Next]_vars => BInv'
<1> SUFFICES ASSUME BInv, [Next]_vars PROVE BInv'
  OBVIOUS
<1>1. ASSUME NEW c \in Pubs, PubStep(c) PROVE BInv'
  BY <1>1, PubLoopBInv, WriteOKBInv, WriteFailedBInv DEF PubStep
<1>2. ASSUME NEW t \in Subs, SubStep(t) \/ Watch(t) \/ SubBreak(t) PROVE BInv'
  BY <1>2, SubLoopBInv, ReadMsgBInv, SubFinalBInv, SubBreakBInv DEF SubStep
<1>3. CASE PubSetStop \/ PubReport
  BY <1>3, PubMainBInv
<1>4. CASE SubSetStop \/ SubReport
  BY <1>4, SubMainBInv
<1>5. CASE UNCHANGED vars
  BY <1>5, StutterBInv
<1> QED
  BY <1>1, <1>2, <1>3, <1>4, <1>5 DEF Next

LEMMA Invariant == Spec => []BInv
BY InitBInv, NextBInv, PTL DEF Spec

-----------------------------------------------------------------------------
(* Theorems *)

\* Type correctness: a local count never reaches its batch, the shared counters
\* never go down below zero, and never more results are sent on latCh than it
\* has room for (market-sub-bin/main.go:199).
THEOREM TypeCorrect == Spec => []TypeOK
<1>1. BInv => TypeOK
  BY DEF BInv
<1> QED
  BY <1>1, Invariant, PTL

\* The printed "published" is off from what was written by less than a batch
\* downwards and by at most a tick's frames upwards for each publisher whose
\* Write failed, and not at all without one (market-sim-bin/main.go:149-162).
THEOREM PublishedWithinHolds == Spec => []PublishedWithin
<1>1. BInv => PublishedWithin
  <2> SUFFICES ASSUME BInv, pubReport # -1
               PROVE  /\ wrote - pubReport <= (PubBatch - 1) * Cardinality(failed)
                      /\ pubReport - wrote <= PerTick * Cardinality(failed)
    BY DEF PublishedWithin
  <2>1. TypeOK /\ pubReport = published /\ published \in Nat
        /\ \A c \in Pubs : pubLocal[c] = 0
    BY DEF BInv, TypeOK, Reported, Returned
  <2>2. Tally(pubLocal) = 0
    BY <2>1, LocalTypes, TallyZero
  <2>3. published + Tally(pubLocal) = pubReport
    BY <2>1, <2>2
  <2> QED
    BY <2>3 DEF BInv, WrittenBalance
<1> QED
  BY <1>1, Invariant, PTL

\* The printed "received" is every message that was read, on connections that
\* broke long before stop too (market-sub-bin/main.go:150-153).
THEOREM ReceivedExactHolds == Spec => []ReceivedExact
<1>1. BInv => ReceivedExact
  <2> SUFFICES ASSUME BInv, subReport # -1 PROVE subReport = handled
    BY DEF ReceivedExact
  <2>1. TypeOK /\ subReport = received /\ received \in Nat
        /\ \A t \in Subs : subLocal[t] = 0
    BY DEF BInv, TypeOK, Reported, Returned
  <2>2. Tally(subLocal) = 0
    BY <2>1, LocalTypes, TallyZero
  <2> QED
    BY <2>1, <2>2 DEF BInv, ReadBalance
<1> QED
  BY <1>1, Invariant, PTL

\* Nothing is received twice over all connections of the subscriber, for any
\* number of symbols and any --conns of the two tools: a message has one symbol,
\* and a symbol is in one stripe (market-sub-bin/main.go:190-194).
THEOREM ReceivedOnceHolds == Spec => []ReceivedOnce
<1>1. BInv => ReceivedOnce
  BY DEF BInv
<1> QED
  BY <1>1, Invariant, PTL
=============================================================================
