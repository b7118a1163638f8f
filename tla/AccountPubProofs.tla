-------------------------- MODULE AccountPubProofs --------------------------
(***************************************************************************)
(* Proofs about AccountPub, for any number of users, any batch and any     *)
(* number of ticks: its types and its three safety properties.             *)
(***************************************************************************)
EXTENDS AccountPub, TLAPS

\* All users have had as many turns, but for those whose turn is over in the
\* present round.
RoundRobin ==
    \E rounds \in Nat : \A u \in Users :
        turns[u] = IF u < userIdx THEN rounds + 1 ELSE rounds

IInv == TypeOK /\ CountsAttempts /\ RoundRobin /\ LagsLessThanBatch

-----------------------------------------------------------------------------
(* Every step keeps IInv *)

LEMMA InitIInv == Init => IInv
<1> SUFFICES ASSUME Init PROVE IInv
  OBVIOUS
<1> USE NAssumption, BatchAssumption DEF Init, LoopInit
<1>1. 0 \in Users /\ \A u \in Users : u \in Nat
  BY DEF Users
<1>2. TypeOK
  BY <1>1 DEF TypeOK, LoopTypeOK
<1>3. CountsAttempts /\ LagsLessThanBatch
  BY DEF CountsAttempts, LagsLessThanBatch
<1>4. RoundRobin
  BY <1>1 DEF RoundRobin
<1> QED
  BY <1>2, <1>3, <1>4 DEF IInv

LEMMA NextUserValue ==
    ASSUME userIdx \in Users
    PROVE  /\ NextUser = (IF userIdx = N - 1 THEN 0 ELSE userIdx + 1)
           /\ NextUser \in Users
<1>1. userIdx \in 0..(N - 1) /\ N \in Nat \ {0}
  BY NAssumption DEF Users
<1>2. CASE userIdx = N - 1
  BY <1>1, <1>2, Z3 DEF NextUser, Users
<1>3. CASE userIdx # N - 1
  <2>1. userIdx + 1 \in 0..(N - 1)
    BY <1>1, <1>3
  <2>2. (userIdx + 1) % N = userIdx + 1
    BY <1>1, <2>1, Z3
  <2> QED
    BY <1>3, <2>1, <2>2 DEF NextUser, Users
<1> QED
  BY <1>2, <1>3

\* What every tick does to the turns, failed or not.
LEMMA TickTurns ==
    ASSUME TypeOK, RoundRobin, Tick
    PROVE  /\ userIdx' \in Users /\ seq' \in Nat /\ late' \in Nat
           /\ turns' \in [Users -> Nat] /\ RoundRobin'
<1>1. /\ userIdx \in Users /\ seq \in Nat /\ late \in Nat /\ turns \in [Users -> Nat]
      /\ \A u \in Users : u \in Nat /\ u <= N - 1
      /\ N \in Nat \ {0}
  BY NAssumption DEF TypeOK, Users
<1>2. /\ userIdx' = NextUser /\ turns' = [turns EXCEPT ![userIdx] = @ + 1]
      /\ seq' = seq + 1 /\ late' = IF stop THEN late + 1 ELSE late
  BY DEF Tick
<1>3. /\ NextUser = (IF userIdx = N - 1 THEN 0 ELSE userIdx + 1)
      /\ NextUser \in Users
  BY <1>1, NextUserValue
<1>4. /\ turns' \in [Users -> Nat] /\ turns'[userIdx] = turns[userIdx] + 1
      /\ \A u \in Users : u # userIdx => turns'[u] = turns[u]
  BY <1>1, <1>2
<1>5. PICK rounds \in Nat : \A u \in Users :
          turns[u] = IF u < userIdx THEN rounds + 1 ELSE rounds
  BY DEF RoundRobin
<1>6. turns'[userIdx] = rounds + 1
  BY <1>1, <1>4, <1>5
<1>7. RoundRobin'
  <2>1. CASE userIdx = N - 1
    <3>1. userIdx' = 0
      BY <1>2, <1>3, <2>1
    <3>2. ASSUME NEW u \in Users PROVE turns'[u] = rounds + 1 /\ ~(u < userIdx')
      <4>1. u = userIdx \/ u < userIdx
        BY <1>1, <2>1
      <4> QED
        BY <1>1, <1>4, <1>5, <1>6, <3>1, <4>1
    <3> QED
      BY <1>5, <3>2 DEF RoundRobin
  <2>2. CASE userIdx # N - 1
    <3>1. userIdx' = userIdx + 1
      BY <1>2, <1>3, <2>2
    <3>2. ASSUME NEW u \in Users
          PROVE  turns'[u] = IF u < userIdx' THEN rounds + 1 ELSE rounds
      <4>1. CASE u = userIdx
        BY <1>1, <1>6, <3>1, <4>1
      <4>2. CASE u # userIdx
        <5>1. u < userIdx' <=> u < userIdx
          BY <1>1, <3>1, <4>2
        <5> QED
          BY <1>4, <1>5, <4>2, <5>1
      <4> QED
        BY <4>1, <4>2
    <3> QED
      BY <1>5, <3>2 DEF RoundRobin
  <2> QED
    BY <2>1, <2>2
<1> QED
  BY <1>1, <1>2, <1>3, <1>4, <1>7

\* A message counted before Publish is called.
LEMMA CountedOne ==
    ASSUME TypeOK, NEW kind \in Kinds
    PROVE  /\ Counted(kind) \in [Kinds -> Nat]
           /\ Counted(kind)[kind] = local[kind] + 1
           /\ \A k \in Kinds : k # kind => Counted(kind)[k] = local[k]
BY DEF TypeOK, Counted

\* Publish works: per kind, what is moved to published is taken from local.
LEMMA TickOKIInv == ASSUME IInv, NEW kind \in Kinds, TickOK(kind) PROVE IInv'
<1>1. /\ userIdx' \in Users /\ seq' \in Nat /\ late' \in Nat
      /\ turns' \in [Users -> Nat] /\ RoundRobin'
  BY TickTurns DEF IInv, TickOK
<1>2. /\ Counted(kind) \in [Kinds -> Nat]
      /\ Counted(kind)[kind] = local[kind] + 1
      /\ \A k \in Kinds : k # kind => Counted(kind)[k] = local[k]
  BY CountedOne DEF IInv
<1>3. /\ sent' = [sent EXCEPT ![kind] = @ + 1]
      /\ local' = [k \in Kinds |-> IF Counted(kind)[k] = Batch THEN 0 ELSE Counted(kind)[k]]
      /\ published' = [k \in Kinds |->
                          published[k] + (IF Counted(kind)[k] = Batch THEN Batch ELSE 0)]
      /\ pc' = "inner" /\ UNCHANGED <<up, stop, failed>>
  BY DEF TickOK
<1>4. /\ local \in [Kinds -> Nat] /\ published \in [Kinds -> Nat]
      /\ sent \in [Kinds -> Nat] /\ failed \in [Kinds -> Nat]
      /\ up \in BOOLEAN /\ stop \in BOOLEAN /\ Batch \in Nat \ {0}
  BY BatchAssumption DEF IInv, TypeOK, LoopTypeOK
<1>5. /\ sent' \in [Kinds -> Nat] /\ sent'[kind] = sent[kind] + 1
      /\ \A k \in Kinds : k # kind => sent'[k] = sent[k]
  BY <1>3, <1>4
<1>6. ASSUME NEW k \in Kinds
      PROVE  /\ local'[k] \in Nat /\ published'[k] \in Nat
             /\ published'[k] + local'[k] = published[k] + Counted(kind)[k]
             /\ Counted(kind)[k] <= Batch => local'[k] < Batch
  <2>1. /\ local'[k] = IF Counted(kind)[k] = Batch THEN 0 ELSE Counted(kind)[k]
        /\ published'[k] = published[k] + (IF Counted(kind)[k] = Batch THEN Batch ELSE 0)
    BY <1>3
  <2>2. published[k] \in Nat /\ Counted(kind)[k] \in Nat /\ Batch \in Nat \ {0}
    BY <1>2, <1>4
  <2> QED
    BY <2>1, <2>2
<1>7. TypeOK'
  <2>1. local' \in [Kinds -> Nat] /\ published' \in [Kinds -> Nat]
    BY <1>3, <1>6
  <2> QED
    BY <1>1, <1>3, <1>4, <1>5, <2>1 DEF TypeOK, LoopTypeOK
<1>8. CountsAttempts'
  <2>1. ASSUME NEW k \in Kinds
        PROVE  published'[k] + local'[k] = sent'[k] + failed'[k]
    <3>1. /\ published[k] + local[k] = sent[k] + failed[k] /\ failed'[k] = failed[k]
          /\ published'[k] + local'[k] = published[k] + Counted(kind)[k]
          /\ published[k] \in Nat /\ local[k] \in Nat /\ sent[k] \in Nat /\ failed[k] \in Nat
      BY <1>3, <1>4, <1>6 DEF IInv, CountsAttempts
    <3>2. CASE k = kind
      <4>1. sent'[k] = sent[k] + 1 /\ Counted(kind)[k] = local[k] + 1
        BY <1>2, <1>5, <3>2
      <4> QED
        BY <3>1, <4>1
    <3>3. CASE k # kind
      <4>1. sent'[k] = sent[k] /\ Counted(kind)[k] = local[k]
        BY <1>2, <1>5, <3>3
      <4> QED
        BY <3>1, <4>1
    <3> QED
      BY <3>2, <3>3
  <2> QED
    BY <2>1 DEF CountsAttempts
<1>9. LagsLessThanBatch'
  <2>1. ASSUME NEW k \in Kinds, failed'[k] = 0 PROVE local'[k] < Batch
    <3>1. local[k] < Batch /\ local[k] \in Nat
      BY <1>3, <1>4, <2>1 DEF IInv, LagsLessThanBatch
    <3>2. Counted(kind)[k] <= Batch
      BY <1>2, <1>4, <3>1
    <3> QED
      BY <1>6, <3>2
  <2> QED
    BY <2>1 DEF LagsLessThanBatch
<1> QED
  BY <1>1, <1>7, <1>8, <1>9 DEF IInv

\* Publish fails: the attempt is counted, and no batch is moved.
LEMMA TickFailedIInv == ASSUME IInv, NEW kind \in Kinds, TickFailed(kind) PROVE IInv'
<1>1. /\ userIdx' \in Users /\ seq' \in Nat /\ late' \in Nat
      /\ turns' \in [Users -> Nat] /\ RoundRobin'
  BY TickTurns DEF IInv, TickFailed
<1>2. /\ Counted(kind) \in [Kinds -> Nat]
      /\ Counted(kind)[kind] = local[kind] + 1
      /\ \A k \in Kinds : k # kind => Counted(kind)[k] = local[k]
  BY CountedOne DEF IInv
<1>3. /\ failed' = [failed EXCEPT ![kind] = @ + 1] /\ local' = Counted(kind)
      /\ pc' = "close" /\ UNCHANGED <<up, stop, published, sent>>
  BY DEF TickFailed
<1>4. /\ local \in [Kinds -> Nat] /\ published \in [Kinds -> Nat]
      /\ sent \in [Kinds -> Nat] /\ failed \in [Kinds -> Nat]
      /\ up \in BOOLEAN /\ stop \in BOOLEAN
  BY DEF IInv, TypeOK, LoopTypeOK
<1>5. /\ failed' \in [Kinds -> Nat] /\ failed'[kind] = failed[kind] + 1
      /\ \A k \in Kinds : k # kind => failed'[k] = failed[k]
  BY <1>3, <1>4
<1>6. TypeOK'
  BY <1>1, <1>2, <1>3, <1>4, <1>5 DEF TypeOK, LoopTypeOK
<1>7. ASSUME NEW k \in Kinds
      PROVE  /\ published'[k] + local'[k] = sent'[k] + failed'[k]
             /\ failed'[k] = 0 => local'[k] < Batch
  <2>1. /\ published[k] + local[k] = sent[k] + failed[k]
        /\ failed[k] = 0 => local[k] < Batch
        /\ published'[k] = published[k] /\ sent'[k] = sent[k]
        /\ published[k] \in Nat /\ local[k] \in Nat /\ sent[k] \in Nat /\ failed[k] \in Nat
    BY <1>3, <1>4 DEF IInv, CountsAttempts, LagsLessThanBatch
  <2>2. CASE k = kind
    <3>1. local'[k] = local[k] + 1 /\ failed'[k] = failed[k] + 1
      BY <1>2, <1>3, <1>5, <2>2
    <3> QED
      BY <2>1, <3>1
  <2>3. CASE k # kind
    <3>1. local'[k] = local[k] /\ failed'[k] = failed[k]
      BY <1>2, <1>3, <1>5, <2>3
    <3> QED
      BY <2>1, <3>1
  <2> QED
    BY <2>2, <2>3
<1>8. CountsAttempts' /\ LagsLessThanBatch'
  BY <1>7 DEF CountsAttempts, LagsLessThanBatch
<1> QED
  BY <1>1, <1>6, <1>8 DEF IInv

LEMMA FinalIInv == ASSUME IInv, Final PROVE IInv'
<1>1. /\ published' = [k \in Kinds |-> published[k] + local[k]]
      /\ local' = [k \in Kinds |-> 0] /\ pc' = "done"
      /\ UNCHANGED <<up, stop, seq, userIdx, sent, failed, turns, late>>
  BY DEF Final
<1>2. /\ local \in [Kinds -> Nat] /\ published \in [Kinds -> Nat]
      /\ Batch \in Nat \ {0}
  BY BatchAssumption DEF IInv, TypeOK
<1>3. \A k \in Kinds : published'[k] = published[k] + local[k] /\ local'[k] = 0
  BY <1>1
<1>4. TypeOK'
  BY <1>1, <1>2 DEF IInv, TypeOK, LoopTypeOK
<1>5. CountsAttempts' /\ LagsLessThanBatch'
  BY <1>1, <1>2, <1>3 DEF IInv, CountsAttempts, LagsLessThanBatch
<1>6. RoundRobin'
  BY <1>1 DEF IInv, RoundRobin
<1> QED
  BY <1>4, <1>5, <1>6 DEF IInv

\* The steps of the connection loop touch none of what is counted.
LEMMA LoopIInv == ASSUME IInv, UNCHANGED tickVars,
                         \/ LoopStep \/ Break \/ SetStop \/ UNCHANGED loopVars
                  PROVE  IInv'
<1>1. LoopTypeOK'
  BY DEF IInv, TypeOK, LoopTypeOK, LoopStep, Outer, DialOK, DialFail, Inner, CloseConn,
         Sleep, Break, SetStop, loopVars
<1>2. TypeOK'
  BY <1>1 DEF IInv, TypeOK, tickVars
<1>3. CountsAttempts' /\ RoundRobin' /\ LagsLessThanBatch'
  BY DEF IInv, CountsAttempts, RoundRobin, LagsLessThanBatch, tickVars
<1> QED
  BY <1>2, <1>3 DEF IInv

LEMMA NextIInv == IInv /\ [Next]_vars => IInv'
<1> SUFFICES ASSUME IInv, [Next]_vars PROVE IInv'
  OBVIOUS
<1>1. CASE \E kind \in Kinds : TickOK(kind) \/ TickFailed(kind)
  BY <1>1, TickOKIInv, TickFailedIInv
<1>2. CASE Final
  BY <1>2, FinalIInv
<1>3. CASE /\ UNCHANGED tickVars
           /\ LoopStep \/ Break \/ SetStop \/ UNCHANGED loopVars
  BY <1>3, LoopIInv
<1> QED
  BY <1>1, <1>2, <1>3 DEF Next, OwnStep, LoopOnly, LoopStep, vars

LEMMA Invariant == Spec => []IInv
BY InitIInv, NextIInv, PTL DEF Spec

-----------------------------------------------------------------------------
(* Theorems *)

\* The variables of a tier's goroutine keep their types: userIdx is always one
\* of the tier's users.
THEOREM TypeCorrect == Spec => []TypeOK
<1>1. IInv => TypeOK
  BY DEF IInv
<1> QED
  BY <1>1, Invariant, PTL

\* What is counted is what was attempted, per kind, failed messages included.
THEOREM CountsAttemptsHolds == Spec => []CountsAttempts
<1>1. IInv => CountsAttempts
  BY DEF IInv
<1> QED
  BY <1>1, Invariant, PTL

\* The exported counter is less than a batch behind until a Publish fails.
THEOREM LagsLessThanBatchHolds == Spec => []LagsLessThanBatch
<1>1. IInv => LagsLessThanBatch
  BY DEF IInv
<1> QED
  BY <1>1, Invariant, PTL

\* No user of a tier gets more than one turn ahead of another, failures or not.
THEOREM EvenTurnsHolds == Spec => []EvenTurns
<1>1. IInv => EvenTurns
  <2> SUFFICES ASSUME IInv, NEW u \in Users, NEW v \in Users
               PROVE  turns[u] <= turns[v] + 1
    BY DEF EvenTurns
  <2>1. PICK rounds \in Nat : \A w \in Users :
            turns[w] = IF w < userIdx THEN rounds + 1 ELSE rounds
    BY DEF IInv, RoundRobin
  <2>2. turns[u] \in {rounds, rounds + 1} /\ turns[v] \in {rounds, rounds + 1}
    BY <2>1
  <2> QED
    BY <2>2
<1> QED
  BY <1>1, Invariant, PTL
=============================================================================
