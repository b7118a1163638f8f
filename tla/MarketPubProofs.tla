-------------------------- MODULE MarketPubProofs ---------------------------
(***************************************************************************)
(* Proofs about MarketPub, for any number of symbols, any batch and any    *)
(* number of ticks: its types and its four safety properties; and that the *)
(* goroutine of PubConn on each connection does not disturb them.          *)
(***************************************************************************)
EXTENDS PubConn, TLAPS

\* All symbols have ticked equally often, but for those whose turn is over in
\* the present round.
RoundRobin ==
    \E rounds \in Nat : \A s \in Syms :
        Len(wire[s]) = IF s < symIdx THEN rounds + 1 ELSE rounds

\* The numbers used so far are below the next one.
NumbersUsed == \A s \in Syms : \A k \in 1..Len(wire[s]) : wire[s][k] < symSeqs[s]

\* After the late tick the loop does not get to wait for another one.
LateIsLast == late \in {0, 1} /\ (late = 1 => stop /\ pc # "wait")

IInv ==
    /\ TypeOK /\ CountExact
    /\ RoundRobin /\ NumbersUsed /\ SeqsIncrease /\ LateIsLast

-----------------------------------------------------------------------------
(* Every step keeps IInv *)

LEMMA InitIInv == Init => IInv
<1> SUFFICES ASSUME Init PROVE IInv
  OBVIOUS
<1> USE NAssumption, BatchAssumption DEF Init, LoopInit
<1>1. 0 \in Syms /\ \A s \in Syms : s \in Nat
  BY DEF Syms
<1>2. \A s \in Syms : wire[s] = <<>> /\ Len(wire[s]) = 0
  OBVIOUS
<1>3. TypeOK
  BY <1>1 DEF TypeOK, LoopTypeOK
<1>4. RoundRobin
  BY <1>1, <1>2 DEF RoundRobin
<1>5. CountExact /\ NumbersUsed /\ SeqsIncrease /\ LateIsLast
  BY <1>2 DEF CountExact, NumbersUsed, SeqsIncrease, LateIsLast
<1> QED
  BY <1>3, <1>4, <1>5 DEF IInv

LEMMA TurnValue ==
    ASSUME NEW s \in Syms
    PROVE  Turn(s) = (IF s = N - 1 THEN 0 ELSE s + 1) /\ Turn(s) \in Syms
<1>1. s \in 0..(N - 1) /\ N \in Nat \ {0}
  BY NAssumption DEF Syms
<1>2. CASE s = N - 1
  BY <1>1, <1>2, Z3 DEF Turn, Syms
<1>3. CASE s # N - 1
  <2>1. s + 1 \in 0..(N - 1)
    BY <1>1, <1>3
  <2>2. (s + 1) % N = s + 1
    BY <1>1, <2>1, Z3
  <2> QED
    BY <1>3, <2>1, <2>2 DEF Turn, Syms
<1> QED
  BY <1>2, <1>3

LEMMA CountTypes ==
    ASSUME TypeOK, Count
    PROVE  /\ localPub' \in 0..(Batch - 1) /\ published' \in Nat
           /\ published' + localPub' = published + localPub + 1
<1>1. localPub \in 0..(Batch - 1) /\ published \in Nat /\ Batch \in Nat \ {0}
  BY BatchAssumption DEF TypeOK
<1>2. CASE localPub + 1 = Batch
  <2>1. published' = published + Batch /\ localPub' = 0
    BY <1>2 DEF Count
  <2> QED
    BY <1>1, <1>2, <2>1
<1>3. CASE localPub + 1 # Batch
  <2>1. published' = published /\ localPub' = localPub + 1
    BY <1>3 DEF Count
  <2> QED
    BY <1>1, <1>3, <2>1
<1> QED
  BY <1>2, <1>3

\* A message more on the wire of the symbol whose turn it is.
LEMMA TickOKIInv == IInv /\ TickOK => IInv'
<1> SUFFICES ASSUME IInv, TickOK PROVE IInv'
  OBVIOUS
<1>1. /\ symIdx \in Syms /\ symSeqs \in [Syms -> Nat] /\ wire \in [Syms -> Seq(Nat)]
      /\ ticks \in Nat /\ sent \in Nat /\ late \in Nat
      /\ published \in Nat /\ localPub \in Nat
      /\ symSeqs[symIdx] \in Nat /\ wire[symIdx] \in Seq(Nat)
      /\ \A s \in Syms : s \in Nat /\ s <= N - 1 /\ Len(wire[s]) \in Nat
      /\ N \in Nat \ {0}
  BY NAssumption, BatchAssumption DEF IInv, TypeOK, Syms
<1>2. /\ symSeqs' = [symSeqs EXCEPT ![symIdx] = @ + 1]
      /\ wire' = [wire EXCEPT ![symIdx] = Append(@, symSeqs[symIdx])]
      /\ ticks' = ticks + 1 /\ sent' = sent + 1 /\ symIdx' = Turn(symIdx)
      /\ pc = "wait" /\ pc' = "inner" /\ UNCHANGED <<up, stop>>
      /\ late' = IF stop THEN late + 1 ELSE late
  BY DEF TickOK, Tick, SeqsAfterTick
<1>3. /\ localPub' \in 0..(Batch - 1) /\ published' \in Nat
      /\ published' + localPub' = published + localPub + 1
  BY CountTypes DEF IInv, TickOK
<1>4. Turn(symIdx) = (IF symIdx = N - 1 THEN 0 ELSE symIdx + 1) /\ Turn(symIdx) \in Syms
  BY <1>1, TurnValue
<1>5. /\ symSeqs' \in [Syms -> Nat] /\ wire' \in [Syms -> Seq(Nat)]
      /\ symSeqs'[symIdx] = symSeqs[symIdx] + 1
      /\ wire'[symIdx] = Append(wire[symIdx], symSeqs[symIdx])
      /\ \A s \in Syms : s # symIdx =>
            wire'[s] = wire[s] /\ symSeqs'[s] = symSeqs[s]
  BY <1>1, <1>2
<1>6. late' \in {0, 1} /\ (late' = 1 => stop)
  BY <1>2 DEF IInv, LateIsLast
<1>7. TypeOK'
  BY <1>1, <1>2, <1>3, <1>4, <1>5, <1>6 DEF IInv, TypeOK, LoopTypeOK
<1>8. CountExact'
  BY <1>1, <1>2, <1>3 DEF IInv, CountExact
<1>9. LateIsLast'
  BY <1>2, <1>6 DEF LateIsLast
<1>10. /\ Len(wire'[symIdx]) = Len(wire[symIdx]) + 1
       /\ wire'[symIdx][Len(wire[symIdx]) + 1] = symSeqs[symIdx]
       /\ \A k \in 1..Len(wire[symIdx]) : wire'[symIdx][k] = wire[symIdx][k]
  BY <1>1, <1>5
<1>11. RoundRobin'
  <2>1. PICK rounds \in Nat : \A s \in Syms :
            Len(wire[s]) = IF s < symIdx THEN rounds + 1 ELSE rounds
    BY DEF IInv, RoundRobin
  <2>2. Len(wire'[symIdx]) = rounds + 1
    BY <1>1, <1>10, <2>1
  <2>3. CASE symIdx = N - 1
    <3>1. symIdx' = 0
      BY <1>2, <1>4, <2>3
    <3>2. ASSUME NEW s \in Syms PROVE Len(wire'[s]) = rounds + 1 /\ ~(s < symIdx')
      <4>1. s = symIdx \/ s < symIdx
        BY <1>1, <2>3
      <4> QED
        BY <1>1, <1>5, <2>1, <2>2, <3>1, <4>1
    <3> QED
      BY <2>1, <3>2 DEF RoundRobin
  <2>4. CASE symIdx # N - 1
    <3>1. symIdx' = symIdx + 1
      BY <1>2, <1>4, <2>4
    <3>2. ASSUME NEW s \in Syms
          PROVE  Len(wire'[s]) = IF s < symIdx' THEN rounds + 1 ELSE rounds
      <4>1. CASE s = symIdx
        BY <1>1, <2>2, <3>1, <4>1
      <4>2. CASE s # symIdx
        <5>1. s < symIdx' <=> s < symIdx
          BY <1>1, <3>1, <4>2
        <5>2. wire'[s] = wire[s]
          BY <1>5, <4>2
        <5> QED
          BY <2>1, <5>1, <5>2
      <4> QED
        BY <4>1, <4>2
    <3> QED
      BY <3>2 DEF RoundRobin
  <2> QED
    BY <2>3, <2>4
<1>12. NumbersUsed' /\ SeqsIncrease'
  <2>1. \A k \in 1..Len(wire[symIdx]) : wire[symIdx][k] < symSeqs[symIdx]
    BY <1>1 DEF IInv, NumbersUsed
  <2>2. \A j, k \in 1..Len(wire[symIdx]) : j < k => wire[symIdx][j] < wire[symIdx][k]
    BY <1>1 DEF IInv, SeqsIncrease
  <2>3. \A k \in 1..Len(wire[symIdx]) : wire[symIdx][k] \in Nat
    BY <1>1
  <2>4. \A k \in 1..Len(wire'[symIdx]) :
            k \in 1..Len(wire[symIdx]) \/ k = Len(wire[symIdx]) + 1
    BY <1>1, <1>10
  <2>5. \A k \in 1..Len(wire'[symIdx]) : wire'[symIdx][k] < symSeqs'[symIdx]
    BY <1>1, <1>5, <1>10, <2>1, <2>3, <2>4
  <2>6. \A j, k \in 1..Len(wire'[symIdx]) : j < k => wire'[symIdx][j] < wire'[symIdx][k]
    <3> SUFFICES ASSUME NEW j \in 1..Len(wire'[symIdx]), NEW k \in 1..Len(wire'[symIdx]),
                        j < k
                 PROVE  wire'[symIdx][j] < wire'[symIdx][k]
      OBVIOUS
    <3>1. j \in 1..Len(wire[symIdx])
      BY <1>1, <1>10, <2>4
    <3>2. CASE k \in 1..Len(wire[symIdx])
      BY <1>10, <2>2, <3>1, <3>2
    <3>3. CASE k = Len(wire[symIdx]) + 1
      BY <1>10, <2>1, <3>1, <3>3
    <3> QED
      BY <2>4, <3>2, <3>3
  <2>7. \A s \in Syms : s # symIdx =>
            /\ \A k \in 1..Len(wire'[s]) : wire'[s][k] < symSeqs'[s]
            /\ \A j, k \in 1..Len(wire'[s]) : j < k => wire'[s][j] < wire'[s][k]
    BY <1>5 DEF IInv, NumbersUsed, SeqsIncrease
  <2> QED
    BY <2>5, <2>6, <2>7 DEF NumbersUsed, SeqsIncrease
<1> QED
  BY <1>7, <1>8, <1>9, <1>11, <1>12 DEF IInv

\* A number of the symbol is used up, and nothing else happens.
LEMMA TickFailedIInv == IInv /\ TickFailed => IInv'
<1> SUFFICES ASSUME IInv, TickFailed PROVE IInv'
  OBVIOUS
<1>1. /\ symIdx \in Syms /\ symSeqs \in [Syms -> Nat] /\ wire \in [Syms -> Seq(Nat)]
      /\ symSeqs[symIdx] \in Nat /\ ticks \in Nat
  BY DEF IInv, TypeOK
<1>2. /\ symSeqs' = [symSeqs EXCEPT ![symIdx] = @ + 1]
      /\ ticks' = ticks + 1 /\ pc = "wait" /\ pc' = "close"
      /\ UNCHANGED <<up, stop, symIdx, localPub, published, wire, sent>>
      /\ late' = IF stop THEN late + 1 ELSE late
  BY DEF TickFailed, Tick, SeqsAfterTick
<1>3. late' \in {0, 1} /\ (late' = 1 => stop)
  BY <1>2 DEF IInv, LateIsLast
<1>4. /\ symSeqs' \in [Syms -> Nat]
      /\ \A s \in Syms : symSeqs[s] <= symSeqs'[s] /\ symSeqs[s] \in Nat
  BY <1>1, <1>2
<1>5. TypeOK'
  BY <1>1, <1>2, <1>3, <1>4 DEF IInv, TypeOK, LoopTypeOK
<1>6. NumbersUsed'
  <2>1. ASSUME NEW s \in Syms, NEW k \in 1..Len(wire[s])
        PROVE  wire[s][k] < symSeqs'[s]
    <3>1. wire[s][k] \in Nat /\ wire[s][k] < symSeqs[s]
      BY <1>1, <2>1 DEF IInv, NumbersUsed
    <3> QED
      BY <1>4, <3>1
  <2> QED
    BY <1>2, <2>1 DEF NumbersUsed
<1>7. CountExact' /\ RoundRobin' /\ SeqsIncrease'
  BY <1>2 DEF IInv, CountExact, RoundRobin, SeqsIncrease
<1>8. LateIsLast'
  BY <1>2, <1>3 DEF LateIsLast
<1> QED
  BY <1>5, <1>6, <1>7, <1>8 DEF IInv

LEMMA FinalIInv == IInv /\ Final => IInv'
<1> SUFFICES ASSUME IInv, Final PROVE IInv'
  OBVIOUS
<1>1. /\ published \in Nat /\ localPub \in Nat /\ sent \in Nat
      /\ 0 \in 0..(Batch - 1)
  BY BatchAssumption DEF IInv, TypeOK
<1>2. TypeOK'
  BY <1>1 DEF IInv, TypeOK, LoopTypeOK, Final
<1>3. CountExact'
  BY <1>1 DEF IInv, CountExact, Final
<1>4. RoundRobin' /\ NumbersUsed' /\ SeqsIncrease' /\ LateIsLast'
  BY DEF IInv, RoundRobin, NumbersUsed, SeqsIncrease, LateIsLast, Final
<1> QED
  BY <1>2, <1>3, <1>4 DEF IInv

\* The steps of the connection loop: stop is never taken back, and it keeps
\* the loop from waiting for a tick.
LEMMA LoopIInv == ASSUME IInv, UNCHANGED tickVars,
                         \/ LoopStep \/ Break \/ SetStop \/ UNCHANGED loopVars
                  PROVE  IInv'
<1>1. /\ LoopTypeOK' /\ (stop => stop') /\ (pc' = "wait" => pc = "wait" \/ ~stop)
  BY DEF IInv, TypeOK, LoopTypeOK, LoopStep, Outer, DialOK, DialFail, Inner, CloseConn,
         Sleep, Break, SetStop, loopVars
<1>2. TypeOK'
  BY <1>1 DEF IInv, TypeOK, tickVars
<1>3. CountExact' /\ RoundRobin' /\ NumbersUsed' /\ SeqsIncrease'
  BY DEF IInv, CountExact, RoundRobin, NumbersUsed, SeqsIncrease, tickVars
<1>4. LateIsLast'
  BY <1>1 DEF IInv, LateIsLast, tickVars
<1> QED
  BY <1>2, <1>3, <1>4 DEF IInv

LEMMA NextIInv == IInv /\ [Next]_vars => IInv'
<1> SUFFICES ASSUME IInv, [Next]_vars PROVE IInv'
  OBVIOUS
<1>1. CASE TickOK \/ TickFailed \/ Final
  BY <1>1, TickOKIInv, TickFailedIInv, FinalIInv
<1>2. CASE /\ UNCHANGED tickVars
           /\ LoopStep \/ Break \/ SetStop \/ UNCHANGED loopVars
  BY <1>2, LoopIInv
<1> QED
  BY <1>1, <1>2 DEF Next, OwnStep, Dial, LoopOnly, LoopStep, vars

LEMMA Invariant == Spec => []IInv
BY InitIInv, NextIInv, PTL DEF Spec

-----------------------------------------------------------------------------
(* Theorems *)

\* The variables of a class's goroutine keep their types: localPub stays below
\* the batch and symIdx is always one of the class's symbols.
THEOREM TypeCorrect == Spec => []TypeOK
<1>1. IInv => TypeOK
  BY DEF IInv
<1> QED
  BY <1>1, Invariant, PTL

\* Published, with the ticks not moved to it yet, counts what Publish accepted.
THEOREM CountExactHolds == Spec => []CountExact
<1>1. IInv => CountExact
  BY DEF IInv
<1> QED
  BY <1>1, Invariant, PTL

\* No symbol of a class gets more than one message ahead of another.
THEOREM EvenTicksHolds == Spec => []EvenTicks
<1>1. IInv => EvenTicks
  <2> SUFFICES ASSUME IInv, NEW s \in Syms, NEW t \in Syms
               PROVE  Len(wire[s]) <= Len(wire[t]) + 1
    BY DEF EvenTicks
  <2>1. PICK rounds \in Nat : \A u \in Syms :
            Len(wire[u]) = IF u < symIdx THEN rounds + 1 ELSE rounds
    BY DEF IInv, RoundRobin
  <2>2. Len(wire[s]) \in {rounds, rounds + 1} /\ Len(wire[t]) \in {rounds, rounds + 1}
    BY <2>1
  <2> QED
    BY <2>2
<1> QED
  BY <1>1, Invariant, PTL

\* A symbol's numbers go out in increasing order and none twice, over all
\* connections.
THEOREM SeqsIncreaseHolds == Spec => []SeqsIncrease
<1>1. IInv => SeqsIncrease
  BY DEF IInv
<1> QED
  BY <1>1, Invariant, PTL

\* At most one message is published after stop.
THEOREM OneLateTickHolds == Spec => []OneLateTick
<1>1. IInv => OneLateTick
  BY DEF IInv, LateIsLast, OneLateTick
<1> QED
  BY <1>1, Invariant, PTL

-----------------------------------------------------------------------------
(* PubConn *)

\* The goroutines that answer Pings leave the loop as it is: with them it is
\* still a loop of MarketPub, with all that is proved of it.
THEOREM ConnKeepsLoop == ConnSpec => Spec
<1>1. ConnInit => Init
  BY DEF ConnInit
<1>2. [ConnNext]_connVars => [Next]_vars
  <2> SUFFICES ASSUME [ConnNext]_connVars PROVE [Next]_vars
    OBVIOUS
  <2>1. CASE Connect
    BY <2>1 DEF Connect, Next
  <2>2. CASE Disconnect
    BY <2>2 DEF Disconnect, Next, OwnStep
  <2>3. CASE LoopAlone(LoopMoves \/ TickOK \/ LoopOnly(Break) \/ LoopOnly(SetStop))
    BY <2>3 DEF LoopAlone, LoopMoves, Next, OwnStep
  <2>4. CASE DrainAlone(DrainTop \/ DrainRead \/ DrainError \/ DrainPong \/ LeftStep)
    BY <2>4 DEF DrainAlone
  <2>5. CASE DrainAlone(BrokerSends)
    BY <2>5 DEF DrainAlone
  <2>6. CASE UNCHANGED connVars
    BY <2>6 DEF connVars
  <2> QED
    BY <2>1, <2>2, <2>3, <2>4, <2>5, <2>6 DEF ConnNext
<1> QED
  BY <1>1, <1>2, PTL DEF ConnSpec, Spec

\* With connections that answer Pings, counts, turns and numbers are right.
THEOREM ConnCorrect == ConnSpec => [](CountExact /\ EvenTicks /\ SeqsIncrease)
BY ConnKeepsLoop, CountExactHolds, EvenTicksHolds, SeqsIncreaseHolds, PTL
=============================================================================
