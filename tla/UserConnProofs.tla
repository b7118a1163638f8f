--------------------------- MODULE UserConnProofs ---------------------------
(***************************************************************************)
(* Proofs about UserConn, for any symbols, feeds, slots and bounds: its    *)
(* types, the partition of the symbols, one subscription per subject, no   *)
(* message thrown away or counted twice, what the broker holds between     *)
(* scrolls, the refinement of OrderedFeed, and the gaps it counts.         *)
(*                                                                         *)
(* Three inductive invariants.  IInv: TypeOK is not inductive by itself,   *)
(* what CallHandler, UnsubWritten and Return do makes sense only because   *)
(* the sids they use are those of closures of the connection and because a *)
(* Subscribe call is in progress (Pointers).  CInv relates the user's      *)
(* handles, the frames on their way, the broker's subscriptions, the       *)
(* handler table and the messages to read.  HInv relates what the broker   *)
(* has lost to what has reached each handler and to the gaps it counted,   *)
(* while no subject is subscribed twice.                                   *)
(***************************************************************************)
EXTENDS UserConn, SequenceTheorems, FiniteSetTheorems, TLAPS

\* The sids that are kept point to closures, and the queue holds the call that
\* is in progress.
Pointers ==
    /\ pc \in {"register", "write", "unsub"} => queue # <<>>
    /\ pc = "swap" => swaps > 0
    /\ \A slot \in Slots : subs[slot] <= Len(closures)
    /\ pc = "unsub" => Head(queue).slot \in Slots /\ subs[Head(queue).slot] # 0
    /\ reader = "call" => cur.sid \in 1..Len(closures)

IInv == TypeOK /\ VisiblePartition /\ Pointers

-----------------------------------------------------------------------------
(* Constants, calls and closures *)

LEMMA ConstantTypes ==
    /\ Symbols \subseteq Subjects
    /\ \A k \in 1..Len(Feeds) : Feeds[k] \in Subjects
    /\ Len(Feeds) \in Nat
    /\ NumSlots \in Nat \ {0} /\ Slots = 1..NumSlots
<1>1. \A k \in 1..Len(Feeds) : Feeds[k] \in Range(Feeds)
  BY FeedsAssumption
<1> QED
  BY <1>1, FeedsAssumption, SlotsAssumption DEF Subjects, Slots

LEMMA InitialCallsType ==
    ASSUME visibleIdx \in [Slots -> Symbols]
    PROVE  InitialCalls \in Seq(Call) /\ InitialCalls # <<>>
<1> DEFINE feedCalls == [k \in 1..Len(Feeds) |-> [subj |-> Feeds[k], slot |-> 0]]
           slotCalls == [slot \in Slots |-> [subj |-> visibleIdx[slot], slot |-> slot]]
<1>1. feedCalls \in Seq(Call) /\ Len(feedCalls) = Len(Feeds)
  <2>1. \A k \in 1..Len(Feeds) : [subj |-> Feeds[k], slot |-> 0] \in Call
    BY ConstantTypes DEF Call
  <2>2. feedCalls \in Seq(Call)
    BY <2>1, ConstantTypes, IsASeq
  <2> QED
    BY <2>2, ConstantTypes
<1>2. slotCalls \in Seq(Call) /\ Len(slotCalls) = NumSlots
  <2>1. \A slot \in 1..NumSlots : [subj |-> visibleIdx[slot], slot |-> slot] \in Call
    BY ConstantTypes DEF Call
  <2>2. [slot \in 1..NumSlots |-> [subj |-> visibleIdx[slot], slot |-> slot]] \in Seq(Call)
    BY <2>1, ConstantTypes, IsASeq
  <2> QED
    BY <2>2, ConstantTypes
<1>3. InitialCalls = feedCalls \o slotCalls
  BY DEF InitialCalls
<1> HIDE DEF feedCalls, slotCalls
<1>4. feedCalls \o slotCalls \in Seq(Call) /\ Len(feedCalls \o slotCalls) # 0
  BY <1>1, <1>2, ConstantTypes, ConcatProperties
<1> QED
  BY <1>3, <1>4

LEMMA NewClosureType ==
    ASSUME NEW s \in Subjects
    PROVE  NewClosure(s) \in Closure
BY DEF NewClosure, Closure, Fresh, SeqState

LEMMA HeadCall ==
    ASSUME queue \in Seq(Call), queue # <<>>
    PROVE  /\ Head(queue) \in Call /\ Head(queue).subj \in Subjects
           /\ Head(queue).slot \in 0..NumSlots
           /\ Tail(queue) \in Seq(Call)
<1>1. Head(queue) \in Call /\ Tail(queue) \in Seq(Call)
  BY HeadTailProperties
<1> QED
  BY <1>1 DEF Call

LEMMA ClosureAt ==
    ASSUME closures \in Seq(Closure), NEW sid \in 1..Len(closures)
    PROVE  /\ closures[sid] \in Closure
           /\ closures[sid].subj \in Subjects /\ closures[sid].st \in SeqState
<1>1. closures[sid] \in Closure
  OBVIOUS
<1> QED
  BY <1>1 DEF Closure

LEMMA RangeGrows ==
    ASSUME NEW n \in Nat, NEW f \in [Subjects -> 0..n]
    PROVE  f \in [Subjects -> 0..(n + 1)]
<1>1. 0..n \subseteq 0..(n + 1)
  OBVIOUS
<1> QED
  BY <1>1

\* What the return of a Subscribe leaves: a handle of this connection, and the
\* next call or swap, if there is one.
LEMMA ReturnType ==
    ASSUME IInv, pc = "write", NEW h \in 0..Len(closures), Return(h)
    PROVE  /\ subs' \in [Slots -> Nat]
           /\ \A slot \in Slots : subs'[slot] <= Len(closures)
           /\ queue' \in Seq(Call)
           /\ pc' \in {"register", "swap", "idle"}
           /\ pc' = "register" => queue' # <<>>
           /\ pc' = "swap" => swaps > 0
<1>1. /\ queue \in Seq(Call) /\ queue # <<>> /\ swaps \in Nat
      /\ subs \in [Slots -> Nat] /\ Len(closures) \in Nat
      /\ \A slot \in Slots : subs[slot] <= Len(closures)
  BY DEF IInv, TypeOK, Pointers
<1>2. Head(queue).slot \in 0..NumSlots /\ Tail(queue) \in Seq(Call)
  BY <1>1, HeadCall
<1>3. h \in Nat /\ h <= Len(closures)
  BY <1>1
<1>4. /\ subs' \in [Slots -> Nat]
      /\ \A slot \in Slots : subs'[slot] <= Len(closures)
  BY <1>1, <1>2, <1>3, ConstantTypes DEF Return
<1>5. /\ queue' = Tail(queue)
      /\ pc' = IF Tail(queue) # <<>> THEN "register"
               ELSE IF swaps > 0 THEN "swap" ELSE "idle"
  BY DEF Return
<1> QED
  BY <1>1, <1>2, <1>4, <1>5

LEMMA CutType ==
    ASSUME TypeOK, Cut
    PROVE  /\ up' \in BOOLEAN /\ toBroker' \in Seq(Frame)
           /\ brokerSubs' \in SUBSET [sid : Nat, subj : Subjects]
           /\ fromBroker' \in Seq(Msg)
<1>1. fromBroker \in Seq(Msg)
  BY DEF TypeOK
<1>2. PICK l \in 0..Len(fromBroker) : fromBroker' = SubSeq(fromBroker, 1, l)
  BY DEF Cut, Prefixes
<1>3. fromBroker' \in Seq(Msg)
  BY <1>1, <1>2
<1>4. <<>> \in Seq(Frame)
  OBVIOUS
<1> QED
  BY <1>3, <1>4 DEF Cut

-----------------------------------------------------------------------------
(* Every step keeps IInv *)

LEMMA InitIInv == Init => IInv
<1> SUFFICES ASSUME Init PROVE IInv
  OBVIOUS
<1>1. visibleIdx \in [Slots -> Symbols] /\ VisiblePartition
  BY DEF Init, Injection, VisiblePartition
<1>2. TypeOK
  <2>1. Len(closures) = 0 /\ closures \in Seq(Closure)
    BY DEF Init
  <2>2. handlers \in [Subjects -> 0..Len(closures)]
    BY <2>1 DEF Init
  <2>3. cur \in [sid : Nat, seq : Nat]
    BY DEF Init, NoMsg
  <2>4. /\ queue \in Seq(Call) /\ toBroker \in Seq(Frame) /\ fromBroker \in Seq(Msg)
        /\ brokerSubs \in SUBSET [sid : Nat, subj : Subjects]
        /\ notVisible \in SUBSET Symbols
    BY DEF Init
  <2>5. /\ subs \in [Slots -> Nat] /\ pubSeq \in [Subjects -> Nat]
        /\ heard \in [Subjects -> Nat] /\ rx \in [Subjects -> Nat]
    BY DEF Init
  <2> QED
    BY <1>1, <2>1, <2>2, <2>3, <2>4, <2>5 DEF Init, TypeOK
<1>3. Pointers
  BY DEF Init, Pointers
<1> QED
  BY <1>1, <1>2, <1>3 DEF IInv

\* The steps that touch no more than pc, the clock of scrolls and the shard's
\* two flags.
LEMMA ControlIInv ==
    IInv /\ (Top \/ DialFail \/ Scroll \/ ConnLost \/ Backoff \/ SetStop \/ WatchDrain)
    => IInv'
<1> SUFFICES ASSUME IInv,
                    Top \/ DialFail \/ Scroll \/ ConnLost \/ Backoff \/ SetStop \/ WatchDrain
             PROVE  IInv'
  OBVIOUS
<1>1. /\ UNCHANGED <<queue, visibleIdx, notVisible, subs>>
      /\ UNCHANGED <<netVars, conns, readerVars, tableVars, pubVars, countVars>>
      /\ stop' \in BOOLEAN /\ drainDone' \in BOOLEAN
  BY DEF IInv, TypeOK, Top, DialFail, Scroll, ConnLost, Backoff, SetStop, WatchDrain,
         shardVars, userVars
<1>2. /\ pc' \in {"top", "dial", "register", "write", "idle", "swap", "unsub",
                  "backoff", "gone"}
      /\ pc' \in {"register", "write", "unsub"} => pc' = pc
      /\ ticks' \in Nat /\ swaps' \in Nat
      /\ pc' = "swap" => swaps' > 0
  <2>1. CASE Scroll
    <3> DEFINE count == IF ScrollCount > NumSlots THEN NumSlots ELSE ScrollCount
    <3>1. count \in Nat
      BY SlotsAssumption
    <3>2. /\ pc = "idle" /\ ticks' = ticks + 1
          /\ IF count = 0 \/ notVisible = {}
             THEN UNCHANGED <<pc, swaps>>
             ELSE swaps' = count /\ pc' = "swap"
      BY <2>1 DEF Scroll
    <3> HIDE DEF count
    <3> QED
      BY <3>1, <3>2 DEF IInv, TypeOK
  <2>2. CASE Top \/ DialFail \/ ConnLost \/ Backoff
    BY <2>2 DEF Top, DialFail, ConnLost, Backoff, IInv, TypeOK
  <2>3. CASE SetStop \/ WatchDrain
    BY <2>3 DEF SetStop, WatchDrain, IInv, TypeOK, Pointers, userVars
  <2> QED
    BY <2>1, <2>2, <2>3
<1>3. TypeOK'
  BY <1>1, <1>2 DEF IInv, TypeOK, netVars, readerVars, tableVars, pubVars, countVars
<1>4. VisiblePartition'
  BY <1>1 DEF IInv, VisiblePartition
<1>5. Pointers'
  BY <1>1, <1>2 DEF IInv, Pointers, readerVars, tableVars
<1> QED
  BY <1>3, <1>4, <1>5 DEF IInv

LEMMA DialOKIInv == IInv /\ DialOK => IInv'
<1> SUFFICES ASSUME IInv, DialOK PROVE IInv'
  OBVIOUS
<1>1. InitialCalls \in Seq(Call) /\ InitialCalls # <<>>
  BY InitialCallsType DEF IInv, TypeOK
<1>2. TypeOK'
  BY <1>1 DEF IInv, TypeOK, DialOK, NoMsg, shardVars, pubVars, countVars
<1>3. VisiblePartition'
  BY DEF IInv, VisiblePartition, DialOK
<1>4. Pointers'
  BY <1>1 DEF Pointers, DialOK
<1> QED
  BY <1>2, <1>3, <1>4 DEF IInv

LEMMA RegisterIInv == IInv /\ Register => IInv'
<1> SUFFICES ASSUME IInv, Register PROVE IInv'
  OBVIOUS
<1> DEFINE s == Head(queue).subj
<1>1. queue # <<>> /\ closures \in Seq(Closure) /\ Len(closures) \in Nat
  BY DEF IInv, TypeOK, Pointers, Register
<1>2. s \in Subjects
  BY <1>1, HeadCall DEF IInv, TypeOK
<1>3. NewClosure(s) \in Closure
  BY <1>2, NewClosureType
<1>4. closures' = Append(closures, NewClosure(s))
  BY DEF Register
<1>5. handlers' = [handlers EXCEPT ![s] = Len(closures) + 1]
  BY DEF Register
<1> HIDE DEF s
<1>6. closures' \in Seq(Closure) /\ Len(closures') = Len(closures) + 1
  BY <1>1, <1>3, <1>4
<1>7. handlers' \in [Subjects -> 0..Len(closures')]
  <2>1. handlers \in [Subjects -> 0..(Len(closures) + 1)]
    BY <1>1, RangeGrows DEF IInv, TypeOK
  <2>2. Len(closures) + 1 \in 0..(Len(closures) + 1)
    BY <1>1
  <2> QED
    BY <1>5, <1>6, <2>1, <2>2
<1>8. TypeOK'
  BY <1>6, <1>7 DEF IInv, TypeOK, Register, shardVars, netVars, readerVars, pubVars,
                    countVars
<1>9. VisiblePartition'
  BY DEF IInv, VisiblePartition, Register
<1>10. Pointers'
  <2>1. \A slot \in Slots : subs'[slot] <= Len(closures')
    BY <1>1, <1>6 DEF IInv, TypeOK, Pointers, Register
  <2> QED
    BY <1>1, <1>6, <2>1 DEF IInv, Pointers, Register, readerVars
<1> QED
  BY <1>8, <1>9, <1>10 DEF IInv

LEMMA SubWrittenIInv == IInv /\ SubWritten => IInv'
<1> SUFFICES ASSUME IInv, SubWritten PROVE IInv'
  OBVIOUS
<1> DEFINE frame == [op |-> "sub", sid |-> Len(closures), subj |-> Head(queue).subj]
<1>1. queue # <<>> /\ Len(closures) \in Nat /\ pc = "write"
  BY DEF IInv, TypeOK, Pointers, SubWritten
<1>2. frame \in Frame
  BY <1>1, HeadCall DEF IInv, TypeOK, Frame
<1>3. toBroker' \in Seq(Frame)
  <2>1. toBroker' = IF up THEN Append(toBroker, frame) ELSE toBroker
    BY DEF SubWritten, Send
  <2> HIDE DEF frame
  <2> QED
    BY <1>2, <2>1 DEF IInv, TypeOK
<1>4. Return(Len(closures)) /\ Len(closures) \in 0..Len(closures)
  BY <1>1 DEF SubWritten
<1>5. /\ subs' \in [Slots -> Nat]
      /\ \A slot \in Slots : subs'[slot] <= Len(closures)
      /\ queue' \in Seq(Call)
      /\ pc' \in {"register", "swap", "idle"}
      /\ pc' = "register" => queue' # <<>>
      /\ pc' = "swap" => swaps > 0
  BY <1>1, <1>4, ReturnType
<1>6. TypeOK'
  BY <1>3, <1>5 DEF IInv, TypeOK, SubWritten, shardVars, readerVars, tableVars, pubVars,
                    countVars
<1>7. VisiblePartition'
  BY DEF IInv, VisiblePartition, SubWritten
<1>8. Pointers'
  BY <1>5 DEF IInv, Pointers, SubWritten, readerVars, tableVars
<1> QED
  BY <1>6, <1>7, <1>8 DEF IInv

LEMMA SubFailedIInv == IInv /\ SubFailed => IInv'
<1> SUFFICES ASSUME IInv, SubFailed PROVE IInv'
  OBVIOUS
<1>1. pc = "write" /\ Len(closures) \in Nat
  BY DEF IInv, TypeOK, SubFailed
<1>2. handlers' \in [Subjects -> 0..Len(closures)]
  <2>1. handlers' = [handlers EXCEPT ![Head(queue).subj] = 0] /\ 0 \in 0..Len(closures)
    BY <1>1 DEF SubFailed
  <2>2. handlers \in [Subjects -> 0..Len(closures)]
    BY DEF IInv, TypeOK
  <2> QED
    BY <2>1, <2>2
<1>3. Return(0) /\ 0 \in 0..Len(closures)
  BY <1>1 DEF SubFailed
<1>4. /\ subs' \in [Slots -> Nat]
      /\ \A slot \in Slots : subs'[slot] <= Len(closures)
      /\ queue' \in Seq(Call)
      /\ pc' \in {"register", "swap", "idle"}
      /\ pc' = "register" => queue' # <<>>
      /\ pc' = "swap" => swaps > 0
  BY <1>1, <1>3, ReturnType
<1>5. TypeOK'
  BY <1>2, <1>4 DEF IInv, TypeOK, SubFailed, shardVars, netVars, readerVars, pubVars,
                    countVars
<1>6. VisiblePartition'
  BY DEF IInv, VisiblePartition, SubFailed
<1>7. Pointers'
  BY <1>4 DEF IInv, Pointers, SubFailed, readerVars
<1> QED
  BY <1>5, <1>6, <1>7 DEF IInv

LEMMA UnsubWrittenIInv == IInv /\ UnsubWritten => IInv'
<1> SUFFICES ASSUME IInv, UnsubWritten PROVE IInv'
  OBVIOUS
<1> DEFINE sid == subs[Head(queue).slot]
<1>1. /\ queue # <<>> /\ closures \in Seq(Closure) /\ Len(closures) \in Nat
      /\ sid \in 1..Len(closures)
  BY DEF IInv, TypeOK, Pointers, UnsubWritten
<1>2. UnsubFrame(sid) \in Frame
  BY <1>1, ClosureAt DEF UnsubFrame, Frame
<1>3. toBroker' \in Seq(Frame)
  <2>1. toBroker' = IF up THEN Append(toBroker, UnsubFrame(sid)) ELSE toBroker
    BY DEF UnsubWritten, Send
  <2> QED
    BY <1>2, <2>1 DEF IInv, TypeOK
<1>4. TypeOK'
  BY <1>3 DEF IInv, TypeOK, UnsubWritten, shardVars, readerVars, tableVars, pubVars,
              countVars
<1>5. VisiblePartition'
  BY DEF IInv, VisiblePartition, UnsubWritten
<1>6. Pointers'
  BY <1>1 DEF IInv, Pointers, UnsubWritten, readerVars, tableVars
<1> QED
  BY <1>4, <1>5, <1>6 DEF IInv

\* Exchanging a visible symbol for one that is not keeps the partition.
LEMMA Exchange ==
    ASSUME visibleIdx \in [Slots -> Symbols], VisiblePartition,
           NEW newIdx \in notVisible, NEW slot \in Slots,
           visibleIdx' = [visibleIdx EXCEPT ![slot] = newIdx],
           notVisible' = (notVisible \ {newIdx}) \cup {visibleIdx[slot]}
    PROVE  VisiblePartition' /\ newIdx \in Symbols
<1>1. newIdx \in Symbols /\ \A k \in Slots : visibleIdx[k] # newIdx
  BY DEF VisiblePartition, Range
<1>2. /\ visibleIdx' \in [Slots -> Symbols] /\ visibleIdx'[slot] = newIdx
      /\ \A k \in Slots : k # slot => visibleIdx'[k] = visibleIdx[k]
  BY <1>1
<1>3. \A k, l \in Slots : visibleIdx[k] = visibleIdx[l] => k = l
  BY DEF VisiblePartition, IsInjective
<1>4. \A k, l \in Slots : visibleIdx'[k] = visibleIdx'[l] => k = l
  BY <1>1, <1>2, <1>3
<1>5. IsInjective(visibleIdx')
  BY <1>2, <1>4 DEF IsInjective
<1>6. ASSUME NEW s \in Symbols
      PROVE  s \in notVisible' <=> \A k \in Slots : visibleIdx'[k] # s
  <2>1. s \in notVisible <=> \A k \in Slots : visibleIdx[k] # s
    BY DEF VisiblePartition, Range
  <2>2. CASE s = newIdx
    BY <1>1, <1>2, <2>2
  <2>3. CASE s = visibleIdx[slot]
    BY <1>1, <1>2, <1>3, <2>3
  <2>4. CASE s # newIdx /\ s # visibleIdx[slot]
    BY <1>2, <2>1, <2>4
  <2> QED
    BY <2>2, <2>3, <2>4
<1>7. notVisible' \subseteq Symbols
  BY <1>1 DEF VisiblePartition
<1>8. \A s : s \in Range(visibleIdx') <=> \E k \in Slots : visibleIdx'[k] = s
  BY <1>2 DEF Range
<1>9. notVisible' = Symbols \ Range(visibleIdx')
  BY <1>6, <1>7, <1>8, ZenonT(40)
<1> QED
  BY <1>1, <1>5, <1>9 DEF VisiblePartition

LEMMA SwapIInv == IInv /\ Swap => IInv'
<1> SUFFICES ASSUME IInv, Swap PROVE IInv'
  OBVIOUS
<1>1. PICK newIdx \in notVisible, slot \in Slots :
        /\ visibleIdx' = [visibleIdx EXCEPT ![slot] = newIdx]
        /\ notVisible' = Pool(newIdx, visibleIdx[slot])
        /\ queue' = <<[subj |-> newIdx, slot |-> slot]>>
        /\ IF subs[slot] = 0
           THEN pc' = "register" /\ UNCHANGED handlers
           ELSE pc' = "unsub"
                /\ handlers' = [handlers EXCEPT ![closures[subs[slot]].subj] = 0]
  BY DEF Swap
<1>2. /\ visibleIdx \in [Slots -> Symbols] /\ VisiblePartition
      /\ swaps \in Nat /\ swaps > 0 /\ Len(closures) \in Nat
      /\ handlers \in [Subjects -> 0..Len(closures)]
  BY DEF IInv, TypeOK, Pointers, Swap
<1>3. VisiblePartition' /\ newIdx \in Symbols
  BY <1>1, <1>2, Exchange DEF Pool
<1>4. /\ visibleIdx' \in [Slots -> Symbols]
      /\ notVisible' \in SUBSET Symbols
  BY <1>1, <1>2, <1>3 DEF VisiblePartition
<1>5. [subj |-> newIdx, slot |-> slot] \in Call
  BY <1>3, ConstantTypes DEF Call
<1>6. /\ queue' \in Seq(Call) /\ queue' # <<>>
      /\ Head(queue') = [subj |-> newIdx, slot |-> slot]
  BY <1>1, <1>5
<1>7. swaps' = swaps - 1 /\ swaps' \in Nat
  BY <1>2 DEF Swap
<1>8. handlers' \in [Subjects -> 0..Len(closures)]
  <2>1. 0 \in 0..Len(closures)
    BY <1>2
  <2> QED
    BY <1>1, <1>2, <2>1
<1>9. pc' \in {"register", "unsub"} /\ (pc' = "unsub" => subs[slot] # 0)
  BY <1>1
<1>10. TypeOK'
  BY <1>4, <1>6, <1>7, <1>8, <1>9
     DEF IInv, TypeOK, Swap, shardVars, netVars, readerVars, pubVars, countVars
<1>11. Pointers'
  <2>1. Head(queue').slot = slot
    BY <1>6
  <2>2. UNCHANGED <<subs, closures, readerVars>>
    BY DEF Swap
  <2> QED
    BY <1>6, <1>9, <2>1, <2>2 DEF IInv, Pointers, readerVars
<1> QED
  BY <1>3, <1>10, <1>11 DEF IInv

LEMMA CutsIInv == IInv /\ (DrainExit \/ ConnBreak) => IInv'
<1> SUFFICES ASSUME IInv, DrainExit \/ ConnBreak PROVE IInv'
  OBVIOUS
<1>1. Cut /\ (UNCHANGED pc \/ pc' = "gone")
      /\ UNCHANGED <<queue, swaps, ticks, visibleIdx, notVisible, subs>>
      /\ UNCHANGED <<shardVars, conns, readerVars, tableVars, pubVars, countVars>>
  BY DEF DrainExit, ConnBreak, userVars
<1>2. TypeOK'
  BY <1>1, CutType DEF IInv, TypeOK, shardVars, readerVars, tableVars, pubVars, countVars
<1>3. VisiblePartition'
  BY <1>1 DEF IInv, VisiblePartition
<1>4. Pointers'
  BY <1>1 DEF IInv, Pointers, readerVars, tableVars
<1> QED
  BY <1>2, <1>3, <1>4 DEF IInv

LEMMA ReadIInv == IInv /\ Read => IInv'
<1> SUFFICES ASSUME IInv, Read PROVE IInv'
  OBVIOUS
<1> DEFINE m == Head(fromBroker)
           h == handlers[m.subj]
<1>1. /\ fromBroker \in Seq(Msg) /\ fromBroker # <<>> /\ Len(closures) \in Nat
      /\ handlers \in [Subjects -> 0..Len(closures)]
  BY DEF IInv, TypeOK, Read
<1>2. fromBroker' \in Seq(Msg) /\ m \in Msg
  BY <1>1, HeadTailProperties DEF Read
<1>3. m.seq \in Nat /\ m.subj \in Subjects
  BY <1>2 DEF Msg
<1>4. h \in 0..Len(closures)
  BY <1>1, <1>3
<1>5. IF h = 0 THEN UNCHANGED readerVars
      ELSE reader' = "call" /\ cur' = [sid |-> h, seq |-> m.seq]
  BY DEF Read
<1> HIDE DEF m, h
<1>6. /\ reader' \in {"read", "call", "exited"} /\ cur' \in [sid : Nat, seq : Nat]
      /\ reader' = "call" => cur'.sid \in 1..Len(closures)
  BY <1>1, <1>3, <1>4, <1>5 DEF IInv, TypeOK, Pointers, readerVars
<1>7. TypeOK'
  BY <1>2, <1>6 DEF IInv, TypeOK, Read, userVars, shardVars, tableVars, pubVars, countVars
<1>8. VisiblePartition'
  BY DEF IInv, VisiblePartition, Read, userVars
<1>9. Pointers'
  BY <1>6 DEF IInv, Pointers, Read, userVars, tableVars
<1> QED
  BY <1>7, <1>8, <1>9 DEF IInv

LEMMA CallHandlerIInv == IInv /\ CallHandler => IInv'
<1> SUFFICES ASSUME IInv, CallHandler PROVE IInv'
  OBVIOUS
<1> DEFINE c == closures[cur.sid]
<1>1. /\ closures \in Seq(Closure) /\ cur.sid \in 1..Len(closures)
      /\ cur \in [sid : Nat, seq : Nat] /\ cur.seq \in Nat
  BY DEF IInv, TypeOK, Pointers, CallHandler
<1>2. c \in Closure /\ c.subj \in Subjects /\ c.st \in SeqState
  BY <1>1, ClosureAt
<1>3. /\ rx' = [rx EXCEPT ![c.subj] = @ + 1]
      /\ heard' = [heard EXCEPT ![c.subj] = cur.seq + 1]
      /\ \/ /\ closures' = [closures EXCEPT ![cur.sid].st = Observe(@, cur.seq)]
            /\ gaps' = gaps + GapOf(c.st, cur.seq)
            /\ dups' = dups + DupOf(c.st, cur.seq)
         \/ UNCHANGED <<closures, gaps, dups>>
  BY DEF CallHandler
<1>4. [c EXCEPT !.st = Observe(c.st, cur.seq)] \in Closure
  BY <1>1, <1>2 DEF Closure, Observe, SeqState
<1>5. GapOf(c.st, cur.seq) \in Nat /\ DupOf(c.st, cur.seq) \in Nat
  BY <1>1, <1>2 DEF GapOf, DupOf, SeqState
<1>6. closures' \in Seq(Closure) /\ Len(closures') = Len(closures)
  <2>1. CASE closures' = [closures EXCEPT ![cur.sid].st = Observe(@, cur.seq)]
    <3>1. closures' = [closures EXCEPT ![cur.sid] = [c EXCEPT !.st = Observe(c.st, cur.seq)]]
      BY <2>1
    <3> QED
      BY <1>1, <1>4, <3>1, ExceptSeq
  <2> QED
    BY <1>1, <1>3, <2>1
<1> HIDE DEF c
<1>7. gaps' \in Nat /\ dups' \in Nat
  <2>1. gaps \in Nat /\ dups \in Nat
    BY DEF IInv, TypeOK
  <2> QED
    BY <1>3, <1>5, <2>1
<1>8. rx' \in [Subjects -> Nat] /\ heard' \in [Subjects -> Nat]
  <2>1. rx \in [Subjects -> Nat] /\ heard \in [Subjects -> Nat]
    BY DEF IInv, TypeOK
  <2>2. rx[c.subj] + 1 \in Nat /\ cur.seq + 1 \in Nat
    BY <1>1, <1>2, <2>1
  <2> QED
    BY <1>2, <1>3, <2>1, <2>2
<1>9. reader' = "read" /\ cur' \in [sid : Nat, seq : Nat] /\ UNCHANGED handlers
  BY DEF CallHandler, NoMsg
<1>10. UNCHANGED <<userVars, shardVars, netVars, conns, pubVars>>
  BY DEF CallHandler
<1>11. TypeOK'
  BY <1>6, <1>7, <1>8, <1>9, <1>10
     DEF IInv, TypeOK, userVars, shardVars, netVars, pubVars
<1>12. VisiblePartition'
  BY <1>10 DEF IInv, VisiblePartition, userVars
<1>13. Pointers'
  BY <1>6, <1>9, <1>10 DEF IInv, Pointers, userVars
<1> QED
  BY <1>11, <1>12, <1>13 DEF IInv

LEMMA ReaderExitIInv == IInv /\ ReaderExit => IInv'
BY DEF IInv, TypeOK, VisiblePartition, Pointers, ReaderExit, userVars, shardVars, netVars,
       tableVars, pubVars, countVars

LEMMA BrokerRecvIInv == IInv /\ BrokerRecv => IInv'
<1> SUFFICES ASSUME IInv, BrokerRecv PROVE IInv'
  OBVIOUS
<1> DEFINE f == Head(toBroker)
<1>1. f \in Frame /\ toBroker' \in Seq(Frame)
  BY HeadTailProperties DEF IInv, TypeOK, BrokerRecv
<1>2. [sid |-> f.sid, subj |-> f.subj] \in [sid : Nat, subj : Subjects]
  BY <1>1 DEF Frame
<1>3. brokerSubs' = IF f.op = "sub"
                    THEN brokerSubs \cup {[sid |-> f.sid, subj |-> f.subj]}
                    ELSE {s \in brokerSubs : s.sid # f.sid}
  BY DEF BrokerRecv
<1> HIDE DEF f
<1>4. brokerSubs' \in SUBSET [sid : Nat, subj : Subjects]
  BY <1>2, <1>3 DEF IInv, TypeOK
<1>5. TypeOK'
  BY <1>1, <1>4 DEF IInv, TypeOK, BrokerRecv, userVars, shardVars, readerVars, tableVars,
                    pubVars, countVars
<1>6. VisiblePartition' /\ Pointers'
  BY DEF IInv, VisiblePartition, Pointers, BrokerRecv, userVars, readerVars, tableVars
<1> QED
  BY <1>5, <1>6 DEF IInv

LEMMA PublishIInv == ASSUME NEW s \in Subjects PROVE IInv /\ Publish(s) => IInv'
<1> SUFFICES ASSUME IInv, Publish(s) PROVE IInv'
  OBVIOUS
<1>1. PICK order \in FanOuts(s) :
        fromBroker' = fromBroker \o
            [k \in DOMAIN order |-> [subj |-> s, seq |-> pubSeq[s], sid |-> order[k]]]
  BY DEF Publish
<1>2. PICK n \in 0..Len(closures) : order \in [1..n -> Matching(s)]
  BY DEF FanOuts, Bijection, Injection
<1>3. Matching(s) \subseteq Nat
  BY SMTT(40) DEF Matching, IInv, TypeOK
<1> DEFINE ms == [k \in 1..n |-> [subj |-> s, seq |-> pubSeq[s], sid |-> order[k]]]
<1>4. n \in Nat
  BY <1>2 DEF IInv, TypeOK
<1>5. \A k \in 1..n : [subj |-> s, seq |-> pubSeq[s], sid |-> order[k]] \in Msg
  BY <1>2, <1>3 DEF Msg, IInv, TypeOK
<1>6. ms \in Seq(Msg)
  BY <1>4, <1>5, IsASeq
<1>7. fromBroker' = fromBroker \o ms
  BY <1>1, <1>2
<1> HIDE DEF ms
<1>8. fromBroker' \in Seq(Msg)
  BY <1>6, <1>7, ConcatProperties DEF IInv, TypeOK
<1>9. pubSeq' \in [Subjects -> Nat]
  BY DEF Publish, IInv, TypeOK
<1>10. TypeOK'
  BY <1>8, <1>9 DEF IInv, TypeOK, Publish, userVars, shardVars, readerVars, tableVars,
                    countVars
<1>11. VisiblePartition' /\ Pointers'
  BY DEF IInv, VisiblePartition, Pointers, Publish, userVars, readerVars, tableVars
<1> QED
  BY <1>10, <1>11 DEF IInv

LEMMA LoseIInv == ASSUME NEW s \in Subjects PROVE IInv /\ Lose(s) => IInv'
<1> SUFFICES ASSUME IInv, Lose(s) PROVE IInv'
  OBVIOUS
<1>1. /\ pubSeq' \in [Subjects -> Nat] /\ lost' \in Nat
      /\ missed' \in SUBSET [subj : Subjects, seq : Nat]
  <2>1. pubSeq[s] \in Nat /\ missed \in SUBSET [subj : Subjects, seq : Nat]
    BY DEF IInv, TypeOK
  <2>2. [subj |-> s, seq |-> pubSeq[s]] \in [subj : Subjects, seq : Nat]
    BY <2>1
  <2>3. missed' \in {missed, missed \cup {[subj |-> s, seq |-> pubSeq[s]]}}
    BY DEF Lose
  <2>4. missed' \in SUBSET [subj : Subjects, seq : Nat]
    BY <2>1, <2>2, <2>3
  <2>5. pubSeq' \in [Subjects -> Nat] /\ lost' \in Nat
    BY <2>1 DEF Lose, IInv, TypeOK
  <2> QED
    BY <2>4, <2>5
<1>2. TypeOK'
  BY <1>1 DEF IInv, TypeOK, Lose, userVars, shardVars, netVars, readerVars, tableVars,
              countVars
<1>3. VisiblePartition' /\ Pointers'
  BY DEF IInv, VisiblePartition, Pointers, Lose, userVars, readerVars, tableVars
<1> QED
  BY <1>2, <1>3 DEF IInv

LEMMA NextIInv == IInv /\ [Next]_vars => IInv'
<1> SUFFICES ASSUME IInv, [Next]_vars PROVE IInv'
  OBVIOUS
<1>1. CASE UserStep
  BY <1>1, ControlIInv, DialOKIInv, RegisterIInv, SubWrittenIInv, SubFailedIInv,
     UnsubWrittenIInv, SwapIInv, CutsIInv DEF UserStep
<1>2. CASE ReaderStep
  BY <1>2, ReadIInv, CallHandlerIInv, ReaderExitIInv DEF ReaderStep
<1>3. CASE BrokerRecv \/ ConnBreak \/ SetStop \/ WatchDrain
  BY <1>3, BrokerRecvIInv, CutsIInv, ControlIInv
<1>4. CASE \E s \in Subjects : Publish(s) \/ Lose(s)
  BY <1>4, PublishIInv, LoseIInv
<1>5. CASE UNCHANGED vars
  BY <1>5 DEF vars, IInv, TypeOK, VisiblePartition, Pointers, userVars, shardVars, netVars,
              readerVars, tableVars, pubVars, countVars
<1> QED
  BY <1>1, <1>2, <1>3, <1>4, <1>5 DEF Next

LEMMA Invariant == Spec => []IInv
BY InitIInv, NextIInv, PTL DEF Spec

-----------------------------------------------------------------------------
(* The invariant of the connection *)

\* The Subscribe calls whose Sub frame has been written: sids 1..Done.
Done == IF pc = "write" THEN Len(closures) - 1 ELSE Len(closures)
Connected == pc \in {"register", "write", "unsub", "idle", "swap"}

\* The broker holds a subscription with sid a, or its Sub is on its way; and an
\* Unsub for it is on its way.
IsFrame(j, op, sid) == toBroker[j].op = op /\ toBroker[j].sid = sid
Sent(a) ==
    \/ \E b \in brokerSubs : b.sid = a
    \/ \E j \in 1..Len(toBroker) : IsFrame(j, "sub", a)
Unsubbed(a) == \E j \in 1..Len(toBroker) : IsFrame(j, "unsub", a)

\* Frames and subscriptions are about closures of this connection, and the last
\* frame about a sid the broker has seen, or will have seen, is its Unsub.
Frames ==
    /\ ~up => toBroker = <<>> /\ brokerSubs = {}
    /\ \A j \in 1..Len(toBroker) :
        /\ toBroker[j].sid \in 1..Done
        /\ toBroker[j].subj = closures[toBroker[j].sid].subj
    /\ \A b \in brokerSubs : b.sid \in 1..Done /\ b.subj = closures[b.sid].subj
    /\ \A h, j \in 1..Len(toBroker) :
        h < j /\ toBroker[h].sid = toBroker[j].sid => toBroker[j].op = "unsub"
    /\ \A b \in brokerSubs, j \in 1..Len(toBroker) :
        toBroker[j].sid = b.sid => toBroker[j].op = "unsub"

\* A second subscription to a subject is sent only after the Unsub of the first,
\* on a connection that keeps the order of frames.
Separated ==
    \A a, b \in 1..Done :
        a < b /\ closures[a].subj = closures[b].subj /\ Sent(a) /\ Sent(b) =>
            \E h, j \in 1..Len(toBroker) :
                h < j /\ IsFrame(h, "unsub", a) /\ IsFrame(j, "sub", b)

\* What is subscribed and not about to end is a feed, or the handle of a slot that
\* no Subscribe in progress is about to overwrite.
Kept(a) ==
    \/ a <= Len(Feeds)
    \/ \E slot \in Slots : subs[slot] = a /\ (~Busy(slot) \/ pc = "unsub")
NoLeak == \A a \in 1..Done : Sent(a) /\ ~Unsubbed(a) => Kept(a)

\* The calls left to make: the feeds get the sids 1..Len(Feeds), a slot is called
\* for at most once, for the symbol it shows, and has no handle until then.
Calls ==
    /\ pc \notin {"register", "write", "unsub"} => queue = <<>>
    /\ Connected => Done + Len(queue) >= Len(Feeds)
    /\ \A k \in 1..Len(queue) :
        /\ queue[k].slot = 0 => Done + k <= Len(Feeds) /\ queue[k].subj = Feeds[Done + k]
        /\ queue[k].slot # 0 => Done + k > Len(Feeds) /\ queue[k].subj = visibleIdx[queue[k].slot]
    /\ \A j, k \in 1..Len(queue) :
        j < k /\ queue[k].slot # 0 => queue[j].slot # queue[k].slot /\ subs[queue[k].slot] = 0

\* A handle is for the symbol its slot shows, or, while it is being exchanged, for
\* one that is not shown; the table leads to closures of the right subject.
Handles ==
    /\ \A a \in 1..Len(closures) : a <= Len(Feeds) => closures[a].subj = Feeds[a]
    /\ \A slot \in Slots : subs[slot] # 0 =>
        /\ subs[slot] <= Done
        /\ closures[subs[slot]].subj \in Symbols
        /\ ~Busy(slot) => closures[subs[slot]].subj = visibleIdx[slot]
    /\ pc = "unsub" => closures[subs[Head(queue).slot]].subj \in notVisible
    /\ pc = "write" =>
        /\ Len(closures) # 0
        /\ closures[Len(closures)].subj = Head(queue).subj
        /\ handlers[Head(queue).subj] = Len(closures)
    /\ \A s \in Subjects : handlers[s] # 0 => closures[handlers[s]].subj = s

\* A message may still come for sid a; the user counts on sid a.
Used(a) == Sent(a) \/ \E k \in 1..Len(fromBroker) : fromBroker[k].sid = a
Relied(a) == a <= Len(Feeds) \/ \E slot \in Slots : subs[slot] = a /\ ~Busy(slot)
\* A message for a sid the user counts on finds that sid in the table.
Table ==
    /\ \A k \in 1..Len(fromBroker) :
        fromBroker[k].sid \in 1..Done /\ closures[fromBroker[k].sid].subj = fromBroker[k].subj
    /\ \A a \in 1..Done : Used(a) /\ Relied(a) => handlers[closures[a].subj] = a

\* On a working connection, whatever no call is left for is subscribed.
Alive ==
    /\ up => Connected
    /\ reader = "exited" => ~up
    /\ up => \A a \in 1..Done : a <= Len(Feeds) => Sent(a) /\ ~Unsubbed(a)
    /\ up => \A slot \in Slots : (\A k \in 1..Len(queue) : queue[k].slot # slot) =>
        subs[slot] # 0 /\ Sent(subs[slot]) /\ ~Unsubbed(subs[slot])

\* The messages of a subject are read, called for and observed in the order they
\* were published.
InOrder ==
    /\ \A k \in 1..Len(fromBroker) :
        heard[fromBroker[k].subj] <= fromBroker[k].seq /\ fromBroker[k].seq < pubSeq[fromBroker[k].subj]
    /\ \A j, k \in 1..Len(fromBroker) :
        j < k /\ fromBroker[j].subj = fromBroker[k].subj => fromBroker[j].seq < fromBroker[k].seq
    /\ reader = "call" =>
        LET s == closures[cur.sid].subj
        IN  /\ heard[s] <= cur.seq /\ cur.seq < pubSeq[s]
            /\ \A k \in 1..Len(fromBroker) : fromBroker[k].subj = s => cur.seq < fromBroker[k].seq
    /\ \A a \in 1..Len(closures) : closures[a].st.init => closures[a].st.last < heard[closures[a].subj]
    /\ \A s \in Subjects : heard[s] <= pubSeq[s]
    /\ dups = 0

CInv == Frames /\ Separated /\ NoLeak /\ Calls /\ Handles /\ Table /\ Alive /\ InOrder

LEMMA InitCInv == Init => CInv
<1> SUFFICES ASSUME Init PROVE CInv
  OBVIOUS
<1>1. /\ Len(closures) = 0 /\ Len(toBroker) = 0 /\ Len(fromBroker) = 0 /\ Len(queue) = 0
      /\ pc = "top" /\ ~up /\ brokerSubs = {} /\ toBroker = <<>> /\ queue = <<>>
      /\ \A slot \in Slots : subs[slot] = 0
      /\ \A s \in Subjects : handlers[s] = 0 /\ heard[s] = 0 /\ pubSeq[s] = 0
      /\ reader = "exited" /\ dups = 0 /\ Done = 0
  BY DEF Init, Done
<1> QED
  BY <1>1 DEF CInv, Frames, Separated, NoLeak, Calls, Handles, Table, Alive, InOrder,
              Connected

\* The steps that touch no more than pc, the clock of scrolls and the shard's
\* two flags.
LEMMA ControlCInv ==
    ASSUME IInv, CInv,
           Top \/ DialFail \/ Scroll \/ ConnLost \/ Backoff \/ SetStop \/ WatchDrain
    PROVE  CInv'
<1>1. /\ UNCHANGED <<queue, visibleIdx, notVisible, subs>>
      /\ UNCHANGED <<netVars, conns, readerVars, tableVars, pubVars, countVars>>
  BY DEF Top, DialFail, Scroll, ConnLost, Backoff, SetStop, WatchDrain,
         shardVars, userVars
<1>2. /\ pc' \in {"register", "write", "unsub"} \/ pc \in {"register", "write", "unsub"}
             => pc' = pc
      /\ up => (Connected <=> Connected')
      /\ Connected' => Connected
  BY DEF Top, DialFail, Scroll, ConnLost, Backoff, SetStop, WatchDrain,
         shardVars, userVars, CInv, Alive, Connected
<1>3. Done' = Done
  BY <1>1, <1>2 DEF Done, tableVars
<1>4. Frames' /\ Separated' /\ NoLeak'
  <2>1. Frames'
    BY <1>1, <1>3 DEF CInv, Frames, netVars, tableVars
  <2>2. Separated'
    BY <1>1, <1>3 DEF CInv, Separated, Sent, IsFrame, netVars, tableVars
  <2>3. NoLeak'
    BY <1>1, <1>2, <1>3 DEF CInv, NoLeak, Sent, Unsubbed, IsFrame, Kept, Busy, netVars
  <2> QED
    BY <2>1, <2>2, <2>3
<1>5. Calls' /\ Handles'
  BY <1>1, <1>2, <1>3 DEF CInv, Calls, Handles, Busy, tableVars
<1>6. Table'
  BY <1>1, <1>3 DEF CInv, Table, Sent, Used, Relied, IsFrame, Busy, netVars, tableVars
<1>8. Alive'
  <2>1. up' => Connected'
    BY <1>1, <1>2 DEF CInv, Alive, netVars
  <2>2. \A a : Sent(a)' = Sent(a) /\ Unsubbed(a)' = Unsubbed(a)
    BY <1>1 DEF Sent, Unsubbed, IsFrame, netVars
  <2> QED
    BY <1>1, <1>3, <2>1, <2>2 DEF CInv, Alive, netVars, readerVars
<1>7. InOrder'
  BY <1>1 DEF CInv, InOrder, netVars, tableVars, readerVars, countVars, pubVars
<1> QED
  BY <1>4, <1>5, <1>6, <1>7, <1>8 DEF CInv

LEMMA InitialCallsAt ==
    ASSUME visibleIdx \in [Slots -> Symbols]
    PROVE  /\ Len(InitialCalls) = Len(Feeds) + NumSlots
           /\ \A k \in 1..Len(Feeds) :
                InitialCalls[k].subj = Feeds[k] /\ InitialCalls[k].slot = 0
           /\ \A slot \in Slots :
                /\ InitialCalls[Len(Feeds) + slot].subj = visibleIdx[slot]
                /\ InitialCalls[Len(Feeds) + slot].slot = slot
<1> DEFINE feedCalls == [k \in 1..Len(Feeds) |-> [subj |-> Feeds[k], slot |-> 0]]
           slotCalls == [slot \in Slots |-> [subj |-> visibleIdx[slot], slot |-> slot]]
<1>1. feedCalls \in Seq(Call) /\ Len(feedCalls) = Len(Feeds)
  <2>1. \A k \in 1..Len(Feeds) : [subj |-> Feeds[k], slot |-> 0] \in Call
    BY ConstantTypes DEF Call
  <2>2. feedCalls \in Seq(Call)
    BY <2>1, ConstantTypes, IsASeq
  <2> QED
    BY <2>2, ConstantTypes
<1>2. slotCalls \in Seq(Call) /\ Len(slotCalls) = NumSlots
  <2>1. \A slot \in 1..NumSlots : [subj |-> visibleIdx[slot], slot |-> slot] \in Call
    BY ConstantTypes DEF Call
  <2>2. [slot \in 1..NumSlots |-> [subj |-> visibleIdx[slot], slot |-> slot]] \in Seq(Call)
    BY <2>1, ConstantTypes, IsASeq
  <2> QED
    BY <2>2, ConstantTypes
<1>3. InitialCalls = feedCalls \o slotCalls
  BY DEF InitialCalls
<1>4. /\ \A k \in 1..Len(Feeds) : feedCalls[k].subj = Feeds[k] /\ feedCalls[k].slot = 0
      /\ \A slot \in Slots : slotCalls[slot].subj = visibleIdx[slot] /\ slotCalls[slot].slot = slot
  OBVIOUS
<1> HIDE DEF feedCalls, slotCalls
<1>5. /\ Len(feedCalls \o slotCalls) = Len(feedCalls) + Len(slotCalls)
      /\ \A k \in 1..Len(feedCalls) + Len(slotCalls) :
            (feedCalls \o slotCalls)[k] = IF k <= Len(feedCalls) THEN feedCalls[k]
                                          ELSE slotCalls[k - Len(feedCalls)]
  BY <1>1, <1>2, ConcatProperties
<1>6. \A k \in 1..Len(Feeds) : InitialCalls[k].subj = Feeds[k] /\ InitialCalls[k].slot = 0
  BY <1>1, <1>2, <1>3, <1>4, <1>5, ConstantTypes
<1>7. ASSUME NEW slot \in Slots
      PROVE  /\ InitialCalls[Len(Feeds) + slot].subj = visibleIdx[slot]
             /\ InitialCalls[Len(Feeds) + slot].slot = slot
  <2> DEFINE k == Len(Feeds) + slot
  <2>1. k \in 1..Len(feedCalls) + Len(slotCalls) /\ ~(k <= Len(feedCalls))
        /\ k - Len(feedCalls) = slot
    BY <1>1, <1>2, ConstantTypes
  <2> QED
    BY <1>3, <1>4, <1>5, <2>1
<1> QED
  BY <1>1, <1>2, <1>3, <1>5, <1>6, <1>7

\* A new connection starts with no subscription, and with all calls to make.
LEMMA DialOKCInv == ASSUME IInv, CInv, DialOK PROVE CInv'
<1>1. /\ Len(closures') = 0 /\ Len(toBroker') = 0 /\ Len(fromBroker') = 0
      /\ pc' = "register" /\ brokerSubs' = {} /\ toBroker' = <<>> /\ queue' = InitialCalls
      /\ \A slot \in Slots : subs'[slot] = 0
      /\ \A s \in Subjects : handlers'[s] = 0
      /\ reader' = "read" /\ up' /\ UNCHANGED visibleIdx
      /\ UNCHANGED countVars
  BY DEF DialOK
<1>2. Done' = 0
  BY <1>1 DEF Done
<1>3. /\ Len(InitialCalls) = Len(Feeds) + NumSlots
      /\ \A k \in 1..Len(Feeds) : InitialCalls[k].subj = Feeds[k] /\ InitialCalls[k].slot = 0
      /\ \A slot \in Slots : /\ InitialCalls[Len(Feeds) + slot].subj = visibleIdx[slot]
                             /\ InitialCalls[Len(Feeds) + slot].slot = slot
  <2>1. visibleIdx \in [Slots -> Symbols]
    BY DEF IInv, TypeOK
  <2> QED
    BY <2>1, InitialCallsAt, Zenon
<1>4. ASSUME NEW k \in 1..Len(InitialCalls), ~(k <= Len(Feeds))
      PROVE  /\ k - Len(Feeds) \in Slots
             /\ InitialCalls[k].subj = visibleIdx[k - Len(Feeds)]
             /\ InitialCalls[k].slot = k - Len(Feeds) /\ InitialCalls[k].slot # 0
  <2>1. k - Len(Feeds) \in Slots /\ Len(Feeds) + (k - Len(Feeds)) = k /\ k - Len(Feeds) # 0
    BY <1>3, <1>4, ConstantTypes
  <2> QED
    BY <1>3, <2>1
<1>5. Frames' /\ Separated' /\ NoLeak'
  BY <1>1, <1>2 DEF Frames, Separated, NoLeak
<1>6. Calls'
  <2>1. ASSUME NEW k \in 1..Len(InitialCalls)
        PROVE  /\ InitialCalls[k].slot = 0 => k <= Len(Feeds) /\ InitialCalls[k].subj = Feeds[k]
               /\ InitialCalls[k].slot # 0 =>
                    ~(k <= Len(Feeds)) /\ InitialCalls[k].slot = k - Len(Feeds)
                    /\ InitialCalls[k].slot \in Slots
                    /\ InitialCalls[k].subj = visibleIdx[InitialCalls[k].slot]
    BY <1>3, <1>4, ConstantTypes
  <2>2. \A j, k \in 1..Len(InitialCalls) :
            j < k /\ InitialCalls[k].slot # 0 => InitialCalls[j].slot # InitialCalls[k].slot
    BY <2>1, ConstantTypes
  <2>3. \A k \in 1..Len(queue') :
            /\ queue'[k].slot = 0 => Done' + k <= Len(Feeds) /\ queue'[k].subj = Feeds[Done' + k]
            /\ queue'[k].slot # 0 => Done' + k > Len(Feeds)
                                     /\ queue'[k].subj = visibleIdx'[queue'[k].slot]
    BY <1>1, <1>2, <2>1, ConstantTypes
  <2>4. \A j, k \in 1..Len(queue') :
            j < k /\ queue'[k].slot # 0 =>
                queue'[j].slot # queue'[k].slot /\ subs'[queue'[k].slot] = 0
    BY <1>1, <2>1, <2>2
  <2>5. Done' + Len(queue') >= Len(Feeds)
    BY <1>1, <1>2, <1>3, ConstantTypes
  <2> QED
    BY <1>1, <2>3, <2>4, <2>5 DEF Calls
<1>7. Handles' /\ Table'
  BY <1>1, <1>2 DEF Handles, Table
<1>8. Alive'
  <2>1. \A slot \in Slots : Len(Feeds) + slot \in 1..Len(InitialCalls)
    BY <1>3, ConstantTypes
  <2> QED
    BY <1>1, <1>2, <1>3, <2>1 DEF Alive, Connected
<1>9. InOrder'
  <2>1. UNCHANGED pubSeq
    BY DEF DialOK, pubVars
  <2> QED
    BY <1>1, <2>1 DEF InOrder, CInv, countVars
<1> QED
  BY <1>5, <1>6, <1>7, <1>8, <1>9 DEF CInv

-----------------------------------------------------------------------------
(* Sequences, and the call in progress *)

\* What the sequences of this module look like after a step.
LEMMA AppendAt ==
    ASSUME NEW S, NEW s \in Seq(S), NEW e \in S
    PROVE  /\ Len(s) \in Nat /\ Len(Append(s, e)) = Len(s) + 1
           /\ \A j \in 1..Len(s) : Append(s, e)[j] = s[j]
           /\ Append(s, e)[Len(s) + 1] = e
OBVIOUS

LEMMA TailAt ==
    ASSUME NEW S, NEW s \in Seq(S), s # <<>>
    PROVE  /\ Len(s) \in Nat /\ Len(s) >= 1 /\ Len(Tail(s)) = Len(s) - 1
           /\ \A j \in 1..(Len(s) - 1) : Tail(s)[j] = s[j + 1]
           /\ Head(s) = s[1] /\ Tail(s) \in Seq(S)
OBVIOUS

\* The call in progress is about a subject that no subscription the user relies
\* on has.
LEMMA HeadFree ==
    ASSUME IInv, CInv, pc \in {"register", "write"}, NEW a \in 1..Done, Relied(a)
    PROVE  closures[a].subj # Head(queue).subj
<1>1. /\ queue # <<>> /\ queue \in Seq(Call) /\ Head(queue) = queue[1] /\ 1 \in 1..Len(queue)
      /\ Len(closures) \in Nat /\ visibleIdx \in [Slots -> Symbols]
  BY TailAt DEF IInv, TypeOK, Pointers
<1>2. /\ Head(queue).slot \in 0..NumSlots
      /\ Head(queue).slot # 0 => Head(queue).slot \in Slots
  <2>1. Head(queue).slot \in 0..NumSlots
    BY <1>1, HeadCall
  <2> QED
    BY <2>1, ConstantTypes
<1>3. /\ Done \in Nat /\ a \in 1..Len(closures)
  BY <1>1 DEF Done
<1>4. /\ Head(queue).slot = 0 => Done + 1 <= Len(Feeds) /\ Head(queue).subj = Feeds[Done + 1]
      /\ Head(queue).slot # 0 => Head(queue).subj = visibleIdx[Head(queue).slot]
  BY <1>1 DEF CInv, Calls
<1>5. \A s \in Symbols, k \in 1..Len(Feeds) : Feeds[k] # s
  BY FeedsAssumption DEF Range
<1>6. \A j, k \in 1..Len(Feeds) : Feeds[j] = Feeds[k] => j = k
  BY FeedsAssumption DEF IsInjective
<1>7. CASE a <= Len(Feeds)
  <2>1. closures[a].subj = Feeds[a] /\ a \in 1..Len(Feeds)
    BY <1>3, <1>7, ConstantTypes DEF CInv, Handles
  <2>2. CASE Head(queue).slot = 0
    <3>1. Done + 1 \in 1..Len(Feeds) /\ a # Done + 1
      BY <1>3, <1>4, <2>2, ConstantTypes
    <3> QED
      BY <1>4, <1>6, <2>1, <2>2, <3>1
  <2>3. CASE Head(queue).slot # 0
    BY <1>1, <1>2, <1>4, <1>5, <2>1, <2>3
  <2> QED
    BY <2>2, <2>3
<1>8. CASE ~(a <= Len(Feeds))
  <2>1. PICK slot \in Slots : subs[slot] = a /\ ~Busy(slot)
    BY <1>8 DEF Relied
  <2>2. closures[a].subj = visibleIdx[slot] /\ Head(queue).slot # slot
    BY <1>1, <1>3, <2>1 DEF CInv, Handles, Busy
  <2>3. CASE Head(queue).slot = 0
    <3>1. Done + 1 \in 1..Len(Feeds)
      BY <1>3, <1>4, <2>3, ConstantTypes
    <3> QED
      BY <1>1, <1>4, <1>5, <2>2, <2>3, <3>1
  <2>4. CASE Head(queue).slot # 0
    BY <1>1, <1>2, <1>4, <2>2, <2>4 DEF IInv, VisiblePartition, IsInjective
  <2> QED
    BY <2>3, <2>4
<1> QED
  BY <1>7, <1>8

LEMMA RegisterCInv == ASSUME IInv, CInv, Register PROVE CInv'
<1> DEFINE s == Head(queue).subj
           n == Len(closures)
<1>1. /\ queue # <<>> /\ queue \in Seq(Call) /\ Head(queue) = queue[1] /\ 1 \in 1..Len(queue)
      /\ closures \in Seq(Closure) /\ n \in Nat /\ s \in Subjects
      /\ handlers \in [Subjects -> 0..n]
  BY TailAt, HeadCall DEF IInv, TypeOK, Pointers, Register
<1>2. /\ Len(closures') = n + 1
      /\ \A a \in 1..n : closures'[a] = closures[a]
      /\ closures'[n + 1].subj = s /\ closures'[n + 1].st.init = FALSE
  <2>1. NewClosure(s) \in Closure /\ NewClosure(s).subj = s /\ NewClosure(s).st.init = FALSE
    BY <1>1, NewClosureType DEF NewClosure, Fresh
  <2>2. closures' = Append(closures, NewClosure(s))
    BY DEF Register
  <2> QED
    BY <1>1, <2>1, <2>2, AppendAt
<1>3. /\ handlers' = [handlers EXCEPT ![s] = n + 1]
      /\ pc = "register" /\ pc' = "write"
      /\ UNCHANGED <<queue, visibleIdx, notVisible, subs>>
      /\ UNCHANGED <<netVars, readerVars, pubVars, countVars>>
  BY DEF Register
<1> HIDE DEF s, n
<1>4. Done = n /\ Done' = n
  BY <1>1, <1>2, <1>3 DEF Done, n
<1>5. /\ \A a : Sent(a)' = Sent(a) /\ Unsubbed(a)' = Unsubbed(a) /\ Used(a)' = Used(a)
      /\ \A a : Kept(a)' = Kept(a) /\ Relied(a)' = Relied(a)
  BY <1>3 DEF Sent, Unsubbed, Used, Kept, Relied, IsFrame, Busy, netVars
<1>6. Frames'
  BY <1>2, <1>3, <1>4 DEF CInv, Frames, netVars
<1>7. Separated'
  BY <1>2, <1>3, <1>4, <1>5 DEF CInv, Separated, IsFrame, netVars
<1>8. NoLeak'
  BY <1>4, <1>5 DEF CInv, NoLeak
<1>9. Calls'
  BY <1>3, <1>4 DEF CInv, Calls, Connected
<1>10. Handles'
  <2>1. ASSUME NEW a \in 1..(n + 1), a <= Len(Feeds) PROVE closures'[a].subj = Feeds[a]
    <3>1. CASE a = n + 1
      <4>1. s = Feeds[n + 1]
        <5>1. /\ queue[1].slot = 0 => queue[1].subj = Feeds[n + 1]
              /\ queue[1].slot # 0 => n + 1 > Len(Feeds)
          BY <1>1, <1>4 DEF CInv, Calls
        <5>2. ~(n + 1 > Len(Feeds))
          BY <1>1, <2>1, <3>1, ConstantTypes
        <5> QED
          BY <1>1, <5>1, <5>2 DEF s
      <4> QED
        BY <1>2, <3>1, <4>1
    <3>2. CASE a # n + 1
      <4>1. a \in 1..n
        BY <1>1, <3>2
      <4> QED
        BY <1>2, <2>1, <4>1 DEF CInv, Handles, n
    <3> QED
      BY <3>1, <3>2
  <2>2. ASSUME NEW slot \in Slots, subs[slot] # 0
        PROVE  /\ subs[slot] <= n /\ closures'[subs[slot]].subj \in Symbols
               /\ ~Busy(slot) => closures'[subs[slot]].subj = visibleIdx[slot]
    <3>1. subs[slot] \in 1..n
      BY <1>1, <1>4, <2>2 DEF CInv, Handles, IInv, TypeOK
    <3> QED
      BY <1>2, <1>4, <2>2, <3>1 DEF CInv, Handles
  <2>3. ASSUME NEW t \in Subjects, handlers'[t] # 0 PROVE closures'[handlers'[t]].subj = t
    <3>1. CASE t = s
      BY <1>1, <1>2, <1>3, <3>1
    <3>2. CASE t # s
      <4>1. handlers'[t] = handlers[t] /\ handlers[t] \in 1..n
        BY <1>1, <1>3, <2>3, <3>2
      <4> QED
        BY <1>2, <2>3, <4>1 DEF CInv, Handles
    <3> QED
      BY <3>1, <3>2
  <2>4. handlers'[Head(queue').subj] = n + 1 /\ Head(queue').subj = s
    BY <1>1, <1>3 DEF s
  <2>5. \A slot : Busy(slot)' = Busy(slot)
    BY <1>3 DEF Busy
  <2> QED
    BY <1>1, <1>2, <1>3, <1>4, <2>1, <2>2, <2>3, <2>4, <2>5 DEF Handles
<1>11. Table'
  <2>1. \A a \in 1..n : Relied(a) => closures[a].subj # s
    BY <1>3, <1>4, HeadFree DEF s
  <2>2. \A k \in 1..Len(fromBroker) : fromBroker[k].sid \in 1..n
            /\ closures'[fromBroker[k].sid].subj = fromBroker[k].subj
    BY <1>2, <1>4 DEF CInv, Table
  <2>3. ASSUME NEW a \in 1..n, Used(a), Relied(a) PROVE handlers'[closures'[a].subj] = a
    <3>1. handlers[closures[a].subj] = a /\ closures[a].subj # s
      BY <1>4, <2>1, <2>3 DEF CInv, Table
    <3>2. closures[a].subj \in Subjects
      BY <1>1, ClosureAt DEF n
    <3> QED
      BY <1>1, <1>2, <1>3, <3>1, <3>2
  <2> QED
    BY <1>3, <1>4, <1>5, <2>2, <2>3 DEF Table, netVars
<1>12. Alive'
  BY <1>3, <1>4, <1>5 DEF CInv, Alive, Connected, netVars, readerVars
<1>13. InOrder'
  <2>1. \A a \in 1..(n + 1) :
            closures'[a].st.init => closures'[a].st.last < heard[closures'[a].subj]
    BY <1>1, <1>2 DEF CInv, InOrder, n
  <2>2. reader = "call" => closures'[cur.sid] = closures[cur.sid]
    BY <1>2 DEF IInv, Pointers, n
  <2> QED
    BY <1>2, <1>3, <2>1, <2>2 DEF CInv, InOrder, netVars, readerVars, pubVars, countVars
<1> QED
  BY <1>6, <1>7, <1>8, <1>9, <1>10, <1>11, <1>12, <1>13 DEF CInv

-----------------------------------------------------------------------------
(* Subscribe and Unsubscribe keep CInv *)

\* What the return of a Subscribe does to the calls and handles that are left.
LEMMA ReturnShape ==
    ASSUME IInv, CInv, pc = "write", NEW h \in Nat, Return(h)
    PROVE  /\ Len(queue) \in Nat /\ Len(queue') \in Nat /\ Len(queue) = Len(queue') + 1
           /\ Head(queue) = queue[1] /\ queue # <<>>
           /\ \A k \in 1..Len(queue') : k + 1 \in 1..Len(queue) /\ queue'[k] = queue[k + 1]
           /\ queue' # <<>> <=> pc' = "register"
           /\ queue' # <<>> => Head(queue') = queue[2] /\ 2 \in 1..Len(queue)
           /\ queue' = <<>> <=> Len(queue') = 0
           /\ pc' \in {"register", "swap", "idle"}
           /\ \A slot \in Slots :
                subs'[slot] = IF Head(queue).slot = slot THEN h ELSE subs[slot]
           /\ Head(queue).slot # 0 => Head(queue).slot \in Slots
<1>1. /\ queue # <<>> /\ queue \in Seq(Call) /\ subs \in [Slots -> Nat]
  BY DEF IInv, TypeOK, Pointers
<1>2. /\ Len(queue) \in Nat /\ Len(queue) >= 1 /\ Len(Tail(queue)) = Len(queue) - 1
      /\ \A k \in 1..(Len(queue) - 1) : Tail(queue)[k] = queue[k + 1]
      /\ Head(queue) = queue[1] /\ Tail(queue) \in Seq(Call)
  BY <1>1, TailAt
<1>3. Head(queue).slot \in 0..NumSlots /\ (Head(queue).slot # 0 => Head(queue).slot \in Slots)
  BY <1>1, HeadCall, ConstantTypes
<1>4. /\ queue' = Tail(queue)
      /\ pc' = IF Tail(queue) # <<>> THEN "register" ELSE IF swaps > 0 THEN "swap" ELSE "idle"
      /\ subs' = IF Head(queue).slot = 0 THEN subs ELSE [subs EXCEPT ![Head(queue).slot] = h]
  BY DEF Return
<1>5. queue' # <<>> => Head(queue') = queue'[1] /\ Len(queue') >= 1
  BY <1>2, <1>4
<1>6. queue' = <<>> <=> Len(queue') = 0
  <2>1. queue' \in Seq(Call)
    BY <1>2, <1>4
  <2> QED
    BY <2>1
<1>7. \A k \in 1..Len(queue') : k + 1 \in 1..Len(queue) /\ queue'[k] = queue[k + 1]
  BY <1>2, <1>4
<1>8. queue' # <<>> => Head(queue') = queue[2] /\ 2 \in 1..Len(queue)
  BY <1>2, <1>4, <1>5, <1>7
<1>9. \A slot \in Slots : subs'[slot] = IF Head(queue).slot = slot THEN h ELSE subs[slot]
  <2>1. CASE Head(queue).slot = 0
    <3>1. 0 \notin Slots /\ subs' = subs
      BY <1>4, <2>1, ConstantTypes
    <3> QED
      BY <2>1, <3>1
  <2>2. CASE Head(queue).slot # 0
    <3>1. subs' = [subs EXCEPT ![Head(queue).slot] = h]
      BY <1>4, <2>2
    <3> QED
      BY <1>1, <1>3, <2>2, <3>1
  <2> QED
    BY <2>1, <2>2
<1> QED
  BY <1>1, <1>2, <1>3, <1>4, <1>6, <1>7, <1>8, <1>9

\* The handles kept after a return are those from before, and the new one.
LEMMA ReturnKeeps ==
    ASSUME IInv, CInv, pc = "write", NEW h \in Nat, Return(h), NEW slot \in Slots
    PROVE  /\ subs[slot] # 0 /\ ~Busy(slot) => subs'[slot] = subs[slot] /\ ~Busy(slot)'
           /\ subs'[slot] # 0 /\ subs'[slot] # h => ~Busy(slot) /\ subs'[slot] = subs[slot]
           /\ Head(queue).slot = slot => ~Busy(slot)'
<1>1. ASSUME queue' # <<>>, Head(queue').slot = slot
      PROVE  subs[slot] = 0 /\ Head(queue).slot # slot
  <2>1. 1 \in 1..Len(queue) /\ 2 \in 1..Len(queue) /\ queue[2].slot = slot /\ slot # 0
        /\ Head(queue) = queue[1]
    BY <1>1, ReturnShape, ConstantTypes
  <2>2. queue[1].slot # queue[2].slot /\ subs[queue[2].slot] = 0
    BY <2>1 DEF CInv, Calls
  <2> QED
    BY <2>1, <2>2
<1>2. subs'[slot] = IF Head(queue).slot = slot THEN h ELSE subs[slot]
  BY ReturnShape
<1>3. Busy(slot) <=> Head(queue).slot = slot
  BY ReturnShape DEF Busy
<1> QED
  BY <1>1, <1>2, <1>3 DEF Busy

\* What a return leaves of Calls and of Handles, whatever the handle; done is the
\* number of calls made.
LEMMA ReturnCalls ==
    ASSUME IInv, CInv, pc = "write", NEW h \in {0, Len(closures)}, Return(h),
           UNCHANGED <<visibleIdx, closures>>
    PROVE  /\ Done \in Nat /\ Done' = Done + 1 /\ Done' = Len(closures)
           /\ Len(closures) \in Nat
           /\ Calls'
<1>1. Len(closures) \in Nat /\ Len(closures) # 0 /\ h \in Nat
  BY DEF IInv, TypeOK, CInv, Handles
<1>2. Done \in Nat /\ Done' = Done + 1 /\ Done' = Len(closures)
  BY <1>1, ReturnShape DEF Done
<1> DEFINE q == queue'
<1>3. ASSUME NEW k \in 1..Len(q)
      PROVE  /\ q[k].slot = 0 => Done' + k <= Len(Feeds) /\ q[k].subj = Feeds[Done' + k]
             /\ q[k].slot # 0 => Done' + k > Len(Feeds) /\ q[k].subj = visibleIdx[q[k].slot]
  <2>1. k + 1 \in 1..Len(queue) /\ q[k] = queue[k + 1]
    BY <1>1, ReturnShape
  <2>2. Done + (k + 1) = Done' + k
    BY <1>2, <2>1
  <2>3. /\ queue[k + 1].slot = 0 => Done + (k + 1) <= Len(Feeds)
                                   /\ queue[k + 1].subj = Feeds[Done + (k + 1)]
        /\ queue[k + 1].slot # 0 => Done + (k + 1) > Len(Feeds)
                                   /\ queue[k + 1].subj = visibleIdx[queue[k + 1].slot]
    BY <2>1 DEF CInv, Calls
  <2> QED
    BY <2>1, <2>2, <2>3
<1>4. ASSUME NEW j \in 1..Len(q), NEW k \in 1..Len(q), j < k, q[k].slot # 0
      PROVE  q[j].slot # q[k].slot /\ subs'[q[k].slot] = 0
  <2>1. /\ j + 1 \in 1..Len(queue) /\ q[j] = queue[j + 1]
        /\ k + 1 \in 1..Len(queue) /\ q[k] = queue[k + 1]
        /\ 1 \in 1..Len(queue) /\ j + 1 < k + 1 /\ 1 < k + 1
    <3>1. /\ Len(queue) \in Nat /\ Len(q) \in Nat
          /\ j + 1 \in 1..Len(queue) /\ q[j] = queue[j + 1]
          /\ k + 1 \in 1..Len(queue) /\ q[k] = queue[k + 1]
      BY <1>1, ReturnShape
    <3> QED
      BY <1>4, <3>1
  <2>2. q[j].slot # q[k].slot /\ queue[1].slot # q[k].slot /\ subs[q[k].slot] = 0
    BY <1>4, <2>1 DEF CInv, Calls
  <2>3. q[k].slot \in Slots
    <3>1. q[k].slot \in 0..NumSlots
      <4>1. queue[k + 1] \in Call
        BY <2>1 DEF IInv, TypeOK
      <4> QED
        BY <2>1, <4>1 DEF Call
    <3> QED
      BY <1>4, <3>1, ConstantTypes
  <2>4. Head(queue) = queue[1]
    BY <1>1, ReturnShape
  <2> QED
    BY <1>1, <2>2, <2>3, <2>4, ReturnShape
<1>5. q # <<>> => pc' = "register"
  BY <1>1, ReturnShape
<1>6. Done' + Len(q) >= Len(Feeds)
  BY <1>1, <1>2, ReturnShape, ConstantTypes DEF CInv, Calls, Connected
<1>7. visibleIdx' = visibleIdx
  OBVIOUS
<1> QED
  BY <1>1, <1>2, <1>3, <1>4, <1>5, <1>6, <1>7 DEF Calls

\* What a frame that is sent, or goes nowhere, does to the channel.
LEMMA SendShape ==
    ASSUME IInv, NEW f \in Frame, Send(f)
    PROVE  /\ Len(toBroker) \in Nat
           /\ ~up => toBroker' = toBroker
           /\ up => /\ Len(toBroker') = Len(toBroker) + 1
                    /\ \A j \in 1..Len(toBroker) : toBroker'[j] = toBroker[j]
                    /\ toBroker'[Len(toBroker) + 1] = f
<1>1. toBroker \in Seq(Frame)
  BY DEF IInv, TypeOK
<1> QED
  BY <1>1, AppendAt DEF Send

\* A written Sub frame makes its sid one that was sent, and no other.
LEMMA SubWrittenSent ==
    ASSUME IInv, CInv, SubWritten
    PROVE  /\ \A a : Sent(a)' <=> Sent(a) \/ (up /\ a = Len(closures))
           /\ \A a : Unsubbed(a)' <=> Unsubbed(a)
           /\ \A a : Used(a)' <=> Used(a) \/ (up /\ a = Len(closures))
<1> DEFINE n == Len(closures)
           f == [op |-> "sub", sid |-> n, subj |-> Head(queue).subj]
<1>1. f \in Frame /\ Send(f) /\ UNCHANGED <<brokerSubs, fromBroker>>
  <2>1. queue # <<>> /\ n \in Nat /\ Head(queue).subj \in Subjects
    BY HeadCall DEF IInv, TypeOK, Pointers, SubWritten
  <2> QED
    BY <2>1 DEF SubWritten, Frame
<1>2. f.op = "sub" /\ f.sid = n
  OBVIOUS
<1> HIDE DEF f, n
<1>3. /\ Len(toBroker) \in Nat
      /\ ~up => toBroker' = toBroker
      /\ up => /\ Len(toBroker') = Len(toBroker) + 1
               /\ \A j \in 1..Len(toBroker) : toBroker'[j] = toBroker[j]
               /\ toBroker'[Len(toBroker) + 1] = f
  BY <1>1, SendShape
<1>4. CASE up
  <2>1. \A j : j \in 1..Len(toBroker') <=> j \in 1..Len(toBroker) \/ j = Len(toBroker) + 1
    BY <1>3, <1>4
  <2>2. \A a : Sent(a)' <=> Sent(a) \/ a = n
    BY <1>1, <1>2, <1>3, <1>4, <2>1 DEF Sent, IsFrame
  <2>3. \A a : Unsubbed(a)' <=> Unsubbed(a)
    BY <1>2, <1>3, <1>4, <2>1 DEF Unsubbed, IsFrame
  <2> QED
    BY <1>1, <1>4, <2>2, <2>3 DEF Used, n
<1>5. CASE ~up
  BY <1>1, <1>3, <1>5 DEF Sent, Unsubbed, Used, IsFrame
<1> QED
  BY <1>4, <1>5

LEMMA SubWrittenCInv == ASSUME IInv, CInv, SubWritten PROVE CInv'
<1> DEFINE n == Len(closures)
           f == [op |-> "sub", sid |-> n, subj |-> Head(queue).subj]
<1>1. /\ pc = "write" /\ Return(n) /\ n \in {0, Len(closures)}
      /\ UNCHANGED <<visibleIdx, notVisible, up, fromBroker, brokerSubs>>
      /\ UNCHANGED <<readerVars, tableVars, pubVars, countVars>>
  BY DEF SubWritten
<1>2. /\ Done \in Nat /\ n = Done + 1 /\ Done' = n /\ n \in Nat
      /\ Calls'
  BY <1>1, ReturnCalls DEF tableVars
<1>3. f \in Frame /\ Send(f) /\ f.op = "sub" /\ f.sid = n /\ f.subj = closures[n].subj
  <2>1. queue # <<>> /\ n \in Nat /\ Head(queue).subj \in Subjects
    BY HeadCall DEF IInv, TypeOK, Pointers, SubWritten
  <2>2. Head(queue).subj = closures[n].subj
    BY <1>1 DEF CInv, Handles
  <2> QED
    BY <2>1, <2>2 DEF SubWritten, Frame
<1> HIDE DEF f, n
<1>4. /\ Len(toBroker) \in Nat
      /\ ~up => toBroker' = toBroker
      /\ up => /\ Len(toBroker') = Len(toBroker) + 1
               /\ \A j \in 1..Len(toBroker) : toBroker'[j] = toBroker[j]
               /\ toBroker'[Len(toBroker) + 1] = f
  BY <1>3, SendShape
<1>5. /\ \A a : Sent(a)' <=> Sent(a) \/ (up /\ a = n)
      /\ \A a : Unsubbed(a)' <=> Unsubbed(a)
      /\ \A a : Used(a)' <=> Used(a) \/ (up /\ a = n)
  BY SubWrittenSent DEF n
<1>6. \A slot \in Slots :
        /\ subs[slot] # 0 /\ ~Busy(slot) => subs'[slot] = subs[slot] /\ ~Busy(slot)'
        /\ subs'[slot] # 0 /\ subs'[slot] # n => ~Busy(slot) /\ subs'[slot] = subs[slot]
        /\ Head(queue).slot = slot => ~Busy(slot)' /\ subs'[slot] = n
        /\ Head(queue).slot # slot => subs'[slot] = subs[slot]
  BY <1>1, <1>2, ReturnKeeps, ReturnShape
<1>7. /\ Head(queue).slot # 0 => Head(queue).slot \in Slots
      /\ pc' \in {"register", "swap", "idle"} /\ Head(queue) = queue[1] /\ 1 \in 1..Len(queue)
  BY <1>1, <1>2, ReturnShape
<1>8. Frames'
  <2>1. \A j \in 1..Len(toBroker) : toBroker[j].sid \in 1..Done /\ toBroker[j].sid # n
                                    /\ toBroker[j].sid \in 1..n
    BY <1>2 DEF CInv, Frames
  <2>2. CASE up
    <3>1. \A j : j \in 1..Len(toBroker') <=> j \in 1..Len(toBroker) \/ j = Len(toBroker) + 1
      BY <1>4, <2>2
    <3>2. \A j \in 1..Len(toBroker') : toBroker'[j].sid \in 1..n
                                       /\ toBroker'[j].subj = closures[toBroker'[j].sid].subj
      BY <1>2, <1>3, <1>4, <2>1, <2>2, <3>1 DEF CInv, Frames
    <3>3. \A b \in brokerSubs : b.sid \in 1..n /\ b.sid # n /\ b.subj = closures[b.sid].subj
      BY <1>2 DEF CInv, Frames
    <3>4. ASSUME NEW h \in 1..Len(toBroker'), NEW j \in 1..Len(toBroker'), h < j,
                 toBroker'[h].sid = toBroker'[j].sid
          PROVE  toBroker'[j].op = "unsub"
      <4>1. h \in 1..Len(toBroker)
        BY <1>4, <2>2, <3>1, <3>4
      <4>2. j # Len(toBroker) + 1
        BY <1>3, <1>4, <2>1, <2>2, <3>4, <4>1
      <4> QED
        BY <1>4, <2>2, <3>1, <3>4, <4>1, <4>2 DEF CInv, Frames
    <3>5. ASSUME NEW b \in brokerSubs, NEW j \in 1..Len(toBroker'), toBroker'[j].sid = b.sid
          PROVE  toBroker'[j].op = "unsub"
      <4>1. j # Len(toBroker) + 1
        BY <1>3, <1>4, <2>2, <3>3, <3>5
      <4> QED
        BY <1>4, <2>2, <3>1, <3>5, <4>1 DEF CInv, Frames
    <3> QED
      BY <1>1, <1>2, <2>2, <3>2, <3>3, <3>4, <3>5 DEF Frames, tableVars
  <2>3. CASE ~up
    BY <1>1, <1>4, <2>3 DEF CInv, Frames
  <2> QED
    BY <2>2, <2>3
<1>9. Separated'
  <2>1. ASSUME NEW a \in 1..n, NEW b \in 1..n, a < b, closures[a].subj = closures[b].subj,
               Sent(a)', Sent(b)'
        PROVE  \E h, j \in 1..Len(toBroker') :
                   h < j /\ IsFrame(h, "unsub", a)' /\ IsFrame(j, "sub", b)'
    <3>1. Sent(a) /\ a \in 1..Done /\ up /\ a # n
      <4>1. a # n /\ a \in 1..Done
        BY <1>2, <2>1
      <4>2. ~up => ~Sent(a)
        <5>1. ~up => Len(toBroker) = 0 /\ brokerSubs = {}
          BY DEF CInv, Frames
        <5> QED
          BY <5>1 DEF Sent
      <4> QED
        BY <1>5, <2>1, <4>1, <4>2
    <3>2. CASE b = n
      <4>1. Unsubbed(a)
        <5>1. ~Relied(a)
          BY <1>1, <1>3, <2>1, <3>1, <3>2, HeadFree DEF f
        <5>2. ~Kept(a)
          BY <1>1, <5>1 DEF Kept, Relied
        <5> QED
          BY <3>1, <5>2 DEF CInv, NoLeak
      <4>2. PICK h \in 1..Len(toBroker) : IsFrame(h, "unsub", a)
        BY <4>1 DEF Unsubbed
      <4>3. PICK j \in 1..Len(toBroker') : j = Len(toBroker) + 1
        BY <1>4, <3>1
      <4>4. h \in 1..Len(toBroker') /\ h < j
        BY <1>4, <3>1, <4>3
      <4>5. IsFrame(h, "unsub", a)'
        BY <1>4, <3>1, <4>2 DEF IsFrame
      <4>6. IsFrame(j, "sub", b)'
        BY <1>3, <1>4, <3>1, <3>2, <4>3 DEF IsFrame
      <4> QED
        BY <4>4, <4>5, <4>6
    <3>3. CASE b # n
      <4>1. b \in 1..Done /\ Sent(b)
        BY <1>2, <1>5, <2>1, <3>3
      <4>2. PICK h, j \in 1..Len(toBroker) :
                h < j /\ IsFrame(h, "unsub", a) /\ IsFrame(j, "sub", b)
        BY <2>1, <3>1, <4>1 DEF CInv, Separated
      <4>3. h \in 1..Len(toBroker') /\ j \in 1..Len(toBroker')
        BY <1>4, <3>1
      <4>4. IsFrame(h, "unsub", a)' /\ IsFrame(j, "sub", b)'
        BY <1>4, <3>1, <4>2 DEF IsFrame
      <4> QED
        BY <4>2, <4>3, <4>4
    <3> QED
      BY <3>2, <3>3
  <2> QED
    BY <1>1, <1>2, <2>1 DEF Separated, tableVars
<1>10. NoLeak'
  <2>1. ASSUME NEW a \in 1..n, Sent(a)', ~Unsubbed(a)' PROVE Kept(a)'
    <3>1. CASE a = n
      <4>1. CASE Head(queue).slot = 0
        BY <1>2, <1>7, <3>1, <4>1 DEF CInv, Calls, Kept
      <4>2. CASE Head(queue).slot # 0
        BY <1>6, <1>7, <3>1, <4>2 DEF Kept
      <4> QED
        BY <4>1, <4>2
    <3>2. CASE a # n
      <4>1. Sent(a) /\ ~Unsubbed(a) /\ a \in 1..Done /\ a # 0
        BY <1>2, <1>5, <2>1, <3>2
      <4>2. a <= Len(Feeds) \/ \E slot \in Slots : subs[slot] = a /\ ~Busy(slot)
        BY <1>1, <4>1 DEF CInv, NoLeak, Kept
      <4> QED
        BY <1>6, <4>1, <4>2 DEF Kept
    <3> QED
      BY <3>1, <3>2
  <2> QED
    BY <1>2, <2>1 DEF NoLeak
<1>11. Handles'
  <2>1. ASSUME NEW slot \in Slots, subs'[slot] # 0
        PROVE  /\ subs'[slot] <= n /\ closures[subs'[slot]].subj \in Symbols
               /\ ~Busy(slot)' => closures[subs'[slot]].subj = visibleIdx[slot]
    <3>1. CASE Head(queue).slot = slot
      <4>1. Head(queue).subj = visibleIdx[slot] /\ subs'[slot] = n
        BY <1>6, <1>7, <3>1, ConstantTypes DEF CInv, Calls
      <4>2. visibleIdx[slot] \in Symbols /\ closures[n].subj = Head(queue).subj
        BY <1>1 DEF IInv, TypeOK, CInv, Handles, n
      <4> QED
        BY <1>2, <4>1, <4>2
    <3>2. CASE Head(queue).slot # slot
      <4>1. subs'[slot] = subs[slot] /\ ~Busy(slot)
        BY <1>6, <3>2 DEF Busy
      <4>2. subs[slot] <= Done /\ subs[slot] \in Nat
        BY <2>1, <4>1 DEF CInv, Handles, IInv, TypeOK
      <4> QED
        BY <1>2, <2>1, <4>1, <4>2 DEF CInv, Handles
    <3> QED
      BY <3>1, <3>2
  <2>2. pc' # "unsub" /\ pc' # "write"
    BY <1>7
  <2> QED
    BY <1>1, <1>2, <2>1, <2>2 DEF CInv, Handles, tableVars
<1>12. Table'
  <2>1. ASSUME NEW a \in 1..n, Used(a)', Relied(a)' PROVE handlers[closures[a].subj] = a
    <3>1. CASE a = n
      BY <1>1, <3>1 DEF CInv, Handles, n
    <3>2. CASE a # n
      <4>1. Used(a) /\ a \in 1..Done /\ a # 0
        BY <1>2, <1>5, <2>1, <3>2
      <4>2. Relied(a)
        BY <1>6, <2>1, <3>2, <4>1 DEF Relied
      <4> QED
        BY <4>1, <4>2 DEF CInv, Table
    <3> QED
      BY <3>1, <3>2
  <2>2. \A k \in 1..Len(fromBroker) : fromBroker[k].sid \in 1..n
    BY <1>2 DEF CInv, Table
  <2> QED
    BY <1>1, <1>2, <2>1, <2>2 DEF CInv, Table, tableVars
<1>13. Alive'
  <2>1. ~Unsubbed(n)
    BY <1>2 DEF CInv, Frames, Unsubbed, IsFrame
  <2>2. ASSUME up', NEW a \in 1..n, a <= Len(Feeds) PROVE Sent(a)' /\ ~Unsubbed(a)'
    <3>1. CASE a = n
      BY <1>1, <1>5, <2>1, <2>2, <3>1
    <3>2. CASE a # n
      <4>1. a \in 1..Done
        BY <1>2, <3>2
      <4> QED
        BY <1>1, <1>5, <2>2, <4>1 DEF CInv, Alive
    <3> QED
      BY <3>1, <3>2
  <2>3. ASSUME up', NEW slot \in Slots, \A k \in 1..Len(queue') : queue'[k].slot # slot
        PROVE  subs'[slot] # 0 /\ Sent(subs[slot])' /\ ~Unsubbed(subs[slot])'
    <3>1. CASE Head(queue).slot = slot
      BY <1>1, <1>2, <1>5, <1>6, <2>1, <2>3, <3>1
    <3>2. CASE Head(queue).slot # slot
      <4>1. ASSUME NEW k \in 1..Len(queue) PROVE queue[k].slot # slot
        <5>1. CASE k = 1
          BY <1>7, <3>2, <5>1
        <5>2. CASE k # 1
          <6> DEFINE j == k - 1
          <6>1. j \in 1..Len(queue') /\ j + 1 = k
            BY <1>1, <1>2, <5>2, ReturnShape
          <6>2. queue'[j] = queue[j + 1]
            BY <1>1, <1>2, <6>1, ReturnShape
          <6> QED
            BY <2>3, <6>1, <6>2
        <5> QED
          BY <5>1, <5>2
      <4>2. subs[slot] # 0 /\ Sent(subs[slot]) /\ ~Unsubbed(subs[slot])
        BY <1>1, <2>3, <4>1 DEF CInv, Alive
      <4> QED
        BY <1>5, <1>6, <3>2, <4>2
    <3> QED
      BY <3>1, <3>2
  <2>4. Connected'
    BY <1>7 DEF Connected
  <2> QED
    BY <1>1, <1>2, <2>2, <2>3, <2>4 DEF CInv, Alive, readerVars
<1>14. InOrder'
  BY <1>1 DEF CInv, InOrder, readerVars, tableVars, pubVars, countVars
<1> QED
  BY <1>2, <1>8, <1>9, <1>10, <1>11, <1>12, <1>13, <1>14 DEF CInv

\* A connection that is down holds no frame and no subscription.
LEMMA NothingSent ==
    ASSUME ~up, toBroker = <<>>, brokerSubs = {}
    PROVE  \A a : ~Sent(a) /\ ~Unsubbed(a)
<1>1. Len(toBroker) = 0
  OBVIOUS
<1> QED
  BY <1>1 DEF Sent, Unsubbed

LEMMA SubFailedCInv == ASSUME IInv, CInv, SubFailed PROVE CInv'
<1> DEFINE n == Len(closures)
           s == Head(queue).subj
<1>1. /\ pc = "write" /\ ~up /\ Return(0) /\ 0 \in {0, Len(closures)} /\ 0 \in Nat
      /\ handlers' = [handlers EXCEPT ![s] = 0]
      /\ UNCHANGED <<visibleIdx, notVisible, closures>>
      /\ UNCHANGED <<netVars, readerVars, pubVars, countVars>>
  BY DEF SubFailed
<1>2. /\ Done \in Nat /\ n = Done + 1 /\ Done' = n /\ n \in Nat
      /\ Calls'
  BY <1>1, ReturnCalls
<1> HIDE DEF n
<1>3. toBroker = <<>> /\ brokerSubs = {} /\ \A a : ~Sent(a)
  BY <1>1, NothingSent DEF CInv, Frames
<1>4. /\ \A a : ~Sent(a)'
      /\ \A a : Used(a)' = Used(a)
  <2>1. \A a : Sent(a)' = Sent(a)
    BY <1>1 DEF Sent, IsFrame, netVars
  <2> QED
    BY <1>1, <1>3, <2>1 DEF Used, netVars
<1>5. \A slot \in Slots :
        /\ subs'[slot] # 0 => ~Busy(slot) /\ subs'[slot] = subs[slot]
        /\ Head(queue).slot # slot => subs'[slot] = subs[slot]
  BY <1>1, ReturnKeeps, ReturnShape
<1>6. pc' \in {"register", "swap", "idle"}
  BY <1>1, ReturnShape
<1>7. Frames'
  <2>1. Len(toBroker') = 0 /\ toBroker' = <<>> /\ brokerSubs' = {}
    BY <1>1, <1>3 DEF netVars
  <2> QED
    BY <2>1 DEF Frames
<1>8. Separated' /\ NoLeak'
  BY <1>4 DEF Separated, NoLeak
<1>9. Handles'
  <2>1. ASSUME NEW slot \in Slots, subs'[slot] # 0
        PROVE  /\ subs'[slot] <= n /\ closures[subs'[slot]].subj \in Symbols
               /\ closures[subs'[slot]].subj = visibleIdx[slot]
    <3>1. subs'[slot] = subs[slot] /\ ~Busy(slot) /\ subs[slot] \in Nat
      BY <1>5, <2>1 DEF IInv, TypeOK
    <3> QED
      BY <1>2, <2>1, <3>1 DEF CInv, Handles
  <2>2. ASSUME NEW t \in Subjects, handlers'[t] # 0 PROVE closures[handlers'[t]].subj = t
    <3>1. handlers'[t] = handlers[t]
      BY <1>1, <2>2 DEF IInv, TypeOK
    <3> QED
      BY <2>2, <3>1 DEF CInv, Handles
  <2>3. \A a \in 1..Len(closures') : a <= Len(Feeds) => closures'[a].subj = Feeds[a]
    BY <1>1 DEF CInv, Handles
  <2> QED
    BY <1>1, <1>2, <1>6, <2>1, <2>2, <2>3 DEF Handles
<1>10. Table'
  <2>1. ASSUME NEW a \in 1..n, Used(a), Relied(a)' PROVE handlers'[closures[a].subj] = a
    <3>1. a \in 1..Done /\ a # 0
      <4>1. \E k \in 1..Len(fromBroker) : fromBroker[k].sid = a
        BY <1>3, <2>1 DEF Used
      <4> QED
        BY <1>2, <4>1 DEF CInv, Table
    <3>2. Relied(a)
      BY <1>5, <2>1, <3>1 DEF Relied
    <3>3. closures[a].subj # s /\ handlers[closures[a].subj] = a
      BY <1>1, <2>1, <3>1, <3>2, HeadFree DEF CInv, Table
    <3>4. closures[a].subj \in Subjects
      BY ClosureAt DEF IInv, TypeOK, n
    <3> QED
      BY <1>1, <3>3, <3>4 DEF IInv, TypeOK
  <2>2. \A k \in 1..Len(fromBroker) : fromBroker[k].sid \in 1..n
    BY <1>2 DEF CInv, Table
  <2> QED
    BY <1>1, <1>2, <1>4, <2>1, <2>2 DEF CInv, Table, netVars
<1>11. Alive'
  BY <1>1 DEF CInv, Alive, netVars, readerVars
<1>12. InOrder'
  BY <1>1 DEF CInv, InOrder, readerVars, netVars, pubVars, countVars
<1> QED
  BY <1>2, <1>7, <1>8, <1>9, <1>10, <1>11, <1>12 DEF CInv

LEMMA UnsubWrittenSent ==
    ASSUME IInv, CInv, UnsubWritten
    PROVE  /\ \A a : Sent(a)' <=> Sent(a)
           /\ \A a : Unsubbed(a)' <=> Unsubbed(a) \/ (up /\ a = subs[Head(queue).slot])
           /\ \A a : Used(a)' <=> Used(a)
<1> DEFINE n == subs[Head(queue).slot]
           f == UnsubFrame(n)
<1>1. f \in Frame /\ Send(f) /\ UNCHANGED <<brokerSubs, fromBroker>>
  <2>1. n \in 1..Len(closures)
    BY DEF IInv, TypeOK, Pointers, UnsubWritten
  <2> QED
    BY <2>1, ClosureAt DEF UnsubWritten, UnsubFrame, Frame, IInv, TypeOK
<1>2. f.op = "unsub" /\ f.sid = n
  BY DEF UnsubFrame
<1> HIDE DEF f, n
<1>3. /\ Len(toBroker) \in Nat
      /\ ~up => toBroker' = toBroker
      /\ up => /\ Len(toBroker') = Len(toBroker) + 1
               /\ \A j \in 1..Len(toBroker) : toBroker'[j] = toBroker[j]
               /\ toBroker'[Len(toBroker) + 1] = f
  BY <1>1, SendShape
<1>4. CASE up
  <2>1. \A j : j \in 1..Len(toBroker') <=> j \in 1..Len(toBroker) \/ j = Len(toBroker) + 1
    BY <1>3, <1>4
  <2>2. \A a : Unsubbed(a)' <=> Unsubbed(a) \/ a = n
    BY <1>1, <1>2, <1>3, <1>4, <2>1 DEF Unsubbed, IsFrame
  <2>3. \A a : Sent(a)' <=> Sent(a)
    BY <1>1, <1>2, <1>3, <1>4, <2>1 DEF Sent, IsFrame
  <2> QED
    BY <1>1, <1>4, <2>2, <2>3 DEF Used, n
<1>5. CASE ~up
  BY <1>1, <1>3, <1>5 DEF Sent, Unsubbed, Used, IsFrame
<1> QED
  BY <1>4, <1>5

LEMMA UnsubWrittenCInv == ASSUME IInv, CInv, UnsubWritten PROVE CInv'
<1> DEFINE n == subs[Head(queue).slot]
           f == UnsubFrame(n)
<1>1. /\ pc = "unsub" /\ pc' = "register"
      /\ UNCHANGED <<queue, visibleIdx, notVisible, subs, up, fromBroker, brokerSubs>>
      /\ UNCHANGED <<readerVars, tableVars, pubVars, countVars>>
  BY DEF UnsubWritten
<1>2. Done' = Done /\ Done = Len(closures) /\ Done \in Nat
  BY <1>1 DEF Done, tableVars, IInv, TypeOK
<1>3. n \in 1..Done /\ closures[n].subj \in Symbols /\ closures[n].subj \in notVisible
  BY <1>1, <1>2 DEF IInv, TypeOK, Pointers, CInv, Handles
<1>4. f \in Frame /\ Send(f) /\ f.op = "unsub" /\ f.sid = n /\ f.subj = closures[n].subj
  <2>1. n \in 1..Len(closures) /\ Len(closures) \in Nat
    BY <1>2, <1>3
  <2> QED
    BY <2>1, ClosureAt, SMTT(40) DEF UnsubWritten, UnsubFrame, Frame, IInv, TypeOK
<1>5. ASSUME NEW slot \in Slots, subs[slot] # 0, ~Busy(slot) PROVE subs[slot] # n
  BY <1>3, <1>5, SMTT(40) DEF CInv, Handles, IInv, VisiblePartition, TypeOK, Range
<1>6. Head(queue).slot \in Slots /\ \A slot : Busy(slot)' = Busy(slot)
  BY <1>1 DEF IInv, Pointers, Busy
<1>7. \A slot \in Slots : Busy(slot) => subs[slot] = n
  BY DEF Busy
<1>8. /\ \A a : Sent(a)' <=> Sent(a)
      /\ \A a : Unsubbed(a)' <=> Unsubbed(a) \/ (up /\ a = n)
      /\ \A a : Used(a)' <=> Used(a)
  BY UnsubWrittenSent
<1> HIDE DEF f, n
<1>9. /\ Len(toBroker) \in Nat
      /\ ~up => toBroker' = toBroker
      /\ up => /\ Len(toBroker') = Len(toBroker) + 1
               /\ \A j \in 1..Len(toBroker) : toBroker'[j] = toBroker[j]
               /\ toBroker'[Len(toBroker) + 1] = f
  BY <1>4, SendShape
<1>10. \A j : up => (j \in 1..Len(toBroker') <=> j \in 1..Len(toBroker) \/ j = Len(toBroker) + 1)
  BY <1>9
<1>11. Frames'
  <2>1. CASE up
    <3>1. \A j \in 1..Len(toBroker') : toBroker'[j].sid \in 1..Done
                                       /\ toBroker'[j].subj = closures[toBroker'[j].sid].subj
      BY <1>3, <1>4, <1>9, <1>10, <2>1 DEF CInv, Frames
    <3>2. ASSUME NEW h \in 1..Len(toBroker'), NEW j \in 1..Len(toBroker'), h < j,
                 toBroker'[h].sid = toBroker'[j].sid
          PROVE  toBroker'[j].op = "unsub"
      <4>1. CASE j = Len(toBroker) + 1
        BY <1>4, <1>9, <2>1, <4>1
      <4>2. CASE j # Len(toBroker) + 1
        <5>1. j \in 1..Len(toBroker)
          BY <1>10, <2>1, <4>2
        <5>2. h \in 1..Len(toBroker)
          BY <1>9, <3>2, <5>1
        <5> QED
          BY <1>9, <2>1, <3>2, <5>1, <5>2 DEF CInv, Frames
      <4> QED
        BY <4>1, <4>2
    <3>3. ASSUME NEW b \in brokerSubs, NEW j \in 1..Len(toBroker'), toBroker'[j].sid = b.sid
          PROVE  toBroker'[j].op = "unsub"
      <4>1. CASE j = Len(toBroker) + 1
        BY <1>4, <1>9, <2>1, <4>1
      <4>2. CASE j # Len(toBroker) + 1
        <5>1. j \in 1..Len(toBroker)
          BY <1>10, <2>1, <4>2
        <5> QED
          BY <1>9, <2>1, <3>3, <5>1 DEF CInv, Frames
      <4> QED
        BY <4>1, <4>2
    <3>4. \A b \in brokerSubs : b.sid \in 1..Done /\ b.subj = closures[b.sid].subj
      BY DEF CInv, Frames
    <3> QED
      BY <1>1, <1>2, <2>1, <3>1, <3>2, <3>3, <3>4 DEF Frames, tableVars
  <2>2. CASE ~up
    BY <1>1, <1>2, <1>9, <2>2 DEF CInv, Frames, tableVars
  <2> QED
    BY <2>1, <2>2
<1>12. Separated'
  <2>1. ASSUME NEW a \in 1..Done, NEW b \in 1..Done, a < b, closures[a].subj = closures[b].subj,
               Sent(a), Sent(b)
        PROVE  \E h, j \in 1..Len(toBroker') :
                   h < j /\ IsFrame(h, "unsub", a)' /\ IsFrame(j, "sub", b)'
    <3>1. PICK h, j \in 1..Len(toBroker) : h < j /\ IsFrame(h, "unsub", a) /\ IsFrame(j, "sub", b)
      BY <2>1 DEF CInv, Separated
    <3>2. h \in 1..Len(toBroker') /\ j \in 1..Len(toBroker')
      BY <1>9, <1>10
    <3>3. IsFrame(h, "unsub", a)' /\ IsFrame(j, "sub", b)'
      BY <1>9, <3>1 DEF IsFrame
    <3> QED
      BY <3>1, <3>2, <3>3
  <2> QED
    BY <1>1, <1>2, <1>8, <2>1 DEF Separated, tableVars
<1>13. NoLeak'
  <2>1. ASSUME NEW a \in 1..Done, Sent(a), ~Unsubbed(a)' PROVE Kept(a)'
    <3>1. up /\ ~Unsubbed(a) /\ a # n /\ a # 0
      <4>1. up
        BY <2>1, NothingSent DEF CInv, Frames
      <4> QED
        BY <1>2, <1>8, <2>1, <4>1
    <3>2. Kept(a)
      BY <2>1, <3>1 DEF CInv, NoLeak
    <3> QED
      BY <1>1, <1>6, <1>7, <3>1, <3>2 DEF Kept
  <2> QED
    BY <1>2, <1>8, <2>1 DEF NoLeak
<1>14. Calls'
  BY <1>1, <1>2 DEF CInv, Calls, Connected
<1>15. Handles'
  BY <1>1, <1>2, <1>6 DEF CInv, Handles, tableVars
<1>16. Table'
  <2>1. \A a : Relied(a)' = Relied(a)
    BY <1>1, <1>6 DEF Relied
  <2> QED
    BY <1>1, <1>2, <1>8, <2>1 DEF CInv, Table, tableVars
<1>17. Alive'
  <2>1. ASSUME up, NEW a \in 1..Done, a <= Len(Feeds) PROVE Sent(a)' /\ ~Unsubbed(a)'
    <3>1. a \in 1..Len(Feeds) /\ closures[a].subj = Feeds[a]
      BY <1>2, <2>1, ConstantTypes DEF CInv, Handles
    <3>2. closures[a].subj \notin Symbols
      BY <3>1, FeedsAssumption DEF Range
    <3>3. Sent(a) /\ ~Unsubbed(a) /\ a # n
      BY <1>3, <2>1, <3>2 DEF CInv, Alive
    <3> QED
      BY <1>8, <3>3
  <2>2. ASSUME up, NEW slot \in Slots, \A k \in 1..Len(queue) : queue[k].slot # slot
        PROVE  subs[slot] # 0 /\ Sent(subs[slot])' /\ ~Unsubbed(subs[slot])'
    <3>1. subs[slot] # 0 /\ Sent(subs[slot]) /\ ~Unsubbed(subs[slot])
      BY <2>2 DEF CInv, Alive
    <3>2. ~Busy(slot)
      <4>1. queue # <<>> => 1 \in 1..Len(queue) /\ Head(queue) = queue[1]
        BY TailAt DEF IInv, TypeOK
      <4> QED
        BY <2>2, <4>1 DEF Busy
    <3>3. subs[slot] # n
      BY <1>5, <3>1, <3>2
    <3>4. \A a : a = subs[slot] => Sent(a)' /\ ~Unsubbed(a)'
      BY <1>8, <3>1, <3>3
    <3> QED
      BY <1>1, <3>1, <3>4
  <2> QED
    BY <1>1, <1>2, <2>1, <2>2 DEF CInv, Alive, Connected, readerVars
<1>18. InOrder'
  BY <1>1 DEF CInv, InOrder, readerVars, tableVars, pubVars, countVars
<1> QED
  BY <1>11, <1>12, <1>13, <1>14, <1>15, <1>16, <1>17, <1>18 DEF CInv

LEMMA SwapCInv == ASSUME IInv, CInv, Swap PROVE CInv'
<1>1. PICK newIdx \in notVisible, slot \in Slots :
        /\ visibleIdx' = [visibleIdx EXCEPT ![slot] = newIdx]
        /\ notVisible' = Pool(newIdx, visibleIdx[slot])
        /\ queue' = <<[subj |-> newIdx, slot |-> slot]>>
        /\ IF subs[slot] = 0
           THEN pc' = "register" /\ UNCHANGED handlers
           ELSE pc' = "unsub"
                /\ handlers' = [handlers EXCEPT ![closures[subs[slot]].subj] = 0]
  BY DEF Swap
<1>2. /\ pc = "swap" /\ pc' \in {"register", "unsub"}
      /\ UNCHANGED <<subs, closures>>
      /\ UNCHANGED <<netVars, readerVars, pubVars, countVars>>
  BY <1>1 DEF Swap
<1>3. /\ visibleIdx \in [Slots -> Symbols] /\ Len(closures) \in Nat /\ subs \in [Slots -> Nat]
      /\ handlers \in [Subjects -> 0..Len(closures)] /\ newIdx \in Symbols
      /\ \A j, k \in Slots : visibleIdx[j] = visibleIdx[k] => j = k
  <2>1. newIdx \in Symbols
    BY <1>1 DEF IInv, VisiblePartition
  <2> QED
    BY <2>1 DEF IInv, TypeOK, VisiblePartition, IsInjective
<1>4. /\ visibleIdx'[slot] = newIdx
      /\ \A k \in Slots : k # slot => visibleIdx'[k] = visibleIdx[k]
      /\ visibleIdx[slot] \in notVisible'
  BY <1>1, <1>3 DEF Pool
<1>5. /\ Len(queue') = 1 /\ Head(queue') = queue'[1]
      /\ queue'[1].subj = newIdx /\ queue'[1].slot = slot /\ queue' # <<>>
      /\ Head(queue').slot = slot
  BY <1>1
<1>6. slot # 0 /\ slot \in Nat
  BY ConstantTypes
<1>7. queue = <<>> /\ Len(queue) = 0 /\ (\A k : ~Busy(k)) /\ \A k : Busy(k)' <=> k = slot
  BY <1>2, <1>5 DEF CInv, Calls, Busy
<1>8. Done' = Done /\ Done = Len(closures)
  BY <1>2 DEF Done
<1>9. \A k \in Slots : subs[k] # 0 =>
        /\ subs[k] \in 1..Done /\ closures[subs[k]].subj = visibleIdx[k]
        /\ closures[subs[k]].subj \in Symbols
  BY <1>3, <1>7, <1>8 DEF CInv, Handles
<1>10. \A a : Sent(a)' = Sent(a) /\ Unsubbed(a)' = Unsubbed(a) /\ Used(a)' = Used(a)
  BY <1>2 DEF Sent, Unsubbed, Used, IsFrame, netVars
<1>11. Frames'
  BY <1>2, <1>8 DEF CInv, Frames, netVars
<1>12. Separated'
  BY <1>2, <1>8, <1>10 DEF CInv, Separated, IsFrame, netVars
<1>13. NoLeak'
  <2>1. ASSUME NEW a \in 1..Done, Kept(a) PROVE Kept(a)'
    <3>1. a # 0
      BY <1>3, <1>8
    <3> QED
      BY <1>1, <1>2, <1>7, <2>1, <3>1 DEF Kept
  <2> QED
    BY <1>8, <1>10, <2>1 DEF CInv, NoLeak
<1>14. Calls'
  <2>1. Done' >= Len(Feeds) /\ Done' \in Nat
    BY <1>2, <1>3, <1>7, <1>8, ConstantTypes DEF CInv, Calls, Connected
  <2>2. Done' + 1 > Len(Feeds) /\ Done' + Len(queue') >= Len(Feeds)
    BY <1>5, <2>1, ConstantTypes
  <2>3. \A k \in 1..Len(queue') : k = 1
    BY <1>5
  <2>4. queue'[1].subj = visibleIdx'[queue'[1].slot]
    BY <1>4, <1>5
  <2>5. \A j, k \in 1..Len(queue') : ~(j < k)
    BY <1>5
  <2> QED
    BY <1>2, <1>5, <1>6, <2>2, <2>3, <2>4, <2>5 DEF Calls
<1>15. Handles'
  <2>1. ASSUME NEW t \in Subjects, handlers'[t] # 0 PROVE closures[handlers'[t]].subj = t
    <3>1. handlers'[t] = handlers[t]
      BY <1>1, <1>3, <2>1
    <3> QED
      BY <2>1, <3>1 DEF CInv, Handles
  <2>2. pc' = "unsub" => closures[subs[Head(queue').slot]].subj \in notVisible'
    BY <1>1, <1>4, <1>5, <1>9
  <2>3. \A k \in Slots : subs[k] # 0 =>
          /\ subs[k] <= Done
          /\ closures[subs[k]].subj \in Symbols
          /\ ~Busy(k)' => closures[subs[k]].subj = visibleIdx'[k]
    BY <1>3, <1>4, <1>7, <1>8, <1>9
  <2>4. \A a \in 1..Len(closures) : a <= Len(Feeds) => closures[a].subj = Feeds[a]
    BY DEF CInv, Handles
  <2> QED
    BY <1>2, <1>8, <2>1, <2>2, <2>3, <2>4 DEF Handles
<1>16. Table'
  <2>1. ASSUME NEW a \in 1..Done, Used(a), Relied(a)' PROVE handlers'[closures[a].subj] = a
    <3>1. a # 0 /\ a \in 1..Len(closures) /\ closures[a].subj \in Subjects
      BY <1>3, <1>8, ClosureAt DEF IInv, TypeOK
    <3>2. Relied(a)
      BY <1>2, <1>7, <2>1 DEF Relied
    <3>3. handlers[closures[a].subj] = a
      BY <2>1, <3>2 DEF CInv, Table
    <3>4. subs[slot] # 0 => closures[a].subj # closures[subs[slot]].subj
      <4>1. CASE a <= Len(Feeds)
        <5>1. a \in 1..Len(Feeds) /\ closures[a].subj = Feeds[a]
          BY <3>1, <4>1, ConstantTypes DEF CInv, Handles
        <5>2. closures[a].subj \notin Symbols
          BY <5>1, FeedsAssumption DEF Range
        <5> QED
          BY <1>9, <5>2
      <4>2. CASE ~(a <= Len(Feeds))
        <5>1. PICK k \in Slots : subs[k] = a /\ k # slot
          BY <1>2, <1>7, <2>1, <4>2 DEF Relied
        <5> QED
          BY <1>3, <1>9, <3>1, <5>1
      <4> QED
        BY <4>1, <4>2
    <3> QED
      BY <1>1, <1>3, <3>1, <3>3, <3>4
  <2>2. \A k \in 1..Len(fromBroker) :
          fromBroker[k].sid \in 1..Done /\ closures[fromBroker[k].sid].subj = fromBroker[k].subj
    BY DEF CInv, Table
  <2> QED
    BY <1>2, <1>8, <1>10, <2>1, <2>2 DEF Table, netVars
<1>17. Alive'
  <2>1. ASSUME NEW k \in Slots, \A j \in 1..Len(queue') : queue'[j].slot # k
        PROVE  \A j \in 1..Len(queue) : queue[j].slot # k
    BY <1>7
  <2>2. ASSUME NEW k \in Slots, \A j \in 1..Len(queue') : queue'[j].slot # k, up
        PROVE  subs[k] # 0 /\ Sent(subs[k]) /\ ~Unsubbed(subs[k])
    BY <2>1, <2>2 DEF CInv, Alive
  <2>3. \A k \in Slots : subs'[k] = subs[k]
    BY <1>2
  <2>4. \A k \in Slots : Sent(subs[k])' = Sent(subs[k]) /\ Unsubbed(subs[k])' = Unsubbed(subs[k])
    BY <1>2 DEF Sent, Unsubbed, IsFrame, netVars
  <2>5. \A a \in 1..Done : a <= Len(Feeds) /\ up => Sent(a)' /\ ~Unsubbed(a)'
    BY <1>10 DEF CInv, Alive
  <2> QED
    BY <1>2, <1>8, <2>2, <2>3, <2>4, <2>5 DEF CInv, Alive, Connected, netVars, readerVars
<1>18. InOrder'
  BY <1>2 DEF CInv, InOrder, readerVars, netVars, pubVars, countVars
<1> QED
  BY <1>11, <1>12, <1>13, <1>14, <1>15, <1>16, <1>17, <1>18 DEF CInv

-----------------------------------------------------------------------------
(* Cuts, the reader, the broker and the publishers keep CInv *)

\* The connection is cut: nothing is sent any more, and what is left to read was
\* to be read before.
LEMMA CutsCInv == ASSUME IInv, CInv, DrainExit \/ ConnBreak PROVE CInv'
<1>1. /\ Cut /\ (UNCHANGED pc \/ (pc = "idle" /\ pc' = "gone"))
      /\ UNCHANGED <<queue, visibleIdx, notVisible, subs>>
      /\ UNCHANGED <<readerVars, tableVars, pubVars, countVars>>
  BY DEF DrainExit, ConnBreak, userVars
<1>2. /\ ~up' /\ toBroker' = <<>> /\ brokerSubs' = {}
      /\ \A a : ~Sent(a)' /\ ~Unsubbed(a)'
  <2>1. ~up' /\ toBroker' = <<>> /\ brokerSubs' = {} /\ Len(toBroker') = 0
    BY <1>1 DEF Cut
  <2> QED
    BY <2>1 DEF Sent, Unsubbed
<1>3. \A k \in 1..Len(fromBroker') : k \in 1..Len(fromBroker) /\ fromBroker'[k] = fromBroker[k]
  <2>1. PICK l \in 0..Len(fromBroker) : fromBroker' = SubSeq(fromBroker, 1, l)
    BY <1>1 DEF Cut, Prefixes
  <2>2. fromBroker \in Seq(Msg)
    BY DEF IInv, TypeOK
  <2> QED
    BY <2>1, <2>2
<1>4. Done' = Done /\ \A slot : Busy(slot)' = Busy(slot)
  BY <1>1 DEF Done, Busy, tableVars
<1>5. Frames'
  <2>1. Len(toBroker') = 0
    BY <1>2
  <2> QED
    BY <1>2, <2>1 DEF Frames
<1>6. Separated' /\ NoLeak'
  BY <1>2 DEF Separated, NoLeak
<1>7. Calls'
  BY <1>1, <1>4 DEF CInv, Calls, Connected
<1>8. Handles'
  BY <1>1, <1>4 DEF CInv, Handles, tableVars
<1>9. Table'
  <2>1. \A a : Used(a)' => Used(a)
    BY <1>2, <1>3 DEF Used
  <2>2. \A a : Relied(a)' = Relied(a)
    BY <1>1, <1>4 DEF Relied
  <2> QED
    BY <1>1, <1>3, <1>4, <2>1, <2>2 DEF CInv, Table, tableVars
<1>10. Alive'
  BY <1>2 DEF Alive
<1>11. InOrder'
  BY <1>1, <1>3 DEF CInv, InOrder, readerVars, tableVars, pubVars, countVars
<1> QED
  BY <1>5, <1>6, <1>7, <1>8, <1>9, <1>10, <1>11 DEF CInv

\* A step that leaves the user, the table and the frames to the broker alone
\* leaves all but Table and InOrder alone.
LEMMA ReaderKeeps ==
    ASSUME IInv, CInv, UNCHANGED <<userVars, up, toBroker, brokerSubs, handlers>>,
           Len(closures') = Len(closures),
           \A a \in 1..Len(closures) : closures'[a].subj = closures[a].subj,
           reader' = "exited" => ~up
    PROVE  /\ Frames' /\ Separated' /\ NoLeak' /\ Calls' /\ Handles' /\ Alive'
           /\ Done' = Done /\ Done \in Nat /\ Done <= Len(closures)
           /\ \A a : Sent(a)' = Sent(a) /\ Relied(a)' = Relied(a)
<1>1. /\ UNCHANGED <<pc, queue, visibleIdx, notVisible, subs>>
      /\ Len(closures) \in Nat
  BY DEF userVars, IInv, TypeOK
<1>2. /\ Done' = Done /\ Done <= Len(closures) /\ Done \in Nat
      /\ 1..Done \subseteq 1..Len(closures)
  BY <1>1 DEF Done, CInv, Handles
<1>3. \A a : /\ Sent(a)' = Sent(a) /\ Unsubbed(a)' = Unsubbed(a)
             /\ Relied(a)' = Relied(a) /\ Kept(a)' = Kept(a) /\ Busy(a)' = Busy(a)
  BY <1>1 DEF Sent, Unsubbed, Relied, Kept, Busy, IsFrame
<1>4. Frames'
  <2>1. /\ \A j \in 1..Len(toBroker) : toBroker[j].sid \in 1..Len(closures)
                                       /\ toBroker[j].sid \in 1..Done
        /\ \A b \in brokerSubs : b.sid \in 1..Len(closures) /\ b.sid \in 1..Done
    BY <1>2 DEF CInv, Frames
  <2> QED
    BY <1>2, <2>1 DEF CInv, Frames
<1>5. Separated'
  <2>1. \A a \in 1..Done : closures'[a].subj = closures[a].subj
    BY <1>2
  <2> QED
    BY <1>2, <1>3, <2>1 DEF CInv, Separated, IsFrame
<1>6. NoLeak' /\ Calls'
  BY <1>1, <1>2, <1>3 DEF CInv, NoLeak, Calls, Connected
<1>7. Handles'
  <2>1. \A slot \in Slots : subs[slot] # 0 => subs[slot] \in 1..Len(closures)
    BY DEF IInv, TypeOK, Pointers
  <2>2. \A s \in Subjects : handlers[s] # 0 => handlers[s] \in 1..Len(closures)
    BY DEF IInv, TypeOK
  <2>3. pc = "write" => Len(closures) \in 1..Len(closures)
    BY <1>1 DEF CInv, Handles
  <2>4. pc = "unsub" => Head(queue).slot \in Slots /\ subs[Head(queue).slot] # 0
    BY DEF IInv, Pointers
  <2> QED
    BY <1>1, <1>2, <1>3, <2>1, <2>2, <2>3, <2>4 DEF CInv, Handles
<1>8. Alive'
  <2>1. \A slot \in Slots : /\ subs'[slot] = subs[slot]
                            /\ Sent(subs[slot])' = Sent(subs[slot])
                            /\ Unsubbed(subs[slot])' = Unsubbed(subs[slot])
    BY <1>1 DEF Sent, Unsubbed, IsFrame
  <2> QED
    BY <1>1, <1>2, <1>3, <2>1 DEF CInv, Alive, Connected
<1> QED
  BY <1>2, <1>3, <1>4, <1>5, <1>6, <1>7, <1>8

LEMMA ReadCInv == ASSUME IInv, CInv, Read PROVE CInv'
<1> DEFINE m == Head(fromBroker)
           h == handlers[m.subj]
<1>1. /\ fromBroker \in Seq(Msg) /\ Len(fromBroker) \in Nat /\ 1 \in 1..Len(fromBroker)
      /\ m = fromBroker[1]
      /\ Len(fromBroker') = Len(fromBroker) - 1
      /\ \A j \in 1..Len(fromBroker') : fromBroker'[j] = fromBroker[j + 1]
                                        /\ j + 1 \in 1..Len(fromBroker) /\ 1 < j + 1
  <2>1. fromBroker \in Seq(Msg) /\ fromBroker # <<>> /\ fromBroker' = Tail(fromBroker)
    BY DEF IInv, TypeOK, Read
  <2> QED
    BY <2>1, TailAt
<1>2. /\ UNCHANGED <<userVars, up, toBroker, brokerSubs, handlers, closures>>
      /\ UNCHANGED <<pubVars, countVars>>
      /\ IF h = 0 THEN UNCHANGED readerVars
         ELSE reader' = "call" /\ cur' = [sid |-> h, seq |-> m.seq]
      /\ reader = "read"
  BY DEF Read, tableVars
<1>3. m.subj \in Subjects /\ (h # 0 => closures[h].subj = m.subj)
  <2>1. m \in Msg
    BY <1>1
  <2> QED
    BY <2>1 DEF Msg, CInv, Handles
<1> HIDE DEF m, h
<1>4. /\ Frames' /\ Separated' /\ NoLeak' /\ Calls' /\ Handles' /\ Alive'
      /\ Done' = Done /\ \A a : Sent(a)' = Sent(a) /\ Relied(a)' = Relied(a)
  BY <1>2, ReaderKeeps DEF readerVars
<1>5. Table'
  <2>1. \A a : Used(a)' => Used(a)
    BY <1>1, <1>4 DEF Used
  <2> QED
    BY <1>1, <1>2, <1>4, <2>1 DEF CInv, Table
<1>6. InOrder'
  <2>1. \A k \in 1..Len(fromBroker') :
          /\ heard[fromBroker'[k].subj] <= fromBroker'[k].seq
          /\ fromBroker'[k].seq < pubSeq[fromBroker'[k].subj]
    BY <1>1 DEF CInv, InOrder
  <2>2. ASSUME NEW j \in 1..Len(fromBroker'), NEW k \in 1..Len(fromBroker'),
               j < k, fromBroker'[j].subj = fromBroker'[k].subj
        PROVE  fromBroker'[j].seq < fromBroker'[k].seq
    <3>1. j + 1 < k + 1
      BY <1>1, <2>2
    <3> QED
      BY <1>1, <2>2, <3>1 DEF CInv, InOrder
  <2>3. ASSUME reader' = "call"
        PROVE  /\ heard[closures[cur'.sid].subj] <= cur'.seq
               /\ cur'.seq < pubSeq[closures[cur'.sid].subj]
               /\ \A k \in 1..Len(fromBroker') :
                    fromBroker'[k].subj = closures[cur'.sid].subj => cur'.seq < fromBroker'[k].seq
    <3>1. h # 0 /\ cur'.sid = h /\ cur'.seq = m.seq
      BY <1>2, <2>3 DEF readerVars
    <3>2. closures[cur'.sid].subj = m.subj
      BY <1>3, <3>1
    <3>3. heard[m.subj] <= m.seq /\ m.seq < pubSeq[m.subj]
      BY <1>1 DEF CInv, InOrder
    <3>4. \A k \in 1..Len(fromBroker') : fromBroker'[k].subj = m.subj => m.seq < fromBroker'[k].seq
      BY <1>1 DEF CInv, InOrder
    <3> QED
      BY <3>1, <3>2, <3>3, <3>4
  <2> QED
    BY <1>2, <2>1, <2>2, <2>3 DEF CInv, InOrder, pubVars, countVars
<1> QED
  BY <1>4, <1>5, <1>6 DEF CInv

LEMMA ReaderExitCInv == ASSUME IInv, CInv, ReaderExit PROVE CInv'
<1>1. /\ UNCHANGED <<userVars, netVars, tableVars, pubVars, countVars>>
      /\ reader' = "exited" /\ ~up
  BY DEF ReaderExit
<1>2. /\ Frames' /\ Separated' /\ NoLeak' /\ Calls' /\ Handles' /\ Alive'
      /\ Done' = Done /\ \A a : Sent(a)' = Sent(a) /\ Relied(a)' = Relied(a)
  BY <1>1, ReaderKeeps DEF netVars, tableVars
<1>3. Table'
  <2>1. \A a : Used(a)' = Used(a)
    BY <1>1, <1>2 DEF Used, netVars
  <2> QED
    BY <1>1, <1>2, <2>1 DEF CInv, Table, netVars, tableVars
<1>4. InOrder'
  BY <1>1 DEF CInv, InOrder, netVars, tableVars, pubVars, countVars
<1> QED
  BY <1>2, <1>3, <1>4 DEF CInv

\* What a handler call does, field by field.
LEMMA CallShape ==
    ASSUME IInv, CallHandler
    PROVE  LET c == closures[cur.sid]
           IN  /\ cur.sid \in 1..Len(closures) /\ cur.seq \in Nat
               /\ c.subj \in Subjects /\ c.st \in SeqState
               /\ Len(closures') = Len(closures)
               /\ \A a \in 1..Len(closures) :
                    /\ closures'[a].subj = closures[a].subj
                    /\ a # cur.sid => closures'[a].st = closures[a].st
               /\ closures'[cur.sid].st \in {c.st, Observe(c.st, cur.seq)}
               /\ heard' = [heard EXCEPT ![c.subj] = cur.seq + 1]
               /\ rx' = [rx EXCEPT ![c.subj] = rx[c.subj] + 1]
               /\ dups' \in {dups, dups + DupOf(c.st, cur.seq)}
<1> DEFINE c == closures[cur.sid]
           e == [c EXCEPT !.st = Observe(c.st, cur.seq)]
<1>1. /\ closures \in Seq(Closure) /\ cur.sid \in 1..Len(closures) /\ cur.seq \in Nat
      /\ rx \in [Subjects -> Nat]
  BY DEF IInv, TypeOK, Pointers, CallHandler
<1>2. c \in Closure /\ c.subj \in Subjects /\ c.st \in SeqState
  BY <1>1, ClosureAt
<1>3. /\ rx' = [rx EXCEPT ![c.subj] = @ + 1]
      /\ heard' = [heard EXCEPT ![c.subj] = cur.seq + 1]
      /\ \/ /\ closures' = [closures EXCEPT ![cur.sid].st = Observe(@, cur.seq)]
            /\ dups' = dups + DupOf(c.st, cur.seq)
         \/ UNCHANGED <<closures, dups>>
  BY DEF CallHandler
<1>4. e \in Closure /\ e.subj = c.subj /\ e.st = Observe(c.st, cur.seq)
  BY <1>1, <1>2 DEF Closure, Observe, SeqState
<1>5. CASE UNCHANGED <<closures, dups>>
  BY <1>1, <1>2, <1>3, <1>5
<1>6. CASE /\ closures' = [closures EXCEPT ![cur.sid].st = Observe(@, cur.seq)]
           /\ dups' = dups + DupOf(c.st, cur.seq)
  <2>1. closures' = [closures EXCEPT ![cur.sid] = e]
    BY <1>6
  <2> HIDE DEF e
  <2>2. /\ Len(closures') = Len(closures) /\ closures'[cur.sid] = e
        /\ \A a \in 1..Len(closures) : a # cur.sid => closures'[a] = closures[a]
    BY <1>1, <1>4, <2>1, ExceptSeq
  <2> QED
    BY <1>1, <1>2, <1>3, <1>4, <1>6, <2>2
<1> QED
  BY <1>3, <1>5, <1>6

LEMMA CallHandlerCInv == ASSUME IInv, CInv, CallHandler PROVE CInv'
<1> DEFINE c == closures[cur.sid]
           s == c.subj
<1>1. /\ cur.sid \in 1..Len(closures) /\ cur.seq \in Nat
      /\ s \in Subjects /\ c.st \in SeqState
      /\ Len(closures') = Len(closures)
      /\ \A a \in 1..Len(closures) :
            /\ closures'[a].subj = closures[a].subj
            /\ a # cur.sid => closures'[a].st = closures[a].st
      /\ closures'[cur.sid].st \in {c.st, Observe(c.st, cur.seq)}
      /\ heard' = [heard EXCEPT ![s] = cur.seq + 1]
      /\ dups' \in {dups, dups + DupOf(c.st, cur.seq)}
  BY CallShape
<1>2. /\ reader = "call" /\ reader' = "read" /\ UNCHANGED handlers
      /\ UNCHANGED <<userVars, netVars, pubVars>>
  BY DEF CallHandler
<1>3. /\ heard[s] <= cur.seq /\ cur.seq < pubSeq[s]
      /\ \A k \in 1..Len(fromBroker) : fromBroker[k].subj = s => cur.seq < fromBroker[k].seq
      /\ c.st.init => c.st.last < heard[s]
      /\ dups = 0 /\ heard \in [Subjects -> Nat] /\ fromBroker \in Seq(Msg)
      /\ \A a \in 1..Len(closures) : closures[a].subj \in Subjects /\ closures[a].st \in SeqState
  BY <1>1, <1>2, ClosureAt DEF CInv, InOrder, IInv, TypeOK
<1> HIDE DEF c, s
<1>4. heard'[s] = cur.seq + 1 /\ \A t \in Subjects : t # s => heard'[t] = heard[t]
  BY <1>1, <1>3
<1>5. /\ Frames' /\ Separated' /\ NoLeak' /\ Calls' /\ Handles' /\ Alive'
      /\ Done' = Done /\ \A a : Sent(a)' = Sent(a) /\ Relied(a)' = Relied(a)
      /\ Done \in Nat /\ Done <= Len(closures)
  BY <1>1, <1>2, ReaderKeeps DEF netVars
<1>6. Table'
  <2>1. \A a : Used(a)' = Used(a)
    BY <1>2, <1>5 DEF Used, netVars
  <2>2. \A a \in 1..Done : closures'[a].subj = closures[a].subj
    BY <1>1, <1>5 DEF IInv, TypeOK
  <2> QED
    BY <1>2, <1>5, <2>1, <2>2 DEF CInv, Table, netVars
<1>7. InOrder'
  <2>1. ASSUME NEW k \in 1..Len(fromBroker)
        PROVE  /\ heard'[fromBroker[k].subj] <= fromBroker[k].seq
               /\ fromBroker[k].seq < pubSeq[fromBroker[k].subj]
    <3>1. fromBroker[k].subj \in Subjects /\ fromBroker[k].seq \in Nat
      <4>1. fromBroker[k] \in Msg
        BY <1>3
      <4> QED
        BY <4>1 DEF Msg
    <3>2. CASE fromBroker[k].subj = s
      BY <1>1, <1>3, <1>4, <3>1, <3>2 DEF CInv, InOrder
    <3>3. CASE fromBroker[k].subj # s
      BY <1>4, <3>1, <3>3 DEF CInv, InOrder
    <3> QED
      BY <3>2, <3>3
  <2>2. ASSUME NEW a \in 1..Len(closures), closures'[a].st.init
        PROVE  closures'[a].st.last < heard'[closures'[a].subj]
    <3>1. closures[a].st.last \in Nat /\ heard[s] \in Nat
      BY <1>1, <1>3 DEF SeqState
    <3>2. CASE closures'[a].st = closures[a].st
      <4>1. closures[a].st.last < heard[closures[a].subj]
        BY <2>2, <3>2 DEF CInv, InOrder
      <4>2. CASE closures[a].subj = s
        <5>1. closures[a].st.last < cur.seq + 1
          BY <1>1, <1>3, <3>1, <4>1, <4>2
        <5> QED
          BY <1>1, <1>4, <3>2, <4>2, <5>1
      <4>3. CASE closures[a].subj # s
        BY <1>1, <1>3, <1>4, <3>2, <4>1, <4>3
      <4> QED
        BY <4>2, <4>3
    <3>3. CASE closures'[a].st # closures[a].st
      <4>1. a = cur.sid /\ closures[a].subj = s /\ closures'[a].st = Observe(c.st, cur.seq)
        BY <1>1, <3>3 DEF c, s
      <4>2. closures'[a].st.last = cur.seq
        BY <4>1 DEF Observe
      <4> QED
        BY <1>1, <1>4, <4>1, <4>2
    <3> QED
      BY <3>2, <3>3
  <2>3. dups' = 0
    <3>1. c.st.init => ~(cur.seq <= c.st.last)
      BY <1>1, <1>3 DEF SeqState
    <3>2. DupOf(c.st, cur.seq) = 0
      BY <3>1 DEF DupOf
    <3> QED
      BY <1>1, <1>3, <3>2
  <2>4. ASSUME NEW t \in Subjects PROVE heard'[t] <= pubSeq[t]
    <3>1. CASE t = s
      BY <1>1, <1>3, <1>4, <3>1 DEF IInv, TypeOK
    <3>2. CASE t # s
      <4>1. heard[t] <= pubSeq[t]
        BY DEF CInv, InOrder
      <4> QED
        BY <1>4, <3>2, <4>1
    <3> QED
      BY <3>1, <3>2
  <2> QED
    BY <1>1, <1>2, <2>1, <2>2, <2>3, <2>4 DEF CInv, InOrder, netVars, pubVars
<1> QED
  BY <1>5, <1>6, <1>7 DEF CInv

\* What the broker has done of the frames sent to it decides what is still
\* subscribed: a Sub it handles stays sent, an Unsub ends what was sent for its sid.
LEMMA BrokerRecvSent ==
    ASSUME IInv, CInv, BrokerRecv
    PROVE  LET f == toBroker[1]
           IN  /\ \A a : Sent(a)' <=> Sent(a) /\ ~(f.op = "unsub" /\ a = f.sid)
               /\ \A a : Unsubbed(a)' => Unsubbed(a)
               /\ \A a : Unsubbed(a) /\ ~(f.op = "unsub" /\ a = f.sid) => Unsubbed(a)'
               /\ \A a : Used(a)' => Used(a)
               /\ f.op = "unsub" => Unsubbed(f.sid)
<1> DEFINE f == toBroker[1]
<1>1. /\ toBroker \in Seq(Frame) /\ Len(toBroker) \in Nat /\ 1 \in 1..Len(toBroker)
      /\ Len(toBroker') = Len(toBroker) - 1
      /\ \A j \in 1..Len(toBroker') : toBroker'[j] = toBroker[j + 1]
                                      /\ j + 1 \in 1..Len(toBroker) /\ 1 < j + 1
      /\ brokerSubs' = IF f.op = "sub"
                       THEN brokerSubs \cup {[sid |-> f.sid, subj |-> f.subj]}
                       ELSE {s \in brokerSubs : s.sid # f.sid}
      /\ UNCHANGED fromBroker
  <2>1. toBroker \in Seq(Frame) /\ toBroker # <<>> /\ toBroker' = Tail(toBroker)
    BY DEF IInv, TypeOK, BrokerRecv
  <2>2. /\ Len(toBroker) \in Nat /\ Len(toBroker) >= 1
        /\ Len(toBroker') = Len(toBroker) - 1
        /\ \A j \in 1..(Len(toBroker) - 1) : toBroker'[j] = toBroker[j + 1]
        /\ Head(toBroker) = toBroker[1]
    BY <2>1, TailAt
  <2>3. \A j \in 1..(Len(toBroker) - 1) : j + 1 \in 1..Len(toBroker) /\ 1 < j + 1
    BY <2>2
  <2> QED
    BY <2>1, <2>2, <2>3 DEF BrokerRecv
<1>2. f.op \in {"sub", "unsub"}
  <2>1. f \in Frame
    BY <1>1
  <2> QED
    BY <2>1 DEF Frame
<1>3. \A j \in 1..Len(toBroker) : 1 < j /\ f.sid = toBroker[j].sid => toBroker[j].op = "unsub"
  BY <1>1 DEF CInv, Frames
<1> HIDE DEF f
<1>4. ASSUME NEW k \in 1..Len(toBroker), k # 1
      PROVE  \E j \in 1..Len(toBroker') : toBroker'[j] = toBroker[k]
  <2>1. k - 1 \in 1..Len(toBroker') /\ (k - 1) + 1 = k
    BY <1>1, <1>4
  <2> QED
    BY <1>1, <2>1
<1>5. \A a : Unsubbed(a)' => Unsubbed(a)
  BY <1>1 DEF Unsubbed, IsFrame
<1>6. ASSUME NEW a, Unsubbed(a), ~(f.op = "unsub" /\ a = f.sid) PROVE Unsubbed(a)'
  BY <1>4, <1>6 DEF Unsubbed, IsFrame, f
<1>7. ASSUME NEW a, Sent(a), ~(f.op = "unsub" /\ a = f.sid) PROVE Sent(a)'
  <2>1. CASE \E b \in brokerSubs : b.sid = a
    BY <1>1, <1>2, <1>7, <2>1 DEF Sent
  <2>2. CASE \E k \in 1..Len(toBroker) : IsFrame(k, "sub", a)
    <3>1. PICK k \in 1..Len(toBroker) : IsFrame(k, "sub", a)
      BY <2>2
    <3>2. CASE k = 1
      <4>1. f.op = "sub" /\ f.sid = a
        BY <3>1, <3>2 DEF IsFrame, f
      <4>2. [sid |-> f.sid, subj |-> f.subj] \in brokerSubs'
        BY <1>1, <4>1
      <4> QED
        BY <4>1, <4>2 DEF Sent
    <3>3. CASE k # 1
      BY <1>4, <3>1, <3>3 DEF Sent, IsFrame
    <3> QED
      BY <3>2, <3>3
  <2> QED
    BY <1>7, <2>1, <2>2 DEF Sent
<1>8. ASSUME NEW a, Sent(a)' PROVE Sent(a) /\ ~(f.op = "unsub" /\ a = f.sid)
  <2>1. CASE \E b \in brokerSubs' : b.sid = a
    <3>1. CASE f.op = "sub"
      <4>1. f.sid = a => IsFrame(1, "sub", a)
        BY <3>1 DEF IsFrame, f
      <4> QED
        BY <1>1, <2>1, <3>1, <4>1 DEF Sent
    <3>2. CASE f.op # "sub"
      BY <1>1, <2>1, <3>2 DEF Sent
    <3> QED
      BY <3>1, <3>2
  <2>2. CASE \E j \in 1..Len(toBroker') : toBroker'[j].op = "sub" /\ toBroker'[j].sid = a
    BY <1>1, <1>3, <2>2 DEF Sent, IsFrame
  <2> QED
    BY <1>8, <2>1, <2>2 DEF Sent, IsFrame
<1>9. \A a : Used(a)' => Used(a)
  BY <1>1, <1>8 DEF Used
<1>10. f.op = "unsub" => Unsubbed(f.sid)
  BY <1>1 DEF Unsubbed, IsFrame, f
<1> QED
  BY <1>5, <1>6, <1>7, <1>8, <1>9, <1>10 DEF f

LEMMA BrokerRecvCInv == ASSUME IInv, CInv, BrokerRecv PROVE CInv'
<1> DEFINE f == toBroker[1]
<1>1. /\ toBroker \in Seq(Frame) /\ Len(toBroker) \in Nat /\ 1 \in 1..Len(toBroker)
      /\ Len(toBroker') = Len(toBroker) - 1
      /\ \A j \in 1..Len(toBroker') : toBroker'[j] = toBroker[j + 1]
                                      /\ j + 1 \in 1..Len(toBroker) /\ 1 < j + 1
      /\ brokerSubs' = IF f.op = "sub"
                       THEN brokerSubs \cup {[sid |-> f.sid, subj |-> f.subj]}
                       ELSE {s \in brokerSubs : s.sid # f.sid}
  <2>1. toBroker \in Seq(Frame) /\ toBroker # <<>> /\ toBroker' = Tail(toBroker)
    BY DEF IInv, TypeOK, BrokerRecv
  <2>2. /\ Len(toBroker) \in Nat /\ Len(toBroker) >= 1
        /\ Len(toBroker') = Len(toBroker) - 1
        /\ \A j \in 1..(Len(toBroker) - 1) : toBroker'[j] = toBroker[j + 1]
        /\ Head(toBroker) = toBroker[1]
    BY <2>1, TailAt
  <2>3. \A j \in 1..(Len(toBroker) - 1) : j + 1 \in 1..Len(toBroker) /\ 1 < j + 1
    BY <2>2
  <2> QED
    BY <2>1, <2>2, <2>3 DEF BrokerRecv
<1>2. /\ UNCHANGED <<pc, queue, visibleIdx, notVisible, subs, up, fromBroker>>
      /\ UNCHANGED <<readerVars, tableVars, pubVars, countVars>>
  BY DEF BrokerRecv, userVars
<1>3. up
  <2>1. toBroker # <<>>
    BY DEF BrokerRecv
  <2> QED
    BY <2>1 DEF CInv, Frames
<1>4. /\ \A a : Sent(a)' <=> Sent(a) /\ ~(f.op = "unsub" /\ a = f.sid)
      /\ \A a : Unsubbed(a)' => Unsubbed(a)
      /\ \A a : Unsubbed(a) /\ ~(f.op = "unsub" /\ a = f.sid) => Unsubbed(a)'
      /\ \A a : Used(a)' => Used(a)
      /\ f.op = "unsub" => Unsubbed(f.sid)
  BY BrokerRecvSent
<1>5. Done' = Done /\ \A a : Busy(a)' = Busy(a)
  BY <1>2 DEF Done, Busy, tableVars
<1>6. \A a : Relied(a)' = Relied(a) /\ Kept(a)' = Kept(a)
  BY <1>2, <1>5 DEF Relied, Kept
<1>7. /\ f.sid \in 1..Done /\ f.subj = closures[f.sid].subj
      /\ \A j \in 1..Len(toBroker) : 1 < j /\ f.sid = toBroker[j].sid => toBroker[j].op = "unsub"
  BY <1>1 DEF CInv, Frames
<1> HIDE DEF f
<1>8. Frames'
  <2>1. \A j \in 1..Len(toBroker') :
          /\ toBroker'[j].sid \in 1..Done
          /\ toBroker'[j].subj = closures[toBroker'[j].sid].subj
    BY <1>1 DEF CInv, Frames
  <2>2. ASSUME NEW b \in brokerSubs'
        PROVE  /\ b.sid \in 1..Done /\ b.subj = closures[b.sid].subj
               /\ \A j \in 1..Len(toBroker') :
                    toBroker'[j].sid = b.sid => toBroker'[j].op = "unsub"
    <3>1. CASE b \in brokerSubs
      BY <1>1, <3>1 DEF CInv, Frames
    <3>2. CASE b \notin brokerSubs
      <4>1. b.sid = f.sid /\ b.subj = f.subj
        BY <1>1, <3>2
      <4> QED
        BY <1>1, <1>7, <4>1
    <3> QED
      BY <3>1, <3>2
  <2>3. ASSUME NEW h \in 1..Len(toBroker'), NEW j \in 1..Len(toBroker'), h < j,
               toBroker'[h].sid = toBroker'[j].sid
        PROVE  toBroker'[j].op = "unsub"
    <3>1. h + 1 < j + 1
      BY <1>1, <2>3
    <3> QED
      BY <1>1, <2>3, <3>1 DEF CInv, Frames
  <2> QED
    BY <1>2, <1>3, <1>5, <2>1, <2>2, <2>3 DEF Frames, tableVars
<1>9. Separated'
  <2>1. ASSUME NEW a \in 1..Done, NEW b \in 1..Done, a < b, closures[a].subj = closures[b].subj,
               Sent(a)', Sent(b)'
        PROVE  \E h, j \in 1..Len(toBroker') :
                   h < j /\ IsFrame(h, "unsub", a)' /\ IsFrame(j, "sub", b)'
    <3>1. Sent(a) /\ Sent(b) /\ ~(f.op = "unsub" /\ a = f.sid)
      BY <1>4, <2>1
    <3>2. PICK h, j \in 1..Len(toBroker) : h < j /\ IsFrame(h, "unsub", a) /\ IsFrame(j, "sub", b)
      BY <2>1, <3>1 DEF CInv, Separated
    <3>3. h # 1
      BY <3>1, <3>2 DEF IsFrame, f
    <3>4. PICK h1, j1 \in 1..Len(toBroker') : h1 + 1 = h /\ j1 + 1 = j
      <4>1. /\ h - 1 \in 1..Len(toBroker') /\ (h - 1) + 1 = h
            /\ j - 1 \in 1..Len(toBroker') /\ (j - 1) + 1 = j
        BY <1>1, <3>2, <3>3
      <4> QED
        BY <4>1
    <3>5. h1 < j1
      BY <1>1, <3>2, <3>4
    <3>6. IsFrame(h1, "unsub", a)' /\ IsFrame(j1, "sub", b)'
      BY <1>1, <3>2, <3>4 DEF IsFrame
    <3> QED
      BY <3>5, <3>6
  <2> QED
    BY <1>2, <1>5, <2>1 DEF Separated, tableVars
<1>10. NoLeak'
  BY <1>4, <1>5, <1>6 DEF CInv, NoLeak
<1>11. Calls' /\ Handles'
  BY <1>2, <1>5 DEF CInv, Calls, Handles, Connected, tableVars
<1>12. Table'
  BY <1>2, <1>4, <1>5, <1>6 DEF CInv, Table, tableVars
<1>13. Alive'
  <2>1. ASSUME NEW slot \in Slots, \A k \in 1..Len(queue) : queue[k].slot # slot
        PROVE  subs[slot] # 0 /\ Sent(subs[slot])' /\ ~Unsubbed(subs[slot])'
    <3>1. subs[slot] # 0 /\ Sent(subs[slot]) /\ ~Unsubbed(subs[slot])
      BY <1>3, <2>1 DEF CInv, Alive
    <3>2. \A a : a = subs[slot] => Sent(a)' /\ ~Unsubbed(a)'
      BY <1>4, <3>1
    <3> QED
      BY <1>2, <3>1, <3>2
  <2>2. \A a \in 1..Done : a <= Len(Feeds) => Sent(a)' /\ ~Unsubbed(a)'
    BY <1>3, <1>4 DEF CInv, Alive
  <2> QED
    BY <1>2, <1>3, <1>5, <2>1, <2>2 DEF CInv, Alive, Connected, readerVars
<1>14. InOrder'
  BY <1>2 DEF CInv, InOrder, readerVars, tableVars, pubVars, countVars
<1> QED
  BY <1>8, <1>9, <1>10, <1>11, <1>12, <1>13, <1>14 DEF CInv

\* Two subscriptions of one subject would need the Sub of one of them to be still on
\* its way.
LEMMA OneSub == ASSUME IInv, CInv PROVE OneSubPerSubject
<1>1. ASSUME NEW b \in brokerSubs, NEW c \in brokerSubs, b.subj = c.subj, b.sid < c.sid
      PROVE  FALSE
  <2>1. /\ b.sid \in 1..Done /\ c.sid \in 1..Done
        /\ closures[b.sid].subj = closures[c.sid].subj /\ Sent(b.sid) /\ Sent(c.sid)
    BY <1>1 DEF CInv, Frames, Sent
  <2>2. PICK j \in 1..Len(toBroker) : IsFrame(j, "sub", c.sid)
    BY <1>1, <2>1 DEF CInv, Separated
  <2> QED
    BY <2>2 DEF CInv, Frames, IsFrame
<1>2. ASSUME NEW b \in brokerSubs, NEW c \in brokerSubs, b.subj = c.subj PROVE b = c
  <2>1. b \in [sid : Nat, subj : Subjects] /\ c \in [sid : Nat, subj : Subjects]
    BY DEF IInv, TypeOK
  <2>2. b.sid = c.sid
    BY <1>1, <1>2, <2>1
  <2> QED
    BY <1>2, <2>1, <2>2
<1> QED
  BY <1>2 DEF OneSubPerSubject

\* One message published is at most one message to read, for the subscription the
\* broker holds.
LEMMA PublishShape ==
    ASSUME IInv, CInv, NEW s \in Subjects, Publish(s)
    PROVE  \/ UNCHANGED fromBroker /\ Matching(s) = {}
           \/ \E b \in brokerSubs :
                /\ b.subj = s
                /\ fromBroker' = Append(fromBroker, [subj |-> s, seq |-> pubSeq[s], sid |-> b.sid])
<1>1. PICK order \in FanOuts(s) :
        fromBroker' = fromBroker \o
            [k \in DOMAIN order |-> [subj |-> s, seq |-> pubSeq[s], sid |-> order[k]]]
  BY DEF Publish
<1>2. PICK n \in 0..Len(closures) : order \in Bijection(1..n, Matching(s))
  BY DEF FanOuts
<1>3. /\ order \in [1..n -> Matching(s)]
      /\ \A j, k \in 1..n : order[j] = order[k] => j = k
  BY <1>2 DEF Bijection, Injection, IsInjective
<1>4. n \in Nat /\ fromBroker \in Seq(Msg)
  BY <1>2 DEF IInv, TypeOK
<1>5. \A x, y \in Matching(s) : x = y
  BY OneSub DEF Matching, OneSubPerSubject
<1>6. n = 0 \/ n = 1
  <2>1. ASSUME n > 1 PROVE FALSE
    <3>1. 1 \in 1..n /\ 2 \in 1..n
      BY <1>4, <2>1
    <3> QED
      BY <1>3, <1>5, <3>1
  <2> QED
    BY <1>4, <2>1
<1>7. CASE n = 0
  <2>1. [k \in DOMAIN order |-> [subj |-> s, seq |-> pubSeq[s], sid |-> order[k]]] = <<>>
    BY <1>3, <1>7
  <2>2. Matching(s) = {}
    BY <1>2, <1>7 DEF Bijection, Surjection
  <2> QED
    BY <1>1, <1>4, <2>1, <2>2
<1>8. CASE n = 1
  <2>1. 1 \in 1..n /\ order[1] \in Matching(s) /\ DOMAIN order = 1..1
    BY <1>3, <1>8
  <2>2. PICK b \in brokerSubs : b.subj = s /\ b.sid = order[1]
    BY <2>1 DEF Matching
  <2> DEFINE m == [subj |-> s, seq |-> pubSeq[s], sid |-> b.sid]
  <2>3. [k \in DOMAIN order |-> [subj |-> s, seq |-> pubSeq[s], sid |-> order[k]]]
        = [k \in 1..1 |-> m]
    BY <2>1, <2>2
  <2>4. m \in Msg
    BY <2>2 DEF Msg, IInv, TypeOK
  <2> HIDE DEF m
  <2>5. [k \in 1..1 |-> m] = <<m>>
    OBVIOUS
  <2>6. fromBroker' = fromBroker \o <<m>>
    BY <1>1, <2>3, <2>5
  <2>7. fromBroker \o <<m>> = Append(fromBroker, m)
    BY <1>4, <2>4
  <2> QED
    BY <2>2, <2>6, <2>7 DEF m
<1> QED
  BY <1>6, <1>7, <1>8

\* Publish and Lose leave everything but the messages to read alone.
LEMMA PubKeeps ==
    ASSUME IInv, CInv,
           UNCHANGED <<userVars, up, toBroker, brokerSubs, readerVars, tableVars>>
    PROVE  /\ Frames' /\ Separated' /\ NoLeak' /\ Calls' /\ Handles' /\ Alive'
           /\ Done' = Done /\ \A a : Sent(a)' = Sent(a) /\ Relied(a)' = Relied(a)
BY ReaderKeeps DEF tableVars, readerVars, CInv, Alive

LEMMA PublishCInv == ASSUME IInv, CInv, NEW s \in Subjects, Publish(s) PROVE CInv'
<1>1. /\ UNCHANGED <<userVars, up, toBroker, brokerSubs, readerVars, tableVars, countVars>>
      /\ pubSeq' = [pubSeq EXCEPT ![s] = pubSeq[s] + 1]
  BY DEF Publish
<1>2. /\ Frames' /\ Separated' /\ NoLeak' /\ Calls' /\ Handles' /\ Alive'
      /\ Done' = Done /\ \A a : Sent(a)' = Sent(a) /\ Relied(a)' = Relied(a)
  BY <1>1, PubKeeps
<1>3. /\ pubSeq \in [Subjects -> Nat] /\ fromBroker \in Seq(Msg) /\ Len(fromBroker) \in Nat
      /\ heard \in [Subjects -> Nat]
      /\ pubSeq'[s] = pubSeq[s] + 1 /\ \A t \in Subjects : t # s => pubSeq'[t] = pubSeq[t]
      /\ \A t \in Subjects : /\ heard[t] \in Nat /\ pubSeq[t] \in Nat /\ pubSeq'[t] \in Nat
                            /\ pubSeq[t] <= pubSeq'[t]
  BY <1>1, SMTT(40) DEF IInv, TypeOK
<1>8. \A t \in Subjects : heard[t] <= pubSeq[t] /\ heard[t] <= pubSeq'[t]
  <2>1. \A t \in Subjects : heard[t] <= pubSeq[t]
    BY DEF CInv, InOrder
  <2> QED
    BY <1>3, <2>1
<1>4. \A k \in 1..Len(fromBroker) : fromBroker[k].subj \in Subjects /\ fromBroker[k].seq \in Nat
  <2>1. \A k \in 1..Len(fromBroker) : fromBroker[k] \in Msg
    BY <1>3
  <2> QED
    BY <2>1 DEF Msg
<1>5. ASSUME reader = "call"
      PROVE  cur.seq \in Nat /\ closures[cur.sid].subj \in Subjects
  BY <1>5, ClosureAt DEF IInv, TypeOK, Pointers
<1>6. CASE UNCHANGED fromBroker
  <2>1. Table'
    <3>1. \A a : Used(a)' = Used(a)
      BY <1>2, <1>6 DEF Used
    <3> QED
      BY <1>1, <1>2, <1>6, <3>1 DEF CInv, Table, tableVars
  <2>2. InOrder'
    <3>1. \A k \in 1..Len(fromBroker) : fromBroker[k].seq < pubSeq'[fromBroker[k].subj]
      BY <1>3, <1>4 DEF CInv, InOrder
    <3>2. reader = "call" => cur.seq < pubSeq'[closures[cur.sid].subj]
      BY <1>3, <1>5 DEF CInv, InOrder
    <3> QED
      BY <1>1, <1>6, <1>8, <3>1, <3>2 DEF CInv, InOrder, readerVars, tableVars, countVars
  <2> QED
    BY <1>2, <2>1, <2>2 DEF CInv
<1>7. ASSUME NEW b \in brokerSubs, b.subj = s,
             fromBroker' = Append(fromBroker, [subj |-> s, seq |-> pubSeq[s], sid |-> b.sid])
      PROVE  CInv'
  <2> DEFINE m == [subj |-> s, seq |-> pubSeq[s], sid |-> b.sid]
             n == Len(fromBroker)
  <2>1. m \in Msg
    BY DEF Msg, IInv, TypeOK
  <2>2. m.subj = s /\ m.seq = pubSeq[s] /\ m.sid = b.sid
    OBVIOUS
  <2>3. fromBroker' = Append(fromBroker, m)
    BY <1>7
  <2> HIDE DEF m, n
  <2>4. /\ Len(fromBroker') = n + 1 /\ n \in Nat
        /\ \A k \in 1..n : fromBroker'[k] = fromBroker[k]
        /\ fromBroker'[n + 1] = m
    BY <1>3, <2>1, <2>3, AppendAt DEF n
  <2>5. \A k \in 1..(n + 1) : k \in 1..n \/ k = n + 1
    BY <2>4
  <2>6. Table'
    <3>1. b.sid \in 1..Done /\ closures[b.sid].subj = s /\ Sent(b.sid)
      BY <1>7 DEF CInv, Frames, Sent
    <3>2. \A a : Used(a)' => Used(a)
      BY <1>2, <2>2, <2>4, <2>5, <3>1 DEF Used, n
    <3>3. \A k \in 1..(n + 1) :
            /\ fromBroker'[k].sid \in 1..Done
            /\ closures[fromBroker'[k].sid].subj = fromBroker'[k].subj
      BY <2>2, <2>4, <2>5, <3>1 DEF CInv, Table, n
    <3> QED
      BY <1>1, <1>2, <2>4, <3>2, <3>3 DEF CInv, Table, tableVars
  <2>7. InOrder'
    <3>1. ASSUME NEW k \in 1..(n + 1)
          PROVE  /\ heard[fromBroker'[k].subj] <= fromBroker'[k].seq
                 /\ fromBroker'[k].seq < pubSeq'[fromBroker'[k].subj]
      <4>1. CASE k = n + 1
        BY <1>3, <1>8, <2>2, <2>4, <4>1
      <4>2. CASE k \in 1..n
        <5>1. /\ fromBroker'[k] = fromBroker[k]
              /\ fromBroker[k].subj \in Subjects /\ fromBroker[k].seq \in Nat
          BY <1>4, <2>4, <4>2 DEF n
        <5>2. /\ heard[fromBroker[k].subj] <= fromBroker[k].seq
              /\ fromBroker[k].seq < pubSeq[fromBroker[k].subj]
          BY <4>2 DEF CInv, InOrder, n
        <5>3. fromBroker[k].seq < pubSeq'[fromBroker[k].subj]
          BY <1>3, <5>1, <5>2
        <5> QED
          BY <5>1, <5>2, <5>3
      <4> QED
        BY <2>5, <4>1, <4>2
    <3>2. ASSUME NEW j \in 1..(n + 1), NEW k \in 1..(n + 1), j < k,
                 fromBroker'[j].subj = fromBroker'[k].subj
          PROVE  fromBroker'[j].seq < fromBroker'[k].seq
      <4>1. j \in 1..n
        BY <2>4, <3>2
      <4>2. CASE k = n + 1
        <5>1. fromBroker[j].subj = s
          BY <2>2, <2>4, <3>2, <4>1, <4>2
        <5>2. fromBroker[j].seq < pubSeq[s]
          BY <4>1, <5>1 DEF CInv, InOrder, n
        <5> QED
          BY <2>2, <2>4, <4>1, <4>2, <5>2
      <4>3. CASE k \in 1..n
        BY <2>4, <3>2, <4>1, <4>3 DEF CInv, InOrder, n
      <4> QED
        BY <2>5, <4>2, <4>3
    <3>3. ASSUME reader = "call"
          PROVE  /\ cur.seq < pubSeq'[closures[cur.sid].subj]
                 /\ \A k \in 1..(n + 1) : fromBroker'[k].subj = closures[cur.sid].subj
                                          => cur.seq < fromBroker'[k].seq
      <4>1. cur.seq < pubSeq[closures[cur.sid].subj]
        BY <3>3 DEF CInv, InOrder
      <4>2. cur.seq < pubSeq'[closures[cur.sid].subj]
        BY <1>3, <1>5, <3>3, <4>1
      <4>3. \A k \in 1..n : fromBroker[k].subj = closures[cur.sid].subj
                            => cur.seq < fromBroker[k].seq
        BY <3>3 DEF CInv, InOrder, n
      <4> QED
        BY <2>2, <2>4, <2>5, <4>1, <4>2, <4>3
    <3> QED
      BY <1>1, <1>8, <2>4, <3>1, <3>2, <3>3 DEF CInv, InOrder, readerVars, tableVars, countVars
  <2> QED
    BY <1>2, <2>6, <2>7 DEF CInv
<1> QED
  BY <1>6, <1>7, PublishShape

LEMMA LoseCInv == ASSUME IInv, CInv, NEW s \in Subjects, Lose(s) PROVE CInv'
<1>1. /\ UNCHANGED <<userVars, up, toBroker, brokerSubs, fromBroker, readerVars, tableVars,
                     countVars>>
      /\ pubSeq' = [pubSeq EXCEPT ![s] = pubSeq[s] + 1]
  BY DEF Lose, netVars
<1>2. /\ Frames' /\ Separated' /\ NoLeak' /\ Calls' /\ Handles' /\ Alive'
      /\ Done' = Done /\ \A a : Sent(a)' = Sent(a) /\ Relied(a)' = Relied(a)
  BY <1>1, PubKeeps
<1>3. Table'
  <2>1. \A a : Used(a)' = Used(a)
    BY <1>1, <1>2 DEF Used
  <2> QED
    BY <1>1, <1>2, <2>1 DEF CInv, Table, tableVars
<1>4. InOrder'
  <2>1. /\ heard \in [Subjects -> Nat]
        /\ \A t \in Subjects : /\ heard[t] \in Nat /\ pubSeq[t] \in Nat /\ pubSeq'[t] \in Nat
                              /\ pubSeq[t] <= pubSeq'[t]
    BY <1>1, SMTT(40) DEF IInv, TypeOK
  <2>2. \A k \in 1..Len(fromBroker) : fromBroker[k].subj \in Subjects /\ fromBroker[k].seq \in Nat
    <3>1. \A k \in 1..Len(fromBroker) : fromBroker[k] \in Msg
      BY DEF IInv, TypeOK
    <3> QED
      BY <3>1 DEF Msg
  <2>3. \A k \in 1..Len(fromBroker) : fromBroker[k].seq < pubSeq'[fromBroker[k].subj]
    BY <2>1, <2>2 DEF CInv, InOrder
  <2>4. ASSUME reader = "call"
        PROVE  cur.seq < pubSeq'[closures[cur.sid].subj]
    <3>1. cur.seq \in Nat /\ closures[cur.sid].subj \in Subjects
      BY <2>4, ClosureAt DEF IInv, TypeOK, Pointers
    <3> QED
      BY <2>1, <2>4, <3>1 DEF CInv, InOrder
  <2>6. \A t \in Subjects : heard[t] <= pubSeq[t]
    BY DEF CInv, InOrder
  <2>5. \A t \in Subjects : heard[t] <= pubSeq'[t]
    BY <2>1, <2>6
  <2> QED
    BY <1>1, <2>3, <2>4, <2>5 DEF CInv, InOrder, readerVars, tableVars, countVars
<1> QED
  BY <1>2, <1>3, <1>4 DEF CInv

LEMMA NextCInv == IInv /\ CInv /\ [Next]_vars => CInv'
<1> SUFFICES ASSUME IInv, CInv, [Next]_vars PROVE CInv'
  OBVIOUS
<1>1. CASE UserStep
  BY <1>1, ControlCInv, DialOKCInv, RegisterCInv, SubWrittenCInv, SubFailedCInv,
     UnsubWrittenCInv, SwapCInv, CutsCInv DEF UserStep
<1>2. CASE ReaderStep
  BY <1>2, ReadCInv, CallHandlerCInv, ReaderExitCInv DEF ReaderStep
<1>3. CASE BrokerRecv \/ ConnBreak \/ SetStop \/ WatchDrain
  BY <1>3, BrokerRecvCInv, CutsCInv, ControlCInv
<1>4. CASE \E s \in Subjects : Publish(s) \/ Lose(s)
  BY <1>4, PublishCInv, LoseCInv
<1>5. CASE UNCHANGED vars
  <2>1. /\ UNCHANGED <<userVars, up, toBroker, brokerSubs, readerVars, tableVars>>
        /\ UNCHANGED <<fromBroker, pubVars, countVars>>
    BY <1>5 DEF vars, netVars
  <2>2. /\ Frames' /\ Separated' /\ NoLeak' /\ Calls' /\ Handles' /\ Alive'
        /\ Done' = Done /\ \A a : Sent(a)' = Sent(a) /\ Relied(a)' = Relied(a)
    BY <2>1, PubKeeps
  <2>3. Table'
    <3>1. \A a : Used(a)' = Used(a)
      BY <2>1, <2>2 DEF Used
    <3> QED
      BY <2>1, <2>2, <3>1 DEF CInv, Table, tableVars
  <2>4. InOrder'
    BY <2>1 DEF CInv, InOrder, readerVars, tableVars, pubVars, countVars
  <2> QED
    BY <2>2, <2>3, <2>4 DEF CInv
<1> QED
  BY <1>1, <1>2, <1>3, <1>4, <1>5 DEF Next

LEMMA ConnInvariant == Spec => [](IInv /\ CInv)
<1>1. Init => IInv /\ CInv
  BY InitIInv, InitCInv
<1>2. (IInv /\ CInv) /\ [Next]_vars => (IInv /\ CInv)'
  BY NextIInv, NextCInv
<1> QED
  BY <1>1, <1>2, PTL DEF Spec

-----------------------------------------------------------------------------
(* Gaps and lost messages                                                  *)
(*                                                                         *)
(* GapsAreMissed is not an invariant of Spec: readLoop finds handlers by   *)
(* subject, so the closure of a symbol that was scrolled out and in again  *)
(* may start with a message of the subscription before it.  As long as     *)
(* that does not happen, what a closure waits for is followed here from    *)
(* the Sub frame to the handler call.                                      *)

\* No symbol is subscribed twice on one connection.
Market(a) == closures[a].subj \in Symbols
NoneTwice ==
    \A a, b \in 1..Len(closures) :
        Market(a) /\ closures[a].subj = closures[b].subj => a = b

\* Message n was observed last by the closure of sid a, is about to be handled
\* by it, or is still to be read for it.
Known(a, n) ==
    \/ closures[a].st.init /\ closures[a].st.last = n
    \/ reader = "call" /\ cur.sid = a /\ cur.seq = n
    \/ \E k \in 1..Len(fromBroker) : fromBroker[k].sid = a /\ fromBroker[k].seq = n

Held(a) == \E b \in brokerSubs : b.sid = a
Missed(s, n) == [subj |-> s, seq |-> n] \in missed

\* Message n is followed by one that got through, or was published while the
\* broker held the subscription.
Due(a, n) ==
    \/ \E q \in Nat : n < q /\ Known(a, q)
    \/ Held(a) /\ n < pubSeq[closures[a].subj]

\* From the first message that gets through, none is left out but the lost ones.
Whole(a) ==
    \A p, n \in Nat :
        p < n /\ Known(a, p) /\ Due(a, n) => Known(a, n) \/ Missed(closures[a].subj, n)
NoHole ==
    \A a \in 1..Len(closures) : Market(a) /\ handlers[closures[a].subj] = a => Whole(a)

\* The same for the message the reader is about to hand over, whose handler may
\* be out of the table by now.
CallHole ==
    reader = "call" /\ Market(cur.sid) /\ closures[cur.sid].st.init =>
        \A n \in Nat : closures[cur.sid].st.last < n /\ n < cur.seq =>
            Missed(closures[cur.sid].subj, n)

\* The position of a closure is that of its symbol.
Positions ==
    \A a \in 1..Len(closures) : Market(a) /\ closures[a].st.init =>
        heard[closures[a].subj] = closures[a].st.last + 1

\* Nothing gets through before the broker has read the Sub frame.
Opening(a) ==
    \/ pc = "write" /\ a = Len(closures)
    \/ \E j \in 1..Len(toBroker) : IsFrame(j, "sub", a)
Begins ==
    \A a \in 1..Len(closures) : Market(a) /\ Opening(a) => \A n \in Nat : ~Known(a, n)

\* Every gap counted is for missed messages that the handlers are past.
Passed == {m \in missed : m.seq < heard[m.subj]}
Counted == IsFiniteSet(missed) /\ gaps <= Cardinality(Passed)

HInv == NoHole /\ CallHole /\ Positions /\ Begins /\ Counted

\* Read, and handled or being handled.
Taken(a, n) ==
    \/ closures[a].st.init /\ closures[a].st.last = n
    \/ reader = "call" /\ cur.sid = a /\ cur.seq = n

LEMMA KnownParts ==
    ASSUME NEW a, NEW n
    PROVE  Known(a, n) <=>
             \/ Taken(a, n)
             \/ \E k \in 1..Len(fromBroker) : fromBroker[k].sid = a /\ fromBroker[k].seq = n
  BY DEF Known, Taken

LEMMA InitHInv == Init => HInv
<1> SUFFICES ASSUME Init PROVE HInv
  OBVIOUS
<1>1. /\ Len(closures) = 0 /\ reader = "exited" /\ gaps = 0
      /\ missed = {} /\ Passed = {}
  BY DEF Init, Passed
<1>2. IsFiniteSet({}) /\ Cardinality({}) = 0
  BY FS_EmptySet
<1> QED
  BY <1>1, <1>2 DEF HInv, NoHole, CallHole, Positions, Begins, Counted

\* What is known of a subscription was published, and is read in that order.
LEMMA KnownOrder ==
    ASSUME IInv, CInv, NEW a \in 1..Len(closures), NEW n, Known(a, n)
    PROVE  n \in Nat /\ n < pubSeq[closures[a].subj]
<1>1. /\ closures[a].subj \in Subjects /\ closures[a].st \in SeqState
      /\ heard \in [Subjects -> Nat] /\ pubSeq \in [Subjects -> Nat]
      /\ fromBroker \in Seq(Msg) /\ cur.seq \in Nat
  BY ClosureAt DEF IInv, TypeOK
<1>2. CASE closures[a].st.init /\ closures[a].st.last = n
  <2>1. closures[a].st.last < heard[closures[a].subj]
        /\ heard[closures[a].subj] <= pubSeq[closures[a].subj]
    BY <1>1, <1>2 DEF CInv, InOrder
  <2>2. n \in Nat
    BY <1>1, <1>2 DEF SeqState
  <2>3. heard[closures[a].subj] \in Nat /\ pubSeq[closures[a].subj] \in Nat
    BY <1>1
  <2> QED
    BY <1>2, <2>1, <2>2, <2>3
<1>3. CASE reader = "call" /\ cur.sid = a /\ cur.seq = n
  BY <1>1, <1>3 DEF CInv, InOrder
<1>4. CASE \E k \in 1..Len(fromBroker) : fromBroker[k].sid = a /\ fromBroker[k].seq = n
  <2>1. PICK k \in 1..Len(fromBroker) : fromBroker[k].sid = a /\ fromBroker[k].seq = n
    BY <1>4
  <2>2. fromBroker[k] \in Msg /\ fromBroker[k].subj = closures[a].subj
    BY <1>1, <2>1 DEF CInv, Table
  <2>3. n \in Nat
    BY <2>1, <2>2 DEF Msg
  <2> QED
    BY <2>1, <2>2, <2>3 DEF CInv, InOrder
<1> QED
  BY <1>2, <1>3, <1>4 DEF Known

LEMMA ReadLater ==
    ASSUME IInv, CInv, NEW k \in 1..Len(fromBroker)
    PROVE  LET m == fromBroker[k]
               c == closures[m.sid]
           IN  /\ m.sid \in 1..Len(closures) /\ m.seq \in Nat /\ m.subj \in Subjects
               /\ c.subj = m.subj /\ c.st.last \in Nat
               /\ c.st.init => c.st.last < m.seq
               /\ reader = "call" /\ cur.sid = m.sid => cur.seq < m.seq
               /\ \A j \in 1..Len(fromBroker) :
                    j < k /\ fromBroker[j].sid = m.sid => fromBroker[j].seq < m.seq
<1> DEFINE m == fromBroker[k]
           c == closures[m.sid]
<1>1. /\ m \in Msg /\ Len(closures) \in Nat /\ heard \in [Subjects -> Nat]
      /\ m.sid \in 1..Done /\ c.subj = m.subj
      /\ \A j \in 1..Len(fromBroker) : closures[fromBroker[j].sid].subj = fromBroker[j].subj
  <2>1. fromBroker \in Seq(Msg) /\ closures \in Seq(Closure) /\ heard \in [Subjects -> Nat]
    BY DEF IInv, TypeOK
  <2>2. \A j \in 1..Len(fromBroker) :
          fromBroker[j].sid \in 1..Done /\ closures[fromBroker[j].sid].subj = fromBroker[j].subj
    BY DEF CInv, Table
  <2> QED
    BY <2>1, <2>2
<1>2. m.sid \in 1..Len(closures)
  BY <1>1 DEF Done
<1>3. m.seq \in Nat /\ m.subj \in Subjects
  BY <1>1 DEF Msg
<1>4. c.st \in SeqState
  BY <1>2, ClosureAt DEF IInv, TypeOK
<1>5. c.st.last \in Nat /\ heard[m.subj] \in Nat
  BY <1>1, <1>3, <1>4 DEF SeqState
<1>6. heard[m.subj] <= m.seq
  BY DEF CInv, InOrder
<1>7. c.st.init => c.st.last < heard[m.subj]
  BY <1>1, <1>2 DEF CInv, InOrder
<1>8. reader = "call" /\ cur.sid = m.sid => cur.seq < m.seq
  BY <1>1 DEF CInv, InOrder
<1>9. \A j \in 1..Len(fromBroker) :
        j < k /\ fromBroker[j].sid = m.sid => fromBroker[j].seq < m.seq
  BY <1>1 DEF CInv, InOrder
<1> HIDE DEF m, c
<1>10. c.st.init => c.st.last < m.seq
  BY <1>3, <1>5, <1>6, <1>7
<1> QED
  BY <1>1, <1>2, <1>3, <1>5, <1>8, <1>9, <1>10 DEF m, c

\* What the handlers are past only grows.
LEMMA PassedGrows ==
    ASSUME IInv, HInv, missed \subseteq missed', IsFiniteSet(missed'),
           \A t \in Subjects : heard[t] <= heard'[t],
           \A t \in Subjects : heard'[t] \in Nat,
           gaps' = gaps
    PROVE  Counted'
<1>1. Passed \subseteq Passed'
  <2>1. SUFFICES ASSUME NEW m \in Passed PROVE m \in Passed'
    OBVIOUS
  <2>2. m \in missed /\ m.seq < heard[m.subj] /\ m.subj \in Subjects /\ m.seq \in Nat
    BY <2>1 DEF Passed, IInv, TypeOK
  <2>3. heard[m.subj] \in Nat /\ heard'[m.subj] \in Nat /\ heard[m.subj] <= heard'[m.subj]
    BY <2>2 DEF IInv, TypeOK
  <2>4. m.seq < heard'[m.subj]
    BY <2>2, <2>3
  <2> QED
    BY <2>2, <2>4 DEF Passed
<1>2. IsFiniteSet(Passed')
  BY FS_Subset DEF Passed
<1>3. IsFiniteSet(Passed) /\ Cardinality(Passed) <= Cardinality(Passed')
  BY <1>1, <1>2, FS_Subset
<1>4. Cardinality(Passed) \in Nat /\ Cardinality(Passed') \in Nat
  BY <1>2, <1>3, FS_CardinalityType
<1>5. gaps <= Cardinality(Passed) /\ gaps \in Nat
  BY DEF HInv, Counted, IInv, TypeOK
<1> QED
  BY <1>3, <1>4, <1>5 DEF Counted

LEMMA CountedKept ==
    ASSUME IInv, HInv, UNCHANGED <<missed, heard, gaps>>
    PROVE  Counted'
BY DEF HInv, Counted, Passed

-----------------------------------------------------------------------------
(* Every step keeps HInv, as long as no symbol is subscribed twice *)

\* The steps that touch neither what is known nor what is published: the table
\* loses entries at most, and a subscription the broker gets was opening.
LEMMA QuietHInv ==
    ASSUME IInv, CInv, HInv,
           UNCHANGED <<closures, cur, fromBroker, pubVars, countVars>>,
           reader' = "call" <=> reader = "call",
           \A a \in 1..Len(closures) :
               handlers'[closures[a].subj] = a => handlers[closures[a].subj] = a,
           \A a \in 1..Len(closures) : Held(a)' => Held(a) \/ Opening(a),
           \A a \in 1..Len(closures) : Opening(a)' => Opening(a)
    PROVE  HInv'
<1>1. /\ \A a, n : Known(a, n)' <=> Known(a, n)
      /\ \A s, n : Missed(s, n)' <=> Missed(s, n)
      /\ \A a : Market(a)' <=> Market(a)
      /\ UNCHANGED <<pubSeq, missed, heard, gaps>>
  BY DEF Known, Missed, Market, pubVars, countVars
<1>2. NoHole'
  <2>1. ASSUME NEW a \in 1..Len(closures), Market(a), handlers[closures[a].subj] = a,
               NEW p \in Nat, NEW n \in Nat, p < n, Known(a, p), Due(a, n)'
        PROVE  Known(a, n) \/ Missed(closures[a].subj, n)
    <3>1. CASE Held(a) \/ \E q \in Nat : n < q /\ Known(a, q)
      <4>1. Due(a, n)
        BY <1>1, <2>1, <3>1 DEF Due
      <4> QED
        BY <2>1, <4>1 DEF HInv, NoHole, Whole
    <3>2. CASE Opening(a)
      BY <2>1, <3>2 DEF HInv, Begins
    <3> QED
      BY <1>1, <2>1, <3>1, <3>2 DEF Due
  <2> QED
    BY <1>1, <2>1 DEF NoHole, Whole
<1>3. CallHole'
  BY <1>1 DEF HInv, CallHole
<1>4. Positions'
  BY <1>1 DEF HInv, Positions
<1>5. Begins'
  BY <1>1 DEF HInv, Begins
<1>6. Counted'
  BY <1>1, CountedKept
<1> QED
  BY <1>2, <1>3, <1>4, <1>5, <1>6 DEF HInv

LEMMA ControlHInv ==
    ASSUME IInv, CInv, HInv,
           \/ Top \/ DialFail \/ Scroll \/ ConnLost \/ Backoff \/ SetStop \/ WatchDrain
           \/ ReaderExit \/ UNCHANGED vars
    PROVE  HInv'
<1>1. /\ UNCHANGED <<closures, handlers, cur, fromBroker, toBroker, brokerSubs>>
      /\ UNCHANGED <<pubVars, countVars>>
      /\ reader' = "call" <=> reader = "call"
  BY DEF Top, DialFail, Scroll, ConnLost, Backoff, SetStop, WatchDrain, ReaderExit, vars,
         netVars, readerVars, tableVars
<1>2. pc' = "write" => pc = "write"
  BY DEF Top, DialFail, Scroll, ConnLost, Backoff, SetStop, WatchDrain, ReaderExit, vars,
         userVars
<1>3. \A a : (Held(a)' <=> Held(a)) /\ (Opening(a)' => Opening(a))
  BY <1>1, <1>2 DEF Held, Opening, IsFrame
<1> QED
  BY <1>1, <1>3, QuietHInv

LEMMA SubWrittenHInv == ASSUME IInv, CInv, HInv, SubWritten PROVE HInv'
<1> DEFINE f == [op |-> "sub", sid |-> Len(closures), subj |-> Head(queue).subj]
<1>1. /\ UNCHANGED <<closures, handlers, cur, reader, fromBroker, brokerSubs>>
      /\ UNCHANGED <<pubVars, countVars>> /\ pc = "write"
  BY DEF SubWritten, readerVars, tableVars
<1>2. pc' # "write"
  BY DEF SubWritten, Return
<1>3. f \in Frame /\ Send(f)
  <2>1. queue # <<>> /\ Len(closures) \in Nat /\ Head(queue).subj \in Subjects
    BY HeadCall DEF IInv, TypeOK, Pointers, SubWritten
  <2> QED
    BY <2>1 DEF SubWritten, Frame
<1>4. f.sid = Len(closures)
  OBVIOUS
<1> HIDE DEF f
<1>5. \A j \in 1..Len(toBroker') :
        (j \in 1..Len(toBroker) /\ toBroker'[j] = toBroker[j]) \/ toBroker'[j] = f
  <2>1. /\ Len(toBroker) \in Nat
        /\ ~up => toBroker' = toBroker
        /\ up => /\ Len(toBroker') = Len(toBroker) + 1
                 /\ \A j \in 1..Len(toBroker) : toBroker'[j] = toBroker[j]
                 /\ toBroker'[Len(toBroker) + 1] = f
    BY <1>3, SendShape
  <2> QED
    BY <2>1
<1>6. \A a : (Held(a)' <=> Held(a)) /\ (Opening(a)' => Opening(a))
  BY <1>1, <1>2, <1>4, <1>5 DEF Held, Opening, IsFrame
<1> QED
  BY <1>1, <1>6, QuietHInv

LEMMA SubFailedHInv == ASSUME IInv, CInv, HInv, SubFailed PROVE HInv'
<1>1. /\ UNCHANGED <<closures, cur, reader, fromBroker, toBroker, brokerSubs>>
      /\ UNCHANGED <<pubVars, countVars>> /\ pc = "write"
      /\ handlers' = [handlers EXCEPT ![Head(queue).subj] = 0]
  BY DEF SubFailed, netVars, readerVars
<1>2. pc' # "write"
  BY DEF SubFailed, Return
<1>3. \A a \in 1..Len(closures) :
        handlers'[closures[a].subj] = a => handlers[closures[a].subj] = a
  <2>1. handlers \in [Subjects -> 0..Len(closures)]
        /\ \A a \in 1..Len(closures) : closures[a].subj \in Subjects /\ a # 0
    BY ClosureAt DEF IInv, TypeOK
  <2> QED
    BY <1>1, <2>1
<1>4. \A a : (Held(a)' <=> Held(a)) /\ (Opening(a)' => Opening(a))
  BY <1>1, <1>2 DEF Held, Opening, IsFrame
<1> QED
  BY <1>1, <1>3, <1>4, QuietHInv

LEMMA UnsubWrittenHInv == ASSUME IInv, CInv, HInv, UnsubWritten PROVE HInv'
<1> DEFINE n == subs[Head(queue).slot]
           f == UnsubFrame(n)
<1>1. /\ UNCHANGED <<closures, handlers, cur, reader, fromBroker, brokerSubs>>
      /\ UNCHANGED <<pubVars, countVars>> /\ pc' # "write"
  BY DEF UnsubWritten, readerVars, tableVars
<1>2. f \in Frame /\ Send(f) /\ f.op # "sub"
  <2>1. n \in 1..Len(closures)
    BY DEF IInv, TypeOK, Pointers, UnsubWritten
  <2> QED
    BY <2>1, ClosureAt DEF UnsubWritten, UnsubFrame, Frame, IInv, TypeOK
<1> HIDE DEF f, n
<1>3. \A j \in 1..Len(toBroker') :
        (j \in 1..Len(toBroker) /\ toBroker'[j] = toBroker[j]) \/ toBroker'[j] = f
  <2>1. /\ Len(toBroker) \in Nat
        /\ ~up => toBroker' = toBroker
        /\ up => /\ Len(toBroker') = Len(toBroker) + 1
                 /\ \A j \in 1..Len(toBroker) : toBroker'[j] = toBroker[j]
                 /\ toBroker'[Len(toBroker) + 1] = f
    BY <1>2, SendShape
  <2> QED
    BY <2>1
<1>4. \A a : (Held(a)' <=> Held(a)) /\ (Opening(a)' => Opening(a))
  BY <1>1, <1>2, <1>3 DEF Held, Opening, IsFrame
<1> QED
  BY <1>1, <1>4, QuietHInv

LEMMA SwapHInv == ASSUME IInv, CInv, HInv, Swap PROVE HInv'
<1>1. /\ UNCHANGED <<closures, cur, reader, fromBroker, toBroker, brokerSubs>>
      /\ UNCHANGED <<pubVars, countVars>> /\ pc' # "write"
      /\ \/ UNCHANGED handlers
         \/ \E slot \in Slots : handlers' = [handlers EXCEPT ![closures[subs[slot]].subj] = 0]
  BY DEF Swap, netVars, readerVars
<1>2. \A a \in 1..Len(closures) :
        handlers'[closures[a].subj] = a => handlers[closures[a].subj] = a
  <2>1. handlers \in [Subjects -> 0..Len(closures)]
        /\ \A a \in 1..Len(closures) : closures[a].subj \in Subjects /\ a # 0
    BY ClosureAt DEF IInv, TypeOK
  <2> QED
    BY <1>1, <2>1
<1>3. \A a : (Held(a)' <=> Held(a)) /\ (Opening(a)' => Opening(a))
  BY <1>1 DEF Held, Opening, IsFrame
<1> QED
  BY <1>1, <1>2, <1>3, QuietHInv

LEMMA BrokerRecvHInv == ASSUME IInv, CInv, HInv, BrokerRecv PROVE HInv'
<1> DEFINE f == toBroker[1]
<1>1. /\ UNCHANGED <<closures, handlers, cur, reader, fromBroker, pc>>
      /\ UNCHANGED <<pubVars, countVars>>
  BY DEF BrokerRecv, userVars, readerVars, tableVars
<1>2. /\ 1 \in 1..Len(toBroker)
      /\ \A j \in 1..Len(toBroker') : j + 1 \in 1..Len(toBroker) /\ toBroker'[j] = toBroker[j + 1]
      /\ f.op = "sub" => brokerSubs' = brokerSubs \cup {[sid |-> f.sid, subj |-> f.subj]}
      /\ f.op # "sub" => brokerSubs' \subseteq brokerSubs
  <2>1. toBroker \in Seq(Frame) /\ toBroker # <<>> /\ toBroker' = Tail(toBroker)
    BY DEF IInv, TypeOK, BrokerRecv
  <2>2. /\ Len(toBroker) \in Nat /\ Len(toBroker) >= 1
        /\ Len(toBroker') = Len(toBroker) - 1
        /\ \A j \in 1..(Len(toBroker) - 1) : toBroker'[j] = toBroker[j + 1]
        /\ Head(toBroker) = toBroker[1]
    BY <2>1, TailAt
  <2>3. \A j \in 1..(Len(toBroker) - 1) : j + 1 \in 1..Len(toBroker)
    BY <2>2
  <2> QED
    BY <2>2, <2>3 DEF BrokerRecv
<1> HIDE DEF f
<1>3. \A a : Opening(a)' => Opening(a)
  BY <1>1, <1>2 DEF Opening, IsFrame
<1>4. ASSUME NEW a, Held(a)' PROVE Held(a) \/ Opening(a)
  <2>1. CASE f.op = "sub"
    <3>1. f.sid = a => IsFrame(1, "sub", a)
      BY <2>1 DEF IsFrame, f
    <3> QED
      BY <1>2, <1>4, <2>1, <3>1 DEF Held, Opening
  <2>2. CASE f.op # "sub"
    BY <1>2, <1>4, <2>2 DEF Held
  <2> QED
    BY <2>1, <2>2
<1> QED
  BY <1>1, <1>3, <1>4, QuietHInv

LEMMA DialOKHInv == ASSUME IInv, CInv, HInv, DialOK PROVE HInv'
<1>1. /\ Len(closures') = 0 /\ reader' = "read"
      /\ UNCHANGED <<pubVars, countVars>>
  BY DEF DialOK
<1>2. Counted'
  BY <1>1, CountedKept DEF pubVars, countVars
<1> QED
  BY <1>1, <1>2 DEF HInv, NoHole, CallHole, Positions, Begins

\* A new closure knows nothing yet.
LEMMA RegisterHInv == ASSUME IInv, CInv, HInv, Register PROVE HInv'
<1> SUFFICES ASSUME NEW n, n = Len(closures), NEW s, s = Head(queue).subj PROVE HInv'
  OBVIOUS
<1>1. /\ queue # <<>> /\ queue \in Seq(Call) /\ closures \in Seq(Closure) /\ n \in Nat
      /\ s \in Subjects /\ handlers \in [Subjects -> 0..n]
  BY HeadCall DEF IInv, TypeOK, Pointers, Register
<1>2. /\ Len(closures') = n + 1
      /\ \A a \in 1..n : closures'[a] = closures[a]
      /\ closures'[n + 1].subj = s /\ closures'[n + 1].st.init = FALSE
  <2>1. NewClosure(s) \in Closure /\ NewClosure(s).subj = s /\ NewClosure(s).st.init = FALSE
    BY <1>1, NewClosureType DEF NewClosure, Fresh
  <2>2. closures' = Append(closures, NewClosure(s))
    BY DEF Register
  <2> QED
    BY <1>1, <2>1, <2>2, AppendAt
<1>3. /\ handlers' = [handlers EXCEPT ![s] = n + 1]
      /\ pc = "register" /\ pc' = "write"
      /\ UNCHANGED <<reader, cur, toBroker, fromBroker, brokerSubs>>
      /\ UNCHANGED <<pubSeq, missed, heard, gaps>>
  BY DEF Register, netVars, readerVars, pubVars, countVars
<1>4. \A a \in 1..n : closures[a].subj \in Subjects
  BY <1>1, ClosureAt
<1>5. reader = "call" => cur.sid \in 1..n
  BY DEF IInv, Pointers
<1>6. \A k \in 1..Len(fromBroker) : fromBroker[k].sid \in 1..n
  BY <1>1, <1>3 DEF CInv, Table, Done
<1>7. /\ \A a \in 1..n : \A m : Known(a, m)' <=> Known(a, m)
      /\ \A m : ~Known(n + 1, m)'
      /\ \A a \in 1..(n + 1) : a \in 1..n \/ a = n + 1
  <2>1. n + 1 \notin 1..n /\ \A a \in 1..(n + 1) : a \in 1..n \/ a = n + 1
    BY <1>1
  <2>2. \A m : ~Known(n + 1, m)'
    <3>1. ~closures'[n + 1].st.init
      BY <1>2
    <3>2. ~(reader' = "call" /\ cur'.sid = n + 1)
      BY <1>3, <1>5, <2>1
    <3>3. \A k \in 1..Len(fromBroker') : fromBroker'[k].sid # n + 1
      BY <1>3, <1>6, <2>1
    <3> QED
      BY <3>1, <3>2, <3>3 DEF Known
  <2>3. \A a \in 1..n : \A m : Known(a, m)' <=> Known(a, m)
    BY <1>2, <1>3 DEF Known
  <2> QED
    BY <2>1, <2>2, <2>3
<1>8. ASSUME NEW a \in 1..n
      PROVE  /\ a \in 1..Len(closures) /\ Market(a)' <=> Market(a)
             /\ \A m : Due(a, m)' <=> Due(a, m)
             /\ \A m : Missed(closures[a].subj, m)' <=> Missed(closures[a].subj, m)
             /\ closures'[a] = closures[a]
  <2>1. closures'[a] = closures[a] /\ a \in 1..Len(closures)
    BY <1>2
  <2> QED
    BY <1>3, <1>7, <2>1 DEF Market, Due, Held, Missed
<1>9. NoHole'
  <2>1. ASSUME NEW a \in 1..n, Market(a)', handlers'[closures'[a].subj] = a PROVE Whole(a)'
    <3>1. closures[a].subj # s /\ handlers[closures[a].subj] = a /\ Market(a)
      <4>1. a # n + 1
        BY <1>1
      <4>2. closures[a].subj \in Subjects /\ handlers'[closures[a].subj] = a /\ Market(a)
        BY <1>4, <1>8, <2>1
      <4>3. handlers'[s] = n + 1 /\ \A t \in Subjects : t # s => handlers'[t] = handlers[t]
        BY <1>1, <1>3
      <4> QED
        BY <4>1, <4>2, <4>3
    <3>2. Whole(a)
      BY <1>8, <3>1 DEF HInv, NoHole
    <3> QED
      BY <1>7, <1>8, <3>2 DEF Whole
  <2>2. Whole(n + 1)'
    BY <1>7 DEF Whole
  <2> QED
    BY <1>2, <1>7, <2>1, <2>2 DEF NoHole
<1>10. CallHole'
  <2>1. reader = "call" => closures'[cur.sid] = closures[cur.sid]
    BY <1>2, <1>5
  <2>2. CASE reader = "call"
    <3>1. (Market(cur.sid)' <=> Market(cur.sid))
          /\ \A m : Missed(closures[cur.sid].subj, m)' <=> Missed(closures[cur.sid].subj, m)
      BY <1>3, <2>1, <2>2 DEF Market, Missed
    <3> QED
      BY <1>3, <2>1, <2>2, <3>1 DEF HInv, CallHole
  <2>3. CASE reader # "call"
    BY <1>3, <2>3 DEF CallHole
  <2> QED
    BY <2>2, <2>3
<1>11. Positions'
  BY <1>2, <1>3, <1>7, <1>8 DEF HInv, Positions
<1>12. Begins'
  <2>1. ASSUME NEW a \in 1..n, Opening(a)' PROVE Opening(a)
    <3>1. a # n + 1
      BY <1>1
    <3> QED
      BY <1>2, <1>3, <2>1, <3>1 DEF Opening, IsFrame
  <2>2. ASSUME NEW a \in 1..(n + 1), Market(a)', Opening(a)', NEW m \in Nat PROVE ~Known(a, m)'
    <3>1. CASE a \in 1..n
      BY <1>7, <1>8, <2>1, <2>2, <3>1 DEF HInv, Begins
    <3>2. CASE a = n + 1
      BY <1>7, <3>2
    <3> QED
      BY <1>7, <3>1, <3>2
  <2> QED
    BY <1>2, <2>2 DEF Begins
<1>13. Counted'
  BY <1>3, CountedKept
<1> QED
  BY <1>9, <1>10, <1>11, <1>12, <1>13 DEF HInv

\* A cut takes the last messages away, none between two that are left.
LEMMA CutsHInv == ASSUME IInv, CInv, HInv, DrainExit \/ ConnBreak PROVE HInv'
<1>1. /\ Cut /\ (pc' = "write" => pc = "write")
      /\ UNCHANGED <<closures, handlers, reader, cur>>
      /\ UNCHANGED <<pubSeq, missed, heard, gaps>>
  BY DEF DrainExit, ConnBreak, userVars, readerVars, tableVars, pubVars, countVars
<1>2. toBroker' = <<>> /\ brokerSubs' = {} /\ Len(toBroker') = 0
  BY <1>1 DEF Cut
<1>3. /\ \A k \in 1..Len(fromBroker') : k \in 1..Len(fromBroker) /\ fromBroker'[k] = fromBroker[k]
      /\ \A k \in 1..Len(fromBroker) :
            k \in 1..Len(fromBroker') \/ \A j \in 1..Len(fromBroker') : j < k
  <2>1. PICK l \in 0..Len(fromBroker) : fromBroker' = SubSeq(fromBroker, 1, l)
    BY <1>1 DEF Cut, Prefixes
  <2>2. fromBroker \in Seq(Msg)
    BY DEF IInv, TypeOK
  <2> QED
    BY <2>1, <2>2
<1>4. \A a, n : Known(a, n)' => Known(a, n)
  BY <1>1, <1>3 DEF Known
<1>5. /\ \A a : ~Held(a)' /\ (Opening(a)' => Opening(a))
      /\ \A a : Market(a)' <=> Market(a)
      /\ \A s, n : Missed(s, n)' <=> Missed(s, n)
  BY <1>1, <1>2 DEF Held, Opening, Market, Missed
<1>6. ASSUME NEW a \in 1..Len(closures), NEW n \in Nat, NEW q \in Nat, n < q,
             Known(a, n), Known(a, q)'
      PROVE  Known(a, n)'
  <2>1. CASE \E k \in 1..Len(fromBroker) : fromBroker[k].sid = a /\ fromBroker[k].seq = n
    <3>1. PICK k \in 1..Len(fromBroker) : fromBroker[k].sid = a /\ fromBroker[k].seq = n
      BY <2>1
    <3>2. CASE k \in 1..Len(fromBroker')
      BY <1>3, <3>1, <3>2 DEF Known
    <3>3. CASE \A j \in 1..Len(fromBroker') : j < k
      <4>1. /\ closures[a].st.last \in Nat
            /\ closures[a].st.init => closures[a].st.last < n
            /\ reader = "call" /\ cur.sid = a => cur.seq < n
            /\ \A j \in 1..Len(fromBroker) :
                    j < k /\ fromBroker[j].sid = a => fromBroker[j].seq < n
        BY <3>1, ReadLater
      <4>2. ASSUME NEW x \in Nat, x = q, x < n PROVE FALSE
        BY <1>6, <4>2
      <4> QED
        BY <1>1, <1>3, <1>6, <3>3, <4>1, <4>2 DEF Known
    <3> QED
      BY <1>3, <3>1, <3>2, <3>3
  <2>2. CASE ~\E k \in 1..Len(fromBroker) : fromBroker[k].sid = a /\ fromBroker[k].seq = n
    BY <1>1, <1>6, <2>2 DEF Known
  <2> QED
    BY <2>1, <2>2
<1>7. NoHole'
  <2>1. ASSUME NEW a \in 1..Len(closures), Market(a), handlers[closures[a].subj] = a,
               NEW p \in Nat, NEW n \in Nat, p < n, Known(a, p)', Due(a, n)'
        PROVE  Known(a, n)' \/ Missed(closures[a].subj, n)
    <3>1. PICK q \in Nat : n < q /\ Known(a, q)'
      BY <1>5, <2>1 DEF Due
    <3>2. Known(a, n) \/ Missed(closures[a].subj, n)
      <4>1. Known(a, p) /\ Due(a, n)
        BY <1>4, <2>1, <3>1 DEF Due
      <4> QED
        BY <2>1, <4>1 DEF HInv, NoHole, Whole
    <3> QED
      BY <1>6, <2>1, <3>1, <3>2
  <2> QED
    BY <1>1, <1>5, <2>1 DEF NoHole, Whole
<1>8. CallHole'
  BY <1>1, <1>5 DEF HInv, CallHole
<1>9. Positions'
  BY <1>1, <1>5 DEF HInv, Positions
<1>10. Begins'
  BY <1>1, <1>4, <1>5 DEF HInv, Begins
<1>11. Counted'
  BY <1>1, CountedKept
<1> QED
  BY <1>7, <1>8, <1>9, <1>10, <1>11 DEF HInv

\* The reader takes the first message; its handler is the closure it was sent for.
LEMMA ReadHInv == ASSUME IInv, CInv, HInv, NoneTwice, Read PROVE HInv'
<1> DEFINE m == Head(fromBroker)
           h == handlers[m.subj]
<1>1. /\ fromBroker \in Seq(Msg) /\ Len(fromBroker) \in Nat /\ 1 \in 1..Len(fromBroker)
      /\ m = fromBroker[1]
      /\ \A j \in 1..Len(fromBroker') : fromBroker'[j] = fromBroker[j + 1]
                                        /\ j + 1 \in 1..Len(fromBroker)
      /\ \A j \in 1..Len(fromBroker) : j = 1 \/
            (j - 1 \in 1..Len(fromBroker') /\ fromBroker'[j - 1] = fromBroker[j] /\ 1 < j)
  <2>1. fromBroker \in Seq(Msg) /\ fromBroker # <<>> /\ fromBroker' = Tail(fromBroker)
    BY DEF IInv, TypeOK, Read
  <2>2. /\ Len(fromBroker) \in Nat /\ Len(fromBroker) >= 1
        /\ Len(fromBroker') = Len(fromBroker) - 1
        /\ \A j \in 1..(Len(fromBroker) - 1) : fromBroker'[j] = fromBroker[j + 1]
        /\ Head(fromBroker) = fromBroker[1]
    BY <2>1, TailAt
  <2>3. \A j \in 1..(Len(fromBroker) - 1) : j + 1 \in 1..Len(fromBroker)
    BY <2>2
  <2>4. \A j \in 1..Len(fromBroker) : j = 1 \/
            (j - 1 \in 1..(Len(fromBroker) - 1) /\ (j - 1) + 1 = j /\ 1 < j)
    BY <2>2
  <2>5. \A j \in 1..Len(fromBroker) : j = 1 \/ fromBroker'[j - 1] = fromBroker[j]
    BY <2>2, <2>4
  <2> QED
    BY <2>1, <2>2, <2>3, <2>4, <2>5
<1>2. /\ UNCHANGED <<pc, toBroker, brokerSubs, handlers, closures>>
      /\ UNCHANGED <<pubSeq, missed, heard, gaps>>
      /\ h = 0 => UNCHANGED <<reader, cur>>
      /\ h # 0 => reader' = "call" /\ cur' = [sid |-> h, seq |-> m.seq]
      /\ reader = "read"
  BY DEF Read, userVars, tableVars, readerVars, pubVars, countVars
<1>3. /\ m.sid \in 1..Len(closures) /\ m.seq \in Nat /\ m.subj \in Subjects
      /\ closures[m.sid].subj = m.subj
      /\ h # 0 => h \in 1..Len(closures) /\ closures[h].subj = m.subj
  <2>1. m.sid \in 1..Len(closures) /\ m.seq \in Nat /\ m.subj \in Subjects
        /\ closures[m.sid].subj = m.subj
    BY <1>1, ReadLater
  <2>2. handlers \in [Subjects -> 0..Len(closures)] /\ Len(closures) \in Nat
    BY DEF IInv, TypeOK
  <2>3. h # 0 => h \in 1..Len(closures) /\ closures[h].subj = m.subj
    BY <2>1, <2>2 DEF CInv, Handles
  <2> QED
    BY <2>1, <2>3
<1>4. ASSUME NEW a \in 1..Len(closures), Market(a), h # 0, h = a \/ m.sid = a
      PROVE  h = a /\ m.sid = a
  BY <1>3, <1>4 DEF NoneTwice, Market
<1> HIDE DEF m, h
<1>5. ASSUME NEW a \in 1..Len(closures), Market(a), NEW n, Known(a, n)' PROVE Known(a, n)
  <2>1. CASE h # 0 /\ h = a /\ m.seq = n
    <3>1. m.sid = a
      BY <1>4, <1>5, <2>1
    <3> QED
      BY <1>1, <2>1, <3>1 DEF Known
  <2>2. CASE ~(h # 0 /\ h = a /\ m.seq = n)
    <3>1. ~(reader' = "call" /\ cur'.sid = a /\ cur'.seq = n)
      BY <1>2, <2>2
    <3> QED
      BY <1>1, <1>2, <1>5, <3>1 DEF Known
  <2> QED
    BY <2>1, <2>2
<1>6. ASSUME NEW a \in 1..Len(closures), Market(a), handlers[closures[a].subj] = a,
             NEW n, Known(a, n)
      PROVE  Known(a, n)'
  <2>1. CASE \E k \in 1..Len(fromBroker) : fromBroker[k].sid = a /\ fromBroker[k].seq = n
    <3>1. PICK k \in 1..Len(fromBroker) : fromBroker[k].sid = a /\ fromBroker[k].seq = n
      BY <2>1
    <3>2. CASE k = 1
      <4>1. m.sid = a /\ m.seq = n
        BY <1>1, <3>1, <3>2
      <4>2. h = a /\ a # 0
        BY <1>3, <1>6, <4>1 DEF h
      <4>3. cur'.sid = a /\ cur'.seq = n /\ reader' = "call"
        BY <1>2, <4>1, <4>2
      <4> QED
        BY <4>3 DEF Known
    <3>3. CASE k # 1
      BY <1>1, <3>1, <3>3 DEF Known
    <3> QED
      BY <3>2, <3>3
  <2>2. CASE closures[a].st.init /\ closures[a].st.last = n
    BY <1>2, <2>2 DEF Known
  <2> QED
    BY <1>2, <1>6, <2>1, <2>2 DEF Known
<1>7. /\ \A a : (Held(a)' <=> Held(a)) /\ (Opening(a)' <=> Opening(a)) /\ (Market(a)' <=> Market(a))
      /\ \A s, n : Missed(s, n)' <=> Missed(s, n)
  BY <1>2 DEF Held, Opening, IsFrame, Market, Missed
<1>8. NoHole'
  <2>1. ASSUME NEW a \in 1..Len(closures), Market(a), handlers[closures[a].subj] = a,
               NEW p \in Nat, NEW n \in Nat, p < n, Known(a, p)', Due(a, n)'
        PROVE  Known(a, n)' \/ Missed(closures[a].subj, n)
    <3>1. Known(a, p) /\ Due(a, n)
      BY <1>2, <1>5, <1>7, <2>1 DEF Due
    <3>2. Known(a, n) \/ Missed(closures[a].subj, n)
      BY <2>1, <3>1 DEF HInv, NoHole, Whole
    <3> QED
      BY <1>6, <2>1, <3>2
  <2> QED
    BY <1>2, <1>7, <2>1 DEF NoHole, Whole
<1>9. CallHole'
  <2>1. SUFFICES ASSUME h # 0, Market(h), closures[h].st.init,
                        NEW n \in Nat, closures[h].st.last < n, n < m.seq
                 PROVE  Missed(closures[h].subj, n)
    <3>1. h = 0 => reader' # "call"
      BY <1>2
    <3>2. h # 0 => cur'.sid = h /\ cur'.seq = m.seq
      BY <1>2
    <3> QED
      BY <1>2, <1>7, <3>1, <3>2 DEF CallHole
  <2>2. h \in 1..Len(closures) /\ m.sid = h /\ handlers[closures[h].subj] = h
    <3>1. h \in 1..Len(closures) /\ closures[h].subj = m.subj
      BY <1>3, <2>1
    <3> QED
      BY <1>4, <2>1, <3>1 DEF h
  <2>3. closures[h].st.last \in Nat /\ Known(h, closures[h].st.last) /\ Known(h, m.seq)
    <3>1. closures[h].st.last \in Nat
      BY <1>1, <2>2, ReadLater
    <3> QED
      BY <1>1, <2>1, <2>2, <3>1 DEF Known
  <2>4. Due(h, n)
    BY <1>3, <2>1, <2>3 DEF Due
  <2>5. Known(h, n) \/ Missed(closures[h].subj, n)
    BY <2>1, <2>2, <2>3, <2>4 DEF HInv, NoHole, Whole
  <2>6. ~Known(h, n)
    <3>1. closures[h].st.last # n
      BY <2>1, <2>3
    <3>2. ASSUME NEW k \in 1..Len(fromBroker), fromBroker[k].sid = h, fromBroker[k].seq = n
          PROVE  FALSE
      <4>1. k # 1
        BY <1>1, <1>3, <2>1, <3>2
      <4>2. 1 < k
        BY <1>1, <4>1
      <4>3. m.seq < n
        BY <1>1, <2>2, <3>2, <4>2, ReadLater
      <4> QED
        BY <1>3, <2>1, <4>3
    <3> QED
      BY <1>2, <3>1, <3>2 DEF Known
  <2> QED
    BY <2>5, <2>6
<1>10. Positions'
  BY <1>2, <1>7 DEF HInv, Positions
<1>11. Begins'
  BY <1>2, <1>5, <1>7 DEF HInv, Begins
<1>12. Counted'
  BY <1>2, CountedKept
<1> QED
  BY <1>8, <1>9, <1>10, <1>11, <1>12 DEF HInv

\* What a handler call does to the position and to the gaps.
LEMMA CallGaps ==
    ASSUME IInv, CallHandler
    PROVE  LET c == closures[cur.sid]
           IN  /\ c.subj \notin Symbols => UNCHANGED <<closures, gaps>>
               /\ c.subj \in Symbols =>
                    /\ closures'[cur.sid].st.init /\ closures'[cur.sid].st.last = cur.seq
                    /\ gaps' = gaps + GapOf(c.st, cur.seq)
<1> DEFINE c == closures[cur.sid]
           e == [c EXCEPT !.st = Observe(c.st, cur.seq)]
<1>1. closures \in Seq(Closure) /\ cur.sid \in 1..Len(closures) /\ cur.seq \in Nat
  BY DEF IInv, TypeOK, Pointers, CallHandler
<1>2. c \in Closure /\ c.st \in SeqState
  BY <1>1, ClosureAt
<1>3. c.subj \notin Symbols => UNCHANGED <<closures, gaps>>
  BY DEF CallHandler
<1>4. ASSUME c.subj \in Symbols
      PROVE  /\ closures'[cur.sid].st.init /\ closures'[cur.sid].st.last = cur.seq
             /\ gaps' = gaps + GapOf(c.st, cur.seq)
  <2>1. /\ closures' = [closures EXCEPT ![cur.sid].st = Observe(@, cur.seq)]
        /\ gaps' = gaps + GapOf(c.st, cur.seq)
    BY <1>4 DEF CallHandler
  <2>2. e \in Closure /\ e.st = Observe(c.st, cur.seq)
    BY <1>1, <1>2 DEF Closure, Observe, SeqState
  <2>3. closures' = [closures EXCEPT ![cur.sid] = e]
    BY <2>1
  <2> HIDE DEF e
  <2>4. closures'[cur.sid] = e
    BY <1>1, <2>2, <2>3, ExceptSeq
  <2>5. Observe(c.st, cur.seq).init = TRUE /\ Observe(c.st, cur.seq).last = cur.seq
    BY DEF Observe
  <2> QED
    BY <2>1, <2>2, <2>4, <2>5
<1> QED
  BY <1>3, <1>4

\* The numbers of a subject between two of its messages, when all of them are
\* in a finite set of messages.
LEMMA Between ==
    ASSUME NEW D, IsFiniteSet(D), NEW s, NEW a \in Nat, NEW b \in Nat, a <= b,
           \A n \in a..(b - 1) : [subj |-> s, seq |-> n] \in D
    PROVE  b - a <= Cardinality(D)
<1> DEFINE f == [n \in a..(b - 1) |-> [subj |-> s, seq |-> n]]
<1>1. f \in Injection(a..(b - 1), D)
  <2>1. f \in [a..(b - 1) -> D]
    OBVIOUS
  <2>2. \A m, n \in a..(b - 1) : f[m] = f[n] => m = n
    <3>1. \A m, n : [subj |-> s, seq |-> m] = [subj |-> s, seq |-> n] => m = n
      <4>1. SUFFICES ASSUME NEW m, NEW n,
                            [subj |-> s, seq |-> m] = [subj |-> s, seq |-> n]
                     PROVE  m = n
        OBVIOUS
      <4>2. [subj |-> s, seq |-> m].seq = [subj |-> s, seq |-> n].seq
        BY <4>1
      <4> QED
        BY <4>2
    <3> QED
      BY <3>1
  <2> HIDE DEF f
  <2> QED
    BY <2>1, <2>2 DEF Injection, IsInjective
<1>2. a \in Int /\ b - 1 \in Int
  OBVIOUS
<1> HIDE DEF f
<1>3. Cardinality(a..(b - 1)) <= Cardinality(D)
  BY <1>1, FS_Injection
<1>4. Cardinality(a..(b - 1)) = IF a > b - 1 THEN 0 ELSE (b - 1) - a + 1
  BY <1>2, FS_Interval, Zenon
<1>5. Cardinality(D) \in Nat
  BY FS_CardinalityType
<1> QED
  BY <1>3, <1>4, <1>5

\* A gap is added for messages that are all missed, and that the handlers were
\* not past before.
LEMMA CallCounted ==
    ASSUME IInv, CInv, HInv, CallHandler
    PROVE  Counted'
<1> SUFFICES ASSUME NEW k, k = cur.sid, NEW s, s = closures[k].subj,
                    NEW q, q = cur.seq, NEW l, l = closures[k].st.last
             PROVE  Counted'
  OBVIOUS
<1>1. /\ k \in 1..Len(closures) /\ q \in Nat /\ s \in Subjects /\ l \in Nat
      /\ heard' = [heard EXCEPT ![s] = q + 1] /\ heard \in [Subjects -> Nat]
      /\ closures[k].st \in SeqState
  <2>1. closures[k].st \in SeqState
    BY CallShape
  <2>2. l \in Nat
    BY <2>1 DEF SeqState
  <2>3. heard \in [Subjects -> Nat]
    BY DEF IInv, TypeOK
  <2> QED
    BY <2>1, <2>2, <2>3, CallShape
<1>2. reader = "call" /\ UNCHANGED missed
  BY DEF CallHandler, pubVars
<1>3. heard[s] <= q
  BY <1>2 DEF CInv, InOrder
<1>4. /\ heard'[s] = q + 1 /\ \A t \in Subjects : t # s => heard'[t] = heard[t]
      /\ \A t \in Subjects : heard[t] \in Nat
  BY <1>1
<1>5. \A t \in Subjects : heard'[t] \in Nat /\ heard[t] <= heard'[t]
  BY <1>1, <1>3, <1>4
<1>6. IsFiniteSet(missed) /\ gaps <= Cardinality(Passed) /\ gaps \in Nat
  BY DEF HInv, Counted, IInv, TypeOK
<1>7. CASE s \in Symbols /\ closures[k].st.init /\ q > l + 1
  <2> DEFINE D == {m \in missed : m.subj = s /\ l < m.seq /\ m.seq < q}
  <2>1. heard[s] = l + 1
    BY <1>1, <1>7 DEF HInv, Positions, Market
  <2>2. \A n \in (l + 1)..(q - 1) : [subj |-> s, seq |-> n] \in D
    <3>1. ASSUME NEW n \in (l + 1)..(q - 1) PROVE [subj |-> s, seq |-> n] \in D
      <4>1. n \in Nat /\ l < n /\ n < q
        BY <1>1, <3>1
      <4>2. Missed(s, n)
        BY <1>2, <1>7, <4>1 DEF HInv, CallHole, Market
      <4>3. [subj |-> s, seq |-> n] \in missed
        BY <4>2 DEF Missed
      <4> QED
        BY <4>1, <4>3
    <3> QED
      BY <3>1
  <2>3. IsFiniteSet(D) /\ IsFiniteSet(Passed) /\ IsFiniteSet(Passed')
    BY <1>2, <1>6, FS_Subset DEF Passed
  <2>4. D \subseteq Passed' /\ Passed \subseteq Passed' /\ Passed \cap D = {}
    <3>1. ASSUME NEW m \in missed
          PROVE  /\ m.seq < heard[m.subj] => m.seq < heard'[m.subj]
                 /\ m.subj = s /\ l < m.seq /\ m.seq < q =>
                      m.seq < heard'[m.subj] /\ ~(m.seq < heard[m.subj])
      <4>1. m.subj \in Subjects /\ m.seq \in Nat
        BY DEF IInv, TypeOK
      <4>2. m.seq < heard[m.subj] => m.seq < heard'[m.subj]
        <5>1. heard[m.subj] \in Nat /\ heard'[m.subj] \in Nat /\ heard[m.subj] <= heard'[m.subj]
          BY <1>4, <1>5, <4>1
        <5> QED
          BY <4>1, <5>1
      <4>3. m.subj = s /\ l < m.seq /\ m.seq < q =>
              m.seq < heard'[m.subj] /\ ~(m.seq < heard[m.subj])
        <5>1. SUFFICES ASSUME m.subj = s, l < m.seq, m.seq < q
              PROVE  m.seq < heard'[m.subj] /\ ~(m.seq < heard[m.subj])
          OBVIOUS
        <5>2. heard'[m.subj] = q + 1 /\ heard[m.subj] = l + 1
          BY <1>4, <2>1, <5>1
        <5>3. m.seq \in Nat /\ l \in Nat /\ q \in Nat
          BY <1>1, <4>1
        <5> QED
          BY <5>1, <5>2, <5>3
      <4> QED
        BY <4>2, <4>3
    <3> QED
      BY <1>2, <3>1 DEF Passed
  <2>5. q - (l + 1) <= Cardinality(D)
    <3>1. l + 1 \in Nat /\ l + 1 <= q
      <4>1. l \in Nat /\ q \in Nat /\ q > l + 1
        BY <1>1, <1>7
      <4> QED
        BY <4>1
    <3> HIDE DEF D
    <3> QED
      BY <1>1, <2>2, <2>3, <3>1, Between
  <2> HIDE DEF D
  <2>6. Cardinality(Passed) + Cardinality(D) <= Cardinality(Passed')
    <3>1. Passed \cup D \in SUBSET Passed'
      BY <2>4
    <3>2. Cardinality(Passed \cup D) <= Cardinality(Passed')
      BY <2>3, <3>1, FS_Subset
    <3>3. Cardinality(Passed \cup D) = Cardinality(Passed) + Cardinality(D) - 0
      BY <2>3, <2>4, FS_Union, FS_EmptySet
    <3>4. Cardinality(Passed) \in Nat /\ Cardinality(D) \in Nat
      BY <2>3, FS_CardinalityType
    <3> QED
      BY <3>2, <3>3, <3>4
  <2>7. gaps' = gaps + (q - l - 1)
    BY <1>7, CallGaps DEF GapOf
  <2>8. Cardinality(Passed) \in Nat /\ Cardinality(D) \in Nat /\ Cardinality(Passed') \in Nat
    BY <2>3, FS_CardinalityType
  <2>9. gaps' <= Cardinality(Passed')
    <3>1. q \in Nat /\ l \in Nat /\ gaps \in Nat /\ gaps <= Cardinality(Passed)
      BY <1>1, <1>6
    <3>2. gaps' <= gaps + Cardinality(D)
      BY <2>5, <2>7, <2>8, <3>1
    <3>3. gaps + (q - l - 1) \in Int
      BY <3>1
    <3> QED
      BY <2>6, <2>7, <2>8, <3>1, <3>2, <3>3
  <2> QED
    BY <1>2, <1>6, <2>9 DEF Counted
<1>8. CASE ~(s \in Symbols /\ closures[k].st.init /\ q > l + 1)
  <2>1. gaps' = gaps
    BY <1>6, <1>8, CallGaps DEF GapOf
  <2> QED
    BY <1>2, <1>5, <1>6, <2>1, PassedGrows
<1> QED
  BY <1>7, <1>8

LEMMA CallHandlerHInv == ASSUME IInv, CInv, HInv, NoneTwice, CallHandler PROVE HInv'
<1> SUFFICES ASSUME NEW k, k = cur.sid, NEW s, s = closures[k].subj, NEW q, q = cur.seq
             PROVE  HInv'
  OBVIOUS
<1>1. /\ k \in 1..Len(closures) /\ q \in Nat /\ s \in Subjects
      /\ Len(closures') = Len(closures)
      /\ \A a \in 1..Len(closures) :
            /\ closures'[a].subj = closures[a].subj
            /\ a # k => closures'[a].st = closures[a].st
      /\ heard' = [heard EXCEPT ![s] = q + 1]
      /\ heard \in [Subjects -> Nat]
  <2>1. heard \in [Subjects -> Nat]
    BY DEF IInv, TypeOK
  <2> QED
    BY <2>1, CallShape
<1>2. /\ reader = "call" /\ reader' = "read"
      /\ UNCHANGED <<pc, handlers, fromBroker, toBroker, brokerSubs, pubSeq, missed>>
  BY DEF CallHandler, userVars, netVars, pubVars
<1>3. /\ s \in Symbols => closures'[k].st.init /\ closures'[k].st.last = q
      /\ s \notin Symbols => closures'[k].st = closures[k].st
  BY CallGaps
<1>4. heard'[s] = q + 1 /\ \A t \in Subjects : t # s => heard'[t] = heard[t]
  BY <1>1
<1>5. \A a \in 1..Len(closures) : closures[a].subj \in Subjects
  BY ClosureAt DEF IInv, TypeOK
<1>6. /\ \A a \in 1..Len(closures) : Market(a)' <=> Market(a)
      /\ \A a : Held(a)' <=> Held(a)
      /\ \A a \in 1..Len(closures) : Opening(a)' <=> Opening(a)
      /\ \A t, n : Missed(t, n)' <=> Missed(t, n)
  BY <1>1, <1>2 DEF Held, Opening, IsFrame, Market, Missed
<1>7. ASSUME NEW a \in 1..Len(closures), Market(a), NEW n, Known(a, n)' PROVE Known(a, n)
  <2>1. CASE a = k
    BY <1>2, <1>3, <1>7, <2>1 DEF Known, Market
  <2>2. CASE a # k
    BY <1>1, <1>2, <1>7, <2>2 DEF Known
  <2> QED
    BY <2>1, <2>2
<1>8. ASSUME NEW a \in 1..Len(closures), Market(a), NEW p \in Nat, NEW n \in Nat, p < n,
             Known(a, p)', Known(a, n)
      PROVE  Known(a, n)'
  <2>1. CASE a = k
    <3>1. /\ Known(k, n)' <=> n = q \/ \E j \in 1..Len(fromBroker) :
                                          fromBroker[j].sid = k /\ fromBroker[j].seq = n
          /\ Known(k, p)' <=> p = q \/ \E j \in 1..Len(fromBroker) :
                                          fromBroker[j].sid = k /\ fromBroker[j].seq = p
      BY <1>2, <1>3, <1>8, <2>1 DEF Known, Market
    <3>2. q <= p
      <4>1. \A j \in 1..Len(fromBroker) : fromBroker[j].sid = k => q < fromBroker[j].seq
        BY <1>2, ReadLater
      <4> QED
        BY <1>1, <1>8, <2>1, <3>1, <4>1
    <3>3. closures[k].st.init /\ closures[k].st.last = n => n < q
      <4>1. ASSUME closures[k].st.init, closures[k].st.last = n PROVE n < q
        <5>1. n < heard[s] /\ heard[s] <= q /\ heard[s] \in Nat
          BY <1>1, <1>2, <4>1 DEF CInv, InOrder
        <5> QED
          BY <1>1, <5>1
      <4> QED
        BY <4>1
    <3>4. ~(closures[k].st.init /\ closures[k].st.last = n)
      BY <1>1, <1>8, <3>2, <3>3
    <3> QED
      BY <1>2, <1>8, <2>1, <3>1, <3>4 DEF Known
  <2>2. CASE a # k
    BY <1>1, <1>2, <1>8, <2>2 DEF Known
  <2> QED
    BY <2>1, <2>2
<1>9. NoHole'
  <2>1. ASSUME NEW a \in 1..Len(closures), Market(a), handlers[closures[a].subj] = a,
               NEW p \in Nat, NEW n \in Nat, p < n, Known(a, p)', Due(a, n)'
        PROVE  Known(a, n)' \/ Missed(closures[a].subj, n)
    <3>1. Known(a, p) /\ Due(a, n)
      BY <1>1, <1>2, <1>6, <1>7, <2>1 DEF Due
    <3>2. Known(a, n) \/ Missed(closures[a].subj, n)
      BY <2>1, <3>1 DEF HInv, NoHole, Whole
    <3> QED
      BY <1>8, <2>1, <3>2
  <2>2. ASSUME NEW a \in 1..Len(closures), Market(a), handlers[closures[a].subj] = a
        PROVE  Whole(a)'
    <3>1. \A n : Missed(closures[a].subj, n)' <=> Missed(closures[a].subj, n)
      BY <1>1, <1>2 DEF Missed
    <3> QED
      BY <2>1, <2>2, <3>1 DEF Whole
  <2> QED
    BY <1>1, <1>2, <1>6, <2>2 DEF NoHole
<1>10. CallHole'
  BY <1>2 DEF CallHole
<1>11. Positions'
  <2>1. ASSUME NEW a \in 1..Len(closures), Market(a), closures'[a].st.init
        PROVE  heard'[closures[a].subj] = closures'[a].st.last + 1
    <3>1. CASE a = k
      BY <1>3, <1>4, <2>1, <3>1 DEF Market
    <3>2. CASE a # k
      <4>1. closures[a].subj # s /\ closures'[a].st = closures[a].st
        BY <1>1, <2>1, <3>2 DEF NoneTwice
      <4> QED
        BY <1>4, <1>5, <2>1, <4>1 DEF HInv, Positions
    <3> QED
      BY <3>1, <3>2
  <2> QED
    BY <1>1, <1>6, <2>1 DEF Positions
<1>12. Begins'
  BY <1>1, <1>6, <1>7 DEF HInv, Begins
<1>13. Counted'
  BY CallCounted
<1> QED
  BY <1>9, <1>10, <1>11, <1>12, <1>13 DEF HInv

LEMMA PublishHInv ==
    ASSUME IInv, CInv, HInv, NEW s \in Subjects, Publish(s) PROVE HInv'
<1> SUFFICES ASSUME NEW r, r = pubSeq[s] PROVE HInv'
  OBVIOUS
<1>1. /\ UNCHANGED <<pc, toBroker, brokerSubs, reader, cur, handlers, closures>>
      /\ UNCHANGED <<missed, heard, gaps>>
      /\ pubSeq' = [pubSeq EXCEPT ![s] = r + 1]
  BY DEF Publish, userVars, readerVars, tableVars, countVars
<1>2. /\ pubSeq \in [Subjects -> Nat] /\ r \in Nat /\ fromBroker \in Seq(Msg)
      /\ pubSeq'[s] = r + 1 /\ \A t \in Subjects : t # s => pubSeq'[t] = pubSeq[t]
  BY <1>1 DEF IInv, TypeOK
<1>3. \A a \in 1..Len(closures) : closures[a].subj \in Subjects
  BY ClosureAt DEF IInv, TypeOK
<1>4. /\ \A a : (Held(a)' <=> Held(a)) /\ (Opening(a)' <=> Opening(a)) /\ (Market(a)' <=> Market(a))
      /\ \A t, n : Missed(t, n)' <=> Missed(t, n)
  BY <1>1 DEF Held, Opening, IsFrame, Market, Missed
<1>5. \A b \in brokerSubs : b.sid \in 1..Len(closures) /\ b.subj = closures[b.sid].subj
                            /\ ~Opening(b.sid)
  <2>1. ASSUME NEW b \in brokerSubs
        PROVE  b.sid \in 1..Len(closures) /\ b.subj = closures[b.sid].subj /\ ~Opening(b.sid)
    <3>1. b.sid \in 1..Done /\ b.subj = closures[b.sid].subj /\ Len(closures) \in Nat
      BY DEF CInv, Frames, IInv, TypeOK
    <3>2. b.sid \in 1..Len(closures) /\ ~(pc = "write" /\ b.sid = Len(closures))
      BY <3>1 DEF Done
    <3>3. \A j \in 1..Len(toBroker) : toBroker[j].sid = b.sid => toBroker[j].op = "unsub"
      BY DEF CInv, Frames
    <3> QED
      BY <3>1, <3>2, <3>3 DEF Opening, IsFrame
  <2> QED
    BY <2>1
<1>6. CallHole' /\ Positions' /\ Counted'
  BY <1>1, <1>4, CountedKept DEF HInv, CallHole, Positions
<1>7. CASE UNCHANGED fromBroker /\ Matching(s) = {}
  <2>1. \A a, n : Known(a, n)' <=> Known(a, n)
    BY <1>1, <1>7 DEF Known
  <2>2. ASSUME NEW a \in 1..Len(closures), NEW n, Due(a, n)' PROVE Due(a, n)
    <3>1. Held(a) => closures[a].subj # s
      BY <1>5, <1>7 DEF Held, Matching
    <3>2. Held(a) => pubSeq'[closures[a].subj] = pubSeq[closures[a].subj]
      BY <1>2, <1>3, <3>1
    <3> QED
      BY <1>1, <1>4, <2>1, <2>2, <3>2 DEF Due
  <2>3. NoHole'
    BY <1>1, <1>4, <2>1, <2>2 DEF HInv, NoHole, Whole
  <2>4. Begins'
    BY <1>1, <1>4, <2>1 DEF HInv, Begins
  <2> QED
    BY <1>6, <2>3, <2>4 DEF HInv
<1>8. ASSUME NEW b \in brokerSubs, b.subj = s,
             fromBroker' = Append(fromBroker, [subj |-> s, seq |-> pubSeq[s], sid |-> b.sid])
      PROVE  HInv'
  <2> DEFINE m == [subj |-> s, seq |-> r, sid |-> b.sid]
  <2>1. m \in Msg /\ m.seq = r /\ m.sid = b.sid /\ fromBroker' = Append(fromBroker, m)
    BY <1>2, <1>8 DEF Msg, IInv, TypeOK
  <2> HIDE DEF m
  <2> SUFFICES ASSUME NEW h, h = b.sid PROVE HInv'
    OBVIOUS
  <2>2. \A a, n : Known(a, n)' <=> Known(a, n) \/ (a = h /\ n = r)
    <3>1. /\ Len(fromBroker) \in Nat /\ Len(fromBroker') = Len(fromBroker) + 1
          /\ \A k \in 1..Len(fromBroker) : fromBroker'[k] = fromBroker[k]
          /\ fromBroker'[Len(fromBroker) + 1] = m
      BY <1>2, <2>1, AppendAt
    <3>2. \A k : k \in 1..Len(fromBroker') <=> k \in 1..Len(fromBroker) \/ k = Len(fromBroker) + 1
      BY <3>1
    <3> DEFINE P(a, n) == \E k \in 1..Len(fromBroker) :
                            fromBroker[k].sid = a /\ fromBroker[k].seq = n
               Q(a, n) == \E k \in 1..Len(fromBroker') :
                            fromBroker'[k].sid = a /\ fromBroker'[k].seq = n
    <3>3. \A a, n : Q(a, n) <=> P(a, n) \/ (a = h /\ n = r)
      BY <2>1, <3>1, <3>2
    <3>4. ASSUME NEW a, NEW n PROVE Known(a, n)' <=> Known(a, n) \/ (a = h /\ n = r)
      <4> DEFINE X == Taken(a, n)
      <4>1. Known(a, n)' <=> X \/ Q(a, n)
        BY <1>1 DEF Known, Taken
      <4>2. Known(a, n) <=> X \/ P(a, n)
        BY KnownParts
      <4> HIDE DEF X, P, Q
      <4>3. Q(a, n) <=> P(a, n) \/ (a = h /\ n = r)
        BY <3>3
      <4> QED
        BY <4>1, <4>2, <4>3
    <3> QED
      BY <3>4
  <2>3. /\ h \in 1..Len(closures) /\ closures[h].subj = s /\ Held(h) /\ ~Opening(h)
        /\ \A a \in 1..Len(closures) : Held(a) /\ closures[a].subj = s => a = h
    BY <1>5, <1>8, OneSub DEF Held, OneSubPerSubject
  <2>4. NoHole'
    <3>1. ASSUME NEW a \in 1..Len(closures), Market(a), handlers[closures[a].subj] = a,
                 NEW p \in Nat, NEW n \in Nat, p < n, Known(a, p)', Due(a, n)'
          PROVE  Known(a, n)' \/ Missed(closures[a].subj, n)
      <4>1. CASE a = h
        <5>1. n < r \/ n = r
          <6>1. \A x : Known(h, x) => x \in Nat /\ x < r
            BY <1>3, <2>3, KnownOrder
          <6>2. ASSUME NEW x \in Nat, n < x, Known(h, x)' PROVE n < r
            <7>1. Known(h, x) \/ x = r
              BY <2>2, <6>2
            <7> QED
              BY <1>2, <3>1, <6>1, <6>2, <7>1
          <6>3. Held(a)' /\ n < pubSeq'[closures'[a].subj] => n < r + 1
            BY <1>1, <1>2, <2>3, <4>1
          <6> QED
            BY <1>2, <3>1, <4>1, <6>2, <6>3 DEF Due
        <5>2. CASE n < r
          <6>1. Known(h, p)
            BY <1>2, <2>2, <3>1, <4>1, <5>2
          <6>2. Due(h, n)
            BY <2>3, <5>2 DEF Due
          <6> QED
            BY <2>2, <3>1, <4>1, <6>1, <6>2 DEF HInv, NoHole, Whole
        <5>3. CASE n = r
          BY <2>2, <4>1, <5>3
        <5> QED
          BY <5>1, <5>2, <5>3
      <4>2. CASE a # h
        <5>1. \A x : Known(a, x)' <=> Known(a, x)
          BY <2>2, <4>2
        <5>2. Held(a) => pubSeq'[closures[a].subj] = pubSeq[closures[a].subj]
          BY <1>2, <1>3, <2>3, <4>2
        <5>3. Due(a, n)
          BY <1>1, <1>4, <3>1, <5>1, <5>2 DEF Due
        <5> QED
          BY <3>1, <5>1, <5>3 DEF HInv, NoHole, Whole
      <4> QED
        BY <4>1, <4>2
    <3>2. ASSUME NEW a \in 1..Len(closures), Market(a), handlers[closures[a].subj] = a
          PROVE  Whole(a)'
      <4>1. \A n : Missed(closures[a].subj, n)' <=> Missed(closures[a].subj, n)
        BY <1>1 DEF Missed
      <4> QED
        BY <3>1, <3>2, <4>1 DEF Whole
    <3> QED
      BY <1>1, <1>4, <3>2 DEF NoHole
  <2>5. Begins'
    BY <1>1, <1>4, <2>2, <2>3 DEF HInv, Begins
  <2> QED
    BY <1>6, <2>4, <2>5 DEF HInv
<1> QED
  BY <1>7, <1>8, PublishShape

\* A message lost while its subscription was held is missed.
LEMMA LoseHInv ==
    ASSUME IInv, CInv, HInv, NEW s \in Subjects, Lose(s) PROVE HInv'
<1> SUFFICES ASSUME NEW r, r = pubSeq[s] PROVE HInv'
  OBVIOUS
<1>1. /\ UNCHANGED <<pc, toBroker, fromBroker, brokerSubs, reader, cur, handlers, closures>>
      /\ UNCHANGED <<heard, gaps>>
      /\ pubSeq' = [pubSeq EXCEPT ![s] = r + 1]
      /\ missed' = IF Matching(s) = {} THEN missed ELSE missed \cup {[subj |-> s, seq |-> r]}
  BY DEF Lose, userVars, netVars, readerVars, tableVars, countVars
<1>2. /\ pubSeq \in [Subjects -> Nat] /\ r \in Nat
      /\ pubSeq'[s] = r + 1 /\ \A t \in Subjects : t # s => pubSeq'[t] = pubSeq[t]
  BY <1>1 DEF IInv, TypeOK
<1>3. \A a \in 1..Len(closures) : closures[a].subj \in Subjects
  BY ClosureAt DEF IInv, TypeOK
<1>4. /\ \A a : (Held(a)' <=> Held(a)) /\ (Opening(a)' <=> Opening(a)) /\ (Market(a)' <=> Market(a))
      /\ \A a, n : Known(a, n)' <=> Known(a, n)
  BY <1>1 DEF Held, Opening, IsFrame, Market, Known
<1>5. missed \subseteq missed' /\ \A t, n : [subj |-> t, seq |-> n] \in missed
                                           => [subj |-> t, seq |-> n] \in missed'
  BY <1>1
<1>6. \A a \in 1..Len(closures) : Held(a) /\ closures[a].subj = s => Missed(s, r)'
  <2>1. ASSUME NEW a, Held(a), closures[a].subj = s PROVE [subj |-> s, seq |-> r] \in missed'
    <3>1. PICK b \in brokerSubs : b.sid = a
      BY <2>1 DEF Held
    <3>2. b.subj = s
      BY <2>1, <3>1 DEF CInv, Frames
    <3>3. Matching(s) # {}
      BY <3>2 DEF Matching
    <3> QED
      BY <1>1, <3>3
  <2> QED
    BY <2>1 DEF Missed
<1>7. NoHole'
  <2>1. ASSUME NEW a \in 1..Len(closures), Market(a), handlers[closures[a].subj] = a,
               NEW p \in Nat, NEW n \in Nat, p < n, Known(a, p), Due(a, n)'
        PROVE  Known(a, n) \/ [subj |-> closures[a].subj, seq |-> n] \in missed'
    <3>1. CASE Due(a, n)
      <4>1. Known(a, n) \/ Missed(closures[a].subj, n)
        BY <2>1, <3>1 DEF HInv, NoHole, Whole
      <4> QED
        BY <1>5, <4>1 DEF Missed
    <3>2. CASE ~Due(a, n)
      <4>1. Held(a) /\ n < pubSeq'[closures[a].subj] /\ ~(n < pubSeq[closures[a].subj])
        BY <1>1, <1>4, <2>1, <3>2 DEF Due
      <4>2. closures[a].subj = s
        BY <1>2, <1>3, <4>1
      <4>3. n = r
        BY <1>2, <2>1, <4>1, <4>2
      <4> QED
        BY <1>6, <4>1, <4>2, <4>3 DEF Missed
    <3> QED
      BY <3>1, <3>2
  <2>2. ASSUME NEW a \in 1..Len(closures), Market(a), handlers[closures[a].subj] = a
        PROVE  Whole(a)'
    BY <1>1, <1>4, <2>1, <2>2 DEF Whole, Missed
  <2> QED
    BY <1>1, <1>4, <2>2 DEF NoHole
<1>8. CallHole'
  BY <1>1, <1>4, <1>5 DEF HInv, CallHole, Missed
<1>9. Positions'
  BY <1>1, <1>4 DEF HInv, Positions
<1>10. Begins'
  BY <1>1, <1>4 DEF HInv, Begins
<1>11. Counted'
  <2>1. IsFiniteSet(missed')
    <3>1. IsFiniteSet(missed)
      BY DEF HInv, Counted
    <3>2. IsFiniteSet(missed \cup {[subj |-> s, seq |-> r]})
      BY <3>1, FS_AddElement
    <3> QED
      BY <1>1, <3>1, <3>2
  <2>2. \A t \in Subjects : heard[t] <= heard'[t] /\ heard'[t] \in Nat
    BY <1>1 DEF IInv, TypeOK
  <2> QED
    BY <1>1, <1>5, <2>1, <2>2, PassedGrows
<1> QED
  BY <1>7, <1>8, <1>9, <1>10, <1>11 DEF HInv

LEMMA NextHInv == IInv /\ CInv /\ NoneTwice /\ HInv /\ [Next]_vars => HInv'
<1> SUFFICES ASSUME IInv, CInv, NoneTwice, HInv, [Next]_vars PROVE HInv'
  OBVIOUS
<1>1. CASE UserStep
  BY <1>1, ControlHInv, DialOKHInv, RegisterHInv, SubWrittenHInv, SubFailedHInv,
     UnsubWrittenHInv, SwapHInv, CutsHInv DEF UserStep
<1>2. CASE ReaderStep
  BY <1>2, ReadHInv, CallHandlerHInv, ControlHInv DEF ReaderStep
<1>3. CASE BrokerRecv \/ ConnBreak \/ SetStop \/ WatchDrain
  BY <1>3, BrokerRecvHInv, CutsHInv, ControlHInv
<1>4. CASE \E s \in Subjects : Publish(s) \/ Lose(s)
  BY <1>4, PublishHInv, LoseHInv
<1>5. CASE UNCHANGED vars
  BY <1>5, ControlHInv
<1> QED
  BY <1>1, <1>2, <1>3, <1>4, <1>5 DEF Next

LEMMA HInvGaps == IInv /\ HInv => GapsAreMissed
<1> SUFFICES ASSUME IInv, HInv PROVE GapsAreMissed
  OBVIOUS
<1>1. IsFiniteSet(missed) /\ gaps <= Cardinality(Passed) /\ gaps \in Nat
      /\ Passed \in SUBSET missed
  BY DEF HInv, Counted, Passed, IInv, TypeOK
<1>2. Cardinality(Passed) <= Cardinality(missed) /\ IsFiniteSet(Passed)
  BY <1>1, FS_Subset
<1>3. Cardinality(Passed) \in Nat /\ Cardinality(missed) \in Nat
  BY <1>1, <1>2, FS_CardinalityType
<1> QED
  BY <1>1, <1>2, <1>3 DEF GapsAreMissed

-----------------------------------------------------------------------------
(* Users that do not scroll *)

\* ScrollCount is 0, or there are only as many symbols as the user shows: the
\* two ways in which scrollSub never swaps anything (user.go:231-247).
NeverScrolls ==
    \/ ScrollCount = 0
    \/ \A f \in Injection(Slots, Symbols) : Symbols \subseteq Range(f)

\* The closures are those of the calls of userConn.run, in their order.
Still ==
    /\ swaps = 0 /\ pc \notin {"swap", "unsub"}
    /\ \A a \in 1..Len(closures) : a > Len(Feeds) =>
        a - Len(Feeds) \in Slots /\ closures[a].subj = visibleIdx[a - Len(Feeds)]
    /\ \A k \in 1..Len(queue) : queue[k].slot # 0 => Done + k = Len(Feeds) + queue[k].slot

\* A step that makes no closure and no call.
LEMMA StillKept ==
    ASSUME Still, swaps' = 0, pc' \notin {"swap", "unsub"}, Done' = Done,
           UNCHANGED <<queue, visibleIdx>>, Len(closures') = Len(closures),
           \A a \in 1..Len(closures) : closures'[a].subj = closures[a].subj
    PROVE  Still'
BY DEF Still

LEMMA ReturnStill ==
    ASSUME IInv, CInv, Still, pc = "write", NEW h \in Nat, Return(h),
           UNCHANGED <<swaps, visibleIdx, closures>>
    PROVE  Still'
<1>1. /\ Len(queue') \in Nat /\ pc' \in {"register", "swap", "idle"}
      /\ \A k \in 1..Len(queue') : k + 1 \in 1..Len(queue) /\ queue'[k] = queue[k + 1]
  BY ReturnShape
<1>2. pc' # "swap"
  BY DEF Return, Still
<1>3. Done = Len(closures) - 1 /\ Done' = Len(closures) /\ Len(closures) \in Nat
  BY <1>1 DEF Done, IInv, TypeOK
<1>4. ASSUME NEW k \in 1..Len(queue'), queue'[k].slot # 0
      PROVE  Done' + k = Len(Feeds) + queue'[k].slot
  <2>1. Done + (k + 1) = Len(Feeds) + queue'[k].slot
    BY <1>1, <1>4 DEF Still
  <2>2. Done + (k + 1) = Done' + k
    BY <1>1, <1>3
  <2> QED
    BY <2>1, <2>2
<1>5. swaps' = 0 /\ pc' \notin {"swap", "unsub"}
  BY <1>1, <1>2 DEF Still
<1> QED
  BY <1>4, <1>5 DEF Still

LEMMA DialOKStill == ASSUME IInv, Still, DialOK PROVE Still'
<1>1. /\ pc' = "register" /\ Len(closures') = 0 /\ queue' = InitialCalls /\ swaps' = 0
      /\ Done' = 0
  BY DEF DialOK, Still, Done
<1>2. /\ Len(InitialCalls) = Len(Feeds) + NumSlots
      /\ \A k \in 1..Len(Feeds) : InitialCalls[k].slot = 0
      /\ \A slot \in Slots : InitialCalls[Len(Feeds) + slot].slot = slot
  <2>1. visibleIdx \in [Slots -> Symbols]
    BY DEF IInv, TypeOK
  <2> QED
    BY <2>1, InitialCallsAt, Zenon
<1>3. ASSUME NEW k \in 1..Len(InitialCalls), InitialCalls[k].slot # 0
      PROVE  k = Len(Feeds) + InitialCalls[k].slot
  <2>1. ~(k \in 1..Len(Feeds))
    BY <1>2, <1>3
  <2>2. k - Len(Feeds) \in Slots /\ Len(Feeds) + (k - Len(Feeds)) = k
    BY <1>2, <2>1, ConstantTypes
  <2>3. InitialCalls[k].slot = k - Len(Feeds)
    BY <1>2, <2>2
  <2> QED
    BY <2>2, <2>3
<1>4. \A k \in 1..Len(InitialCalls) : InitialCalls[k].slot # 0 =>
        0 + k = Len(Feeds) + InitialCalls[k].slot
  BY <1>2, <1>3, ConstantTypes
<1> QED
  BY <1>1, <1>4 DEF Still

LEMMA RegisterStill == ASSUME IInv, CInv, Still, Register PROVE Still'
<1> SUFFICES ASSUME NEW n, n = Len(closures), NEW c, c = Head(queue) PROVE Still'
  OBVIOUS
<1>1. /\ queue # <<>> /\ queue \in Seq(Call) /\ c = queue[1] /\ 1 \in 1..Len(queue)
      /\ closures \in Seq(Closure) /\ n \in Nat /\ c.subj \in Subjects
  BY TailAt, HeadCall DEF IInv, TypeOK, Pointers, Register
<1>2. /\ Len(closures') = n + 1
      /\ \A a \in 1..n : closures'[a] = closures[a]
      /\ closures'[n + 1].subj = c.subj
  <2>1. NewClosure(c.subj) \in Closure /\ NewClosure(c.subj).subj = c.subj
    BY <1>1, NewClosureType DEF NewClosure
  <2>2. closures' = Append(closures, NewClosure(c.subj))
    BY DEF Register
  <2> QED
    BY <1>1, <2>1, <2>2, AppendAt
<1>3. pc = "register" /\ pc' = "write" /\ UNCHANGED <<queue, swaps, visibleIdx>>
  BY DEF Register
<1>4. Done = n /\ Done' = n
  BY <1>1, <1>2, <1>3 DEF Done
<1>5. ASSUME n + 1 > Len(Feeds)
      PROVE  n + 1 - Len(Feeds) \in Slots /\ c.subj = visibleIdx[n + 1 - Len(Feeds)]
  <2>1. c.slot # 0
    BY <1>1, <1>4, <1>5, ConstantTypes DEF CInv, Calls
  <2>2. c.subj = visibleIdx[c.slot]
    BY <1>1, <2>1 DEF CInv, Calls
  <2>3. n + 1 = Len(Feeds) + c.slot
    BY <1>1, <1>4, <2>1 DEF Still
  <2>4. c.slot \in Slots
    <3>1. c.slot \in 0..NumSlots
      BY <1>1, HeadCall
    <3> QED
      BY <2>1, <3>1, ConstantTypes
  <2>5. n + 1 - Len(Feeds) = c.slot
    <3>1. n \in Nat /\ Len(Feeds) \in Nat /\ c.slot \in Nat
      BY <1>1, <2>4, ConstantTypes
    <3> QED
      BY <2>3, <3>1
  <2> QED
    BY <2>2, <2>4, <2>5
<1>6. ASSUME NEW a \in 1..(n + 1), a > Len(Feeds)
      PROVE  a - Len(Feeds) \in Slots /\ closures'[a].subj = visibleIdx[a - Len(Feeds)]
  <2>1. CASE a = n + 1
    BY <1>2, <1>5, <1>6, <2>1
  <2>2. CASE a # n + 1
    <3>1. a \in 1..n
      BY <1>1, <2>2
    <3> QED
      BY <1>2, <1>6, <3>1 DEF Still
  <2> QED
    BY <2>1, <2>2
<1> QED
  BY <1>2, <1>3, <1>4, <1>6 DEF Still

LEMMA ScrollStill ==
    ASSUME NeverScrolls, IInv, Still, Scroll PROVE UNCHANGED <<pc, swaps>>
<1> DEFINE count == IF ScrollCount > NumSlots THEN NumSlots ELSE ScrollCount
<1>1. CASE ScrollCount = 0
  <2>1. count = 0
    BY <1>1, ConstantTypes
  <2> QED
    BY <2>1 DEF Scroll
<1>2. CASE \A f \in Injection(Slots, Symbols) : Symbols \subseteq Range(f)
  <2>1. visibleIdx \in Injection(Slots, Symbols)
    BY DEF IInv, TypeOK, VisiblePartition, Injection
  <2>2. notVisible = {}
    BY <1>2, <2>1 DEF IInv, VisiblePartition
  <2> QED
    BY <2>2 DEF Scroll
<1> QED
  BY <1>1, <1>2 DEF NeverScrolls

LEMMA NextStill ==
    ASSUME NeverScrolls, IInv, CInv, Still, [Next]_vars PROVE Still'
<1>1. CASE \/ Top \/ DialFail \/ Scroll \/ DrainExit \/ ConnLost \/ Backoff
           \/ Read \/ ReaderExit \/ BrokerRecv \/ ConnBreak \/ SetStop \/ WatchDrain
           \/ (\E s \in Subjects : Publish(s) \/ Lose(s)) \/ UNCHANGED vars
  <2>1. UNCHANGED <<queue, visibleIdx, closures>>
    BY <1>1 DEF Top, DialFail, Scroll, DrainExit, ConnLost, Backoff, Read, ReaderExit,
                BrokerRecv, ConnBreak, SetStop, WatchDrain, Publish, Lose, vars, userVars,
                tableVars
  <2>2. Scroll => UNCHANGED <<pc, swaps>>
    BY ScrollStill
  <2>3. swaps' = swaps /\ (pc' = pc \/ (pc # "write" /\ pc' \notin {"write", "swap", "unsub"}))
    BY <1>1, <2>2 DEF Top, DialFail, DrainExit, ConnLost, Backoff, Read, ReaderExit,
                BrokerRecv, ConnBreak, SetStop, WatchDrain, Publish, Lose, vars, userVars
  <2>4. Done' = Done /\ swaps' = 0 /\ pc' \notin {"swap", "unsub"}
    BY <2>1, <2>3 DEF Done, Still
  <2> QED
    BY <2>1, <2>4, StillKept
<1>2. CASE CallHandler
  <2>1. UNCHANGED <<pc, swaps, queue, visibleIdx>>
    BY <1>2 DEF CallHandler, userVars
  <2>2. /\ Len(closures') = Len(closures)
        /\ \A a \in 1..Len(closures) : closures'[a].subj = closures[a].subj
    BY <1>2, CallShape
  <2>3. Done' = Done /\ swaps' = 0 /\ pc' \notin {"swap", "unsub"}
    BY <2>1, <2>2 DEF Done, Still
  <2> QED
    BY <2>1, <2>2, <2>3, StillKept
<1>3. CASE DialOK
  BY <1>3, DialOKStill
<1>4. CASE Register
  BY <1>4, RegisterStill
<1>5. CASE SubWritten \/ SubFailed
  <2>1. PICK h \in Nat : Return(h)
    BY <1>5 DEF SubWritten, SubFailed, IInv, TypeOK
  <2>2. pc = "write" /\ UNCHANGED <<swaps, visibleIdx, closures>>
    BY <1>5 DEF SubWritten, SubFailed, tableVars
  <2> QED
    BY <2>1, <2>2, ReturnStill
<1>6. CASE UnsubWritten \/ Swap
  BY <1>6 DEF UnsubWritten, Swap, Still
<1> QED
  BY <1>1, <1>2, <1>3, <1>4, <1>5, <1>6 DEF Next, UserStep, ReaderStep

LEMMA StillNoneTwice == ASSUME IInv, CInv, Still PROVE NoneTwice
<1>1. ASSUME NEW a \in 1..Len(closures), Market(a)
      PROVE  /\ a \in Nat /\ a - Len(Feeds) \in Slots
             /\ closures[a].subj = visibleIdx[a - Len(Feeds)]
  <2>1. ~(a <= Len(Feeds))
    <3>1. SUFFICES ASSUME a <= Len(Feeds) PROVE FALSE
      OBVIOUS
    <3>2. closures[a].subj = Feeds[a] /\ a \in 1..Len(Feeds)
      BY <3>1, ConstantTypes DEF CInv, Handles
    <3> QED
      BY <1>1, <3>2, FeedsAssumption DEF Market, Range
  <2>2. a > Len(Feeds) /\ a \in Nat
    BY <2>1, ConstantTypes
  <2> QED
    BY <2>2 DEF Still
<1>2. ASSUME NEW a \in 1..Len(closures), NEW b \in 1..Len(closures), Market(a),
             closures[a].subj = closures[b].subj
      PROVE  a = b
  <2>1. Market(b)
    BY <1>2 DEF Market
  <2>2. visibleIdx[a - Len(Feeds)] = visibleIdx[b - Len(Feeds)]
        /\ a - Len(Feeds) \in Slots /\ b - Len(Feeds) \in Slots /\ a \in Nat /\ b \in Nat
    BY <1>1, <1>2, <2>1
  <2>3. a - Len(Feeds) = b - Len(Feeds)
    BY <2>2 DEF IInv, TypeOK, VisiblePartition, IsInjective
  <2> QED
    BY <2>2, <2>3, ConstantTypes
<1> QED
  BY <1>2 DEF NoneTwice

-----------------------------------------------------------------------------
(* Theorems *)

\* The variables of UserConn keep their types: in particular every frame,
\* message and handler call has the sid of a closure of its connection.
THEOREM TypeCorrect == Spec => []TypeOK
<1>1. IInv => TypeOK
  BY DEF IInv
<1> QED
  BY <1>1, Invariant, PTL

\* Whatever scrolls and reconnections happen, the visible symbols are distinct
\* and notVisible holds the others (user.go:249-257).
THEOREM PartitionKept == Spec => []VisiblePartition
<1>1. IInv => VisiblePartition
  BY DEF IInv
<1> QED
  BY <1>1, Invariant, PTL

\* The broker never holds two subscriptions of one connection to one subject, so
\* no message is sent twice (transport.go:150-158).
THEOREM OneSubHolds == Spec => []OneSubPerSubject
<1>1. IInv /\ CInv => OneSubPerSubject
  BY OneSub
<1> QED
  BY <1>1, ConnInvariant, PTL

\* A message of a subscription the user counts on finds the handler of that very
\* subscription in the table (transport.go:150-158, 179-196, 231-238).
THEOREM LiveHandledHolds == Spec => []LiveMessagesHandled
<1>1. ASSUME IInv, CInv, NEW k \in 1..Len(fromBroker), fromBroker[k].sid \in Live
      PROVE  handlers[fromBroker[k].subj] = fromBroker[k].sid
  <2> DEFINE a == fromBroker[k].sid
  <2>1. a \in 1..Done /\ closures[a].subj = fromBroker[k].subj /\ Used(a)
    BY <1>1 DEF CInv, Table, Used
  <2>2. pc = "write" => a # Len(closures)
    BY <1>1, <2>1 DEF Done, IInv, TypeOK
  <2>3. Relied(a)
    BY <1>1, <2>2, ConstantTypes DEF Live, Relied
  <2> QED
    BY <1>1, <2>1, <2>3 DEF CInv, Table
<1>2. IInv /\ CInv => LiveMessagesHandled
  BY <1>1 DEF LiveMessagesHandled
<1> QED
  BY <1>2, ConnInvariant, PTL

\* Between scrolls, on a working connection, what the broker holds or is about to
\* hold is exactly the feeds and the visible symbols (user.go:189-194, 257-262).
THEOREM ConvergesHolds == Spec => []BrokerConverges
<1>1. ASSUME IInv, CInv, pc = "idle", up PROVE Pending = Wanted
  <2> DEFINE Sub(a) == [sid |-> a, subj |-> closures[a].subj]
             OnBroker(a) == Sent(a) /\ ~Unsubbed(a)
  <2>1. /\ toBroker \in Seq(Frame) /\ Len(toBroker) \in Nat /\ DOMAIN toBroker = 1..Len(toBroker)
        /\ brokerSubs \subseteq [sid : Nat, subj : Subjects]
        /\ queue = <<>> /\ Len(queue) = 0 /\ \A slot : ~Busy(slot)
        /\ Done = Len(closures) /\ Done \in Nat /\ Done >= Len(Feeds)
    <3>1. queue = <<>> /\ Len(queue) = 0
      BY <1>1 DEF CInv, Calls
    <3>2. Done = Len(closures) /\ Done \in Nat /\ Done + 0 >= Len(Feeds)
      BY <1>1, <3>1 DEF Done, CInv, Calls, Connected, IInv, TypeOK
    <3> QED
      BY <1>1, <3>1, <3>2, ConstantTypes, SMTT(40) DEF IInv, TypeOK, Busy
  <2>2. \A b \in brokerSubs : b = Sub(b.sid) /\ b.sid \in 1..Done
    BY <1>1, <2>1 DEF CInv, Frames
  <2>3. \A j \in 1..Len(toBroker) :
          /\ [sid |-> toBroker[j].sid, subj |-> toBroker[j].subj] = Sub(toBroker[j].sid)
          /\ toBroker[j].sid \in 1..Done
    BY <1>1 DEF CInv, Frames
  <2>4. \A b : b \in Pending <=> \E a \in 1..Done : b = Sub(a) /\ OnBroker(a)
    <3>1. \A f : f \in Range(toBroker) <=> \E j \in 1..Len(toBroker) : f = toBroker[j]
      BY <2>1 DEF Range
    <3>2. \A a : (\A f \in Range(toBroker) : f.op = "unsub" => f.sid # a) <=> ~Unsubbed(a)
      BY <3>1 DEF Unsubbed, IsFrame
    <3>3. ASSUME NEW b
          PROVE  b \in brokerSubs \cup {[sid |-> f.sid, subj |-> f.subj] :
                                          f \in {g \in Range(toBroker) : g.op = "sub"}}
                 <=> \E a \in 1..Done : b = Sub(a) /\ Sent(a)
      <4> DEFINE S == {[sid |-> f.sid, subj |-> f.subj] :
                          f \in {g \in Range(toBroker) : g.op = "sub"}}
      <4>1. b \in S <=> \E j \in 1..Len(toBroker) :
                          toBroker[j].op = "sub"
                          /\ b = [sid |-> toBroker[j].sid, subj |-> toBroker[j].subj]
        BY <3>1
      <4>2. b \in brokerSubs => \E a \in 1..Done : b = Sub(a) /\ Sent(a)
        BY <2>2 DEF Sent
      <4>3. b \in S => \E a \in 1..Done : b = Sub(a) /\ Sent(a)
        <5>1. SUFFICES ASSUME b \in S PROVE \E a \in 1..Done : b = Sub(a) /\ Sent(a)
          OBVIOUS
        <5>2. PICK j \in 1..Len(toBroker) :
                toBroker[j].op = "sub"
                /\ b = [sid |-> toBroker[j].sid, subj |-> toBroker[j].subj]
          BY <4>1, <5>1
        <5>3. Sent(toBroker[j].sid)
          BY <5>2 DEF Sent, IsFrame
        <5> QED
          BY <2>3, <5>2, <5>3
      <4>4. ASSUME NEW a \in 1..Done, b = Sub(a), Sent(a) PROVE b \in brokerSubs \cup S
        <5>1. CASE \E d \in brokerSubs : d.sid = a
          BY <2>2, <4>4, <5>1
        <5>2. CASE \E j \in 1..Len(toBroker) : IsFrame(j, "sub", a)
          BY <2>3, <4>1, <4>4, <5>2 DEF IsFrame
        <5> QED
          BY <4>4, <5>1, <5>2 DEF Sent
      <4> QED
        BY <4>2, <4>3, <4>4
    <3>4. \A b : b \in Pending <=>
            /\ b \in brokerSubs \cup {[sid |-> f.sid, subj |-> f.subj] :
                                        f \in {g \in Range(toBroker) : g.op = "sub"}}
            /\ \A f \in Range(toBroker) : f.op = "unsub" => f.sid # b.sid
      BY DEF Pending
    <3>5. \A a : Sub(a).sid = a
      OBVIOUS
    <3> HIDE DEF Sub
    <3> QED
      BY <3>2, <3>3, <3>4, <3>5
  <2>5. \A slot \in Slots : subs[slot] \in 1..Done /\ OnBroker(subs[slot])
                            /\ closures[subs[slot]].subj = visibleIdx[slot]
    BY <1>1, <2>1 DEF CInv, Alive, Handles, IInv, TypeOK
  <2>6. \A k \in 1..Len(Feeds) : k \in 1..Done /\ OnBroker(k) /\ closures[k].subj = Feeds[k]
    BY <1>1, <2>1, ConstantTypes DEF CInv, Alive, Handles
  <2>7. ASSUME NEW a \in 1..Done, OnBroker(a)
        PROVE  a \in 1..Len(Feeds) \/ \E slot \in Slots : subs[slot] = a
    BY <1>1, <2>1, <2>7, ConstantTypes DEF CInv, NoLeak, Kept
  <2> HIDE DEF OnBroker
  <2>8. \A b : b \in Wanted <=>
          \/ \E k \in 1..Len(Feeds) : b = [sid |-> k, subj |-> Feeds[k]]
          \/ \E slot \in Slots : b = [sid |-> subs[slot], subj |-> visibleIdx[slot]]
    BY DEF Wanted
  <2>9. \A b : b \in Wanted <=> \E a \in 1..Done : b = Sub(a) /\ OnBroker(a)
    BY <2>5, <2>6, <2>7, <2>8
  <2> QED
    BY <2>4, <2>9
<1>2. IInv /\ CInv => BrokerConverges
  BY <1>1 DEF BrokerConverges
<1> QED
  BY <1>2, ConnInvariant, PTL

\* No message is ever counted as a duplicate (user.go:125-126).
THEOREM NoDupHolds == Spec => []NoDup
<1>1. CInv => NoDup
  BY DEF CInv, InOrder, NoDup
<1> QED
  BY <1>1, ConnInvariant, PTL

\* The user's connections, scrolls and losses together implement OrderedFeed: its
\* handlers get the messages of a subject in the order of publication, none twice.
THEOREM FeedHolds == Spec => FeedSpec
<1>1. Init => Feed!Init
  BY DEF Init, Feed!Init
<1>2. ASSUME IInv, CInv, [Next]_vars PROVE [Feed!Next]_(Feed!vars)
  <2>1. CASE UNCHANGED <<pubSeq, heard, rx>>
    BY <2>1 DEF Feed!vars
  <2>2. ASSUME NEW s \in Subjects, Publish(s) \/ Lose(s) PROVE Feed!Next
    <3>1. Feed!Publish(s)
      BY <2>2 DEF Publish, Lose, countVars, Feed!Publish
    <3> QED
      BY <3>1 DEF Feed!Next
  <2>3. CASE CallHandler
    <3> DEFINE s == closures[cur.sid].subj
    <3>1. /\ s \in Subjects /\ cur.seq \in Nat
          /\ heard' = [heard EXCEPT ![s] = cur.seq + 1]
          /\ rx' = [rx EXCEPT ![s] = rx[s] + 1]
      BY <1>2, <2>3, CallShape
    <3>2. heard[s] <= cur.seq /\ cur.seq < pubSeq[s] /\ UNCHANGED pubSeq
      BY <1>2, <2>3 DEF CInv, InOrder, CallHandler, pubVars
    <3>3. heard[s] \in Nat /\ pubSeq[s] \in Nat
      BY <1>2, <3>1 DEF IInv, TypeOK
    <3> HIDE DEF s
    <3>4. cur.seq \in heard[s]..(pubSeq[s] - 1)
      BY <3>1, <3>2, <3>3
    <3>5. Feed!Deliver(s)
      BY <3>1, <3>2, <3>4 DEF Feed!Deliver
    <3> QED
      BY <3>1, <3>5 DEF Feed!Next
  <2>4. CASE UserStep
    <3>1. UNCHANGED <<pubVars, countVars>>
      BY <2>4 DEF UserStep, Top, DialOK, DialFail, Register, SubWritten, SubFailed,
                  UnsubWritten, Scroll, Swap, DrainExit, ConnLost, Backoff
    <3> QED
      BY <2>1, <3>1 DEF pubVars, countVars
  <2>5. CASE Read \/ ReaderExit \/ BrokerRecv \/ ConnBreak \/ SetStop \/ WatchDrain
    <3>1. UNCHANGED <<pubVars, countVars>>
      BY <2>5 DEF Read, ReaderExit, BrokerRecv, ConnBreak, SetStop, WatchDrain
    <3> QED
      BY <2>1, <3>1 DEF pubVars, countVars
  <2>6. CASE UNCHANGED vars
    BY <2>1, <2>6 DEF vars, pubVars, countVars
  <2> QED
    BY <1>2, <2>2, <2>3, <2>4, <2>5, <2>6 DEF Next, ReaderStep
<1> QED
  BY <1>1, <1>2, ConnInvariant, PTL DEF Spec, FeedSpec, Feed!Spec

\* As long as no symbol is scrolled out and in again on one connection, a gap is
\* only counted for messages lost while the broker held the subscription, and
\* never for an outage (user.go:34, 106-127).  The hypothesis is needed: without
\* it, readLoop may start the new closure with a message of the old subscription
\* (transport.go:231-238), and run user_scroll_gaps shows a gap nobody missed.
THEOREM GapsMissedHolds == Spec /\ []NoneTwice => []GapsAreMissed
<1>1. Init => HInv
  BY InitHInv
<1>2. IInv /\ CInv /\ NoneTwice /\ HInv /\ [Next]_vars => HInv'
  BY NextHInv
<1>3. IInv /\ HInv => GapsAreMissed
  BY HInvGaps
<1> QED
  BY <1>1, <1>2, <1>3, ConnInvariant, PTL DEF Spec

\* A user that never scrolls counts no gap but for messages lost while it was
\* subscribed, whatever connections it loses (user.go:34, 118, 231-247).
THEOREM StillGapsHolds == ASSUME NeverScrolls PROVE Spec => []GapsAreMissed
<1>1. Init => Still
  <2>1. ASSUME Init PROVE Still
    <3>1. swaps = 0 /\ pc = "top" /\ Len(closures) = 0 /\ Len(queue) = 0
      BY <2>1 DEF Init
    <3> QED
      BY <3>1 DEF Still
  <2> QED
    BY <2>1
<1>2. IInv /\ CInv /\ Still /\ [Next]_vars => Still'
  BY NextStill
<1>3. IInv /\ CInv /\ Still => NoneTwice
  BY StillNoneTwice
<1> QED
  BY <1>1, <1>2, <1>3, ConnInvariant, GapsMissedHolds, PTL DEF Spec
=============================================================================
