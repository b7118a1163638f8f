--------------------------- MODULE ShutdownProofs ---------------------------
(***************************************************************************)
(* Proofs about Shutdown, for any number of users, classes and messages,   *)
(* in two invariants.                                                      *)
(*                                                                         *)
(* IInv is about time.  The counters only grow, so what main reads after   *)
(* the drain window has at least what was counted by its end; the case     *)
(* that matters is a main that reads before, because all users gave up     *)
(* dialling after stop.  Then no readLoop is left, and the counters stand  *)
(* still (Settled).                                                        *)
(*                                                                         *)
(* FInv is about sums.  Each shared counter, with what the goroutines have *)
(* in hand and have not added to it, is a full count at every moment:      *)
(* published with all localPub, MarketRx with what is under way, GapCount  *)
(* with the gaps of handlers between their two adds.  What main reads is   *)
(* exact when the rest is zero, and off by the rest when it is not.        *)
(***************************************************************************)
EXTENDS Shutdown, TallyProofs, SequenceTheorems

\* As much of TypeOK as the counters depend on.
CountersTyped ==
    /\ stop \in BOOLEAN /\ drainDone \in BOOLEAN
    /\ rx \in Nat /\ gaps \in Nat
    /\ nextSeq \in [Classes -> Nat]
    /\ inbox \in [Users -> Seq(Message)]
    /\ cur \in [Users -> Message]
    /\ st \in [Users -> [Classes -> SeqState]]
    /\ upc \in [Users -> {"top", "dial", "subscribe", "idle", "backoff", "gone"}]
    /\ reader \in [Users -> {"read", "check", "exited"}]
    /\ DOMAIN snap = Fields
    /\ {"rx", "gaps"} \subseteq DOMAIN mark

\* A user without connection has no readLoop, and one that left has none before
\* the window ends.
NoReaderLeft ==
    \A u \in Users :
        upc[u] \in {"top", "dial", "backoff"} \/ (upc[u] = "gone" /\ ~drainDone)
            => reader[u] = "exited"

\* main reads in order, when all users have left.
MainInOrder ==
    /\ main \in {"run", "wait"} => reads = 0
    /\ main = "collect" => reads \in {0, 1, 2}
    /\ main = "exited" => reads = 3
    /\ main \in {"run", "wait", "collect", "exited"}
    /\ main \in {"collect", "exited"} => \A u \in Users : upc[u] = "gone"

\* What was counted at the end of the window is still counted, and what main
\* has read is not less; before the end of the window it is what stands.
MarkKept == drainDone => mark.rx <= rx /\ mark.gaps <= gaps /\ mark.rx \in Nat /\ mark.gaps \in Nat
Settled ==
    /\ reads \in {2, 3} => IF drainDone THEN snap["rx"] >= mark.rx ELSE snap["rx"] = rx
    /\ reads = 3 /\ drainDone => snap["gaps"] >= mark.gaps

IInv == CountersTyped /\ NoReaderLeft /\ MainInOrder /\ MarkKept /\ Settled

-----------------------------------------------------------------------------
(* Every step keeps IInv *)

LEMMA NoMessageType == NoMessage \in Message
BY ClassesAssumption DEF NoMessage, Message

LEMMA InitIInv == Init => IInv
<1> SUFFICES ASSUME Init PROVE IInv
  OBVIOUS
<1>1. CountersTyped
  <2>1. st \in [Users -> [Classes -> SeqState]]
    BY DEF Init, SeqState, Fresh
  <2>2. cur \in [Users -> Message] /\ inbox \in [Users -> Seq(Message)]
    BY NoMessageType DEF Init
  <2>3. DOMAIN snap = Fields /\ {"rx", "gaps"} \subseteq DOMAIN mark
    BY DEF Init
  <2> QED
    BY <2>1, <2>2, <2>3 DEF Init, CountersTyped
<1> QED
  BY <1>1 DEF Init, IInv, NoReaderLeft, MainInOrder, MarkKept, Settled

\* What one message adds is never negative.
LEMMA GapIsNat == ASSUME CountersTyped, NEW u \in Users PROVE GapInHand(u) \in Nat
<1>1. cur[u].class \in Classes /\ cur[u].seq \in Nat /\ st[u][cur[u].class] \in SeqState
  BY DEF CountersTyped, Message
<1> QED
  BY <1>1 DEF GapInHand, GapOf, SeqState

\* A step that leaves the counters, main and the readLoops alone.
LEMMA ClassIInv == ASSUME IInv, NEW c \in Classes, ClassStep(c) PROVE IInv'
<1> USE DEF IInv, CountersTyped, NoReaderLeft, MainInOrder, MarkKept, Settled
<1>1. CASE Test(c) \/ Final(c) \/ PublishFailed(c)
  <2>1. UNCHANGED <<mainVars, shardVars, connVars, readerVars, countVars, mark>>
    BY <1>1 DEF Test, Final, PublishFailed
  <2>2. nextSeq' \in [Classes -> Nat]
    BY <1>1 DEF Test, Final, PublishFailed, Tick
  <2> QED
    BY <2>1, <2>2 DEF mainVars, shardVars, connVars, readerVars, countVars
<1>2. CASE Publish(c)
  <2>1. /\ UNCHANGED <<mainVars, shardVars, connVars, reader, cur, st, countVars, mark>>
        /\ nextSeq' \in [Classes -> Nat]
    BY <1>2 DEF Publish, Tick
  <2>2. inbox' \in [Users -> Seq(Message)]
    <3>1. [class |-> c, seq |-> nextSeq[c]] \in Message
      BY DEF Message
    <3> DEFINE m == [class |-> c, seq |-> nextSeq[c]]
    <3> HIDE DEF m
    <3>2. \A u \in Users : Append(inbox[u], m) \in Seq(Message)
      BY <3>1 DEF m
    <3>3. PICK got \in SUBSET Connected :
             inbox' = [u \in Users |-> IF u \in got THEN Append(inbox[u], m) ELSE inbox[u]]
      BY <1>2 DEF Publish, m
    <3> QED
      BY <3>2, <3>3
  <2> QED
    BY <2>1, <2>2 DEF mainVars, shardVars, connVars, countVars
<1> QED
  BY <1>1, <1>2 DEF ClassStep

\* readLoop keeps a prefix of what was under way.
LEMMA CutType ==
    ASSUME CountersTyped, NEW u \in Users, Cut(u)
    PROVE  inbox' \in [Users -> Seq(Message)]
<1>1. PICK kept \in Prefixes(inbox[u]) : inbox' = [inbox EXCEPT ![u] = kept]
  BY DEF Cut
<1>2. inbox[u] \in Seq(Message)
  BY DEF CountersTyped
<1>3. kept \in Seq(Message)
  <2>1. PICK n \in 0..Len(inbox[u]) : kept = SubSeq(inbox[u], 1, n)
    BY <1>1, <1>2, Zenon DEF Prefixes
  <2> QED
    BY <1>2, <2>1
<1> QED
  BY <1>1, <1>3 DEF CountersTyped

LEMMA UserIInv == ASSUME IInv, NEW u \in Users, UserStep(u) PROVE IInv'
<1> USE DEF IInv, CountersTyped, NoReaderLeft, MainInOrder, MarkKept, Settled
<1> USE DEF UserAt, mainVars, shardVars, pubVars, readerVars, countVars, pathVars
<1>1. CASE Top(u)
  BY <1>1 DEF Top
<1>2. CASE DialOK(u)
  <2>1. st' \in [Users -> [Classes -> SeqState]]
    BY <1>2 DEF DialOK, SeqState, Fresh
  <2> QED
    BY <1>2, <2>1 DEF DialOK
<1>3. CASE DialFail(u)
  BY <1>3 DEF DialFail
<1>7. CASE Subscribed(u)
  <2>1. upc' = [upc EXCEPT ![u] = "idle"] /\ upc[u] = "subscribe"
    BY <1>7 DEF Subscribed
  <2>2. UNCHANGED <<up, dials, mainVars, shardVars, pubVars, readerVars, countVars, pathVars, mark>>
    BY <1>7 DEF Subscribed
  <2> QED
    BY <2>1, <2>2
<1>4. CASE DrainExit(u)
  <2>1. inbox' \in [Users -> Seq(Message)]
    BY <1>4, CutType DEF DrainExit
  <2> QED
    BY <1>4, <2>1 DEF DrainExit
<1>5. CASE ConnLost(u)
  BY <1>5 DEF ConnLost
<1>6. CASE Backoff(u)
  BY <1>6 DEF Backoff
<1> QED
  BY <1>1, <1>2, <1>3, <1>4, <1>5, <1>6, <1>7 DEF UserStep

LEMMA ReaderIInv == ASSUME IInv, NEW u \in Users, ReaderStep(u) PROVE IInv'
<1> USE DEF mainVars, shardVars, pubVars, connVars, pathVars, countVars
\* A readLoop that does something is that of a user with a connection, or of one
\* that left after the window.
<1>1. reader[u] # "exited" /\ (main \in {"collect", "exited"} => drainDone)
  BY DEF ReaderStep, Receive, Check, ReaderExit, IInv, NoReaderLeft, MainInOrder, CountersTyped
<1>2. CASE Receive(u)
  <2>1. Head(inbox[u]) \in Message /\ Tail(inbox[u]) \in Seq(Message)
    BY <1>2 DEF Receive, IInv, CountersTyped
  <2>2. CountersTyped'
    BY <1>2, <2>1 DEF Receive, IInv, CountersTyped
  <2> QED
    BY <1>1, <1>2, <2>2
       DEF Receive, IInv, CountersTyped, NoReaderLeft, MainInOrder, MarkKept, Settled
<1>3. CASE Check(u)
  <2>1. GapInHand(u) \in Nat
    BY GapIsNat DEF IInv
  <2>2. cur[u].class \in Classes /\ cur[u].seq \in Nat
    BY DEF IInv, CountersTyped, Message
  <2>3. st' \in [Users -> [Classes -> SeqState]]
    <3>1. Observe(st[u][cur[u].class], cur[u].seq) \in SeqState
      BY <2>2 DEF Observe, SeqState
    <3> QED
      BY <1>3, <2>2, <3>1 DEF Check, IInv, CountersTyped
  <2>4. CountersTyped'
    BY <1>3, <2>1, <2>3, NoMessageType DEF Check, IInv, CountersTyped
  <2>5. gaps' >= gaps /\ rx' = rx /\ gaps \in Nat /\ gaps' \in Nat
    BY <1>3, <2>1 DEF Check, IInv, CountersTyped
  <2>6. MarkKept' /\ Settled'
    BY <1>1, <1>3, <2>5 DEF Check, IInv, CountersTyped, MainInOrder, MarkKept, Settled
  <2>7. NoReaderLeft' /\ MainInOrder'
    BY <1>1, <1>3 DEF Check, IInv, CountersTyped, NoReaderLeft, MainInOrder
  <2> QED
    BY <2>4, <2>6, <2>7 DEF IInv
<1>4. CASE ReaderExit(u)
  BY <1>4 DEF ReaderExit, IInv, CountersTyped, NoReaderLeft, MainInOrder, MarkKept, Settled
<1> QED
  BY <1>2, <1>3, <1>4 DEF ReaderStep

LEMMA BreakIInv == ASSUME IInv, NEW u \in Users, Break(u) PROVE IInv'
<1>1. inbox' \in [Users -> Seq(Message)]
  BY CutType DEF Break, IInv
<1> QED
  BY <1>1 DEF Break, mainVars, shardVars, pubVars, countVars,
              IInv, CountersTyped, NoReaderLeft, MainInOrder, MarkKept, Settled

\* The window ends: what main has read of MarketRx is what stands.
LEMMA WatchIInv == IInv /\ main # "exited" /\ WatchDrain => IInv'
BY DEF WatchDrain, mainVars, pubVars, connVars, readerVars, countVars, pathVars,
       IInv, CountersTyped, NoReaderLeft, MainInOrder, MarkKept, Settled

LEMMA CollectIInv == IInv /\ Collect => IInv'
<1> SUFFICES ASSUME IInv, Collect PROVE IInv'
  OBVIOUS
<1> USE DEF shardVars, pubVars, connVars, readerVars, countVars, pathVars
<1>1. Len(ReadOrder) = 3 /\ ReadOrder[1] = "pub" /\ ReadOrder[2] = "rx" /\ ReadOrder[3] = "gaps"
  BY DEF ReadOrder
<1>2. reads \in {0, 1, 2} /\ reads' = reads + 1
  BY DEF Collect, IInv, MainInOrder
<1>3. /\ DOMAIN snap' = Fields /\ {"rx", "gaps"} \subseteq DOMAIN mark'
      /\ mark'.rx = mark.rx /\ mark'.gaps = mark.gaps
  BY DEF Collect, IInv, CountersTyped
<1>4. CountersTyped' /\ NoReaderLeft' /\ MarkKept'
  BY <1>3 DEF Collect, IInv, CountersTyped, NoReaderLeft, MarkKept
<1>5. MainInOrder'
  BY <1>1, <1>2 DEF Collect, IInv, MainInOrder
<1>6. Settled'
  <2>1. CASE reads = 0
    BY <1>2, <2>1 DEF Settled
  <2>2. CASE reads = 1
    <3>1. snap'["rx"] = rx
      BY <1>1, <2>2 DEF Collect, Counter, IInv, CountersTyped, Fields
    <3> QED
      BY <1>2, <1>3, <2>2, <3>1 DEF Collect, Settled, IInv, MarkKept, CountersTyped
  <2>3. CASE reads = 2
    <3>1. snap'["gaps"] = gaps /\ snap'["rx"] = snap["rx"]
      BY <1>1, <2>3 DEF Collect, Counter, IInv, CountersTyped, Fields
    <3> QED
      BY <1>2, <1>3, <2>3, <3>1 DEF Collect, Settled, IInv, MarkKept, CountersTyped
  <2> QED
    BY <1>2, <2>1, <2>2, <2>3
<1> QED
  BY <1>4, <1>5, <1>6 DEF IInv

LEMMA MainIInv == IInv /\ (SetStop \/ WaitDone) => IInv'
<1> USE DEF shardVars, pubVars, connVars, readerVars, countVars, pathVars,
            IInv, CountersTyped, NoReaderLeft, MainInOrder, MarkKept, Settled
<1>1. ASSUME IInv, SetStop PROVE IInv'
  BY <1>1 DEF SetStop
<1>2. ASSUME IInv, WaitDone PROVE IInv'
  BY <1>2 DEF WaitDone, Finished
<1> QED
  BY <1>1, <1>2

LEMMA NextIInv == IInv /\ [Next]_vars => IInv'
<1>1. ASSUME IInv, UNCHANGED vars PROVE IInv'
  BY <1>1 DEF vars, mainVars, shardVars, pubVars, connVars, readerVars, countVars, pathVars,
              IInv, CountersTyped, NoReaderLeft, MainInOrder, MarkKept, Settled
<1> QED
  BY <1>1, ClassIInv, UserIInv, ReaderIInv, BreakIInv, WatchIInv, CollectIInv, MainIInv
     DEF Next, MainStep

LEMMA Invariant == Spec => []IInv
BY InitIInv, NextIInv, PTL DEF Spec

-----------------------------------------------------------------------------
(* The shared counters and what the goroutines have not added yet *)

\* A publisher that is done has nothing left to count, and main reads only when
\* all of them are.
BatchesAdded ==
    /\ \A c \in Classes : cpc[c] = "done" => local[c] = 0
    /\ main \in {"collect", "exited"} => \A c \in Classes : cpc[c] = "done"

\* The counters that many goroutines share, and what these have not added yet,
\* give the full count.
Underway == [u \in Users |-> Len(inbox[u])]
PublishedBalance == published + Tally(local) = sent
ReceivedBalance == due = rx + Tally(Underway)
GapBalance == owed = gaps + Tally(InHand)

\* What main has read.
ReadSoFar ==
    /\ reads \in {1, 2, 3} => snap["pub"] = sent
    /\ reads \in {2, 3} => mark.owed <= owed
    /\ reads = 3 => snap["gaps"] + mark.pending >= mark.owed

\* Once everything was handled by the end of the window, it stays so, and main
\* reads full counts, and those it has read before were.
CleanStays ==
    mark.clean =>
        /\ drainDone /\ Quiet
        /\ reads \in {2, 3} => snap["rx"] = due
        /\ reads = 3 => snap["gaps"] = owed

FInv ==
    /\ TypeOK /\ BatchesAdded
    /\ PublishedBalance /\ ReceivedBalance /\ GapBalance
    /\ ReadSoFar /\ CleanStays

\* The functions that are added up, and what they are made of.
LEMMA HandTypes ==
    TypeOK => /\ \A u \in Users : GapInHand(u) \in Nat
              /\ InHand \in [Users -> Nat]
              /\ \A u \in Users : InHand[u] = IF reader[u] = "check" THEN GapInHand(u) ELSE 0
<1> HAVE TypeOK
<1>1. ASSUME NEW u \in Users PROVE GapInHand(u) \in Nat
  <2>1. cur[u].class \in Classes /\ cur[u].seq \in Nat /\ st[u][cur[u].class] \in SeqState
    BY DEF TypeOK, Message
  <2> QED
    BY <2>1 DEF GapInHand, GapOf, SeqState
<1> QED
  BY <1>1 DEF InHand

LEMMA UnderwayTypes ==
    ASSUME inbox \in [Users -> Seq(Message)]
    PROVE  /\ Underway \in [Users -> Nat]
           /\ \A u \in Users : Underway[u] = Len(inbox[u])
BY DEF Underway

LEMMA TallyTypes ==
    TypeOK => Tally(local) \in Nat /\ Tally(Underway) \in Nat /\ Tally(InHand) \in Nat
<1> HAVE TypeOK
<1>1. local \in [Classes -> Nat]
  BY BatchAssumption DEF TypeOK
<1>2. Underway \in [Users -> Nat]
  BY UnderwayTypes DEF TypeOK
<1>3. InHand \in [Users -> Nat]
  BY HandTypes
<1> QED
  BY <1>1, <1>2, <1>3, UnitsFinite, ClassesAssumption, UsersAssumption

\* The same of the next state.
HandsTyped == InHand \in [Users -> Nat] /\ Tally(InHand) \in Nat

LEMMA HandsAreTyped == TypeOK => HandsTyped
BY HandTypes, TallyTypes DEF HandsTyped

LEMMA HandsStayTyped == TypeOK' => HandsTyped'
BY HandsAreTyped, PTL

\* With nothing under way and nobody between two adds the counters are full.
LEMMA QuietCounts ==
    ASSUME FInv, Quiet
    PROVE  due = rx /\ owed = gaps
<1>1. Underway \in [Users -> Nat] /\ \A u \in Users : Underway[u] = 0
  BY UnderwayTypes DEF FInv, TypeOK, Quiet
<1>2. InHand \in [Users -> Nat] /\ \A u \in Users : InHand[u] = 0
  BY HandTypes DEF FInv, Quiet
<1>3. Tally(Underway) = 0 /\ Tally(InHand) = 0
  BY <1>1, <1>2, TallyZero
<1> QED
  BY <1>3 DEF FInv, TypeOK, ReceivedBalance, GapBalance

LEMMA InitFInv == Init => FInv
<1> SUFFICES ASSUME Init PROVE FInv
  OBVIOUS
<1>1. TypeOK
  <2>1. st \in [Users -> [Classes -> SeqState]]
    BY DEF Init, SeqState, Fresh
  <2>2. cur \in [Users -> Message] /\ inbox \in [Users -> Seq(Message)]
    BY NoMessageType DEF Init
  <2>3. local \in [Classes -> 0..(Batch - 1)]
    BY BatchAssumption DEF Init
  <2>4. mark \in [rx : Nat, gaps : Nat, clean : BOOLEAN, owed : Nat, pending : Nat]
    BY DEF Init
  <2>5. snap \in [Fields -> Nat] /\ reads \in 0..Len(ReadOrder)
    BY DEF Init, ReadOrder
  <2> QED
    BY <2>1, <2>2, <2>3, <2>4, <2>5 DEF Init, TypeOK
<1>2. Tally(local) = 0
  <2>1. local \in [Classes -> Nat] /\ \A c \in Classes : local[c] = 0
    BY DEF Init
  <2> QED
    BY <2>1, TallyZero
<1>3. Tally(Underway) = 0
  <2>1. Underway \in [Users -> Nat] /\ \A u \in Users : Underway[u] = 0
    BY <1>1, UnderwayTypes DEF Init, TypeOK
  <2> QED
    BY <2>1, TallyZero
<1>4. Tally(InHand) = 0
  <2>1. InHand \in [Users -> Nat] /\ \A u \in Users : InHand[u] = 0
    BY <1>1, HandTypes DEF Init
  <2> QED
    BY <2>1, TallyZero
<1> QED
  BY <1>1, <1>2, <1>3, <1>4
     DEF Init, FInv, BatchesAdded, PublishedBalance, ReceivedBalance, GapBalance, ReadSoFar, CleanStays

\* A step leaves alone what it does not touch.
LEMMA SameHands == ASSUME UNCHANGED <<reader, cur, st>> PROVE InHand' = InHand
BY DEF InHand, GapInHand, GapOf

LEMMA SameUnderway == ASSUME UNCHANGED inbox PROVE Underway' = Underway
BY DEF Underway

-----------------------------------------------------------------------------
(* Publishers *)

\* A class that still does something: main has not read anything.
LEMMA ClassAlive ==
    ASSUME IInv, FInv, NEW c \in Classes, cpc[c] # "done"
    PROVE  reads = 0 /\ main \in {"run", "wait"} /\ ~mark.clean
<1>1. main \in {"run", "wait"}
  BY DEF IInv, MainInOrder, FInv, BatchesAdded
<1>2. ~mark.clean
  BY DEF FInv, CleanStays, Quiet
<1> QED
  BY <1>1, <1>2 DEF IInv, MainInOrder

\* A message accepted is in localPub or in Published, and localPub stays below a
\* batch.
LEMMA CountBalance ==
    ASSUME TypeOK, PublishedBalance, NEW c \in Classes, Count(c), sent' = sent + 1
    PROVE  /\ local' \in [Classes -> 0..(Batch - 1)] /\ published' \in Nat
           /\ PublishedBalance'
           /\ \A d \in Classes : d # c => local'[d] = local[d]
<1>1. local \in [Classes -> 0..(Batch - 1)] /\ published \in Nat /\ sent \in Nat /\ Batch \in Nat \ {0}
  BY BatchAssumption DEF TypeOK
<1>2. local[c] \in 0..(Batch - 1)
  BY <1>1
<1>3. /\ local' \in [Classes -> 0..(Batch - 1)] /\ published' \in Nat
      /\ \A d \in Classes : d # c => local'[d] = local[d]
      /\ published' + local'[c] = published + local[c] + 1
  <2>1. CASE local[c] + 1 = Batch
    <3>1. published' = published + Batch /\ local' = [local EXCEPT ![c] = 0]
      BY <2>1 DEF Count
    <3> QED
      BY <1>1, <1>2, <2>1, <3>1
  <2>2. CASE local[c] + 1 # Batch
    <3>1. published' = published /\ local' = [local EXCEPT ![c] = local[c] + 1]
      BY <2>2 DEF Count
    <3>2. local[c] + 1 \in 0..(Batch - 1)
      BY <1>1, <1>2, <2>2
    <3> QED
      BY <1>1, <1>2, <3>1, <3>2
  <2> QED
    BY <2>1, <2>2
<1>4. local \in [Classes -> Nat] /\ local' \in [Classes -> Nat]
  BY <1>1, <1>3
<1>5. Tally(local') + local[c] = Tally(local) + local'[c]
  BY <1>3, <1>4, TallyUpdate, ClassesAssumption
<1>6. Tally(local) \in Nat /\ Tally(local') \in Nat
  BY <1>4, UnitsFinite, ClassesAssumption
<1>7. PublishedBalance'
  <2>1. published + Tally(local) = sent
    BY DEF PublishedBalance
  <2>2. local[c] \in Nat /\ local'[c] \in Nat
    BY <1>4
  <2>3. published' + Tally(local') = sent'
    BY <1>1, <1>3, <1>5, <1>6, <2>1, <2>2
  <2> QED
    BY <2>3 DEF PublishedBalance
<1> QED
  BY <1>3, <1>7

\* Every user the message reaches has one message more under way.
LEMMA FanOutBalance ==
    ASSUME TypeOK, ReceivedBalance, NEW m \in Message, NEW got \in SUBSET Users,
           inbox' = [u \in Users |-> IF u \in got THEN Append(inbox[u], m) ELSE inbox[u]],
           due' = due + Cardinality(got), rx' = rx
    PROVE  inbox' \in [Users -> Seq(Message)] /\ ReceivedBalance' /\ due' \in Nat
<1>1. inbox \in [Users -> Seq(Message)] /\ rx \in Nat /\ due \in Nat
  BY DEF TypeOK
<1>2. ASSUME NEW u \in Users
      PROVE  /\ Append(inbox[u], m) \in Seq(Message)
             /\ Len(Append(inbox[u], m)) = Len(inbox[u]) + 1
  BY <1>1
<1>3. inbox' \in [Users -> Seq(Message)]
  BY <1>1, <1>2
<1>4. Underway \in [Users -> Nat] /\ \A u \in Users : Underway[u] = Len(inbox[u])
  BY <1>1, UnderwayTypes
<1>5. Underway' \in [Users -> Nat] /\ \A u \in Users : Underway'[u] = Len(inbox'[u])
  BY <1>3 DEF Underway
<1>6. ASSUME NEW u \in Users
      PROVE  Underway'[u] = IF u \in got THEN Underway[u] + 1 ELSE Underway[u]
  BY <1>2, <1>4, <1>5
<1>7. Tally(Underway') = Tally(Underway) + Cardinality(got) /\ Cardinality(got) \in Nat
  <2>1. \A u \in Users : Underway'[u] = Underway[u] \/ Underway'[u] = Underway[u] + 1
    BY <1>6
  <2>2. Changed(Underway, Underway') = got
    BY <1>4, <1>6 DEF Changed
  <2>3. Tally(Underway') = Tally(Underway) + Cardinality(Changed(Underway, Underway'))
    BY <1>4, <1>5, <2>1, TallyAdd, UsersAssumption, ZenonT(40)
  <2>4. Cardinality(got) \in Nat
    BY UsersAssumption, FS_Subset, FS_CardinalityType
  <2> QED
    BY <2>2, <2>3, <2>4
<1>8. Tally(Underway) \in Nat
  BY <1>4, UnitsFinite, UsersAssumption
<1>9. ReceivedBalance' /\ due' \in Nat
  BY <1>1, <1>7, <1>8 DEF ReceivedBalance
<1> QED
  BY <1>3, <1>9

LEMMA PublishFInv ==
    ASSUME IInv, FInv, NEW c \in Classes, Publish(c)
    PROVE  FInv'
<1>0. TypeOK /\ cpc[c] = "wait" /\ cpc \in [Classes -> {"test", "wait", "final", "done"}]
  BY DEF FInv, TypeOK, Publish, Tick
<1>1. reads = 0 /\ main \in {"run", "wait"} /\ ~mark.clean
  BY <1>0, ClassAlive
<1>2. /\ UNCHANGED <<main, reads, snap, mine, owned, stop, drainDone, upc, up, dials, reader, cur, st,
                     rx, gaps, owed, mark>>
      /\ nextSeq' = [nextSeq EXCEPT ![c] = @ + 1] /\ cpc' = [cpc EXCEPT ![c] = "test"]
      /\ Count(c) /\ sent' = sent + 1
  BY DEF Publish, Tick, mainVars, shardVars, connVars, countVars
<1>3. PICK got \in SUBSET Connected :
        /\ lost' = lost + Cardinality(Connected \ got)
        /\ due' = due + Cardinality(got)
        /\ inbox' = [u \in Users |->
              IF u \in got THEN Append(inbox[u], [class |-> c, seq |-> nextSeq[c]]) ELSE inbox[u]]
  BY DEF Publish
<1>4. got \in SUBSET Users /\ [class |-> c, seq |-> nextSeq[c]] \in Message
  BY <1>0 DEF Connected, TypeOK, Message
<1>5. inbox' \in [Users -> Seq(Message)] /\ ReceivedBalance' /\ due' \in Nat
  <2> DEFINE m == [class |-> c, seq |-> nextSeq[c]]
  <2>1. inbox' = [u \in Users |-> IF u \in got THEN Append(inbox[u], m) ELSE inbox[u]]
    BY <1>3
  <2> HIDE DEF m
  <2>2. m \in Message
    BY <1>4 DEF m
  <2> QED
    BY <1>0, <1>2, <1>3, <1>4, <2>1, <2>2, FanOutBalance DEF FInv
<1>6. /\ local' \in [Classes -> 0..(Batch - 1)] /\ published' \in Nat
      /\ PublishedBalance'
      /\ \A d \in Classes : d # c => local'[d] = local[d]
  BY <1>0, <1>2, CountBalance DEF FInv
<1>7. lost' \in Nat
  <2>1. IsFiniteSet(Connected \ got)
    BY UsersAssumption, FS_Subset DEF Connected
  <2> QED
    BY <1>0, <1>3, <2>1, FS_CardinalityType DEF TypeOK
<1>8. TypeOK'
  <2>1. nextSeq' \in [Classes -> Nat] /\ cpc' \in [Classes -> {"test", "wait", "final", "done"}]
    BY <1>0, <1>2 DEF TypeOK
  <2>2. sent' \in Nat
    BY <1>0, <1>2 DEF TypeOK
  <2> QED
    BY <1>0, <1>2, <1>5, <1>6, <1>7, <2>1, <2>2 DEF TypeOK
<1>9. BatchesAdded'
  <2>1. ASSUME NEW d \in Classes, cpc'[d] = "done" PROVE local'[d] = 0
    BY <1>0, <1>2, <1>6, <2>1 DEF FInv, BatchesAdded
  <2> QED
    BY <1>1, <1>2, <2>1 DEF BatchesAdded
<1>10. GapBalance'
  BY <1>2, SameHands DEF FInv, GapBalance
<1>11. ReadSoFar' /\ CleanStays'
  BY <1>1, <1>2 DEF ReadSoFar, CleanStays
<1> QED
  BY <1>5, <1>6, <1>8, <1>9, <1>10, <1>11 DEF FInv

LEMMA FinalFInv ==
    ASSUME IInv, FInv, NEW c \in Classes, Final(c)
    PROVE  FInv'
<1>0. TypeOK /\ cpc[c] = "final" /\ cpc \in [Classes -> {"test", "wait", "final", "done"}]
  BY DEF FInv, TypeOK, Final
<1>1. reads = 0 /\ main \in {"run", "wait"} /\ ~mark.clean
  BY <1>0, ClassAlive
<1>2. /\ UNCHANGED <<main, reads, snap, mine, owned, stop, drainDone, upc, up, dials, inbox, reader, cur, st,
                     rx, gaps, owed, lost, due, nextSeq, sent, mark>>
      /\ cpc' = [cpc EXCEPT ![c] = "done"]
      /\ published' = published + local[c] /\ local' = [local EXCEPT ![c] = 0]
  BY DEF Final, mainVars, shardVars, connVars, readerVars, countVars, pathVars
<1>3. local \in [Classes -> 0..(Batch - 1)] /\ Batch \in Nat \ {0} /\ published \in Nat /\ sent \in Nat
  BY <1>0, BatchAssumption DEF TypeOK
<1>4. local' \in [Classes -> 0..(Batch - 1)] /\ local \in [Classes -> Nat] /\ local' \in [Classes -> Nat]
  BY <1>2, <1>3
<1>5. Tally(local') + local[c] = Tally(local) + local'[c] /\ local'[c] = 0
  <2>1. local'[c] = 0 /\ \A d \in Classes : d # c => local'[d] = local[d]
    BY <1>2, <1>3
  <2> QED
    BY <1>4, <2>1, TallyUpdate, ClassesAssumption
<1>6. Tally(local) \in Nat /\ Tally(local') \in Nat
  BY <1>4, UnitsFinite, ClassesAssumption
<1>7. local[c] \in Nat
  BY <1>4
<1>8. PublishedBalance' /\ published' \in Nat
  BY <1>2, <1>3, <1>5, <1>6, <1>7 DEF FInv, PublishedBalance
<1>9. TypeOK'
  BY <1>0, <1>2, <1>4, <1>8 DEF TypeOK
<1>10. BatchesAdded'
  BY <1>0, <1>1, <1>2, <1>3 DEF FInv, BatchesAdded
<1>11. ReceivedBalance' /\ GapBalance'
  BY <1>2, SameHands, SameUnderway DEF FInv, ReceivedBalance, GapBalance
<1>12. ReadSoFar' /\ CleanStays'
  BY <1>1, <1>2 DEF ReadSoFar, CleanStays
<1> QED
  BY <1>8, <1>9, <1>10, <1>11, <1>12 DEF FInv

LEMMA ClassFInv ==
    ASSUME IInv, FInv, NEW c \in Classes, ClassStep(c)
    PROVE  FInv'
<1>1. CASE Test(c) \/ PublishFailed(c)
  <2>0. TypeOK /\ cpc \in [Classes -> {"test", "wait", "final", "done"}]
    BY DEF FInv, TypeOK
  <2>1. /\ cpc[c] \in {"test", "wait"}
        /\ UNCHANGED <<main, reads, snap, mine, owned, stop, drainDone, upc, up, dials, inbox, reader, cur, st,
                       rx, gaps, owed, due, local, published, sent, mark>>
    BY <1>1 DEF Test, PublishFailed, Tick, mainVars, shardVars, connVars, readerVars, countVars, pathVars
  <2>2. reads = 0 /\ main \in {"run", "wait"} /\ ~mark.clean
    BY <2>1, ClassAlive
  <2>3. nextSeq' \in [Classes -> Nat] /\ lost' \in Nat
    <3>1. nextSeq \in [Classes -> Nat] /\ lost \in Nat
      BY <2>0 DEF TypeOK
    <3>2. nextSeq' \in {nextSeq, [nextSeq EXCEPT ![c] = @ + 1]} /\ lost' \in {lost, lost + 1}
      BY <1>1 DEF Test, PublishFailed, Tick, pathVars
    <3> QED
      BY <3>1, <3>2
  <2>4. cpc' \in [Classes -> {"test", "wait", "final", "done"}] /\ cpc'[c] # "done"
        /\ \A d \in Classes : d # c => cpc'[d] = cpc[d]
    BY <1>1, <2>0 DEF Test, PublishFailed, Tick
  <2>5. TypeOK'
    BY <2>0, <2>1, <2>3, <2>4 DEF TypeOK
  <2>6. BatchesAdded'
    BY <2>1, <2>2, <2>4 DEF FInv, BatchesAdded
  <2>7. PublishedBalance' /\ ReceivedBalance' /\ GapBalance'
    BY <2>1, SameHands, SameUnderway DEF FInv, PublishedBalance, ReceivedBalance, GapBalance
  <2>8. ReadSoFar' /\ CleanStays'
    BY <2>1, <2>2 DEF ReadSoFar, CleanStays
  <2> QED
    BY <2>5, <2>6, <2>7, <2>8 DEF FInv
<1> QED
  BY <1>1, PublishFInv, FinalFInv DEF ClassStep

-----------------------------------------------------------------------------
(* Users *)

\* The end of a connection takes from due what readLoop will not see.
LEMMA CutBalance ==
    ASSUME FInv, NEW u \in Users, Cut(u), rx' = rx
    PROVE  /\ inbox' \in [Users -> Seq(Message)]
           /\ up' \in [Users -> BOOLEAN]
           /\ ReceivedBalance' /\ due' \in Nat
           /\ (\A v \in Users : inbox[v] = <<>>) => due' = due /\ \A v \in Users : inbox'[v] = <<>>
<1>0. TypeOK /\ inbox \in [Users -> Seq(Message)] /\ inbox[u] \in Seq(Message) /\ due \in Nat /\ rx \in Nat
  BY DEF FInv, TypeOK
<1>1. PICK kept \in Prefixes(inbox[u]) :
        inbox' = [inbox EXCEPT ![u] = kept] /\ due' = due - (Len(inbox[u]) - Len(kept))
  BY DEF Cut
<1>2. PICK n \in 0..Len(inbox[u]) : kept = SubSeq(inbox[u], 1, n)
  BY <1>0, <1>1, Zenon DEF Prefixes
<1>3. kept \in Seq(Message) /\ Len(kept) \in Nat /\ Len(kept) <= Len(inbox[u])
  BY <1>0, <1>2
<1>4. inbox' \in [Users -> Seq(Message)]
  BY <1>0, <1>1, <1>3
<1>5. Underway \in [Users -> Nat] /\ \A v \in Users : Underway[v] = Len(inbox[v])
  BY <1>0, UnderwayTypes
<1>6. Underway' \in [Users -> Nat] /\ \A v \in Users : Underway'[v] = Len(inbox'[v])
  BY <1>4 DEF Underway
<1>7. Tally(Underway') + Underway[u] = Tally(Underway) + Underway'[u]
  <2>1. \A v \in Users : v # u => Underway'[v] = Underway[v]
    BY <1>0, <1>1, <1>5, <1>6
  <2> QED
    BY <1>5, <1>6, <2>1, TallyUpdate, UsersAssumption
<1>8. Underway[u] = Len(inbox[u]) /\ Underway'[u] = Len(kept) /\ Len(inbox[u]) \in Nat
  BY <1>0, <1>1, <1>5, <1>6
<1>9. Tally(Underway) \in Nat /\ Tally(Underway') \in Nat
  BY <1>5, <1>6, UnitsFinite, UsersAssumption
<1>10. ReceivedBalance' /\ due' \in Nat
  <2>1. due = rx + Tally(Underway)
    BY DEF FInv, ReceivedBalance
  <2>2. due' = rx' + Tally(Underway')
    <3>1. Tally(Underway') + Len(inbox[u]) = Tally(Underway) + Len(kept)
      BY <1>7, <1>8
    <3>2. due' = due - (Len(inbox[u]) - Len(kept)) /\ rx' = rx /\ rx \in Nat
      BY <1>0, <1>1
    <3>3. Len(inbox[u]) \in Nat /\ Len(kept) \in Nat
      BY <1>3, <1>8
    <3> QED
      BY <1>9, <2>1, <3>1, <3>2, <3>3, SMTT(40)
  <2> QED
    BY <1>0, <1>9, <2>2 DEF ReceivedBalance
<1>11. up' \in [Users -> BOOLEAN]
  BY DEF Cut, FInv, TypeOK
<1>12. ASSUME \A v \in Users : inbox[v] = <<>>
       PROVE  due' = due /\ \A v \in Users : inbox'[v] = <<>>
  <2>1. Len(inbox[u]) = 0
    BY <1>12
  <2>2. Len(kept) = 0 /\ kept = <<>>
    BY <1>3, <2>1
  <2> QED
    BY <1>0, <1>1, <1>12, <2>1, <2>2
<1> QED
  BY <1>4, <1>10, <1>11, <1>12

\* A connection ends.
LEMMA CutFInv ==
    ASSUME FInv, NEW u \in Users, Cut(u),
           upc' \in [Users -> {"top", "dial", "subscribe", "idle", "backoff", "gone"}],
           UNCHANGED <<dials, lost, reader, cur, st, mainVars, shardVars, pubVars, countVars, mark>>
    PROVE  FInv'
<1>1. UNCHANGED <<main, reads, snap, mine, owned, stop, drainDone, cpc, local, nextSeq, published, sent,
                  dials, reader, cur, st, rx, gaps, owed, lost, mark>>
  BY DEF mainVars, shardVars, pubVars, countVars
<1>2. /\ inbox' \in [Users -> Seq(Message)]
      /\ up' \in [Users -> BOOLEAN]
      /\ ReceivedBalance' /\ due' \in Nat
      /\ (\A v \in Users : inbox[v] = <<>>) => due' = due /\ \A v \in Users : inbox'[v] = <<>>
  BY <1>1, CutBalance
<1>3. TypeOK'
  BY <1>1, <1>2 DEF FInv, TypeOK
<1>4. BatchesAdded' /\ PublishedBalance'
  BY <1>1 DEF FInv, BatchesAdded, PublishedBalance
<1>5. GapBalance'
  BY <1>1, SameHands DEF FInv, GapBalance
<1>6. ReadSoFar' /\ CleanStays'
  BY <1>1, <1>2 DEF FInv, ReadSoFar, CleanStays, Quiet
<1> QED
  BY <1>2, <1>3, <1>4, <1>5, <1>6 DEF FInv

LEMMA UserFInv ==
    ASSUME IInv, FInv, NEW u \in Users, UserStep(u) \/ Break(u)
    PROVE  FInv'
<1>0. TypeOK /\ upc \in [Users -> {"top", "dial", "subscribe", "idle", "backoff", "gone"}]
  BY DEF FInv, TypeOK
<1>1. CASE Top(u) \/ Subscribed(u) \/ DialFail(u) \/ ConnLost(u) \/ Backoff(u)
  <2>1. UNCHANGED <<main, reads, snap, mine, owned, stop, drainDone, cpc, local, nextSeq, published, sent,
                    up, dials, inbox, reader, cur, st, rx, gaps, owed, lost, due, mark>>
    BY <1>1 DEF Top, Subscribed, DialFail, ConnLost, Backoff, mainVars, shardVars, pubVars, readerVars, countVars, pathVars
  <2>2. upc' \in [Users -> {"top", "dial", "subscribe", "idle", "backoff", "gone"}]
    BY <1>0, <1>1 DEF Top, Subscribed, DialFail, ConnLost, Backoff, UserAt
  <2>3. TypeOK'
    BY <1>0, <2>1, <2>2 DEF TypeOK
  <2>4. PublishedBalance' /\ ReceivedBalance' /\ GapBalance'
    BY <2>1, SameHands, SameUnderway DEF FInv, PublishedBalance, ReceivedBalance, GapBalance
  <2>5. BatchesAdded' /\ ReadSoFar' /\ CleanStays'
    BY <2>1 DEF FInv, BatchesAdded, ReadSoFar, CleanStays, Quiet
  <2> QED
    BY <2>3, <2>4, <2>5 DEF FInv
<1>2. CASE DialOK(u)
  <2>1. /\ UNCHANGED <<main, reads, snap, mine, owned, stop, drainDone, cpc, local, nextSeq, published, sent,
                       inbox, cur, rx, gaps, owed, lost, due, mark>>
        /\ reader' = [reader EXCEPT ![u] = "read"] /\ up' = [up EXCEPT ![u] = TRUE] /\ dials' = dials + 1
        /\ st' = [st EXCEPT ![u] = [c \in Classes |-> Fresh]]
        /\ upc[u] = "dial" /\ upc' = [upc EXCEPT ![u] = "subscribe"]
    BY <1>2 DEF DialOK, UserAt, mainVars, shardVars, pubVars, countVars, pathVars
  <2>2. reader[u] = "exited" /\ reader \in [Users -> {"read", "check", "exited"}]
    BY <1>0, <2>1 DEF IInv, NoReaderLeft, TypeOK
  <2>3. TypeOK'
    <3>1. [c \in Classes |-> Fresh] \in [Classes -> SeqState]
      BY DEF Fresh, SeqState
    <3>2. st' \in [Users -> [Classes -> SeqState]]
      BY <1>0, <2>1, <3>1 DEF TypeOK
    <3>3. /\ upc' \in [Users -> {"top", "dial", "subscribe", "idle", "backoff", "gone"}]
          /\ reader' \in [Users -> {"read", "check", "exited"}]
          /\ up' \in [Users -> BOOLEAN] /\ dials' \in Nat
      BY <1>0, <2>1 DEF TypeOK
    <3> QED
      BY <1>0, <2>1, <3>2, <3>3 DEF TypeOK
  <2>4. InHand' = InHand
    <3>1. ASSUME NEW v \in Users
          PROVE  (IF reader'[v] = "check" THEN GapInHand(v)' ELSE 0)
                    = (IF reader[v] = "check" THEN GapInHand(v) ELSE 0)
      <4>1. CASE v = u
        BY <2>1, <2>2, <4>1
      <4>2. CASE v # u
        BY <1>0, <2>1, <2>2, <4>2 DEF GapInHand, GapOf, TypeOK
      <4> QED
        BY <4>1, <4>2
    <3> QED
      BY <3>1, Zenon DEF InHand
  <2>5. PublishedBalance' /\ ReceivedBalance' /\ GapBalance'
    BY <2>1, <2>4, SameUnderway DEF FInv, PublishedBalance, ReceivedBalance, GapBalance
  <2>6. BatchesAdded' /\ ReadSoFar' /\ CleanStays'
    BY <2>1, <2>2 DEF FInv, BatchesAdded, ReadSoFar, CleanStays, Quiet
  <2> QED
    BY <2>3, <2>5, <2>6 DEF FInv
<1>3. CASE DrainExit(u)
  BY <1>0, <1>3, CutFInv DEF DrainExit, UserAt
<1>4. CASE Break(u)
  BY <1>0, <1>4, CutFInv DEF Break
<1> QED
  BY <1>1, <1>2, <1>3, <1>4 DEF UserStep

-----------------------------------------------------------------------------
(* readLoops *)

\* Only the hand of u changes: so does the sum.
LEMMA HandChanges ==
    ASSUME TypeOK, TypeOK', NEW u \in Users,
           \A v \in Users : v # u => reader'[v] = reader[v] /\ cur'[v] = cur[v] /\ st'[v] = st[v]
    PROVE  Tally(InHand') + InHand[u] = Tally(InHand) + InHand'[u]
<1>1. InHand \in [Users -> Nat] /\ InHand' \in [Users -> Nat]
  <2>1. InHand' \in [Users -> Nat]
    BY HandsStayTyped DEF HandsTyped
  <2> QED
    BY <2>1, HandTypes
<1>2. ASSUME NEW v \in Users, v # u PROVE InHand'[v] = InHand[v]
  BY <1>2 DEF InHand, GapInHand, GapOf
<1> QED
  BY <1>1, <1>2, TallyUpdate, UsersAssumption

LEMMA ReceiveFInv ==
    ASSUME IInv, FInv, NEW u \in Users, main # "exited", Receive(u)
    PROVE  FInv'
<1>0. /\ TypeOK /\ inbox \in [Users -> Seq(Message)] /\ inbox[u] \in Seq(Message) /\ inbox[u] # <<>>
      /\ reader \in [Users -> {"read", "check", "exited"}] /\ cur \in [Users -> Message]
      /\ rx \in Nat /\ owed \in Nat /\ due \in Nat
  BY DEF FInv, TypeOK, Receive
<1> DEFINE m == Head(inbox[u])
<1>1. /\ UNCHANGED <<main, reads, snap, mine, owned, stop, drainDone, cpc, local, nextSeq, published, sent,
                     upc, up, dials, st, gaps, lost, due, mark>>
      /\ reader[u] = "read" /\ reader' = [reader EXCEPT ![u] = "check"]
      /\ cur' = [cur EXCEPT ![u] = m] /\ owed' = owed + GapOf(st[u][m.class], m.seq)
      /\ inbox' = [inbox EXCEPT ![u] = Tail(@)] /\ rx' = rx + 1
  BY DEF Receive, mainVars, shardVars, pubVars, connVars, pathVars
<1>2. /\ m \in Message /\ Tail(inbox[u]) \in Seq(Message)
      /\ Len(Tail(inbox[u])) = Len(inbox[u]) - 1 /\ Len(inbox[u]) \in Nat
  BY <1>0
<1> HIDE DEF m
<1>3. ~mark.clean
  BY <1>0, <1>1 DEF FInv, CleanStays, Quiet
<1>4. GapOf(st[u][m.class], m.seq) \in Nat
  <2>1. m.class \in Classes /\ m.seq \in Nat /\ st[u][m.class] \in SeqState
    BY <1>0, <1>2 DEF Message, TypeOK
  <2> QED
    BY <2>1 DEF GapOf, SeqState
<1>5. TypeOK'
  <2>1. inbox' \in [Users -> Seq(Message)] /\ cur' \in [Users -> Message]
        /\ reader' \in [Users -> {"read", "check", "exited"}] /\ owed' \in Nat /\ rx' \in Nat
    BY <1>0, <1>1, <1>2, <1>4
  <2> QED
    BY <1>0, <1>1, <2>1 DEF TypeOK
<1>6. ReceivedBalance'
  <2>1. Underway \in [Users -> Nat] /\ \A v \in Users : Underway[v] = Len(inbox[v])
    BY <1>0, UnderwayTypes
  <2>2. Underway' \in [Users -> Nat] /\ \A v \in Users : Underway'[v] = Len(inbox'[v])
    BY <1>5 DEF TypeOK, Underway
  <2>3. \A v \in Users : v # u => Underway'[v] = Underway[v]
    BY <1>0, <1>1, <2>1, <2>2
  <2>4. Tally(Underway') + Underway[u] = Tally(Underway) + Underway'[u]
    BY <2>1, <2>2, <2>3, TallyUpdate, UsersAssumption
  <2>5. Underway'[u] = Underway[u] - 1 /\ Underway[u] \in Nat
    BY <1>0, <1>1, <1>2, <2>1, <2>2
  <2>6. Tally(Underway) \in Nat /\ Tally(Underway') \in Nat
    BY <2>1, <2>2, UnitsFinite, UsersAssumption
  <2>7. due = rx + Tally(Underway)
    BY DEF FInv, ReceivedBalance
  <2>8. due' = rx' + Tally(Underway')
    <3>1. Tally(Underway') + 1 = Tally(Underway)
      BY <2>4, <2>5, <2>6
    <3>2. due' = due /\ rx' = rx + 1 /\ rx \in Nat
      BY <1>0, <1>1
    <3> QED
      BY <2>6, <2>7, <3>1, <3>2
  <2> QED
    BY <2>8 DEF ReceivedBalance
<1>7. GapBalance'
  <2>1. Tally(InHand') + InHand[u] = Tally(InHand) + InHand'[u]
    <3>1. \A v \in Users : v # u => reader'[v] = reader[v] /\ cur'[v] = cur[v] /\ st'[v] = st[v]
      BY <1>0, <1>1
    <3> QED
      BY <1>0, <1>5, <3>1, HandChanges
  <2>2. InHand[u] = 0
    BY <1>0, <1>1, HandTypes
  <2>3. InHand'[u] = GapOf(st[u][m.class], m.seq)
    <3>1. InHand'[u] = GapInHand(u)'
      BY <1>0, <1>1 DEF InHand
    <3>2. cur'[u] = m /\ st' = st
      BY <1>0, <1>1
    <3> QED
      BY <3>1, <3>2 DEF GapInHand, GapOf
  <2>4. owed = gaps + Tally(InHand) /\ gaps \in Nat /\ Tally(InHand) \in Nat /\ Tally(InHand') \in Nat
    <3>1. Tally(InHand') \in Nat
      BY <1>5, HandsStayTyped DEF HandsTyped
    <3> QED
      BY <1>0, <3>1, TallyTypes DEF FInv, GapBalance, TypeOK
  <2>5. owed' = gaps' + Tally(InHand')
    BY <1>0, <1>1, <1>4, <2>1, <2>2, <2>3, <2>4
  <2> QED
    BY <2>5 DEF GapBalance
<1>8. BatchesAdded' /\ PublishedBalance' /\ CleanStays'
  BY <1>1, <1>3 DEF FInv, BatchesAdded, PublishedBalance, CleanStays
<1>9. ReadSoFar'
  <2>1. mark.owed \in Nat /\ owed' >= owed /\ owed' \in Nat
    BY <1>0, <1>1, <1>4 DEF TypeOK
  <2> QED
    BY <1>0, <1>1, <2>1 DEF FInv, ReadSoFar
<1> QED
  BY <1>5, <1>6, <1>7, <1>8, <1>9 DEF FInv

LEMMA CheckFInv ==
    ASSUME IInv, FInv, NEW u \in Users, main # "exited", Check(u)
    PROVE  FInv'
<1>0. /\ TypeOK /\ gaps \in Nat /\ owed \in Nat
      /\ reader \in [Users -> {"read", "check", "exited"}] /\ cur \in [Users -> Message]
      /\ st \in [Users -> [Classes -> SeqState]]
  BY DEF FInv, TypeOK
<1>1. /\ UNCHANGED <<main, reads, snap, mine, owned, stop, drainDone, cpc, local, nextSeq, published, sent,
                     upc, up, dials, inbox, rx, owed, lost, due, mark>>
      /\ reader[u] = "check" /\ reader' = [reader EXCEPT ![u] = "read"]
      /\ cur' = [cur EXCEPT ![u] = NoMessage] /\ gaps' = gaps + GapInHand(u)
      /\ st' = [st EXCEPT ![u][cur[u].class] = Observe(@, cur[u].seq)]
  BY DEF Check, mainVars, shardVars, pubVars, connVars, pathVars
<1>2. ~mark.clean
  BY <1>1 DEF FInv, CleanStays, Quiet
<1>3. GapInHand(u) \in Nat /\ InHand[u] = GapInHand(u)
  BY <1>0, <1>1, HandTypes
<1>4. TypeOK'
  <2>1. cur[u].class \in Classes /\ cur[u].seq \in Nat
    BY <1>0 DEF Message
  <2>2. Observe(st[u][cur[u].class], cur[u].seq) \in SeqState
    BY <2>1 DEF Observe, SeqState
  <2>3. st' \in [Users -> [Classes -> SeqState]]
    BY <1>0, <1>1, <2>1, <2>2
  <2>4. cur' \in [Users -> Message] /\ reader' \in [Users -> {"read", "check", "exited"}] /\ gaps' \in Nat
    BY <1>0, <1>1, <1>3, NoMessageType
  <2> QED
    BY <1>0, <1>1, <2>3, <2>4 DEF TypeOK
<1>5. GapBalance'
  <2>1. Tally(InHand') + InHand[u] = Tally(InHand) + InHand'[u]
    <3>1. \A v \in Users : v # u => reader'[v] = reader[v] /\ cur'[v] = cur[v] /\ st'[v] = st[v]
      BY <1>0, <1>1
    <3> QED
      BY <1>0, <1>4, <3>1, HandChanges
  <2>2. InHand'[u] = 0
    BY <1>0, <1>1 DEF InHand
  <2>3. owed = gaps + Tally(InHand) /\ Tally(InHand) \in Nat /\ Tally(InHand') \in Nat
    <3>1. Tally(InHand') \in Nat
      BY <1>4, HandsStayTyped DEF HandsTyped
    <3> QED
      BY <1>0, <3>1, TallyTypes DEF FInv, GapBalance
  <2>4. owed' = gaps' + Tally(InHand')
    BY <1>0, <1>1, <1>3, <2>1, <2>2, <2>3
  <2> QED
    BY <2>4 DEF GapBalance
<1>6. BatchesAdded' /\ PublishedBalance' /\ ReceivedBalance' /\ ReadSoFar' /\ CleanStays'
  BY <1>1, <1>2, SameUnderway
     DEF FInv, BatchesAdded, PublishedBalance, ReceivedBalance, ReadSoFar, CleanStays
<1> QED
  BY <1>4, <1>5, <1>6 DEF FInv

LEMMA ReaderFInv ==
    ASSUME IInv, FInv, NEW u \in Users, main # "exited", ReaderStep(u)
    PROVE  FInv'
<1>1. CASE ReaderExit(u)
  <2>1. /\ UNCHANGED <<main, reads, snap, mine, owned, stop, drainDone, cpc, local, nextSeq, published, sent,
                       upc, up, dials, inbox, cur, st, rx, gaps, owed, lost, due, mark>>
        /\ reader[u] = "read" /\ reader' = [reader EXCEPT ![u] = "exited"]
        /\ reader \in [Users -> {"read", "check", "exited"}]
    BY <1>1 DEF FInv, TypeOK, ReaderExit, mainVars, shardVars, pubVars, connVars, countVars, pathVars
  <2>2. TypeOK'
    BY <2>1 DEF FInv, TypeOK
  <2>3. InHand' = InHand
    <3>1. ASSUME NEW v \in Users
          PROVE  (IF reader'[v] = "check" THEN GapInHand(v)' ELSE 0)
                    = (IF reader[v] = "check" THEN GapInHand(v) ELSE 0)
      BY <2>1 DEF GapInHand, GapOf
    <3> QED
      BY <3>1, Zenon DEF InHand
  <2>4. PublishedBalance' /\ ReceivedBalance' /\ GapBalance'
    BY <2>1, <2>3, SameUnderway DEF FInv, PublishedBalance, ReceivedBalance, GapBalance
  <2>5. BatchesAdded' /\ ReadSoFar' /\ CleanStays'
    BY <2>1 DEF FInv, BatchesAdded, ReadSoFar, CleanStays, Quiet
  <2> QED
    BY <2>2, <2>4, <2>5 DEF FInv
<1> QED
  BY <1>1, ReceiveFInv, CheckFInv DEF ReaderStep

-----------------------------------------------------------------------------
(* main and the drain watcher *)

LEMMA WatchFInv ==
    ASSUME IInv, FInv, main # "exited", WatchDrain
    PROVE  FInv'
<1>0. TypeOK /\ rx \in Nat /\ gaps \in Nat /\ Quiet \in BOOLEAN
      /\ mark \in [rx : Nat, gaps : Nat, clean : BOOLEAN, owed : Nat, pending : Nat]
  BY DEF FInv, TypeOK, Quiet
<1>1. /\ UNCHANGED <<main, reads, snap, mine, owned, stop, cpc, local, nextSeq, published, sent,
                     upc, up, dials, inbox, reader, cur, st, rx, gaps, owed, lost, due>>
      /\ drainDone' = TRUE /\ ~drainDone
      /\ mark' = [mark EXCEPT !.rx = rx, !.gaps = gaps, !.clean = Quiet]
  BY DEF WatchDrain, mainVars, pubVars, connVars, readerVars, countVars, pathVars
<1>2. mark'.clean = Quiet /\ mark'.owed = mark.owed /\ mark'.pending = mark.pending
      /\ mark' \in [rx : Nat, gaps : Nat, clean : BOOLEAN, owed : Nat, pending : Nat]
  BY <1>0, <1>1
<1>3. TypeOK'
  BY <1>0, <1>1, <1>2 DEF TypeOK
<1>4. BatchesAdded' /\ PublishedBalance' /\ ReceivedBalance' /\ GapBalance' /\ ReadSoFar'
  BY <1>1, <1>2, SameHands, SameUnderway
     DEF FInv, BatchesAdded, PublishedBalance, ReceivedBalance, GapBalance, ReadSoFar
<1>5. CleanStays'
  <2>1. ASSUME Quiet PROVE due = rx /\ (reads \in {2, 3} => snap["rx"] = rx) /\ reads # 3
    BY <1>1, <2>1, QuietCounts DEF IInv, Settled, MainInOrder
  <2>2. Quiet' = Quiet
    BY <1>1 DEF Quiet
  <2> QED
    BY <1>1, <1>2, <2>1, <2>2 DEF CleanStays
<1> QED
  BY <1>3, <1>4, <1>5 DEF FInv

LEMMA CollectFInv ==
    ASSUME IInv, FInv, Collect
    PROVE  FInv'
<1>0. /\ TypeOK /\ published \in Nat /\ rx \in Nat /\ gaps \in Nat /\ owed \in Nat
      /\ snap \in [Fields -> Nat]
      /\ mark \in [rx : Nat, gaps : Nat, clean : BOOLEAN, owed : Nat, pending : Nat]
      /\ Tally(InHand) \in Nat
  BY TallyTypes DEF FInv, TypeOK
<1>1. Len(ReadOrder) = 3 /\ ReadOrder[1] = "pub" /\ ReadOrder[2] = "rx" /\ ReadOrder[3] = "gaps"
  BY DEF ReadOrder
<1>2. /\ UNCHANGED <<mine, owned, stop, drainDone, cpc, local, nextSeq, published, sent,
                     upc, up, dials, inbox, reader, cur, st, rx, gaps, owed, lost, due>>
      /\ main = "collect" /\ main' \in {"collect", "exited"}
      /\ reads \in {0, 1, 2} /\ reads' = reads + 1
  BY DEF Collect, IInv, MainInOrder, shardVars, pubVars, connVars, readerVars, countVars, pathVars
<1>3. PublishedBalance' /\ ReceivedBalance' /\ GapBalance'
  BY <1>2, SameHands, SameUnderway DEF FInv, PublishedBalance, ReceivedBalance, GapBalance
<1>4. BatchesAdded'
  BY <1>2 DEF FInv, BatchesAdded
<1>5. Quiet' = Quiet
  BY <1>2 DEF Quiet
<1>6. reads' \in 0..Len(ReadOrder)
  BY <1>1, <1>2
<1>7. CASE reads = 0
  <2>1. snap' = [snap EXCEPT !["pub"] = published] /\ mark' = mark /\ reads' = 1
    <3>1. ReadOrder[reads + 1] = "pub"
      BY <1>1, <1>7
    <3> QED
      BY <1>2, <1>7, <3>1 DEF Collect, Counter
  <2>2. snap' \in [Fields -> Nat] /\ snap'["pub"] = published
    BY <1>0, <2>1 DEF Fields
  <2>3. published = sent
    <3>1. local \in [Classes -> Nat] /\ \A c \in Classes : local[c] = 0
      BY <1>0, <1>2, BatchAssumption DEF FInv, BatchesAdded, TypeOK
    <3>2. Tally(local) = 0
      BY <3>1, TallyZero
    <3> QED
      BY <1>0, <3>2 DEF FInv, PublishedBalance
  <2>4. TypeOK'
    BY <1>0, <1>2, <1>6, <2>1, <2>2 DEF TypeOK
  <2>5. ReadSoFar'
    BY <1>2, <2>1, <2>2, <2>3 DEF ReadSoFar
  <2>6. CleanStays'
    BY <1>2, <1>5, <2>1 DEF FInv, CleanStays
  <2> QED
    BY <1>3, <1>4, <2>4, <2>5, <2>6 DEF FInv
<1>8. CASE reads = 1
  <2>1. snap' = [snap EXCEPT !["rx"] = rx] /\ mark' = [mark EXCEPT !.owed = owed] /\ reads' = 2
    <3>1. ReadOrder[reads + 1] = "rx"
      BY <1>1, <1>8
    <3> QED
      BY <1>2, <1>8, <3>1 DEF Collect, Counter
  <2>2. snap' \in [Fields -> Nat] /\ snap'["pub"] = snap["pub"] /\ snap'["rx"] = rx
    BY <1>0, <2>1 DEF Fields
  <2>3. mark' \in [rx : Nat, gaps : Nat, clean : BOOLEAN, owed : Nat, pending : Nat]
        /\ mark'.owed = owed /\ mark'.clean = mark.clean
    BY <1>0, <2>1
  <2>4. TypeOK'
    BY <1>0, <1>2, <1>6, <2>2, <2>3 DEF TypeOK
  <2>5. ReadSoFar'
    BY <1>0, <1>2, <1>8, <2>1, <2>2, <2>3 DEF FInv, ReadSoFar
  <2>6. CleanStays'
    <3>1. mark.clean => due = rx /\ drainDone /\ Quiet
      BY QuietCounts DEF FInv, CleanStays
    <3> QED
      BY <1>2, <1>5, <2>1, <2>2, <2>3, <3>1 DEF CleanStays
  <2> QED
    BY <1>3, <1>4, <2>4, <2>5, <2>6 DEF FInv
<1>9. CASE reads = 2
  <2>1. snap' = [snap EXCEPT !["gaps"] = gaps] /\ mark' = [mark EXCEPT !.pending = Tally(InHand)] /\ reads' = 3
    <3>1. ReadOrder[reads + 1] = "gaps"
      BY <1>1, <1>9
    <3> QED
      BY <1>2, <1>9, <3>1 DEF Collect, Counter
  <2>2. snap' \in [Fields -> Nat] /\ snap'["pub"] = snap["pub"] /\ snap'["rx"] = snap["rx"] /\ snap'["gaps"] = gaps
    BY <1>0, <2>1 DEF Fields
  <2>3. mark' \in [rx : Nat, gaps : Nat, clean : BOOLEAN, owed : Nat, pending : Nat]
        /\ mark'.owed = mark.owed /\ mark'.clean = mark.clean /\ mark'.pending = Tally(InHand)
    BY <1>0, <2>1
  <2>4. TypeOK'
    BY <1>0, <1>2, <1>6, <2>2, <2>3 DEF TypeOK
  <2>5. ReadSoFar'
    <3>1. gaps + Tally(InHand) >= mark.owed
      BY <1>0, <1>9 DEF FInv, ReadSoFar, GapBalance
    <3> QED
      BY <1>2, <1>9, <2>1, <2>2, <2>3, <3>1 DEF FInv, ReadSoFar
  <2>6. CleanStays'
    <3>1. mark.clean => owed = gaps /\ drainDone /\ Quiet /\ snap["rx"] = due
      BY <1>9, QuietCounts DEF FInv, CleanStays
    <3> QED
      BY <1>2, <1>5, <2>1, <2>2, <2>3, <3>1 DEF CleanStays
  <2> QED
    BY <1>3, <1>4, <2>4, <2>5, <2>6 DEF FInv
<1> QED
  BY <1>2, <1>7, <1>8, <1>9

LEMMA MainFInv ==
    ASSUME IInv, FInv, SetStop \/ WaitDone \/ UNCHANGED vars
    PROVE  FInv'
<1>1. /\ UNCHANGED <<reads, snap, mine, owned, drainDone, cpc, local, nextSeq, published, sent,
                     upc, up, dials, inbox, reader, cur, st, rx, gaps, owed, lost, due, mark>>
      /\ stop' \in BOOLEAN
      /\ main' = main \/ (main' = "wait" /\ main = "run") \/ (main' = "collect" /\ Finished)
  <2> USE DEF mainVars, shardVars, pubVars, connVars, readerVars, countVars, pathVars
  <2>1. CASE SetStop
    BY <2>1 DEF SetStop
  <2>2. CASE WaitDone
    BY <2>2 DEF WaitDone, FInv, TypeOK
  <2>3. CASE UNCHANGED vars
    BY <2>3 DEF vars, FInv, TypeOK
  <2> QED
    BY <2>1, <2>2, <2>3
<1>2. TypeOK'
  BY <1>1 DEF FInv, TypeOK
<1>3. PublishedBalance' /\ ReceivedBalance' /\ GapBalance'
  BY <1>1, SameHands, SameUnderway DEF FInv, PublishedBalance, ReceivedBalance, GapBalance
<1>4. BatchesAdded' /\ ReadSoFar' /\ CleanStays'
  BY <1>1 DEF FInv, BatchesAdded, ReadSoFar, CleanStays, Quiet, Finished
<1> QED
  BY <1>2, <1>3, <1>4 DEF FInv

LEMMA NextFInv == IInv /\ FInv /\ [Next]_vars => FInv'
BY ClassFInv, UserFInv, ReaderFInv, WatchFInv, CollectFInv, MainFInv DEF Next, MainStep

LEMMA FullInvariant == Spec => [](IInv /\ FInv)
BY InitIInv, NextIInv, InitFInv, NextFInv, PTL DEF Spec

-----------------------------------------------------------------------------
(* Theorems *)

\* Whatever was counted by the end of the drain window is in the report, for
\* any process and whatever the broker does.
THEOREM DrainCountedHolds == Spec => []DrainCounted
<1>1. IInv => DrainCounted
  BY DEF IInv, MainInOrder, Settled, DrainCounted, Exited
<1> QED
  BY <1>1, Invariant, PTL

\* No readLoop adds to the counters of a process whose main has begun to read
\* them before the end of the window.
THEOREM ReadsStable ==
    Spec => [](main = "collect" /\ ~drainDone => \A u \in Users : reader[u] = "exited")
<1>1. IInv => (main = "collect" /\ ~drainDone => \A u \in Users : reader[u] = "exited")
  BY DEF IInv, MainInOrder, NoReaderLeft
<1> QED
  BY <1>1, Invariant, PTL

\* Every variable keeps its type: in particular localPub is always less than a
\* batch, and no ghost count falls below zero.
THEOREM TypeCorrect == Spec => []TypeOK
<1>1. FInv => TypeOK
  BY DEF FInv
<1> QED
  BY <1>1, FullInvariant, PTL

\* The report's published count is exactly what Publish accepted, for any number
\* of classes and any batch.
THEOREM PublishedCompleteHolds == Spec => []PublishedComplete
<1>1. IInv /\ FInv => PublishedComplete
  BY DEF IInv, MainInOrder, FInv, ReadSoFar, PublishedComplete, Exited
<1> QED
  BY <1>1, FullInvariant, PTL

\* After a window that was long enough the report has all messages and gaps,
\* also when main began to read before its end.
THEOREM CleanRunExactHolds == Spec => []CleanRunExact
<1>1. IInv /\ FInv => CleanRunExact
  BY DEF IInv, MainInOrder, FInv, CleanStays, CleanRunExact, Exited
<1> QED
  BY <1>1, FullInvariant, PTL

\* The report's gaps are never too few for its messages, whatever handlers still
\* run while main reads.
THEOREM RatioNotFlatteredHolds == Spec => []RatioNotFlattered
<1>1. IInv /\ FInv => RatioNotFlattered
  BY DEF IInv, MainInOrder, FInv, ReadSoFar, RatioNotFlattered, Exited
<1> QED
  BY <1>1, FullInvariant, PTL
=============================================================================
