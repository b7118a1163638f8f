------------------------------ MODULE UserConn ------------------------------
(***************************************************************************)
(* One simulated user over the binary transport: the goroutine of          *)
(* userConn.run with scrollSub and subMarket (trading-sim/user.go), the    *)
(* connection object binarySub with its readLoop goroutine                 *)
(* (trading-sim/transport.go), and the broker's end of that connection.    *)
(*                                                                         *)
(* The two goroutines share the handler table and the seqStates of the     *)
(* closures; the steps below are the stretches between two accesses to     *)
(* what they share: one lock of mu, one frame written, one frame read, one *)
(* handler call.  The two directions of the TCP connection are FIFO        *)
(* sequences of frames.  The broker is external code: it applies Sub and   *)
(* Unsub frames in order, delivers each message to the subscriptions it    *)
(* holds when the message is published, and may lose one (it does for slow *)
(* consumers, and a failed Publish of market.go also uses up a sequence    *)
(* number).                                                                *)
(*                                                                         *)
(* Left out: payload bytes, latency sampling, Ping/Pong, and the NATS      *)
(* transport, whose subscriptions live in the nats.go library.             *)
(***************************************************************************)
EXTENDS Integers, Sequences, FiniteSets, SequencesExt, SeqTracker

CONSTANTS
    Symbols,      \* market symbols
    Feeds,        \* <<orders, trades>> of an algo user, <<>> of another
    NumSlots,     \* config.Visible: how many symbols the user watches
    ScrollCount,  \* config.ScrollCount
    MaxPub,       \* bound: messages published, over all subjects
    MaxConns,     \* bound: connections dialled
    MaxScrolls,   \* bound: scroll ticks
    MaxLost       \* bound: messages the broker loses

ASSUME FeedsAssumption ==
    /\ Feeds \in Seq(Range(Feeds)) /\ IsInjective(Feeds)
    /\ Range(Feeds) \cap Symbols = {}
ASSUME SlotsAssumption == NumSlots \in Nat \ {0} /\ ScrollCount \in Nat
ASSUME BoundsAssumption ==
    MaxPub \in Nat /\ MaxConns \in Nat /\ MaxScrolls \in Nat /\ MaxLost \in Nat

Subjects == Symbols \cup Range(Feeds)
Slots == 1..NumSlots

\* A Subscribe call: the subject and the slot that keeps its handle; the
\* handles of the feeds are thrown away (slot 0).
Call == [subj : Subjects, slot : 0..NumSlots]
\* What a handler closes over: its subject and, for a symbol, its seqState.
Closure == [subj : Subjects, st : SeqState]
\* A Sub or Unsub frame; an Unsub carries only the sid on the wire, the
\* subject is there for the reader of a trace.
Frame == [op : {"sub", "unsub"}, sid : Nat, subj : Subjects]
\* A message frame carries the subject and the payload's sequence number.
\* The sid of the subscription it was sent for is a ghost: readLoop has none.
Msg == [subj : Subjects, seq : Nat, sid : Nat]
NoMsg == [sid |-> 0, seq |-> 0]

VARIABLES
    pc,           \* where userConn.run is
    queue,        \* Subscribe calls left, the one in progress first
    swaps,        \* iterations of scrollSub left
    ticks,        \* scroll ticks taken: ScrollEvts
    visibleIdx, notVisible,
    subs,         \* subs[slot]: the sid of its SubHandle, 0 for nil
    stop, drainDone,
    up,           \* the TCP connection works
    conns,        \* connections dialled so far
    handlers,     \* subject -> the closure that handles it, 0 for none
    closures,     \* the closures of this connection; the index is the sid
    reader,       \* readLoop: "read", "call", or "exited" with doneCh closed
    cur,          \* the handler readLoop looked up, and the message for it
    toBroker, fromBroker,
    brokerSubs,   \* the subscriptions the broker holds for this connection
    pubSeq,       \* next sequence number per subject: symSeqs[i]
    lost,         \* messages the broker lost
    missed,       \* ghost: those of them that were due to a subscription it held
    heard,        \* ghost: one more than the last number handled per subject
    rx,           \* messages handled: MarketRx is the sum over the symbols
    gaps, dups    \* GapCount, DupCount

userVars == <<pc, queue, swaps, ticks, visibleIdx, notVisible, subs>>
shardVars == <<stop, drainDone>>
netVars == <<up, toBroker, fromBroker, brokerSubs>>
readerVars == <<reader, cur>>
tableVars == <<handlers, closures>>
pubVars == <<pubSeq, lost, missed>>
countVars == <<heard, rx, gaps, dups>>
vars == <<userVars, shardVars, netVars, conns, readerVars, tableVars,
          pubVars, countVars>>

TypeOK ==
    /\ pc \in {"top", "dial", "register", "write", "idle", "swap", "unsub",
               "backoff", "gone"}
    /\ queue \in Seq(Call)
    /\ swaps \in Nat /\ ticks \in Nat
    /\ visibleIdx \in [Slots -> Symbols]
    /\ notVisible \in SUBSET Symbols
    /\ subs \in [Slots -> Nat]
    /\ stop \in BOOLEAN /\ drainDone \in BOOLEAN /\ up \in BOOLEAN
    /\ conns \in Nat
    /\ closures \in Seq(Closure)
    /\ handlers \in [Subjects -> 0..Len(closures)]
    /\ reader \in {"read", "call", "exited"}
    /\ cur \in [sid : Nat, seq : Nat]
    /\ toBroker \in Seq(Frame) /\ fromBroker \in Seq(Msg)
    /\ brokerSubs \in SUBSET [sid : Nat, subj : Subjects]
    /\ pubSeq \in [Subjects -> Nat] /\ lost \in Nat
    /\ missed \in SUBSET [subj : Subjects, seq : Nat]
    /\ heard \in [Subjects -> Nat] /\ rx \in [Subjects -> Nat]
    /\ gaps \in Nat /\ dups \in Nat

-----------------------------------------------------------------------------
(* userConn.run: connect and subscribe *)

\* buildVisible leaves distinct symbols visible and all others in notVisible.
Init ==
    /\ visibleIdx \in Injection(Slots, Symbols)
    /\ notVisible = Symbols \ Range(visibleIdx)
    /\ pc = "top" /\ queue = <<>> /\ swaps = 0 /\ ticks = 0
    /\ subs = [slot \in Slots |-> 0]
    /\ stop = FALSE /\ drainDone = FALSE
    /\ up = FALSE /\ conns = 0
    /\ handlers = [s \in Subjects |-> 0] /\ closures = <<>>
    /\ reader = "exited" /\ cur = NoMsg
    /\ toBroker = <<>> /\ fromBroker = <<>> /\ brokerSubs = {}
    /\ pubSeq = [s \in Subjects |-> 0] /\ lost = 0 /\ missed = {}
    /\ heard = [s \in Subjects |-> 0] /\ rx = [s \in Subjects |-> 0]
    /\ gaps = 0 /\ dups = 0

Top ==
    /\ pc = "top"
    /\ pc' = IF drainDone THEN "gone" ELSE "dial"
    /\ UNCHANGED <<queue, swaps, ticks, visibleIdx, notVisible, subs>>
    /\ UNCHANGED <<shardVars, netVars, conns, readerVars, tableVars, pubVars, countVars>>

\* The feeds first, then one call per slot, for whatever is visible by now.
\* Bugs in it: the feeds are set up on the first connection only; they are set
\* up once more for every slot.
InitialCallsRepeatFeeds ==
    FlattenSeq([slot \in Slots |->
        [i \in 1..Len(Feeds) |-> [subj |-> Feeds[i], slot |-> 0]]])
    \o [i \in 1..Len(Feeds) |-> [subj |-> Feeds[i], slot |-> 0]]
    \o [slot \in Slots |-> [subj |-> visibleIdx[slot], slot |-> slot]]
InitialCallsForgetFeeds ==
    (IF conns = 0
     THEN [i \in 1..Len(Feeds) |-> [subj |-> Feeds[i], slot |-> 0]] ELSE <<>>)
    \o [slot \in Slots |-> [subj |-> visibleIdx[slot], slot |-> slot]]
InitialCalls ==
    [i \in 1..Len(Feeds) |-> [subj |-> Feeds[i], slot |-> 0]]
    \o [slot \in Slots |-> [subj |-> visibleIdx[slot], slot |-> slot]]

\* dialMsgSub succeeds, stopped or not: a new binarySub with its readLoop.
DialOK ==
    /\ pc = "dial" /\ conns < MaxConns
    /\ up' = TRUE /\ conns' = conns + 1
    /\ toBroker' = <<>> /\ fromBroker' = <<>> /\ brokerSubs' = {}
    /\ handlers' = [s \in Subjects |-> 0] /\ closures' = <<>>
    /\ reader' = "read" /\ cur' = NoMsg
    /\ subs' = [slot \in Slots |-> 0]
    /\ queue' = InitialCalls /\ pc' = "register"
    /\ UNCHANGED <<swaps, ticks, visibleIdx, notVisible>>
    /\ UNCHANGED <<shardVars, pubVars, countVars>>

\* A bug in DialFail: stop is not looked at and the dial is tried again.
DialFailRetries == pc = "dial" /\ stop /\ UNCHANGED vars

\* A dial fails.  dialMsgSub looks at stop only now; if it is not set it
\* sleeps and tries again, which changes nothing.
DialFail ==
    /\ pc = "dial" /\ stop
    /\ pc' = "gone"
    /\ UNCHANGED <<queue, swaps, ticks, visibleIdx, notVisible, subs>>
    /\ UNCHANGED <<shardVars, netVars, conns, readerVars, tableVars, pubVars, countVars>>

-----------------------------------------------------------------------------
(* binarySub.Subscribe and Unsubscribe *)

\* The closure subMarket (or run, for a feed) hands to Subscribe.
\* A bug in it: a symbol seen before keeps the position it had.
NewClosureKeepsPosition(s) ==
    [subj |-> s, st |-> IF heard[s] = 0 THEN Fresh ELSE Observe(Fresh, heard[s] - 1)]
NewClosure(s) == [subj |-> s, st |-> Fresh]

\* Under mu: take the next sid and put the new closure in the table.
Register ==
    /\ pc = "register"
    /\ closures' = Append(closures, NewClosure(Head(queue).subj))
    /\ handlers' = [handlers EXCEPT ![Head(queue).subj] = Len(closures) + 1]
    /\ pc' = "write"
    /\ UNCHANGED <<queue, swaps, ticks, visibleIdx, notVisible, subs>>
    /\ UNCHANGED <<shardVars, netVars, conns, readerVars, pubVars, countVars>>

\* The Subscribe in progress returns a handle h: the caller stores it in its
\* slot and goes on to the next call, iteration of scrollSub, or the select.
Return(h) ==
    /\ subs' = IF Head(queue).slot = 0 THEN subs
               ELSE [subs EXCEPT ![Head(queue).slot] = h]
    /\ queue' = Tail(queue)
    /\ pc' = IF Tail(queue) # <<>> THEN "register"
             ELSE IF swaps > 0 THEN "swap" ELSE "idle"

\* A frame written to a connection that is already dead goes nowhere.
Send(frame) == toBroker' = IF up THEN Append(toBroker, frame) ELSE toBroker

SubWritten ==
    /\ pc = "write"
    /\ Send([op |-> "sub", sid |-> Len(closures), subj |-> Head(queue).subj])
    /\ Return(Len(closures))
    /\ UNCHANGED <<swaps, ticks, visibleIdx, notVisible, up, fromBroker, brokerSubs>>
    /\ UNCHANGED <<shardVars, conns, readerVars, tableVars, pubVars, countVars>>

\* The write fails, as it may once the connection is dead: the handler is
\* removed and the slot gets a nil handle; subMarket drops the error.
SubFailed ==
    /\ pc = "write" /\ ~up
    /\ handlers' = [handlers EXCEPT ![Head(queue).subj] = 0]
    /\ Return(0)
    /\ UNCHANGED <<swaps, ticks, visibleIdx, notVisible, closures>>
    /\ UNCHANGED <<shardVars, netVars, conns, readerVars, pubVars, countVars>>

\* unsubFrame, made from the handle's sid.
\* A bug in it: the sid the connection gave out last.
UnsubFrameOfLast(sid) ==
    [op |-> "unsub", sid |-> Len(closures), subj |-> closures[sid].subj]
UnsubFrame(sid) == [op |-> "unsub", sid |-> sid, subj |-> closures[sid].subj]

\* Unsubscribe's frame; scrollSub ignores whether the write worked.  The
\* handle is still the old one: Subscribe has not replaced it yet.
UnsubWritten ==
    /\ pc = "unsub"
    /\ Send(UnsubFrame(subs[Head(queue).slot]))
    /\ pc' = "register"
    /\ UNCHANGED <<queue, swaps, ticks, visibleIdx, notVisible, subs, up,
                   fromBroker, brokerSubs>>
    /\ UNCHANGED <<shardVars, conns, readerVars, tableVars, pubVars, countVars>>

-----------------------------------------------------------------------------
(* userConn.run: the select loop, and scrollSub *)

\* A scroll tick taken in the select; ticks that fall after stop are skipped.
\* scrollSub does nothing when there is nothing to swap in.
Scroll ==
    /\ pc = "idle" /\ ~stop /\ ticks < MaxScrolls
    /\ ticks' = ticks + 1
    /\ LET count == IF ScrollCount > NumSlots THEN NumSlots ELSE ScrollCount
       IN  IF count = 0 \/ notVisible = {}
           THEN UNCHANGED <<pc, swaps>>
           ELSE swaps' = count /\ pc' = "swap"
    /\ UNCHANGED <<queue, visibleIdx, notVisible, subs>>
    /\ UNCHANGED <<shardVars, netVars, conns, readerVars, tableVars, pubVars, countVars>>

\* The pool after newIdx was swapped for oldIdx.
\* A bug in it: newIdx stays in the pool and can be picked again.
PoolKeepsPick(newIdx, oldIdx) == notVisible \cup {oldIdx}
Pool(newIdx, oldIdx) == (notVisible \ {newIdx}) \cup {oldIdx}

\* One iteration of scrollSub up to the first write: swap a symbol in, and
\* under mu drop the handler of the subject the slot's handle was made for.
Swap ==
    /\ pc = "swap"
    /\ \E newIdx \in notVisible, slot \in Slots :
        /\ visibleIdx' = [visibleIdx EXCEPT ![slot] = newIdx]
        /\ notVisible' = Pool(newIdx, visibleIdx[slot])
        /\ queue' = <<[subj |-> newIdx, slot |-> slot]>>
        /\ IF subs[slot] = 0
           THEN pc' = "register" /\ UNCHANGED handlers
           ELSE pc' = "unsub"
                /\ handlers' = [handlers EXCEPT ![closures[subs[slot]].subj] = 0]
    /\ swaps' = swaps - 1
    /\ UNCHANGED <<ticks, subs, closures>>
    /\ UNCHANGED <<shardVars, netVars, conns, readerVars, pubVars, countVars>>

\* Either end closes the connection, or the network cuts it: what readLoop
\* can still read is some prefix of what was sent to it.
Cut ==
    /\ up' = FALSE /\ toBroker' = <<>> /\ brokerSubs' = {}
    /\ fromBroker' \in Prefixes(fromBroker)

\* The drain watcher is done: Close and return.
DrainExit ==
    /\ pc = "idle" /\ drainDone
    /\ pc' = "gone" /\ Cut
    /\ UNCHANGED <<queue, swaps, ticks, visibleIdx, notVisible, subs>>
    /\ UNCHANGED <<shardVars, conns, readerVars, tableVars, pubVars, countVars>>

\* doneCh is closed: Close a connection that is dead already, then back off.
ConnLost ==
    /\ pc = "idle" /\ reader = "exited"
    /\ pc' = "backoff"
    /\ UNCHANGED <<queue, swaps, ticks, visibleIdx, notVisible, subs>>
    /\ UNCHANGED <<shardVars, netVars, conns, readerVars, tableVars, pubVars, countVars>>

\* The inner select: the 200 ms timer, or the drain first.
Backoff ==
    /\ pc = "backoff"
    /\ \/ pc' = "top"
       \/ drainDone /\ pc' = "gone"
    /\ UNCHANGED <<queue, swaps, ticks, visibleIdx, notVisible, subs>>
    /\ UNCHANGED <<shardVars, netVars, conns, readerVars, tableVars, pubVars, countVars>>

UserStep ==
    \/ Top \/ DialOK \/ DialFail
    \/ Register \/ SubWritten \/ SubFailed \/ UnsubWritten
    \/ Scroll \/ Swap
    \/ DrainExit \/ ConnLost \/ Backoff

-----------------------------------------------------------------------------
(* binarySub.readLoop *)

\* Read one frame and look its subject up, under mu.
Read ==
    /\ reader = "read" /\ fromBroker # <<>>
    /\ fromBroker' = Tail(fromBroker)
    /\ LET m == Head(fromBroker)
           h == handlers[m.subj]
       IN  IF h = 0 THEN UNCHANGED readerVars
           ELSE reader' = "call" /\ cur' = [sid |-> h, seq |-> m.seq]
    /\ UNCHANGED <<up, toBroker, brokerSubs>>
    /\ UNCHANGED <<userVars, shardVars, conns, tableVars, pubVars, countVars>>

\* Call the handler, which may be out of the table by now.
CallHandler ==
    /\ reader = "call"
    /\ reader' = "read" /\ cur' = NoMsg
    /\ LET c == closures[cur.sid]
       IN  /\ rx' = [rx EXCEPT ![c.subj] = @ + 1]
           /\ heard' = [heard EXCEPT ![c.subj] = cur.seq + 1]
           /\ IF c.subj \in Symbols
              THEN /\ closures' = [closures EXCEPT ![cur.sid].st = Observe(@, cur.seq)]
                   /\ gaps' = gaps + GapOf(c.st, cur.seq)
                   /\ dups' = dups + DupOf(c.st, cur.seq)
              ELSE UNCHANGED <<closures, gaps, dups>>
    /\ UNCHANGED handlers
    /\ UNCHANGED <<userVars, shardVars, netVars, conns, pubVars>>

\* A read fails: nothing is left and the connection is dead.
ReaderExit ==
    /\ reader = "read" /\ fromBroker = <<>> /\ ~up
    /\ reader' = "exited"
    /\ UNCHANGED cur
    /\ UNCHANGED <<userVars, shardVars, netVars, conns, tableVars, pubVars, countVars>>

ReaderStep == Read \/ CallHandler \/ ReaderExit

-----------------------------------------------------------------------------
(* The broker, the publishers, the network (external), and the shard *)

BrokerRecv ==
    /\ toBroker # <<>>
    /\ LET f == Head(toBroker)
       IN  brokerSubs' = IF f.op = "sub"
                         THEN brokerSubs \cup {[sid |-> f.sid, subj |-> f.subj]}
                         ELSE {s \in brokerSubs : s.sid # f.sid}
    /\ toBroker' = Tail(toBroker)
    /\ UNCHANGED <<up, fromBroker>>
    /\ UNCHANGED <<userVars, shardVars, conns, readerVars, tableVars, pubVars, countVars>>

Matching(s) == {sub.sid : sub \in {b \in brokerSubs : b.subj = s}}

\* The orders in which the broker can serve the subscriptions to s.
FanOuts(s) == UNION {Bijection(1..n, Matching(s)) : n \in 0..Len(closures)}

Publish(s) ==
    /\ SumFunction(pubSeq) < MaxPub
    /\ pubSeq' = [pubSeq EXCEPT ![s] = @ + 1]
    /\ \E order \in FanOuts(s) :
        fromBroker' = fromBroker \o
            [i \in DOMAIN order |-> [subj |-> s, seq |-> pubSeq[s], sid |-> order[i]]]
    /\ UNCHANGED <<lost, missed, up, toBroker, brokerSubs>>
    /\ UNCHANGED <<userVars, shardVars, conns, readerVars, tableVars, countVars>>

\* A message that reaches none of the subscriptions it was due to.
Lose(s) ==
    /\ SumFunction(pubSeq) < MaxPub /\ lost < MaxLost
    /\ pubSeq' = [pubSeq EXCEPT ![s] = @ + 1]
    /\ lost' = lost + 1
    /\ missed' = IF Matching(s) = {} THEN missed
               ELSE missed \cup {[subj |-> s, seq |-> pubSeq[s]]}
    /\ UNCHANGED <<userVars, shardVars, netVars, conns, readerVars, tableVars, countVars>>

\* The network or the broker ends the connection.
ConnBreak ==
    /\ up /\ Cut
    /\ UNCHANGED <<userVars, shardVars, conns, readerVars, tableVars, pubVars, countVars>>

\* main sets stop; watchDrain closes DrainDone some time later.
SetStop ==
    /\ ~stop /\ stop' = TRUE
    /\ UNCHANGED drainDone
    /\ UNCHANGED <<userVars, netVars, conns, readerVars, tableVars, pubVars, countVars>>

WatchDrain ==
    /\ stop /\ ~drainDone /\ drainDone' = TRUE
    /\ UNCHANGED stop
    /\ UNCHANGED <<userVars, netVars, conns, readerVars, tableVars, pubVars, countVars>>

Next ==
    \/ UserStep \/ ReaderStep
    \/ BrokerRecv \/ ConnBreak \/ SetStop \/ WatchDrain
    \/ \E s \in Subjects : Publish(s) \/ Lose(s)

Spec == Init /\ [][Next]_vars

\* The goroutines keep running, a dial succeeds in the end, and the broker
\* handles what it is sent.  Nothing is assumed of the ends of connections,
\* of publishing, or of stop.
Fairness ==
    /\ WF_vars(UserStep) /\ WF_vars(ReaderStep)
    /\ WF_vars(BrokerRecv) /\ WF_vars(WatchDrain)

FairSpec == Spec /\ Fairness

-----------------------------------------------------------------------------
(* Properties *)

\* Scrolling only exchanges symbols: whatever swaps and reconnections happen,
\* the visible symbols are distinct and notVisible holds exactly the others
\* (scrollSub edits two slices by index, user.go:249-257).
VisiblePartition ==
    /\ IsInjective(visibleIdx)
    /\ notVisible = Symbols \ Range(visibleIdx)

\* The broker never holds two subscriptions of this connection to one subject:
\* it would send every message twice, and readLoop, which dispatches by
\* subject, would hand both to one handler (transport.go:150-158, 179-196).
OneSubPerSubject ==
    \A a, b \in brokerSubs : a.subj = b.subj => a = b

\* The slot whose Unsubscribe or Subscribe is in progress.
Busy(slot) == queue # <<>> /\ Head(queue).slot = slot

\* The subscriptions the user counts on: the feeds, the handles it keeps, and
\* the one whose Sub frame is being written.
Live == (1..Len(Feeds)) \cup {subs[slot] : slot \in {k \in Slots : ~Busy(k)}}
        \cup (IF pc = "write" THEN {Len(closures)} ELSE {})

\* No message of a current subscription is thrown away or given to another
\* subscription's handler: the handler is in the table before the Sub frame is
\* written, and dropping the handler of a swapped-out symbol never takes away
\* the one of a symbol still shown (transport.go:150-158, 179-196, 231-238).
LiveMessagesHandled ==
    \A i \in 1..Len(fromBroker) :
        LET m == fromBroker[i] IN m.sid \in Live => handlers[m.subj] = m.sid

\* The subscriptions the broker will hold once it has read what was sent.
Pending ==
    LET frames == Range(toBroker)
    IN  {s \in brokerSubs \cup {[sid |-> f.sid, subj |-> f.subj] :
                                  f \in {g \in frames : g.op = "sub"}} :
            \A f \in frames : f.op = "unsub" => f.sid # s.sid}

Wanted ==
    {[sid |-> i, subj |-> Feeds[i]] : i \in 1..Len(Feeds)}
    \cup {[sid |-> subs[slot], subj |-> visibleIdx[slot]] : slot \in Slots}

\* Between scrolls, on a working connection, what the broker holds or is about
\* to hold is exactly the feeds and the visible symbols, under the sids of the
\* handles the user keeps: nothing leaks and nothing is forgotten, on the first
\* connection or a later one (user.go:189-194, 257-262).
BrokerConverges == pc = "idle" /\ up => Pending = Wanted

\* On one FIFO connection no message is ever counted as a duplicate, scrolls
\* and reconnections included (user.go:125-126).
NoDup == dups = 0

\* A gap is only counted for messages that the broker lost while it held the
\* subscription, and a reconnection never counts as a gap: GapCount is what
\* user.go:34 says, "missed market messages detected via sequence gaps".  It
\* holds as long as no symbol is scrolled out and in again on one connection.
GapsAreMissed == gaps <= Cardinality(missed)

\* Handlers get the messages of a subject in the order of publication and
\* none twice, across any number of scrolls and reconnections.
Feed == INSTANCE OrderedFeed WITH published <- pubSeq, received <- rx
FeedSpec == Feed!Spec

\* After stop the user goroutine returns and its readLoop ends, whether it is
\* connected, subscribing, backing off, or dialling a broker that is gone
\* (user.go:161-209, transport.go:285-305).
Terminates == stop ~> (pc = "gone" /\ reader = "exited")

\* Once scrolls and connection losses are over, the broker ends up with exactly
\* the wanted subscriptions, or the user is gone or the broker never accepts
\* another connection.
Settles ==
    <>[](\/ pc = "gone"
         \/ pc = "dial" /\ conns = MaxConns
         \/ pc = "idle" /\ up /\ brokerSubs = Wanted)
=============================================================================
