------------------------------ MODULE Shutdown ------------------------------
(***************************************************************************)
(* One trading-sim process from launch to report: main                     *)
(* (trading-sim/main.go) sets stop, waits for its shards and then reads    *)
(* the shared counters one after the other, while the drain watcher ends   *)
(* the users (trading-sim/user.go) and the readLoops of closed connections *)
(* (trading-sim/transport.go) still run.                                   *)
(*                                                                         *)
(* Users are reduced to what the end of a run depends on: each subscribes  *)
(* to every market symbol of the run and never scrolls (UserConn has the   *)
(* rest).  Publishers are reduced to their loop test, number and batch     *)
(* (MarketPub has the rest), one symbol each.  A handler makes its adds    *)
(* one after the other, as steps of their own.  The broker and the network *)
(* delay messages without bound and lose some.  No Write has a deadline: a *)
(* connection that the broker keeps and does not read holds up whoever     *)
(* writes to it.                                                           *)
(***************************************************************************)
EXTENDS Integers, Sequences, SequencesExt, SeqTracker, Tally

CONSTANTS
    Users,        \* users this process may own
    Classes,      \* goroutines of the market shard, one symbol each
    Batch,        \* 512: messages counted locally before Published is updated
    MaxPub,       \* bound: messages numbered, over all classes
    MaxDials,     \* bound: connections made, over all users
    MaxLost       \* bound: messages lost or not accepted

ASSUME ClassesAssumption == Classes # {} /\ IsFiniteSet(Classes)
ASSUME UsersAssumption == IsFiniteSet(Users)
ASSUME BatchAssumption == Batch \in Nat \ {0}
ASSUME BoundsAssumption == MaxPub \in Nat /\ MaxDials \in Nat /\ MaxLost \in Nat

Fields == {"pub", "rx", "gaps"}

VARIABLES
    mine, owned,    \* the users and classes of this process's shards, fixed
    stop, drainDone,
    main,           \* main: "run", "wait", "collect", "exited"
    reads, snap,    \* how many counters main has read, and what it read
    cpc, local, nextSeq,  \* per class: place in its loop ("wait" is the wait for a
                    \* tick and the Publish), localPub, next number
    published,      \* MarketShard.Published
    upc,            \* per user: place in userConn.run ("subscribe": it writes its
                    \* Sub frames, "idle": it is in its event loop)
    up, inbox,      \* per user: its connection works; messages on their way
    reader, cur,    \* per user: place in readLoop, and the message in hand
    st,             \* per user and class: the seqState
    rx, gaps,       \* MarketRx, GapCount
    dials, lost,
    sent,           \* ghost: messages Publish accepted
    due,            \* ghost: messages on connections that nothing lost
    owed,           \* ghost: the gaps of all messages counted in rx
    mark            \* ghost: counters noted at moments that properties name

mainVars == <<main, reads, snap>>
shardVars == <<mine, owned, stop, drainDone>>
pubVars == <<cpc, local, nextSeq, published, sent>>
connVars == <<upc, up, dials>>
readerVars == <<inbox, reader, cur, st>>
countVars == <<rx, gaps, owed>>
pathVars == <<lost, due>>
vars == <<mainVars, shardVars, pubVars, connVars, readerVars, countVars,
          pathVars, mark>>

Message == [class : Classes, seq : Nat]
NoMessage == [class |-> CHOOSE c \in Classes : TRUE, seq |-> 0]

\* The order in which main reads the counters.
\* A bug in it: GapCount is read before MarketRx.
ReadOrderGapsFirst == <<"pub", "gaps", "rx">>
ReadOrder == <<"pub", "rx", "gaps">>

TypeOK ==
    /\ mine \in SUBSET Users /\ owned \in SUBSET Classes
    /\ stop \in BOOLEAN /\ drainDone \in BOOLEAN
    /\ main \in {"run", "wait", "collect", "exited"}
    /\ reads \in 0..Len(ReadOrder) /\ snap \in [Fields -> Nat]
    /\ cpc \in [Classes -> {"test", "wait", "final", "done"}]
    /\ local \in [Classes -> 0..(Batch - 1)] /\ nextSeq \in [Classes -> Nat]
    /\ published \in Nat /\ sent \in Nat
    /\ upc \in [Users -> {"top", "dial", "subscribe", "idle", "backoff", "gone"}]
    /\ up \in [Users -> BOOLEAN] /\ dials \in Nat
    /\ inbox \in [Users -> Seq(Message)]
    /\ reader \in [Users -> {"read", "check", "exited"}]
    /\ cur \in [Users -> Message]
    /\ st \in [Users -> [Classes -> SeqState]]
    /\ rx \in Nat /\ gaps \in Nat /\ owed \in Nat
    /\ lost \in Nat /\ due \in Nat
    /\ mark \in [rx : Nat, gaps : Nat, clean : BOOLEAN,
                 owed : Nat, pending : Nat]

\* Any role: a process may have users, publishers or both, and a shard may own
\* none of them.
Init ==
    /\ mine \in SUBSET Users /\ owned \in SUBSET Classes
    /\ stop = FALSE /\ drainDone = FALSE
    /\ main = "run" /\ reads = 0 /\ snap = [f \in Fields |-> 0]
    /\ cpc = [c \in Classes |-> IF c \in owned THEN "test" ELSE "done"]
    /\ local = [c \in Classes |-> 0] /\ nextSeq = [c \in Classes |-> 0]
    /\ published = 0 /\ sent = 0
    /\ upc = [u \in Users |-> IF u \in mine THEN "top" ELSE "gone"]
    /\ up = [u \in Users |-> FALSE] /\ dials = 0
    /\ inbox = [u \in Users |-> <<>>]
    /\ reader = [u \in Users |-> "exited"] /\ cur = [u \in Users |-> NoMessage]
    /\ st = [u \in Users |-> [c \in Classes |-> Fresh]]
    /\ rx = 0 /\ gaps = 0 /\ owed = 0
    /\ lost = 0 /\ due = 0
    /\ mark = [rx |-> 0, gaps |-> 0, clean |-> FALSE,
               owed |-> 0, pending |-> 0]

-----------------------------------------------------------------------------
(* MarketShard: the goroutines of its classes *)

\* The loop test.
Test(c) ==
    /\ cpc[c] = "test"
    /\ cpc' = [cpc EXCEPT ![c] = IF stop THEN "final" ELSE "wait"]
    /\ UNCHANGED <<local, nextSeq, published, sent>>
    /\ UNCHANGED <<mainVars, shardVars, connVars, readerVars, countVars, pathVars, mark>>

\* A tick comes and a number is used up.  After stop each class may have one
\* more, over the bound.
Tick(c) ==
    /\ cpc[c] = "wait"
    /\ SumFunction(nextSeq) < MaxPub \/ stop
    /\ nextSeq' = [nextSeq EXCEPT ![c] = @ + 1]
    /\ cpc' = [cpc EXCEPT ![c] = "test"]

Connected == {u \in Users : up[u]}

\* One more message in localPub, moved to Published when the batch is full.
\* A bug in it: the test looks at the number before this message.
CountLate(c) ==
    IF local[c] = Batch
    THEN published' = published + Batch /\ local' = [local EXCEPT ![c] = 0]
    ELSE local' = [local EXCEPT ![c] = @ + 1] /\ UNCHANGED published
Count(c) ==
    IF local[c] + 1 = Batch
    THEN published' = published + Batch /\ local' = [local EXCEPT ![c] = 0]
    ELSE local' = [local EXCEPT ![c] = @ + 1] /\ UNCHANGED published

\* Publish succeeds, and the message reaches some of the connected users.
Publish(c) ==
    /\ Tick(c)
    /\ \E got \in SUBSET Connected :
        /\ lost' = lost + Cardinality(Connected \ got)
        /\ lost' <= MaxLost
        /\ due' = due + Cardinality(got)
        /\ inbox' = [u \in Users |->
              IF u \in got THEN Append(inbox[u], [class |-> c, seq |-> nextSeq[c]])
              ELSE inbox[u]]
    /\ sent' = sent + 1
    /\ Count(c)
    /\ UNCHANGED <<mainVars, shardVars, connVars, reader, cur, st, countVars, mark>>

\* Publish fails; the number is used up all the same.
PublishFailed(c) ==
    /\ Tick(c) /\ lost < MaxLost
    /\ lost' = lost + 1
    /\ UNCHANGED <<local, published, sent, due>>
    /\ UNCHANGED <<mainVars, shardVars, connVars, readerVars, countVars, mark>>

\* After the loop: the rest of the batch is added and the goroutine returns.
\* A bug in it: the rest of the batch is forgotten.
FinalForgetsRest(c) ==
    /\ cpc[c] = "final"
    /\ cpc' = [cpc EXCEPT ![c] = "done"]
    /\ local' = [local EXCEPT ![c] = 0]
    /\ UNCHANGED <<published, nextSeq, sent>>
    /\ UNCHANGED <<mainVars, shardVars, connVars, readerVars, countVars, pathVars, mark>>
Final(c) ==
    /\ cpc[c] = "final"
    /\ cpc' = [cpc EXCEPT ![c] = "done"]
    /\ published' = published + local[c]
    /\ local' = [local EXCEPT ![c] = 0]
    /\ UNCHANGED <<nextSeq, sent>>
    /\ UNCHANGED <<mainVars, shardVars, connVars, readerVars, countVars, pathVars, mark>>

ClassStep(c) == Test(c) \/ Publish(c) \/ PublishFailed(c) \/ Final(c)

-----------------------------------------------------------------------------
(* UserShard: userConn.run *)

UserAt(u, from, to) == upc[u] = from /\ upc' = [upc EXCEPT ![u] = to]

\* The outer loop looks at DrainDone.
Top(u) ==
    /\ UserAt(u, "top", IF drainDone THEN "gone" ELSE "dial")
    /\ UNCHANGED <<up, dials>>
    /\ UNCHANGED <<mainVars, shardVars, pubVars, readerVars, countVars, pathVars, mark>>

\* A connection, its readLoop, and a subscription to every symbol, which delivers
\* as soon as its frame is written.
DialOK(u) ==
    /\ UserAt(u, "dial", "subscribe")
    /\ dials < MaxDials /\ dials' = dials + 1
    /\ up' = [up EXCEPT ![u] = TRUE]
    /\ reader' = [reader EXCEPT ![u] = "read"]
    /\ st' = [st EXCEPT ![u] = [c \in Classes |-> Fresh]]
    /\ UNCHANGED <<inbox, cur>>
    /\ UNCHANGED <<mainVars, shardVars, pubVars, countVars, pathVars, mark>>

\* The last Sub frame is written, or has failed to be, which is not looked at.
Subscribed(u) ==
    /\ UserAt(u, "subscribe", "idle")
    /\ UNCHANGED <<up, dials>>
    /\ UNCHANGED <<mainVars, shardVars, pubVars, readerVars, countVars, pathVars, mark>>

\* A dial fails: given up when stop is set, tried again, which changes
\* nothing, when it is not.
\* A bug in it: tried again in any case.
DialFailRetries(u) == upc[u] = "dial" /\ stop /\ UNCHANGED vars
DialFail(u) ==
    /\ UserAt(u, "dial", "gone") /\ stop
    /\ UNCHANGED <<up, dials>>
    /\ UNCHANGED <<mainVars, shardVars, pubVars, readerVars, countVars, pathVars, mark>>

\* The end of a connection: readLoop still has some prefix of what was under
\* way in its buffer; the rest is no longer due.
Cut(u) ==
    /\ up' = [up EXCEPT ![u] = FALSE]
    /\ \E kept \in Prefixes(inbox[u]) :
        /\ inbox' = [inbox EXCEPT ![u] = kept]
        /\ due' = due - (Len(inbox[u]) - Len(kept))

\* DrainDone is closed: Close and return.  readLoop is not waited for.
\* A bug in it: the user leaves as soon as stop is set.
DrainExitAtStop(u) ==
    /\ UserAt(u, "idle", "gone") /\ stop
    /\ Cut(u)
    /\ UNCHANGED <<dials, lost, reader, cur, st>>
    /\ UNCHANGED <<mainVars, shardVars, pubVars, countVars, mark>>
DrainExit(u) ==
    /\ UserAt(u, "idle", "gone") /\ drainDone
    /\ Cut(u)
    /\ UNCHANGED <<dials, lost, reader, cur, st>>
    /\ UNCHANGED <<mainVars, shardVars, pubVars, countVars, mark>>

\* doneCh is closed; and the wait before the next connection.
ConnLost(u) ==
    /\ UserAt(u, "idle", "backoff") /\ reader[u] = "exited"
    /\ UNCHANGED <<up, dials>>
    /\ UNCHANGED <<mainVars, shardVars, pubVars, readerVars, countVars, pathVars, mark>>

Backoff(u) ==
    /\ \/ UserAt(u, "backoff", "top")
       \/ UserAt(u, "backoff", "gone") /\ drainDone
    /\ UNCHANGED <<up, dials>>
    /\ UNCHANGED <<mainVars, shardVars, pubVars, readerVars, countVars, pathVars, mark>>

UserStep(u) ==
    \/ Top(u) \/ DialOK(u) \/ Subscribed(u) \/ DialFail(u)
    \/ DrainExit(u) \/ ConnLost(u) \/ Backoff(u)

\* The connection breaks.
Break(u) ==
    /\ up[u] /\ Cut(u)
    /\ UNCHANGED <<upc, dials, lost, reader, cur, st>>
    /\ UNCHANGED <<mainVars, shardVars, pubVars, countVars, mark>>

-----------------------------------------------------------------------------
(* readLoop and the market handler *)

\* A frame is read and the handler counts it in MarketRx.
Receive(u) ==
    /\ reader[u] = "read" /\ inbox[u] # <<>>
    /\ LET m == Head(inbox[u])
       IN  /\ cur' = [cur EXCEPT ![u] = m]
           /\ owed' = owed + GapOf(st[u][m.class], m.seq)
    /\ inbox' = [inbox EXCEPT ![u] = Tail(@)]
    /\ reader' = [reader EXCEPT ![u] = "check"]
    /\ rx' = rx + 1
    /\ UNCHANGED <<st, gaps>>
    /\ UNCHANGED <<mainVars, shardVars, pubVars, connVars, pathVars, mark>>

GapInHand(u) == GapOf(st[u][cur[u].class], cur[u].seq)

\* What each handler that is between its two adds is going to add.
InHand == [u \in Users |-> IF reader[u] = "check" THEN GapInHand(u) ELSE 0]

\* The handler checks the number, adds to GapCount and returns.
Check(u) ==
    /\ reader[u] = "check"
    /\ gaps' = gaps + GapInHand(u)
    /\ st' = [st EXCEPT ![u][cur[u].class] = Observe(@, cur[u].seq)]
    /\ reader' = [reader EXCEPT ![u] = "read"]
    /\ cur' = [cur EXCEPT ![u] = NoMessage]
    /\ UNCHANGED <<inbox, rx, owed>>
    /\ UNCHANGED <<mainVars, shardVars, pubVars, connVars, pathVars, mark>>

\* A read fails once the buffer is empty: doneCh is closed.
ReaderExit(u) ==
    /\ reader[u] = "read" /\ ~up[u] /\ inbox[u] = <<>>
    /\ reader' = [reader EXCEPT ![u] = "exited"]
    /\ UNCHANGED <<inbox, cur, st>>
    /\ UNCHANGED <<mainVars, shardVars, pubVars, connVars, countVars, pathVars, mark>>

ReaderStep(u) == Receive(u) \/ Check(u) \/ ReaderExit(u)

-----------------------------------------------------------------------------
(* main, and the drain watcher of UserShard *)

SetStop ==
    /\ main = "run"
    /\ main' = "wait" /\ stop' = TRUE
    /\ UNCHANGED <<reads, snap, mine, owned, drainDone>>
    /\ UNCHANGED <<pubVars, connVars, readerVars, countVars, pathVars, mark>>

\* Nothing is under way and nobody is going to send anything.
Quiet ==
    /\ \A c \in Classes : cpc[c] = "done"
    /\ \A u \in Users : inbox[u] = <<>> /\ reader[u] \in {"read", "exited"}

\* watchDrain, which Run starts only if the shard owns users, has seen stop and
\* slept for DrainDuration.
WatchDrain ==
    /\ stop /\ ~drainDone /\ mine # {}
    /\ drainDone' = TRUE
    /\ mark' = [mark EXCEPT !.rx = rx, !.gaps = gaps, !.clean = Quiet]
    /\ UNCHANGED <<mine, owned, stop>>
    /\ UNCHANGED <<mainVars, pubVars, connVars, readerVars, countVars, pathVars>>

\* The wait groups: every goroutine of a shard has returned.
\* Bugs in it: the users, or the publishers, are not waited for.
FinishedClasses == \A c \in Classes : cpc[c] = "done"
FinishedUsers == \A u \in Users : upc[u] = "gone"
Finished == (\A c \in Classes : cpc[c] = "done") /\ (\A u \in Users : upc[u] = "gone")

WaitDone ==
    /\ main = "wait" /\ Finished
    /\ main' = "collect"
    /\ UNCHANGED <<reads, snap>>
    /\ UNCHANGED <<shardVars, pubVars, connVars, readerVars, countVars, pathVars, mark>>

Counter(f) ==
    CASE f = "pub" -> published [] f = "rx" -> rx [] f = "gaps" -> gaps

\* One counter is read.  Behind the last one the report is made of the
\* numbers read, and the process ends, the goroutines that are left with it.
Collect ==
    /\ main = "collect"
    /\ reads' = reads + 1
    /\ LET f == ReadOrder[reads + 1]
       IN  /\ snap' = [snap EXCEPT ![f] = Counter(f)]
           /\ mark' = CASE f = "rx" -> [mark EXCEPT !.owed = owed]
                        [] f = "gaps" -> [mark EXCEPT !.pending = Tally(InHand)]
                        [] OTHER -> mark
    /\ main' = IF reads' = Len(ReadOrder) THEN "exited" ELSE "collect"
    /\ UNCHANGED <<shardVars, pubVars, connVars, readerVars, countVars, pathVars>>

MainStep == WaitDone \/ Collect

Next ==
    /\ main # "exited"
    /\ \/ SetStop \/ WatchDrain \/ MainStep
       \/ \E c \in Classes : ClassStep(c)
       \/ \E u \in Users : UserStep(u) \/ ReaderStep(u) \/ Break(u)

Spec == Init /\ [][Next]_vars

\* What the process does without the broker: dials fail, sleeps end, and a Write on
\* a connection that has ended returns.
OwnStep ==
    \/ MainStep \/ WatchDrain
    \/ \E c \in Classes : Test(c) \/ Final(c)
    \/ \E u \in Users :
        \/ Top(u) \/ DialFail(u) \/ DrainExit(u) \/ ConnLost(u) \/ Backoff(u)
        \/ ~up[u] /\ Subscribed(u)

\* Goroutines keep running; that some of them does is enough.  Nothing is assumed
\* of the broker: that it accepts a connection, sends anything, or reads what is
\* written.
Fairness == WF_vars(main # "exited" /\ OwnStep)

FairSpec == Spec /\ Fairness

-----------------------------------------------------------------------------
(* Properties *)

Exited == main = "exited"

\* The report's published count is exactly what Publish accepted, in a process
\* of any role: the last partial batches are in it (main.go:262-270,
\* market.go:105).
PublishedComplete == Exited => snap.pub = sent

\* Whatever was counted by the end of the drain window is in the report, and
\* also when the last users left before it because their broker was gone
\* (main.go:262-294, user.go:77-95).
DrainCounted ==
    Exited /\ drainDone =>
        snap.rx >= mark.rx /\ snap.gaps >= mark.gaps

\* When the window was long enough, everything under way handled and all
\* publishers done at its end, the report has every message that was due and
\* every gap: it differs from a full count only by losses (user.go:77-95, the
\* drain's purpose; docs/goals.md:21).
CleanRunExact == Exited /\ mark.clean => snap.rx = due /\ snap.gaps = owed

\* The report never makes the delivery ratio better than it was: the gaps of
\* the messages it counts are in it, all but those of handlers that were between
\* their two adds when GapCount was read (main.go:278, 292, user.go:120-127).
\* readLoops outlive Close, so it depends on MarketRx being read first.
RatioNotFlattered == Exited => snap.gaps + mark.pending >= mark.owed

\* Somebody that main waits for is in a Write without deadline.
HeldUp ==
    \/ \E c \in Classes : cpc[c] = "wait"
    \/ \E u \in Users : upc[u] = "subscribe" /\ up[u]

\* After stop the process reports and ends, whichever shards it has, whatever
\* connections are refused or lost, and however messages are delayed.  What can
\* keep it from that is a broker that keeps a connection and never reads what is
\* written to it: wg.Wait then has no end (main.go:261-262, transport.go:71, 187).
Exits == []<>~HeldUp => (stop ~> main = "exited")
=============================================================================
