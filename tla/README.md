# A verification of open-wire-bench

This directory holds TLA+ models of the trading simulator of open-wire-bench,
the TLC configurations that check them, and TLAPS proofs. Names follow the Go
source; line numbers refer to files under `src/`. `T/` below stands for
`src/simulators/trading-sim/`.

## 1. The system

The benchmark loads a message broker with a synthetic trading platform and
measures what comes through. Any number of `trading-sim` processes run side by
side, each with a role (`market`, `accounts`, `users`, or `all`), a `--shard-id`
and a `--shard-count`. They share nothing but these numbers and the broker:
each computes by itself which symbols, algo users or users it owns. Market
shards publish numbered ticks per symbol; account shards publish orders and
trades per algo user; each simulated user holds a connection of its own,
subscribes to a screenful of symbols (and its orders and trades), and now and
then scrolls, replacing some symbols by others. At the end each process prints
counters and latencies, and scripts collect and merge them.

### Components

| Component | State | Operations | Interacts through |
|---|---|---|---|
| User connection (`T/user.go`, `T/transport.go`) | `visibleIdx`, `notVisible`, `subs`; handler table, next sid and `doneCh` of `binarySub`; one `seqState` per subscription | `run` (dial, subscribe, select loop, back off), `scrollSub`, `subMarket` handler, `Subscribe`, `Unsubscribe`, `readLoop`, `Close` | two goroutines share the handler table (under `mu`) and the closures; TCP to the broker; shard atomics |
| User shard (`T/user.go`) | `MarketRx` ... `DupCount` atomics, `DrainDone` | `Run`, `watchDrain`, `buildVisible` | `stop` from main; read by main and OTel |
| Market shard (`T/market.go`) | `symSeqs`, `symIdx`, `localPub`, `Published` | `Run`, `runClass` | one connection per class; `stop` |
| Account shard (`T/account.go`) | `seq`, `userIdx`, `localOrders`, `localTrades`, `OrdersPub`, `TradesPub` | `Run`, `runTier` | one connection per tier; `stop` |
| Publisher connection (`T/transport.go`, `T/binproto.go`) | socket, buffer, the `drainServer` goroutine | `dialPublisher`, `Publish`, `Flush`, `Close` | TCP; answers Ping |
| Partitioning (`T/partition.go`) | none (pure) | `ShardIndices`, `ParseTickClasses`, `ParseAlgoTiers`, built-in tables, `ParseScreens`, `ZipfSampler` | computed alike in every process |
| Lifecycle (`T/main.go`) | `stop`, wait group, OTel pointers | launch, wait, stop, snapshot, write the result | shard atomics, files |
| Results (`T/stats.go`, `T/otel.go`, `T/aggregate.py`) | histograms | `makeChanResult`, percentiles, merge, verdict | result files |
| Collection (`src/cloudinit`, `src/scripts/bench-sweep.sh`) | files on hosts and in the bucket | 5 s sync timer, final sync | files, services |
| Other tools (`src/simulators/market-*`) | counters | stand-alone publishers and subscribers | broker |
| Encoding, infrastructure, costs | none to speak of | byte layouts, Terraform, cloud-init, price tables | |

### What is hard

* **The user and its `readLoop`** run at the same time over one handler table.
  The lookup is under a lock, the call is not; dispatch is by subject although
  the wire protocol has subscription ids; a scroll cancels and makes
  subscriptions in mid-stream; the connection may go at any step, and all is
  set up again from `visibleIdx` on a connection that knows nothing. Correct
  means: the broker ends up with exactly the wanted subscriptions, no message
  is counted twice or given to the wrong subscription, the gap counter tells
  losses from scrolls and outages, and everything ends after stop.
* **Gap counting** decides the reported delivery ratio. Correct means: no
  missing message goes uncounted, and none is counted that is not missing.
* **Partitioning without coordination.** Correct means: every symbol and algo
  user has exactly one publisher over all processes, for every table, every
  total and every number of shards.
* **Publishers** keep numbers, turns and batched counters across connections
  that break without notice. Correct means: counts of what was really
  published, numbers never reused, even turns, an end after stop.
* **Shutdown** races with goroutines that still count. Correct means: the report
  has every published message, everything that was received by the end of the
  drain window, and counters that fit together; and there always is a report.
* **Start-up** parses lists that each process cuts alike, and gives each user
  its symbols by random draws. Correct means: what a user watches is published by
  exactly one process, its slots and the rest make up all symbols, and nothing runs
  forever or out of range.
* **The verdict** rests on files that processes write while a timer copies them, and
  on ratios and percentiles merged from shards. Correct means: no half
  file and no result in place is missed, and a PASS or a FAIL has its reason in what
  happened.

Every hazard is listed with its line in `PROJECT.json` under `hazards`,
with the properties that cover it.

## 2. Modules

| Module | Models | Extends / uses |
|---|---|---|
| `SeqTracker` | the sequence check of a market handler, as operators on a `seqState` | |
| `OrderedFeed` | *abstract:* what a user is promised of a subject | |
| `UserConn` | one user, its `readLoop`, the broker's end of its connection | `SeqTracker`; implements `OrderedFeed` |
| `GapTracking` | the sequence check behind any path: losing, copying, reordering | `SeqTracker` |
| `Sharding` | `ShardIndices` and the stripe of a class | |
| `ClassCut` | the loop that cuts percentages into classes | `Sharding` |
| `Visible` | `buildVisible` and the sampling without repetition | |
| `Startup` | one process from its flags to the first user's symbols | `ClassCut`, `Visible` |
| `PubLoop` | the connection loop that both publishers share | |
| `MarketPub` | `runClass`: numbers, turns, batches | `PubLoop` |
| `PubConn` | `binaryPub` with `drainServer`, under the loop of `MarketPub` | `MarketPub` |
| `AccountPub` | `runTier`: numbers, turns, two batched counters | `PubLoop` |
| `Tally` | a sum over goroutines or shards, as the size of a set | |
| `Shutdown` | one process from launch to report: main, publishers, users, their `readLoop`s, the drain watcher | `SeqTracker`, `Tally` |
| `MarketBin` | `market-sim-bin` and `market-sub-bin` with a broker between them | `Tally` |
| `Results` | ratio, histograms, percentiles, merge and verdict, as operators | `Tally` |
| `Collect` | a user shard's counters, its file, the copies, the sweep | `GapTracking`, `Results` |
| `MCUserConn`, `MCStartup`, `MCCollect` | instances for TLC | |
| `*Proofs` | theorems about the module they are named after, and about those it composes: `StartupProofs` about `Sharding`, `ClassCut` and `Visible`, `CollectProofs` about `GapTracking`, `MarketPubProofs` about `PubConn` | TLAPS |

### UserConn

`pc` is where the goroutine of `run` is: `top` (the outer loop's test of
`DrainDone`), `dial` (`dialMsgSub`), `register` and `write` (the two halves of
`Subscribe`: the table entry under `mu`, then the Sub frame), `idle` (the
select), `swap` and `unsub` (an iteration of `scrollSub` up to the Unsub
frame), `backoff`, `gone`. `queue` holds the Subscribe calls still to make,
`swaps` the iterations of `scrollSub` left. `reader` is where `readLoop` is:
`read`, `call` (a handler has been looked up and the lock is released), or
`exited`.

A closure is what `Subscribe` is given: its subject and its `seqState`. The
sequence `closures` of a connection is indexed by sid, so that `handlers` (a map
from subject to closure in the code) and `subs` (the handles) can name them.
The two directions of the TCP connection are sequences of frames. A step is what
happens between two accesses to shared state: one section under `mu`, one frame
written, one frame read, one handler call. In particular `Register` and
`SubWritten` are separate, `Read` and `CallHandler` are separate, and the broker
can act in between.

A frame that is written after the connection has died may succeed (and goes
nowhere) or fail: `SubWritten` and `SubFailed`. `Cut` is the end of the
connection from any side: what `readLoop` can still read is any prefix of what
was under way. Failing dials and their sleeps change no state and are stutters
unless `stop` is set.

The broker is external. It applies Sub and Unsub in order, sends every message
once per subscription it holds at that moment, in any order among these, and may
lose messages (`Lose`). The other goroutines of a process do not touch a user's
state; `SetStop` and `WatchDrain` stand for main and `watchDrain`.

Ghosts: `heard` and `rx` per subject (what handlers were called with), `missed`
(the messages lost while the broker held a subscription to them), and the sid in a message.

### GapTracking

The same check, without the rest of the user, behind a path that may do
anything. `fifo` chooses between a path that keeps the order and one that does
not; copies go to the back of the path. `first`, `received` and `skipped` are
ghosts for the properties and the proof.

### ClassCut and Sharding

A list is a sequence of parts: a well-formed entry with its percentage, a blank
one, or one that does not parse. `builtin` tells the tables of the program,
which lack the last fix-up, from parsed lists. `pct / 100.0 * total` rounded by
`math.Round` is integer arithmetic here, `(2 * pct * total + 100) \div 200`:
the two agree for whole percentages. `Owned` is the stripe of one class over
the shards as `MarketShard.Run` and `AccountShard.Run` compute it.

### Visible and Startup

`buildVisible` is followed draw by draw: a draw may give any index of the pool, which
is what it may give for any exponent, so that nothing rests on the distribution. The
pool is a set, and the sequential fill takes its smallest index left, as the
slice is ascending. `rng` is there for liveness: a draw that hits a symbol the user
has moves nothing else but the limit of tries.

`Startup` is `main` up to the launch: `CheckFlags`, `GetScreens`, the steps of
`ClassCut` twice (tick classes, then algo tiers), `Launch`, and the steps of
`Visible` for one user of the shard. Text is reduced to entries that are well
formed, blank or wrong. A screen's range starts with what stands before the first dash, so
a well-formed one does not start below zero (`Entry`); `--symbols`, `--visible` and
`--shard-id` are natural numbers here. All processes of a run compute the same, so one stands for
all when `Publishers` asks who publishes an item.

### PubLoop, MarketPub, AccountPub

`PubLoop` has the control that `runClass` and `runTier` share, with `stop` read
only where the code reads it and connections that break unnoticed. A tick is
`TickOK` or, on a broken connection only, `TickFailed`. What the two differ in
is order, and that a Write may be held up by a broker that keeps the connection and does not
read (`HeldUp`, see Fairness): `runClass` advances the number, publishes, and only then passes the
turn and counts; `runTier` passes the turn, advances the number and counts
before it looks at the outcome.

### PubConn

`Dial` starts a `drainServer`: `top` is its loop test, `read` the read of a header
under a deadline, `pong` the answer. `DrainError` is any error of a read, the
deadline included; how long 500 ms are is left open, so an empty `inbox` may
end it at any time. `Disconnect` is `binaryPub.Close`: what is left of the goroutine
joins `left`, which counts those of old connections by place. The publishing
loop is that of `MarketPub`, unchanged.

### Shutdown

Users and publishers are reduced to what the end of a run depends on; their
places are those of `UserConn` and `MarketPub`, several to one atomic step where
nothing else can see the difference. What is kept apart: the add to `MarketRx` and
the add to `GapCount` in a handler (`Receive`, `Check`), and the reads of the
counters in main (`Collect`, in the order `ReadOrder`). `Cut` leaves a `readLoop`
some prefix of what was under way, which it goes on handling when the user is
gone, until the process ends. `mine` and `owned` are what the process's shards own: any
role, and shards with an empty share, whose `Run` returns at once and starts no
watcher. Ghosts: `owed` (the gaps of all messages in `rx`), `due` (messages sent
on connections and not lost), and `mark`, which notes counters when the drain
window ends and when main reads.

### Results and Collect

`Results` has no state. What the sweep compares is what `aggregate.py` prints: the ratio
rounded to six digits (`T/aggregate.py:103`; `RatioScale` = 10^6 in the code, 10 in the
runs, any in the proofs) and percentiles rounded to hundredths of a microsecond (106-108), the unit
of the bucket bounds being the microsecond. `Nearest` is `round`, except that the code may
take either side of a tie and the model takes the upper one, which favours a PASS. Other
effects of floats are left out: they can put a ratio that equals its limit below it (0.29 * 100 is
less than 29), which only turns a PASS into a FAIL, and never without a gap or a duplicate, as the
default 1.0 times 100 is exact. The ratio in a shard's own file (`T/stats.go:40`) is not rounded
and not read by the sweep. A histogram that never recorded has no data point (`NoHist`), as
with the OTel reader, and `MergeHist` keeps the bounds of the first one.

`Collect` follows one shard from its handler (`GapTracking`, with `samples` for the
histogram) to `Finish`, and lets the other have any of the outcomes `Others`.
`proc` and `json` are the process and its result file (temporary file, rename, or
death at any point), `sync` and `listing` the service that lists the files and then
copies them one by one, `sweep` the script: wait (for a limited time), start the
service and wait for it, fetch, merge, judge. A start of a running service waits
for that run, as `systemctl start` of a oneshot does. What can fail: the ssh call, before or
after it started the service, and the plain `wait` does not notice (`SshFails`); the pull of
binaries, after which a oneshot does not come to its push (`PullFails`); and the copy of a single
file (`UploadFails`). A fetch that fails ends the script (`set -e`) without a verdict, so it is no
action. `outcome` carries as ghosts what
really was due and got, and `OthersAssumption` asks of the other shard's what
`CollectProofs` shows of the followed one's (`Plausible`; its bounds may be others, but have to be usable). `placed` is every result in place when the sweep asks for the last
copy, and `final` what became of that request: the run it got was still to list the files
(`ahead`), had listed them (`late`), or something of it failed. When the
shard is done its counters move to `outcome` and the variables of `GapTracking` are
reset, so that the states of the two halves add up rather than multiply.

### MarketBin

Two processes with a `stop` each. A publisher counts a tick's frames and moves
full batches before it writes them; a failed Write may have written some. A
subscriber's watcher closes `stopCh` and sets a deadline, after which a read fails
even if messages are left. `--conns` of each tool is any of `ConnFlags`, clamped as
main does it; symbols are striped alike in both.

## 3. Runs

| Run | What it asks | Bounds |
|---|---|---|
| `user_scroll` | does scrolling lose or duplicate anything, under all interleavings of user, reader, broker? | 3 symbols, 2 slots, 2 swaps per scroll, 4 messages, 1 connection, 0.9 M states |
| `user_reconnect` | are subscriptions right again after every break, does GapCount count only losses due to a held subscription, does the user implement `OrderedFeed`, does it end after stop, and do subscriptions settle? | 2 symbols and a feed, 1 slot, 1 scroll, 2 connections, 3 messages in all, 1 loss, 0.5 M states |
| `user_scroll_gaps` | (violation) is a gap after a scroll a missed message? | 2 symbols, 2 scrolls, 3 messages, 1 connection |
| `startup` | has every symbol and feed that a user watches one publisher, are slots and screens right, and does start-up end? | all lists of up to 4 of 6 parts with 0 to 25 items and 1 to 3 shards; all screens, slots and users of `MCStartup` with up to 5 symbols; 2 tries per pick; 0.14 M states |
| `market_pub` | counts, numbers, turns, end of a market publisher, and of the goroutines of its connections | 3 symbols, batch 3, 7 ticks, any breaks, 1 frame under way, 1 goroutine left per place, 0.2 M states |
| `pub_keepalive` | (violation) does a Ping on a working connection find a reader? | 2 symbols, 3 ticks, 2 frames |
| `account_pub` | counts and end of an account publisher | 2 users, batch 2, 5 ticks, any breaks |
| `shutdown` | what is in the report, and is there one? | 2 users, 1 class, any role, batch 2, 2 messages and one after stop, 1 loss, 2 connections, 1.3 M states |
| `collect` | do the counters tell the truth on any path, and the verdict on any counters; does a last copy that is still to list the files bring all of them, and whole? | 4 messages, 2 losses, 1 copy, any order; 2 latencies, 2 bounds; ratios rounded to one digit; the other shard one of 5; any interleaving of timer, sweep and processes, with any failures of copies; 2.0 M states |
| `collect_verdict` | (violation) does a PASS mean the promised share was delivered? | as `collect` |
| `final_sync` | (violation) is a result in place merged whenever nothing of the last copy fails? | as `collect` |
| `market_bin` | how exact are the two printed counts, and do both tools end? | 2 symbols, 1 or 2 connections per tool, 2 frames per tick, batches of 3 and 2, 0.6 M states |

Why the bounds are enough. Two slots with two swaps in one scroll reach a symbol
that is swapped out and in again on one connection, and the swap of a slot while
another one is stable. Two connections reach every way one connection's end can
meet what the user does, and the state a second connection inherits; a third
inherits nothing more. Three messages give a first, a missed and a later one; in
`shutdown` the third is the one that a publisher may send after stop. One loss
or one failed Write is enough to make two counts differ; `collect` has two, so that
two holes can be one gap or two. The constants that are smaller than the code's keep
its shape: 2 tries per pick instead of 30 let the limit be reached with and without
a fill behind it, the caps of the default screens are 2, 3 and 5 symbols instead
of 50, 100 and 500, every third number is sampled instead of every 500th, and one digit of a ratio makes the
rounding reach the verdict (a shard of which 55 % arrived passes a limit of 60 %). One frame and one
goroutine left at each place show every pair of a goroutine's place and what the
loop does; they do not see each other.
The batch sizes are small so that batches fill, several times, between breaks.
`CHECK_DEADLOCK FALSE` stands in every configuration because the bounds on
messages, ticks and connections stop the system, and because a finished
goroutine does nothing.

Symmetry is used only in `user_scroll`, over symbols, which no definition tells
apart; it has no liveness property.

Besides its own properties every property of a passing run is paired with a
mutant: a definition that the code could plausibly have had instead (named in the
modules as "a bug in it"), under which the run finds the property violated.

### Refinement

`user_reconnect` checks `FeedSpec`: with `published` = `pubSeq` and `received` = `rx`,
`UserConn` implements `OrderedFeed`. That is, each handler call hands on one
published message of a subject, later than all those handed on before. It holds
over scrolls and reconnections although handlers are found by subject and calls
may come after `Unsubscribe`.

### Fairness

`UserConn.FairSpec` assumes weak fairness of the user goroutine's next step, of
`readLoop`'s, of the broker reading what it was sent, and of `watchDrain`.
The Go scheduler gives the goroutines theirs, the timers in the selects fire,
and a dial returns; that a Write returns is part of the assumption about the broker. Nothing is
assumed about connections lasting, messages being published, or stop being set. In the model
the user's next dial succeeds in the end as long as the bound on connections
allows; past the bound, or before it, it may fail forever, and `Terminates` must
hold anyway.

No connection has a write deadline: `drainServer` and `drainPings` set read deadlines, and
`market-sub-bin` sets one at stop, for a connection on which it has written all it will. A Write to a
broker that keeps the connection and stops reading therefore blocks for as long as it pleases, with
stop unseen (`T/transport.go:71`, `market-sim-bin/main.go:160`), and `wg.Wait` and the report wait
with it. The models of publishers, of the process and of the binary tools assume nothing of the
broker: their fairness covers `OwnStep` (`LoopMoves`, `PubOwnStep`, `SubOwnStep`), what goes on
without it, and a Write only on a connection that has ended, where it returns. The liveness
properties say so: `Stops`, `Exits` and `BothEnd` promise an end after stop if
`[]<>~HeldUp`, that is if no Write is held up for good on a connection that stays up. TLC
finds the hang when the hypothesis is dropped. Everything else about the broker stays open there:
it may refuse connections, break them, or send nothing. `PubConn.FairConnSpec` adds the steps of the
goroutines of closed connections, whose socket is gone, and nothing for the one of the
working connection, whose broker may be silent. `Shutdown` leaves out scrolls, whose Writes can be held up in
the same way; a Pong that `readLoop` writes holds up nobody, as nobody waits for a `readLoop`.

`StartSpec` has one condition on the steps of main: it is sequential and waits for nobody; that a
draw hits something new is not assumed. `Collect` has no liveness: the sweep's waits
are limited by clocks, and a hung process may be waited out. `Shutdown.FairSpec` has one weak
fairness condition for the whole process and `MarketBin.FairSpec` one for each tool: that some
goroutine goes on is enough.

## 4. Findings

* `user_scroll_gaps`: a message in flight for an unsubscribed handle reaches the
  closure of the next subscription to the same symbol, because `readLoop`
  dispatches by subject (`T/transport.go:234`). It initialises the new
  `seqState`; what is published until the broker reads the new Sub frame is then
  counted as a gap. The comment at `T/user.go:106` says that resubscriptions start
  fresh.
* `pub_keepalive`: `drainServer` returns when nothing came for 500 ms
  (`T/binproto.go:77-80`), although the connection lives on; from then on no Ping of the
  broker is answered. The comment above it (72-73) promises answers "until stop fires or conn
  closes".
* `final_sync`: `systemctl start` of a oneshot that is running only waits for that run. The
  timer starts it every five seconds, so the run that the sweep gets may have listed the files
  already; a result put in place after that is not copied, and the fetch finds a bucket without
  it, although nothing failed (`src/scripts/bench-sweep.sh:205-213`). The comment at 204 says "Ensure a
  final sync happens".
* `collect_verdict`: a shard that received nothing, or lost messages only before the first
  or after the last one of its subscription, has no gaps, so it reports no ratio, and
  the sweep takes 100 % (`src/scripts/bench-sweep.sh:227`); the script says that a
  run passes "if delivery >= 99%".

Further things that the models show, stated as properties that hold. A PASS is worth the promised
share only to the last digit: the ratio is compared after rounding (`VerdictSound` allows half a
unit of the sixth digit; 9 899 996 of 10 000 000 round to 0.99 and pass). A broker that keeps a
publisher's connection and stops reading it keeps the process from ending (the hypothesis of
`Stops`, `Exits` and `BothEnd`). A failed
Publish counts as a published order or trade (`CountsAttempts`; `runClass` counts only
what was accepted), and it can take `localOrders` past the exact value 256 that
triggers the flush (`T/account.go:107`), after which the exported counter stands
still until the end of the run (`LagsLessThanBatch` holds only as long as no
Publish failed).

Positive results worth knowing: the account counters are complete at the end in
spite of the stall; the missing fix-up of the built-in tables
is harmless (`EntriesCover`, proved); `GapCount` never counts an outage
(`GapsAreMissed` in `user_reconnect`, proved for every user that subscribes no symbol twice on a connection); where the first and the last message of each
merged shard arrived and nothing was copied, a PASS is sound, up to the rounding, whatever was lost or
reordered in between (`VerdictSound`); a last copy that is still to list the files when
the sweep asks, and does not fail, brings every result in place, since it is waited
for (`FinalSyncComplete`);
although `readLoop`s outlive `Close`, the report is not torn to the good side
(`RatioNotFlattered`), which rests on main reading `MarketRx` before `GapCount`.

`NoUndercount` is one-sided on purpose: `st.last = seq` also runs for old messages
(`T/user.go:129`), so on a path that delivers late messages GapCount can exceed what
is missing. `OvercountShows` says that it never does so unnoticed: as long as DupCount is 0 it is exact.

One comment that no run is about: `market-sub-bin/main.go:6` says that `--conns 0` means one
connection per symbol, while the code makes it one connection (178-180). `ReceivedOnce` holds for any number.

## 5. Proofs

All theorems hold for every value of the constants that satisfies the
assumptions named in the modules.

Two devices are used everywhere. A sum over goroutines, shards or classes is written as the
size of a set (`Tally`: x is there f[x] times) instead of as a fold, so that facts about
finite sets apply: `TallyProofs` says how it changes when one value changes (`TallyUpdate`),
some grow by one (`TallyAdd`), or disjoint sets are handed out (`TallySpread`). And what has to be
shown for every length of a list is written as a recursive function and shown by induction
on a *set* of lengths, which the provers can follow (`StartupProofs`, `SetInduction`).

**UserConnProofs**: `TypeCorrect`, `PartitionKept`, `OneSubHolds`, `LiveHandledHolds`,
`ConvergesHolds`, `NoDupHolds`, `FeedHolds`, `GapsMissedHolds`, `StillGapsHolds`. `TypeOK` is not inductive:
`CallHandler` uses `closures[cur.sid]`, `UnsubWritten` the handle in a slot,
and `Return` the head of `queue`. `Pointers` adds that these exist: kept sids do
not exceed the number of closures, a looked-up handler is one of this connection,
a call is in progress when `pc` says so, and `swap` is only reached with
iterations left. One lemma per action proves `IInv`; `Exchange` is the argument
that a swap keeps the partition of symbols.

The rest needs to know what is on the wire, which `CInv` says in eight parts. Frames to
the broker are about closures of this connection whose Sub was written (`Frames`); of each sid
there is one Sub, before its Unsub, and of two sids of one subject the older one is cancelled
before the newer one is made (`Separated`); what is made and not cancelled is kept by the user
(`NoLeak`), and what is kept is made and not cancelled as long as the connection works
(`Alive`). `Calls` fixes which sid each call left in the queue is going to get, `Handles` which
symbol each kept handle is for, in the middle of an exchange too. `Table` is the point of
`LiveMessagesHandled`: a sid that can still get messages and that the user counts on is the
one in the handler table. `InOrder` compares the numbers in the buffer, in the call under way,
in every `seqState` and in the ghost `heard`, along one FIFO connection, which gives `NoDup` and the step
simulation of `OrderedFeed`. All of it is for feeds that are listed once
(`FeedsAssumption`): the two feeds of an algo user have different subjects.

`GapsAreMissed` is not an invariant of `Spec`: `user_scroll_gaps` shows how the closure of a symbol that
was scrolled out and in again starts with a message of the old subscription. What
is proved is `Spec /\ []NoneTwice => []GapsAreMissed`: as long as no symbol is
subscribed twice on one connection, a gap is counted only for lost messages, over any number of breaks
and of other scrolls. Its invariant, `HInv`, follows each number from the broker to the
handler. Nothing gets through for a closure before the broker has read its Sub (`Begins`);
from the first number that gets through, none is left out but the missed ones, up to the newest one
published while the subscription is held (`NoHole`), and between the last number handled
and the one in the reader's hands (`CallHole`); a closure's position is its symbol's
(`Positions`), so a number skipped is ahead of `heard` when it is counted and behind it
afterwards, and no missed message pays for two gaps (`Counted`). `NoneTwice` is about the
behaviour, so `StillGapsHolds` gives a condition on the constants under which it always holds: a user
that never scrolls, since `--scroll-count` is 0 or it shows every symbol (`Still`: the closures
of a connection are those of the calls of `run`, in their order). `user_reconnect` lets TLC check
`GapsAreMissed` itself, since its one swap goes to a symbol that the connection has not subscribed.

**CollectProofs**, on the counters: `TypeCorrect`, `NoUndercountHolds`, `OvercountShowsHolds`, `ExactHolds`.
The ghost `skipped` carries `NoUndercount`: each number from the first arrival up to any
arrival has arrived or was skipped (`NoneForgotten`), and no more numbers were
skipped than gaps counted (`SkippedCounted`). The missing ones are therefore among
the skipped ones. This holds for any order of arrival, so also for the paths that
TLC cannot enumerate. On a path that keeps the order and copies nothing, what is under
way is rising and ahead of what arrived (`Rising`, `Ahead`), and the numbers skipped
are exactly the holes (`HolesSkipped`), which gives `Exact`. On any other path the same holds for as long
as no duplicate is counted (`UInv`): a message that is not ahead of the last one is counted as one, and what is
ahead jumps over numbers that are new holes (`HandleHoles`). On a path that only copies
nothing, each number is in one place (`HandledOnce`), and so `rx` counts numbers.

On the whole run: `CollectCounts` lifts this to `Collect`, each step of which is a
step of `GapTracking`, leaves it alone, or restarts it (`Finish`). `VerdictSoundHolds`
follows the counters to the verdict: with both ends of a run received and nothing copied, all that was due was
handled or is a gap when the drain ends (`EndsCounted`, `FinishPlausible`); the merge adds the shards
up (`MergedSums`), in the order of names or not; and a ratio of such sums that reaches the limit means that
the share was delivered, less at most half a unit of its last digit (`NearestHalf`), also where the ratio is
left out (`RatioSound`).
`NoFalseAlarmHolds` goes the other way: without a message missed, copied or out of order nothing was
counted (`NothingMissing`), and without a sample above a limit no bucket above it has a count
(`HistogramWithin`), nor has one in the merge (`MergeWithin`), so that the bucket in which a share
is reached ends at the limit or before (`PercentileWithin`). That the interpolation stays within its
bucket is `Interpolated`, and that rounding does not take it out of it `NearestBetween`: the bounds are
whole numbers.
`PercentilesRightHolds` compares two ways to count: the counts up to a bucket are the samples that
belong there, of both shards (`CountBy`, from `MergeFiles` by induction over the buckets), and a greater
latency never belongs to an earlier bucket (`BucketOrder`). So the least latency that enough samples do not
exceed is in the bucket where the counts first reach the share (`Ranked`).
Both ask for bounds that rise from above zero and have the limits among them (`UsableBounds`): true of
`latBucketBoundaries` with the defaults of 500 and 2000 ms. With a limit between two bounds, which
the environment of the script can set, a sample below it and a percentile above it may share a bucket, and
`NoFalseAlarm` is not claimed.
`NeverPartialHolds` rests on what may be listed, `FinalSyncCompleteHolds` on `Promised`: what
was in place when the sweep asked for a copy that was still to list the files is in its place until it lists
them, on the list or in the bucket while it pushes and no copy has failed, and in the bucket
behind that; and on the fact that a service the sweep waits for is never idle.

**StartupProofs**, on the parts: `StripesPartition`, `OwnedPartition`, `CutTypeCorrect`,
`SingleOwnerHolds`, `EntriesCoverHolds`; `BuildTypeCorrect`, `SlotsCorrect`, `HalfCorrect`.
`i % K` names the only stripe that holds `i`. The loop keeps the
classes apart (`Apart`) and without holes before the cursor (`Covered`); a built-in
table ends with the cursor at the total because its last part is an entry
(`TableDone`), and the fix-up stretches the last class over the rest. With the
partition of each class over the shards, every item has one owner; a list with an
entry leaves no item out. For a user's symbols the argument counts: what is taken from
the screen, what is sampled and what is left of the pool are disjoint and as many as
there are symbols (`BuildInv`), so that the pool can only run out when all slots are full,
and `Assemble` never meets a symbol twice.

On the composition: `ScreensUsableHolds`, `StartupParts`, `EveryFeedPublishedHolds`, for
every command line. `Visible` alone assumes screens that can be used; `Startup` has to make
them. `StartInv` says what each phase of main has: the flags with `--algo-users` clamped
(`FlagsInv`), the list that is being cut and how far (`CutPart`), the finished tables of
classes, apart and complete (`TablesInv`), and screens within the symbols, then a user's state
(`UserInv`). What `ParseScreens` keeps is shown to be usable by induction over the entries, and what
`defaultScreens` makes by cases over its three caps. Since nothing sets `--algo-users` or the classes after
that, a user below `AlgoUsers` in one process is one that a tier of another publishes for.

**MarketPubProofs**: `TypeCorrect`, `CountExactHolds`, `EvenTicksHolds`,
`SeqsIncreaseHolds`, `OneLateTickHolds`. The strengthening has the exact shape of
the round robin (`RoundRobin`: all symbols are at the same round, those before
`symIdx` one ahead), the numbers used being below the next one (`NumbersUsed`), and
that the loop cannot wait again once a late tick was sent (`LateIsLast`).
`ConnKeepsLoop` shows that each step of `PubConn` is a step of `MarketPub` or none,
so that all of it holds with `drainServer` as well (`ConnCorrect`).

**AccountPubProofs**: `TypeCorrect`, `CountsAttemptsHolds`, `LagsLessThanBatchHolds`,
`EvenTurnsHolds`, by the same round robin, but over attempts.

**ShutdownProofs**: `TypeCorrect`, `DrainCountedHolds`, `ReadsStable`, `PublishedCompleteHolds`,
`CleanRunExactHolds`, `RatioNotFlatteredHolds`, for any finite number of users and classes, in two
invariants. One is about time. Counters only grow, so what main reads
after the window is enough. What is left is a main that reads before it, since
all users gave up dialling after stop: then no `readLoop` is left (`NoReaderLeft`), the
counters stand still, and the window ends with what was read (`Settled`). The other is about sums:
at every moment `published` with all `localPub` is what was sent, `MarketRx` with the
messages under way is what was due, and `GapCount` with the gaps of the handlers between
their two adds is what is owed for `MarketRx`. What main reads is exact where the rest is zero, and
`RatioNotFlattered` is the case where it is not: between the read of `MarketRx` and that of
`GapCount` only more gaps are added.

**MarketBinProofs**: `TypeCorrect`, `PublishedWithinHolds`, `ReceivedExactHolds`, `ReceivedOnceHolds`,
for any number of symbols, any `--conns` and any batch sizes. `BInv` relates shared and
local counts (`WrittenBalance`, `ReadBalance`) and has one result per finished
subscriber (`ResultsSent`). The frames of a tick go to disjoint stripes, so that they add no more to
everything under way than they are (`TallySpread`): that is `ReceivedOnce`.

Every type invariant is proved, and so is every safety invariant that a passing run checks:
`GapsAreMissed` under the hypothesis above, the others as they stand or under the
hypotheses on the constants that their theorems name.

Only model-checked:

* The liveness properties `Terminates`, `Settles`, `Stops`, `NoneLeft`, `Exits`, `StartsOrExits` and
  `BothEnd`, which need fairness and ENABLED.

## 6. Not modelled

* **Real time and rates**: tick intervals, the conversion of a rate to an interval
  (`T/market.go:61`, a floating-point conversion whose result Go leaves open), sleep and
  deadline lengths. They only decide when a step is taken; the models let it be taken at any time.
* **Payload bytes and encodings** (`T/binproto.go` layouts, JSON, histogram serialisation): no
  control flow that a property tells apart. A frame is read whole or not at all.
* **The NATS transport** and the NATS tools `market-sim` and `market-sub`: their subscriptions,
  reconnections and buffers live in the nats.go library.
* **OTel wiring and the heartbeat** of `T/main.go` and `T/otel.go`: observers of counters whose
  reads no other step depends on. That callbacks read pointers which main sets later, without
  synchronisation (`T/main.go:231`), is listed as a hazard for this reason without a property.
* **Percentiles of shards without a histogram** (`T/aggregate.py:56`), an average that the
  code itself calls approximate, and the counters of orders, trades and scrolls in the
  report, which are read like `MarketRx`.
* **A negative `--shard-id`** (`T/main.go:126`), an argument check that is not there:
  `Startup` starts from non-negative ones.
* **Terraform, cloud-init, cost report**: declarative, or arithmetic over price tables.

What could be added: larger instances of `user_reconnect` with two slots (out of TLC's
time limit here); an abstract specification of the collection, one result file at a time, that `Collect` refines.
