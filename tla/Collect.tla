------------------------------ MODULE Collect -------------------------------
(***************************************************************************)
(* From the handlers of user shards to the verdict of the sweep.  One      *)
(* shard is followed from its market handler (GapTracking, with sampled    *)
(* latencies) to the end of its drain; the other has any of the outcomes   *)
(* in Others.  Both write a result file on the host they run on            *)
(* (trading-sim/main.go), a timer copies the files to the bucket           *)
(* (bench-sync.service), and the sweep waits for the processes, asks for a *)
(* last copy, fetches what is in the bucket, merges it and judges it       *)
(* (bench-sweep.sh, aggregate.py; Results).                                *)
(*                                                                         *)
(* A process may die before its file is in place, or hang; a pull of       *)
(* binaries, the copy of a file to the bucket and the sweep's call for a   *)
(* last copy may fail.  When the sweep cannot fetch, the script ends there *)
(* without a verdict.  Only files named *.json count: the temporary file   *)
(* is copied as well, but never read.                                      *)
(***************************************************************************)
EXTENDS GapTracking, Results

CONSTANTS
    Latencies,      \* latencies that a handler may measure
    Bounds,         \* latBucketBoundaries
    SampleEvery,    \* 500: sequence numbers between two samples
    Others,         \* outcomes of the other shard
    Sla             \* [delivery, p99, p999], in percent and units of latency

ASSUME CollectAssumption ==
    /\ SampleEvery \in Nat \ {0} /\ Latencies \subseteq Nat \ {0} /\ IsFiniteSet(Latencies)
    /\ Sla.delivery \in 0..100

\* Bucket bounds rise from above zero, and the limits of the verdict are among them.
UsableBounds(bounds) ==
    /\ bounds \in Seq(Nat \ {0})
    /\ \A i, j \in 1..Len(bounds) : i < j => bounds[i] < bounds[j]
    /\ {Sla.p99, Sla.p999} \subseteq ToSet(bounds)

ASSUME BucketsAssumption == UsableBounds(Bounds)

\* What the counters of a shard are worth: if its first and last message arrived and
\* none was copied, every message due to it was handled once or is among the
\* gaps; if all arrived in order, nothing was counted as wrong.  The followed
\* shard is shown to have it (GapTracking), the other one is a shard too.
Plausible(o) ==
    /\ o.due \in Nat /\ o.got \in Nat
    /\ o.rx \in Nat /\ o.gaps \in Nat /\ o.dups \in Nat
    /\ o.ends /\ o.copies = 0 => o.rx = o.got /\ o.due <= o.got + o.gaps
    /\ ~(o.got < o.due) /\ ~(o.copies > 0) /\ o.ordered => o.gaps = 0 /\ o.dups = 0
    /\ UsableBounds(o.bounds)
    /\ DOMAIN o.samples \subseteq Nat /\ IsFiniteSet(DOMAIN o.samples)
    /\ o.samples \in [DOMAIN o.samples -> Nat]

ASSUME OthersAssumption == \A o \in Others : Plausible(o)

VARIABLES
    samples,     \* the latencies in the histogram: how often each
    running,     \* the followed shard still counts
    outcome,     \* what became of the messages due to a shard, and its counters
    proc,        \* "run", "tmp" (result in the temporary file), "gone"
    json,        \* contents of the result file: "none", "part", "full"
    bucket,      \* the same of its copy
    sync,        \* the sync service: "idle", "pull" (binaries), "push" (results),
                 \* "bad" (pushing, and a copy failed)
    listing,     \* files it found to be copied
    sweep,       \* "wait", "sync", "syncing", "fetch", "done"
    placed,      \* ghost: the results in place when the sweep asks for a last copy
    final,       \* ghost: that copy: "none" (not asked for), "ahead" (it is still to
                 \* list the files), "late" (it has listed them), "failed"
    fetched      \* the files that were merged

procVars == <<proc, json>>
syncVars == <<bucket, sync, listing>>
sweepVars == <<sweep, placed, final, fetched>>
shardVars == <<vars, samples, running, outcome>>
collectVars == <<shardVars, procVars, syncVars, sweepVars>>

Shards == {1, 2}

CollectInit ==
    /\ Init
    /\ samples = [v \in Latencies |-> 0] /\ running = TRUE /\ outcome = <<>>
    /\ proc = <<"run", "gone">> /\ json = <<"none", "none">>
    /\ bucket = [p \in Shards |-> "none"] /\ sync = "idle" /\ listing = {}
    /\ sweep = "wait" /\ placed = {} /\ final = "none" /\ fetched = {}

-----------------------------------------------------------------------------
(* The followed shard                                                      *)

\* The path and its publisher.
Traffic ==
    /\ running
    /\ \/ Publish
       \/ \E i \in 1..Len(path) : Lose(i) \/ Duplicate(i)
    /\ UNCHANGED <<samples, running, outcome, procVars, syncVars, sweepVars>>

\* The handler samples every SampleEvery-th number; clocks that disagree may
\* give a latency that is not positive, which is left out.
Receive(i) ==
    /\ running
    /\ Deliver(i)
    /\ \/ /\ path[i] % SampleEvery = 0
          /\ \E v \in Latencies : samples' = [samples EXCEPT ![v] = @ + 1]
       \/ UNCHANGED samples
    /\ UNCHANGED <<running, outcome, procVars, syncVars, sweepVars>>

\* The drain ends; what is still on the path is lost, and what the process knows
\* is in its counters.
Finish ==
    /\ running
    /\ running' = FALSE
    /\ outcome' = <<[due |-> pubSeq, got |-> Cardinality(received),
                      ends |-> first = 0 /\ {0, pubSeq - 1} \subseteq received,
                      copies |-> copied, ordered |-> fifo,
                      rx |-> rx, gaps |-> gaps, dups |-> dups,
                      bounds |-> Bounds, samples |-> samples]>>
    /\ \E content \in {"none", "full"} : json' = [json EXCEPT ![2] = content]
    /\ path' = <<>> /\ received' = {} /\ skipped' = {} /\ first' = 0 /\ st' = Fresh
    /\ pubSeq' = 0 /\ rx' = 0 /\ gaps' = 0 /\ dups' = 0 /\ lost' = 0 /\ copied' = 0
    /\ fifo' = TRUE /\ samples' = [v \in Latencies |-> 0]
    /\ UNCHANGED <<proc, syncVars, sweepVars>>

Result(p) ==
    LET o == outcome[p]
    IN  MakeChanResult(o.rx, o.gaps, o.dups, Histogram(o.bounds, o.samples))

-----------------------------------------------------------------------------
(* Processes and files                                                     *)

\* The result is written to a temporary file, which is then renamed.
\* A bug in it: it is written to its place.
WriteResultInPlace(p) ==
    /\ ~running /\ proc[p] = "run"
    /\ proc' = [proc EXCEPT ![p] = "tmp"] /\ json' = [json EXCEPT ![p] = "part"]
    /\ UNCHANGED <<shardVars, syncVars, sweepVars>>
WriteResult(p) ==
    /\ ~running /\ proc[p] = "run"
    /\ proc' = [proc EXCEPT ![p] = "tmp"]
    /\ UNCHANGED <<json, shardVars, syncVars, sweepVars>>

Rename(p) ==
    /\ proc[p] = "tmp"
    /\ proc' = [proc EXCEPT ![p] = "gone"] /\ json' = [json EXCEPT ![p] = "full"]
    /\ UNCHANGED <<shardVars, syncVars, sweepVars>>

Die(p) ==
    /\ ~running /\ proc[p] \in {"run", "tmp"}
    /\ proc' = [proc EXCEPT ![p] = "gone"]
    /\ UNCHANGED <<json, shardVars, syncVars, sweepVars>>

-----------------------------------------------------------------------------
(* The sync service: binaries are pulled, then results pushed.             *)

\* The timer, which is not followed past the end of the sweep.
TimerStart ==
    /\ ~running /\ sync = "idle" /\ sweep # "done"
    /\ sync' = "pull"
    /\ UNCHANGED <<bucket, listing, shardVars, procVars, sweepVars>>

\* A service whose pull fails does not come to the push.
PullFails ==
    /\ sync = "pull"
    /\ sync' = "idle"
    /\ sweep' = IF sweep = "syncing" THEN "fetch" ELSE sweep
    /\ final' = IF sweep = "syncing" THEN "failed" ELSE final
    /\ UNCHANGED <<bucket, listing, placed, fetched, shardVars, procVars>>

List ==
    /\ sync = "pull"
    /\ sync' = "push"
    /\ listing' = {p \in Shards : json[p] # "none" /\ json[p] # bucket[p]}
    /\ UNCHANGED <<bucket, shardVars, procVars, sweepVars>>

Upload(p) ==
    /\ p \in listing
    /\ bucket' = [bucket EXCEPT ![p] = json[p]]
    /\ listing' = listing \ {p}
    /\ UNCHANGED <<sync, shardVars, procVars, sweepVars>>

\* The other files are copied all the same.
UploadFails(p) ==
    /\ p \in listing
    /\ listing' = listing \ {p}
    /\ sync' = "bad"
    /\ UNCHANGED <<bucket, shardVars, procVars, sweepVars>>

SyncEnd ==
    /\ sync \in {"push", "bad"} /\ listing = {}
    /\ sync' = "idle"
    /\ sweep' = IF sweep = "syncing" THEN "fetch" ELSE sweep
    /\ final' = IF sweep = "syncing" /\ sync = "bad" THEN "failed" ELSE final
    /\ UNCHANGED <<bucket, listing, placed, fetched, shardVars, procVars>>

-----------------------------------------------------------------------------
(* The sweep                                                               *)

\* It polls until no process is left, for a limited time.
Wait ==
    /\ ~running /\ sweep = "wait"
    /\ sweep' = "sync"
    /\ UNCHANGED <<placed, final, fetched, shardVars, procVars, syncVars>>

\* A start of a service that is running waits for that run.
\* A bug in it: the sweep does not wait for the service.
FinalSyncInBackground ==
    /\ sweep = "sync"
    /\ sweep' = "fetch" /\ placed' = {p \in Shards : json[p] = "full"}
    /\ final' = IF sync \in {"idle", "pull"} THEN "ahead" ELSE "late"
    /\ sync' = IF sync = "idle" THEN "pull" ELSE sync
    /\ UNCHANGED <<bucket, listing, fetched, shardVars, procVars>>
FinalSync ==
    /\ sweep = "sync"
    /\ sweep' = "syncing" /\ placed' = {p \in Shards : json[p] = "full"}
    /\ final' = IF sync \in {"idle", "pull"} THEN "ahead" ELSE "late"
    /\ sync' = IF sync = "idle" THEN "pull" ELSE sync
    /\ UNCHANGED <<bucket, listing, fetched, shardVars, procVars>>

\* The call runs in the background, and the wait for it ignores how it ends: it
\* may not reach the host, or lose it while the service runs.
SshFails ==
    /\ sweep \in {"sync", "syncing"}
    /\ sweep' = "fetch" /\ final' = "failed"
    /\ UNCHANGED <<placed, fetched, shardVars, procVars, syncVars>>

\* What is in the bucket is fetched; a file that does not parse is skipped.  Only
\* now it matters what is in the file of the other shard.
Fetch ==
    /\ sweep = "fetch"
    /\ sweep' = "done" /\ fetched' = {p \in Shards : bucket[p] = "full"}
    /\ \E other \in Others : outcome' = Append(outcome, other)
    /\ UNCHANGED <<placed, final, vars, samples, running, procVars, syncVars>>

\* The merged channel, of the files in the order of their names.
Merged ==
    MergeChannel([k \in 1..Cardinality(fetched) |->
                      Result(IF k = 1 /\ 1 \in fetched THEN 1 ELSE 2)])

Verdict ==
    IF sweep # "done" \/ fetched = {} THEN "none"
    ELSE IF Passes(Merged, Sla) THEN "PASS" ELSE "FAIL"

-----------------------------------------------------------------------------

SweepStep == Wait \/ FinalSync \/ SshFails \/ Fetch
SyncStep == PullFails \/ List \/ SyncEnd \/ \E p \in Shards : Upload(p) \/ UploadFails(p)

CollectNext ==
    \/ Traffic \/ Finish
    \/ \E i \in 1..Len(path) : Receive(i)
    \/ \E p \in Shards : WriteResult(p) \/ Rename(p) \/ Die(p)
    \/ TimerStart \/ SyncStep \/ SweepStep

CollectSpec == CollectInit /\ [][CollectNext]_collectVars

-----------------------------------------------------------------------------
(* Properties *)

DueInAll == Tally([p \in fetched |-> outcome[p].due])
GotInAll == Tally([p \in fetched |-> outcome[p].got])

\* A PASS means that the share of messages it promises was really delivered, less
\* at most half a unit of the last digit to which the ratio is rounded, if in each
\* merged shard the first message arrived before the others, the last one arrived,
\* and no copy was made, whatever else the path reorders.  The counters of the
\* handlers, the ratio of sums and the merge never make losses look smaller, and
\* the rounding only by that half unit (aggregate.py:69-103, bench-sweep.sh:227-233).
VerdictSound ==
    Verdict = "PASS" /\ (\A p \in fetched : outcome[p].ends /\ outcome[p].copies = 0)
        => 100 * (2 * RatioScale * GotInAll + DueInAll)
               >= 2 * RatioScale * Sla.delivery * DueInAll

\* A FAIL has a reason in what happened: a merged shard missed a message, got a
\* copy or messages out of order, or sampled a latency above a limit.  Neither
\* the merge nor the interpolation makes one up (aggregate.py:27-55).
NoFalseAlarm ==
    Verdict = "FAIL" =>
        \E p \in fetched :
            LET o == outcome[p]
            IN  \/ o.got < o.due \/ o.copies > 0 \/ ~o.ordered
                \/ \E v \in DOMAIN o.samples :
                        o.samples[v] > 0 /\ (v > Sla.p99 \/ v > Sla.p999)

SamplesUpTo(s, v) == Tally([w \in {w \in DOMAIN s : w <= v} |-> s[w]])

\* A percentile of merged histograms lies in the bucket of the sample that has
\* this rank among the samples of all shards with these buckets, which an average
\* of the shards' percentiles would not do (aggregate.py:8-10; otel.go:180-221).
PercentilesRight ==
    LET h == Merged.hist
        merged == {p \in fetched : Result(p).hist.bounds = h.bounds}
        values == UNION {DOMAIN outcome[p].samples : p \in merged}
        total == Tally([p \in merged |-> Tally(outcome[p].samples)])
        Enough(v, permille) ==
            1000 * Tally([p \in merged |-> SamplesUpTo(outcome[p].samples, v)])
                >= permille * total
    IN  h # NoHist =>
            \A permille \in {500, 990, 999} : \E q \in values :
                LET i == BucketOf(h.bounds, q)
                    value == Percentile(h, permille)
                IN  /\ Enough(q, permille)
                    /\ \A v \in values : v < q => ~Enough(v, permille)
                    /\ 100 * Lower(h.bounds, i) <= value
                    /\ value <= 100 * Upper(h.bounds, i)

\* The bucket never has half a result, although files are copied while they are
\* written (main.go:341-345).
NeverPartial == \A p \in Shards : bucket[p] # "part"

\* Every result in place when the sweep asks for the last copy is merged, if the
\* service was idle or pulled binaries then and nothing of that copy fails
\* (bench-sweep.sh:204-208, bench-sync.service:11-13).
FinalSyncComplete == sweep = "done" /\ final = "ahead" => placed \subseteq fetched

\* bench-sweep.sh:204: "Ensure a final sync happens": what is in place is merged,
\* if nothing of that copy fails.
FinalSyncHappens == sweep = "done" /\ final # "failed" => placed \subseteq fetched

\* bench-sweep.sh:218: "run PASSes if delivery >= 99%".
PassDelivers == Verdict = "PASS" => 100 * GotInAll >= Sla.delivery * DueInAll
=============================================================================
