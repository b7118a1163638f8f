------------------------------ MODULE Results -------------------------------
(***************************************************************************)
(* What is made of the counters and the latency histogram of a shard:      *)
(* makeChanResult (trading-sim/stats.go), the percentiles of otel.go, and  *)
(* the merge over shards and the SLA verdict of aggregate.py and           *)
(* bench-sweep.sh.  Latencies and bucket bounds are whole numbers of       *)
(* microseconds.  The sweep judges what aggregate.py prints: a ratio in    *)
(* units of 1/RatioScale, percentiles in hundredths of a microsecond.      *)
(***************************************************************************)
EXTENDS Integers, Sequences, SequencesExt, Tally

CONSTANT RatioScale     \* 10^6: a delivery_ratio is printed with six digits

ASSUME RatioScaleAssumption == RatioScale \in Nat \ {0}

\* round(): the whole number nearest to a fraction.  Of two that are as near, the
\* larger one, where the code may take either: that favours a PASS.
Nearest(num, den) == (2 * num + den) \div (2 * den)

-----------------------------------------------------------------------------
(* Histograms.  counts is one longer than bounds: the overflow bucket.     *)

NoHist == [bounds |-> <<>>, counts |-> <<>>]

\* The bucket of a latency: bounds are inclusive upper bounds.
BucketOf(bounds, v) == 1 + Cardinality({i \in DOMAIN bounds : bounds[i] < v})

\* The instrument holds no data point before the first Record.  samples says
\* how often each latency was recorded.
Histogram(bounds, samples) ==
    LET In(i) == {v \in DOMAIN samples : BucketOf(bounds, v) = i}
    IN  IF \A v \in DOMAIN samples : samples[v] = 0
        THEN NoHist
        ELSE [bounds |-> bounds,
              counts |-> [i \in 1..(Len(bounds) + 1) |->
                              Tally([v \in In(i) |-> samples[v]])]]

CountUpTo(h, n) == Tally([i \in 1..n |-> h.counts[i]])
Total(h) == CountUpTo(h, Len(h.counts))

\* The lower and the upper end of a bucket; the overflow bucket is taken to be
\* as wide as the one before it.
Lower(bounds, i) == IF i > 1 THEN bounds[i - 1] ELSE 0
Upper(bounds, i) ==
    LET n == Len(bounds)
    IN  IF i <= n THEN bounds[i] ELSE 2 * bounds[n] - Lower(bounds, n)

\* The bucket in which the counts reach the share (in thousandths).
Reaches(h, permille, i) == 1000 * CountUpTo(h, i) >= permille * Total(h)
Crossing(h, permille) ==
    CHOOSE i \in 1..Len(h.counts) :
        Reaches(h, permille, i) /\ \A j \in 1..(i - 1) : ~Reaches(h, permille, j)

\* A percentile, interpolated within its bucket and rounded, in hundredths.
\* A bug in it: the samples below the bucket are not taken off the target.
PercentileFromStart(h, permille) ==
    IF Total(h) = 0 THEN 0
    ELSE LET i == Crossing(h, permille)
             width == Upper(h.bounds, i) - Lower(h.bounds, i)
         IN  Nearest(100 * (1000 * h.counts[i] * Lower(h.bounds, i)
                                + permille * Total(h) * width), 1000 * h.counts[i])
Percentile(h, permille) ==
    IF Total(h) = 0 THEN 0
    ELSE LET i == Crossing(h, permille)
             width == Upper(h.bounds, i) - Lower(h.bounds, i)
             inside == permille * Total(h) - 1000 * CountUpTo(h, i - 1)
         IN  Nearest(100 * (1000 * h.counts[i] * Lower(h.bounds, i) + inside * width),
                     1000 * h.counts[i])

-----------------------------------------------------------------------------
(* Channel results                                                         *)

\* delivery_ratio: of what was received and what is known to be missing, rounded.
\* It is left out, and then read as 1, when nothing is known to be wrong.
Ratio(rx, gaps, dups) ==
    IF gaps = 0 /\ dups = 0 THEN RatioScale
    ELSE IF rx + gaps > 0 THEN Nearest(RatioScale * rx, rx + gaps) ELSE 0

MakeChanResult(rx, gaps, dups, hist) ==
    [received |-> rx, gaps |-> gaps, dups |-> dups, hist |-> hist]

\* A histogram joins those merged before it: the first one gives the bounds, and
\* one with other bounds is skipped with a warning.
\* A bug in it: the last one is kept.
MergeHistKeepsLast(merged, h) == IF h = NoHist THEN merged ELSE h
MergeHist(merged, h) ==
    IF merged = NoHist THEN h
    ELSE IF h.bounds # merged.bounds THEN merged
    ELSE [merged EXCEPT !.counts = [i \in DOMAIN @ |-> @[i] + h.counts[i]]]

MergedHist(results) ==
    LET merged[k \in 0..Len(results)] ==
            IF k = 0 THEN NoHist ELSE MergeHist(merged[k - 1], results[k].hist)
    IN  merged[Len(results)]

\* The histograms are joined one after the other, the counters added up.
MergeChannel(results) ==
    MakeChanResult(Tally([k \in DOMAIN results |-> results[k].received]),
                   Tally([k \in DOMAIN results |-> results[k].gaps]),
                   Tally([k \in DOMAIN results |-> results[k].dups]),
                   MergedHist(results))

\* The verdict of the sweep over a merged market channel.
Passes(m, sla) ==
    /\ 100 * Ratio(m.received, m.gaps, m.dups) >= sla.delivery * RatioScale
    /\ Percentile(m.hist, 990) <= 100 * sla.p99
    /\ Percentile(m.hist, 999) <= 100 * sla.p999
=============================================================================
