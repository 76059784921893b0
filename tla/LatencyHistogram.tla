--------------------------- MODULE LatencyHistogram ---------------------------
(***************************************************************************)
(* The latency histogram of lob/histogram.hpp as operators: one bucket per *)
(* nanosecond below kLinearMax, one per octave from there on, the last of  *)
(* which takes everything that is longer.                                  *)
(*                                                                         *)
(* A percentile is a fraction <<num, den>>.  The code multiplies by a      *)
(* double; for the five fractions of write_summary the product, truncated, *)
(* is the quotient below for every total a double holds exactly.           *)
(***************************************************************************)
EXTENDS Totals, FiniteSetsExt, Functions, SequencesExt

CONSTANTS kLinearMax, kLogBuckets

ASSUME HistogramAssumption == kLinearMax \in Nat /\ kLogBuckets \in Nat \ {0}

Linear == 0 .. kLinearMax - 1
Log    == 0 .. kLogBuckets - 1

NewHistogram ==
  [linear |-> [i \in Linear |-> 0], log |-> [b \in Log |-> 0], total |-> 0, max |-> 0, sum |-> 0]

\* 1 << b, where the octave of bucket b begins.
Octave[b \in Log] == IF b = 0 THEN 1 ELSE 2 * Octave[b - 1]

\* The loop that halves v once per bucket, until 1 is left or the buckets end.
Halve(ns) ==
  LET v[bucket \in Log] == IF bucket = 0 THEN ns ELSE v[bucket - 1] \div 2
  IN  Min({bucket \in Log : v[bucket] <= 1 \/ bucket = kLogBuckets - 1})

\* (Mutant) An octave begins at kLinearMax instead of at a power of two.
LogBucketFromLinear(ns) == Halve((ns - kLinearMax) + 1)

LogBucket(ns) == Halve(ns)

Record(hist, ns) ==
  [linear |-> IF ns < kLinearMax THEN [hist.linear EXCEPT ![ns] = @ + 1] ELSE hist.linear,
   log    |-> IF ns < kLinearMax THEN hist.log
              ELSE [hist.log EXCEPT ![LogBucket(ns)] = @ + 1],
   total  |-> hist.total + 1,
   max    |-> IF ns > hist.max THEN ns ELSE hist.max,
   sum    |-> hist.sum + ns]

\* The running count after the bucket last.
Upto(counts, last) == TotalOf([i \in 1 .. last + 1 |-> counts[i - 1]])

\* (Mutant) The first bucket that passes the threshold, instead of the first
\* that reaches it.
ReachingPassed(counts, before, threshold) ==
  {i \in DOMAIN counts : before + Upto(counts, i) > threshold}

\* The buckets at which the running count, before and including them, has
\* reached the threshold.
Reaching(counts, before, threshold) ==
  {i \in DOMAIN counts : before + Upto(counts, i) >= threshold}

\* The lower edge of the first bucket that reaches the rank; the maximum, if
\* none does.
Percentile(hist, p) ==
  LET product   == (hist.total * p[1]) \div p[2]
      threshold == IF product = 0 THEN 1 ELSE product
      linear    == Reaching(hist.linear, 0, threshold)
      log       == Reaching(hist.log, Upto(hist.linear, kLinearMax - 1), threshold)
  IN  IF hist.total = 0 THEN 0
      ELSE IF linear # {} THEN Min(linear)
      ELSE IF log # {} THEN Octave[Min(log)]
      ELSE hist.max

\* The rows of write_csv, as pairs: the buckets that are not empty.
Row(value, count) == IF count = 0 THEN <<>> ELSE <<<<value, count>>>>
CsvRows(hist) ==
  FlattenSeq([i \in 1 .. kLinearMax |-> Row(i - 1, hist.linear[i - 1])])
  \o FlattenSeq([b \in 1 .. kLogBuckets |-> Row(Octave[b - 1], hist.log[b - 1])])

-----------------------------------------------------------------------------
(* What the buckets stand for, from the samples themselves.                *)

\* The value a sample is reported as: itself, or the power of two below it.
Edge(ns) ==
  IF ns < kLinearMax THEN ns
  ELSE Max({1} \cup {Octave[b] : b \in {e \in Log : Octave[e] <= ns}})

\* The sample of a rank: rank of the samples, or more, are not longer, and
\* fewer than rank are shorter.
OfRank(samples, rank) ==
  CHOOSE ns \in Range(samples) :
    /\ Cardinality({i \in DOMAIN samples : samples[i] < ns}) < rank
    /\ Cardinality({i \in DOMAIN samples : samples[i] <= ns}) >= rank

\* Percentiles are the edges of the samples of their rank, and the total, the
\* maximum and the sum are exact.
Summarises(hist, samples, percentiles) ==
  /\ hist.total = Len(samples)
  /\ hist.sum = TotalOf(samples)
  /\ hist.max = Max({0} \cup Range(samples))
  /\ \A p \in percentiles :
       LET rank == (Len(samples) * p[1]) \div p[2]
       IN  Percentile(hist, p) =
             IF samples = <<>> THEN 0 ELSE Edge(OfRank(samples, Max({1, rank})))

\* Every sample is in the rows once, under its edge.
Tabulates(rows, samples) ==
  \A value \in {rows[r][1] : r \in DOMAIN rows} \cup {Edge(samples[i]) : i \in DOMAIN samples} :
    TotalOf([r \in DOMAIN rows |-> IF rows[r][1] = value THEN rows[r][2] ELSE 0])
      = Cardinality({i \in DOMAIN samples : Edge(samples[i]) = value})

=============================================================================
