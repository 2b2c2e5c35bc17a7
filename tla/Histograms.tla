------------------------------ MODULE Histograms ------------------------------
(***************************************************************************)
(* histogram/prometheus_model.go: how the API shows a pushed native        *)
(* histogram as a list of buckets.                                         *)
(*                                                                         *)
(* A pushed histogram (dto.Histogram) is a record with the fields          *)
(*   count, countFloat, zero, zeroFloat   0 where they are not set         *)
(*   threshold                            of the zero bucket               *)
(*   positive, negative                   [spans, deltas, counts]          *)
(* and those of a classical histogram, which have no part here.  `deltas'  *)
(* is for integer histograms, `counts' for float histograms.  A span is    *)
(* [offset, length].  The sum of the observations is left out.  Bounds are *)
(* integers: those of schema 0, in units of 1/16.                          *)
(***************************************************************************)
EXTENDS Integers, Sequences, FiniteSets, SequencesExt

IsNative(h) == h.positive.spans # <<>> \/ h.negative.spans # <<>>

\* The histogram is a float histogram if it has a count of that type.
NewModelHistogram(h) ==
  LET float        == h.countFloat > 0 \/ h.zeroFloat > 0
      Side(s)      == [spans |-> s.spans, buckets |-> IF float THEN s.counts ELSE s.deltas]
  IN  [float     |-> float,
       count     |-> IF float THEN h.countFloat ELSE h.count,
       zeroCount |-> IF float THEN h.zeroFloat ELSE h.zero,
       threshold |-> h.threshold,
       positive  |-> Side(h.positive),
       negative  |-> Side(h.negative)]

-----------------------------------------------------------------------------
(* The bucket iterators of the Prometheus library.                         *)

getBound(index) == 2 ^ (index + 4)

\* The indexes of the buckets that the spans describe: an offset counts from the
\* end of the span before, that of the first span from 0.
Indexes(spans) ==
  LET start[j \in DOMAIN spans] ==
        spans[j].offset + (IF j = 1 THEN 0 ELSE start[j - 1] + spans[j - 1].length)
  IN  FlattenSeq([j \in DOMAIN spans |->
                   [i \in 1 .. spans[j].length |-> start[j] + i - 1]])

\* Deltas add up to counts, a float histogram has the counts themselves.
Counts(h, buckets) ==
  LET count[i \in DOMAIN buckets] ==
        buckets[i] + (IF h.float \/ i = 1 THEN 0 ELSE count[i - 1])
  IN  count

\* The buckets of a side, from zero outwards.
PositiveBucket(index, count) ==
  [lower |-> getBound(index - 1), upper |-> getBound(index),
   lowerInclusive |-> FALSE, upperInclusive |-> TRUE, count |-> count]

NegativeBucket(index, count) ==
  [lower |-> -getBound(index), upper |-> -getBound(index - 1),
   lowerInclusive |-> TRUE, upperInclusive |-> FALSE, count |-> count]

Iterate(h, side, Bucket(_, _)) ==
  LET indexes == Indexes(side.spans)
      counts  == Counts(h, side.buckets)
  IN  [i \in DOMAIN indexes |-> Bucket(indexes[i], counts[i])]

PositiveBuckets(h) == Iterate(h, h.positive, PositiveBucket)
NegativeBuckets(h) == Iterate(h, h.negative, NegativeBucket)

ZeroBucket(h) ==
  [lower |-> -h.threshold, upper |-> h.threshold,
   lowerInclusive |-> TRUE, upperInclusive |-> TRUE, count |-> h.zeroCount]

-----------------------------------------------------------------------------
(* The buckets the API shows.                                              *)

\* 0 (], 1 [), 2 (), 3 [].
makeBucket(bucket) ==
  [boundaries |-> IF bucket.lowerInclusive
                    THEN IF bucket.upperInclusive THEN 3 ELSE 1
                    ELSE IF bucket.upperInclusive THEN 0 ELSE 2,
   lower |-> bucket.lower, upper |-> bucket.upper, count |-> bucket.count]

Occupied(buckets) ==
  FlattenSeq([i \in DOMAIN buckets |->
               IF buckets[i].count # 0 THEN <<buckets[i]>> ELSE <<>>])

Mapped(Op(_), s) == [i \in DOMAIN s |-> Op(s[i])]

\* Mutated form: the negative buckets are listed as the iterator yields them.
APIBucketsOutwards(h) ==
  Mapped(makeBucket,
         Occupied(NegativeBuckets(h) \o <<ZeroBucket(h)>> \o PositiveBuckets(h)))

\* In ascending order, without the empty ones.  (GetAPIFloatBuckets is the same
\* for float histograms.)
GetAPIBuckets(h) ==
  Mapped(makeBucket,
         Occupied(Reverse(NegativeBuckets(h)) \o <<ZeroBucket(h)>> \o PositiveBuckets(h)))

\* x lies in the bucket, by its `boundaries'.
Within(x, bucket) ==
  /\ bucket.lower <= x /\ x <= bucket.upper
  /\ x = bucket.lower => bucket.boundaries \in {1, 3}
  /\ x = bucket.upper => bucket.boundaries \in {0, 3}

\* The buckets are in ascending order, and each of the observations, of which
\* there may be several with one value, is counted in one of them and in no other.
CountsObservations(buckets, observed) ==
  /\ \A i, j \in DOMAIN buckets : i < j => buckets[i].upper <= buckets[j].lower
  /\ \A k \in DOMAIN observed : \E i \in DOMAIN buckets : Within(observed[k], buckets[i])
  /\ \A i \in DOMAIN buckets :
       buckets[i].count = Cardinality({k \in DOMAIN observed : Within(observed[k], buckets[i])})

=============================================================================
