------------------------------ MODULE Traffic -------------------------------
(***************************************************************************)
(* The traffic graph: the byte counters of one attempt as they are stored  *)
(* (record_sample in store.py), and the series that is drawn from them     *)
(* (services/traffic.py).  The two directions are computed alike; one is   *)
(* modelled.  A fraction is kept as what is divided and what divides it: a *)
(* point stands at t/count and shows bytes/seconds.                        *)
(***************************************************************************)
EXTENDS Integers, Sequences, FiniteSets, FiniteSetsExt, SequencesExt

CONSTANTS
  MaxReadings,   \* bound: readings that OpenVPN reports
  Ticks,         \* seconds between two of them, by the wall clock
  MaxBytes,      \* bound: bytes moved between two of them
  Cap,           \* MAX_SAMPLES_PER_SESSION
  Points         \* sizes of the series that are asked for

VARIABLES
  samples,   \* table traffic_samples: [at, bytes, moved], moved being history
  counter,   \* OpenVPN's counter, which a restart sets back to zero
  moved,     \* bytes the attempt has really moved (history)
  readings   \* how many readings there were

trafficVars == <<samples, counter, moved, readings>>

\* record_sample(): one row more, and the oldest beyond the cap go.
RecordSample(table, sample) ==
  LET all == Append(table, sample) IN SubSeq(all, Max({1, Len(all) - Cap + 1}), Len(all))

\* A reading arrives.  Meanwhile the clock went on, stood still or was set back,
\* bytes were moved, and OpenVPN may have restarted and counted only the latest.
Reading ==
  /\ readings < MaxReadings
  /\ readings' = readings + 1
  /\ \E seconds \in Ticks, bytes \in 0 .. MaxBytes :
       /\ counter' \in {counter + bytes} \union 0 .. bytes
       /\ moved' = moved + bytes
       /\ samples' = RecordSample(samples,
            [at |-> seconds + IF samples = <<>> THEN 0 ELSE Last(samples).at,
             bytes |-> counter', moved |-> moved'])

-----------------------------------------------------------------------------
(* The series.                                                             *)

\* Deliberate fault: a counter that went backwards counts all the same.
RateUnsigned(from, to) ==
  LET change == to.bytes - from.bytes
  IN  [t |-> to.at, count |-> 1, seconds |-> to.at - from.at,
       bytes |-> IF change < 0 THEN -change ELSE change]

\* A counter that went backwards is no traffic.
Rate(from, to) ==
  [t |-> to.at, count |-> 1, seconds |-> to.at - from.at,
   bytes |-> Max({0, to.bytes - from.bytes})]

\* rates(): one for each two readings that follow each other, if the clock went on.
Rates(table) ==
  LET rates[i \in 0 .. Len(table)] ==
        IF i = 0 THEN <<>>
        ELSE IF i > 1 /\ table[i].at > table[i - 1].at
          THEN Append(rates[i - 1], Rate(table[i - 1], table[i]))
        ELSE rates[i - 1]
  IN  rates[Len(table)]

\* The buckets of downsample(): each the points whose mean it shows.
Buckets(points, limit) ==
  IF limit < 1 \/ Len(points) =< limit THEN [i \in DOMAIN points |-> <<points[i]>>]
  ELSE LET from(b) == ((b - 1) * Len(points)) \div limit + 1
           to(b)   == IF b < limit THEN (b * Len(points)) \div limit ELSE Len(points)
       IN [b \in 1 .. limit |-> SubSeq(points, from(b), to(b))]

\* The times and the rates of two points, added up.
Together(p, q) ==
  [t |-> p.t + q.t, count |-> p.count + 1,
   bytes |-> p.bytes * q.seconds + q.bytes * p.seconds, seconds |-> p.seconds * q.seconds]

Nothing == [t |-> 0, count |-> 0, bytes |-> 0, seconds |-> 1]

\* The mean of the times, and that of the rates: one point for a bucket.
Mean(points) ==
  LET sum[i \in 0 .. Len(points)] == IF i = 0 THEN Nothing ELSE Together(sum[i - 1], points[i])
      all == sum[Len(points)]
  IN  [all EXCEPT !.seconds = @ * all.count]

Downsample(points, limit) ==
  LET buckets == Buckets(points, limit) IN [b \in DOMAIN buckets |-> Mean(buckets[b])]

\* One rate is not above another.
AtMost(p, q) == p.bytes * q.seconds =< q.bytes * p.seconds

\* series(): the total is the last reading, and the peak is that of all points.
Series(table, limit) ==
  LET full == Rates(table)
  IN [points |-> Downsample(full, limit),
      total  |-> IF table = <<>> THEN 0 ELSE Last(table).bytes,
      peak   |-> {p \in ToSet(full) : \A q \in ToSet(full) : AtMost(q, p)}]

-----------------------------------------------------------------------------

TrafficInit == samples = <<>> /\ counter = 0 /\ moved = 0 /\ readings = 0

TrafficNext == Reading

Total(numbers) ==
  LET sum[i \in 0 .. Len(numbers)] == IF i = 0 THEN 0 ELSE sum[i - 1] + numbers[i]
  IN  sum[Len(numbers)]

Bytes(points)    == Total([i \in DOMAIN points |-> points[i].bytes])
Duration(points) == Total([i \in DOMAIN points |-> points[i].seconds])

\* What is under a point, drawn over all of its bucket's time, is the bucket's bytes.
AreaIsBytes(mean, bucket) == mean.bytes * Duration(bucket) = Bytes(bucket) * mean.seconds

\* The points were taken at equal intervals.
Even(bucket) == \A i, j \in DOMAIN bucket : bucket[i].seconds = bucket[j].seconds

\* The graph never shows more than was moved, whatever the clock and the counter
\* did.  No rate is negative or over no time; what the rates cover was moved
\* between their ends -- all of it, if the clock went on and the counter too.
\* Every rate is in one bucket, none is empty, and there are no more than asked
\* for.  The point drawn for a bucket is never above the peak, and what is under
\* it is what the bucket's intervals moved, if they are equal.
SeriesFaithful ==
  \A limit \in Points :
    LET full    == Rates(samples)
        series  == Series(samples, limit)
        drawn   == series.points
        buckets == Buckets(full, limit)
        really  == IF samples = <<>> THEN 0 ELSE Last(samples).moved - Head(samples).moved
        steady  == /\ Len(full) = Len(samples) - 1
                   /\ \A i \in DOMAIN samples : samples[i].bytes = samples[i].moved
    IN /\ \A i \in DOMAIN full : full[i].seconds > 0 /\ full[i].bytes >= 0
       /\ Bytes(full) =< really /\ series.total =< moved
       /\ steady => Bytes(full) = really
       /\ FlattenSeq(buckets) = full
       /\ \A b \in DOMAIN buckets : buckets[b] # <<>>
       /\ limit > 0 => Len(drawn) =< limit
       /\ full # <<>> => series.peak # {}
       /\ \A b \in DOMAIN drawn :
            /\ drawn[b].seconds > 0 /\ drawn[b].bytes >= 0
            /\ \A p \in series.peak : AtMost(drawn[b], p)
            /\ Even(buckets[b]) => AreaIsBytes(drawn[b], buckets[b])
=============================================================================
