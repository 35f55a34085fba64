---------------------------- MODULE RequestStats ----------------------------
(***************************************************************************)
(* statsCollector of src/server/stats.go and the counters of               *)
(* metricsMiddleware: how many requests there were, were in the last 24    *)
(* hours, and are. A bucket counts the requests of an hour and is used     *)
(* again 24 hours later.                                                   *)
(***************************************************************************)
EXTENDS Requests, Sequences, FiniteSetsExt

CONSTANT Slots                     \* the buckets; 24 in the code. A tick is an
                                   \* hour for this module

ASSUME SlotsAssumption == Slots \in Nat \ {0}

VARIABLES total, active,
          buckets, bucketHour,
          gauge, finished,         \* http_active_requests, http_requests_total
          starts,                  \* history: the hour of each request counted,
          panics                   \* and how many panicked

statsVars == <<total, active, buckets, bucketHour, gauge, finished, starts, panics>>

Idx == 0..(Slots - 1)

StatsInit ==
  /\ total = 0 /\ active = 0 /\ gauge = 0 /\ finished = 0
  /\ buckets = [i \in Idx |-> 0] /\ bucketHour = [i \in Idx |-> 0]
  /\ starts = <<>> /\ panics = 0

\* begin: the two atomic counters, and the hour of the request, ...
Begin(r) ==
  /\ At(r, "begin")
  /\ total' = total + 1 /\ active' = active + 1
  /\ req' = [req EXCEPT ![r].pc = "bucket", ![r].at = now]
  /\ UNCHANGED <<buckets, bucketHour, gauge, finished, starts, panics>>

\* Mutant: the bucket of an hour a day ago is not emptied.
BucketOnTop(r) ==
  /\ At(r, "bucket")
  /\ LET i == req[r].at % Slots
     IN  /\ buckets' = [buckets EXCEPT ![i] = @ + 1]
         /\ bucketHour' = [bucketHour EXCEPT ![i] = req[r].at]
  /\ starts' = Append(starts, req[r].at)
  /\ gauge' = gauge + 1
  /\ Go(r, "handler")
  /\ UNCHANGED <<total, active, finished, panics>>

\* ... then, under the mutex, the bucket of that hour; and the gauge.
Bucket(r) ==
  /\ At(r, "bucket")
  /\ LET i == req[r].at % Slots
     IN  /\ buckets' = [buckets EXCEPT ![i] = IF bucketHour[i] = req[r].at THEN @ + 1 ELSE 1]
         /\ bucketHour' = [bucketHour EXCEPT ![i] = req[r].at]
  /\ starts' = Append(starts, req[r].at)
  /\ gauge' = gauge + 1
  /\ Go(r, "handler")
  /\ UNCHANGED <<total, active, finished, panics>>

\* Mutant: a panic leaves the gauges as they are.
PanicLeaks(r) ==
  /\ At(r, "handler") /\ req[r].kind = "page"
  /\ panics' = panics + 1
  /\ Answer(r)
  /\ UNCHANGED <<total, active, buckets, bucketHour, gauge, finished, starts>>

\* A handler that panics: the deferred calls run, the counter is left out, and
\* Recoverer, outside, answers.
Panic(r) ==
  /\ At(r, "handler") /\ req[r].kind = "page"
  /\ panics' = panics + 1
  /\ active' = active - 1 /\ gauge' = gauge - 1
  /\ Answer(r)
  /\ UNCHANGED <<total, buckets, bucketHour, finished, starts>>

\* The way back through metricsMiddleware.
Finish(r) ==
  /\ active' = active - 1 /\ gauge' = gauge - 1
  /\ finished' = finished + 1
  /\ Answer(r)
  /\ UNCHANGED <<total, buckets, bucketHour, starts, panics>>

\* snapshot: the total first, ...
SnapTotal(r) ==
  /\ At(r, "handler") /\ req[r].kind = "health"
  /\ req' = [req EXCEPT ![r].pc = "sum", ![r].at = now]
  /\ UNCHANGED statsVars

\* ... then the buckets of the last hours, under the mutex.
InBucket(i)   == buckets[i]
Last24h(hour) == MapThenSumSet(InBucket, {i \in Idx : hour - bucketHour[i] < Slots})

SnapSum(r) == At(r, "sum") /\ Finish(r)

StatsRestart ==
  /\ total' = 0 /\ active' = 0 /\ gauge' = 0 /\ finished' = 0
  /\ buckets' = [i \in Idx |-> 0] /\ bucketHour' = [i \in Idx |-> 0]
  /\ starts' = <<>> /\ panics' = 0

-----------------------------------------------------------------------------
InHandler == {r \in Conns : req[r].pc \in {"handler", "sum", "refresh", "delete"}}
InBegin   == {r \in Conns : At(r, "bucket")}

\* The counters agree: a request that is at work, ended, or panicked is counted
\* once each by the totals, and none of those that ended is still active.
CountsHold ==
  /\ active = Cardinality(InHandler) + Cardinality(InBegin)
  /\ gauge = Cardinality(InHandler)
  /\ total = finished + panics + active
  /\ Len(starts) + Cardinality(InBegin) = total

\* The health page's "requests_24h" is the number of requests counted in the
\* last 24 hours, though the buckets go round, unless the hour changes while it
\* is made; and never more than the requests there were.
DayHolds ==
  \A r \in Conns : At(r, "sum") =>
    /\ now = req[r].at => Last24h(now) = Cardinality({j \in DOMAIN starts : req[r].at - starts[j] < Slots})
    /\ Last24h(req[r].at) <= total
=============================================================================
