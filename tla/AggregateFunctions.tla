------------------------- MODULE AggregateFunctions -------------------------
(***************************************************************************)
(* What one bucket of an nQL aggregation computes (core/nql_executor.c):   *)
(* update_bucket_with_event folds each event into the accumulators of the  *)
(* bucket, create_agg_result_event reads the metrics of the query off      *)
(* them, and window_flush_cb empties them for the next tumbling window.    *)
(*                                                                         *)
(* The bucket has one set of accumulators, shared by all the functions of  *)
(* the query: which of them may be combined is the question asked here.    *)
(* Which events reach which bucket is the matter of NqlAggregate.  Values  *)
(* are small integers, so additions and the comparison of distinct values  *)
(* are exact; a metric is a fraction.  sum_squares, which nothing reads,   *)
(* is left out.                                                            *)
(***************************************************************************)
EXTENDS Integers, FiniteSets, SequencesExt

CONSTANTS
    FunctionTypes,  \* the functions a query may use
    Fields,         \* the fields of an event that functions may name
    Numbers,        \* the numbers a field may hold
    Others,         \* what else a field may be: a text, or missing
    Percents,       \* the second argument of percentile
    Infinity,       \* INFINITY: above every number
    MaxFunctions,   \* bound: the functions of the query
    MaxInBucket     \* bound: the events between two resets

ASSUME FunctionsAssumption ==
    /\ FunctionTypes \subseteq
          {"count", "sum", "avg", "min", "max", "percentile", "distinct"}
    /\ Numbers \subseteq Nat
    /\ Percents \subseteq 0..100
    /\ Infinity \in Nat /\ \A n \in Numbers : n < Infinity
    /\ MaxFunctions \in Nat /\ MaxInBucket \in Nat

VARIABLES
    funcs,   \* the functions of the query
    bucket,  \* the accumulators of the bucket
    seen     \* history: the events since the accumulators were last empty

bucketVars == <<funcs, bucket, seen>>

(* nql_agg_func_t, as parse_agg_function makes it: count() has no field,   *)
(* and only percentile() has a second argument.                            *)
Func ==
    {f \in [type : FunctionTypes, field : Fields \cup {""}, p : Percents \cup {0}] :
        /\ f.type = "count" <=> f.field = ""
        /\ IF f.type = "percentile" THEN f.p \in Percents ELSE f.p = 0}

EventData == [Fields -> Numbers \cup Others]

Accumulators ==
    [count : Nat, sum : Nat,
     min : Numbers \cup {0, Infinity}, max : Numbers \cup {0, -Infinity},
     percentile_values : Seq(Numbers \cup {0}),
     distinct_values : Seq(Numbers \cup {0})]

----------------------------------------------------------------------------
(* The accumulators of a new bucket.                                       *)
Empty == [count |-> 0, sum |-> 0, min |-> Infinity, max |-> -Infinity,
          percentile_values |-> <<>>, distinct_values |-> <<>>]

BucketInit ==
    /\ funcs \in BoundedSeq(Func, MaxFunctions) \ {<<>>}
    /\ bucket = Empty
    /\ seen = <<>>

(* get_numeric_value: what is not a number counts as zero.                 *)
NumericValue(v) == IF v \in Numbers THEN v ELSE 0

Least(a, b) == IF a < b THEN a ELSE b
Greatest(a, b) == IF a > b THEN a ELSE b

(* What one function of the query does to the accumulators b.              *)
Apply(b, f, data) ==
    LET v == NumericValue(data[f.field])
    IN  CASE f.type = "count" -> b
          [] f.type \in {"sum", "avg"} ->
                [b EXCEPT !.sum = @ + v, !.min = Least(@, v), !.max = Greatest(@, v)]
          [] f.type = "min" -> [b EXCEPT !.min = Least(@, v)]
          [] f.type = "max" -> [b EXCEPT !.max = Greatest(@, v)]
          [] f.type = "percentile" -> [b EXCEPT !.percentile_values = Append(@, v)]
          [] f.type = "distinct" ->
                [b EXCEPT !.distinct_values = IF Contains(@, v) THEN @ ELSE Append(@, v)]

(* The functions fs of the query in turn, on accumulators that have        *)
(* counted the event.                                                      *)
Applied(b, fs, data) ==
    LET after[n \in 0..Len(fs)] ==
            IF n = 0 THEN [b EXCEPT !.count = @ + 1]
            ELSE Apply(after[n - 1], fs[n], data)
    IN  after[Len(fs)]

(* update_bucket_with_event                                                *)
Update(data) ==
    /\ Len(seen) < MaxInBucket
    /\ bucket' = Applied(bucket, funcs, data)
    /\ seen' = Append(seen, data)
    /\ UNCHANGED funcs

ResetKeepingPercentiles ==
    /\ bucket' = [Empty EXCEPT !.percentile_values = bucket.percentile_values]
    /\ seen' = <<>>
    /\ UNCHANGED funcs
(* The reset of a tumbling bucket whose window has ended (window_flush_cb). *)
Reset ==
    /\ bucket' = Empty
    /\ seen' = <<>>
    /\ UNCHANGED funcs

BucketNext == (\E data \in EventData : Update(data)) \/ Reset

BucketSpec == BucketInit /\ [][BucketNext]_bucketVars

----------------------------------------------------------------------------
(* The values that a sort puts before the i-th.                            *)
Before(values, i) ==
    {j \in DOMAIN values : values[j] < values[i] \/ (values[j] = values[i] /\ j < i)}

(* The value at index k, from zero, of the sorted array.                   *)
SortedAt(values, k) ==
    values[CHOOSE i \in DOMAIN values : Cardinality(Before(values, i)) = k]

(* The percentile of create_agg_result_event: sort, then pick.             *)
Percentile(values, p) ==
    LET size == Len(values)
        idx == (p * size) \div 100
    IN  SortedAt(values, IF idx >= size THEN size - 1 ELSE idx)

(* The metric a result event carries for function f.                       *)
Metric(f) ==
    CASE f.type = "count"      -> <<bucket.count, 1>>
      [] f.type = "sum"        -> <<bucket.sum, 1>>
      [] f.type = "avg"        -> <<bucket.sum, bucket.count>>
      [] f.type = "min"        -> <<bucket.min, 1>>
      [] f.type = "max"        -> <<bucket.max, 1>>
      [] f.type = "percentile" -> <<Percentile(bucket.percentile_values, f.p), 1>>
      [] f.type = "distinct"   -> <<Len(bucket.distinct_values), 1>>

----------------------------------------------------------------------------
(* Reference: the meaning of each function on a sequence of values.        *)
SumOf(values) ==
    LET sum[n \in 0..Len(values)] == IF n = 0 THEN 0 ELSE sum[n - 1] + values[n]
    IN  sum[Len(values)]

HowMany(values, Test(_)) == Cardinality({i \in DOMAIN values : Test(values[i])})

IsMetric(f, m, values) ==
    LET v == m[1]
        n == Len(values)
    IN  CASE f.type = "count" -> v = Len(seen)
          [] f.type = "sum" -> v = SumOf(values)
          [] f.type = "avg" -> v * n = SumOf(values) * m[2]
          [] f.type = "min" -> Contains(values, v) /\ HowMany(values, LAMBDA x : x < v) = 0
          [] f.type = "max" -> Contains(values, v) /\ HowMany(values, LAMBDA x : x > v) = 0
          [] f.type = "percentile" ->
                /\ 100 * HowMany(values, LAMBDA x : x <= v) >= f.p * n
                /\ 100 * HowMany(values, LAMBDA x : x >= v) >= (100 - f.p) * n
                /\ Contains(values, v)
          [] f.type = "distinct" -> v = Cardinality(ToSet(values))

(* What the bucket has been given for a field, and the numbers among it.   *)
RawValues(f) == IF f.type = "count" THEN seen
                ELSE [i \in DOMAIN seen |-> seen[i][f.field]]

Given(f) == [i \in DOMAIN seen |-> IF f.type = "count" THEN 0
                                   ELSE NumericValue(seen[i][f.field])]

NumbersGiven(f) == IF f.type = "count" THEN Given(f)
                   ELSE SelectSeq(RawValues(f), LAMBDA v : v \in Numbers)

(* The accumulator a function reads and those it feeds.                    *)
Reads(f) == IF f.type = "avg" THEN "sum" ELSE f.type

Feeds(f) == IF f.type \in {"sum", "avg"} THEN {"sum", "min", "max"} ELSE {f.type}

(* No other function of the query disturbs the i-th: those that feed what  *)
(* it reads are on the same field, and nothing is added to a sum twice.    *)
Undisturbed(i) ==
    \A j \in DOMAIN funcs \ {i} :
        (funcs[i].type # "count" /\ Reads(funcs[i]) \in Feeds(funcs[j])) =>
            /\ funcs[j].field = funcs[i].field
            /\ Reads(funcs[i]) # "sum"

(* The types of the accumulators, which have counted what has been seen.   *)
BucketTypeOK ==
    /\ funcs \in Seq(Func)
    /\ seen \in Seq(EventData)
    /\ bucket \in Accumulators
    /\ bucket.count = Len(seen)

(* Whatever the query, and however often the window has been reset, the    *)
(* metric of a function that no other function of the query disturbs is    *)
(* that function of the events of the window, with zero for what is not a  *)
(* number.  Several percentiles of a field share one array, in which each  *)
(* value then appears several times, and are still quantiles.              *)
UndisturbedExact ==
    seen # <<>> =>
        \A i \in DOMAIN funcs :
            Undisturbed(i) => IsMetric(funcs[i], Metric(funcs[i]), Given(funcs[i]))

(* The metrics of every query are exact (docs/nql-spec.md: sum(field) is   *)
(* the "Sum of numeric field values").                                     *)
MetricsExact ==
    seen # <<>> =>
        \A i \in DOMAIN funcs : IsMetric(funcs[i], Metric(funcs[i]), Given(funcs[i]))

(* An aggregate is taken over numbers only (docs/nql-spec.md: avg(field)   *)
(* is the "Average of numeric field values").                              *)
NumbersOnly ==
    \A i \in DOMAIN funcs :
        NumbersGiven(funcs[i]) # <<>> =>
            IsMetric(funcs[i], Metric(funcs[i]), NumbersGiven(funcs[i]))

(* distinct(field) is the "Count of distinct values" (docs/nql-spec.md).   *)
DistinctCounted ==
    seen # <<>> =>
        \A i \in DOMAIN funcs :
            funcs[i].type = "distinct" =>
                IsMetric(funcs[i], Metric(funcs[i]), RawValues(funcs[i]))
=============================================================================
