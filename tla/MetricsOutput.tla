---------------------------- MODULE MetricsOutput ----------------------------
(***************************************************************************)
(* The Prometheus metrics output (output/metrics_output.c): the counters,  *)
(* the pending aggregation metrics and the file they are flushed to.       *)
(*                                                                         *)
(* The file is a sequence of samples, each with its series and its value;  *)
(* HELP and TYPE lines, the byte counter and the other formats are left    *)
(* out.  A flush rewinds the file and writes over what is there, so only   *)
(* the number of lines, not their length, decides what survives of the     *)
(* old ones.                                                               *)
(***************************************************************************)
EXTENDS Integers, Sequences

CONSTANTS
    Metrics,        \* the series of aggregation results: metric and labels
    Values,         \* their values
    FlushIntervals, \* the flush intervals a caller may set
    MaxClock,       \* bound: the clock
    MaxMetricEvents \* bound: events given to the output

ASSUME MetricsAssumption ==
    /\ Values \subseteq Nat
    /\ FlushIntervals \subseteq Nat \ {0} /\ FlushIntervals # {}
    /\ MaxClock \in Nat
    /\ MaxMetricEvents \in Nat

VARIABLES
    clock,                \* time(NULL)
    open,                 \* the output has not been freed
    last_flush,
    flush_interval,
    events_total,
    events_by_type,
    correlations_found,
    aggregation_metrics,  \* pending aggregation metrics, newest first
    samples,              \* the samples in the file
    report,               \* history: the samples of the last flush
    recorded,             \* history: aggregation metrics recorded
    exported              \* history: aggregation metrics flushed

metricsVars == <<clock, open, last_flush, flush_interval, events_total,
                 events_by_type, correlations_found, aggregation_metrics, samples,
                 report, recorded, exported>>

counters == <<events_total, events_by_type, correlations_found>>

Types == {"LOG", "NETWORK", "CORRELATION", "ERROR"}

Gauge == [series : Metrics, value : Nat]

(* type_names, indexed by event type.                                      *)
TypeName ==
    [LOG |-> "unknown", NETWORK |-> "log", CORRELATION |-> "network",
     ERROR |-> "correlation"]

(* What the enumeration of event types calls them.                         *)
NameOf ==
    [LOG |-> "log", NETWORK |-> "network", CORRELATION |-> "correlation",
     ERROR |-> "error"]

----------------------------------------------------------------------------
(* nblex_metrics_output_new: an empty file and zero counters, for each     *)
(* choice of interval (the code's own is 60 seconds).                      *)
MetricsInit ==
    /\ clock = 0
    /\ open = TRUE
    /\ last_flush = 0
    /\ flush_interval \in FlushIntervals
    /\ events_total = 0
    /\ events_by_type = [t \in Types |-> 0]
    /\ correlations_found = 0
    /\ aggregation_metrics = <<>>
    /\ samples = <<>>
    /\ report = <<>>
    /\ recorded = 0
    /\ exported = 0

(* The samples nblex_metrics_output_flush writes: a line for each type     *)
(* only once it has been seen, and the pending aggregation metrics.        *)
TypeSample(t, by_type) ==
    IF by_type[t] > 0
    THEN <<[series |-> TypeName[t], value |-> by_type[t]]>>
    ELSE <<>>

Samples(total, by_type, found, pending) ==
    <<[series |-> "events_total", value |-> total]>>
    \o TypeSample("LOG", by_type) \o TypeSample("NETWORK", by_type)
    \o TypeSample("CORRELATION", by_type) \o TypeSample("ERROR", by_type)
    \o <<[series |-> "correlations_found", value |-> found]>>
    \o pending

(* Writing from the start of a file that is not truncated.                 *)
OverwriteAppending(old, new) == old \o new
Overwrite(old, new) == new \o SubSeq(old, Len(new) + 1, Len(old))

(* nblex_metrics_output_flush, on the counters as they have become.        *)
FlushNow(total, by_type, found, pending) ==
    LET lines == Samples(total, by_type, found, pending)
    IN  /\ report' = lines
        /\ samples' = Overwrite(samples, lines)
        /\ last_flush' = clock
        /\ aggregation_metrics' = <<>>
        /\ exported' = exported + Len(pending)

(* nblex_metrics_output_write of an event, with the aggregation metrics it *)
(* carries, if any; it flushes when the interval has passed.               *)
Record(gauges) == gauges \o aggregation_metrics

MetricsWrite(t, gauges) ==
    LET by_type == [events_by_type EXCEPT ![t] = @ + 1]
        found == IF t = "CORRELATION" THEN correlations_found + 1
                 ELSE correlations_found
        pending == Record(gauges)
    IN  /\ open
        /\ events_total < MaxMetricEvents
        /\ events_total' = events_total + 1
        /\ events_by_type' = by_type
        /\ correlations_found' = found
        /\ recorded' = recorded + Len(gauges)
        /\ IF clock - last_flush >= flush_interval
           THEN FlushNow(events_total + 1, by_type, found, pending)
           ELSE /\ aggregation_metrics' = pending
                /\ UNCHANGED <<last_flush, samples, report, exported>>
        /\ UNCHANGED <<clock, open, flush_interval>>

(* A flush by the caller.                                                  *)
Flush ==
    /\ open
    /\ FlushNow(events_total, events_by_type, correlations_found, aggregation_metrics)
    /\ UNCHANGED <<clock, open, flush_interval, counters, recorded>>

(* nblex_metrics_output_set_flush_interval *)
SetFlushInterval(seconds) ==
    /\ open
    /\ flush_interval' = seconds
    /\ UNCHANGED <<clock, open, last_flush, counters, aggregation_metrics,
                   samples, report, recorded, exported>>

(* nblex_metrics_output_free flushes for the last time.                    *)
MetricsFreeWithoutFlush ==
    /\ open
    /\ open' = FALSE
    /\ aggregation_metrics' = <<>>
    /\ UNCHANGED <<clock, last_flush, flush_interval, counters, samples, report,
                   recorded, exported>>
MetricsFree ==
    /\ open
    /\ open' = FALSE
    /\ FlushNow(events_total, events_by_type, correlations_found, aggregation_metrics)
    /\ UNCHANGED <<clock, flush_interval, counters, recorded>>

(* The clock (external: time).                                             *)
MetricsTick ==
    /\ clock < MaxClock
    /\ clock' = clock + 1
    /\ UNCHANGED <<open, last_flush, flush_interval, counters,
                   aggregation_metrics, samples, report, recorded, exported>>

MetricsNext ==
    \/ \E t \in Types : MetricsWrite(t, <<>>)
    \/ \E m \in Metrics, v \in Values :
           MetricsWrite("LOG", <<[series |-> m, value |-> v]>>)
    \/ Flush
    \/ \E seconds \in FlushIntervals : SetFlushInterval(seconds)
    \/ MetricsFree
    \/ MetricsTick

MetricsSpec == MetricsInit /\ [][MetricsNext]_metricsVars
----------------------------------------------------------------------------
(* The types of the output's state: counters that are each other's sums.   *)
MetricsTypeOK ==
    /\ clock \in Nat
    /\ open \in BOOLEAN
    /\ last_flush \in 0..clock
    /\ flush_interval \in FlushIntervals
    /\ events_by_type \in [Types -> Nat]
    /\ events_total = events_by_type["LOG"] + events_by_type["NETWORK"]
                      + events_by_type["CORRELATION"] + events_by_type["ERROR"]
    /\ correlations_found = events_by_type["CORRELATION"]
    /\ aggregation_metrics \in Seq(Gauge)

(* The file opens with the report of the last flush, whatever longer       *)
(* report was there before.                                                *)
ReportOnTop == SubSeq(samples, 1, Len(report)) = report

(* Every aggregation metric is exported once: it is pending or it has been *)
(* flushed, and nothing is left pending when the output is freed.          *)
GaugesExported ==
    /\ recorded = exported + Len(aggregation_metrics)
    /\ ~open => recorded = exported

(* The file "should only have the latest metrics".                         *)
OnlyLatest == samples = report

(* The sample named after an event type counts the events of that type.    *)
TypesNamed ==
    \A t \in Types : \A i \in 1..Len(report) :
        report[i].series = NameOf[t] => report[i].value <= events_by_type[t]
=============================================================================
