---------------------------- MODULE NqlAggregate ----------------------------
(***************************************************************************)
(* One aggregation query of the nQL executor (core/nql_executor.c): its    *)
(* execution context, its buckets and its window timer.                    *)
(*                                                                         *)
(* The caller hands each event to nql_execute; execute_aggregate puts it   *)
(* in the bucket, or buckets, of its group and window.  The window timer   *)
(* reports and retires the buckets whose window has passed.  Both run to   *)
(* completion on the loop, so each is one action.                          *)
(*                                                                         *)
(* A bucket keeps the set of the events it has aggregated: count and the   *)
(* other running aggregates are functions of that set.  The bucket list is *)
(* a set of records numbered in order of creation; a search of the list,   *)
(* which starts at the newest bucket, is the choice of the largest number. *)
(* Result events fed back into the same query by the caller's own event    *)
(* handler, and failing allocations, are not modelled.                     *)
(***************************************************************************)
EXTENDS Integers, FiniteSets

CONSTANTS
    WindowTypes,  \* the kinds of window the query may have
    Keys,         \* the group keys of events (one, if there is no GROUP BY)
    Grouped,      \* whether the query has a GROUP BY: keys are then allocated
    Size,         \* window.size_ms; not zero: the code divides by it
    Slide,        \* window.slide_ms, 0 if not given
    Timeout,      \* window.timeout_ms
    MinInterval,  \* the 100 ms below which session checks do not go
    MaxWindows,   \* MAX_SLIDING_WINDOWS
    Forever,      \* UINT64_MAX, the end of a window that does not end
    StartTime,    \* the clock when the query is first executed
    Lag,          \* bound: age of an event when the query is executed on it
    MaxTime,      \* bound: the clock
    MaxEvents     \* bound: the events given to the query

ASSUME ConstantsAssumption ==
    /\ WindowTypes \subseteq {"none", "tumbling", "sliding", "session"}
    /\ Grouped \in BOOLEAN
    /\ Size \in Nat \ {0}
    /\ Slide \in Nat
    /\ Timeout \in Nat
    /\ MinInterval \in Nat \ {0}
    /\ MaxWindows \in Nat \ {0}
    /\ Forever \in Nat
    /\ StartTime \in Nat \ {0}
    /\ Lag \in Nat
    /\ MaxTime \in Nat
    /\ MaxEvents \in Nat

VARIABLES
    now,         \* nblex_timestamp_now()
    started,     \* world->started
    type,        \* window.type
    timer,       \* timer_active
    due,         \* when the window timer next fires
    buckets,     \* the bucket list
    created,     \* history: how many buckets have been created
    freed_keys,  \* the group-key arrays that have been freed
    \* History: the events aggregated and the buckets reported, each as it
    \* was when its result event was made.
    accepted, results

vars == <<now, started, type, timer, due, buckets, created, freed_keys,
          accepted, results>>

Event == [id : Nat, key : Keys, ts : Nat, live : BOOLEAN, lag : Nat]

Bucket == [id : Nat, key : Keys, keys : Nat, start : Nat, end : Nat,
           last : Nat, members : SUBSET Event]

----------------------------------------------------------------------------
Init ==
    /\ now = StartTime
    /\ started \in BOOLEAN
    /\ type \in WindowTypes
    /\ timer = FALSE
    /\ due = 0
    /\ buckets = {}
    /\ created = 0
    /\ freed_keys = {}
    /\ accepted = {}
    /\ results = {}

(* nblex_world_start, as far as the query can see it.                      *)
WorldStart ==
    /\ ~started
    /\ started' = TRUE
    /\ UNCHANGED <<now, type, timer, due, buckets, created, freed_keys,
                   accepted, results>>

(* window.slide_ms, which the parser sets for a sliding window only.       *)
slide_ms == IF type = "sliding" THEN Slide ELSE 0

(* The period of the window timer.                                         *)
Interval ==
    IF type = "session"
    THEN IF Timeout \div 2 < MinInterval THEN MinInterval ELSE Timeout \div 2
    ELSE IF slide_ms > 0 THEN slide_ms ELSE Size

(* get_agg_state, for a new context, and ensure_agg_timer_initialized on   *)
(* each later event: the timer starts with the first event that finds the  *)
(* world started.                                                          *)
EnsureTimerOnlyWhenNew ==
    IF type # "none" /\ ~timer /\ started /\ accepted = {}
    THEN timer' = TRUE /\ due' = now + Interval
    ELSE UNCHANGED <<timer, due>>
EnsureTimer ==
    IF type # "none" /\ ~timer /\ started
    THEN timer' = TRUE /\ due' = now + Interval
    ELSE UNCHANGED <<timer, due>>

(* find_bucket_by_window, and the searches for the other window types.     *)
InWindow(e, start) == {b \in buckets : b.key = e.key /\ b.start = start}

(* The session that an event continues: one that it does not precede and   *)
(* whose last event is less than the timeout ago.                          *)
OpenSessions(e) ==
    {b \in buckets : /\ b.key = e.key
                     /\ e.ts >= b.last
                     /\ e.ts - b.last < Timeout}

Newest(S) == CHOOSE b \in S : \A c \in S : c.id <= b.id

(* create_bucket_with_window: the n-th bucket created for event e.  The    *)
(* bucket takes the event's group-key array, named after the event.        *)
CreateBucket(n, e, start, end) ==
    [id |-> created + n, key |-> e.key, keys |-> e.id, start |-> start,
     end |-> end, last |-> start, members |-> {}]

Aligned(t, step) == (t \div step) * step

SlidingStartsUnchecked(ts) ==
    LET slide == IF Slide > 0 THEN Slide ELSE Size
        earliest == Aligned(IF ts >= Size THEN ts - Size ELSE 0, slide)
        n == (Aligned(ts, slide) - earliest) \div slide + 1
        max_windows == IF n > MaxWindows THEN MaxWindows ELSE n
    IN  {earliest + i * slide : i \in 0 .. max_windows - 1}
(* The starts of the sliding windows an event is put in: from the earliest *)
(* in steps of the slide, while the window contains the event, and at most *)
(* max_windows of them.                                                    *)
SlidingStarts(ts) ==
    LET slide == IF Slide > 0 THEN Slide ELSE Size
        earliest == Aligned(IF ts >= Size THEN ts - Size ELSE 0, slide)
        n == (Aligned(ts, slide) - earliest) \div slide + 1
        max_windows == IF n > MaxWindows THEN MaxWindows ELSE n
    IN  {s \in {earliest + i * slide : i \in 0 .. max_windows - 1} :
            earliest + Size > ts /\ s <= ts}

(* get_or_create_buckets_for_event: the buckets, found or new, that take   *)
(* the event.  Windows are numbered, if new, in the order of their starts. *)
WindowBuckets(e, ends) ==
    LET starts  == DOMAIN ends
        missing == {s \in starts : InWindow(e, s) = {}}
    IN  {IF s \in missing
         THEN CreateBucket(Cardinality({m \in missing : m <= s}), e, s, ends[s])
         ELSE Newest(InWindow(e, s)) : s \in starts}

NoWindowBucketsAnew(e) == {CreateBucket(1, e, 0, Forever)}
NoWindowBuckets(e) == WindowBuckets(e, [s \in {0} |-> Forever])

TumblingBuckets(e) ==
    WindowBuckets(e, [s \in {Aligned(e.ts, Size)} |-> s + Size])

SlidingBuckets(e) ==
    WindowBuckets(e, [s \in SlidingStarts(e.ts) |-> s + Size])

SessionBuckets(e) ==
    IF OpenSessions(e) = {}
    THEN {CreateBucket(1, e, e.ts, Forever)}
    ELSE {Newest(OpenSessions(e))}

BucketsForEvent(e) ==
    CASE type = "none"     -> NoWindowBuckets(e)
      [] type = "tumbling" -> TumblingBuckets(e)
      [] type = "sliding"  -> SlidingBuckets(e)
      [] type = "session"  -> SessionBuckets(e)

(* update_bucket_with_event *)
UpdateBucket(b, e) ==
    [b EXCEPT !.members = @ \cup {e},
              !.last = IF type = "session" /\ e.ts > @ THEN e.ts ELSE @]

(* No bucket is left with freed group keys: what the code does with such a *)
(* bucket is undefined, and the model goes no further.                     *)
Defined == \A b \in buckets : b.keys \notin freed_keys

(* execute_aggregate of an event that passes the WHERE clause.  A group-key *)
(* array no new bucket takes is freed at once (not tracked).               *)
Execute(key, lag) ==
    /\ Defined
    /\ Cardinality(accepted) < MaxEvents
    /\ lag < now
    /\ EnsureTimer
    /\ LET e == [id |-> Cardinality(accepted) + 1, key |-> key,
                 ts |-> now - lag, live |-> started, lag |-> lag]
           taken == BucketsForEvent(e)
           updated == {UpdateBucket(b, e) : b \in taken}
       IN  /\ accepted' = accepted \cup {e}
           /\ buckets' = (buckets \ taken) \cup updated
           /\ created' = created + Cardinality(taken \ buckets)
           /\ results' = IF type = "none" THEN results \cup updated ELSE results
    /\ UNCHANGED <<now, started, type, freed_keys>>

(* window_flush_cb: which buckets are due, what a tumbling bucket becomes, *)
(* and which buckets are reported.                                         *)
ExpiredEarly(b) ==
    IF type = "session"
    THEN b.members # {} /\ now - b.last >= Interval
    ELSE b.end <= now + 1
Expired(b) ==
    IF type = "session"
    THEN b.members # {} /\ now - b.last >= Timeout
    ELSE b.end <= now

ResetBucket(b) ==
    LET start == b.start + ((now - b.start) \div Size) * Size
    IN  [b EXCEPT !.members = {}, !.start = start, !.end = start + Size]

RetireFreeing(expired) ==
    LET reported == {b \in expired : b.members # {}}
    IN  /\ buckets' = IF type = "tumbling"
                      THEN (buckets \ expired) \cup {ResetBucket(b) : b \in expired}
                      ELSE buckets \ expired
        /\ results' = results \cup reported
        /\ freed_keys' = IF Grouped THEN freed_keys \cup {b.keys : b \in expired}
                                    ELSE freed_keys
(* A session or sliding bucket is reported and removed.  A tumbling bucket *)
(* is reset, then reported, and stays for its next window.                 *)
RetireKeeping(expired) ==
    LET reported == {b \in expired : b.members # {}}
    IN  /\ results' = results \cup reported
        /\ UNCHANGED <<buckets, freed_keys>>
Retire(expired) ==
    LET reported == {b \in expired : b.members # {}}
    IN  IF type = "tumbling"
        THEN /\ buckets' = (buckets \ expired) \cup {ResetBucket(b) : b \in expired}
             /\ results' = results \cup {ResetBucket(b) : b \in reported}
             /\ UNCHANGED freed_keys
        ELSE /\ buckets' = buckets \ expired
             /\ results' = results \cup reported
             /\ freed_keys' = IF Grouped
                              THEN freed_keys \cup {b.keys : b \in expired}
                              ELSE freed_keys

Flush ==
    /\ Defined
    /\ timer
    /\ now >= due
    /\ due' = now + Interval
    /\ Retire({b \in buckets : Expired(b)})
    /\ UNCHANGED <<now, started, type, timer, created, accepted>>

(* The clock (external: uv_hrtime).                                        *)
Tick ==
    /\ now < MaxTime
    /\ now' = now + 1
    /\ UNCHANGED <<started, type, timer, due, buckets, created, freed_keys,
                   accepted, results>>

Next ==
    \/ WorldStart
    \/ \E key \in Keys, lag \in 0..Lag : Execute(key, lag)
    \/ Flush
    \/ Tick

Spec == Init /\ [][Next]_vars

(* A running loop runs its timers, and time passes.                        *)
FairSpec == Spec /\ WF_vars(Flush) /\ WF_vars(Tick)
----------------------------------------------------------------------------
(* The types of the query's state.                                         *)
TypeOK ==
    /\ now \in Nat \ {0}
    /\ started \in BOOLEAN
    /\ type \in WindowTypes
    /\ timer \in BOOLEAN
    /\ due \in Nat
    /\ buckets \subseteq Bucket
    /\ created \in Nat
    /\ freed_keys \subseteq Nat
    /\ accepted \subseteq Event
    /\ results \subseteq Bucket

(* Session windows lose and repeat nothing: every event the query accepted *)
(* is in exactly one session, still open or reported, however the flushes  *)
(* fall between the events and however late an event is.                   *)
ExactlyOnce ==
    type = "session" =>
        /\ \A e \in accepted : \E b \in buckets \cup results : e \in b.members
        /\ \A b, c \in buckets \cup results :
              b # c => b.members \cap c.members = {}

(* No event so far was late: each reached the query when it was stamped.   *)
Prompt == \A e \in accepted : e.lag = 0

(* As long as no event was late, two sessions of a group, open or          *)
(* reported, are separated by the timeout: neither a flush, whenever its   *)
(* timer fires, nor the choice of a bucket ever splits a session.          *)
SessionsApart ==
    (type = "session" /\ Prompt) =>
        \A b, c \in buckets \cup results :
            (b.key = c.key /\ b.id < c.id) => b.last + Timeout <= c.start

(* While a tumbling window is open, each event of it is in exactly one     *)
(* bucket, one that spans that window: a bucket moved on from an earlier   *)
(* window by a flush takes no event from the one in use.                   *)
OpenWindowHeld ==
    type = "tumbling" =>
        \A e \in accepted :
            LET start == Aligned(e.ts, Size)
                holding == {b \in buckets : e \in b.members}
            IN  start + Size > now =>
                    /\ Cardinality(holding) = 1
                    /\ \A b \in holding : b.start = start /\ b.end = start + Size

(* A query without a window reports a running total: each result covers    *)
(* all the events of its group so far, however many groups there are.      *)
RunningTotal ==
    type = "none" =>
        \A e \in accepted : \E r \in results :
            r.members = {f \in accepted : f.key = e.key /\ f.id <= e.id}

(* A sliding window reports only events it contains, and is reported at    *)
(* most once as long as no event was late: nothing re-creates it.          *)
SlidingReportedOnce ==
    type = "sliding" =>
        /\ \A b \in buckets \cup results : \A e \in b.members :
              b.start <= e.ts /\ e.ts < b.end
        /\ Prompt => \A b, c \in results :
              (b.key = c.key /\ b.start = c.start) => b = c

(* An event accepted by a started world leaves its session in a result:    *)
(* the timer is running by then, and the session times out (unless it goes *)
(* on past the horizon of the model).                                      *)
SessionReported ==
    \A i \in 1..MaxEvents :
        LET OutOfReach == \E b \in buckets :
                /\ b.last + Timeout + Interval > MaxTime
                /\ \E e \in b.members : e.id = i
            Aggregated == \E b \in buckets : \E e \in b.members : e.id = i /\ e.live
        IN  (type = "session" /\ Aggregated)
            ~> (OutOfReach \/ \E r \in results : \E e \in r.members : e.id = i)

(* A result reports the events that were aggregated: "Number of events     *)
(* aggregated" (docs/derived-event-schema.md) is never zero, since a bucket *)
(* is only reported when it has counted an event.                          *)
ResultsNotEmpty == \A r \in results : r.members # {}

(* An event is in every sliding window that contains it, as far as the     *)
(* safety limit on their number allows.                                    *)
InEveryWindow ==
    type = "sliding" =>
        \A e \in accepted :
            LET starts == {s \in 0..e.ts : s % Slide = 0 /\ e.ts < s + Size}
                found == {b \in buckets \cup results : e \in b.members}
            IN  \/ starts = {b.start : b \in found}
                \/ Cardinality(found) >= MaxWindows

(* Except with sliding windows, each bucket owns its group keys: it shares *)
(* them with no other one, and flushes, which remove some buckets and move *)
(* others on to a new window, free none that is still in the list.         *)
KeysHeld ==
    type # "sliding" =>
        /\ Defined
        /\ \A b, c \in buckets : b.keys = c.keys => b = c

(* A bucket owns its group keys: as long as it is in the list, they have   *)
(* not been freed with another bucket.                                     *)
KeysOwned == Defined
=============================================================================
