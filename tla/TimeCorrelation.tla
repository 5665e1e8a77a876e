-------------------------- MODULE TimeCorrelation --------------------------
(***************************************************************************)
(* The time-based correlation engine (correlation/time_correlation.c) and  *)
(* the emit path that drives it (nblex_event_emit, core/nblex_event.c).    *)
(*                                                                         *)
(* nblex runs on one libuv loop, so a callback runs to completion: emitting *)
(* an event, with everything the engine does about it, is one action, and  *)
(* so is one firing of the cleanup timer.  Between them the clock advances *)
(* and the caller may change the window or free the engine.                *)
(*                                                                         *)
(* Times are abstract ticks of uv_hrtime (nblex_timestamp_now), a uint64    *)
(* count since the machine booted; Modulus stands for 2^64.  A failing     *)
(* allocation is not modelled.                                             *)
(***************************************************************************)
EXTENDS Integers, FiniteSets

CONSTANTS
    Windows,          \* the windows a caller may configure
    DefaultWindow,    \* the window of a new engine
    MaxBufferSize,    \* MAX_BUFFER_SIZE
    CleanupInterval,  \* CLEANUP_INTERVAL_MS
    Modulus,          \* 2^64, the range of the clock
    StartTime,        \* the clock when the engine is created
    Lag,              \* bound: time between stamping an event and emitting it
    MaxTime,          \* bound: the clock
    MaxEvents         \* bound: the log and network events emitted

ASSUME ConstantsAssumption ==
    /\ Windows \subseteq Nat
    /\ DefaultWindow \in Windows
    /\ MaxBufferSize \in Nat
    /\ CleanupInterval \in Nat
    /\ Modulus \in Nat
    /\ StartTime \in Nat
    /\ Lag \in Nat
    /\ MaxTime \in Nat
    /\ MaxEvents \in Nat
    /\ StartTime <= MaxTime
    /\ MaxTime < Modulus
    /\ \A w \in Windows : 2 * w < Modulus

VARIABLES
    now,                 \* nblex_timestamp_now()
    engine,              \* the life of the nblex_correlation struct
    due,                 \* when the cleanup timer next fires
    window,              \* window_ns
    events,              \* log_events and network_events, by event type
    events_count,        \* log_events_count and network_events_count
    events_processed,    \* of the world
    correlations_found,  \* also the world's events_correlated: raised together
    \* History: what was emitted, refused by a full buffer and correlated,
    \* and the smallest window configured so far.
    processed, refused, pairs, narrowest

vars == <<now, engine, due, window, events, events_count, events_processed,
          correlations_found, processed, refused, pairs, narrowest>>

buffers == <<events, events_count>>
history == <<events_processed, correlations_found, processed, refused, pairs>>

\* What the engine promises (see WindowJoin): the buffers, their counts and
\* the clock are details of it.
WJ == INSTANCE WindowJoin WITH
          window <- window, narrowest <- narrowest,
          processed <- processed, refused <- refused, pairs <- pairs

Types == {"LOG", "NETWORK"}

Event == [id : Nat, type : Types, ts : Nat]

OtherType(t) == IF t = "LOG" THEN "NETWORK" ELSE "LOG"

\* world->correlation is set: the engine receives the events that are emitted.
Live == engine \in {"new", "started"}

----------------------------------------------------------------------------
(* nblex_correlation_new: an engine with empty buffers, no timer yet.      *)
Init ==
    /\ now = StartTime
    /\ engine = "new"
    /\ due = StartTime
    /\ window = DefaultWindow
    /\ events = [t \in Types |-> {}]
    /\ events_count = [t \in Types |-> 0]
    /\ events_processed = 0
    /\ correlations_found = 0
    /\ processed = {}
    /\ refused = {}
    /\ pairs = {}
    /\ narrowest = DefaultWindow

(* nblex_correlation_add_strategy: the window changes, the buffers stay.   *)
AddStrategy(w) ==
    /\ Live
    /\ window' = w
    /\ narrowest' = IF w < narrowest THEN w ELSE narrowest
    /\ UNCHANGED <<now, engine, due, buffers, history>>

(* nblex_correlation_start: the periodic cleanup timer starts.             *)
Start ==
    /\ engine = "new"
    /\ engine' = "started"
    /\ due' = now + CleanupInterval
    /\ UNCHANGED <<now, window, narrowest, buffers, history>>

(* correlation_check_event: the buffered events of the other type whose    *)
(* timestamps lie within the window, earlier or later.                     *)
MatchesLaterOnly(e) ==
    {f \in events[OtherType(e.type)] : e.ts >= f.ts /\ e.ts - f.ts <= window}
Matches(e) ==
    {f \in events[OtherType(e.type)] : WJ!Distance(e, f) <= window}

(* add_to_buffer: an event that finds its buffer full is not kept.         *)
AddToBufferOverfull(e) ==
    IF events_count[e.type] > MaxBufferSize
    THEN refused' = refused \cup {e} /\ UNCHANGED buffers
    ELSE /\ events' = [events EXCEPT ![e.type] = @ \cup {e}]
         /\ events_count' = [events_count EXCEPT ![e.type] = @ + 1]
         /\ UNCHANGED refused
AddToBuffer(e) ==
    IF events_count[e.type] >= MaxBufferSize
    THEN refused' = refused \cup {e} /\ UNCHANGED buffers
    ELSE /\ events' = [events EXCEPT ![e.type] = @ \cup {e}]
         /\ events_count' = [events_count EXCEPT ![e.type] = @ + 1]
         /\ UNCHANGED refused

(* nblex_correlation_process_event, with the correlation events it emits:  *)
(* each goes back through nblex_event_emit, where it is counted as         *)
(* processed, correlates with nothing and is not buffered.                 *)
ProcessEventCountingAll(e) ==
    LET found == Matches(e)
        checked == events[OtherType(e.type)]
    IN  /\ correlations_found' = correlations_found + Cardinality(checked)
        /\ events_processed' = events_processed + 1 + Cardinality(found)
        /\ pairs' = pairs \cup {WJ!Pair(e, f) : f \in found}
        /\ AddToBuffer(e)
ProcessEvent(e) ==
    LET found == Matches(e)
    IN  /\ correlations_found' = correlations_found + Cardinality(found)
        /\ events_processed' = events_processed + 1 + Cardinality(found)
        /\ pairs' = pairs \cup {WJ!Pair(e, f) : f \in found}
        /\ AddToBuffer(e)

(* nblex_event_emit of a log or network event that passes its input's      *)
(* filter; one that does not pass is freed and changes nothing.  Events    *)
(* are stamped when they are created (nblex_event_new) and emitted later   *)
(* in the same callback; the results of aggregation queries arrive here as *)
(* log events too.                                                         *)
Emit(type, lag) ==
    /\ Live
    /\ Cardinality(processed) < MaxEvents
    /\ lag <= now
    /\ LET e == [id |-> events_processed + 1, type |-> type, ts |-> now - lag]
       IN  /\ processed' = processed \cup {e}
           /\ ProcessEvent(e)
    /\ UNCHANGED <<now, engine, due, window, narrowest>>

(* cleanup_timer_cb: the cutoff is a uint64 difference, and wraps while    *)
(* the clock is below twice the window.                                    *)
CutoffOneWindow == (now - window) % Modulus
Cutoff == (now - 2 * window) % Modulus

CleanupOldEventsOneBuffer(cutoff) ==
    /\ events' = [events EXCEPT !["LOG"] = {e \in @ : e.ts >= cutoff}]
    /\ events_count' = [events_count EXCEPT !["LOG"] =
           @ - Cardinality({e \in events["LOG"] : e.ts < cutoff})]
(* cleanup_old_events, on both buffers.                                    *)
CleanupOldEvents(cutoff) ==
    /\ events' = [t \in Types |-> {e \in events[t] : e.ts >= cutoff}]
    /\ events_count' = [t \in Types |->
           events_count[t] - Cardinality({e \in events[t] : e.ts < cutoff})]

Cleanup ==
    /\ engine = "started"
    /\ now >= due
    /\ due' = now + CleanupInterval
    /\ CleanupOldEvents(Cutoff)
    /\ UNCHANGED <<now, engine, window, narrowest, history>>

ReleaseBuffers ==
    /\ events' = [t \in Types |-> {}]
    /\ events_count' = [t \in Types |-> 0]

(* nblex_correlation_free, after which the world forgets the engine: the   *)
(* struct goes at once if the timer was never started, otherwise with the  *)
(* close callback of the timer.                                            *)
Free ==
    \/ /\ engine = "started"
       /\ engine' = "closing"
       /\ UNCHANGED <<now, due, window, narrowest, buffers, history>>
    \/ /\ engine = "new"
       /\ engine' = "freed"
       /\ ReleaseBuffers
       /\ UNCHANGED <<now, due, window, narrowest, history>>

(* cleanup_timer_close_cb *)
CleanupTimerClose ==
    /\ engine = "closing"
    /\ engine' = "freed"
    /\ ReleaseBuffers
    /\ UNCHANGED <<now, due, window, narrowest, history>>

(* The clock (external: uv_hrtime).                                        *)
Tick ==
    /\ now < MaxTime
    /\ now' = now + 1
    /\ UNCHANGED <<engine, due, window, narrowest, buffers, history>>

Next ==
    \/ \E w \in Windows : AddStrategy(w)
    \/ Start
    \/ \E t \in Types, lag \in 0..Lag : Emit(t, lag)
    \/ Cleanup
    \/ Free
    \/ CleanupTimerClose
    \/ Tick

Spec == Init /\ [][Next]_vars

(* While the loop runs, its timers and close callbacks are run and time    *)
(* passes; no caller is obliged to do anything.                            *)
FairSpec == Spec /\ WF_vars(Cleanup) /\ WF_vars(CleanupTimerClose) /\ WF_vars(Tick)
----------------------------------------------------------------------------
(* The types of the engine's state and of the history.                     *)
TypeOK ==
    /\ now \in Nat
    /\ StartTime <= now /\ now < Modulus
    /\ engine \in {"new", "started", "closing", "freed"}
    /\ due \in Nat
    /\ window \in Windows
    /\ narrowest \in Windows
    /\ events \in [Types -> SUBSET Event]
    /\ events_count \in [Types -> Nat]
    /\ events_processed \in Nat
    /\ correlations_found \in Nat
    /\ processed \subseteq Event
    /\ refused \subseteq processed
    /\ pairs \subseteq [log : Event, network : Event]

(* The counters by which add_to_buffer decides that a buffer is full agree *)
(* with the lists, through every mix of additions and cleanups, so an      *)
(* event is refused only by a buffer that really holds MaxBufferSize       *)
(* events, and no buffer holds more.                                       *)
CountsExact ==
    \A t \in Types :
        /\ events_count[t] = Cardinality(events[t])
        /\ events_count[t] <= MaxBufferSize

(* A log and a network event are correlated at most once, whichever of     *)
(* them is emitted first: correlations_found counts distinct pairs, and    *)
(* the world's events_processed counts each emitted event and each         *)
(* correlation event once.                                                 *)
CorrelatedOnce ==
    /\ correlations_found = Cardinality(pairs)
    /\ events_processed = Cardinality(processed) + Cardinality(pairs)

(* The cleanup timer never costs a correlation: two events of different    *)
(* types whose timestamps are within every window configured so far are    *)
(* correlated, unless the first of them was refused by a full buffer, even *)
(* though the second may be stamped up to Lag before it is emitted, and    *)
(* the first may have been cleaned up in between.                          *)
NoMissedPair ==
    \A e, f \in processed :
        (/\ e.id < f.id
         /\ e.type # f.type
         /\ e \notin refused
         /\ WJ!Distance(e, f) <= narrowest)
        => WJ!Pair(f, e) \in pairs

(* The engine implements the window join.                                  *)
ImplementsJoin == WJ!JoinSpec

(* No event stays in a buffer for ever: once two windows and a cleanup     *)
(* interval have passed the running engine has dropped it.                 *)
StaleEventsLeave ==
    \A i \in 1..(MaxEvents * MaxEvents + MaxEvents) :
        (/\ engine = "closing" \/ (engine = "started" /\ due <= MaxTime)
         /\ \E t \in Types : \E e \in events[t] :
               /\ e.id = i
               /\ \A w \in Windows : e.ts + 2 * w + CleanupInterval <= MaxTime)
        ~> (\A t \in Types : \A e \in events[t] : e.id # i)

(* Where the theorems and the passing runs apply: the machine was up for   *)
(* twice the widest window before the engine was created, and an event is  *)
(* emitted within one window of being stamped.                             *)
Timely == \A w \in Windows : 2 * w <= StartTime /\ Lag <= w
=============================================================================
