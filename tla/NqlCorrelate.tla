---------------------------- MODULE NqlCorrelate ----------------------------
(***************************************************************************)
(* One correlation query of the nQL executor (core/nql_executor.c):        *)
(* "correlate left_filter with right_filter within duration".              *)
(*                                                                         *)
(* The execution context keeps the events that matched either filter.  An  *)
(* event given to nql_execute is added to the buffers of the filters it    *)
(* matches and joined with the opposite ones, in one call; a timer drops   *)
(* the events that are too old.  Filters are abstracted to whether an      *)
(* event matches them.                                                     *)
(*                                                                         *)
(* Contexts are found by query string and by the address of the world.     *)
(* They are never removed, so a world allocated where a freed one was      *)
(* finds the contexts of that one: MaxWorlds is how many worlds in         *)
(* succession have the same address.  Failing allocations are not          *)
(* modelled; left_count and right_count, which nothing reads, are left out. *)
(***************************************************************************)
EXTENDS Integers, FiniteSets

CONSTANTS
    Within,           \* within_ms
    CleanupInterval,  \* the 1000 ms of the cleanup timer
    Modulus,          \* 2^64, the range of the clock
    StartTime,        \* the clock at the beginning
    Lag,              \* bound: age of an event when the query is executed on it
    MaxTime,          \* bound: the clock
    MaxEvents,        \* bound: the events that match a filter
    MaxWorlds         \* bound: the worlds at one address

ASSUME ConstantsAssumption ==
    /\ Within \in Nat
    /\ CleanupInterval \in Nat \ {0}
    /\ Modulus \in Nat
    /\ StartTime \in Nat
    /\ Lag \in Nat
    /\ MaxTime \in Nat
    /\ MaxEvents \in Nat
    /\ MaxWorlds \in Nat \ {0}
    /\ StartTime <= MaxTime
    /\ MaxTime < Modulus
    /\ 2 * Within < Modulus

VARIABLES
    now,            \* nblex_timestamp_now()
    world,          \* which of the worlds at the address is alive
    started,        \* world->started
    cleanup_timer,  \* "none", "active" or "closed"; timer_active unless "none"
    due,            \* when the cleanup timer next fires
    left_events, right_events,
    \* History: the events that matched a filter, the pairs and the number of
    \* the result events emitted, and whether libuv aborted the program.
    accepted, pairs, emissions, aborted

vars == <<now, world, started, cleanup_timer, due, left_events, right_events,
          accepted, pairs, emissions, aborted>>

events == <<left_events, right_events, accepted, pairs, emissions>>

Event == [id : Nat, ts : Nat, left : BOOLEAN, right : BOOLEAN, world : Nat]

----------------------------------------------------------------------------
Init ==
    /\ now = StartTime
    /\ world = 1
    /\ started = FALSE
    /\ cleanup_timer = "none"
    /\ due = 0
    /\ left_events = {}
    /\ right_events = {}
    /\ accepted = {}
    /\ pairs = {}
    /\ emissions = 0
    /\ aborted = FALSE

(* nblex_world_start and nblex_world_stop, as far as the query sees them.  *)
WorldStart ==
    /\ ~aborted
    /\ ~started
    /\ started' = TRUE
    /\ UNCHANGED <<now, world, cleanup_timer, due, events, aborted>>

WorldStop ==
    /\ ~aborted
    /\ started
    /\ started' = FALSE
    /\ UNCHANGED <<now, world, cleanup_timer, due, events, aborted>>

(* get_corr_state, for a new context, and execute_correlate afterwards: the *)
(* timer starts with the first matching event that finds the world started *)
(* and no timer allocated.                                                 *)
EnsureTimer ==
    IF started /\ cleanup_timer = "none"
    THEN cleanup_timer' = "active" /\ due' = now + CleanupInterval
    ELSE UNCHANGED <<cleanup_timer, due>>

Near(e, f) == e.ts - f.ts <= Within /\ f.ts - e.ts <= Within

(* add_corr_event *)
Added(buffer, e, matches) == IF matches THEN buffer \cup {e} ELSE buffer

(* create_corr_result_event: the two events, in the order of the filters.  *)
Result(left, right) == <<left, right>>

(* The pairs emitted for an event that matches the left filter, before it  *)
(* is added to the right buffer, and for one that matches the right        *)
(* filter, after it has been added to the left buffer.                     *)
AsLeftAfterBoth(e) ==
    IF e.left THEN {Result(e, f) : f \in {g \in Added(right_events, e, e.right) : Near(e, g)}}
              ELSE {}
AsLeft(e) ==
    IF e.left THEN {Result(e, f) : f \in {g \in right_events : Near(e, g)}} ELSE {}
AsRight(e) ==
    IF e.right THEN {Result(f, e) : f \in {g \in Added(left_events, e, e.left) : Near(e, g)}}
               ELSE {}

(* execute_correlate, for an event that matches at least one filter.       *)
Execute(left, right, lag) ==
    /\ ~aborted
    /\ left \/ right
    /\ Cardinality(accepted) < MaxEvents
    /\ lag <= now
    /\ EnsureTimer
    /\ LET e == [id |-> Cardinality(accepted) + 1, ts |-> now - lag,
                 left |-> left, right |-> right, world |-> world]
       IN  /\ accepted' = accepted \cup {e}
           /\ left_events' = Added(left_events, e, left)
           /\ right_events' = Added(right_events, e, right)
           /\ pairs' = pairs \cup AsLeft(e) \cup AsRight(e)
           /\ emissions' = emissions + Cardinality(AsLeft(e)) + Cardinality(AsRight(e))
    /\ UNCHANGED <<now, world, started, aborted>>

(* corr_cleanup_cb; the cutoff is a uint64 difference.                     *)
CutoffOneWindow == (now - Within) % Modulus
Cutoff == (now - 2 * Within) % Modulus

CleanedLeftOnly(buffer) ==
    IF buffer = right_events THEN buffer ELSE {e \in buffer : e.ts >= Cutoff}
Cleaned(buffer) == {e \in buffer : e.ts >= Cutoff}

Cleanup ==
    /\ ~aborted
    /\ cleanup_timer = "active"
    /\ now >= due
    /\ due' = now + CleanupInterval
    /\ left_events' = Cleaned(left_events)
    /\ right_events' = Cleaned(right_events)
    /\ UNCHANGED <<now, world, started, cleanup_timer, accepted, pairs, emissions, aborted>>

(* nblex_world_free, which has the timers of the contexts of that address  *)
(* closed (nblex_exec_contexts_shutdown_world), and nblex_world_new, which *)
(* is given the same address.  uv_close of a handle that is closed already *)
(* ends the program.                                                       *)
ReplaceWorld ==
    /\ ~aborted
    /\ world < MaxWorlds
    /\ world' = world + 1
    /\ started' = FALSE
    /\ cleanup_timer' = IF cleanup_timer = "none" THEN "none" ELSE "closed"
    /\ aborted' = (cleanup_timer = "closed")
    /\ UNCHANGED <<now, due, events>>

(* The clock (external: uv_hrtime).                                        *)
Tick ==
    /\ ~aborted
    /\ now < MaxTime
    /\ now' = now + 1
    /\ UNCHANGED <<world, started, cleanup_timer, due, events, aborted>>

Next ==
    \/ WorldStart
    \/ WorldStop
    \/ \E left, right \in BOOLEAN, lag \in 0..Lag : Execute(left, right, lag)
    \/ Cleanup
    \/ ReplaceWorld
    \/ Tick

Spec == Init /\ [][Next]_vars

(* The loop of a started world is run and runs its timers; time passes.    *)
FairSpec == Spec /\ WF_vars(started /\ Cleanup) /\ WF_vars(Tick)
----------------------------------------------------------------------------
(* The types of the query's state.                                         *)
TypeOK ==
    /\ now \in Nat
    /\ StartTime <= now /\ now < Modulus
    /\ world \in Nat
    /\ started \in BOOLEAN
    /\ cleanup_timer \in {"none", "active", "closed"}
    /\ due \in Nat
    /\ accepted \subseteq Event
    /\ left_events \subseteq {e \in accepted : e.left}
    /\ right_events \subseteq {e \in accepted : e.right}
    /\ pairs \subseteq accepted \X accepted
    /\ emissions \in Nat
    /\ aborted \in BOOLEAN

(* Each pair is emitted once, whichever of its events came first, and also *)
(* when events match both filters and could meet in either buffer.         *)
EmittedOnce == emissions = Cardinality(pairs)

(* The query emits exactly the pairs of a left and a right event that lie  *)
(* within the duration: the cleanup timer drops no event that a later one, *)
(* which may be Lag old when it arrives, has still to be joined with.      *)
PairsExact ==
    pairs = {p \in accepted \X accepted : p[1].left /\ p[2].right /\ Near(p[1], p[2])}

(* No event stays in the buffers for ever once the timer runs, unless the  *)
(* world is stopped.                                                       *)
StaleEventsLeave ==
    \A i \in 1..MaxEvents :
        (/\ cleanup_timer = "active" /\ due <= MaxTime
         /\ \E e \in left_events \cup right_events :
               e.id = i /\ e.ts + 2 * Within + CleanupInterval <= MaxTime)
        ~> (~started \/ \A e \in left_events \cup right_events : e.id # i)

(* A correlation joins two events: "Correlation queries match events       *)
(* across different sources (logs and network)" (docs/nql-spec.md).        *)
TwoEvents == \A p \in pairs : p[1] # p[2]

(* The contexts are "per world": events of two worlds are not joined.      *)
PerWorld == \A p \in pairs : p[1].world = p[2].world

(* Freeing a world closes only timers that are on the loop of that world,  *)
(* each once.                                                              *)
TimersClosedOnce == ~aborted

(* Where the theorem and the passing runs apply: the machine was up for    *)
(* twice the duration before the query began, and an event is given to the *)
(* query within the duration of being stamped.                             *)
Timely == 2 * Within <= StartTime /\ Lag <= Within
=============================================================================
