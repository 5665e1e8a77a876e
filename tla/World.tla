------------------------------- MODULE World -------------------------------
(***************************************************************************)
(* The life of a world (core/nblex_world.c) and of the libuv handles that  *)
(* it, its file inputs (input/file_input.c), the correlation engine and    *)
(* the query executor put on its loop: create, open, add inputs, start,    *)
(* run, stop, free, in whatever order the application calls them.          *)
(*                                                                         *)
(* A handle is "active" from its init and start until uv_close, "closing"  *)
(* until an iteration of the loop has run its close callback, and "closed" *)
(* after that.  uv_loop_close succeeds only when no handle is active or    *)
(* closing.  What the callbacks do with the data is left to the other      *)
(* modules; here they matter only because they may call nblex_world_stop.  *)
(***************************************************************************)
EXTENDS Integers

CONSTANTS
    Files,        \* the file inputs the application may create
    Pcaps,        \* the packet capture inputs it may create
    Queries,      \* the windowed queries its handler may execute
    OpenResults,  \* what fopen may say of a log file: a set of Booleans
    FsResults,    \* what uv_fs_event_start may say: a set of Booleans
    MaxStarts     \* bound: the calls of nblex_world_start

ASSUME WorldAssumption ==
    /\ Files \cap Pcaps = {}
    /\ OpenResults \subseteq BOOLEAN
    /\ FsResults \subseteq BOOLEAN
    /\ MaxStarts \in Nat

VARIABLES
    life,           \* of the struct: "alive", "freeing" (in world_free), "freed"
    opened, started, running,
    created,        \* the inputs the application has created
    inputs,         \* those of them in world->inputs
    in_run,         \* uv_run(UV_RUN_DEFAULT) is on the stack
    stop_flag,      \* of the loop: set by uv_stop, cleared when uv_run returns
    correlation,    \* "none", "alive", "closing", "freed"
    cleanup_timer,  \* the correlation engine's handle
    fs_event,       \* the two handles of each file input
    poll_timer,
    watching,       \* per input; for a packet capture: capturing
    use_fs_event,
    query_timer,    \* the handle of each query context
    faults,         \* history: libuv rules broken so far
    starts          \* history: the calls of nblex_world_start

vars == <<life, opened, started, running, created, inputs, in_run, stop_flag,
          correlation, cleanup_timer, fs_event, poll_timer, watching,
          use_fs_event, query_timer, faults, starts>>

flags == <<opened, started, running, in_run, stop_flag>>
handles == <<cleanup_timer, fs_event, poll_timer, query_timer>>
inputState == <<created, inputs, watching, use_fs_event>>

OnLoop(h) == h \in {"active", "closing"}

\* uv_loop_alive, and the condition under which uv_loop_close says UV_EBUSY.
LoopBusy ==
    \/ OnLoop(cleanup_timer)
    \/ \E f \in Files : OnLoop(fs_event[f]) \/ OnLoop(poll_timer[f])
    \/ \E q \in Queries : OnLoop(query_timer[q])

\* A rule of libuv that the step breaks is remembered.
Fault(broken, name) == IF broken THEN {name} ELSE {}

----------------------------------------------------------------------------
(* nblex_world_new *)
Init ==
    /\ life = "alive"
    /\ opened = FALSE /\ started = FALSE /\ running = FALSE
    /\ created = {} /\ inputs = {}
    /\ in_run = FALSE /\ stop_flag = FALSE
    /\ correlation = "none" /\ cleanup_timer = "none"
    /\ fs_event = [f \in Files |-> "none"]
    /\ poll_timer = [f \in Files |-> "none"]
    /\ watching = [i \in Files \cup Pcaps |-> FALSE]
    /\ use_fs_event = [f \in Files |-> FALSE]
    /\ query_timer = [q \in Queries |-> "none"]
    /\ faults = {}
    /\ starts = 0

\* The application calls the API between two runs of the loop.
Idle == life = "alive" /\ ~in_run

(* nblex_world_open: creates the correlation engine, once.                 *)
Open ==
    /\ Idle
    /\ ~opened
    /\ opened' = TRUE
    /\ correlation' = "alive"
    /\ UNCHANGED <<life, started, running, in_run, stop_flag, handles, inputState,
                   faults, starts>>

(* nblex_world_add_input *)
AddInput(i) == inputs' = inputs \cup {i}

(* nblex_input_file_new: the input is added to the world.                  *)
NewFile(f) ==
    /\ Idle
    /\ f \notin created
    /\ created' = created \cup {f}
    /\ AddInput(f)
    /\ UNCHANGED <<life, flags, correlation, handles, watching, use_fs_event,
                   faults, starts>>

(* nblex_input_pcap_new: the input is not added to the world.              *)
NewPcap(p) ==
    /\ Idle
    /\ p \notin created
    /\ created' = created \cup {p}
    /\ UNCHANGED <<life, flags, correlation, handles, inputs, watching,
                   use_fs_event, faults, starts>>

(* file_input_start of the inputs in S, fs[f] saying whether the file      *)
(* system event could be started: if not its handle is closed again, and   *)
(* the polling timer runs in either case.                                  *)
StartFiles(S, fs) ==
    /\ fs_event' = [f \in Files |->
           IF f \in S THEN (IF fs[f] THEN "active" ELSE "closing") ELSE fs_event[f]]
    /\ poll_timer' = [f \in Files |->
           IF f \in S THEN "active" ELSE poll_timer[f]]
    /\ use_fs_event' = [f \in Files |->
           IF f \in S /\ fs[f] THEN TRUE ELSE use_fs_event[f]]
    /\ watching' = [i \in Files \cup Pcaps |-> IF i \in S THEN TRUE ELSE watching[i]]

(* nblex_world_start: the cleanup timer (nblex_correlation_start), then    *)
(* each input until one fails.  The inputs in S are those that started; if *)
(* they are not all of them, the call fails and started stays false.       *)
Start(S, fs) ==
    /\ Idle
    /\ opened
    /\ ~started
    /\ starts < MaxStarts
    /\ starts' = starts + 1
    /\ S # {} => TRUE \in OpenResults
    /\ S # inputs => FALSE \in OpenResults
    /\ cleanup_timer' = "active"
    /\ StartFiles(S, fs)
    /\ started' = (S = inputs)
    /\ faults' = faults \cup
           Fault(\/ OnLoop(cleanup_timer)
                 \/ \E f \in S : OnLoop(fs_event[f]) \/ OnLoop(poll_timer[f]), "reinit")
    /\ UNCHANGED <<life, opened, running, in_run, stop_flag, correlation, created,
                   inputs, query_timer>>

(* file_input_stop of every input of the world: only the handle that       *)
(* use_fs_event names is closed, and watching keeps a second stop from     *)
(* closing it again.                                                       *)
StoppedRegardless == inputs
Stopped == {f \in inputs : watching[f]}

ViaFs == {f \in Stopped : use_fs_event[f]}

StopFiles ==
    /\ fs_event' = [f \in Files |-> IF f \in ViaFs THEN "closing" ELSE fs_event[f]]
    /\ poll_timer' = [f \in Files |->
           IF f \in Stopped \ ViaFs THEN "closing" ELSE poll_timer[f]]
    /\ watching' = [i \in Files \cup Pcaps |->
           IF i \in Stopped THEN FALSE ELSE watching[i]]

\* uv_close of a handle that is not active.
StopFaults ==
    Fault(\/ \E f \in ViaFs : fs_event[f] # "active"
          \/ \E f \in Stopped \ ViaFs : poll_timer[f] # "active", "double_close")

(* nblex_world_stop, between runs or from a callback of the running loop.  *)
(* The correlation timer and the query timers are left alone.              *)
Stop ==
    /\ life = "alive"
    /\ StopFiles
    /\ faults' = faults \cup StopFaults
    /\ started' = FALSE
    /\ running' = FALSE
    /\ stop_flag' = TRUE
    /\ UNCHANGED <<life, opened, in_run, correlation, cleanup_timer, query_timer,
                   created, inputs, use_fs_event, starts>>

(* nblex_world_run.  uv_run returns at once, and only clears the stop      *)
(* flag, if that was set before.                                           *)
Run ==
    /\ Idle
    /\ started
    /\ stop_flag' = FALSE
    /\ in_run' = ~stop_flag
    /\ running' = ~stop_flag
    /\ UNCHANGED <<life, opened, started, correlation, handles, inputState,
                   faults, starts>>

Closed(h) == IF h = "closing" THEN "closed" ELSE h

(* The close callbacks at the end of a loop iteration; that of the cleanup *)
(* timer (cleanup_timer_close_cb) frees the correlation engine.            *)
RunCloseCallbacks ==
    /\ cleanup_timer' = Closed(cleanup_timer)
    /\ fs_event' = [f \in Files |-> Closed(fs_event[f])]
    /\ poll_timer' = [f \in Files |-> Closed(poll_timer[f])]
    /\ query_timer' = [q \in Queries |-> Closed(query_timer[q])]
    /\ correlation' = IF correlation = "closing" THEN "freed" ELSE correlation

(* One iteration of the loop inside nblex_world_run, which returns after   *)
(* it if the loop was stopped or nothing is left on it.                    *)
LoopIteration ==
    /\ in_run
    /\ RunCloseCallbacks
    /\ LET done == stop_flag \/ ~LoopBusy'
       IN  /\ in_run' = ~done
           /\ running' = (running /\ ~done)
           /\ stop_flag' = FALSE
    /\ UNCHANGED <<life, opened, started, inputState, faults, starts>>

(* get_agg_state, ensure_agg_timer_initialized and get_corr_state: the     *)
(* first event a windowed query sees in a started world starts its timer.  *)
QueryTimerStart(q) ==
    /\ life = "alive"
    /\ started
    /\ query_timer[q] = "none"
    /\ query_timer' = [query_timer EXCEPT ![q] = "active"]
    /\ UNCHANGED <<life, flags, correlation, cleanup_timer, fs_event, poll_timer,
                   inputState, faults, starts>>

(* nblex_correlation_free: an engine whose timer was started is freed by   *)
(* the close callback, another one at once.                                *)
FreeCorrelationNow ==
    /\ correlation' = IF correlation = "alive" THEN "freed" ELSE correlation
    /\ cleanup_timer' = IF cleanup_timer = "active" THEN "closing" ELSE cleanup_timer
FreeCorrelation ==
    IF correlation = "alive" /\ cleanup_timer = "active"
    THEN correlation' = "closing" /\ cleanup_timer' = "closing"
    ELSE /\ correlation' = IF correlation = "alive" THEN "freed" ELSE correlation
         /\ UNCHANGED cleanup_timer

(* nblex_world_free up to the loop that closes the event loop.  Inputs are *)
(* stopped only if the world is started; the contexts' timers are closed   *)
(* by nblex_exec_contexts_shutdown_world.  The inputs are freed with the   *)
(* handles in them, on the loop or not.                                    *)
ShutdownContextsNever == UNCHANGED query_timer
ShutdownContexts ==
    query_timer' = [q \in Queries |->
        IF query_timer[q] = "active" THEN "closing" ELSE query_timer[q]]

\* nblex_input_free frees a file input with the handles in it.
FreeInputsFaults ==
    Fault(\E f \in inputs : OnLoop(fs_event'[f]) \/ OnLoop(poll_timer'[f]), "early_free")

Free ==
    /\ Idle
    /\ life' = "freeing"
    /\ IF started THEN StopFiles ELSE UNCHANGED <<fs_event, poll_timer, watching>>
    /\ faults' = faults
           \cup (IF started THEN StopFaults ELSE {})
           \cup FreeInputsFaults
    /\ FreeCorrelation
    /\ ShutdownContexts
    /\ UNCHANGED <<flags, created, inputs, use_fs_event, starts>>

(* The loop at the end of nblex_world_free: uv_loop_close, and while that  *)
(* says UV_EBUSY one uv_run(UV_RUN_ONCE).                                  *)
LoopClose ==
    /\ life = "freeing"
    /\ ~LoopBusy
    /\ life' = "freed"
    /\ UNCHANGED <<flags, correlation, handles, inputState, faults, starts>>

LoopDrain ==
    /\ life = "freeing"
    /\ LoopBusy
    /\ stop_flag' = FALSE
    /\ IF stop_flag THEN UNCHANGED <<handles, correlation>> ELSE RunCloseCallbacks
    /\ UNCHANGED <<life, opened, started, running, in_run, inputState, faults, starts>>

Next ==
    \/ Open
    \/ \E f \in Files : NewFile(f)
    \/ \E p \in Pcaps : NewPcap(p)
    \/ \E S \in SUBSET inputs, fs \in [Files -> FsResults] : Start(S, fs)
    \/ Stop
    \/ Run
    \/ LoopIteration
    \/ \E q \in Queries : QueryTimerStart(q)
    \/ Free
    \/ LoopClose
    \/ LoopDrain

Spec == Init /\ [][Next]_vars

(* nblex_world_free runs to its end by itself, and uv_run iterates.        *)
FairSpec == Spec /\ WF_vars(LoopIteration) /\ WF_vars(LoopClose \/ LoopDrain)
----------------------------------------------------------------------------
HandleState == {"none", "active", "closing", "closed"}

(* The types of the world's state.                                         *)
TypeOK ==
    /\ life \in {"alive", "freeing", "freed"}
    /\ opened \in BOOLEAN /\ started \in BOOLEAN /\ running \in BOOLEAN
    /\ in_run \in BOOLEAN /\ stop_flag \in BOOLEAN
    /\ created \subseteq Files \cup Pcaps
    /\ inputs \subseteq Files
    /\ correlation \in {"none", "alive", "closing", "freed"}
    /\ cleanup_timer \in HandleState
    /\ fs_event \in [Files -> HandleState]
    /\ poll_timer \in [Files -> HandleState]
    /\ watching \in [Files \cup Pcaps -> BOOLEAN]
    /\ use_fs_event \in [Files -> BOOLEAN]
    /\ query_timer \in [Queries -> HandleState]
    /\ faults \subseteq {"reinit", "double_close", "early_free"}
    /\ starts \in Nat

(* The correlation engine is not freed while the loop still holds its      *)
(* timer, whose memory is inside it, and the world is not freed while the  *)
(* loop holds any handle; once it is freed, so is the engine.              *)
TeardownOrder ==
    /\ correlation = "freed" => ~OnLoop(cleanup_timer)
    /\ life = "freed" => ~LoopBusy /\ correlation \in {"none", "freed"}

(* uv_close is called only on a handle that is active: libuv aborts        *)
(* otherwise.                                                              *)
ClosedOnce == "double_close" \notin faults

(* In a world that is started once, uv_close is called only on a handle    *)
(* that is active, whatever the order of failed starts, stops, callbacks   *)
(* that stop, and frees.                                                   *)
NoDoubleClose == starts <= 1 => ClosedOnce

(* nblex_world_free comes to its end: each run of the loop lets            *)
(* uv_loop_close come closer to success.                                   *)
FreeCompletes == (life = "freeing") ~> (life = "freed")

(* nblex_world_free of a world whose handles were used by libuv's rules    *)
(* comes to its end: nothing the world put on the loop is left open.       *)
CleanFreeCompletes == (life = "freeing" /\ faults = {}) ~> (life = "freed")

(* A successful nblex_world_start has started every input the application  *)
(* created.                                                                *)
StartStartsAll ==
    [][~started /\ started' => \A i \in created : watching'[i]]_vars
=============================================================================
