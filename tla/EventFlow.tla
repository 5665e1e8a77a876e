------------------------------- MODULE EventFlow -------------------------------
(***************************************************************************)
(* What happens to an event between its creation and its free: the calls   *)
(* that nblex_event_emit makes (core/nblex_event.c), the walk of the       *)
(* correlation engine, the event handlers of the command line and of an    *)
(* application, and the execution of a query, stage by stage               *)
(* (core/nql_executor.c).                                                  *)
(*                                                                         *)
(* All of it is one call on one thread, but these calls nest: what a walk  *)
(* over a buffer finds is emitted, and handled, before the walk goes on,   *)
(* and a handler may execute the query again.  The state is therefore the  *)
(* stack of the calls in progress, its head the innermost, and an action   *)
(* is a step of that call.  Time is left out (see TimeCorrelation,         *)
(* NqlCorrelate and NqlAggregate): all events of a behaviour are within    *)
(* every window, no buffer is full and no timer fires.                     *)
(***************************************************************************)
EXTENDS Integers, Sequences, FiniteSets

CONSTANTS
    Handlers,     \* the event handlers that may be registered
    Queries,      \* the queries they execute, as sequences of stages
    Filters,      \* filter expressions
    InputFilters, \* the filters the file input may have; "none" is no filter
    Sources,      \* the callers that make events
    MaxSources,   \* bound: events made by the sources
    MaxMatching   \* bound: events beyond this number match no filter

\* event_handler_json and event_handler_query are the command line's; an
\* application's may execute the query on every event, or emit one of its own.
CommandLineHandlers == {"none", "event_handler_json", "event_handler_query"}

\* The stages of a query; the filter "none" lets every event through.
Stages ==
    [type : {"filter", "show"}, where : Filters \cup {"none"}]
    \cup [type : {"aggregate"}, where : Filters \cup {"none"}, windowed : BOOLEAN]
    \cup [type : {"correlate"}, left : Filters \cup {"none"}, right : Filters \cup {"none"}]

ASSUME FlowAssumption ==
    /\ Queries \subseteq Seq(Stages)
    /\ Handlers \subseteq CommandLineHandlers \cup {"executes", "emits"}
    /\ Sources \subseteq {"file", "emit", "execute", "capture"}
    /\ "none" \notin Filters
    /\ InputFilters \subseteq Filters \cup {"none"}
    /\ MaxSources \in Nat /\ MaxMatching \in Nat

VARIABLES
    handler,     \* world->event_handler
    query,       \* the stages of its query
    filter,      \* the filter of the file input
    events,      \* all events ever made, by number, live or freed
    stack,       \* the calls in progress, innermost first
    result,      \* what the last call of nql_execute returned
    log_events, network_events,  \* the buffers of the correlation engine
    events_processed,
    contexts,    \* exec_contexts with this query string, newest first
    \* History: the pairs correlated by the engine, the events the query was
    \* executed on, the pairs it joined, the events it counted; the events
    \* handed to the handler and printed; how many events the sources
    \* made; and the event, if any, at which memory was freed twice or used as
    \* what it is not, after which nothing more is said.
    correlated, executed, joined, counted, handled, printed, sources, misused

engine == <<log_events, network_events, events_processed, correlated>>
execution == <<result, contexts, executed, joined, counted>>
output == <<handled, printed>>
setting == <<handler, query, filter>>
vars == <<setting, events, stack, engine, execution, output, sources, misused>>

Init ==
    /\ handler \in Handlers
    /\ query \in Queries
    /\ filter \in InputFilters
    /\ events = <<>>
    /\ stack = <<>>
    /\ result = 0
    /\ log_events = <<>> /\ network_events = <<>>
    /\ events_processed = 0
    /\ contexts = <<>>
    /\ correlated = <<>>
    /\ executed = {}
    /\ joined = <<>>
    /\ counted = <<>>
    /\ handled = <<>>
    /\ printed = {}
    /\ sources = 0
    /\ misused = 0

----------------------------------------------------------------------------
(* The calls, with what each has yet to do.                                *)
Call(fn, e, at, todo) == [fn |-> fn, event |-> e, at |-> at, stage |-> 1, todo |-> todo]

Running(fn, at) == misused = 0 /\ stack # <<>> /\ Head(stack).fn = fn /\ Head(stack).at = at
This == Head(stack).event
Stage == Head(stack).stage
Return == Tail(stack)
Goto(at) == <<[Head(stack) EXCEPT !.at = at]>> \o Tail(stack)
GotoStage(k) == <<[Head(stack) EXCEPT !.stage = k, !.at = "stage", !.todo = <<>>]>> \o Tail(stack)
Walk(at, todo) == <<[Head(stack) EXCEPT !.at = at, !.todo = todo]>> \o Tail(stack)

(* nblex_event_new, and the call that the new event is given to.  Which    *)
(* filters match an event is left open, for results too: their data holds  *)
(* the data of the events they come from.                                  *)
New == Len(events) + 1
Matching == IF New <= MaxMatching THEN SUBSET Filters ELSE {{}}
Made(type, input, matches, emitted) ==
    events' = Append(events, [type |-> type, input |-> input, matches |-> matches,
                              emitted |-> emitted, freed |-> FALSE])

Passes(e, f) == f = "none" \/ f \in events[e].matches

(* nblex_event_free; an event freed twice is freed memory that is used.    *)
Free(e) ==
    /\ events' = [events EXCEPT ![e].freed = TRUE]
    /\ misused' = IF events[e].freed THEN e ELSE 0

(* Emission of a result, in the middle of a call that goes on as `after`.  *)
EmitResult(type, after) ==
    /\ \E m \in Matching : Made(type, "none", m, TRUE)
    /\ stack' = <<Call("emit", New, "filter", <<>>)>> \o after

----------------------------------------------------------------------------
(* The sources.  A line of the file input, and an event an application     *)
(* emits for an input without a filter, belong to nblex_event_emit; one    *)
(* that the caller executes the query on, as the tests do, to the caller    *)
(* (of what type it is makes no difference then).                          *)
Source(type, input, call, matches) ==
    /\ misused = 0
    /\ stack = <<>>
    /\ sources < MaxSources
    /\ sources' = sources + 1
    /\ Made(type, input, matches, call[1].fn = "emit")
    /\ stack' = call
    /\ UNCHANGED <<setting, engine, execution, output, misused>>

FileLine(matches) ==
    /\ "file" \in Sources
    /\ Source("LOG", "file", <<Call("emit", New, "filter", <<>>)>>, matches)

CallerEmits(type, matches) ==
    /\ "emit" \in Sources
    /\ Source(type, "other", <<Call("emit", New, "filter", <<>>)>>, matches)

CallerExecutes(matches) ==
    /\ "execute" \in Sources
    /\ Source("LOG", "other", <<Call("execute", New, "begin", <<>>),
                               Call("caller", New, "free", <<>>)>>, matches)

(* packet_handler frees the event it has emitted.                          *)
Packet(matches) ==
    /\ "capture" \in Sources
    /\ Source("NETWORK", "pcap", <<Call("emit", New, "filter", <<>>),
                                    Call("caller", New, "free", <<>>)>>, matches)

CallerFrees ==
    /\ Running("caller", "free")
    /\ Free(This)
    /\ stack' = Return
    /\ UNCHANGED <<setting, engine, execution, output, sources>>

----------------------------------------------------------------------------
(* nblex_event_emit: the filter of the input, the engine, the handler, and *)
(* the free.                                                               *)
AdmittedByOne(e) == Passes(e, filter)
Admitted(e) == events[e].input = "file" => Passes(e, filter)

DroppedUnfreed(e) == UNCHANGED <<events, misused>>
Dropped(e) == Free(e)

EmitDrop ==
    /\ Running("emit", "filter")
    /\ ~Admitted(This)
    /\ Dropped(This)
    /\ stack' = Return
    /\ UNCHANGED <<setting, engine, execution, output, sources>>

(* The walk of correlation_check_event begins at the newest event of the   *)
(* other type; events that the walk itself causes to be added are put      *)
(* before it, and are not met.                                             *)
Opposite(e) ==
    CASE events[e].type = "LOG" -> network_events
      [] events[e].type = "NETWORK" -> log_events
      [] OTHER -> <<>>

EmitProcess ==
    /\ Running("emit", "filter")
    /\ Admitted(This)
    /\ events_processed' = events_processed + 1
    /\ stack' = <<Call("check", This, "walk", Opposite(This))>> \o Goto("handle")
    /\ UNCHANGED <<setting, events, log_events, network_events, correlated, execution,
                   output, sources, misused>>

CheckMatch ==
    /\ Running("check", "walk")
    /\ LET todo == Head(stack).todo
           other == Head(todo)
       IN  /\ todo # <<>>
           /\ correlated' = Append(correlated, IF events[This].type = "LOG"
                                               THEN <<This, other>> ELSE <<other, This>>)
           /\ EmitResult("CORRELATION", Walk("walk", Tail(todo)))
    /\ UNCHANGED <<setting, log_events, network_events, events_processed, execution,
                   output, sources, misused>>

(* add_to_buffer, once the walk is over.                                   *)
AddToBufferLogOnly(e) ==
    /\ log_events' = IF events[e].type # "CORRELATION" THEN <<e>> \o log_events ELSE log_events
    /\ UNCHANGED network_events
AddToBuffer(e) ==
    /\ log_events' = IF events[e].type = "LOG" THEN <<e>> \o log_events ELSE log_events
    /\ network_events' = IF events[e].type = "NETWORK" THEN <<e>> \o network_events
                                                       ELSE network_events

CheckAdd ==
    /\ Running("check", "walk")
    /\ Head(stack).todo = <<>>
    /\ AddToBuffer(This)
    /\ stack' = Return
    /\ UNCHANGED <<setting, events, events_processed, correlated, execution, output,
                   sources, misused>>

(* The call of the handler.  That of the command line takes the world from *)
(* the input, so it leaves alone the events that have none; its own part   *)
(* begins again when the query has been executed.                          *)
RunsQueryOnAll(e) == handler \in {"event_handler_query", "executes"}
RunsQuery(e) ==
    \/ handler = "event_handler_query" /\ events[e].input # "none"
    \/ handler = "executes"

EmitHandle ==
    /\ Running("emit", "handle")
    /\ handled' = Append(handled, This)
    /\ \/ /\ RunsQuery(This)
          /\ stack' = <<Call("execute", This, "begin", <<>>)>> \o
                      Goto(IF handler = "executes" THEN "free" ELSE "print")
          /\ UNCHANGED <<events, printed, sources>>
       \/ /\ handler = "emits" /\ events[This].type = "CORRELATION" /\ sources < MaxSources
          /\ sources' = sources + 1
          /\ EmitResult("LOG", Goto("free"))
          /\ UNCHANGED printed
       \/ /\ ~RunsQuery(This)
          /\ handler = "emits" => events[This].type # "CORRELATION" \/ sources = MaxSources
          /\ stack' = Goto("free")
          /\ printed' = IF handler = "event_handler_json" THEN printed \cup {This} ELSE printed
          /\ UNCHANGED <<events, sources>>
    /\ UNCHANGED <<setting, engine, execution, misused>>

(* event_handler_query, when nql_execute has returned.                     *)
HandlerPrint ==
    /\ Running("emit", "print")
    /\ printed' = IF result = 1 THEN printed \cup {This} ELSE printed
    /\ stack' = Goto("free")
    /\ UNCHANGED <<setting, events, engine, execution, handled, sources, misused>>

EmitFree ==
    /\ Running("emit", "free")
    /\ Free(This)
    /\ stack' = Return
    /\ UNCHANGED <<setting, engine, execution, output, sources>>

----------------------------------------------------------------------------
(* nql_execute, and execute_pipeline for a query of several stages: it     *)
(* ends with the first stage that does not match.                          *)
Answer(r) ==
    /\ result' = r
    /\ stack' = Return

ExecuteBegin ==
    /\ Running("execute", "begin")
    /\ executed' = executed \cup {This}
    /\ stack' = Goto("stage")
    /\ UNCHANGED <<setting, events, engine, result, contexts, joined, counted, output,
                   sources, misused>>

Stateful(stage) == stage.type \in {"aggregate", "correlate"}

\* The filters of a stage; execute_correlate takes an event that matches one.
Accepts(stage, e) ==
    IF stage.type = "correlate" THEN Passes(e, stage.left) \/ Passes(e, stage.right)
                                ELSE Passes(e, stage.where)

RefusedGoesOn == IF Stage < Len(query) THEN stack' = GotoStage(Stage + 1) /\ UNCHANGED result
                                       ELSE Answer(0)
Refused == Answer(0)

ExecuteRefuse ==
    /\ Running("execute", "stage")
    /\ Stage <= Len(query)
    /\ ~Accepts(query[Stage], This)
    /\ Refused
    /\ UNCHANGED <<setting, events, engine, contexts, executed, joined, counted, output,
                   sources, misused>>

ExecuteEnd ==
    /\ Running("execute", "stage")
    /\ Stage > Len(query)
    /\ Answer(1)
    /\ UNCHANGED <<setting, events, engine, contexts, executed, joined, counted, output,
                   sources, misused>>

(* execute_filter and execute_show *)
ExecuteFilter ==
    /\ Running("execute", "stage")
    /\ Stage <= Len(query)
    /\ ~Stateful(query[Stage])
    /\ Accepts(query[Stage], This)
    /\ stack' = GotoStage(Stage + 1)
    /\ UNCHANGED <<setting, events, engine, execution, output, sources, misused>>

(* get_agg_state and get_corr_state: the newest context with the string of *)
(* the whole query, of whatever type; the state in it is taken for one of  *)
(* the stage's own type.  A new one is empty.                              *)
NewContext(stage) ==
    [type |-> stage.type, left_events |-> <<>>, right_events |-> <<>>, buckets |-> <<>>]
Contexts(stage) == IF contexts = <<>> THEN <<NewContext(stage)>> ELSE contexts
Confused(stage) == contexts # <<>> /\ contexts[1].type # stage.type

ExecuteConfused ==
    /\ Running("execute", "stage")
    /\ Stage <= Len(query)
    /\ Stateful(query[Stage])
    /\ Accepts(query[Stage], This)
    /\ Confused(query[Stage])
    /\ misused' = This
    /\ UNCHANGED <<setting, events, stack, engine, execution, output, sources>>

(* execute_aggregate: the event is counted, and a query without a window   *)
(* emits its result at once.                                               *)
ExecuteAggregate ==
    /\ Running("execute", "stage")
    /\ Stage <= Len(query)
    /\ query[Stage].type = "aggregate"
    /\ Accepts(query[Stage], This)
    /\ ~Confused(query[Stage])
    /\ contexts' = [Contexts(query[Stage]) EXCEPT ![1].buckets = Append(@, This)]
    /\ counted' = Append(counted, This)
    /\ IF query[Stage].windowed
       THEN stack' = GotoStage(Stage + 1) /\ UNCHANGED events
       ELSE EmitResult("LOG", GotoStage(Stage + 1))
    /\ UNCHANGED <<setting, engine, result, executed, joined, output, sources, misused>>

(* execute_correlate: an event is added to the left buffer and joined with *)
(* the right one, then, if it matches that filter too, added to the right  *)
(* buffer and joined with the left one.                                    *)
Left(e) == Passes(e, query[Stage].left)
RightOnly(e) == ~Left(e) /\ Passes(e, query[Stage].right)
Right(e) == Passes(e, query[Stage].right)

WithLeft(cs, e) == [cs EXCEPT ![1].left_events = <<e>> \o @]
WithRight(cs, e) == [cs EXCEPT ![1].right_events = <<e>> \o @]

ExecuteCorrelate ==
    /\ Running("execute", "stage")
    /\ Stage <= Len(query)
    /\ query[Stage].type = "correlate"
    /\ Accepts(query[Stage], This)
    /\ ~Confused(query[Stage])
    /\ LET cs == Contexts(query[Stage])
       IN  IF Left(This)
           THEN contexts' = WithLeft(cs, This) /\ stack' = Walk("left", cs[1].right_events)
           ELSE contexts' = cs /\ stack' = Walk("left", <<>>)
    /\ UNCHANGED <<setting, events, engine, result, executed, joined, counted, output,
                   sources, misused>>

(* The second half begins with the buffers as the handlers of the results  *)
(* of the first half have left them.                                       *)
CorrelateRight ==
    /\ Running("execute", "left")
    /\ Head(stack).todo = <<>>
    /\ IF Right(This)
       THEN /\ contexts' = WithRight(contexts, This)
            /\ stack' = Walk("right", contexts[1].left_events)
       ELSE stack' = GotoStage(Stage + 1) /\ UNCHANGED contexts
    /\ UNCHANGED <<setting, events, engine, result, executed, joined, counted, output,
                   sources, misused>>

CorrelateDone ==
    /\ Running("execute", "right")
    /\ Head(stack).todo = <<>>
    /\ stack' = GotoStage(Stage + 1)
    /\ UNCHANGED <<setting, events, engine, execution, output, sources, misused>>

(* create_corr_result_event, and its emission in the middle of the walk.   *)
CorrelateMatch(side) ==
    /\ Running("execute", side)
    /\ LET todo == Head(stack).todo
           other == Head(todo)
       IN  /\ todo # <<>>
           /\ joined' = Append(joined, IF side = "left" THEN <<This, other>> ELSE <<other, This>>)
           /\ EmitResult("CORRELATION", Walk(side, Tail(todo)))
    /\ UNCHANGED <<setting, engine, result, contexts, executed, counted, output,
                   sources, misused>>

Next ==
    \/ \E m \in Matching : FileLine(m) \/ Packet(m) \/ CallerExecutes(m)
    \/ \E m \in Matching, type \in {"LOG", "NETWORK"} : CallerEmits(type, m)
    \/ CallerFrees
    \/ EmitDrop \/ EmitProcess \/ EmitHandle \/ HandlerPrint \/ EmitFree
    \/ CheckMatch \/ CheckAdd
    \/ ExecuteBegin \/ ExecuteRefuse \/ ExecuteEnd \/ ExecuteFilter \/ ExecuteConfused
    \/ ExecuteAggregate
    \/ ExecuteCorrelate \/ CorrelateRight \/ CorrelateDone
    \/ \E side \in {"left", "right"} : CorrelateMatch(side)

Spec == Init /\ [][Next]_vars
----------------------------------------------------------------------------
(* The types of the state; an event that a call has in hand exists.        *)
TypeOK ==
    /\ handler \in Handlers /\ query \in Queries /\ filter \in InputFilters
    /\ \A e \in DOMAIN events :
          /\ events[e].type \in {"LOG", "NETWORK", "CORRELATION"}
          /\ events[e].input \in {"file", "other", "pcap", "none"}
          /\ events[e].matches \subseteq Filters
    /\ \A i \in DOMAIN stack :
          /\ stack[i].event \in DOMAIN events
          /\ stack[i].stage \in 1..(Len(query) + 1)
          /\ \A j \in DOMAIN stack[i].todo : stack[i].todo[j] \in DOMAIN events
    /\ result \in {0, 1}
    /\ events_processed \in Nat
    /\ Len(contexts) <= 1

Idle == stack = <<>> /\ misused = 0
Elements(s) == {s[i] : i \in DOMAIN s}
Distinct(s) == Cardinality(Elements(s)) = Len(s)

OfTwoTypes == {"aggregate", "correlate"} \subseteq {query[k].type : k \in DOMAIN query}

(* Through every nesting of emissions, walks and queries, an event is      *)
(* alive as long as a call has it in hand, is freed once, and is not left  *)
(* behind: neither when the filter of its input drops it, nor when it is a *)
(* result emitted in the middle of a walk, nor when it stays its caller's. *)
(* The packets of a capture are the exception, and a query with two kinds  *)
(* of state is the one way to take a state for what it is not.             *)
FreedOnce ==
    /\ misused # 0 => events[misused].input = "pcap" \/ OfTwoTypes
    /\ \A i \in DOMAIN stack :
          events[stack[i].event].input # "pcap" => ~events[stack[i].event].freed
    /\ Idle => \A e \in DOMAIN events : events[e].freed

(* Every event that is emitted, results included, is handed to the handler *)
(* exactly once, unless the filter of its input drops it, and the world    *)
(* counts it exactly then.                                                 *)
HandledOnce ==
    Idle =>
        /\ Distinct(handled)
        /\ Elements(handled) =
              {e \in DOMAIN events :
                  /\ events[e].emitted
                  /\ events[e].input = "file" => filter \in {"none"} \cup events[e].matches}
        /\ events_processed = Len(handled)

\* Of its correlations, that is: handling one may emit a log event.
MakesLogEvents ==
    \/ handler = "emits"
    \/ handler = "executes" /\ \E k \in DOMAIN query : query[k].type = "aggregate"

(* Whatever is nested in its walks, the engine correlates each log event   *)
(* with each network event that it has processed, once, provided that the  *)
(* handler makes no log events of its own out of its correlations.         *)
EngineExact ==
    (Idle /\ ~MakesLogEvents) =>
        /\ Distinct(correlated)
        /\ Elements(correlated) =
              {p \in Elements(handled) \X Elements(handled) :
                  events[p[1]].type = "LOG" /\ events[p[2]].type = "NETWORK"}

Satisfies(e, k) == \A j \in 1..k : Accepts(query[j], e)
Reaching(k) == {e \in executed : Satisfies(e, k)}

(* A query with one stage that keeps a state joins, or counts, exactly the *)
(* events it was executed on and that the stages before let through: also  *)
(* those on which a handler executed it while one of its results was being *)
(* emitted, from the middle of the walk over the buffer they go into.      *)
QueryExact ==
    \A k \in DOMAIN query :
        (Idle /\ {j \in DOMAIN query : Stateful(query[j])} = {k}) =>
            IF query[k].type = "aggregate"
            THEN Distinct(counted) /\ Elements(counted) = Reaching(k)
            ELSE /\ Distinct(joined)
                 /\ Elements(joined) =
                       {p \in Reaching(k) \X Reaching(k) :
                           Passes(p[1], query[k].left) /\ Passes(p[2], query[k].right)}

(* The command line prints the events of its inputs that every stage of    *)
(* the query lets through, and no others, although the query is executed,  *)
(* and its results handled, inside the handling of the event.              *)
PrintedExact ==
    Idle /\ handler = "event_handler_query" => 
        printed = {e \in Reaching(Len(query)) : events[e].emitted}

(* With the handlers of the command line the calls nest to a fixed depth,  *)
(* however many events there are: a result may cause correlations, but no  *)
(* handler makes a further result of a result.                             *)
NestingBounded == handler \in CommandLineHandlers => Len(stack) <= 7

(* A capture's packets are freed once.  (They are freed twice.)            *)
PacketsFreedOnce == misused # 0 => events[misused].input # "pcap"

(* The engine correlates every log event with every network event, also    *)
(* when handlers emit events.  (An event emitted while a correlation of an *)
(* event is handled does not meet that event: it is not buffered yet.)     *)
EngineAlwaysExact ==
    Idle => Elements(correlated) =
              {p \in Elements(handled) \X Elements(handled) :
                  events[p[1]].type = "LOG" /\ events[p[2]].type = "NETWORK"}

(* Each stage of a pipeline has a state of its own.  (The states are found *)
(* by the string of the whole query.)                                      *)
StagesApart == misused # 0 => events[misused].input = "pcap"

(* Calls return: a query executed by the handler on every event does not   *)
(* nest without end.  (An aggregate without a window counts its results.)  *)
CallsReturn == Len(stack) <= 20

(* "Query matched - output event" (cli/main.c): with a query the results   *)
(* of it are printed.  (They have no input, and with it no world.)         *)
ResultsPrinted ==
    Idle /\ handler = "event_handler_query" =>
        \A e \in DOMAIN events : events[e].input = "none" => e \in printed
=============================================================================
