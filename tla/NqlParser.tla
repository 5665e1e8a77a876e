------------------------------ MODULE NqlParser ------------------------------
(***************************************************************************)
(* The parser of nQL (parsers/nql_parser.c) over sequences of tokens, and  *)
(* the writing of queries that it has to read back.                        *)
(*                                                                         *)
(* A parsed query is a record with its type.  A filter is a record of its  *)
(* text and the tree that the filter engine made of it: the parser hands   *)
(* the text over and keeps the tree only, but the model remembers the text *)
(* because the filter engine may have ignored the end of it.               *)
(*                                                                         *)
(* The system of this module is a user who takes the text of a query and   *)
(* changes a few tokens of it, and the parser, which reads every text.     *)
(***************************************************************************)
EXTENDS FilterEngine, FiniteSetsExt, SequencesExt

CONSTANTS
    Intents,        \* the queries a user may mean
    Alphabet,       \* the tokens an edit may insert
    MaxEdits,       \* bound: edits of a text
    DurationModulus,\* the number of values of an uint64_t
    EventData,      \* the data of events, to compare filters by
    Packets         \* the packets of a capture

ASSUME ParserAssumption ==
    /\ MaxEdits \in Nat
    /\ DurationModulus \in Nat \ {0}

DefaultWithin == 100
NoWindow == [type |-> "none"]
FieldFunctions == {"sum", "avg", "min", "max", "distinct"}
UnitMs == [ms |-> 1, s |-> 1000, m |-> 60000, h |-> 3600000]

----------------------------------------------------------------------------
(* parse_filter_expr: the text of a filter ends at a pipe or at one of     *)
(* `stops`, outside of brackets.  A closing bracket too many counts for    *)
(* nothing.                                                                *)
Depth(ts) ==
    FoldLeft(LAMBDA d, t : IF t = Sym("(") THEN d + 1
                           ELSE IF t = Sym(")") /\ d > 0 THEN d - 1 ELSE d, 0, ts)

FilterAt(ts, i, stops) ==
    LET ends == {j \in i..Len(ts) : /\ ts[j] \in stops \cup {Sym("|")}
                                    /\ Depth(SubSeq(ts, i, j - 1)) = 0}
        end  == Min(ends \cup {Len(ts) + 1})
        text == SubSeq(ts, i, end - 1)
    IN  IF text = <<>> THEN Failure
        ELSE Then(FilterNew(text), LAMBDA new : Success([text |-> text, tree |-> new.val], end))

(* An optional "where" with its filter: no filter or one.                  *)
WhereAt(ts, i, stops) ==
    IF ~Is(ts, i, Word("where")) THEN Success(<<>>, i)
    ELSE Then(FilterAt(ts, i + 1, stops), LAMBDA f : Success(<<f.val>>, f.next))

(* parse_duration *)
DurationAt(ts, i) ==
    IF Kind(ts, i) = "num" /\ Kind(ts, i + 1) = "word" /\ ts[i + 1][2] \in DOMAIN UnitMs
    THEN Success((ts[i][2] * UnitMs[ts[i + 1][2]]) % DurationModulus, i + 2)
    ELSE Failure

(* parse_agg_function *)
FunctionAt(ts, i) ==
    LET name == IF Kind(ts, i) = "word" /\ Is(ts, i + 1, Sym("(")) THEN ts[i][2] ELSE "none"
    IN  CASE name = "count" ->
                IF Is(ts, i + 2, Sym(")")) THEN Success([type |-> "count"], i + 3) ELSE Failure
          [] name \in FieldFunctions ->
                IF Kind(ts, i + 2) = "word" /\ Is(ts, i + 3, Sym(")"))
                THEN Success([type |-> name, field |-> ts[i + 2][2]], i + 4) ELSE Failure
          [] name = "percentile" ->
                IF /\ Kind(ts, i + 2) = "word" /\ Is(ts, i + 3, Sym(","))
                   /\ Kind(ts, i + 4) \in {"num", "real"} /\ Is(ts, i + 5, Sym(")"))
                THEN Success([type |-> name, field |-> ts[i + 2][2],
                              percentile |-> ts[i + 4]], i + 6)
                ELSE Failure
          [] OTHER -> Failure

(* parse_identifier *)
IdentifierAt(ts, i) == IF Kind(ts, i) = "word" THEN Success(ts[i][2], i + 1) ELSE Failure

(* The three lists separated by commas: functions, group keys, fields.     *)
RECURSIVE ListAt(_, _, _)
ListAt(ts, i, of) ==
    Then(IF of = "functions" THEN FunctionAt(ts, i) ELSE IdentifierAt(ts, i), LAMBDA first :
        IF ~Is(ts, first.next, Sym(",")) THEN Success(<<first.val>>, first.next)
        ELSE Then(ListAt(ts, first.next + 1, of), LAMBDA rest :
                 Success(<<first.val>> \o rest.val, rest.next)))

----------------------------------------------------------------------------
(* parse_correlate, behind its keyword.                                    *)
WithinOrNone(ms) == ms
Within(ms) == IF ms = 0 THEN DefaultWithin ELSE ms

CorrelateAt(ts, i) ==
    Then(FilterAt(ts, i, {Word("with"), Word("within")}), LAMBDA left :
    IF ~Is(ts, left.next, Word("with")) THEN Failure ELSE
    Then(FilterAt(ts, left.next + 1, {Word("within")}), LAMBDA right :
    Then(IF Is(ts, right.next, Word("within")) THEN DurationAt(ts, right.next + 1)
                                               ELSE Success(0, right.next), LAMBDA ms :
        Success([type |-> "correlate", left |-> left.val, right |-> right.val,
                 within |-> Within(ms.val)], ms.next))))

(* The window of an aggregation.  Without a type it is a tumbling one.     *)
Closing(ts, r) == IF Is(ts, r.next, Sym(")")) THEN Success(r.val, r.next + 1) ELSE Failure

WindowAt(ts, i) ==
    LET Named(type) == Is(ts, i, Word(type)) /\ Is(ts, i + 1, Sym("("))
        Tumbling(size) == Success([type |-> "tumbling", size |-> size.val], size.next)
        Session(timeout) == Success([type |-> "session", timeout |-> timeout.val], timeout.next)
        Sliding(size, slide) ==
            Success([type |-> "sliding", size |-> size.val, slide |-> slide.val], slide.next)
    IN  CASE Named("tumbling") -> Then(DurationAt(ts, i + 2), LAMBDA size :
                                      Closing(ts, Tumbling(size)))
          [] Named("session")  -> Then(DurationAt(ts, i + 2), LAMBDA timeout :
                                      Closing(ts, Session(timeout)))
          [] Named("sliding")  -> Then(DurationAt(ts, i + 2), LAMBDA size :
                                      IF ~Is(ts, size.next, Sym(",")) THEN Failure
                                      ELSE Then(DurationAt(ts, size.next + 1), LAMBDA slide :
                                               Closing(ts, Sliding(size, slide))))
          [] OTHER -> Then(DurationAt(ts, i), Tumbling)

(* parse_aggregate, behind its keyword.  The functions may be in brackets. *)
WhereStopsAtPipe == {}
WhereStops == {Word("window")}

AggregateAt(ts, i) ==
    Then(IF Is(ts, i, Sym("(")) THEN Then(ListAt(ts, i + 1, "functions"), LAMBDA r : Closing(ts, r))
                                ELSE ListAt(ts, i, "functions"), LAMBDA funcs :
    Then(IF Is(ts, funcs.next, Word("by")) THEN ListAt(ts, funcs.next + 1, "keys")
                                           ELSE Success(<<>>, funcs.next), LAMBDA by :
    Then(WhereAt(ts, by.next, WhereStops), LAMBDA where :
    Then(IF Is(ts, where.next, Word("window")) THEN WindowAt(ts, where.next + 1)
                                               ELSE Success(NoWindow, where.next), LAMBDA window :
        Success([type |-> "aggregate", funcs |-> funcs.val, by |-> by.val,
                 where |-> where.val, window |-> window.val], window.next)))))

(* parse_show behind its keyword, and parse_select_all: a star or a list.  *)
ShowAt(ts, i) ==
    LET all == Is(ts, i, Sym("*"))
    IN  Then(IF all THEN Success(<<>>, i + 1) ELSE ListAt(ts, i, "fields"), LAMBDA fields :
        Then(WhereAt(ts, fields.next, {}), LAMBDA where :
            Success([type |-> "show", all |-> all, fields |-> fields.val,
                     where |-> where.val], where.next)))

(* parse_single_query: the first word decides, and an error behind it is   *)
(* final.                                                                  *)
StageAt(ts, i) ==
    CASE Is(ts, i, Word("correlate")) -> CorrelateAt(ts, i + 1)
      [] Is(ts, i, Word("aggregate")) -> AggregateAt(ts, i + 1)
      [] Is(ts, i, Word("show"))      -> ShowAt(ts, i + 1)
      [] Is(ts, i, Sym("*"))          -> ShowAt(ts, i)
      [] OTHER -> Then(FilterAt(ts, i, {}), LAMBDA f :
                      Success([type |-> "filter", filter |-> f.val], f.next))

(* parse_pipeline: the stages between the pipes.                           *)
RECURSIVE StagesAt(_, _)
StagesAt(ts, i) ==
    Then(StageAt(ts, i), LAMBDA stage :
        IF ~Is(ts, stage.next, Sym("|")) THEN Success(<<stage.val>>, stage.next)
        ELSE Then(StagesAt(ts, stage.next + 1), LAMBDA rest :
                 Success(<<stage.val>> \o rest.val, rest.next)))

(* nql_parse_ex: the stages must be the whole of the text.                 *)
AnyEnd(ts, next) == TRUE
AtEnd(ts, next) == next > Len(ts)

NqlParse(ts) ==
    Then(StagesAt(ts, 1), LAMBDA stages :
        IF ~AtEnd(ts, stages.next) THEN Failure
        ELSE Success(IF Len(stages.val) = 1 THEN stages.val[1]
                     ELSE [type |-> "pipeline", stages |-> stages.val], stages.next))

----------------------------------------------------------------------------
(* How a query is written.  A style says whether the functions are in      *)
(* brackets, whether the type of a tumbling window is left out, how the    *)
(* default of "within" is written and whether a lone star has its "show".  *)
Styles == [wrapped : BOOLEAN, shorthand : BOOLEAN, bare : BOOLEAN,
           within : {"written", "left out", "zero"}]

Duration(ms) == <<<<"num", ms>>, Word("ms")>>

Commas(items) ==
    FoldLeft(LAMBDA text, item : IF text = <<>> THEN item ELSE text \o <<Sym(",")>> \o item,
             <<>>, items)

Names(fields) == Commas([k \in DOMAIN fields |-> <<Word(fields[k])>>])

FunctionText(f) ==
    LET arguments == CASE f.type = "count" -> <<>>
                       [] f.type = "percentile" ->
                            <<Word(f.field), Sym(","), f.percentile>>
                       [] OTHER -> <<Word(f.field)>>
    IN  <<Word(f.type), Sym("(")>> \o arguments \o <<Sym(")")>>

WhereText(where) == IF where = <<>> THEN <<>> ELSE <<Word("where")>> \o where[1].text

WithinText(ms, style) ==
    CASE ms = DefaultWithin /\ style.within = "left out" -> <<>>
      [] ms = DefaultWithin /\ style.within = "zero" -> <<Word("within")>> \o Duration(0)
      [] OTHER -> <<Word("within")>> \o Duration(ms)

WindowText(w, style) ==
    LET Typed(durations) == <<Word("window"), Word(w.type), Sym("(")>> \o durations
                            \o <<Sym(")")>>
    IN  CASE w.type = "none"     -> <<>>
          [] w.type = "session"  -> Typed(Duration(w.timeout))
          [] w.type = "sliding"  -> Typed(Duration(w.size) \o <<Sym(",")>> \o Duration(w.slide))
          [] w.type = "tumbling" -> IF style.shorthand THEN <<Word("window")>> \o Duration(w.size)
                                    ELSE Typed(Duration(w.size))

StageText(q, style) ==
    CASE q.type = "filter" -> q.filter.text
      [] q.type = "correlate" ->
            <<Word("correlate")>> \o q.left.text \o <<Word("with")>> \o q.right.text
            \o WithinText(q.within, style)
      [] q.type = "aggregate" ->
            LET funcs == Commas([k \in DOMAIN q.funcs |-> FunctionText(q.funcs[k])])
            IN  <<Word("aggregate")>>
                \o (IF style.wrapped THEN <<Sym("(")>> \o funcs \o <<Sym(")")>> ELSE funcs)
                \o (IF q.by = <<>> THEN <<>> ELSE <<Word("by")>> \o Names(q.by))
                \o WhereText(q.where) \o WindowText(q.window, style)
      [] q.type = "show" ->
            (IF q.all /\ style.bare THEN <<>> ELSE <<Word("show")>>)
            \o (IF q.all THEN <<Sym("*")>> ELSE Names(q.fields)) \o WhereText(q.where)

Stages(q) == IF q.type = "pipeline" THEN q.stages ELSE <<q>>

(* The texts of a query, each stage in a style of its own.                 *)
StageTexts(q) == {StageText(q, style) : style \in Styles}
Writings(q) ==
    FoldLeft(LAMBDA texts, stage :
                 {text \o <<Sym("|")>> \o next : text \in texts, next \in StageTexts(stage)},
             StageTexts(Stages(q)[1]), Tail(Stages(q)))

(* A text with all durations in milliseconds.                              *)
InMilliseconds(ts) ==
    [i \in DOMAIN ts |->
        CASE DurationAt(ts, i).ok -> <<"num", DurationAt(ts, i).val>>
          [] i > 1 /\ DurationAt(ts, i - 1).ok -> Word("ms")
          [] OTHER -> ts[i]]

(* A query with its filters replaced by the data they match.               *)
Matches(f) == {d \in EventData : Evaluate(f.tree, d)}
MeaningOfStage(q) ==
    LET Where(where) == [k \in DOMAIN where |-> Matches(where[k])]
    IN  CASE q.type = "filter"    -> [q EXCEPT !.filter = Matches(@)]
          [] q.type = "correlate" -> [q EXCEPT !.left = Matches(@), !.right = Matches(@)]
          [] OTHER                -> [q EXCEPT !.where = Where(@)]
Meaning(q) == [k \in DOMAIN Stages(q) |-> MeaningOfStage(Stages(q)[k])]

----------------------------------------------------------------------------
VARIABLES
    intent,   \* history: the query that was meant
    query,    \* query_str, the text
    edits     \* the edits made to it

vars == <<intent, query, edits>>

Init ==
    /\ intent \in Intents
    /\ query \in Writings(intent)
    /\ edits = 0

DropToken(i) == query' = RemoveAt(query, i)
ReplaceToken(i) == \E t \in Alphabet \ {query[i]} : query' = [query EXCEPT ![i] = t]
InsertToken(i) == \E t \in Alphabet : query' = InsertAt(query, i, t)

Edit ==
    /\ edits < MaxEdits
    /\ \/ \E i \in 1..Len(query) : DropToken(i) \/ ReplaceToken(i)
       \/ \E i \in 1..Len(query) + 1 : InsertToken(i)
    /\ edits' = edits + 1
    /\ UNCHANGED intent

Next == Edit
Spec == Init /\ [][Next]_vars

----------------------------------------------------------------------------
WellFormed(q) ==
    CASE q.type = "filter"    -> q.filter.text # <<>>
      [] q.type = "correlate" -> q.within \in 1..DurationModulus - 1
      [] q.type = "aggregate" ->
            /\ q.funcs # <<>>
            /\ \A name \in DOMAIN q.window \ {"type"} : q.window[name] < DurationModulus
      [] q.type = "show"      -> q.all <=> q.fields = <<>>

(* What is accepted is a query the executor can run: stages of the five    *)
(* types, functions to compute, a correlation with a window in which       *)
(* events can meet.                                                        *)
TypeOK ==
    /\ edits \in 0..MaxEdits
    /\ LET q == NqlParse(query)
       IN  q.ok => /\ Stages(q.val) # <<>>
                   /\ \A k \in DOMAIN Stages(q.val) : WellFormed(Stages(q.val)[k])

(* A query is read as it was meant, in every way of writing it: its        *)
(* clauses, lists and durations are those meant, and its filters match the *)
(* same events (the whole of nql_parse_ex and nblex_filter_new).           *)
RoundTrip ==
    edits = 0 => LET q == NqlParse(query) IN q.ok /\ Meaning(q.val) = Meaning(intent)

(* The parser passes over nothing: a text that nql_parse_ex accepts is one *)
(* of the writings of the query it made of it, however the text came       *)
(* about.  No clause is lost, read twice or taken from another stage.      *)
NothingIgnored ==
    LET q == NqlParse(query)
    IN  q.ok => InMilliseconds(query) \in {InMilliseconds(ts) : ts \in Writings(q.val)}

(* The part of a filter that a capture hands to the kernel                 *)
(* (nblex_filter_to_bpf) drops no packet whose event the filter matches.   *)
PushdownSound ==
    LET f == FilterNew(query)
    IN  f.ok => \A packet \in Packets :
            Evaluate(f.val, PacketData(packet)) => BpfAccepts(FilterToBpf(f.val), packet)
=============================================================================
