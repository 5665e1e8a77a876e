------------------------------- MODULE MCQuery -------------------------------
(* Model values of NqlParser for TLC: the queries meant, the tokens a text  *)
(* may be edited with, events and packets.                                 *)
EXTENDS NqlParser

Cmp(field, op, value) ==
    <<"expr", [field |-> Word(field), op |-> op, value |-> value]>>

Token(v) == CASE v[1] = "string"  -> <<"str", v[2]>>
              [] v[1] = "integer" -> <<"num", v[2]>>
              [] v[1] = "boolean" -> Word(IF v[2] THEN "true" ELSE "false")
              [] v[1] = "regex"   -> <<"pat", v[2]>>
              [] OTHER            -> v

(* The text of a tree, with brackets around what binds less than it should. *)
RECURSIVE Text(_)
Text(n) ==
    LET Operand(m) == IF m[1] \in {"and", "or"} THEN <<Sym("(")>> \o Text(m) \o <<Sym(")")>>
                      ELSE Text(m)
    IN  CASE n[1] = "expr" -> <<n[2].field, <<"op", n[2].op>>, Token(n[2].value)>>
          [] n[1] = "not"  -> <<Word("not")>> \o Operand(n[2])
          [] OTHER         -> Text(n[2]) \o <<Word(n[1])>> \o Operand(n[3])

Filter(n) == [tree |-> n, text |-> Text(n)]
Bracketed(n) == [tree |-> n, text |-> <<Sym("(")>> \o Text(n) \o <<Sym(")")>>]

Error  == Cmp("level", "==", <<"string", "E">>)
Fails  == Cmp("status", ">=", <<"integer", 5>>)
Status == Cmp("status", "==", <<"integer", 5>>)
Slow   == Cmp("latency", "<", <<"real", 4>>)
Down   == Cmp("up", "!=", <<"boolean", TRUE>>)
Named  == Cmp("level", "=~", <<"regex", {"E", "W"}>>)
Other  == Cmp("level", "!~", <<"regex", {"E", "W"}>>)
Web    == Cmp("network.dst_port", "==", <<"integer", 80>>)
Tcp    == Cmp("network.protocol", "==", <<"string", "tcp">>)
FromC  == Cmp("network.src_ip", "==", <<"string", "c">>)
FromA  == Cmp("ip_src", "==", <<"string", "a">>)

Trees == {Error, Status, Slow, Other, <<"not", <<"not", Error>>>>,
          <<"and", <<"or", Error, Down>>, Fails>>, <<"or", <<"and", Slow, Named>>, Status>>,
          <<"or", Web, FromA>>, <<"and", <<"or", FromC, Tcp>>, FromA>>, <<"and", FromA, <<"not", Tcp>>>>}

FilterQ(f) == [type |-> "filter", filter |-> f]
CorrelateQ(left, right, ms) ==
    [type |-> "correlate", left |-> left, right |-> right, within |-> ms]
AggregateQ(funcs, by, where, window) ==
    [type |-> "aggregate", funcs |-> funcs, by |-> by, where |-> where, window |-> window]
ShowQ(fields, where) ==
    [type |-> "show", all |-> fields = <<>>, fields |-> fields, where |-> where]
PipelineQ(stages) == [type |-> "pipeline", stages |-> stages]

Count == [type |-> "count"]
Avg   == [type |-> "avg", field |-> "latency"]
P95   == [type |-> "percentile", field |-> "latency", percentile |-> <<"num", 95>>]

Tumbling == [type |-> "tumbling", size |-> 300]
Sliding  == [type |-> "sliding", size |-> 300, slide |-> 5]
Session  == [type |-> "session", timeout |-> 5]

AllOf == FilterQ(Filter(Error))
CountAll == AggregateQ(<<Count>>, <<>>, <<>>, NoWindow)

MCIntents ==
    {FilterQ(Filter(n)) : n \in Trees} \cup
    {FilterQ(Bracketed(Error)),
     CorrelateQ(Filter(Error), Filter(<<"or", Status, Down>>), 5),
     CorrelateQ(Bracketed(Slow), Filter(Named), DefaultWithin),
     CountAll,
     AggregateQ(<<P95>>, <<"level">>, <<>>, Sliding),
     AggregateQ(<<Avg, Count>>, <<"level", "up">>, <<Filter(Status)>>, Tumbling),
     AggregateQ(<<Count>>, <<>>, <<Bracketed(Error)>>, Session),
     ShowQ(<<>>, <<>>), ShowQ(<<>>, <<Filter(Error)>>), ShowQ(<<"level", "up">>, <<Filter(Fails)>>),
     PipelineQ(<<AllOf, CountAll>>),
     PipelineQ(<<AllOf, ShowQ(<<"level">>, <<>>), ShowQ(<<>>, <<>>)>>),
     PipelineQ(<<CorrelateQ(Filter(Error), Filter(Fails), DefaultWithin), AllOf>>)}

(* Filters with brackets around several comparisons.                       *)
GroupedIntents ==
    {FilterQ(Filter(<<"and", Fails, <<"or", Error, Down>>>>)),
     FilterQ([tree |-> <<"and", <<"or", Error, Down>>, Fails>>,
              text |-> <<Sym("(")>> \o Text(<<"or", Error, Down>>) \o <<Sym(")"), Word("and")>>
                       \o Text(Fails)])}

(* A number compared for equality with a dotted name behind it.            *)
DottedIntents == {FilterQ(Filter(<<"or", Status, Web>>))}

RefutedIntents == GroupedIntents \cup DottedIntents

MCAlphabet ==
    {Word(w) : w \in {"level", "status", "notice", "and", "or", "not", "in", "where", "window",
                      "with", "within", "by", "show", "aggregate", "count", "sum", "session",
                      "s", "h", "true"}}
    \cup {Sym(c) : c \in {"(", ")", ",", "*", "|"}}
    \cup {<<"op", "==">>, <<"op", "<">>, <<"op", "=~">>, <<"str", "E">>, <<"num", 5>>,
          <<"real", 4>>, <<"pat", {"E"}>>}

MCDottedNames == {"network.dst_port", "network.protocol"}
MCAddresses == {"a", "b", "c"}
MCAfterNot == [notice |-> "ice"]

Event(level, status) ==
    [level |-> <<"string", level>>, status |-> <<"integer", status>>]
MCEventData ==
    {Event(level, status) : level \in {"E", "W", "I"}, status \in {4, 5, 6}}
    \cup {[latency |-> <<"real", x>>, up |-> <<"boolean", b>>, level |-> <<"string", l>>] :
              x \in {3, 4}, b \in BOOLEAN, l \in {"E", "I"}}

Packet(protocol, src_port, dst_port, src, dst) ==
    [name \in {"network.protocol", "network.src_port", "network.dst_port",
               "network.src_ip", "network.dst_ip"} |->
        CASE name = "network.protocol" -> protocol
          [] name = "network.src_port" -> src_port
          [] name = "network.dst_port" -> dst_port
          [] name = "network.src_ip"   -> src
          [] name = "network.dst_ip"   -> dst]
MCPackets == {Packet(p, 22, port, src, "b") :
                  p \in {"tcp", "udp", "icmp"}, port \in {22, 80}, src \in {"a", "b"}}
=============================================================================
