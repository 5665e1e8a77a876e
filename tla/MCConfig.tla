------------------------------- MODULE MCConfig -------------------------------
(* Configuration files for TLC: the sections of the documentation's         *)
(* examples in every order.                                                *)
EXTENDS Config

(* FlattenSeq, which is slow when evaluated by its definition.             *)
RECURSIVE Concatenated(_)
Concatenated(seqs) == IF seqs = <<>> THEN <<>> ELSE Head(seqs) \o Concatenated(Tail(seqs))
ElementsOf(seq) == {seq[k] : k \in DOMAIN seq}

Scalar(s) == [type |-> "scalar", value |-> s]
Of(type) == <<[type |-> type]>>

(* A node of a document is <<"scalar", s>>, <<"list", nodes>> or            *)
(* <<"mapping", pairs>> with pairs of a key and a node.                    *)
RECURSIVE Events(_)
Events(node) ==
    CASE node[1] = "scalar" -> <<Scalar(node[2])>>
      [] node[1] = "list" ->
            Of("sequence start") \o Concatenated([k \in DOMAIN node[2] |-> Events(node[2][k])])
            \o Of("sequence end")
      [] node[1] = "mapping" ->
            Of("mapping start")
            \o Concatenated([k \in DOMAIN node[2] |-> <<Scalar(node[2][k][1])>> \o Events(node[2][k][2])])
            \o Of("mapping end")

Map(pairs) == <<"mapping", pairs>>
List(nodes) == <<"list", nodes>>
S(key, value) == <<key, <<"scalar", value>>>>

(* The texts in a node, and the keys with a scalar.                        *)
Texts(node) ==
    LET events == Events(node)
    IN  {events[k].value : k \in {j \in DOMAIN events : events[j].type = "scalar"}}
ItemOf(pairs) ==
    LET scalars == {k \in DOMAIN pairs : pairs[k][2][1] = "scalar"}
    IN  [key \in {pairs[k][1] : k \in scalars} |->
            pairs[CHOOSE k \in scalars : pairs[k][1] = key][2][2]]
InputOf(pairs) ==
    [key \in InputKeys |-> IF key \in DOMAIN ItemOf(pairs) THEN ItemOf(pairs)[key] ELSE None]

App    == <<S("name", "app"), S("type", "file"), S("path", "app.log"), S("format", "logfmt")>>
Web    == <<S("name", "web"), S("type", "file"), S("path", "nginx.log"),
            S("filter", "level == E")>>
Bad    == <<S("name", "bad"), S("type", "file"), S("path", "bad.log"), S("filter", "((")>>
Nested == <<S("name", "java"), S("type", "file"), S("path", "java.log"),
            <<"multiline", Map(<<S("pattern", "x"), S("format", "y")>>)>>, S("format", "syslog")>>
Listed == <<S("name", "csv"), <<"columns", List(<<<<"scalar", "type">>, <<"scalar", "path">>>>)>>,
            S("type", "file"), S("path", "csv.log")>>
Eth    == <<S("name", "eth"), S("type", "pcap"), S("interface", "eth0"), S("filter", "port 80")>>
Lo     == <<S("type", "pcap"), S("interface", "lo")>>
Remote == <<S("name", "remote"), S("type", "syslog"), S("path", "udp")>>
ToFile == <<S("name", "all"), S("type", "file"), S("path", "out.log")>>
ToPage == <<S("name", "page"), S("type", "http"), S("url", "there")>>

Inputs(logs, network) ==
    [name |-> "inputs", items |-> logs \o network,
     plain |-> (logs = <<>> \/ network = <<>>)
               /\ \A p \in ElementsOf(logs \o network) : \A k \in DOMAIN p : p[k][2][1] = "scalar",
     node |-> Map((IF logs = <<>> THEN <<>>
                   ELSE <<<<"logs", List([k \in DOMAIN logs |-> Map(logs[k])])>>>>)
                  \o (IF network = <<>> THEN <<>>
                      ELSE <<<<"network", List([k \in DOMAIN network |-> Map(network[k])])>>>>))]
Outputs(items) ==
    [name |-> "outputs", items |-> items, plain |-> TRUE,
     node |-> List([k \in DOMAIN items |-> Map(items[k])])]
Settings(name, pairs) ==
    [name |-> name, items |-> <<>>,
     plain |-> \A k \in DOMAIN pairs : pairs[k][2][1] = "scalar", node |-> Map(pairs)]

Strategies == <<"strategies", List(<<Map(<<S("type", "time_based"), S("window", "100ms")>>)>>)>>
Correlations == {Settings("correlation", <<S("enabled", "true"), S("window_ms", "50")>>),
                 Settings("correlation", <<S("enabled", "false"), Strategies, S("window_ms", "200")>>)}
Performances == {Settings("performance", <<S("worker_threads", "8"), S("buffer_size", "128MB"),
                                           S("memory_limit", "2GB")>>)}
InputSections == {Inputs(<<App, Web>>, <<>>), Inputs(<<>>, <<Eth, Lo>>), Inputs(<<App>>, <<Eth, Lo>>),
                  Inputs(<<Nested, App>>, <<>>), Inputs(<<App, Nested>>, <<Eth>>),
                  Inputs(<<Listed, Bad>>, <<>>), Inputs(<<Remote, Bad, Web>>, <<>>)}
OutputSections == {Outputs(<<ToPage, ToFile>>), Outputs(<<ToPage>>)}

(* Up to four sections, each at most once, in every order.                 *)
AtMostOne(sections) == {<<>>} \cup {<<x>> : x \in sections}
Selections == {<<c, p, i, o>> : c \in AtMostOne(Correlations), p \in AtMostOne(Performances),
                               i \in AtMostOne(InputSections), o \in AtMostOne(OutputSections)}
Orders == {f \in [1..4 -> 1..4] : \A i, j \in 1..4 : i # j => f[i] # f[j]}
Ordered(selection, order) == Concatenated([k \in 1..4 |-> selection[order[k]]])

MeantValue(sections, section, key, default) ==
    LET found == {k \in DOMAIN sections : sections[k].name = section}
        pairs == sections[CHOOSE k \in found : TRUE].node[2]
        at    == {k \in DOMAIN pairs : pairs[k][1] = key}
    IN  IF found = {} THEN default ELSE pairs[CHOOSE k \in at : TRUE][2][2]

MCNumerals == [s \in {"50", "200", "100", "4", "8", "64MB", "128MB", "1024MB", "2GB"} |->
    CASE s = "50"  -> [number |-> 50, unit |-> ""]
      [] s = "200" -> [number |-> 200, unit |-> ""]
      [] s = "100" -> [number |-> 100, unit |-> ""]
      [] s = "4"   -> [number |-> 4, unit |-> ""]
      [] s = "8"   -> [number |-> 8, unit |-> ""]
      [] s = "64MB"   -> [number |-> 64, unit |-> "MB"]
      [] s = "128MB"  -> [number |-> 128, unit |-> "MB"]
      [] s = "1024MB" -> [number |-> 1024, unit |-> "MB"]
      [] s = "2GB"    -> [number |-> 2, unit |-> "GB"]]

Document(sections) ==
    LET pairs == <<S("version", "1.0")>>
                 \o [k \in DOMAIN sections |-> <<sections[k].name, sections[k].node>>]
        names == {sections[k].name : k \in DOMAIN sections}
        places == [name \in names |->
                      LET k == CHOOSE k \in DOMAIN sections : sections[k].name = name
                      IN  Len(Events(Map(SubSeq(pairs, 1, k))))]
        items == Concatenated([k \in DOMAIN sections |-> sections[k].items])
        inputs == Concatenated([k \in DOMAIN sections |->
                      IF sections[k].name = "inputs" THEN sections[k].items ELSE <<>>])
        Meant(section, key, default) == MeantValue(sections, section, key, default)
    IN  [events   |-> Events(Map(pairs)),
         places   |-> places,
         starts   |-> IF inputs = <<>> THEN <<>>
                      ELSE [k \in 1..(Len(inputs) + 1) |->
                               places["inputs"] + 4
                               + Len(Concatenated([j \in 1..(k - 1) |-> Events(Map(inputs[j]))]))],
         plain    |-> {sections[k].name : k \in {j \in DOMAIN sections : sections[j].plain}},
         items    |-> {Texts(Map(items[k])) : k \in DOMAIN items}
                     \cup {Texts(Strategies[2])},
         meant    |-> [inputs |-> [k \in DOMAIN inputs |-> InputOf(inputs[k])],
                       correlation_enabled |-> Meant("correlation", "enabled", "true") = "true",
                       correlation_window_ms |->
                           MCNumerals[Meant("correlation", "window_ms", "100")].number,
                       worker_threads |->
                           MCNumerals[Meant("performance", "worker_threads", "4")].number,
                       buffer_size |-> MCNumerals[Meant("performance", "buffer_size", "64MB")],
                       memory_limit |-> MCNumerals[Meant("performance", "memory_limit", "1024MB")]]]

MCDocuments == {Document(Ordered(c, o)) : c \in Selections, o \in Orders}

(* The order of the documentation's examples: inputs first.                *)
InputsFirst == {Document(<<i, c, o>>) : i \in {Inputs(<<App, Web>>, <<>>)},
                                        c \in Correlations, o \in OutputSections}

MCDetected == [p \in {"app.log", "nginx.log", "bad.log", "java.log", "csv.log", "out.log", "udp"} |->
                  IF p = "nginx.log" THEN "nginx" ELSE "json"]
MCCompiles == {"level == E"}
=============================================================================
