------------------------------ MODULE MCStartup ------------------------------
(* The command line for TLC: every document of MCConfig with --config, and  *)
(* every combination of the other options with one document.               *)
EXTENDS CommandLine, MCConfig

Invocation(given, format, output, doc) ==
    [options |-> [given |-> given, format |-> format, output |-> output, logs |-> "nginx.log",
                  filter |-> "level == E"],
     document |-> doc]

Plainest == Document(<<Inputs(<<>>, <<Eth, Lo>>)>>)
Others == {"filter", "query", "format", "output-file", "output-url"}

MCInvocations ==
    {Invocation({"config"}, "json", "json", doc) : doc \in MCDocuments} \cup
    {Invocation(monitored \cup others, format, output, Plainest) :
        monitored \in SUBSET {"logs", "network"}, others \in SUBSET Others,
        format \in {"logfmt", "xml"},
        output \in {"json", "file", "http", "metrics", "csv"}} \cup
    {Invocation({"config", "logs", "network"} \cup others, "json", output, Plainest) :
        others \in SUBSET {"query", "output-file"}, output \in {"json", "metrics"}} \cup
    {Invocation({"logs", o}, "json", "json", Plainest) : o \in {"version", "help", "unknown"}}
=============================================================================
