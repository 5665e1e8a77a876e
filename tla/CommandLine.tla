------------------------------ MODULE CommandLine ------------------------------
(***************************************************************************)
(* The command line (cli/main.c): from the options to a running world with *)
(* its inputs, outputs and event handler, and every way out of main.  The  *)
(* configuration file is loaded by Config, whose steps are steps of main.  *)
(*                                                                         *)
(* The objects main makes are live from their creation to their free; what *)
(* is freed without being live is remembered as misused.                   *)
(***************************************************************************)
EXTENDS Config

CONSTANTS
    Invocations   \* options, with the document of --config

(* Of the options, `given` are the names of those that are there, and      *)
(* format, output, logs and filter the texts of these four.                *)
ASSUME CommandLineAssumption ==
    /\ {i.document : i \in Invocations} \subseteq Documents
    /\ \A i \in Invocations :
          {"given", "format", "output", "logs", "filter"} \subseteq DOMAIN i.options

VARIABLES
    options,    \* the options
    pc,         \* where main is
    live,       \* the objects that exist
    misused,    \* history: objects freed that did not exist
    handler,    \* the event handler of the world
    log_input,  \* format and filter of the input that --logs made, or none
    capture     \* whether --network made an input, and its filter

mainVars == <<options, pc, live, misused, handler, log_input, capture>>
allVars == <<vars, mainVars>>

OutputOf == [file |-> "file_output", http |-> "http_output", metrics |-> "metrics_output"]
Outputs_ == {OutputOf[o] : o \in DOMAIN OutputOf}
NoInput == [created |-> FALSE, format |-> "json", filter |-> None]

MainInit ==
    /\ \E i \in Invocations : options = i.options /\ document = i.document
    /\ LoaderInit
    /\ pc = "options"
    /\ live = {}
    /\ misused = {}
    /\ handler = "none"
    /\ log_input = NoInput
    /\ capture = NoInput

Given(name) == name \in options.given

(* Freeing objects, those among them that are there at all in the case of  *)
(* pointers main tests first.                                              *)
Freed(always, ifThere) ==
    /\ misused' = misused \cup (always \ live)
    /\ live' = live \ (always \cup ifThere)

Exit(always, ifThere) == pc' = "exit" /\ Freed(always, ifThere)
KeepsObjects == UNCHANGED <<live, misused>>
KeepsInputs == UNCHANGED <<log_input, capture>>

----------------------------------------------------------------------------
(* getopt_long, and what is asked for without anything to monitor.         *)
ParseOptions ==
    /\ pc = "options"
    /\ pc' = IF options.given \cap {"version", "help", "unknown"} # {}
                \/ options.given \cap {"logs", "network", "config"} = {}
             THEN "exit" ELSE "open"
    /\ KeepsObjects /\ KeepsInputs
    /\ UNCHANGED <<vars, options, handler>>

(* nblex_world_new and nblex_world_open, either of which may fail; a world *)
(* that does not open is freed.                                            *)
Open ==
    /\ pc = "open"
    /\ \/ Exit({}, {})
       \/ /\ pc' = IF Given("config") THEN "config" ELSE "inputs"
          /\ live' = live \cup {"world"}
          /\ UNCHANGED misused
    /\ KeepsInputs
    /\ UNCHANGED <<vars, options, handler>>

(* nblex_config_load_yaml and nblex_config_apply.                          *)
LoadConfig ==
    /\ pc = "config"
    /\ Next
    /\ CASE phase' = "failed" -> Exit({"world"}, {})
         [] phase' = "loaded" -> pc' = pc /\ live' = live \cup {"config"} /\ UNCHANGED misused
         [] phase' = "applied" ->
                /\ pc' = "outputs"
                /\ live' = live \cup {"capture" : k \in {j \in DOMAIN world'.inputs :
                                                           world'.inputs[j].type = "pcap"}}
                /\ UNCHANGED misused
         [] OTHER -> pc' = pc /\ KeepsObjects
    /\ KeepsInputs
    /\ UNCHANGED <<options, handler>>

(* How main leaves once the world is open and before it is started.        *)
AbandonedWithoutConfig(always) == Exit(always, {})
Abandoned(always) == Exit(always, {"config"})

FormatKnown(format) == format \in {"json", "logfmt", "syslog", "nginx"}

(* The inputs of --logs and --network, with --filter: a log whose format   *)
(* has no known name is an error, a filter that does not compile a         *)
(* warning.  Either input may fail to be made.                             *)
MakeInputs ==
    LET filter == IF Given("filter") /\ options.filter \in Compiles THEN options.filter ELSE None
        format == IF Given("format") THEN options.format ELSE Detected[options.logs]
        known  == Given("logs") /\ Given("format") => FormatKnown(options.format)
    IN  /\ pc = "inputs"
        /\ \/ /\ Given("logs") \/ Given("network")
              /\ Abandoned({"world"})
              /\ KeepsInputs
           \/ /\ known
              /\ log_input' = IF Given("logs")
                              THEN [created |-> TRUE, format |-> format, filter |-> filter]
                              ELSE log_input
              /\ capture' = IF Given("network")
                            THEN [NoInput EXCEPT !.created = TRUE, !.filter = filter] ELSE capture
              /\ pc' = "outputs"
              /\ live' = IF Given("network") THEN live \cup {"capture"} ELSE live
              /\ UNCHANGED misused
        /\ UNCHANGED <<vars, options, handler>>

(* The handler of an output: a query is run only when the output is json.  *)
HandlerQueryFirst(output) ==
    CASE Given("query")            -> "event_handler_query"
      [] output \in DOMAIN OutputOf /\ ~Given("query") -> "event_handler_multi"
      [] OTHER                     -> "event_handler_json"
HandlerOf(output) ==
    CASE output \in DOMAIN OutputOf -> "event_handler_multi"
      [] output \notin DOMAIN OutputOf /\ Given("query")  -> "event_handler_query"
      [] OTHER                      -> "event_handler_json"

(* The output and the handler.  An output that needs a file or an address  *)
(* is an error without it, and may fail to be made.                        *)
MakeOutput ==
    /\ pc = "outputs"
    /\ \/ /\ options.output # "json"
          /\ Abandoned({"world"})
          /\ UNCHANGED handler
       \/ /\ options.output = "json"
          /\ handler' = HandlerOf(options.output)
          /\ pc' = "start"
          /\ KeepsObjects
       \/ /\ options.output \in DOMAIN OutputOf
          /\ Given(IF options.output = "http" THEN "output-url" ELSE "output-file")
          /\ handler' = HandlerOf(options.output)
          /\ live' = live \cup {OutputOf[options.output]}
          /\ pc' = "start"
          /\ UNCHANGED misused
    /\ KeepsInputs
    /\ UNCHANGED <<vars, options>>

(* nblex_world_start; when it fails, everything is freed.                  *)
Start ==
    /\ pc = "start"
    /\ \/ pc' = "run" /\ KeepsObjects
       \/ Exit({"world"}, {"config"} \cup Outputs_)
    /\ KeepsInputs
    /\ UNCHANGED <<vars, options, handler>>

(* nblex_world_run returns, and main cleans up.                            *)
CleanUp ==
    /\ pc = "run"
    /\ Exit({"world"}, {"config"} \cup Outputs_)
    /\ KeepsInputs
    /\ UNCHANGED <<vars, options, handler>>

MainNext ==
    ParseOptions \/ Open \/ LoadConfig \/ MakeInputs \/ MakeOutput \/ Start \/ CleanUp

MainSpec == MainInit /\ [][MainNext]_allVars

----------------------------------------------------------------------------
(* Whichever way main is left, what it made has been freed, and once,      *)
(* but for a capture, which no world knows of.                             *)
NothingLeft == pc = "exit" => live \subseteq {"capture"} /\ misused = {}

(* Nothing at all is left.  This does not hold.                            *)
CapturesFreed == pc = "exit" => live = {}

(* What runs is what was asked for.  The handler of the world has what it  *)
(* works with: event_handler_multi an output, the one of the option and no *)
(* other; the others none.  What is monitored are the inputs of the        *)
(* options, or those of the file as it was read, never both, and a log     *)
(* named in the options is read in the format given for it, if that is the *)
(* name of a format.                                                       *)
RunsAsAsked ==
    pc = "run" =>
        /\ "world" \in live
        /\ live \cap Outputs_ =
              IF handler = "event_handler_multi" THEN {OutputOf[options.output]} ELSE {}
        /\ log_input.created <=> Given("logs") /\ ~Given("config")
        /\ capture.created <=> Given("network") /\ ~Given("config")
        /\ log_input.created /\ Given("format") =>
              log_input.format = options.format
              /\ options.format \in {"json", "logfmt", "syslog", "nginx"}
        /\ Given("config") <=> phase = "applied"
=============================================================================
