-------------------------------- MODULE Config --------------------------------
(***************************************************************************)
(* Loading a configuration file and applying it to a world                 *)
(* (core/config.c, with the input functions of input/input_base.c that it  *)
(* calls).  The loader is a loop over the events of a YAML parser, one     *)
(* action for each kind of event, with a handful of flags for the place in *)
(* the document.                                                           *)
(*                                                                         *)
(* A document is a record of the events the parser delivers for it, the    *)
(* places of the names of its sections among them, which sections are      *)
(* plain, and what they mean in YAML: the settings, the inputs with the    *)
(* places where they start, and the texts in each item of a list.  A       *)
(* section is plain if no item or setting of it holds a list or a mapping  *)
(* and, in the case of inputs, if all are of one kind, logs or network.    *)
(***************************************************************************)
EXTENDS Integers, Sequences, FiniteSets

CONSTANTS
    Documents,  \* the configuration files
    Numerals,   \* what atoi and strstr make of a text: its number and unit
    Detected,   \* the format nblex_detect_log_format sees in a path
    Compiles    \* the filter expressions nblex_filter_new accepts

None == "NULL"
InputKeys  == {"name", "type", "path", "interface", "filter", "format"}
OutputKeys == {"name", "type", "path", "url", "format"}
Empty(keys) == [k \in keys |-> None]

Defaults == [version |-> "1.0", inputs |-> <<>>, outputs |-> <<>>,
             correlation_enabled |-> TRUE, correlation_window_ms |-> 100,
             worker_threads |-> 4, buffer_size |-> [number |-> 64, unit |-> "MB"],
             memory_limit |-> [number |-> 1024, unit |-> "MB"]]

(* The settings of a section by their keys, and what a text means for one. *)
SettingsOf ==
    [correlation |-> [enabled |-> "correlation_enabled", window_ms |-> "correlation_window_ms"],
     performance |-> [worker_threads |-> "worker_threads", buffer_size |-> "buffer_size",
                      memory_limit |-> "memory_limit"]]
Number(s) == IF s \in DOMAIN Numerals THEN Numerals[s].number ELSE 0
Size(s) == IF s \in DOMAIN Numerals THEN Numerals[s] ELSE [number |-> 0, unit |-> ""]
Parsed(key, s) ==
    CASE key = "enabled" -> s \in {"true", "1"}
      [] key \in {"window_ms", "worker_threads"} -> Number(s)
      [] key \in {"buffer_size", "memory_limit"} -> Size(s)

ASSUME ConfigAssumption ==
    /\ \A d \in Documents :
          {"events", "places", "plain", "items", "meant", "starts"} \subseteq DOMAIN d
    /\ \A d \in Documents : Len(d.events) \in Nat
    /\ \A s \in DOMAIN Numerals : Numerals[s].number \in Nat

(* The texts that follow the name of a key of inputs, between an event and *)
(* another, and those between the start of a mapping and the next end of   *)
(* one.  In a file they belong to one item of a list, unless there are no  *)
(* such texts; the mapping that is the whole document is left aside.       *)
IsScalar(d, q) == d.events[q].type = "scalar"
After(d, p, q) ==
    {d.events[r].value : r \in {r \in (p + 1)..q :
        /\ IsScalar(d, r)
        /\ \E k \in (p + 1)..(r - 1) : IsScalar(d, k) /\ d.events[k].value \in InputKeys}}
Unended(d, p, q) ==
    /\ p \in 2..q /\ d.events[p].type = "mapping start"
    /\ \A r \in (p + 1)..q : d.events[r].type # "mapping end"

ASSUME ItemsAssumption ==
    \A d \in Documents : \A q \in 1..Len(d.events) : \A p \in 2..q :
        Unended(d, p, q) => \E item \in d.items \cup {{}} : After(d, p, q) \subseteq item

(* The names of sections are no other texts of a file.  A section begins   *)
(* where the loader expects a key: after the start of the mapping that is  *)
(* the document or the end of another one, at p, the ends of sequences, up *)
(* to m, and pairs of texts.                                               *)
SectionNames == {"inputs", "outputs", "correlation", "performance"}
SectionBegins(d, a, p, m) ==
    /\ p \in 1..m /\ m \in 1..(a - 1)
    /\ \/ d.events[p].type = "mapping end"
       \/ d.events[p].type = "mapping start" /\ \A r \in 1..(p - 1) : ~IsScalar(d, r)
    /\ \A r \in (p + 1)..m : d.events[r].type = "sequence end"
    /\ \A r \in (m + 1)..(a - 1) : IsScalar(d, r) /\ d.events[r].value \notin SectionNames
    /\ (a - m) % 2 = 1

ASSUME SectionsAssumption ==
    \A d \in Documents :
        /\ DOMAIN d.places \subseteq SectionNames /\ d.plain \subseteq DOMAIN d.places
        /\ \A name \in DOMAIN d.places :
              /\ d.places[name] \in 1..Len(d.events) /\ IsScalar(d, d.places[name])
              /\ d.events[d.places[name]].value = name
              /\ \E p \in 1..d.places[name] : \E m \in p..d.places[name] :
                    SectionBegins(d, d.places[name], p, m)
        /\ \A q \in 1..Len(d.events) : IsScalar(d, q) /\ d.events[q].value \in SectionNames =>
              d.events[q].value \in DOMAIN d.places /\ d.places[d.events[q].value] = q

(* Keys and values between the start of a mapping and its end, and where   *)
(* the values of one key are.                                              *)
Pairs(d, p, q) ==
    /\ p < q /\ (q - p) % 2 = 1
    /\ d.events[p].type = "mapping start" /\ d.events[q].type = "mapping end"
    /\ \A r \in (p + 1)..(q - 1) : IsScalar(d, r)
Values(d, p, q, key) ==
    {r \in (p + 2)..(q - 1) : (r - p) % 2 = 0 /\ d.events[r - 1].value = key}

(* What a plain section of settings means, which is between its start and  *)
(* q: what is written for each key, or the default.                        *)
MeansSettings(d, section, q) ==
    LET p == d.places[section] + 1
    IN  /\ q \in p..Len(d.events) /\ Pairs(d, p, q)
        /\ \A name \in DOMAIN d.places : d.places[name] \notin p..q
        /\ \A key \in DOMAIN SettingsOf[section] :
              LET at    == Values(d, p, q, key)
                  meant == d.meant[SettingsOf[section][key]]
              IN  /\ \A r \in at : meant = Parsed(key, d.events[r].value)
                  /\ at = {} => meant = Defaults[SettingsOf[section][key]]

(* And a plain section of inputs, a list whose k-th item starts at         *)
(* starts[k] and means the k-th input.  Behind the list nothing is "file"  *)
(* or "pcap", unless outputs follow.                                       *)
ListStands(d, a, N) ==
    /\ N \in Nat /\ d.meant.inputs = [k \in 1..N |-> d.meant.inputs[k]]
    /\ \A k \in 1..(N + 1) : d.starts[k] \in (a + 4)..Len(d.events)
    /\ d.starts[1] = a + 4
    /\ d.events[a + 1].type = "mapping start"
    /\ IsScalar(d, a + 2) /\ d.events[a + 2].value \in {"logs", "network"}
    /\ d.events[a + 3].type = "sequence start"
    /\ d.events[d.starts[N + 1]].type = "sequence end"
MeansInput(d, p, q, input) ==
    /\ Pairs(d, p, q)
    /\ input = [key \in InputKeys |-> input[key]]
    /\ \A key \in InputKeys :
          LET at == Values(d, p, q, key)
          IN  /\ \A r \in at : input[key] = d.events[r].value
              /\ at = {} => input[key] = None
NoneBehind(d, z) ==
    \A r \in (z + 1)..Len(d.events) : IsScalar(d, r) => d.events[r].value \notin {"file", "pcap"}
MeansInputs(d) ==
    LET a == d.places["inputs"]
        N == Len(d.meant.inputs)
    IN  /\ ListStands(d, a, N)
        /\ \A k \in 1..N : MeansInput(d, d.starts[k], d.starts[k + 1] - 1, d.meant.inputs[k])
        /\ ("outputs" \in DOMAIN d.places => d.places["outputs"] < a) =>
              NoneBehind(d, d.starts[N + 1])

ASSUME MeaningAssumption ==
    \A d \in Documents :
        /\ \A section \in d.plain \cap DOMAIN SettingsOf :
              \E q \in 1..Len(d.events) : MeansSettings(d, section, q)
        /\ "inputs" \in d.plain => MeansInputs(d)

VARIABLES
    document,     \* the file
    delivered,    \* how many of its events the parser has delivered
    phase,        \* "loading", then "loaded" and "applied", or "failed"
    in_,          \* the flags in_inputs, in_outputs, ... that are set
    expecting_key,
    current_key,
    current_input,  \* index into inputs, or 0
    current_output, \* index into outputs, or 0
    config,       \* the settings read so far
    world         \* what nblex_config_apply has done to the world

loader == <<in_, expecting_key, current_key, current_input, current_output>>
vars == <<document, delivered, phase, loader, config, world>>

(* An opened world correlates within 100 ms and has no inputs.             *)
OpenWorld == [window |-> 100, inputs |-> <<>>]

LoaderInit ==
    /\ delivered = 0
    /\ phase = "loading"
    /\ in_ = {}
    /\ expecting_key = TRUE
    /\ current_key = None
    /\ current_input = 0
    /\ current_output = 0
    /\ config = Defaults
    /\ world = OpenWorld

Init == document \in Documents /\ LoaderInit

----------------------------------------------------------------------------
Event == document.events[delivered + 1]

Arrives(type) ==
    /\ phase = "loading"
    /\ delivered < Len(document.events)
    /\ Event.type = type
    /\ delivered' = delivered + 1
    /\ UNCHANGED <<document, phase, world>>

(* The item that has just been appended.                                   *)
Newest(items) == Len(items)

(* YAML_MAPPING_START_EVENT: an item, or what is taken for one.            *)
MappingStart ==
    /\ Arrives("mapping start")
    /\ LET as_input  == "inputs" \in in_ /\ in_ \cap {"logs", "network"} = {}
           as_output == ~as_input /\ "outputs" \in in_
       IN  /\ config' = [config EXCEPT
                 !.inputs  = IF as_input THEN Append(@, Empty(InputKeys)) ELSE @,
                 !.outputs = IF as_output THEN Append(@, Empty(OutputKeys)) ELSE @]
           /\ current_input' = IF as_input THEN Newest(config'.inputs) ELSE current_input
           /\ current_output' = IF as_output THEN Newest(config'.outputs) ELSE current_output
    /\ expecting_key' = TRUE
    /\ UNCHANGED <<in_, current_key>>

(* YAML_MAPPING_END_EVENT: in_inputs and in_outputs stay.                  *)
InputAfterItem(input) == input
InputAfter(input) == 0

ListsLeft(flags) == flags \cap {"inputs", "outputs", "logs", "network"}
FlagsLeft(flags) == flags \cap {"inputs", "outputs"}

MappingEnd ==
    /\ Arrives("mapping end")
    /\ in_' = FlagsLeft(in_)
    /\ current_input' = InputAfter(current_input)
    /\ current_output' = 0
    /\ expecting_key' = TRUE
    /\ UNCHANGED <<current_key, config>>

(* YAML_SEQUENCE_START_EVENT *)
SequenceStart ==
    /\ Arrives("sequence start")
    /\ in_' = in_ \cup ({current_key} \cap {"logs", "network"})
    /\ UNCHANGED <<expecting_key, current_key, current_input, current_output, config>>

(* YAML_SEQUENCE_END_EVENT *)
SequenceEnd ==
    /\ Arrives("sequence end")
    /\ UNCHANGED <<loader, config>>

(* YAML_SCALAR_EVENT where a key is expected.                              *)
ScalarKey ==
    /\ Arrives("scalar")
    /\ expecting_key
    /\ current_key' = Event.value
    /\ expecting_key' = FALSE
    /\ in_' = in_ \cup ({current_key'} \cap {"inputs", "outputs", "correlation", "performance"})
    /\ UNCHANGED <<current_input, current_output, config>>

(* The setting of a section that a key and a value make.                   *)
Setting(key, s) ==
    CASE "correlation" \in in_ /\ key \in DOMAIN SettingsOf.correlation ->
            [config EXCEPT ![SettingsOf.correlation[key]] = Parsed(key, s)]
      [] in_ \cap {"correlation", "performance"} = {"performance"}
         /\ key \in DOMAIN SettingsOf.performance ->
            [config EXCEPT ![SettingsOf.performance[key]] = Parsed(key, s)]
      [] OTHER -> config

(* YAML_SCALAR_EVENT where a value is expected: for the item or section    *)
(* the loader believes to be in.                                           *)
ScalarValue ==
    /\ Arrives("scalar")
    /\ ~expecting_key
    /\ LET s == Event.value
           key == current_key
       IN  config' = IF key = "version" THEN [config EXCEPT !.version = s]
                     ELSE IF current_input # 0 THEN
                        IF key \in InputKeys
                        THEN [config EXCEPT !.inputs[current_input][key] = s] ELSE config
                     ELSE IF current_output # 0 THEN
                        IF key \in OutputKeys
                        THEN [config EXCEPT !.outputs[current_output][key] = s] ELSE config
                     ELSE Setting(key, s)
    /\ current_key' = None
    /\ expecting_key' = TRUE
    /\ UNCHANGED <<in_, current_input, current_output>>

(* The end of the stream.                                                  *)
Loaded ==
    /\ phase = "loading"
    /\ delivered = Len(document.events)
    /\ phase' = "loaded"
    /\ UNCHANGED <<document, delivered, loader, config, world>>

(* yaml_parser_parse fails: the file is damaged from here on.              *)
ParseError ==
    /\ phase = "loading"
    /\ phase' = "failed"
    /\ config' = Defaults
    /\ current_input' = 0
    /\ current_output' = 0
    /\ UNCHANGED <<document, delivered, in_, expecting_key, current_key, world>>

----------------------------------------------------------------------------
(* The format of a file input: the one named, or the one detected.  An     *)
(* unknown name leaves the default of nblex_input_new.                     *)
FormatOf(input) ==
    IF input.format = None THEN Detected[input.path]
    ELSE IF input.format \in {"json", "logfmt", "syslog", "nginx"} THEN input.format
    ELSE "json"

(* Which inputs are created.  The rest is skipped.                         *)
Creatable(input) ==
    \/ input.type = "file" /\ input.path # None
    \/ input.type = "pcap" /\ input.interface # None

(* An input of the world: a filter that does not compile is left out and   *)
(* nobody looks at the result of nblex_input_set_filter.                   *)
Created(input) ==
    [type   |-> input.type,
     of     |-> IF input.type = "file" THEN input.path ELSE input.interface,
     format |-> IF input.type = "file" THEN FormatOf(input) ELSE "json",
     filter |-> IF input.filter \in Compiles THEN input.filter ELSE None]

(* They are created in the order of the file.                              *)
InOrder(f) ==
    [k \in 1..Cardinality(DOMAIN f) |->
        f[CHOOSE n \in DOMAIN f : Cardinality({m \in DOMAIN f : m <= n}) = k]]
CreatedOf(inputs) ==
    InOrder([n \in {n \in DOMAIN inputs : Creatable(inputs[n])} |-> Created(inputs[n])])

(* nblex_config_apply.  The window is set if correlation is enabled; that  *)
(* it is not enabled changes nothing.                                      *)
Apply ==
    /\ phase = "loaded"
    /\ phase' = "applied"
    /\ world' = [window |-> IF config.correlation_enabled
                            THEN config.correlation_window_ms ELSE world.window,
                 inputs |-> CreatedOf(config.inputs)]
    /\ UNCHANGED <<document, delivered, loader, config>>

Next ==
    \/ MappingStart \/ MappingEnd \/ SequenceStart \/ SequenceEnd
    \/ ScalarKey \/ ScalarValue \/ Loaded \/ ParseError \/ Apply

Spec == Init /\ [][Next]_vars

----------------------------------------------------------------------------
(* The types of the loader's state; the current item, if there is one, is *)
(* an item of its list (current_input, current_output).                    *)
TypeOK ==
    /\ phase \in {"loading", "loaded", "applied", "failed"}
    /\ in_ \subseteq {"inputs", "outputs", "correlation", "performance", "logs", "network"}
    /\ expecting_key \in BOOLEAN
    /\ current_input \in 0..Len(config.inputs)
    /\ current_output \in 0..Len(config.outputs)

Present(name) == name \in DOMAIN document.places
Position(name) == document.places[name]

(* A section that is read with no section of inputs or outputs before it.  *)
Ahead(name) ==
    \A list \in {"inputs", "outputs"} : Present(list) => Position(name) < Position(list)

(* What is written in one item of a list never ends up in the input of     *)
(* another, whatever the order of the sections, and however deep the item: *)
(* current_input and the flags are left behind where an item ends.         *)
ItemsWhole ==
    \A k \in DOMAIN config.inputs : \E item \in document.items \cup {{}} :
        {config.inputs[k][key] : key \in InputKeys} \subseteq item \cup {None}

(* A document is read as it is meant as far as the loader supports it.     *)
(* The settings of a plain section that stands before the inputs and       *)
(* outputs are those that are written there, and so the window of the      *)
(* world is.  The inputs of a plain section that no outputs follow are     *)
(* created in order, with their formats and filters: the loader also takes *)
(* the mappings of other sections for inputs, but nblex_config_apply       *)
(* creates none of those.                                                  *)
ReadAsMeant ==
    LET Readable(section) ==
            Present(section) /\ section \in document.plain /\ Ahead(section)
        Kept(section) ==
            Readable(section) => \A key \in DOMAIN SettingsOf[section] :
                config[SettingsOf[section][key]] = document.meant[SettingsOf[section][key]]
    IN  /\ phase \in {"loaded", "applied"} =>
              Kept("correlation") /\ Kept("performance")
        /\ phase = "applied" /\ Readable("correlation") =>
              world.window = IF document.meant.correlation_enabled
                                THEN document.meant.correlation_window_ms
                                ELSE OpenWorld.window
        /\ phase = "applied" /\ Present("inputs") /\ "inputs" \in document.plain
           /\ (Present("outputs") => Position("outputs") < Position("inputs")) =>
              world.inputs = CreatedOf(document.meant.inputs)

(* Of any document, only inputs that are meant are created.  This does not *)
(* hold: an output to a file that follows the inputs becomes an input that *)
(* reads this file.                                                        *)
OnlyMeantInputs ==
    phase = "applied" =>
        \A k \in DOMAIN world.inputs : \E j \in DOMAIN document.meant.inputs :
            world.inputs[k] = Created(document.meant.inputs[j])

(* Settings mean the same wherever they stand.  They do not: after the     *)
(* inputs they are ignored, which is where the documentation puts them.    *)
SettingsAnywhere ==
    phase = "applied" /\ Present("correlation") =>
        config.correlation_window_ms = document.meant.correlation_window_ms
=============================================================================
