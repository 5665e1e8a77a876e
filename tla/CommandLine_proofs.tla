-------------------------- MODULE CommandLine_proofs --------------------------
(***************************************************************************)
(* Proofs about the ways through main and about the loader whose steps are *)
(* steps of main, for every combination of options and every file.         *)
(***************************************************************************)
EXTENDS CommandLine, SequenceTheorems, TLAPS

(* What exists at each point of main, and what has been asked for and made *)
(* so far.  The configuration exists between its load and the end.         *)
Objects == {"world", "config", "capture"} \cup Outputs_

InputsAsAsked ==
    /\ log_input.created <=> Given("logs") /\ ~Given("config")
    /\ capture.created <=> Given("network") /\ ~Given("config")
    /\ log_input.created /\ Given("format") =>
          log_input.format = options.format /\ FormatKnown(options.format)
    /\ Given("config") <=> phase = "applied"

NoInputYet == ~log_input.created /\ ~capture.created

OutputAsAsked ==
    live \cap Outputs_ = IF handler = "event_handler_multi"
                         THEN {OutputOf[options.output]} ELSE {}

MainInv ==
    /\ live \subseteq Objects /\ misused = {}
    /\ pc \in {"options", "open"} => live = {} /\ phase = "loading" /\ NoInputYet
    /\ pc = "config" => /\ Given("config") /\ NoInputYet
                        /\ phase \in {"loading", "loaded"}
                        /\ live = {"world"} \cup (IF phase = "loaded" THEN {"config"} ELSE {})
    /\ pc = "inputs" => ~Given("config") /\ NoInputYet /\ phase = "loading" /\ live = {"world"}
    /\ pc = "outputs" => "world" \in live /\ live \cap Outputs_ = {} /\ InputsAsAsked
    /\ pc \in {"start", "run"} => "world" \in live /\ OutputAsAsked /\ InputsAsAsked
    /\ pc = "exit" => live \subseteq {"capture"}

LEMMA MainInvInit == MainInit => MainInv
  BY DEF MainInit, MainInv, LoaderInit, Objects, NoInputYet, NoInput

LEMMA OutputNames ==
    /\ Outputs_ = {"file_output", "http_output", "metrics_output"}
    /\ DOMAIN OutputOf = {"file", "http", "metrics"}
    /\ \A o \in DOMAIN OutputOf : OutputOf[o] \in Outputs_
  BY DEF Outputs_, OutputOf

(* The loader, as main sees it.                                            *)
LEMMA PhaseStep ==
    ASSUME Next
    PROVE  \/ phase = "loading" /\ phase' \in {"loading", "loaded", "failed"}
           \/ phase = "loaded" /\ phase' = "applied"
  BY DEF Next, MappingStart, MappingEnd, SequenceStart, SequenceEnd, ScalarKey, ScalarValue,
         Arrives, Loaded, ParseError, Apply

LEMMA MainInvNext == MainInv /\ [MainNext]_allVars => MainInv'
<1>. SUFFICES ASSUME MainInv, [MainNext]_allVars PROVE MainInv'
  OBVIOUS
<1>1. CASE UNCHANGED allVars
  BY <1>1 DEF MainInv, allVars, mainVars, vars, NoInputYet, InputsAsAsked, OutputAsAsked, Given
<1>2. CASE ParseOptions
  BY <1>2 DEF MainInv, ParseOptions, KeepsObjects, KeepsInputs, vars, NoInputYet, Given
<1>3. CASE Open
  BY <1>3, OutputNames
     DEF MainInv, Open, Exit, Freed, KeepsInputs, vars, NoInputYet, Given, Objects
<1>4. CASE LoadConfig
  <2>1. /\ pc = "config" /\ Given("config") /\ NoInputYet /\ misused = {}
        /\ live = {"world"} \cup (IF phase = "loaded" THEN {"config"} ELSE {})
        /\ UNCHANGED <<options, handler, log_input, capture>>
    BY <1>4 DEF LoadConfig, MainInv, KeepsInputs
  <2>2. Given("config")' /\ NoInputYet'
    BY <2>1 DEF Given, NoInputYet
  <2>3. CASE phase = "loading" /\ phase' = "loading"
    <3>1. pc' = pc /\ live' = live /\ misused' = misused
      BY <1>4, <2>3 DEF LoadConfig, KeepsObjects
    <3>. QED  BY <2>1, <2>2, <2>3, <3>1 DEF MainInv, Objects
  <2>4. CASE phase = "loading" /\ phase' = "loaded"
    <3>1. pc' = pc /\ live' = live \cup {"config"} /\ misused' = misused
      BY <1>4, <2>4 DEF LoadConfig
    <3>. QED  BY <2>1, <2>2, <2>4, <3>1 DEF MainInv, Objects
  <2>5. CASE phase = "loading" /\ phase' = "failed"
    <3>1. pc' = "exit" /\ live' = {} /\ misused' = {}
      BY <1>4, <2>1, <2>5 DEF LoadConfig, Exit, Freed
    <3>. QED  BY <3>1 DEF MainInv
  <2>6. CASE phase = "loaded" /\ phase' = "applied"
    <3>1. pc' = "outputs" /\ live' \subseteq live \cup {"capture"} /\ live \subseteq live'
          /\ misused' = {}
      BY <1>4, <2>1, <2>6 DEF LoadConfig
    <3>2. live' \subseteq {"world", "config", "capture"} /\ "world" \in live'
      BY <2>1, <3>1
    <3>3. InputsAsAsked'
      BY <2>2, <2>6 DEF InputsAsAsked, NoInputYet
    <3>. QED  BY <3>1, <3>2, <3>3, OutputNames DEF MainInv, Objects
  <2>. QED  BY <1>4, <2>3, <2>4, <2>5, <2>6, PhaseStep DEF LoadConfig
<1>5. CASE MakeInputs
  <2>1. /\ pc = "inputs" /\ ~Given("config") /\ NoInputYet /\ phase = "loading"
        /\ live = {"world"} /\ misused = {} /\ UNCHANGED <<options, phase, handler>>
    BY <1>5 DEF MakeInputs, MainInv, vars
  <2>2. CASE Abandoned({"world"})
    BY <2>1, <2>2 DEF Abandoned, Exit, Freed, MainInv
  <2>3. CASE ~Abandoned({"world"})
    <3>1. /\ pc' = "outputs" /\ misused' = {} /\ live' \subseteq {"world", "capture"}
          /\ "world" \in live'
      BY <1>5, <2>1, <2>3 DEF MakeInputs
    <3>2. InputsAsAsked'
      <4>1. /\ Given("logs") /\ Given("format") => FormatKnown(options.format)
            /\ IF Given("logs")
               THEN log_input'.created /\ (Given("format") => log_input'.format = options.format)
               ELSE log_input' = log_input
            /\ IF Given("network") THEN capture'.created ELSE capture' = capture
        <5>1. PICK f, g :
                 /\ Given("logs") /\ Given("format") => FormatKnown(options.format)
                 /\ Given("format") => g = options.format
                 /\ log_input' = IF Given("logs")
                                 THEN [created |-> TRUE, format |-> g, filter |-> f]
                                 ELSE log_input
                 /\ capture' = IF Given("network")
                               THEN [created |-> TRUE, format |-> "json", filter |-> f]
                               ELSE capture
          BY <1>5, <2>3 DEF MakeInputs, NoInput
        <5>. QED  BY <5>1
      <4>2. options' = options /\ \A name : Given(name)' = Given(name)
        BY <2>1 DEF Given
      <4>. QED  BY <2>1, <4>1, <4>2 DEF InputsAsAsked, NoInputYet, FormatKnown
    <3>. QED  BY <3>1, <3>2, OutputNames DEF MainInv, Objects
  <2>. QED  BY <2>2, <2>3
<1>6. CASE MakeOutput
  <2>1. /\ pc = "outputs" /\ "world" \in live /\ live \cap Outputs_ = {} /\ InputsAsAsked
        /\ misused = {} /\ live \subseteq Objects
        /\ UNCHANGED <<options, phase, log_input, capture>>
    BY <1>6 DEF MakeOutput, MainInv, vars, KeepsInputs
  <2>2. InputsAsAsked'
    BY <2>1 DEF InputsAsAsked, Given
  <2>3. CASE Abandoned({"world"})
    BY <2>1, <2>3 DEF Abandoned, Exit, Freed, MainInv, Objects
  <2>4. CASE /\ options.output = "json" /\ handler' = HandlerOf(options.output)
             /\ pc' = "start" /\ KeepsObjects
    <3>1. handler' # "event_handler_multi"
      BY <2>4, OutputNames DEF HandlerOf
    <3>. QED  BY <2>1, <2>2, <2>4, <3>1 DEF MainInv, OutputAsAsked, KeepsObjects
  <2>5. CASE /\ options.output \in DOMAIN OutputOf /\ handler' = HandlerOf(options.output)
             /\ live' = live \cup {OutputOf[options.output]} /\ pc' = "start"
             /\ misused' = misused
    <3>1. handler' = "event_handler_multi" /\ OutputOf[options.output] \in Outputs_
      BY <2>5, OutputNames DEF HandlerOf
    <3>. QED  BY <2>1, <2>2, <2>5, <3>1 DEF MainInv, OutputAsAsked, Objects
  <2>. QED  BY <1>6, <2>3, <2>4, <2>5 DEF MakeOutput
<1>7. CASE Start \/ CleanUp
  <2>1. /\ pc \in {"start", "run"} /\ "world" \in live /\ OutputAsAsked /\ InputsAsAsked
        /\ misused = {} /\ live \subseteq Objects
        /\ UNCHANGED <<options, phase, handler, log_input, capture>>
    BY <1>7 DEF Start, CleanUp, MainInv, vars, KeepsInputs
  <2>2. CASE pc' = "run" /\ KeepsObjects
    BY <2>1, <2>2 DEF MainInv, KeepsObjects, OutputAsAsked, InputsAsAsked, Given
  <2>3. CASE Exit({"world"}, {"config"} \cup Outputs_)
    BY <2>1, <2>3 DEF Exit, Freed, MainInv, Objects
  <2>. QED  BY <1>7, <2>2, <2>3 DEF Start, CleanUp
<1>. QED  BY <1>1, <1>2, <1>3, <1>4, <1>5, <1>6, <1>7 DEF MainNext

LEMMA MainInvHolds == MainSpec => []MainInv
  BY MainInvInit, MainInvNext, PTL DEF MainSpec

(* On each of the ways out of main (cli/main.c), also those on which some  *)
(* of its objects have not been made yet, it frees all that it has made    *)
(* and nothing else; only a capture stays.                                 *)
THEOREM EveryWayOutFrees == MainSpec => []NothingLeft
<1>1. MainInv => NothingLeft
  BY DEF MainInv, NothingLeft
<1>. QED  BY <1>1, MainInvHolds, PTL

(* A world that runs has the handler that its output needs, that output    *)
(* and no other, and the inputs of the options or those of the file        *)
(* (main in cli/main.c).                                                   *)
THEOREM WhatRunsWasAsked == MainSpec => []RunsAsAsked
<1>1. MainInv => RunsAsAsked
  BY DEF MainInv, RunsAsAsked, OutputAsAsked, InputsAsAsked, FormatKnown
<1>. QED  BY <1>1, MainInvHolds, PTL

----------------------------------------------------------------------------
(* The loader: what it has read, and where the item that it is reading has *)
(* begun.                                                                  *)
Texts(d) == {None} \cup {d.events[q].value : q \in 1 .. Len(d.events)}
ValuesOf(input) == {input[key] : key \in InputKeys}
InItem(d, values) == \E item \in d.items \cup {{}} : values \subseteq item \cup {None}

(* An input that the loader reads after the first q events, in the item    *)
(* that begins at p: all its values stand in that item after some key, and *)
(* a key whose value is expected stands there too.                         *)
Reading(d, q, input, expecting, key, p) ==
    /\ Unended(d, p, q)
    /\ ValuesOf(input) \subseteq After(d, p, q) \cup {None}
    /\ ~expecting => \E k \in (p + 1) .. q : IsScalar(d, k) /\ d.events[k].value = key

LoaderTyped ==
    /\ document \in Documents /\ delivered \in 0 .. Len(document.events)
    /\ {"inputs", "outputs"} \subseteq DOMAIN config
    /\ config.inputs \in Seq([InputKeys -> Texts(document)])
    /\ config.outputs \in Seq([OutputKeys -> Texts(document)])
    /\ in_ # {} => delivered # 0

LoaderInv ==
    /\ LoaderTyped /\ TypeOK
    /\ \A k \in 1 .. Len(config.inputs) : InItem(document, ValuesOf(config.inputs[k]))
    /\ current_input # 0 =>
          \E p \in 2 .. delivered : Reading(document, delivered, config.inputs[current_input],
                                            expecting_key, current_key, p)

LEMMA LoaderInit_ ==
    ASSUME document \in Documents, LoaderInit
    PROVE  LoaderInv
<1>1. <<>> \in Seq([InputKeys -> Texts(document)]) /\ <<>> \in Seq([OutputKeys -> Texts(document)])
      /\ Len(<<>>) = 0
  OBVIOUS
<1>2. /\ config.inputs = <<>> /\ config.outputs = <<>> /\ {"inputs", "outputs"} \subseteq DOMAIN config
  BY DEF LoaderInit, Defaults
<1>. QED
  BY <1>1, <1>2, ConfigAssumption DEF LoaderInit, LoaderInv, LoaderTyped, TypeOK

(* The places of an item after one more event.                             *)
LEMMA OneMore ==
    ASSUME NEW q \in Nat, NEW p \in 2 .. q
    PROVE  /\ p \in 2 .. (q + 1)
           /\ \A r : r \in (p + 1) .. (q + 1) <=> r \in (p + 1) .. q \/ r = q + 1
  OBVIOUS

(* One more event, which does not end the item.                            *)
LEMMA Delivers ==
    ASSUME NEW d \in Documents, NEW q \in Nat, q + 1 \in 1 .. Len(d.events), NEW p \in 2 .. q,
           Unended(d, p, q), d.events[q + 1].type # "mapping end"
    PROVE  /\ After(d, p, q) \subseteq After(d, p, q + 1)
           /\ Unended(d, p, q + 1) /\ p \in 2 .. (q + 1)
<1>1. \A r : r \in (p + 1) .. (q + 1) <=> r \in (p + 1) .. q \/ r = q + 1
  BY OneMore
<1>2. p \in 2 .. (q + 1)
  BY OneMore
<1>3. Unended(d, p, q + 1)
  BY <1>1, <1>2 DEF Unended
<1>. QED  BY <1>1, <1>2, <1>3 DEF After

(* What is read goes on in the same item, with the same key or a new one.  *)
LEMMA ReadsOn ==
    ASSUME NEW d \in Documents, NEW q \in Nat, q + 1 \in 1 .. Len(d.events), NEW p \in 2 .. q,
           d.events[q + 1].type # "mapping end", NEW input,
           NEW e, NEW key, NEW e2, NEW key2, Reading(d, q, input, e, key, p),
           e2 \/ (~e /\ key2 = key) \/ (IsScalar(d, q + 1) /\ key2 = d.events[q + 1].value)
    PROVE  p \in 2 .. (q + 1) /\ Reading(d, q + 1, input, e2, key2, p)
<1>1. /\ After(d, p, q) \subseteq After(d, p, q + 1)
      /\ Unended(d, p, q + 1) /\ p \in 2 .. (q + 1)
  BY Delivers DEF Reading
<1>2. \A r : r \in (p + 1) .. q \/ r = q + 1 => r \in (p + 1) .. (q + 1)
  BY OneMore
<1>3. ~e2 => \E k \in (p + 1) .. (q + 1) : IsScalar(d, k) /\ d.events[k].value = key2
  BY <1>2 DEF Reading
<1>. QED  BY <1>1, <1>3 DEF Reading

(* A value that is read after a key of the item.                           *)
LEMMA ReadsValue ==
    ASSUME NEW d \in Documents, NEW q \in Nat, q + 1 \in 1 .. Len(d.events), NEW p \in 2 .. q,
           d.events[q + 1].type = "scalar", NEW key \in InputKeys,
           NEW input, Reading(d, q, input, FALSE, key, p), NEW new,
           \A k \in InputKeys : new[k] \in {d.events[q + 1].value, input[k]},
           NEW key2
    PROVE  /\ p \in 2 .. (q + 1) /\ Reading(d, q + 1, new, TRUE, key2, p)
           /\ InItem(d, ValuesOf(new))
<1>1. /\ After(d, p, q) \subseteq After(d, p, q + 1)
      /\ Unended(d, p, q + 1) /\ p \in 2 .. (q + 1)
  BY Delivers DEF Reading
<1>2. d.events[q + 1].value \in After(d, p, q + 1)
  <2>1. PICK k \in (p + 1) .. q : IsScalar(d, k) /\ d.events[k].value = key
    BY DEF Reading
  <2>2. k \in (p + 1) .. ((q + 1) - 1) /\ q + 1 \in (p + 1) .. (q + 1) /\ IsScalar(d, q + 1)
    BY DEF IsScalar
  <2>. QED  BY <2>1, <2>2 DEF After
<1>3. ValuesOf(new) \subseteq After(d, p, q + 1) \cup {None}
  <2>1. ValuesOf(input) \subseteq After(d, p, q + 1) \cup {None}
    BY <1>1 DEF Reading
  <2>. QED  BY <1>2, <2>1 DEF ValuesOf
<1>4. Reading(d, q + 1, new, TRUE, key2, p)
  BY <1>1, <1>3 DEF Reading
<1>5. \E item \in d.items \cup {{}} : After(d, p, q + 1) \subseteq item
  BY <1>1, ItemsAssumption
<1>. QED  BY <1>1, <1>3, <1>4, <1>5 DEF InItem

(* The place of an item that has just begun.                               *)
LEMMA Begins ==
    ASSUME NEW q \in Nat, q # 0
    PROVE  q + 1 \in 2 .. (q + 1) /\ ((q + 1) + 1) .. (q + 1) = {}
  OBVIOUS

(* An item that begins with the next event.                                *)
LEMMA ReadsFrom ==
    ASSUME NEW d \in Documents, NEW q \in Nat, q # 0, d.events[q + 1].type = "mapping start",
           NEW key2
    PROVE  /\ q + 1 \in 2 .. (q + 1)
           /\ Reading(d, q + 1, Empty(InputKeys), TRUE, key2, q + 1)
           /\ InItem(d, ValuesOf(Empty(InputKeys)))
<1>1. q + 1 \in 2 .. (q + 1) /\ ((q + 1) + 1) .. (q + 1) = {}
  BY Begins
<1>2. Unended(d, q + 1, q + 1)
  BY <1>1 DEF Unended
<1>3. ValuesOf(Empty(InputKeys)) \subseteq {None}
  BY DEF ValuesOf, Empty
<1>. QED  BY <1>1, <1>2, <1>3 DEF Reading, InItem

LEMMA DocumentKept == Next => document' = document
  BY DEF Next, MappingStart, MappingEnd, SequenceStart, SequenceEnd, ScalarKey, ScalarValue,
         Arrives, Loaded, ParseError, Apply

(* The values of an item of a list are set one at a time.                  *)
LEMMA OneSet ==
    ASSUME NEW K, NEW T, NEW s, s \in Seq([K -> T]), NEW i, i \in 1 .. Len(s),
           NEW key, key \in K, NEW v, v \in T, NEW t, t = [s EXCEPT ![i][key] = v]
    PROVE  /\ t \in Seq([K -> T]) /\ Len(t) = Len(s)
           /\ \A j \in 1 .. Len(s) : j # i => t[j] = s[j]
           /\ \A k \in K : t[i][k] = IF k = key THEN v ELSE s[i][k]
<1>. DEFINE r == [s[i] EXCEPT ![key] = v]
            u == [s EXCEPT ![i] = r]
<1>1. s[i] \in [K -> T]
  BY ElementOfSeq
<1>2. r \in [K -> T] /\ \A k \in K : r[k] = IF k = key THEN v ELSE s[i][k]
  BY <1>1
<1>3. u \in Seq([K -> T]) /\ Len(u) = Len(s) /\ \A j \in 1 .. Len(s) : u[j] = IF j = i THEN r ELSE s[j]
  <2>. HIDE DEF r
  <2>. QED  BY <1>2, ExceptSeq
<1>4. t = u
  OBVIOUS
<1>. HIDE DEF r, u
<1>. QED  BY <1>2, <1>3, <1>4

(* It stays a list of such items, of the same length.                      *)
LEMMA SetTyped ==
    ASSUME NEW K, NEW T, NEW S, S = [K -> T],
           NEW s, s \in Seq(S), NEW i, i \in 1 .. Len(s), NEW key, key \in K, NEW v, v \in T
    PROVE  [s EXCEPT ![i][key] = v] \in Seq(S) /\ Len([s EXCEPT ![i][key] = v]) = Len(s)
<1>. PICK t : t = [s EXCEPT ![i][key] = v]
  OBVIOUS
<1>1. t \in Seq([K -> T]) /\ Len(t) = Len(s)
  BY OneSet
<1>. QED  BY <1>1

(* What a value that the loader reads changes.                             *)
LEMMA ValueRead ==
    ASSUME LoaderTyped, ScalarValue
    PROVE  LET s == Event.value
               ins == config.inputs
               outs == config.outputs
           IN  /\ {"inputs", "outputs"} \subseteq DOMAIN config'
               /\ \/ config'.inputs = ins /\ config'.outputs = outs
                  \/ /\ current_input # 0 /\ current_key \in InputKeys
                     /\ config'.inputs = [ins EXCEPT ![current_input][current_key] = s]
                     /\ config'.outputs = outs
                  \/ /\ current_output # 0 /\ current_key \in OutputKeys
                     /\ config'.outputs = [outs EXCEPT ![current_output][current_key] = s]
                     /\ config'.inputs = ins
<1>. DEFINE s == Event.value
            key == current_key
<1>1. {"inputs", "outputs"} \subseteq DOMAIN config
  BY DEF LoaderTyped
<1>2. \/ config' = config
      \/ config' = [config EXCEPT !.version = s]
      \/ config' = Setting(key, s)
      \/ /\ current_input # 0 /\ key \in InputKeys
         /\ config' = [config EXCEPT !.inputs[current_input][key] = s]
      \/ /\ current_output # 0 /\ key \in OutputKeys
         /\ config' = [config EXCEPT !.outputs[current_output][key] = s]
  BY DEF ScalarValue
<1>3. CASE config' = Setting(key, s)
  <2>. DEFINE names == {"correlation_enabled", "correlation_window_ms", "worker_threads",
                         "buffer_size", "memory_limit"}
  <2>1. \/ Setting(key, s) = config
        \/ \E f \in names : \E v : Setting(key, s) = [config EXCEPT ![f] = v]
    <3>1. /\ \A k \in DOMAIN SettingsOf.correlation : SettingsOf.correlation[k] \in names
          /\ \A k \in DOMAIN SettingsOf.performance : SettingsOf.performance[k] \in names
      BY DEF SettingsOf
    <3>. HIDE DEF names
    <3>2. CASE "correlation" \in in_ /\ key \in DOMAIN SettingsOf.correlation
      BY <3>1, <3>2 DEF Setting
    <3>3. CASE ~("correlation" \in in_ /\ key \in DOMAIN SettingsOf.correlation)
      BY <3>1, <3>3 DEF Setting
    <3>. QED  BY <3>2, <3>3
  <2>. QED  BY <1>1, <1>3, <2>1
<1>4. CASE config' = config \/ config' = [config EXCEPT !.version = s]
  BY <1>1, <1>4
<1>5. CASE /\ current_input # 0 /\ key \in InputKeys
           /\ config' = [config EXCEPT !.inputs[current_input][key] = s]
  BY <1>1, <1>5
<1>6. CASE /\ current_output # 0 /\ key \in OutputKeys
           /\ config' = [config EXCEPT !.outputs[current_output][key] = s]
  BY <1>1, <1>6
<1>. QED  BY <1>2, <1>3, <1>4, <1>5, <1>6

LEMMA LoaderTypedNext ==
    ASSUME LoaderTyped, TypeOK, Next
    PROVE  LoaderTyped' /\ TypeOK'
<1>. DEFINE T == Texts(document)
            I == [InputKeys -> T]
            O == [OutputKeys -> T]
<1>0. /\ document' = document /\ document \in Documents /\ delivered \in Nat
      /\ Len(document.events) \in Nat /\ Texts(document)' = T
      /\ {"inputs", "outputs"} \subseteq DOMAIN config
      /\ config.inputs \in Seq(I) /\ config.outputs \in Seq(O)
      /\ None \in T
  BY DocumentKept, ConfigAssumption DEF LoaderTyped, Texts
<1>1. ASSUME NEW type, Arrives(type)
      PROVE  /\ delivered' = delivered + 1 /\ delivered' \in 0 .. Len(document.events)
             /\ delivered' # 0 /\ Event.value \in T /\ phase' = phase
  <2>1. delivered' = delivered + 1 /\ delivered + 1 \in 1 .. Len(document.events) /\ phase' = phase
    BY <1>0, <1>1 DEF Arrives
  <2>2. Event.value \in T
    BY <2>1 DEF Event, Texts
  <2>. QED  BY <1>0, <2>1, <2>2
<1>. HIDE DEF T, I, O
<1>2. ASSUME config'.inputs = config.inputs, config'.outputs = config.outputs,
             {"inputs", "outputs"} \subseteq DOMAIN config',
             delivered' \in 0 .. Len(document.events), in_' # {} => delivered' # 0,
             in_' \subseteq {"inputs", "outputs", "correlation", "performance", "logs", "network"},
             expecting_key' \in BOOLEAN, phase' \in {"loading", "loaded", "applied", "failed"},
             current_input' \in {0, current_input}, current_output' \in {0, current_output}
      PROVE  LoaderTyped' /\ TypeOK'
  <2>1. current_input \in 0 .. Len(config.inputs) /\ current_output \in 0 .. Len(config.outputs)
        /\ Len(config.inputs) \in Nat /\ Len(config.outputs) \in Nat
    BY <1>0, LenProperties DEF TypeOK
  <2>. QED  BY <1>0, <1>2, <2>1 DEF LoaderTyped, TypeOK, I, O
<1>3. CASE MappingStart
  <2>1. Arrives("mapping start") /\ UNCHANGED <<in_, current_key>> /\ expecting_key' = TRUE
    BY <1>3 DEF MappingStart
  <2>2. Empty(InputKeys) \in I /\ Empty(OutputKeys) \in O
    BY <1>0 DEF Empty, I, O
  <2>3. /\ {"inputs", "outputs"} \subseteq DOMAIN config'
        /\ \/ config'.inputs = config.inputs /\ current_input' = current_input
           \/ /\ config'.inputs = Append(config.inputs, Empty(InputKeys))
              /\ current_input' = Len(config'.inputs)
        /\ \/ config'.outputs = config.outputs /\ current_output' = current_output
           \/ /\ config'.outputs = Append(config.outputs, Empty(OutputKeys))
              /\ current_output' = Len(config'.outputs)
    BY <1>0, <1>3 DEF MappingStart, Newest
  <2>4. /\ config'.inputs \in Seq(I) /\ current_input' \in 0 .. Len(config'.inputs)
        /\ config'.outputs \in Seq(O) /\ current_output' \in 0 .. Len(config'.outputs)
    <3>1. /\ Append(config.inputs, Empty(InputKeys)) \in Seq(I)
          /\ Append(config.outputs, Empty(OutputKeys)) \in Seq(O)
      BY <1>0, <2>2, AppendProperties
    <3>2. config'.inputs \in Seq(I) /\ config'.outputs \in Seq(O)
      BY <1>0, <2>3, <3>1
    <3>3. Len(config'.inputs) \in Nat /\ Len(config'.outputs) \in Nat
      BY <3>2, LenProperties
    <3>. QED  BY <2>3, <3>2, <3>3 DEF TypeOK
  <2>. QED  BY <1>0, <1>1, <2>1, <2>3, <2>4 DEF LoaderTyped, TypeOK, I, O
<1>4. CASE MappingEnd \/ SequenceStart \/ SequenceEnd \/ ScalarKey
  <2>1. /\ UNCHANGED config /\ (\E type : Arrives(type))
        /\ current_input' \in {0, current_input} /\ current_output' \in {0, current_output}
        /\ expecting_key' \in BOOLEAN
        /\ in_' \subseteq {"inputs", "outputs", "correlation", "performance", "logs", "network"}
    BY <1>4 DEF MappingEnd, SequenceStart, SequenceEnd, ScalarKey, TypeOK, FlagsLeft,
                InputAfter, loader
  <2>. QED  BY <1>0, <1>1, <1>2, <2>1 DEF TypeOK
<1>5. CASE ScalarValue
  <2>1. /\ Arrives("scalar") /\ expecting_key' = TRUE
        /\ UNCHANGED <<in_, current_input, current_output>>
    BY <1>5 DEF ScalarValue
  <2>2. /\ {"inputs", "outputs"} \subseteq DOMAIN config'
        /\ config'.inputs \in Seq(I) /\ Len(config'.inputs) = Len(config.inputs)
        /\ config'.outputs \in Seq(O) /\ Len(config'.outputs) = Len(config.outputs)
    <3>1. /\ current_input # 0 => current_input \in 1 .. Len(config.inputs)
          /\ current_output # 0 => current_output \in 1 .. Len(config.outputs)
      BY <1>0, LenProperties DEF TypeOK
    <3>2. Event.value \in T
      BY <1>1, <2>1
    <3>. PICK s \in T : s = Event.value
      BY <3>2
    <3>3. current_input # 0 /\ current_key \in InputKeys =>
              /\ [config.inputs EXCEPT ![current_input][current_key] = s] \in Seq(I)
              /\ Len([config.inputs EXCEPT ![current_input][current_key] = s]) = Len(config.inputs)
      <4>. SUFFICES ASSUME current_input \in 1 .. Len(config.inputs), current_key \in InputKeys
                    PROVE  /\ [config.inputs EXCEPT ![current_input][current_key] = s] \in Seq(I)
                           /\ Len([config.inputs EXCEPT ![current_input][current_key] = s])
                                 = Len(config.inputs)
        BY <3>1
      <4>. PICK items, i, key :
              items = config.inputs /\ i = current_input /\ key = current_key
        OBVIOUS
      <4>1. items \in Seq(I) /\ i \in 1 .. Len(items) /\ key \in InputKeys
        BY <1>0
      <4>2. I = [InputKeys -> T]
        BY DEF I
      <4>3. [items EXCEPT ![i][key] = s] \in Seq(I)
            /\ Len([items EXCEPT ![i][key] = s]) = Len(items)
        BY <4>1, <4>2, SetTyped
      <4>. QED  BY <4>3
    <3>4. current_output # 0 /\ current_key \in OutputKeys =>
              /\ [config.outputs EXCEPT ![current_output][current_key] = s] \in Seq(O)
              /\ Len([config.outputs EXCEPT ![current_output][current_key] = s])
                    = Len(config.outputs)
      <4>. SUFFICES ASSUME current_output \in 1 .. Len(config.outputs), current_key \in OutputKeys
                    PROVE  /\ [config.outputs EXCEPT ![current_output][current_key] = s] \in Seq(O)
                           /\ Len([config.outputs EXCEPT ![current_output][current_key] = s])
                                 = Len(config.outputs)
        BY <3>1
      <4>. PICK items, i, key :
              items = config.outputs /\ i = current_output /\ key = current_key
        OBVIOUS
      <4>1. items \in Seq(O) /\ i \in 1 .. Len(items) /\ key \in OutputKeys
        BY <1>0
      <4>2. O = [OutputKeys -> T]
        BY DEF O
      <4>3. [items EXCEPT ![i][key] = s] \in Seq(O)
            /\ Len([items EXCEPT ![i][key] = s]) = Len(items)
        BY <4>1, <4>2, SetTyped
      <4>. QED  BY <4>3
    <3>. QED  BY <1>0, <1>5, <3>3, <3>4, ValueRead
  <2>. QED  BY <1>0, <1>1, <2>1, <2>2 DEF LoaderTyped, TypeOK, I, O
<1>6. CASE Loaded \/ Apply
  BY <1>0, <1>2, <1>6 DEF Loaded, Apply, loader, LoaderTyped, TypeOK
<1>7. CASE ParseError
  <2>1. /\ config' = Defaults /\ current_input' = 0 /\ current_output' = 0 /\ phase' = "failed"
        /\ UNCHANGED <<delivered, in_, expecting_key>>
    BY <1>7 DEF ParseError
  <2>2. config'.inputs \in Seq(I) /\ config'.outputs \in Seq(O)
        /\ Len(config'.inputs) = 0 /\ Len(config'.outputs) = 0
        /\ {"inputs", "outputs"} \subseteq DOMAIN config'
    BY <2>1 DEF Defaults
  <2>. QED  BY <1>0, <2>1, <2>2 DEF LoaderTyped, TypeOK, I, O
<1>. QED  BY <1>3, <1>4, <1>5, <1>6, <1>7 DEF Next

(* Every step of the loader goes on in the same item, ends it or begins    *)
(* another.                                                                *)
LEMMA LoaderNext == LoaderInv /\ [Next]_vars => LoaderInv'
<1>. SUFFICES ASSUME LoaderInv, [Next]_vars PROVE LoaderInv'
  OBVIOUS
<1>1. CASE UNCHANGED <<document, delivered, phase, loader, config>>
  <2>1. LoaderTyped' /\ TypeOK'
    BY <1>1 DEF LoaderInv, LoaderTyped, TypeOK, loader, Texts
  <2>. QED  BY <1>1, <2>1 DEF LoaderInv, loader
<1>2. CASE Next
  <2>1. LoaderTyped /\ TypeOK /\ LoaderTyped' /\ TypeOK' /\ document' = document
    BY <1>2, LoaderTypedNext, DocumentKept DEF LoaderInv
  <2>2. /\ document \in Documents /\ delivered \in Nat /\ Len(config.inputs) \in Nat
        /\ current_input # 0 => current_input \in 1 .. Len(config.inputs)
    BY <2>1, LenProperties, ConfigAssumption DEF LoaderTyped, TypeOK
  <2>. PICK d \in Documents, q \in Nat : d = document /\ q = delivered
    BY <2>2
  <2>3. \A k \in 1 .. Len(config.inputs) : InItem(d, ValuesOf(config.inputs[k]))
    BY DEF LoaderInv
  <2>4. current_input # 0 =>
           \E p \in 2 .. q :
              Reading(d, q, config.inputs[current_input], expecting_key, current_key, p)
    BY DEF LoaderInv
  <2>5. ASSUME NEW type, Arrives(type)
        PROVE  delivered' = q + 1 /\ q + 1 \in 1 .. Len(d.events) /\ d.events[q + 1].type = type
               /\ Event = d.events[q + 1]
    BY <2>1, <2>2, <2>5, ConfigAssumption DEF Arrives, Event
  <2>6. ASSUME NEW type, Arrives(type), type # "mapping end",
               config'.inputs = config.inputs, current_input' = current_input,
               \/ expecting_key'
               \/ ~expecting_key /\ current_key' = current_key
               \/ type = "scalar" /\ current_key' = Event.value
        PROVE  LoaderInv'
    <3>. PICK e, key, e2, key2, i :
            /\ e = expecting_key /\ key = current_key /\ e2 = expecting_key' /\ key2 = current_key'
            /\ i = current_input
      OBVIOUS
    <3>. PICK input : input = config.inputs[current_input]
      OBVIOUS
    <3>1. delivered' = q + 1 /\ q + 1 \in 1 .. Len(d.events) /\ d.events[q + 1].type = type
          /\ Event = d.events[q + 1]
      BY <2>5, <2>6
    <3>2. e2 \/ (~e /\ key2 = key) \/ (IsScalar(d, q + 1) /\ key2 = d.events[q + 1].value)
      BY <2>6, <3>1 DEF IsScalar
    <3>3. i # 0 => \E p \in 2 .. (q + 1) : Reading(d, q + 1, input, e2, key2, p)
      <4>. SUFFICES ASSUME i # 0 PROVE \E p \in 2 .. (q + 1) : Reading(d, q + 1, input, e2, key2, p)
        OBVIOUS
      <4>. PICK p \in 2 .. q : Reading(d, q, input, e, key, p)
        BY <2>4
      <4>1. p \in 2 .. (q + 1) /\ Reading(d, q + 1, input, e2, key2, p)
        BY <2>6, <3>1, <3>2, ReadsOn
      <4>. QED  BY <4>1
    <3>4. config'.inputs[current_input'] = input
      BY <2>6
    <3>. QED  BY <2>1, <2>3, <2>6, <3>1, <3>3, <3>4 DEF LoaderInv
  <2>7. CASE MappingStart
    <3>1. Arrives("mapping start") /\ expecting_key' = TRUE /\ UNCHANGED <<in_, current_key>>
      BY <2>7 DEF MappingStart
    <3>2. CASE config'.inputs = config.inputs /\ current_input' = current_input
      BY <2>6, <3>1, <3>2
    <3>3. CASE /\ config'.inputs = Append(config.inputs, Empty(InputKeys))
               /\ current_input' = Len(config'.inputs) /\ in_ # {}
      <4>. PICK key2 : key2 = current_key'
        OBVIOUS
      <4>1. delivered' = q + 1 /\ d.events[q + 1].type = "mapping start"
        BY <2>5, <3>1
      <4>2. q # 0
        BY <2>1, <3>3 DEF LoaderTyped
      <4>3. /\ q + 1 \in 2 .. (q + 1)
            /\ Reading(d, q + 1, Empty(InputKeys), TRUE, key2, q + 1)
            /\ InItem(d, ValuesOf(Empty(InputKeys)))
        BY <4>1, <4>2, ReadsFrom
      <4>4. /\ Len(config'.inputs) = Len(config.inputs) + 1
            /\ config'.inputs[current_input'] = Empty(InputKeys)
            /\ \A k \in 1 .. Len(config.inputs) : config'.inputs[k] = config.inputs[k]
        <5>1. Empty(InputKeys) \in [InputKeys -> Texts(document)]
          BY DEF Empty, Texts
        <5>2. config.inputs \in Seq([InputKeys -> Texts(document)])
          BY <2>1 DEF LoaderTyped
        <5>. QED  BY <2>2, <3>3, <5>1, <5>2, AppendProperties
      <4>5. \A k \in 1 .. Len(config'.inputs) : InItem(d, ValuesOf(config'.inputs[k]))
        <5>1. \A k \in 1 .. Len(config'.inputs) :
                  k \in 1 .. Len(config.inputs) \/ k = current_input'
          BY <2>2, <3>3, <4>4
        <5>. QED  BY <2>3, <4>3, <4>4, <5>1
      <4>. QED  BY <2>1, <3>1, <4>1, <4>3, <4>4, <4>5 DEF LoaderInv
    <3>4. {"inputs", "outputs"} \subseteq DOMAIN config
      BY <2>1 DEF LoaderTyped
    <3>. QED  BY <2>7, <3>2, <3>3, <3>4 DEF MappingStart, Newest
  <2>8. CASE MappingEnd
    <3>1. config' = config /\ current_input' = 0
      BY <2>8 DEF MappingEnd, InputAfter
    <3>. QED  BY <2>1, <2>3, <3>1 DEF LoaderInv
  <2>9. CASE SequenceStart
    <3>1. Arrives("sequence start") /\ config' = config
          /\ UNCHANGED <<expecting_key, current_key, current_input>>
      BY <2>9 DEF SequenceStart
    <3>2. expecting_key' \/ ~expecting_key
      BY <3>1
    <3>. QED  BY <2>6, <3>1, <3>2
  <2>10. CASE SequenceEnd
    <3>1. Arrives("sequence end") /\ config' = config
          /\ UNCHANGED <<expecting_key, current_key, current_input>>
      BY <2>10 DEF SequenceEnd, loader
    <3>2. expecting_key' \/ ~expecting_key
      BY <3>1
    <3>. QED  BY <2>6, <3>1, <3>2
  <2>11. CASE ScalarKey
    <3>1. Arrives("scalar") /\ config' = config /\ current_key' = Event.value
          /\ current_input' = current_input
      BY <2>11 DEF ScalarKey
    <3>. QED  BY <2>6, <3>1
  <2>12. CASE ScalarValue
    <3>1. /\ Arrives("scalar") /\ expecting_key' = TRUE /\ ~expecting_key
          /\ UNCHANGED <<in_, current_input, current_output>>
      BY <2>12 DEF ScalarValue
    <3>2. CASE config'.inputs = config.inputs
      BY <2>6, <3>1, <3>2
    <3>3. CASE /\ current_input # 0 /\ current_key \in InputKeys
               /\ config'.inputs = [config.inputs EXCEPT ![current_input][current_key] = Event.value]
      <4>1. /\ delivered' = q + 1 /\ q + 1 \in 1 .. Len(d.events)
            /\ d.events[q + 1].type = "scalar" /\ Event = d.events[q + 1]
        BY <2>5, <3>1
      <4>. PICK ins, key, key2, s, i :
              /\ ins = config.inputs /\ key = current_key /\ key2 = current_key'
              /\ s = d.events[q + 1].value /\ i = current_input
        OBVIOUS
      <4>. PICK new : new = [ins EXCEPT ![i][key] = s]
        OBVIOUS
      <4>2. config'.inputs = new
        BY <3>3, <4>1
      <4>3. /\ Len(new) = Len(ins) /\ key \in InputKeys /\ i \in 1 .. Len(ins)
            /\ \A j \in 1 .. Len(ins) : j # i => new[j] = ins[j]
            /\ \A k \in InputKeys : new[i][k] \in {s, ins[i][k]}
        <5>. PICK T : T = Texts(d)
          OBVIOUS
        <5>1. ins \in Seq([InputKeys -> T]) /\ s \in T
          BY <2>1, <4>1 DEF LoaderTyped, Texts
        <5>2. i \in 1 .. Len(ins) /\ key \in InputKeys
          BY <2>2, <3>3
        <5>3. /\ Len(new) = Len(ins) /\ \A j \in 1 .. Len(ins) : j # i => new[j] = ins[j]
              /\ \A k \in InputKeys : new[i][k] = IF k = key THEN s ELSE ins[i][k]
          BY <5>1, <5>2, OneSet
        <5>. QED  BY <5>2, <5>3
      <4>. PICK p \in 2 .. q : Reading(d, q, ins[i], FALSE, key, p)
        BY <2>1, <2>4, <3>1, <3>3 DEF TypeOK
      <4>. PICK input, item : input = ins[i] /\ item = new[i]
        OBVIOUS
      <4>4. /\ p \in 2 .. (q + 1) /\ Reading(d, q + 1, item, TRUE, key2, p)
            /\ InItem(d, ValuesOf(item))
        BY <4>1, <4>3, ReadsValue
      <4>5. \A k \in 1 .. Len(new) : InItem(d, ValuesOf(new[k]))
        BY <2>3, <4>3, <4>4
      <4>6. config'.inputs[current_input'] = item /\ expecting_key' = TRUE /\ current_key' = key2
        BY <3>1, <4>2
      <4>. QED  BY <2>1, <4>1, <4>2, <4>4, <4>5, <4>6 DEF LoaderInv
    <3>. QED  BY <2>1, <2>12, <3>2, <3>3, ValueRead
  <2>13. CASE Loaded \/ Apply
    BY <1>1, <2>1, <2>3, <2>4, <2>13 DEF Loaded, Apply, loader, LoaderInv
  <2>14. CASE ParseError
    <3>1. config'.inputs = <<>> /\ current_input' = 0
      BY <2>14 DEF ParseError, Defaults
    <3>. QED  BY <2>1, <3>1 DEF LoaderInv
  <2>. QED  BY <1>2, <2>7, <2>8, <2>9, <2>10, <2>11, <2>12, <2>13, <2>14 DEF Next
<1>. QED  BY <1>1, <1>2 DEF vars

(* main loads its file by steps of the loader.                             *)
LEMMA LoaderHolds == MainSpec => []LoaderInv
<1>1. MainInit => LoaderInv
  <2>1. MainInit => document \in Documents /\ LoaderInit
    BY CommandLineAssumption DEF MainInit
  <2>. QED  BY <2>1, LoaderInit_
<1>2. [MainNext]_allVars => [Next]_vars
  BY DEF MainNext, allVars, ParseOptions, Open, LoadConfig, MakeInputs, MakeOutput, Start, CleanUp
<1>. QED  BY <1>1, <1>2, LoaderNext, PTL DEF MainSpec

(* Of any file, whatever the order and depth of its sections, the loader   *)
(* never mixes two items in one input (nblex_config_load_yaml in           *)
(* core/config.c): what it reads into an input stands between the start of *)
(* a mapping and the next end of one, which is where current_input is      *)
(* reset.                                                                  *)
THEOREM ItemsAreWhole == MainSpec => []ItemsWhole
<1>1. LoaderInv => ItemsWhole
  <2>. SUFFICES ASSUME LoaderInv, NEW k \in DOMAIN config.inputs
                PROVE  \E item \in document.items \cup {{}} :
                          {config.inputs[k][key] : key \in InputKeys} \subseteq item \cup {None}
    BY DEF ItemsWhole
  <2>1. k \in 1 .. Len(config.inputs)
    BY DEF LoaderInv, LoaderTyped
  <2>. QED  BY <2>1 DEF LoaderInv, InItem, ValuesOf
<1>. QED  BY <1>1, LoaderHolds, PTL

----------------------------------------------------------------------------
(* What the loader reads is what is meant.  First the flags: the name of a *)
(* section sets its flag, which is the only text that does; an input or    *)
(* output is read only behind the names of their sections.                 *)
FlagsInv ==
    /\ \A name \in SectionNames : name \in in_ => Present(name) /\ Position(name) <= delivered
    /\ current_input # 0 => "inputs" \in in_
    /\ current_output # 0 => "outputs" \in in_
    /\ (\A r \in 1 .. delivered : ~IsScalar(document, r)) => in_ = {} /\ current_key = None
    /\ DOMAIN config = DOMAIN Defaults
    /\ phase \in {"loading", "loaded"} => world = OpenWorld

(* An event that arrives.                                                  *)
LEMMA OneArrives ==
    ASSUME LoaderTyped, NEW type, Arrives(type)
    PROVE  /\ document' = document /\ delivered' = delivered + 1 /\ delivered \in Nat
           /\ delivered + 1 \in 1 .. Len(document.events) /\ Len(document.events) \in Nat
           /\ Event = document.events[delivered + 1]
           /\ document.events[delivered + 1].type = type
           /\ IsScalar(document, delivered + 1) <=> type = "scalar"
           /\ phase = "loading" /\ phase' = phase /\ world' = world
  BY ConfigAssumption DEF LoaderTyped, Arrives, Event, IsScalar

(* Events by their kinds; all other steps deliver none.                    *)
LEMMA StepKinds ==
    ASSUME Next
    PROVE  \/ Arrives("mapping start") /\ MappingStart
           \/ Arrives("mapping end") /\ MappingEnd
           \/ Arrives("sequence start") /\ SequenceStart
           \/ Arrives("sequence end") /\ SequenceEnd
           \/ Arrives("scalar") /\ expecting_key /\ ScalarKey
           \/ Arrives("scalar") /\ ~expecting_key /\ ScalarValue
           \/ /\ Loaded \/ Apply \/ ParseError
              /\ UNCHANGED <<document, delivered, in_, expecting_key, current_key>>
  BY DEF Next, MappingStart, MappingEnd, SequenceStart, SequenceEnd, ScalarKey, ScalarValue,
         Loaded, Apply, ParseError, loader

(* The step that takes an event, by its type.                              *)
EventTaken ==
    /\ delivered' = delivered + 1 /\ delivered + 1 \in 1 .. Len(document.events)
    /\ Event = document.events[delivered + 1] /\ phase = "loading" /\ phase' = phase
    /\ \/ Event.type = "mapping start" /\ MappingStart
       \/ Event.type = "mapping end" /\ MappingEnd
       \/ Event.type = "sequence start" /\ SequenceStart
       \/ Event.type = "sequence end" /\ SequenceEnd
       \/ Event.type = "scalar" /\ expecting_key /\ ScalarKey
       \/ Event.type = "scalar" /\ ~expecting_key /\ ScalarValue

LEMMA ByType ==
    ASSUME LoaderTyped, Next
    PROVE  \/ UNCHANGED <<delivered, in_, expecting_key, current_key>>
           \/ EventTaken
<1>. USE DEF EventTaken
<1>1. ASSUME NEW type, Arrives(type)
      PROVE  /\ delivered' = delivered + 1 /\ delivered + 1 \in 1 .. Len(document.events)
             /\ Event = document.events[delivered + 1] /\ phase = "loading" /\ phase' = phase
             /\ Event.type = type
  BY <1>1, OneArrives
<1>2. CASE Arrives("mapping start") /\ MappingStart
  BY <1>1, <1>2
<1>3. CASE Arrives("mapping end") /\ MappingEnd
  BY <1>1, <1>3
<1>4. CASE Arrives("sequence start") /\ SequenceStart
  BY <1>1, <1>4
<1>5. CASE Arrives("sequence end") /\ SequenceEnd
  BY <1>1, <1>5
<1>6. CASE Arrives("scalar") /\ expecting_key /\ ScalarKey
  BY <1>1, <1>6
<1>7. CASE Arrives("scalar") /\ ~expecting_key /\ ScalarValue
  BY <1>1, <1>7
<1>. QED  BY <1>2, <1>3, <1>4, <1>5, <1>6, <1>7, StepKinds

LEMMA SectionTexts ==
    ASSUME NEW d \in Documents, NEW q \in 1 .. Len(d.events), IsScalar(d, q),
           NEW name \in SectionNames, d.events[q].value = name
    PROVE  name \in DOMAIN d.places /\ d.places[name] = q
  BY SectionsAssumption

LEMMA DomainKept ==
    ASSUME LoaderTyped, DOMAIN config = DOMAIN Defaults, Next
    PROVE  DOMAIN config' = DOMAIN Defaults
<1>1. CASE ScalarValue
  <2>. DEFINE s == Event.value
  <2>1. \/ config' = config
        \/ config' = [config EXCEPT !.version = s]
        \/ config' = Setting(current_key, s)
        \/ config' = [config EXCEPT !.inputs[current_input][current_key] = s]
        \/ config' = [config EXCEPT !.outputs[current_output][current_key] = s]
    BY <1>1 DEF ScalarValue
  <2>2. DOMAIN Setting(current_key, s) = DOMAIN config
    BY DEF Setting
  <2>. QED  BY <2>1, <2>2
<1>2. CASE MappingStart
  BY <1>2 DEF MappingStart
<1>3. CASE MappingEnd \/ SequenceStart \/ SequenceEnd \/ ScalarKey \/ Loaded \/ Apply \/ ParseError
  BY <1>3 DEF MappingEnd, SequenceStart, SequenceEnd, ScalarKey, Loaded, Apply, ParseError
<1>. QED  BY <1>1, <1>2, <1>3 DEF Next

LEMMA FlagsInit ==
    ASSUME document \in Documents, LoaderInit
    PROVE  FlagsInv
  BY DEF LoaderInit, FlagsInv

LEMMA FlagsNext ==
    ASSUME LoaderTyped, TypeOK, FlagsInv, Next
    PROVE  FlagsInv'
<1>. PICK d, q : d = document /\ q = delivered
  OBVIOUS
<1>1. d \in Documents /\ q \in Nat /\ document' = d
  BY DocumentKept DEF LoaderTyped
<1>2. DOMAIN config' = DOMAIN Defaults
  BY DomainKept DEF FlagsInv
<1>3. ASSUME NEW type, Arrives(type),
             \A name \in SectionNames : name \in in_' =>
                 name \in in_ \/ (type = "scalar" /\ name = Event.value),
             type # "scalar" => in_' \subseteq in_ \cup ({current_key} \cap {"logs", "network"})
                               /\ current_key' = current_key,
             current_input' # 0 => "inputs" \in in_',
             current_output' # 0 => "outputs" \in in_'
      PROVE  FlagsInv'
  <2>1. /\ delivered' = q + 1 /\ q + 1 \in 1 .. Len(d.events) /\ phase' = phase /\ world' = world
        /\ Event = d.events[q + 1] /\ IsScalar(d, q + 1) <=> type = "scalar"
    BY <1>3, OneArrives
  <2>2. \A name \in SectionNames : name \in in_' =>
            name \in DOMAIN d.places /\ d.places[name] <= q + 1
    <3>. SUFFICES ASSUME NEW name \in SectionNames, name \in in_'
                  PROVE  name \in DOMAIN d.places /\ d.places[name] <= q + 1
      OBVIOUS
    <3>1. CASE name \in in_
      <4>1. name \in DOMAIN d.places /\ d.places[name] <= q
        BY <3>1 DEF FlagsInv, Present, Position
      <4>2. d.places[name] \in Nat
        BY <1>1, <4>1, SectionsAssumption
      <4>. QED  BY <1>1, <4>1, <4>2
    <3>2. CASE IsScalar(d, q + 1) /\ name = d.events[q + 1].value
      BY <1>1, <2>1, <3>2, SectionTexts
    <3>. QED  BY <1>3, <2>1, <3>1, <3>2
  <2>3. (\A r \in 1 .. q + 1 : ~IsScalar(d, r)) => in_' = {} /\ current_key' = None
    <3>. SUFFICES ASSUME \A r \in 1 .. q + 1 : ~IsScalar(d, r)
                  PROVE  in_' = {} /\ current_key' = None
      OBVIOUS
    <3>1. ~IsScalar(d, q + 1) /\ \A r \in 1 .. q : ~IsScalar(d, r)
      BY <1>1
    <3>2. in_ = {} /\ current_key = None
      BY <3>1 DEF FlagsInv
    <3>. QED  BY <1>3, <2>1, <3>1, <3>2 DEF None
  <2>. QED  BY <1>1, <1>2, <1>3, <2>1, <2>2, <2>3 DEF FlagsInv, Present, Position
<1>4. CASE Arrives("mapping start") /\ MappingStart
  <2>1. /\ UNCHANGED <<in_, current_key>>
        /\ current_input' = current_input \/ "inputs" \in in_
        /\ current_output' = current_output \/ "outputs" \in in_
    BY <1>4 DEF MappingStart
  <2>. QED  BY <1>3, <1>4, <2>1 DEF FlagsInv
<1>5. CASE Arrives("mapping end") /\ MappingEnd
  BY <1>3, <1>5 DEF MappingEnd, FlagsLeft, InputAfter
<1>6. CASE Arrives("sequence start") /\ SequenceStart
  BY <1>3, <1>6 DEF SequenceStart, FlagsInv, SectionNames
<1>7. CASE Arrives("sequence end") /\ SequenceEnd
  BY <1>3, <1>7 DEF SequenceEnd, loader, FlagsInv
<1>8. CASE Arrives("scalar") /\ ScalarKey
  BY <1>3, <1>8 DEF ScalarKey, FlagsInv
<1>9. CASE Arrives("scalar") /\ ScalarValue
  BY <1>3, <1>9 DEF ScalarValue, FlagsInv
<1>10. CASE (Loaded \/ Apply \/ ParseError)
            /\ UNCHANGED <<document, delivered, in_, expecting_key, current_key>>
  <2>1. /\ current_input' \in {0, current_input} /\ current_output' \in {0, current_output}
        /\ phase' \in {"loading", "loaded"} => phase \in {"loading", "loaded"} /\ world' = world
    BY <1>10 DEF Loaded, Apply, ParseError, loader
  <2>. QED  BY <1>2, <1>10, <2>1 DEF FlagsInv, Present, Position
<1>. QED  BY <1>4, <1>5, <1>6, <1>7, <1>8, <1>9, <1>10, StepKinds

(* The start of a section: where a mapping has ended, or the document      *)
(* begins, the flags of settings and lists are not set, and the loader     *)
(* expects a key at every second text from there.                          *)
Passing == {"correlation", "performance", "logs", "network"}
AtKey(start, q) == (q - start) % 2 = 0

ApproachAt(name, p, m) ==
    LET a == Position(name)
    IN  /\ delivered \in p .. m => in_ \cap Passing = {} /\ expecting_key
        /\ delivered \in m .. (a - 1) =>
              in_ \cap Passing = {} /\ (expecting_key <=> AtKey(m, delivered))
        /\ delivered = a => /\ name \in in_ /\ in_ \cap Passing \subseteq {name}
                            /\ ~expecting_key /\ current_key = name

ApproachInv ==
    \A name \in DOMAIN document.places : \A p, m :
        SectionBegins(document, Position(name), p, m) => ApproachAt(name, p, m)

LEMMA Parity ==
    ASSUME NEW m \in Int, NEW q \in Int
    PROVE  /\ AtKey(m, m) /\ AtKey(m, q + 1) <=> ~AtKey(m, q)
           /\ ~AtKey(m, q) <=> (q - m) % 2 = 1
<1>. PICK n \in Int : n = q - m
  OBVIOUS
<1>1. (n + 1) % 2 = 0 <=> n % 2 # 0
  OBVIOUS
<1>2. n % 2 # 0 <=> n % 2 = 1
  OBVIOUS
<1>3. (q + 1) - m = n + 1 /\ m - m = 0 /\ 0 % 2 = 0
  OBVIOUS
<1>. QED  BY <1>1, <1>2, <1>3 DEF AtKey

LEMMA ApproachInit ==
    ASSUME document \in Documents, LoaderInit
    PROVE  ApproachInv
<1>. SUFFICES ASSUME NEW name \in DOMAIN document.places, NEW p, NEW m,
                     SectionBegins(document, Position(name), p, m)
              PROVE  ApproachAt(name, p, m)
  BY DEF ApproachInv
<1>1. Position(name) \in Nat /\ Position(name) # 0
  BY SectionsAssumption, ConfigAssumption DEF Position
<1>2. m \in 1 .. (Position(name) - 1) /\ p \in 1 .. m
  BY DEF SectionBegins
<1>. QED  BY <1>1, <1>2 DEF LoaderInit, ApproachAt

LEMMA ApproachNext ==
    ASSUME LoaderTyped, TypeOK, FlagsInv, ApproachInv, Next
    PROVE  ApproachInv'
<1>1. document' = document /\ document \in Documents /\ delivered \in Nat
  BY DocumentKept DEF LoaderTyped
<1>. SUFFICES ASSUME NEW name \in DOMAIN document.places, NEW p, NEW m,
                     SectionBegins(document, Position(name), p, m)
              PROVE  ApproachAt(name, p, m)'
  BY <1>1 DEF ApproachInv, Position
<1>. PICK d, q, a : d = document /\ q = delivered /\ a = Position(name)
  OBVIOUS
<1>2. /\ d \in Documents /\ q \in Nat /\ a \in 1 .. Len(d.events) /\ Position(name)' = a
      /\ IsScalar(d, a) /\ d.events[a].value = name /\ name \in SectionNames
      /\ Len(d.events) \in Nat
  BY <1>1, SectionsAssumption, ConfigAssumption DEF Position
<1>3. p \in 1 .. m /\ m \in 1 .. (a - 1) /\ p \in Nat /\ m \in Nat /\ a \in Nat
  <2>1. p \in 1 .. m /\ m \in 1 .. (a - 1)
    BY DEF SectionBegins
  <2>2. a \in Nat
    BY <1>2
  <2>3. m \in Nat
    BY <2>1, <2>2
  <2>. QED  BY <2>1, <2>2, <2>3
<1>18. /\ ~AtKey(m, a) /\ AtKey(m, m)
       /\ AtKey(m, q + 1) <=> ~AtKey(m, q)
  <2>1. (a - m) % 2 = 1
    BY DEF SectionBegins
  <2>2. m \in Int /\ a \in Int /\ q \in Int
    BY <1>2, <1>3
  <2>. QED  BY <2>1, <2>2, Parity
<1>4. \/ d.events[p].type = "mapping end"
      \/ d.events[p].type = "mapping start" /\ \A r \in 1 .. (p - 1) : ~IsScalar(d, r)
  BY DEF SectionBegins
<1>5. \A r \in (p + 1) .. m : d.events[r].type = "sequence end"
  BY DEF SectionBegins
<1>6. \A r \in (m + 1) .. (a - 1) : IsScalar(d, r) /\ d.events[r].value \notin SectionNames
  BY DEF SectionBegins
<1>7. ApproachAt(name, p, m)
  BY DEF ApproachInv
<1>8. CASE UNCHANGED <<delivered, in_, expecting_key, current_key>>
  BY <1>2, <1>7, <1>8 DEF ApproachAt
<1>9. CASE EventTaken
  <2>. USE DEF EventTaken
  <2>1. delivered' = q + 1 /\ Event = d.events[q + 1]
    BY <1>9
  <2>2. CASE q + 1 < p \/ q + 1 > a
    BY <1>2, <1>3, <2>1, <2>2 DEF ApproachAt
  <2>3. CASE q + 1 = p
    <3>1. in_' \cap Passing = {} /\ expecting_key'
      <4>1. CASE d.events[p].type = "mapping end"
        <5>1. MappingEnd
          BY <1>9, <2>1, <2>3, <4>1
        <5>. QED  BY <5>1 DEF MappingEnd, FlagsLeft, Passing
      <4>2. CASE d.events[p].type = "mapping start" /\ \A r \in 1 .. (p - 1) : ~IsScalar(d, r)
        <5>1. MappingStart
          BY <1>9, <2>1, <2>3, <4>2
        <5>2. q = p - 1
          BY <1>2, <1>3, <2>3
        <5>3. in_ = {}
          BY <4>2, <5>2 DEF FlagsInv
        <5>. QED  BY <5>1, <5>3 DEF MappingStart
      <4>. QED  BY <1>4, <4>1, <4>2
    <3>2. p \in p .. m /\ AtKey(m, m) /\ p # a
      BY <1>2, <1>3, <1>18
    <3>3. p \in m .. (a - 1) => p = m
      BY <1>3
    <3>. QED  BY <1>2, <2>1, <2>3, <3>1, <3>2, <3>3 DEF ApproachAt
  <2>4. CASE q + 1 \in (p + 1) .. m
    <3>1. in_ \cap Passing = {} /\ expecting_key
      BY <1>2, <1>3, <1>7, <2>4 DEF ApproachAt
    <3>2. SequenceEnd
      BY <1>5, <1>9, <2>1, <2>4
    <3>3. in_' = in_ /\ expecting_key' = expecting_key
      BY <3>2 DEF SequenceEnd, loader
    <3>4. AtKey(m, m) /\ q + 1 # a /\ (q + 1 \in m .. (a - 1) => q + 1 = m)
      BY <1>2, <1>3, <2>4, <1>18
    <3>. QED  BY <1>2, <2>1, <3>1, <3>3, <3>4 DEF ApproachAt
  <2>5. CASE q + 1 \in (m + 1) .. (a - 1)
    <3>1. in_ \cap Passing = {} /\ (expecting_key <=> AtKey(m, q))
      <4>1. q \in m .. (a - 1)
        BY <1>2, <1>3, <2>5
      <4>. QED  BY <1>7, <4>1 DEF ApproachAt
    <3>2. in_' = in_ /\ (expecting_key' <=> ~expecting_key)
      <4>1. Event.type = "scalar" /\ Event.value \notin SectionNames
        BY <1>6, <2>1, <2>5 DEF IsScalar
      <4>2. (expecting_key /\ ScalarKey) \/ (~expecting_key /\ ScalarValue)
        BY <1>9, <4>1
      <4>. QED  BY <4>1, <4>2 DEF ScalarKey, ScalarValue, SectionNames
    <3>3. q + 1 # a /\ q + 1 \notin p .. m
      BY <1>2, <1>3, <2>5
    <3>. QED  BY <1>2, <1>18, <2>1, <3>1, <3>2, <3>3 DEF ApproachAt
  <2>6. CASE q + 1 = a
    <3>1. q \in m .. (a - 1) /\ AtKey(m, q)
      <4>1. q \in m .. (a - 1)
        BY <1>2, <1>3, <2>6
      <4>. QED  BY <1>18, <2>6, <4>1
    <3>2. in_ \cap Passing = {} /\ expecting_key
      BY <1>7, <3>1 DEF ApproachAt
    <3>3. Event.type = "scalar" /\ Event.value = name
      BY <1>2, <2>1, <2>6 DEF IsScalar
    <3>4. ScalarKey
      BY <1>9, <3>2, <3>3
    <3>5. in_' = in_ \cup {name} /\ expecting_key' = FALSE /\ current_key' = name
      BY <1>2, <3>3, <3>4 DEF ScalarKey, SectionNames
    <3>6. a \notin p .. m /\ a \notin m .. (a - 1)
      BY <1>3
    <3>. QED  BY <1>2, <2>1, <2>6, <3>2, <3>5, <3>6 DEF ApproachAt
  <2>. QED  BY <1>2, <1>3, <2>2, <2>3, <2>4, <2>5, <2>6
<1>. QED  BY <1>8, <1>9, ByType

(* At the name of a section.                                               *)
LEMMA AtSection ==
    ASSUME LoaderTyped, ApproachInv, NEW name \in DOMAIN document.places,
           delivered = Position(name)
    PROVE  /\ name \in in_ /\ in_ \cap Passing \subseteq {name}
           /\ ~expecting_key /\ current_key = name
<1>1. PICK p, m : SectionBegins(document, Position(name), p, m)
  BY SectionsAssumption DEF LoaderTyped, Position
<1>. QED  BY <1>1 DEF ApproachInv, ApproachAt

(* No two keys set the same setting.                                       *)
LEMMA SettingNames ==
    /\ DOMAIN SettingsOf = {"correlation", "performance"}
    /\ \A c \in DOMAIN SettingsOf : \A key \in DOMAIN SettingsOf[c] :
          /\ SettingsOf[c][key] \in DOMAIN Defaults \ {"version", "inputs", "outputs"}
          /\ key # "version"
    /\ \A c, d \in DOMAIN SettingsOf : \A key \in DOMAIN SettingsOf[c], other \in DOMAIN SettingsOf[d] :
          SettingsOf[c][key] = SettingsOf[d][other] => c = d /\ key = other
  BY DEF SettingsOf, Defaults

(* What a value does to a setting: nothing if the flag of its section is   *)
(* not set.                                                                *)
LEMMA OtherValue ==
    ASSUME DOMAIN config = DOMAIN Defaults, ScalarValue,
           NEW c \in DOMAIN SettingsOf, NEW key \in DOMAIN SettingsOf[c], c \notin in_
    PROVE  config'[SettingsOf[c][key]] = config[SettingsOf[c][key]]
<1>. PICK s : s = SettingsOf[c][key]
  OBVIOUS
<1>1. s \in DOMAIN config /\ s \notin {"version", "inputs", "outputs"}
  BY SettingNames
<1>2. \/ config' = config
      \/ config' = [config EXCEPT !.version = Event.value]
      \/ config' = Setting(current_key, Event.value)
      \/ config' = [config EXCEPT !.inputs[current_input][current_key] = Event.value]
      \/ config' = [config EXCEPT !.outputs[current_output][current_key] = Event.value]
  BY DEF ScalarValue
<1>3. CASE config' = Setting(current_key, Event.value)
  <2>1. CASE "correlation" \in in_ /\ current_key \in DOMAIN SettingsOf.correlation
    <3>1. config' = [config EXCEPT ![SettingsOf.correlation[current_key]] =
                                       Parsed(current_key, Event.value)]
      BY <1>3, <2>1 DEF Setting
    <3>2. SettingsOf.correlation[current_key] # s
      BY <2>1, SettingNames
    <3>. QED  BY <1>1, <3>1, <3>2
  <2>2. CASE /\ ~("correlation" \in in_ /\ current_key \in DOMAIN SettingsOf.correlation)
             /\ in_ \cap {"correlation", "performance"} = {"performance"}
             /\ current_key \in DOMAIN SettingsOf.performance
    <3>1. config' = [config EXCEPT ![SettingsOf.performance[current_key]] =
                                       Parsed(current_key, Event.value)]
      BY <1>3, <2>2 DEF Setting
    <3>2. SettingsOf.performance[current_key] # s
      BY <2>2, SettingNames
    <3>. QED  BY <1>1, <3>1, <3>2
  <2>3. CASE /\ ~("correlation" \in in_ /\ current_key \in DOMAIN SettingsOf.correlation)
             /\ ~(/\ in_ \cap {"correlation", "performance"} = {"performance"}
                  /\ current_key \in DOMAIN SettingsOf.performance)
    BY <1>3, <2>3 DEF Setting
  <2>. QED  BY <2>1, <2>2, <2>3
<1>. QED  BY <1>1, <1>2, <1>3

(* Within its section a value sets the setting of its key.                 *)
LEMMA OwnValue ==
    ASSUME DOMAIN config = DOMAIN Defaults, ScalarValue,
           NEW c \in DOMAIN SettingsOf, NEW key \in DOMAIN SettingsOf[c],
           in_ \cap {"correlation", "performance"} = {c}, current_input = 0, current_output = 0
    PROVE  config'[SettingsOf[c][key]] =
               IF key = current_key THEN Parsed(key, Event.value) ELSE config[SettingsOf[c][key]]
<1>. PICK s : s = SettingsOf[c][key]
  OBVIOUS
<1>1. s \in DOMAIN config /\ s \notin {"version", "inputs", "outputs"} /\ key # "version"
  BY SettingNames
<1>2. \/ current_key = "version" /\ config' = [config EXCEPT !.version = Event.value]
      \/ current_key # "version" /\ config' = Setting(current_key, Event.value)
  BY DEF ScalarValue
<1>3. CASE config' = Setting(current_key, Event.value)
  <2>1. CASE current_key \in DOMAIN SettingsOf[c]
    <3>1. config' = [config EXCEPT ![SettingsOf[c][current_key]] =
                                       Parsed(current_key, Event.value)]
      <4>1. CASE c = "correlation"
        BY <1>3, <2>1, <4>1 DEF Setting
      <4>2. CASE c = "performance"
        BY <1>3, <2>1, <4>2 DEF Setting
      <4>. QED  BY <4>1, <4>2, SettingNames
    <3>2. SettingsOf[c][current_key] = s => key = current_key
      BY <2>1, SettingNames
    <3>. QED  BY <1>1, <3>1, <3>2
  <2>2. CASE current_key \notin DOMAIN SettingsOf[c]
    <3>1. config' = config
      <4>1. CASE c = "correlation"
        BY <1>3, <2>2, <4>1 DEF Setting
      <4>2. CASE c = "performance"
        BY <1>3, <2>2, <4>2 DEF Setting
      <4>. QED  BY <4>1, <4>2, SettingNames
    <3>. QED  BY <2>2, <3>1
  <2>. QED  BY <2>1, <2>2
<1>. QED  BY <1>1, <1>2, <1>3

(* All other events leave it as it is.                                     *)
LEMMA NoValue ==
    ASSUME DOMAIN config = DOMAIN Defaults,
           MappingStart \/ MappingEnd \/ SequenceStart \/ SequenceEnd \/ ScalarKey \/ Loaded \/ Apply,
           NEW c \in DOMAIN SettingsOf, NEW key \in DOMAIN SettingsOf[c]
    PROVE  config'[SettingsOf[c][key]] = config[SettingsOf[c][key]]
<1>. PICK s : s = SettingsOf[c][key]
  OBVIOUS
<1>1. s \in DOMAIN config /\ s \notin {"version", "inputs", "outputs"}
  BY SettingNames
<1>2. CASE MappingStart
  BY <1>1, <1>2 DEF MappingStart
<1>3. CASE ~MappingStart
  BY <1>3 DEF MappingEnd, SequenceStart, SequenceEnd, ScalarKey, Loaded, Apply
<1>. QED  BY <1>2, <1>3

(* A plain section of settings, in which no flag of inputs or outputs is   *)
(* set: before it there are the defaults, in it what has been read so far, *)
(* and behind it what is meant.                                            *)
SettingsAt(c, z) ==
    LET a == Position(c)
        p == a + 1
    IN  /\ delivered <= a => \A key \in DOMAIN SettingsOf[c] :
              config[SettingsOf[c][key]] = Defaults[SettingsOf[c][key]]
        /\ delivered \in p .. (z - 1) =>
              /\ in_ \cap {"correlation", "performance"} = {c}
              /\ expecting_key <=> AtKey(p, delivered)
              /\ ~expecting_key => current_key = document.events[delivered].value
              /\ \A key \in DOMAIN SettingsOf[c] :
                    config[SettingsOf[c][key]] =
                        IF \E r \in Values(document, p, z, key) : r <= delivered
                        THEN document.meant[SettingsOf[c][key]] ELSE Defaults[SettingsOf[c][key]]
        /\ z <= delivered =>
              /\ c \notin in_
              /\ \A key \in DOMAIN SettingsOf[c] :
                    config[SettingsOf[c][key]] = document.meant[SettingsOf[c][key]]

SettingsInv ==
    phase # "failed" =>
        \A c \in DOMAIN SettingsOf : \A z :
            c \in document.plain /\ Ahead(c) /\ MeansSettings(document, c, z) => SettingsAt(c, z)

LEMMA SettingsInit ==
    ASSUME document \in Documents, LoaderInit
    PROVE  SettingsInv
<1>. SUFFICES ASSUME NEW c \in DOMAIN SettingsOf, NEW z, c \in document.plain,
                     MeansSettings(document, c, z)
              PROVE  SettingsAt(c, z)
  BY DEF SettingsInv
<1>1. Position(c) \in Nat /\ Position(c) # 0
  BY SectionsAssumption, ConfigAssumption DEF Position
<1>2. z \in Position(c) + 1 .. Len(document.events)
  BY DEF MeansSettings, Position
<1>. QED  BY <1>1, <1>2 DEF LoaderInit, SettingsAt

(* One event of a file with a plain section of settings.                   *)
LEMMA SettingsStep ==
    ASSUME LoaderTyped, TypeOK, FlagsInv, ApproachInv, Next, phase' # "failed",
           NEW c \in DOMAIN SettingsOf, NEW z, c \in document.plain, Ahead(c),
           MeansSettings(document, c, z), SettingsAt(c, z)
    PROVE  SettingsAt(c, z)'
<1>. PICK d, q, a, p :
        d = document /\ q = delivered /\ a = Position(c) /\ p = a + 1
  OBVIOUS
<1>1. /\ document' = d /\ d \in Documents /\ q \in Nat /\ Position(c)' = a
      /\ a \in 1 .. Len(d.events) /\ IsScalar(d, a) /\ d.events[a].value = c
      /\ c \in DOMAIN d.places /\ d.places[c] = a /\ Len(d.events) \in Nat
  BY DocumentKept, SectionsAssumption, ConfigAssumption DEF LoaderTyped, Position
<1>2. /\ z \in p .. Len(d.events) /\ Pairs(d, p, z)
      /\ \A name \in DOMAIN d.places : d.places[name] \notin p .. z
  BY <1>1 DEF MeansSettings
<1>3. /\ a \in Nat /\ p \in Nat /\ z \in Nat /\ p < z /\ p = a + 1
      /\ AtKey(p, p) /\ ~AtKey(p, z)
      /\ AtKey(p, q + 1) <=> ~AtKey(p, q)
  <2>1. a \in Nat /\ p \in Nat /\ z \in Nat
    BY <1>1, <1>2
  <2>2. p < z /\ (z - p) % 2 = 1
    BY <1>2 DEF Pairs
  <2>3. p \in Int /\ z \in Int /\ q \in Int
    BY <1>1, <2>1
  <2>. QED  BY <2>1, <2>2, <2>3, Parity
<1>4. DOMAIN config = DOMAIN Defaults
  BY DEF FlagsInv
<1>5. ASSUME c \notin in_
      PROVE  \A key \in DOMAIN SettingsOf[c] :
                config'[SettingsOf[c][key]] = config[SettingsOf[c][key]]
  <2>1. ~ParseError
    BY DEF ParseError
  <2>. QED  BY <1>4, <1>5, <2>1, OtherValue, NoValue DEF Next
<1>6. c \in SectionNames /\ c \in {"correlation", "performance"}
  BY SettingNames DEF SectionNames
<1>7. CASE UNCHANGED <<delivered, in_, expecting_key, current_key>>
  <2>1. \A key \in DOMAIN SettingsOf[c] :
            config'[SettingsOf[c][key]] = config[SettingsOf[c][key]]
    <3>1. Loaded \/ Apply
      <4>1. \A type : ~Arrives(type)
        BY <1>1, <1>7, OneArrives
      <4>2. ~ParseError
        BY DEF ParseError
      <4>. QED  BY <4>1, <4>2, StepKinds
    <3>. QED  BY <1>4, <3>1, NoValue
  <2>. QED  BY <1>1, <1>7, <2>1 DEF SettingsAt
<1>8. CASE EventTaken
  <2>. USE DEF EventTaken
  <2>1. delivered' = q + 1 /\ Event = d.events[q + 1]
    BY <1>8
  <2>2. CASE q + 1 <= a
    <3>1. c \notin in_
      <4>1. ~(a <= q)
        BY <1>1, <1>3, <2>2
      <4>. QED  BY <1>6, <4>1 DEF FlagsInv
    <3>2. delivered <= Position(c) /\ ~(z <= q + 1) /\ q + 1 \notin p .. (z - 1)
      BY <1>1, <1>3, <2>2
    <3>. QED  BY <1>1, <1>5, <2>1, <2>2, <3>1, <3>2 DEF SettingsAt
  <2>3. CASE q = a
    <3>1. MappingStart
      BY <1>2, <1>8, <2>1, <2>3 DEF Pairs
    <3>2. in_ \cap {"correlation", "performance"} = {c}
      BY <1>1, <1>6, <2>3, AtSection DEF Passing
    <3>3. in_' = in_ /\ expecting_key' = TRUE
      BY <3>1 DEF MappingStart
    <3>4. \A key \in DOMAIN SettingsOf[c] : config'[SettingsOf[c][key]] = Defaults[SettingsOf[c][key]]
      <4>1. delivered <= Position(c)
        BY <1>1, <1>3, <2>3
      <4>. QED  BY <1>4, <3>1, <4>1, NoValue DEF SettingsAt
    <3>5. \A key : ~\E r \in Values(d, p, z, key) : r <= q + 1
      BY <1>1, <1>3, <2>3 DEF Values
    <3>6. ~(q + 1 <= a) /\ ~(z <= q + 1) /\ q + 1 = p
      BY <1>1, <1>3, <2>3
    <3>. QED  BY <1>1, <1>3, <2>1, <3>2, <3>3, <3>4, <3>5, <3>6 DEF SettingsAt
  <2>4. CASE q + 1 \in (p + 1) .. (z - 1)
    <3>1. /\ in_ \cap {"correlation", "performance"} = {c}
          /\ expecting_key <=> AtKey(p, q)
          /\ ~expecting_key => current_key = d.events[q].value
          /\ \A key \in DOMAIN SettingsOf[c] :
                config[SettingsOf[c][key]] =
                    IF \E r \in Values(d, p, z, key) : r <= q
                    THEN d.meant[SettingsOf[c][key]] ELSE Defaults[SettingsOf[c][key]]
      <4>1. q \in p .. (z - 1)
        BY <1>1, <1>3, <2>4
      <4>. QED  BY <4>1 DEF SettingsAt
    <3>2. Event.type = "scalar" /\ Event.value \notin SectionNames
      <4>1. IsScalar(d, q + 1) /\ q + 1 \in p .. z /\ q + 1 \in 1 .. Len(d.events)
        <5>1. IsScalar(d, q + 1)
          BY <1>2, <2>4 DEF Pairs
        <5>2. q + 1 \in p .. z
          BY <1>3, <2>4
        <5>. QED  BY <1>8, <5>1, <5>2
      <4>2. Event.value \in SectionNames => FALSE
        BY <1>1, <1>2, <2>1, <4>1, SectionTexts
      <4>. QED  BY <2>1, <4>1, <4>2 DEF IsScalar
    <3>3. /\ in_' = in_ /\ (expecting_key' <=> ~expecting_key)
          /\ ~expecting_key' => current_key' = Event.value
      BY <1>8, <3>2 DEF ScalarKey, ScalarValue, SectionNames
    <3>4. \A key \in DOMAIN SettingsOf[c] :
              config'[SettingsOf[c][key]] =
                  IF \E r \in Values(d, p, z, key) : r <= q + 1
                  THEN d.meant[SettingsOf[c][key]] ELSE Defaults[SettingsOf[c][key]]
      <4>. SUFFICES ASSUME NEW key \in DOMAIN SettingsOf[c]
                    PROVE  config'[SettingsOf[c][key]] =
                               IF \E r \in Values(d, p, z, key) : r <= q + 1
                               THEN d.meant[SettingsOf[c][key]] ELSE Defaults[SettingsOf[c][key]]
        OBVIOUS
      <4>. PICK at : at = Values(d, p, z, key)
        OBVIOUS
      <4>1. at \subseteq Nat /\ \A r \in at : r <= q + 1 <=> r <= q \/ r = q + 1
        BY <1>1, <1>3 DEF Values
      <4>2. q + 1 \in at <=> ~AtKey(p, q) /\ d.events[q].value = key
        <5>1. (q + 1) - 1 = q /\ (q + 1 = p + 1 => q = p)
          BY <1>1, <1>3
        <5>2. q + 1 \in (p + 2) .. (z - 1) \/ q = p
          BY <1>1, <1>3, <2>4
        <5>3. q + 1 \in at <=> q + 1 \in (p + 2) .. (z - 1) /\ AtKey(p, q + 1) /\ d.events[q].value = key
          BY <5>1 DEF Values, AtKey
        <5>4. q = p => q + 1 \notin (p + 2) .. (z - 1)
          BY <1>3
        <5>. QED  BY <1>3, <5>2, <5>3, <5>4
      <4>3. CASE expecting_key
        <5>1. config'[SettingsOf[c][key]] = config[SettingsOf[c][key]]
          BY <1>4, <1>8, <3>2, <4>3, NoValue
        <5>. QED  BY <3>1, <4>1, <4>2, <4>3, <5>1
      <4>4. CASE ~expecting_key
        <5>1. ScalarValue
          BY <1>8, <3>2, <4>4
        <5>2. current_input = 0 /\ current_output = 0
          <6>1. \A list \in {"inputs", "outputs"} : list \notin in_
            <7>. SUFFICES ASSUME NEW list \in {"inputs", "outputs"}, list \in in_ PROVE FALSE
              OBVIOUS
            <7>1. list \in DOMAIN d.places /\ d.places[list] <= q
              BY DEF FlagsInv, Present, Position, SectionNames
            <7>2. a < d.places[list] /\ d.places[list] \in Nat
              BY <1>1, <7>1, SectionsAssumption DEF Ahead, Present, Position
            <7>3. d.places[list] \in p .. z
              BY <1>1, <1>3, <2>4, <7>1, <7>2
            <7>. QED  BY <1>2, <7>1, <7>3
          <6>. QED  BY <6>1 DEF FlagsInv
        <5>3. config'[SettingsOf[c][key]] =
                  IF key = current_key THEN Parsed(key, Event.value) ELSE config[SettingsOf[c][key]]
          BY <1>4, <3>1, <5>1, <5>2, OwnValue
        <5>4. q + 1 \in at => d.meant[SettingsOf[c][key]] = Parsed(key, Event.value)
          BY <1>1, <2>1 DEF MeansSettings
        <5>. QED  BY <3>1, <4>1, <4>2, <4>4, <5>3, <5>4
      <4>. QED  BY <4>3, <4>4
    <3>5. ~(q + 1 <= a) /\ ~(z <= q + 1) /\ q + 1 \in p .. (z - 1)
      BY <1>1, <1>3, <2>4
    <3>. QED  BY <1>1, <1>3, <2>1, <3>1, <3>3, <3>4, <3>5 DEF SettingsAt
  <2>5. CASE q + 1 = z
    <3>1. MappingEnd
      BY <1>2, <1>8, <2>1, <2>5 DEF Pairs
    <3>2. c \notin in_'
      BY <1>6, <3>1 DEF MappingEnd, FlagsLeft
    <3>3. \A key \in DOMAIN SettingsOf[c] : config'[SettingsOf[c][key]] = d.meant[SettingsOf[c][key]]
      <4>. SUFFICES ASSUME NEW key \in DOMAIN SettingsOf[c]
                    PROVE  config[SettingsOf[c][key]] = d.meant[SettingsOf[c][key]]
        BY <1>4, <3>1, NoValue
      <4>1. q \in p .. (z - 1)
        BY <1>1, <1>3, <2>5
      <4>2. config[SettingsOf[c][key]] =
                IF \E r \in Values(d, p, z, key) : r <= q
                THEN d.meant[SettingsOf[c][key]] ELSE Defaults[SettingsOf[c][key]]
        BY <4>1 DEF SettingsAt
      <4>3. \A r \in Values(d, p, z, key) : r <= q
        BY <1>1, <1>3, <2>5 DEF Values
      <4>4. Values(d, p, z, key) = {} => d.meant[SettingsOf[c][key]] = Defaults[SettingsOf[c][key]]
        BY <1>1 DEF MeansSettings
      <4>. QED  BY <4>2, <4>3, <4>4
    <3>4. ~(q + 1 <= a) /\ q + 1 \notin p .. (z - 1)
      BY <1>1, <1>3, <2>5
    <3>. QED  BY <1>1, <2>1, <3>2, <3>3, <3>4 DEF SettingsAt
  <2>6. CASE z <= q
    <3>1. /\ c \notin in_
          /\ \A key \in DOMAIN SettingsOf[c] : config[SettingsOf[c][key]] = d.meant[SettingsOf[c][key]]
      BY <2>6 DEF SettingsAt
    <3>2. c \notin in_'
      <4>1. Event.type = "scalar" => Event.value # c
        <5>1. q + 1 # a /\ q + 1 \in 1 .. Len(d.events)
          <6>1. q + 1 # a
            BY <1>1, <1>3, <2>6
          <6>. QED  BY <1>8, <6>1
        <5>. QED  BY <1>1, <1>6, <2>1, <5>1, SectionTexts DEF IsScalar
      <4>. QED  BY <1>6, <1>8, <3>1, <4>1
           DEF MappingStart, MappingEnd, FlagsLeft, SequenceStart, SequenceEnd, ScalarKey, ScalarValue, loader
    <3>3. ~(q + 1 <= a) /\ q + 1 \notin p .. (z - 1)
      BY <1>1, <1>3, <2>6
    <3>. QED  BY <1>1, <1>5, <2>1, <3>1, <3>2, <3>3 DEF SettingsAt
  <2>. QED  BY <1>1, <1>3, <2>2, <2>3, <2>4, <2>5, <2>6
<1>. QED  BY <1>7, <1>8, ByType

LEMMA SettingsNext ==
    ASSUME LoaderTyped, TypeOK, FlagsInv, ApproachInv, SettingsInv, Next
    PROVE  SettingsInv'
<1>. SUFFICES ASSUME phase' # "failed", NEW c \in DOMAIN SettingsOf, NEW z,
                     c \in document.plain, Ahead(c), MeansSettings(document, c, z)
              PROVE  SettingsAt(c, z)'
  <2>1. document' = document
    BY DocumentKept
  <2>. QED  BY <2>1 DEF SettingsInv, Ahead, Present, Position
<1>1. phase # "failed"
  BY PhaseStep
<1>2. SettingsAt(c, z)
  BY <1>1 DEF SettingsInv
<1>. QED  BY <1>2, SettingsStep

(* What the events do to the inputs.                                       *)
LEMMA InputKept ==
    ASSUME MappingEnd \/ SequenceStart \/ SequenceEnd \/ ScalarKey \/ Loaded \/ Apply
    PROVE  config'.inputs = config.inputs
  BY DEF MappingEnd, SequenceStart, SequenceEnd, ScalarKey, Loaded, Apply

LEMMA InputStarts ==
    ASSUME LoaderTyped, MappingStart
    PROVE  IF "inputs" \in in_ /\ in_ \cap {"logs", "network"} = {}
           THEN /\ Len(config'.inputs) = Len(config.inputs) + 1
                /\ current_input' = Len(config.inputs) + 1
                /\ config'.inputs[Len(config.inputs) + 1] = Empty(InputKeys)
                /\ \A j \in 1 .. Len(config.inputs) : config'.inputs[j] = config.inputs[j]
           ELSE config'.inputs = config.inputs /\ current_input' = current_input
<1>. DEFINE as_input == "inputs" \in in_ /\ in_ \cap {"logs", "network"} = {}
<1>1. /\ config'.inputs = IF as_input THEN Append(config.inputs, Empty(InputKeys)) ELSE config.inputs
      /\ current_input' = IF as_input THEN Len(config'.inputs) ELSE current_input
  BY DEF MappingStart, Newest, LoaderTyped
<1>2. Empty(InputKeys) \in [InputKeys -> Texts(document)]
  BY DEF Empty, Texts
<1>3. config.inputs \in Seq([InputKeys -> Texts(document)])
  BY DEF LoaderTyped
<1>4. /\ Len(Append(config.inputs, Empty(InputKeys))) = Len(config.inputs) + 1
      /\ Append(config.inputs, Empty(InputKeys))[Len(config.inputs) + 1] = Empty(InputKeys)
      /\ \A j \in 1 .. Len(config.inputs) :
            Append(config.inputs, Empty(InputKeys))[j] = config.inputs[j]
  BY <1>2, <1>3, AppendProperties
<1>. QED  BY <1>1, <1>4

LEMMA InputValue ==
    ASSUME LoaderTyped, TypeOK, DOMAIN config = DOMAIN Defaults, ScalarValue, Event.value \in Texts(document)
    PROVE  IF current_input # 0 /\ current_key \in InputKeys
           THEN /\ Len(config'.inputs) = Len(config.inputs)
                /\ \A j \in 1 .. Len(config.inputs) :
                      j # current_input => config'.inputs[j] = config.inputs[j]
                /\ \A k \in InputKeys : config'.inputs[current_input][k] =
                      IF k = current_key THEN Event.value ELSE config.inputs[current_input][k]
           ELSE config'.inputs = config.inputs
<1>1. CASE current_input # 0 /\ current_key \in InputKeys
  <2>. PICK ins, i, key, v :
          ins = config.inputs /\ i = current_input /\ key = current_key /\ v = Event.value
    OBVIOUS
  <2>. PICK new : new = [ins EXCEPT ![i][key] = v]
    OBVIOUS
  <2>1. config'.inputs = new
    <3>1. config' = [config EXCEPT !.inputs[current_input][current_key] = Event.value]
      BY <1>1 DEF ScalarValue, InputKeys
    <3>. QED  BY <3>1 DEF LoaderTyped
  <2>2. ins \in Seq([InputKeys -> Texts(document)]) /\ Len(ins) \in Nat
    BY LenProperties DEF LoaderTyped
  <2>3. i \in 1 .. Len(ins)
    BY <1>1, <2>2 DEF TypeOK
  <2>. PICK T : T = Texts(document)
    OBVIOUS
  <2>4. /\ Len(new) = Len(ins) /\ \A j \in 1 .. Len(ins) : j # i => new[j] = ins[j]
        /\ \A k \in InputKeys : new[i][k] = IF k = key THEN v ELSE ins[i][k]
    <3>1. ins \in Seq([InputKeys -> T]) /\ key \in InputKeys /\ v \in T
      BY <1>1, <2>2
    <3>. QED  BY <2>3, <3>1, OneSet
  <2>. QED  BY <1>1, <2>1, <2>4
<1>2. CASE ~(current_input # 0 /\ current_key \in InputKeys)
  <2>1. \/ config' = config
        \/ config' = [config EXCEPT !.version = Event.value]
        \/ config' = Setting(current_key, Event.value)
        \/ config' = [config EXCEPT !.outputs[current_output][current_key] = Event.value]
    BY <1>2 DEF ScalarValue
  <2>2. Setting(current_key, Event.value).inputs = config.inputs
    <3>1. \A c \in DOMAIN SettingsOf : \A k \in DOMAIN SettingsOf[c] : SettingsOf[c][k] # "inputs"
      BY SettingNames
    <3>. QED  BY <3>1, SettingNames DEF Setting, LoaderTyped
  <2>3. "inputs" \in DOMAIN config
    BY DEF LoaderTyped
  <2>. QED  BY <1>2, <2>1, <2>2, <2>3
<1>. QED  BY <1>1, <1>2

(* A plain section of inputs that no outputs follow: before it there are   *)
(* no inputs; the mapping that holds the list makes the input that the     *)
(* first item fills; in the k-th item the inputs before it are as they are *)
(* meant, and the k-th as far as it has been read; and behind the section  *)
(* come only inputs that are not created.                                  *)
InputsPlain ==
    /\ "inputs" \in document.plain
    /\ Present("outputs") => Position("outputs") < Position("inputs")

Read(n) == \A j \in 1 .. n : config.inputs[j] = document.meant.inputs[j]

BeforeInputs == delivered <= Position("inputs") /\ Len(config.inputs) = 0 /\ current_input = 0

ListBegins ==
    LET a == Position("inputs")
    IN  /\ delivered \in (a + 1) .. (a + 3) /\ "inputs" \in in_
        /\ Len(config.inputs) = 1 /\ config.inputs[1] = Empty(InputKeys) /\ current_input = 1
        /\ delivered = a + 1 => expecting_key
        /\ delivered = a + 2 => current_key \in {"logs", "network"}
        /\ delivered = a + 3 => in_ \cap {"logs", "network"} # {}

ItemIsRead(k) ==
    LET p == document.starts[k]
        e == document.starts[k + 1] - 1
    IN  /\ delivered \in p .. e /\ "inputs" \in in_
        /\ Len(config.inputs) = k /\ Read(k - 1)
        /\ delivered = e => /\ config.inputs[k] = document.meant.inputs[k] /\ current_input = 0
                            /\ in_ \cap {"logs", "network"} = {}
        /\ delivered # e =>
              /\ current_input = k
              /\ expecting_key <=> AtKey(p, delivered)
              /\ ~expecting_key => current_key = document.events[delivered].value
              /\ \A key \in InputKeys :
                    config.inputs[k][key] =
                        IF \E r \in Values(document, p, e, key) : r <= delivered
                        THEN document.meant.inputs[k][key] ELSE None

AfterInputs ==
    LET N == Len(document.meant.inputs)
    IN  /\ document.starts[N + 1] <= delivered
        /\ N <= Len(config.inputs) /\ Read(N)
        /\ \A j \in (N + 1) .. Len(config.inputs) : config.inputs[j]["type"] \notin {"file", "pcap"}
        /\ current_input = 0 \/ current_input > N

InputsRead ==
    \/ BeforeInputs \/ ListBegins \/ AfterInputs
    \/ \E k \in 1 .. Len(document.meant.inputs) : ItemIsRead(k)

InputsInv == phase # "failed" /\ InputsPlain => InputsRead

LEMMA InputsMeant ==
    ASSUME document \in Documents, InputsPlain,
           NEW d, d = document, NEW a, a = Position("inputs"), NEW N, N = Len(document.meant.inputs)
    PROVE  /\ "inputs" \in DOMAIN d.places /\ a = d.places["inputs"]
           /\ a \in Nat /\ N \in Nat /\ Len(d.events) \in Nat
           /\ ListStands(d, a, N) /\ NoneBehind(d, d.starts[N + 1])
           /\ \A k \in 1 .. N : MeansInput(d, d.starts[k], d.starts[k + 1] - 1, d.meant.inputs[k])
           /\ \A k \in 1 .. N + 1 : /\ d.starts[k] \in Nat /\ a + 4 <= d.starts[k]
                                    /\ d.starts[k] <= Len(d.events)
<1>1. MeansInputs(d) /\ "inputs" \in DOMAIN d.places
  BY MeaningAssumption, SectionsAssumption DEF InputsPlain
<1>2. a = d.places["inputs"] /\ a \in Nat /\ Len(d.events) \in Nat
  BY <1>1, SectionsAssumption, ConfigAssumption DEF Position
<1>3. /\ ListStands(d, a, N) /\ NoneBehind(d, d.starts[N + 1])
      /\ \A k \in 1 .. N : MeansInput(d, d.starts[k], d.starts[k + 1] - 1, d.meant.inputs[k])
  BY <1>1, <1>2 DEF MeansInputs, InputsPlain, Present, Position
<1>4. N \in Nat /\ \A k \in 1 .. N + 1 : d.starts[k] \in (a + 4) .. Len(d.events)
  BY <1>3 DEF ListStands
<1>. QED  BY <1>1, <1>2, <1>3, <1>4

LEMMA BeforeInputsStep ==
    ASSUME LoaderTyped, TypeOK, FlagsInv, ApproachInv, InputsPlain, EventTaken, document' = document,
           BeforeInputs
    PROVE  (BeforeInputs \/ ListBegins)'
<1>. PICK d, q, a, N : d = document /\ q = delivered /\ a = Position("inputs")
                       /\ N = Len(document.meant.inputs)
  OBVIOUS
<1>0. a \in Nat /\ ListStands(d, a, N) /\ "inputs" \in DOMAIN document.places
  BY InputsMeant DEF LoaderTyped
<1>1. /\ q \in Nat /\ q <= a /\ a \in Nat /\ "inputs" \in DOMAIN document.places
      /\ Position("inputs")' = a /\ delivered' = q + 1 /\ Event = d.events[q + 1]
      /\ Len(config.inputs) = 0 /\ current_input = 0
  <2>1. q \in Nat
    BY DEF LoaderTyped
  <2>2. delivered' = q + 1 /\ Event = d.events[q + 1]
    BY DEF EventTaken
  <2>3. Position("inputs")' = a
    BY DEF Position
  <2>. QED  BY <1>0, <2>1, <2>2, <2>3 DEF BeforeInputs
<1>2. CASE q < a
  <2>1. "inputs" \notin in_
    BY <1>1, <1>2 DEF FlagsInv, SectionNames
  <2>2. Len(config'.inputs) = 0 /\ current_input' = 0
    <3>1. CASE MappingStart
      BY <1>1, <2>1, <3>1, InputStarts
    <3>2. CASE ScalarValue
      <4>1. config'.inputs = config.inputs
        <5>1. Event.value \in Texts(document)
          BY <1>1 DEF Texts, EventTaken
        <5>. QED  BY <1>1, <3>2, <5>1, InputValue DEF FlagsInv
      <4>. QED  BY <1>1, <3>2, <4>1 DEF ScalarValue
    <3>3. CASE MappingEnd \/ SequenceStart \/ SequenceEnd \/ ScalarKey
      <4>1. current_input' = 0
        BY <1>1, <3>3 DEF MappingEnd, SequenceStart, SequenceEnd, ScalarKey, loader, InputAfter
      <4>. QED  BY <1>1, <3>3, <4>1, InputKept
    <3>. QED  BY <3>1, <3>2, <3>3 DEF EventTaken
  <2>. QED  BY <1>1, <1>2, <2>2 DEF BeforeInputs
<1>3. CASE q = a
  <2>1. MappingStart
    <3>1. Event.type = "mapping start"
      BY <1>0, <1>1, <1>3 DEF ListStands
    <3>. QED  BY <3>1 DEF EventTaken
  <2>2. "inputs" \in in_ /\ in_ \cap {"logs", "network"} = {}
    BY <1>1, <1>3, AtSection DEF Passing
  <2>3. /\ Len(config'.inputs) = 1 /\ current_input' = 1
        /\ config'.inputs[1] = Empty(InputKeys)
    <3>1. Len(config.inputs) + 1 = 1
      BY <1>1
    <3>. QED  BY <2>1, <2>2, <3>1, InputStarts
  <2>4. in_' = in_ /\ expecting_key' = TRUE
    BY <2>1 DEF MappingStart
  <2>5. q + 1 \in (a + 1) .. (a + 3) /\ q + 1 # a + 2 /\ q + 1 # a + 3
    BY <1>1, <1>3
  <2>. QED  BY <1>1, <2>2, <2>3, <2>4, <2>5 DEF ListBegins
<1>. QED  BY <1>1, <1>2, <1>3

LEMMA ListBeginsStep ==
    ASSUME LoaderTyped, TypeOK, FlagsInv, InputsPlain, EventTaken, document' = document,
           ListBegins
    PROVE  InputsRead'
<1>. PICK d, q, a, N : d = document /\ q = delivered /\ a = Position("inputs")
                       /\ N = Len(document.meant.inputs)
  OBVIOUS
<1>0. /\ a \in Nat /\ N \in Nat /\ ListStands(d, a, N)
      /\ \A k \in 1 .. N : MeansInput(d, d.starts[k], d.starts[k + 1] - 1, d.meant.inputs[k])
      /\ \A k \in 1 .. N + 1 : d.starts[k] \in Nat
  BY InputsMeant DEF LoaderTyped
<1>1. /\ q \in Nat /\ a \in Nat /\ N \in Nat
      /\ Position("inputs")' = a /\ delivered' = q + 1 /\ Event = d.events[q + 1]
  <2>1. q \in Nat
    BY DEF LoaderTyped
  <2>2. delivered' = q + 1 /\ Event = d.events[q + 1]
    BY DEF EventTaken
  <2>3. Position("inputs")' = a
    BY DEF Position
  <2>. QED  BY <1>0, <2>1, <2>2, <2>3
<1>2. /\ q \in (a + 1) .. (a + 3) /\ "inputs" \in in_
      /\ Len(config.inputs) = 1 /\ config.inputs[1] = Empty(InputKeys) /\ current_input = 1
      /\ q = a + 1 => expecting_key
      /\ q = a + 2 => current_key \in {"logs", "network"}
      /\ q = a + 3 => in_ \cap {"logs", "network"} # {}
  BY DEF ListBegins
<1>3. CASE q = a + 1
  <2>1. ScalarKey /\ Event.value \in {"logs", "network"}
    <3>1. q + 1 = a + 2
      BY <1>1, <1>3
    <3>2. Event.type = "scalar" /\ Event.value \in {"logs", "network"}
      BY <1>0, <1>1, <3>1 DEF ListStands, IsScalar
    <3>. QED  BY <1>2, <1>3, <3>2 DEF EventTaken
  <2>2. /\ config' = config /\ current_input' = current_input /\ current_key' = Event.value
        /\ in_ \subseteq in_'
    BY <2>1 DEF ScalarKey
  <2>3. q + 1 \in (a + 1) .. (a + 3) /\ q + 1 # a + 1 /\ q + 1 # a + 3
    BY <1>1, <1>3
  <2>4. ListBegins'
    BY <1>1, <1>2, <2>1, <2>2, <2>3 DEF ListBegins
  <2>. QED  BY <2>4 DEF InputsRead
<1>4. CASE q = a + 2
  <2>1. SequenceStart
    <3>1. q + 1 = a + 3
      BY <1>1, <1>4
    <3>2. Event.type = "sequence start"
      BY <1>0, <1>1, <3>1 DEF ListStands
    <3>. QED  BY <3>2 DEF EventTaken
  <2>2. /\ config' = config /\ current_input' = current_input
        /\ in_' = in_ \cup ({current_key} \cap {"logs", "network"})
    BY <2>1 DEF SequenceStart
  <2>3. q + 1 \in (a + 1) .. (a + 3) /\ q + 1 # a + 1 /\ q + 1 # a + 2
    BY <1>1, <1>4
  <2>4. ListBegins'
    BY <1>1, <1>2, <1>4, <2>2, <2>3 DEF ListBegins
  <2>. QED  BY <2>4 DEF InputsRead
<1>5. CASE q = a + 3
  <2>1. q + 1 = a + 4 /\ d.starts[1] = a + 4
    <3>1. d.starts[1] = a + 4
      BY <1>0 DEF ListStands
    <3>. QED  BY <1>1, <1>5, <3>1
  <2>2. CASE N = 0
    <3>1. SequenceEnd
      <4>1. d.events[d.starts[N + 1]].type = "sequence end" /\ N + 1 = 1
        <5>1. d.events[d.starts[N + 1]].type = "sequence end"
          BY <1>0 DEF ListStands
        <5>2. N + 1 = 1
          BY <2>2
        <5>. QED  BY <5>1, <5>2
      <4>. QED  BY <1>1, <2>1, <4>1 DEF EventTaken
    <3>2. config' = config /\ current_input' = current_input
      BY <3>1 DEF SequenceEnd, loader
    <3>3. AfterInputs'
      <4>1. /\ d.starts[N + 1] <= q + 1 /\ N <= 1 /\ 1 .. N = {} /\ 1 > N
            /\ \A j \in (N + 1) .. 1 : j = 1
        BY <1>1, <2>1, <2>2
      <4>2. config.inputs[1]["type"] \notin {"file", "pcap"}
        BY <1>2 DEF Empty, InputKeys, None
      <4>. QED  BY <1>1, <1>2, <3>2, <4>1, <4>2 DEF AfterInputs, Read
    <3>. QED  BY <3>3 DEF InputsRead
  <2>3. CASE N # 0
    <3>. PICK p, e : p = d.starts[1] /\ e = d.starts[2] - 1
      OBVIOUS
    <3>1. Pairs(d, p, e) /\ 1 \in 1 .. N /\ p = q + 1 /\ 1 - 1 = 0
      <4>1. 1 \in 1 .. N /\ 1 + 1 = 2
        BY <1>1, <2>3
      <4>2. MeansInput(d, d.starts[1], d.starts[1 + 1] - 1, d.meant.inputs[1])
        BY <1>0, <4>1
      <4>. QED  BY <2>1, <4>1, <4>2 DEF MeansInput
    <3>2. e \in Int /\ p \in Nat /\ p < e
      <4>1. p < e
        BY <3>1 DEF Pairs
      <4>2. d.starts[2] \in Nat
        BY <1>0, <2>3
      <4>. QED  BY <1>1, <3>1, <4>1, <4>2
    <3>3. MappingStart
      BY <1>1, <3>1 DEF Pairs, EventTaken
    <3>4. config'.inputs = config.inputs /\ current_input' = current_input
      BY <1>2, <1>5, <3>3, InputStarts
    <3>5. in_' = in_ /\ expecting_key' = TRUE
      BY <3>3 DEF MappingStart
    <3>6. \A key \in InputKeys : config'.inputs[1][key] = None
      BY <1>2, <3>4 DEF Empty
    <3>7. \A key : ~\E r \in Values(d, p, e, key) : r <= q + 1
      BY <1>1, <3>1, <3>2 DEF Values
    <3>8. AtKey(p, q + 1) /\ q + 1 \in p .. e /\ q + 1 # e
      <4>1. p \in Int /\ q \in Int
        BY <1>1, <3>2
      <4>2. AtKey(p, p)
        BY <4>1, Parity
      <4>. QED  BY <1>1, <3>1, <3>2, <4>2
    <3>9. ItemIsRead(1)'
      <4>1. document'.starts[1] = p /\ document'.starts[1 + 1] - 1 = e
        OBVIOUS
      <4>2. Read(1 - 1)'
        BY <3>1 DEF Read
      <4>. QED  BY <1>1, <1>2, <3>1, <3>4, <3>5, <3>6, <3>7, <3>8, <4>1, <4>2 DEF ItemIsRead
    <3>. QED  BY <3>1, <3>9 DEF InputsRead
  <2>. QED  BY <2>2, <2>3
<1>. QED  BY <1>1, <1>2, <1>3, <1>4, <1>5

(* Within an item.                                                         *)
LEMMA ItemGoesOn ==
    ASSUME LoaderTyped, TypeOK, FlagsInv, EventTaken, document' = document,
           NEW k \in Nat, k # 0, ItemIsRead(k), NEW p \in Nat, NEW e \in Nat,
           p = document.starts[k], e = document.starts[k + 1] - 1, delivered < e,
           MeansInput(document, p, e, document.meant.inputs[k])
    PROVE  ItemIsRead(k)'
<1>. PICK d, q, meant : d = document /\ q = delivered /\ meant = document.meant.inputs[k]
  OBVIOUS
<1>1. /\ q \in p .. e /\ "inputs" \in in_ /\ Len(config.inputs) = k /\ Read(k - 1)
      /\ current_input = k
      /\ expecting_key <=> AtKey(p, q)
      /\ ~expecting_key => current_key = d.events[q].value
      /\ \A key \in InputKeys :
            config.inputs[k][key] =
                IF \E r \in Values(d, p, e, key) : r <= q THEN meant[key] ELSE None
  <2>1. delivered # e
    OBVIOUS
  <2>. QED  BY <2>1 DEF ItemIsRead
<1>2. q \in Nat /\ delivered' = q + 1 /\ Event = d.events[q + 1] /\ q + 1 \in p .. e
  <2>1. q \in Nat
    BY DEF LoaderTyped
  <2>2. delivered' = q + 1 /\ Event = d.events[q + 1]
    BY DEF EventTaken
  <2>. QED  BY <1>1, <2>1, <2>2
<1>3. /\ Pairs(d, p, e) /\ meant = [key \in InputKeys |-> meant[key]]
      /\ \A key \in InputKeys :
            /\ \A r \in Values(d, p, e, key) : meant[key] = d.events[r].value
            /\ Values(d, p, e, key) = {} => meant[key] = None
  BY DEF MeansInput
<1>4. /\ AtKey(p, p) /\ ~AtKey(p, e)
      /\ AtKey(p, q + 1) <=> ~AtKey(p, q)
  <2>1. (e - p) % 2 = 1
    BY <1>3 DEF Pairs
  <2>2. p \in Int /\ e \in Int /\ q \in Int
    BY <1>2
  <2>. QED  BY <2>1, <2>2, Parity
<1>5. document'.starts[k] = p /\ document'.starts[k + 1] - 1 = e
      /\ document'.meant.inputs[k] = meant
  OBVIOUS
<1>6. config.inputs \in Seq([InputKeys -> Texts(d)])
  BY DEF LoaderTyped
<1>7. k \in 1 .. Len(config.inputs) /\ \A j \in 1 .. k - 1 : j \in 1 .. Len(config.inputs) /\ j # k
  BY <1>1
<1>8. CASE q + 1 = e
  <2>1. MappingEnd
    BY <1>2, <1>3, <1>8 DEF Pairs, EventTaken
  <2>2. /\ config' = config /\ current_input' = 0 /\ "inputs" \in in_'
        /\ in_' \cap {"logs", "network"} = {}
    BY <1>1, <2>1 DEF MappingEnd, FlagsLeft, InputAfter
  <2>3. config.inputs[k] = meant
    <3>1. config.inputs[k] \in [InputKeys -> Texts(d)]
      BY <1>6, <1>7, ElementOfSeq
    <3>2. \A key \in InputKeys : config.inputs[k][key] = meant[key]
      <4>. TAKE key \in InputKeys
      <4>1. \A r \in Values(d, p, e, key) : r <= q
        BY <1>2, <1>8 DEF Values
      <4>. QED  BY <1>1, <1>3, <4>1
    <3>. QED  BY <1>3, <3>1, <3>2
  <2>4. Read(k - 1)'
    BY <1>1, <2>2 DEF Read
  <2>. QED  BY <1>1, <1>2, <1>5, <1>8, <2>2, <2>3, <2>4 DEF ItemIsRead
<1>9. CASE q + 1 # e
  <2>1. Event.type = "scalar"
    <3>1. q + 1 \in (p + 1) .. (e - 1)
      BY <1>1, <1>2, <1>9
    <3>. QED  BY <1>2, <1>3, <3>1 DEF Pairs, IsScalar
  <2>2. /\ "inputs" \in in_' /\ (expecting_key' <=> ~expecting_key)
        /\ ~expecting_key' => current_key' = Event.value
        /\ current_input' = k
    BY <1>1, <2>1 DEF EventTaken, ScalarKey, ScalarValue
  <2>3. ASSUME NEW key \in InputKeys
        PROVE  /\ q + 1 \in Values(d, p, e, key) <=> ~AtKey(p, q) /\ d.events[q].value = key
               /\ \A r \in Values(d, p, e, key) : r <= q + 1 <=> r <= q \/ r = q + 1
    <3>1. (q + 1) - 1 = q /\ (q + 1 \in (p + 2) .. (e - 1) <=> q # p)
      BY <1>1, <1>2, <1>9
    <3>2. q + 1 \in Values(d, p, e, key)
          <=> q + 1 \in (p + 2) .. (e - 1) /\ AtKey(p, q + 1) /\ d.events[q].value = key
      BY <3>1 DEF Values, AtKey
    <3>3. q = p => AtKey(p, q)
      BY <1>4
    <3>4. \A r \in Values(d, p, e, key) : r <= q + 1 <=> r <= q \/ r = q + 1
      BY <1>2 DEF Values
    <3>. QED  BY <1>4, <3>1, <3>2, <3>3, <3>4
  <2>4. CASE expecting_key
    <3>1. config'.inputs = config.inputs
      BY <2>1, <2>4, InputKept DEF EventTaken
    <3>2. \A key \in InputKeys :
              config'.inputs[k][key] =
                  IF \E r \in Values(d, p, e, key) : r <= q + 1 THEN meant[key] ELSE None
      <4>. TAKE key \in InputKeys
      <4>1. \A r \in Values(d, p, e, key) : r <= q + 1 <=> r <= q
        BY <1>1, <2>3, <2>4
      <4>. QED  BY <1>1, <3>1, <4>1
    <3>3. Read(k - 1)'
      BY <1>1, <3>1 DEF Read
    <3>. QED  BY <1>1, <1>2, <1>4, <1>5, <1>9, <2>2, <2>4, <3>1, <3>2, <3>3 DEF ItemIsRead
  <2>5. CASE ~expecting_key
    <3>1. ScalarValue /\ current_key = d.events[q].value
      BY <1>1, <2>1, <2>5 DEF EventTaken
    <3>2. Event.value \in Texts(document)
      BY DEF Texts, EventTaken
    <3>3. IF current_key \in InputKeys
          THEN /\ Len(config'.inputs) = Len(config.inputs)
               /\ \A j \in 1 .. Len(config.inputs) : j # k => config'.inputs[j] = config.inputs[j]
               /\ \A key \in InputKeys : config'.inputs[k][key] =
                     IF key = current_key THEN Event.value ELSE config.inputs[k][key]
          ELSE config'.inputs = config.inputs
      <4>1. DOMAIN config = DOMAIN Defaults
        BY DEF FlagsInv
      <4>. QED  BY <1>1, <3>1, <3>2, <4>1, InputValue
    <3>4. \A key \in InputKeys :
              config'.inputs[k][key] =
                  IF \E r \in Values(d, p, e, key) : r <= q + 1 THEN meant[key] ELSE None
      <4>. TAKE key \in InputKeys
      <4>1. CASE key = current_key
        <5>1. q + 1 \in Values(d, p, e, key)
          BY <1>1, <2>3, <2>5, <3>1, <4>1
        <5>2. meant[key] = Event.value
          BY <1>2, <1>3, <5>1
        <5>3. q + 1 <= q + 1
          BY <1>2
        <5>. QED  BY <3>3, <4>1, <5>1, <5>2, <5>3
      <4>2. CASE key # current_key
        <5>1. \A r \in Values(d, p, e, key) : r <= q + 1 <=> r <= q
          BY <2>3, <3>1, <4>2
        <5>2. config'.inputs[k][key] = config.inputs[k][key]
          BY <3>3, <4>2
        <5>. QED  BY <1>1, <5>1, <5>2
      <4>. QED  BY <4>1, <4>2
    <3>5. Read(k - 1)' /\ Len(config'.inputs) = k
      <4>1. \A j \in 1 .. k - 1 : config'.inputs[j] = config.inputs[j]
        BY <1>7, <3>3
      <4>. QED  BY <1>1, <3>3, <4>1 DEF Read
    <3>. QED  BY <1>1, <1>2, <1>4, <1>5, <1>9, <2>2, <2>5, <3>4, <3>5 DEF ItemIsRead
  <2>. QED  BY <2>4, <2>5
<1>. QED  BY <1>8, <1>9

(* The end of an item, behind which the next one starts or the list ends.  *)
LEMMA ItemEnds ==
    ASSUME LoaderTyped, TypeOK, FlagsInv, InputsPlain, EventTaken, document' = document,
           NEW N, N = Len(document.meant.inputs), NEW k \in 1 .. N, ItemIsRead(k),
           delivered = document.starts[k + 1] - 1
    PROVE  InputsRead'
<1>. PICK d, q, a : d = document /\ q = delivered /\ a = Position("inputs")
  OBVIOUS
<1>0. /\ N \in Nat /\ ListStands(d, a, N)
      /\ \A j \in 1 .. N : MeansInput(d, d.starts[j], d.starts[j + 1] - 1, d.meant.inputs[j])
      /\ \A j \in 1 .. N + 1 : d.starts[j] \in Nat
  BY InputsMeant DEF LoaderTyped
<1>1. /\ "inputs" \in in_ /\ Len(config.inputs) = k /\ Read(k - 1)
      /\ config.inputs[k] = d.meant.inputs[k] /\ current_input = 0
      /\ in_ \cap {"logs", "network"} = {}
  BY DEF ItemIsRead
<1>2. Read(k)
  <2>1. \A j \in 1 .. k : j \in 1 .. k - 1 \/ j = k
    BY <1>0
  <2>. QED  BY <1>1, <2>1 DEF Read
<1>3. q \in Nat /\ delivered' = q + 1 /\ Event = d.events[q + 1] /\ q + 1 = d.starts[k + 1]
  <2>1. q \in Nat
    BY DEF LoaderTyped
  <2>2. delivered' = q + 1 /\ Event = d.events[q + 1]
    BY DEF EventTaken
  <2>3. k + 1 \in 1 .. N + 1
    BY <1>0
  <2>4. d.starts[k + 1] \in Nat
    BY <1>0, <2>3
  <2>. QED  BY <2>1, <2>2, <2>4
<1>4. CASE k = N
  <2>1. SequenceEnd
    <3>1. d.events[d.starts[N + 1]].type = "sequence end"
      BY <1>0 DEF ListStands
    <3>. QED  BY <1>3, <1>4, <3>1 DEF EventTaken
  <2>2. config' = config /\ current_input' = current_input
    BY <2>1 DEF SequenceEnd, loader
  <2>3. Read(N)'
    BY <1>2, <1>4, <2>2 DEF Read
  <2>4. d.starts[N + 1] <= q + 1 /\ N <= Len(config.inputs) /\ (N + 1) .. Len(config.inputs) = {}
    BY <1>0, <1>1, <1>3, <1>4
  <2>5. AfterInputs'
    BY <1>1, <1>3, <2>2, <2>3, <2>4 DEF AfterInputs
  <2>. QED  BY <2>5 DEF InputsRead
<1>5. CASE k # N
  <2>. PICK n : n = k + 1
    OBVIOUS
  <2>. PICK p, e : p = d.starts[n] /\ e = d.starts[n + 1] - 1
    OBVIOUS
  <2>1. /\ n \in 1 .. N /\ n \in Nat /\ n - 1 = k /\ n + 1 \in 1 .. N + 1
        /\ n \in 1 .. N + 1 /\ k \in 1 .. Len(config.inputs)
    <3>1. k \in Nat /\ 1 <= k /\ k <= N
      BY <1>0
    <3>. QED  BY <1>0, <1>1, <1>5, <3>1
  <2>2. MeansInput(d, p, e, d.meant.inputs[n])
    BY <1>0, <2>1
  <2>3. p \in Int /\ e \in Int /\ p < e
    <3>1. d.starts[n] \in Nat /\ d.starts[n + 1] \in Nat
      BY <1>0, <2>1
    <3>2. p \in Int /\ e \in Int
      BY <3>1
    <3>3. p < e
      BY <2>2 DEF MeansInput, Pairs
    <3>. QED  BY <3>2, <3>3
  <2>4. MappingStart
    <3>1. d.events[p].type = "mapping start"
      BY <2>2 DEF MeansInput, Pairs
    <3>. QED  BY <1>3, <3>1 DEF EventTaken
  <2>5. /\ Len(config'.inputs) = n /\ current_input' = n /\ config'.inputs[n] = Empty(InputKeys)
        /\ \A j \in 1 .. k : config'.inputs[j] = config.inputs[j]
    <3>1. Len(config.inputs) + 1 = n
      BY <1>1
    <3>. QED  BY <1>1, <2>4, <3>1, InputStarts
  <2>6. in_' = in_ /\ expecting_key' = TRUE
    BY <2>4 DEF MappingStart
  <2>7. Read(n - 1)'
    BY <1>2, <2>1, <2>5 DEF Read
  <2>8. /\ AtKey(p, p) /\ delivered' = p /\ p \in p .. e /\ p # e
        /\ \A key : ~\E r \in Values(d, p, e, key) : r <= p
    <3>1. AtKey(p, p)
      BY <2>3, Parity
    <3>2. \A key : ~\E r \in Values(d, p, e, key) : r <= p
      BY <2>3 DEF Values
    <3>. QED  BY <1>3, <2>3, <3>1, <3>2
  <2>9. \A key \in InputKeys : config'.inputs[n][key] = None
    BY <2>5 DEF Empty
  <2>10. ItemIsRead(n)'
    <3>1. document'.starts[n] = p /\ document'.starts[n + 1] - 1 = e
      OBVIOUS
    <3>. QED  BY <1>1, <2>5, <2>6, <2>7, <2>8, <2>9, <3>1 DEF ItemIsRead
  <2>. QED  BY <2>1, <2>10 DEF InputsRead
<1>. QED  BY <1>4, <1>5

(* Behind the section.                                                     *)
LEMMA AfterInputsStep ==
    ASSUME LoaderTyped, TypeOK, FlagsInv, InputsPlain, EventTaken, document' = document, AfterInputs
    PROVE  AfterInputs'
<1>. PICK d, q, N, n :
        /\ d = document /\ q = delivered
        /\ N = Len(document.meant.inputs) /\ n = Len(config.inputs)
  OBVIOUS
<1>0. N \in Nat /\ NoneBehind(d, d.starts[N + 1]) /\ d.starts[N + 1] \in Nat
  <2>. PICK a : a = Position("inputs")
    OBVIOUS
  <2>1. /\ N \in Nat /\ NoneBehind(d, d.starts[N + 1])
        /\ \A j \in 1 .. N + 1 : d.starts[j] \in Nat
    BY InputsMeant DEF LoaderTyped
  <2>2. N + 1 \in 1 .. N + 1
    BY <2>1
  <2>. QED  BY <2>1, <2>2
<1>. PICK z : z = d.starts[N + 1]
  OBVIOUS
<1>1. /\ z <= q /\ N <= n /\ Read(N) /\ (current_input = 0 \/ current_input > N)
      /\ \A j \in (N + 1) .. n : config.inputs[j]["type"] \notin {"file", "pcap"}
  BY DEF AfterInputs
<1>2. q \in Nat /\ delivered' = q + 1 /\ Event = d.events[q + 1] /\ q + 1 \in 1 .. Len(d.events)
      /\ n \in Nat /\ current_input \in 0 .. n
  <2>1. q \in Nat
    BY DEF LoaderTyped
  <2>2. n \in Nat
    BY LenProperties DEF LoaderTyped
  <2>3. current_input \in 0 .. n
    BY DEF TypeOK
  <2>4. delivered' = q + 1 /\ Event = d.events[q + 1] /\ q + 1 \in 1 .. Len(d.events)
    BY DEF EventTaken
  <2>. QED  BY <2>1, <2>2, <2>3, <2>4
<1>3. z <= q + 1
  BY <1>0, <1>1, <1>2
<1>4. ASSUME n <= Len(config'.inputs), Len(config'.inputs) \in Nat,
             \A j \in 1 .. N : config'.inputs[j] = config.inputs[j],
             \A j \in (N + 1) .. Len(config'.inputs) : config'.inputs[j]["type"] \notin {"file", "pcap"},
             current_input' = 0 \/ current_input' > N
      PROVE  AfterInputs'
  <2>1. Read(N)'
    BY <1>1, <1>4 DEF Read
  <2>2. N <= Len(config'.inputs)
    BY <1>0, <1>1, <1>2, <1>4
  <2>. QED  BY <1>2, <1>3, <1>4, <2>1, <2>2 DEF AfterInputs
<1>5. CASE config'.inputs = config.inputs /\ current_input' \in {0, current_input}
  BY <1>1, <1>2, <1>4, <1>5
<1>6. CASE MappingStart
  <2>1. CASE "inputs" \in in_ /\ in_ \cap {"logs", "network"} = {}
    <3>1. /\ Len(config'.inputs) = n + 1 /\ current_input' = n + 1
          /\ config'.inputs[n + 1] = Empty(InputKeys)
          /\ \A j \in 1 .. n : config'.inputs[j] = config.inputs[j]
      BY <1>6, <2>1, InputStarts
    <3>2. Empty(InputKeys)["type"] \notin {"file", "pcap"}
      BY DEF Empty, InputKeys, None
    <3>3. /\ \A j \in 1 .. N : j \in 1 .. n
          /\ \A j \in (N + 1) .. n + 1 : j = n + 1 \/ (j \in (N + 1) .. n /\ j \in 1 .. n)
          /\ n <= n + 1 /\ n + 1 > N /\ n + 1 \in Nat
      <4>1. N \in Nat /\ n \in Nat /\ N <= n
        BY <1>0, <1>1, <1>2
      <4>. QED  BY <4>1
    <3>. QED  BY <1>1, <1>4, <3>1, <3>2, <3>3
  <2>2. CASE ~("inputs" \in in_ /\ in_ \cap {"logs", "network"} = {})
    BY <1>5, <1>6, <2>2, InputStarts
  <2>. QED  BY <2>1, <2>2
<1>7. CASE ScalarValue /\ Event.type = "scalar"
  <2>1. current_input' = current_input
    BY <1>7 DEF ScalarValue
  <2>2. IF current_input # 0 /\ current_key \in InputKeys
        THEN /\ Len(config'.inputs) = n
             /\ \A j \in 1 .. n : j # current_input => config'.inputs[j] = config.inputs[j]
             /\ \A key \in InputKeys : config'.inputs[current_input][key] =
                   IF key = current_key THEN Event.value ELSE config.inputs[current_input][key]
        ELSE config'.inputs = config.inputs
    <3>1. DOMAIN config = DOMAIN Defaults
      BY DEF FlagsInv
    <3>2. Event.value \in Texts(document)
      BY <1>2 DEF Texts
    <3>. QED  BY <1>7, <3>1, <3>2, InputValue
  <2>3. CASE current_input # 0 /\ current_key \in InputKeys
    <3>1. Event.value \notin {"file", "pcap"}
      <4>1. q + 1 \in (z + 1) .. Len(d.events) /\ IsScalar(d, q + 1)
        <5>1. IsScalar(d, q + 1)
          BY <1>2, <1>7 DEF IsScalar
        <5>. QED  BY <1>0, <1>1, <1>2, <5>1
      <4>. QED  BY <1>0, <1>2, <4>1 DEF NoneBehind
    <3>2. current_input \in (N + 1) .. n
      BY <1>0, <1>1, <1>2, <2>3
    <3>3. config'.inputs[current_input]["type"] \notin {"file", "pcap"}
      BY <1>1, <2>2, <2>3, <3>1, <3>2 DEF InputKeys
    <3>4. \A j \in 1 .. n : j # current_input => config'.inputs[j] = config.inputs[j]
      BY <2>2, <2>3
    <3>5. \A j \in 1 .. N : config'.inputs[j] = config.inputs[j]
      BY <1>0, <1>1, <1>2, <3>2, <3>4
    <3>6. \A j \in (N + 1) .. n : config'.inputs[j]["type"] \notin {"file", "pcap"}
      <4>. TAKE j \in (N + 1) .. n
      <4>1. j \in 1 .. n
        BY <1>0, <1>2
      <4>. QED  BY <1>1, <3>3, <3>4, <4>1
    <3>7. Len(config'.inputs) = n
      BY <2>2, <2>3
    <3>. QED  BY <1>1, <1>2, <1>4, <2>1, <3>5, <3>6, <3>7
  <2>4. CASE ~(current_input # 0 /\ current_key \in InputKeys)
    BY <1>5, <2>1, <2>2, <2>4
  <2>. QED  BY <2>3, <2>4
<1>8. CASE MappingEnd \/ SequenceStart \/ SequenceEnd \/ ScalarKey
  <2>1. current_input' \in {0, current_input}
    BY <1>8 DEF MappingEnd, SequenceStart, SequenceEnd, ScalarKey, loader, InputAfter
  <2>. QED  BY <1>5, <1>8, <2>1, InputKept
<1>. QED  BY <1>6, <1>7, <1>8 DEF EventTaken

LEMMA InputsInit ==
    ASSUME document \in Documents, LoaderInit
    PROVE  InputsInv
<1>. SUFFICES ASSUME InputsPlain PROVE BeforeInputs
  BY DEF InputsInv, InputsRead
<1>1. Position("inputs") \in Nat
  BY InputsMeant
<1>2. delivered = 0 /\ Len(config.inputs) = 0 /\ current_input = 0
  <2>1. config.inputs = <<>>
    BY DEF LoaderInit, Defaults
  <2>. QED  BY <2>1 DEF LoaderInit
<1>. QED  BY <1>1, <1>2 DEF BeforeInputs

LEMMA InputsNext ==
    ASSUME LoaderTyped, TypeOK, FlagsInv, ApproachInv, InputsInv, Next
    PROVE  InputsInv'
<1>1. document' = document
  BY DocumentKept
<1>. SUFFICES ASSUME phase' # "failed", InputsPlain PROVE InputsRead'
  BY <1>1 DEF InputsInv, InputsPlain, Present, Position
<1>2. phase # "failed" /\ InputsRead
  BY PhaseStep DEF InputsInv
<1>3. CASE Loaded \/ Apply
  <2>1. UNCHANGED <<delivered, loader, config>>
    BY <1>3 DEF Loaded, Apply
  <2>. QED  BY <1>1, <1>2, <2>1 DEF InputsRead, BeforeInputs, ListBegins, AfterInputs, ItemIsRead,
                                    Read, Position, loader
<1>4. CASE EventTaken
  <2>. PICK N : N = Len(document.meant.inputs)
    OBVIOUS
  <2>1. CASE BeforeInputs
    <3>1. (BeforeInputs \/ ListBegins)'
      BY <1>1, <1>4, <2>1, BeforeInputsStep
    <3>. QED  BY <3>1 DEF InputsRead
  <2>2. CASE ListBegins
    BY <1>1, <1>4, <2>2, ListBeginsStep
  <2>3. CASE AfterInputs
    <3>1. AfterInputs'
      BY <1>1, <1>4, <2>3, AfterInputsStep
    <3>. QED  BY <3>1 DEF InputsRead
  <2>4. ASSUME NEW k \in 1 .. N, ItemIsRead(k) PROVE InputsRead'
    <3>. PICK p, e, a : p = document.starts[k] /\ e = document.starts[k + 1] - 1
                        /\ a = Position("inputs")
      OBVIOUS
    <3>1. /\ N \in Nat /\ ListStands(document, a, N)
          /\ \A j \in 1 .. N : MeansInput(document, document.starts[j], document.starts[j + 1] - 1,
                                         document.meant.inputs[j])
          /\ \A j \in 1 .. N + 1 : document.starts[j] \in Nat
      BY InputsMeant DEF LoaderTyped
    <3>2. /\ k \in Nat /\ k # 0 /\ p \in Nat /\ MeansInput(document, p, e, document.meant.inputs[k])
      <4>1. k \in Nat /\ k # 0 /\ k \in 1 .. N + 1
        BY <3>1
      <4>. QED  BY <3>1, <4>1
    <3>3. e \in Nat /\ delivered \in p .. e
      <4>1. k + 1 \in 1 .. N + 1
        BY <3>1
      <4>2. document.starts[k + 1] \in Nat
        BY <3>1, <4>1
      <4>3. p < e
        BY <3>2 DEF MeansInput, Pairs
      <4>4. delivered \in p .. e
        BY <2>4 DEF ItemIsRead
      <4>. QED  BY <3>2, <4>2, <4>3, <4>4
    <3>4. CASE delivered = e
      BY <1>1, <1>4, <2>4, <3>4, ItemEnds
    <3>5. CASE delivered # e
      <4>1. delivered < e
        BY <3>2, <3>3, <3>5
      <4>2. ItemIsRead(k)'
        BY <1>1, <1>4, <2>4, <3>2, <3>3, <4>1, ItemGoesOn
      <4>. QED  BY <1>1, <4>2 DEF InputsRead
    <3>. QED  BY <3>4, <3>5
  <2>. QED  BY <1>2, <2>1, <2>2, <2>3, <2>4 DEF InputsRead
<1>5. ~ParseError
  BY DEF ParseError
<1>6. EventTaken \/ Loaded \/ Apply
  <2>1. CASE UNCHANGED <<delivered, in_, expecting_key, current_key>>
    <3>1. \A type : ~Arrives(type)
      <4>1. delivered \in Nat
        BY DEF LoaderTyped
      <4>. QED  BY <2>1, <4>1 DEF Arrives
    <3>. QED  BY <1>5, <3>1, StepKinds
  <2>. QED  BY <2>1, ByType
<1>. QED  BY <1>3, <1>4, <1>6

(* The inputs that are created are those of the section: what comes after  *)
(* them is skipped.                                                        *)
LEMMA CreatedSame ==
    ASSUME NEW s, NEW t, NEW n \in Nat, NEW N \in Nat, N <= n,
           DOMAIN s = 1 .. n, DOMAIN t = 1 .. N,
           \A j \in 1 .. N : s[j] = t[j],
           \A j \in (N + 1) .. n : s[j]["type"] \notin {"file", "pcap"}
    PROVE  CreatedOf(s) = CreatedOf(t)
<1>. DEFINE S == {j \in DOMAIN s : Creatable(s[j])}
            T == {j \in DOMAIN t : Creatable(t[j])}
<1>1. \A j \in (N + 1) .. n : ~Creatable(s[j])
  BY DEF Creatable
<1>2. \A j \in 1 .. n : j \in 1 .. N \/ j \in (N + 1) .. n
  OBVIOUS
<1>3. \A j \in 1 .. N : j \in 1 .. n
  OBVIOUS
<1>4. S = T
  BY <1>1, <1>2, <1>3
<1>5. \A j \in T : Created(s[j]) = Created(t[j])
  OBVIOUS
<1>6. [j \in S |-> Created(s[j])] = [j \in T |-> Created(t[j])]
  <2>. HIDE DEF S, T
  <2>. QED  BY <1>4, <1>5
<1>. QED  BY <1>6 DEF CreatedOf

(* What nblex_config_apply made of the settings and inputs.                *)
AppliedInv ==
    phase = "applied" =>
        /\ world.window = IF config.correlation_enabled THEN config.correlation_window_ms
                          ELSE OpenWorld.window
        /\ world.inputs = CreatedOf(config.inputs)

LEMMA AppliedNext ==
    ASSUME FlagsInv, AppliedInv, Next
    PROVE  AppliedInv'
<1>1. CASE Apply
  BY <1>1 DEF Apply, AppliedInv, FlagsInv
<1>2. CASE ~Apply
  <2>1. phase' # "applied"
    BY <1>2 DEF Next, MappingStart, MappingEnd, SequenceStart, SequenceEnd, ScalarKey, ScalarValue,
                Arrives, Loaded, ParseError
  <2>. QED  BY <2>1 DEF AppliedInv
<1>. QED  BY <1>1, <1>2

(* All has been delivered once the file is loaded.                         *)
DeliveredInv == phase \in {"loaded", "applied"} => delivered = Len(document.events)

MeaningInv == FlagsInv /\ ApproachInv /\ SettingsInv /\ InputsInv /\ AppliedInv /\ DeliveredInv

LEMMA MeaningInit ==
    ASSUME document \in Documents, LoaderInit
    PROVE  MeaningInv
<1>1. AppliedInv /\ DeliveredInv
  BY DEF LoaderInit, AppliedInv, DeliveredInv
<1>. QED  BY <1>1, FlagsInit, ApproachInit, SettingsInit, InputsInit DEF MeaningInv

LEMMA MeaningNext == LoaderInv /\ MeaningInv /\ [Next]_vars => MeaningInv'
<1>. SUFFICES ASSUME LoaderInv, MeaningInv, [Next]_vars PROVE MeaningInv'
  OBVIOUS
<1>1. CASE UNCHANGED vars
  <2>1. UNCHANGED <<document, delivered, phase, in_, expecting_key, current_key, current_input,
                    current_output, config, world>>
    BY <1>1 DEF vars, loader
  <2>2. FlagsInv'
    BY <2>1 DEF MeaningInv, FlagsInv, Present, Position
  <2>3. ApproachInv'
    BY <2>1 DEF MeaningInv, ApproachInv, ApproachAt, Position
  <2>4. SettingsInv'
    BY <2>1 DEF MeaningInv, SettingsInv, SettingsAt, Ahead, Present, Position
  <2>5. InputsInv'
    <3>1. InputsPlain' = InputsPlain
      BY <2>1 DEF InputsPlain, Ahead, Present, Position
    <3>2. InputsRead' = InputsRead
      BY <2>1 DEF InputsRead, BeforeInputs, ListBegins, AfterInputs, ItemIsRead, Read, Position
    <3>. QED  BY <2>1, <3>1, <3>2 DEF MeaningInv, InputsInv
  <2>6. AppliedInv' /\ DeliveredInv'
    BY <2>1 DEF MeaningInv, AppliedInv, DeliveredInv
  <2>. QED  BY <2>2, <2>3, <2>4, <2>5, <2>6 DEF MeaningInv
<1>2. CASE Next
  <2>1. LoaderTyped /\ TypeOK
    BY DEF LoaderInv
  <2>2. DeliveredInv'
    <3>1. \/ Loaded \/ Apply
          \/ phase' \notin {"loaded", "applied"}
      BY <1>2 DEF Next, MappingStart, MappingEnd, SequenceStart, SequenceEnd, ScalarKey, ScalarValue,
                  Arrives, ParseError
    <3>. QED  BY <3>1 DEF MeaningInv, DeliveredInv, Loaded, Apply
  <2>. QED  BY <1>2, <2>1, <2>2, FlagsNext, ApproachNext, SettingsNext, InputsNext, AppliedNext
            DEF MeaningInv
<1>. QED  BY <1>1, <1>2 DEF vars

LEMMA MeaningHolds == MainSpec => [](LoaderInv /\ MeaningInv)
<1>1. MainInit => MeaningInv
  <2>1. MainInit => document \in Documents /\ LoaderInit
    BY CommandLineAssumption DEF MainInit
  <2>. QED  BY <2>1, MeaningInit
<1>2. [MainNext]_allVars => [Next]_vars
  BY DEF MainNext, allVars, ParseOptions, Open, LoadConfig, MakeInputs, MakeOutput, Start, CleanUp
<1>. QED  BY <1>1, <1>2, LoaderHolds, MeaningNext, PTL DEF MainSpec

(* Of a file whose plain sections mean what stands in them, the settings   *)
(* that come before the inputs and outputs, and inputs that no outputs     *)
(* follow, are read and applied as they are meant (nblex_config_load_yaml, *)
(* nblex_config_apply in core/config.c), whatever the order of the other   *)
(* sections, the number of items and pairs, and the depth of the rest: the *)
(* flag of a section is set while the loader is in it, and in a plain one  *)
(* it takes every second text for a key.                                   *)
THEOREM ConfigurationReadAsMeant == MainSpec => []ReadAsMeant
<1>1. LoaderInv /\ MeaningInv => ReadAsMeant
  <2>. SUFFICES ASSUME LoaderInv, MeaningInv, phase \in {"loaded", "applied"} PROVE ReadAsMeant
    BY DEF ReadAsMeant
  <2>1. /\ LoaderTyped /\ document \in Documents /\ delivered = Len(document.events)
        /\ phase # "failed" /\ delivered \in Nat
    BY ConfigAssumption DEF LoaderInv, LoaderTyped, MeaningInv, DeliveredInv
  <2>2. ASSUME NEW c \in DOMAIN SettingsOf, c \in document.plain, Ahead(c)
        PROVE  \A key \in DOMAIN SettingsOf[c] :
                  config[SettingsOf[c][key]] = document.meant[SettingsOf[c][key]]
    <3>1. PICK z \in 1 .. Len(document.events) : MeansSettings(document, c, z)
      BY <2>1, <2>2, MeaningAssumption
    <3>2. SettingsAt(c, z)
      BY <2>1, <2>2, <3>1 DEF MeaningInv, SettingsInv
    <3>3. z <= delivered
      BY <2>1, <3>1
    <3>. QED  BY <3>2, <3>3 DEF SettingsAt
  <2>3. ASSUME "correlation" \in document.plain, Ahead("correlation"), phase = "applied"
        PROVE  world.window = IF document.meant.correlation_enabled
                              THEN document.meant.correlation_window_ms ELSE OpenWorld.window
    <3>1. /\ "correlation" \in DOMAIN SettingsOf
          /\ "enabled" \in DOMAIN SettingsOf["correlation"]
          /\ "window_ms" \in DOMAIN SettingsOf["correlation"]
          /\ SettingsOf["correlation"]["enabled"] = "correlation_enabled"
          /\ SettingsOf["correlation"]["window_ms"] = "correlation_window_ms"
      BY DEF SettingsOf
    <3>2. /\ config["correlation_enabled"] = document.meant["correlation_enabled"]
          /\ config["correlation_window_ms"] = document.meant["correlation_window_ms"]
      BY <2>2, <2>3, <3>1
    <3>. QED  BY <2>3, <3>2 DEF MeaningInv, AppliedInv
  <2>4. ASSUME InputsPlain, phase = "applied"
        PROVE  world.inputs = CreatedOf(document.meant.inputs)
    <3>. PICK N, a, d : N = Len(document.meant.inputs) /\ a = Position("inputs") /\ d = document
      OBVIOUS
    <3>1. /\ N \in Nat /\ a \in Nat /\ ListStands(d, a, N)
          /\ \A k \in 1 .. N + 1 : /\ d.starts[k] \in Nat /\ a + 4 <= d.starts[k]
                                   /\ d.starts[k] <= Len(d.events)
      BY <2>1, <2>4, InputsMeant
    <3>2. 1 \in 1 .. N + 1 /\ \A k \in 1 .. N : k + 1 \in 1 .. N + 1
      BY <3>1
    <3>3. a + 4 <= Len(d.events) /\ Len(d.events) \in Nat
      BY <2>1, <3>1, <3>2
    <3>4. AfterInputs
      <4>1. ~BeforeInputs
        BY <2>1, <3>1, <3>3 DEF BeforeInputs
      <4>2. ~ListBegins
        BY <2>1, <3>1, <3>3 DEF ListBegins
      <4>3. ASSUME NEW k \in 1 .. N, ItemIsRead(k) PROVE FALSE
        <5>1. delivered \in d.starts[k] .. (d.starts[k + 1] - 1)
          BY <4>3 DEF ItemIsRead
        <5>2. d.starts[k + 1] \in Nat /\ d.starts[k + 1] <= Len(d.events)
          BY <3>1, <3>2
        <5>. QED  BY <2>1, <5>1, <5>2
      <4>. QED  BY <2>1, <2>4, <4>1, <4>2, <4>3 DEF MeaningInv, InputsInv, InputsRead
    <3>. PICK s, t : s = config.inputs /\ t = document.meant.inputs
      OBVIOUS
    <3>. PICK n : n = Len(s)
      OBVIOUS
    <3>5. n \in Nat /\ DOMAIN s = 1 .. n
      BY LenProperties DEF LoaderInv, LoaderTyped
    <3>6. DOMAIN t = 1 .. N
      BY <3>1 DEF ListStands
    <3>7. /\ N <= n /\ \A j \in 1 .. N : s[j] = t[j]
          /\ \A j \in (N + 1) .. n : s[j]["type"] \notin {"file", "pcap"}
      BY <3>4 DEF AfterInputs, Read
    <3>8. CreatedOf(s) = CreatedOf(t)
      BY <3>1, <3>5, <3>6, <3>7, CreatedSame
    <3>. QED  BY <2>4, <3>8 DEF MeaningInv, AppliedInv
  <2>5. "correlation" \in DOMAIN SettingsOf /\ "performance" \in DOMAIN SettingsOf
    BY SettingNames
  <2>. QED  BY <2>2, <2>3, <2>4, <2>5 DEF ReadAsMeant, InputsPlain, Present
<1>. QED  BY <1>1, MeaningHolds, PTL
=============================================================================
