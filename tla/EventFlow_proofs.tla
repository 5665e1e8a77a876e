-------------------------- MODULE EventFlow_proofs --------------------------
(***************************************************************************)
(* Proofs about the life of an event, for every query and filter, every    *)
(* number of events and every nesting of calls.                            *)
(***************************************************************************)
EXTENDS EventFlow, SequenceTheorems, FiniteSetTheorems, TLAPS

Points == {"filter", "handle", "print", "free", "walk", "begin", "stage", "left", "right"}

Frame == [fn : {"emit", "check", "execute", "caller"}, event : Nat, at : Points,
          stage : Nat, todo : Seq(Nat)]

EventRecord == [type : {"LOG", "NETWORK", "CORRELATION"},
                input : {"file", "other", "pcap", "none"},
                matches : SUBSET Filters, emitted : BOOLEAN, freed : BOOLEAN]

Context == [type : {"aggregate", "correlate"}, left_events : Seq(Nat),
            right_events : Seq(Nat), buckets : Seq(Nat)]

(* The types of the state, as far as the calls depend on them.             *)
Typed ==
    /\ handler \in Handlers /\ query \in Queries
    /\ events \in Seq(EventRecord)
    /\ stack \in Seq(Frame)
    /\ log_events \in Seq(Nat) /\ network_events \in Seq(Nat)
    /\ contexts \in Seq(Context) /\ Len(contexts) <= 1
    /\ misused \in Nat

----------------------------------------------------------------------------
(* The stack when the innermost call returns, goes on, or makes a call.    *)
LEMMA Returned ==
    ASSUME NEW S, NEW s \in Seq(S), s # <<>>
    PROVE  /\ Head(s) = s[1] /\ s[1] \in S /\ Len(s) \in Nat \ {0}
           /\ Tail(s) \in Seq(S) /\ Len(Tail(s)) = Len(s) - 1
           /\ \A i \in 1 .. Len(s) - 1 : Tail(s)[i] = s[i + 1]
  BY HeadTailProperties, EmptySeq, ElementOfSeq

LEMMA WentOn ==
    ASSUME NEW S, NEW s \in Seq(S), s # <<>>, NEW f \in S
    PROVE  LET t == <<f>> \o Tail(s)
           IN  /\ t \in Seq(S) /\ Len(t) = Len(s)
               /\ t[1] = f /\ \A i \in 2 .. Len(s) : t[i] = s[i]
<1>1. <<f>> \in Seq(S) /\ Len(<<f>>) = 1 /\ <<f>>[1] = f
  OBVIOUS
<1>2. /\ Tail(s) \in Seq(S) /\ Len(Tail(s)) = Len(s) - 1 /\ Len(s) \in Nat \ {0}
      /\ \A i \in 1 .. Len(s) - 1 : Tail(s)[i] = s[i + 1]
  BY Returned
<1>. DEFINE t == <<f>> \o Tail(s)
<1>3. /\ t \in Seq(S) /\ Len(t) = 1 + (Len(s) - 1)
      /\ \A i \in 1 .. 1 + (Len(s) - 1) : t[i] = IF i <= 1 THEN <<f>>[i] ELSE Tail(s)[i - 1]
  BY <1>1, <1>2, ConcatProperties
<1>4. t[1] = f
  BY <1>1, <1>2, <1>3
<1>5. ASSUME NEW i \in 2 .. Len(s) PROVE t[i] = s[i]
  <2>1. i - 1 \in 1 .. Len(s) - 1 /\ (i - 1) + 1 = i /\ ~(i <= 1)
    BY <1>2
  <2>2. i \in 1 .. 1 + (Len(s) - 1)
    BY <1>2
  <2>. HIDE DEF t
  <2>. QED  BY <1>2, <1>3, <2>1, <2>2
<1>. QED  BY <1>2, <1>3, <1>4, <1>5

LEMMA CalledFrom ==
    ASSUME NEW S, NEW s \in Seq(S), s # <<>>, NEW f \in S, NEW g \in S
    PROVE  LET t == <<g>> \o (<<f>> \o Tail(s))
           IN  /\ t \in Seq(S) /\ Len(t) = Len(s) + 1
               /\ t[1] = g /\ t[2] = f
               /\ \A i \in 2 .. Len(s) : t[i + 1] = s[i]
<1>. DEFINE r == <<f>> \o Tail(s)
            t == <<g>> \o r
<1>1. /\ r \in Seq(S) /\ Len(r) = Len(s) /\ r[1] = f
      /\ \A i \in 2 .. Len(s) : r[i] = s[i]
  BY WentOn
<1>2. Len(s) \in Nat \ {0}
  BY EmptySeq
<1>3. <<g>> \in Seq(S) /\ Len(<<g>>) = 1 /\ <<g>>[1] = g
  OBVIOUS
<1>. HIDE DEF r
<1>4. /\ t \in Seq(S) /\ Len(t) = 1 + Len(s)
      /\ \A i \in 1 .. 1 + Len(s) : t[i] = IF i <= 1 THEN <<g>>[i] ELSE r[i - 1]
  BY <1>1, <1>3, ConcatProperties
<1>. HIDE DEF t
<1>5. t[1] = g /\ t[2] = f
  BY <1>1, <1>2, <1>3, <1>4
<1>6. ASSUME NEW i \in 2 .. Len(s) PROVE t[i + 1] = s[i]
  <2>1. i + 1 \in 1 .. 1 + Len(s) /\ (i + 1) - 1 = i /\ ~(i + 1 <= 1)
    BY <1>2
  <2>. QED  BY <1>1, <1>4, <2>1
<1>7. t \in Seq(S) /\ Len(t) = Len(s) + 1
  BY <1>2, <1>4
<1>. QED  BY <1>5, <1>6, <1>7 DEF t, r

(* What making and freeing an event change.                                *)
LEMMA EventMade ==
    ASSUME NEW S, NEW s \in Seq(S), NEW r \in S
    PROVE  LET t == Append(s, r)
           IN  /\ t \in Seq(S) /\ Len(t) = Len(s) + 1 /\ Len(s) \in Nat
               /\ t[Len(s) + 1] = r /\ \A i \in 1 .. Len(s) : t[i] = s[i]
  BY AppendProperties, LenProperties

LEMMA EventFreed ==
    ASSUME NEW s \in Seq(EventRecord), NEW e \in 1 .. Len(s)
    PROVE  LET t == [s EXCEPT ![e].freed = TRUE]
           IN  /\ t \in Seq(EventRecord) /\ Len(t) = Len(s) /\ Len(s) \in Nat
               /\ \A i \in 1 .. Len(s) :
                     /\ t[i].type = s[i].type /\ t[i].input = s[i].input
                     /\ t[i].matches = s[i].matches /\ t[i].emitted = s[i].emitted
                     /\ t[i].freed <=> (i = e \/ s[i].freed)
<1>. DEFINE r == [s[e] EXCEPT !.freed = TRUE]
            t == [s EXCEPT ![e] = r]
<1>1. s[e] \in EventRecord /\ \A i \in 1 .. Len(s) : s[i] \in EventRecord
  BY ElementOfSeq
<1>2. r \in EventRecord /\ r.freed = TRUE
      /\ r.type = s[e].type /\ r.input = s[e].input /\ r.matches = s[e].matches
      /\ r.emitted = s[e].emitted
  BY <1>1 DEF EventRecord
<1>3. /\ t \in Seq(EventRecord) /\ Len(t) = Len(s)
      /\ \A i \in 1 .. Len(s) : t[i] = IF i = e THEN r ELSE s[i]
  <2>. HIDE DEF r
  <2>. QED  BY <1>2, ExceptSeq
<1>4. Len(s) \in Nat
  BY LenProperties
<1>5. [s EXCEPT ![e].freed = TRUE] = t
  OBVIOUS
<1>. HIDE DEF r, t
<1>6. \A i \in 1 .. Len(s) :
          /\ t[i].type = s[i].type /\ t[i].input = s[i].input
          /\ t[i].matches = s[i].matches /\ t[i].emitted = s[i].emitted
          /\ t[i].freed <=> (i = e \/ s[i].freed)
  BY <1>2, <1>3
<1>. QED  BY <1>3, <1>4, <1>5, <1>6

----------------------------------------------------------------------------
(* The calls of emit and of a caller end with the free of their event.     *)
Owner(f) == f.fn \in {"emit", "caller"}

(* A walk over a buffer of the query is part of a stage that correlates.   *)
WalkInStage(f, cs) ==
    f.fn = "execute" /\ f.at \in {"left", "right"} =>
        /\ f.stage <= Len(query) /\ query[f.stage].type = "correlate"
        /\ cs # <<>>

(* What each call has in hand.                                             *)
CallsTyped ==
    \A i \in 1 .. Len(stack) :
        /\ stack[i].event \in 1 .. Len(events)
        /\ stack[i].stage \in 1 .. Len(query) + 1
        /\ stack[i].fn = "check" /\ events[stack[i].event].type = "CORRELATION"
              => stack[i].todo = <<>>
        /\ WalkInStage(stack[i], contexts)

(* The context of the query is that of one of its stages.                  *)
ContextOfStage ==
    contexts # <<>> => \E k \in 1 .. Len(query) : contexts[1].type = query[k].type

Base == Typed /\ CallsTyped /\ ContextOfStage

(* The calls whose results are log events.                                 *)
MakesLog(f) ==
    \/ f.fn = "emit"
    \/ f.fn = "execute" /\ \E k \in 1 .. Len(query) : query[k].type = "aggregate"

(* What a step does to the stack, to the events and to the memory.         *)
Returns ==
    /\ stack # <<>> /\ stack' = Tail(stack)
    /\ stack[1].fn = "emit" /\ stack[1].at # "free"
          => stack[1].at = "filter" /\ ~Admitted(stack[1].event)
    /\ IF Owner(stack[1]) THEN Free(stack[1].event) ELSE UNCHANGED <<events, misused>>

SameCall(f, g) == f.fn = g.fn /\ f.event = g.event

GoesOn(f) ==
    /\ stack # <<>> /\ stack' = <<f>> \o Tail(stack)
    /\ f \in Frame /\ SameCall(f, stack[1]) /\ f.stage \in 1 .. Len(query) + 1
    /\ f.fn \in {"emit", "execute"} /\ WalkInStage(f, contexts')
    /\ f.fn = "emit" => f.at = "free" /\ stack[1].at \in {"handle", "print"}
    /\ UNCHANGED <<events, misused>>

(* An event that is made by what is running: the record appended.          *)
NewEvent(r) == r \in EventRecord /\ ~r.freed /\ events' = Append(events, r)

Checks(g, f) ==
    /\ g.fn = "check" /\ g.event = f.event /\ g.at = "walk" /\ g.todo = Opposite(g.event)
    /\ events[g.event].type = "CORRELATION" => g.todo = <<>>
    /\ f.fn = "emit" /\ stack[1].at = "filter" /\ f.at = "handle"
    /\ events' = events

Executes(g, f) ==
    /\ g.fn = "execute" /\ g.at = "begin" /\ g.event = f.event
    /\ f.fn = "emit" /\ stack[1].at = "handle"
    /\ f.at = IF handler = "executes" THEN "free" ELSE "print"
    /\ RunsQuery(g.event)
    /\ events' = events

EmitsResult(g, f) ==
    /\ g.fn = "emit" /\ g.at = "filter" /\ g.event = New
    /\ f.fn # "caller"
    /\ f.fn = "check" => events[f.event].type # "CORRELATION"
    /\ f.fn = "emit" => handler = "emits" /\ stack[1].at = "handle" /\ f.at = "free"
    /\ \E r \in EventRecord : /\ NewEvent(r) /\ r.input = "none" /\ r.emitted
                              /\ r.type # "CORRELATION" => MakesLog(f)

Calls(g, f) ==
    /\ stack # <<>> /\ stack' = <<g>> \o (<<f>> \o Tail(stack))
    /\ f \in Frame /\ SameCall(f, stack[1]) /\ f.stage \in 1 .. Len(query) + 1
    /\ WalkInStage(f, contexts')
    /\ g \in Frame /\ g.stage = 1
    /\ misused' = misused
    /\ Checks(g, f) \/ Executes(g, f) \/ EmitsResult(g, f)

Begins(g) ==
    /\ stack = <<>>
    /\ g \in Frame /\ g.stage = 1 /\ g.event = New /\ g.fn \in {"emit", "execute"}
    /\ g.at = IF g.fn = "emit" THEN "filter" ELSE "begin"
    /\ misused' = misused
    /\ \E r \in EventRecord :
          /\ NewEvent(r) /\ r.input # "none" /\ r.type # "CORRELATION"
          /\ r.emitted = (g.fn = "emit")
          /\ \/ stack' = <<g>> /\ g.fn = "emit" /\ r.input # "pcap"
             \/ /\ stack' = <<g, Call("caller", New, "free", <<>>)>>
                /\ r.input = "pcap" <=> g.fn = "emit"

Stays ==
    /\ UNCHANGED <<setting, events, stack, engine, execution, output, sources>>
    /\ \/ misused' = misused
       \/ stack # <<>> /\ misused' = stack[1].event /\ OfTwoTypes

StepKind ==
    \/ Returns
    \/ \E f \in Frame : GoesOn(f)
    \/ \E f, g \in Frame : Calls(g, f)
    \/ \E g \in Frame : Begins(g)
    \/ Stays

LEMMA QueryTyped ==
    ASSUME Typed
    PROVE  /\ Len(query) \in Nat /\ DOMAIN query = 1 .. Len(query)
           /\ \A k \in 1 .. Len(query) : query[k] \in Stages
  BY FlowAssumption, LenProperties, ElementOfSeq DEF Typed

(* The innermost call, and what may become of it.                          *)
LEMMA Innermost ==
    ASSUME Base, stack # <<>>
    PROVE  /\ Head(stack) = stack[1] /\ stack[1] \in Frame
           /\ This \in 1 .. Len(events) /\ Stage \in 1 .. Len(query) + 1
           /\ This = stack[1].event /\ Stage = stack[1].stage
           /\ Stage \in Nat /\ Len(query) \in Nat /\ Len(events) \in Nat
           /\ This \in Nat /\ events[This] \in EventRecord
<1>1. Head(stack) = stack[1] /\ stack[1] \in Frame /\ Len(stack) \in Nat \ {0}
  BY Returned DEF Base, Typed
<1>2. 1 \in 1 .. Len(stack)
  BY <1>1
<1>3. Len(query) \in Nat /\ Len(events) \in Nat
  BY QueryTyped, LenProperties DEF Base, Typed
<1>4. stack[1].event \in 1 .. Len(events) /\ stack[1].stage \in 1 .. Len(query) + 1
  BY <1>2 DEF Base, CallsTyped
<1>5. events[stack[1].event] \in EventRecord
  BY <1>4, ElementOfSeq DEF Base, Typed
<1>. QED  BY <1>1, <1>3, <1>4, <1>5 DEF This, Stage

(* The innermost call at another point, on a walk, or at the next stage.   *)
At(h, at) == [h EXCEPT !.at = at]
OnWalk(h, at, todo) == [h EXCEPT !.at = at, !.todo = todo]
AtStage(h, k) == [h EXCEPT !.stage = k, !.at = "stage", !.todo = <<>>]

LEMMA NewNat == Base => New \in Nat /\ New = Len(events) + 1 /\ Len(events) \in Nat
  BY LenProperties DEF Base, Typed, New

LEMMA SourceBegins ==
    ASSUME Base, NEW m \in Matching,
           \/ FileLine(m) \/ Packet(m) \/ CallerExecutes(m)
           \/ \E type \in {"LOG", "NETWORK"} : CallerEmits(type, m)
    PROVE  \E g \in Frame : Begins(g)
<1>1. m \in SUBSET Filters
  BY DEF Matching
<1>2. New \in Nat /\ <<>> \in Seq(Nat) /\ "filter" \in Points /\ "begin" \in Points
  BY NewNat DEF Points
<1>. DEFINE E == Call("emit", New, "filter", <<>>)
            X == Call("execute", New, "begin", <<>>)
            C == Call("caller", New, "free", <<>>)
            R(t, input, emitted) == [type |-> t, input |-> input, matches |-> m,
                                     emitted |-> emitted, freed |-> FALSE]
<1>3. /\ E \in Frame /\ E.stage = 1 /\ E.event = New /\ E.fn = "emit" /\ E.at = "filter"
      /\ X \in Frame /\ X.stage = 1 /\ X.event = New /\ X.fn = "execute" /\ X.at = "begin"
  BY <1>2 DEF Call, Frame
<1>4. ASSUME NEW t \in {"LOG", "NETWORK"}, NEW i \in {"file", "other", "pcap"}, NEW b \in BOOLEAN
      PROVE  /\ R(t, i, b) \in EventRecord /\ ~R(t, i, b).freed
             /\ R(t, i, b).input = i /\ R(t, i, b).emitted = b /\ R(t, i, b).type = t
  BY <1>1 DEF EventRecord
<1>5. CASE FileLine(m)
  <2>1. /\ stack = <<>> /\ stack' = <<E>> /\ misused' = misused
        /\ events' = Append(events, R("LOG", "file", E.fn = "emit"))
    BY <1>5 DEF FileLine, Source, Made
  <2>. HIDE DEF E, R
  <2>. QED  BY <1>3, <1>4, <2>1 DEF Begins, NewEvent
<1>6. CASE Packet(m)
  <2>1. /\ stack = <<>> /\ stack' = <<E, C>> /\ misused' = misused
        /\ events' = Append(events, R("NETWORK", "pcap", E.fn = "emit"))
    BY <1>6 DEF Packet, Source, Made
  <2>. HIDE DEF E, R
  <2>. QED  BY <1>3, <1>4, <2>1 DEF Begins, NewEvent
<1>7. CASE CallerExecutes(m)
  <2>1. /\ stack = <<>> /\ stack' = <<X, C>> /\ misused' = misused
        /\ events' = Append(events, R("LOG", "other", X.fn = "emit"))
    BY <1>7 DEF CallerExecutes, Source, Made
  <2>2. (X.fn = "emit") = FALSE
    BY <1>3
  <2>. HIDE DEF X, R
  <2>. QED  BY <1>3, <1>4, <2>1, <2>2 DEF Begins, NewEvent
<1>8. ASSUME NEW t \in {"LOG", "NETWORK"}, CallerEmits(t, m)
      PROVE  \E g \in Frame : Begins(g)
  <2>1. /\ stack = <<>> /\ stack' = <<E>> /\ misused' = misused
        /\ events' = Append(events, R(t, "other", E.fn = "emit"))
    BY <1>8 DEF CallerEmits, Source, Made
  <2>. HIDE DEF E, R
  <2>. QED  BY <1>3, <1>4, <2>1 DEF Begins, NewEvent
<1>. QED  BY <1>5, <1>6, <1>7, <1>8

(* The emission of a result, from the middle of a call.                    *)
LEMMA ResultCalls ==
    ASSUME Base, stack # <<>>, NEW type \in {"LOG", "CORRELATION"}, NEW f \in Frame,
           SameCall(f, stack[1]), f.stage \in 1 .. Len(query) + 1, f.fn # "caller",
           WalkInStage(f, contexts'),
           f.fn = "check" => events[f.event].type # "CORRELATION",
           f.fn = "emit" => handler = "emits" /\ stack[1].at = "handle" /\ f.at = "free",
           type # "CORRELATION" => MakesLog(f),
           EmitResult(type, <<f>> \o Tail(stack)), misused' = misused
    PROVE  \E g \in Frame : Calls(g, f) /\ EmitsResult(g, f)
<1>. DEFINE g == Call("emit", New, "filter", <<>>)
<1>1. g \in Frame /\ g.stage = 1 /\ g.event = New /\ g.fn = "emit" /\ g.at = "filter"
  <2>1. New \in Nat /\ <<>> \in Seq(Nat) /\ "filter" \in Points
    BY NewNat DEF Points
  <2>. QED  BY <2>1 DEF Call, Frame
<1>2. stack' = <<g>> \o (<<f>> \o Tail(stack))
  BY DEF EmitResult
<1>3. PICK m \in Matching : Made(type, "none", m, TRUE)
  BY DEF EmitResult
<1>. DEFINE r == [type |-> type, input |-> "none", matches |-> m, emitted |-> TRUE, freed |-> FALSE]
<1>4. m \in SUBSET Filters
  BY DEF Matching
<1>5. r \in EventRecord /\ NewEvent(r) /\ r.input = "none" /\ r.emitted
      /\ r.type = type
  BY <1>3, <1>4 DEF EventRecord, NewEvent, Made
<1>. HIDE DEF g, r
<1>6. EmitsResult(g, f)
  BY <1>1, <1>5 DEF EmitsResult
<1>. QED  BY <1>1, <1>2, <1>6 DEF Calls

LEMMA EmitKinds ==
    ASSUME Base,
           CallerFrees \/ EmitDrop \/ EmitProcess \/ EmitHandle \/ HandlerPrint \/ EmitFree
    PROVE  StepKind
<1>0. stack # <<>>
  BY DEF CallerFrees, EmitDrop, EmitProcess, EmitHandle, HandlerPrint, EmitFree, Running
<1>1. /\ Head(stack) = stack[1] /\ stack[1] \in Frame /\ This = stack[1].event
      /\ stack[1].stage \in 1 .. Len(query) + 1 /\ This \in Nat
  BY <1>0, Innermost
<1>2. <<>> \in Seq(Nat) /\ 0 \in Nat
  OBVIOUS
<1>3. CASE CallerFrees \/ EmitDrop \/ EmitFree
  BY <1>0, <1>1, <1>3 DEF CallerFrees, EmitDrop, EmitFree, Running, Return, Dropped,
                          StepKind, Returns, Owner
<1>4. CASE EmitProcess
  <2>. DEFINE f == At(stack[1], "handle")
              g == Call("check", This, "walk", Opposite(This))
  <2>1. f \in Frame /\ SameCall(f, stack[1]) /\ f.at = "handle" /\ f.stage = stack[1].stage
    BY <1>1 DEF At, SameCall, Frame, Points
  <2>2. Opposite(This) \in Seq(Nat)
    BY <1>2 DEF Opposite, Base, Typed
  <2>3. /\ g \in Frame /\ g.fn = "check" /\ g.event = This /\ g.stage = 1
        /\ g.at = "walk" /\ g.todo = Opposite(This)
    BY <1>1, <2>2 DEF Call, Frame, Points
  <2>4. /\ stack' = <<g>> \o (<<f>> \o Tail(stack))
        /\ stack[1].fn = "emit" /\ stack[1].at = "filter"
        /\ events' = events /\ misused' = misused
    BY <1>1, <1>4 DEF EmitProcess, Goto, At, Running
  <2>5. events[This].type = "CORRELATION" => Opposite(This) = <<>>
    BY DEF Opposite
  <2>. HIDE DEF f, g
  <2>6. Checks(g, f) /\ WalkInStage(f, contexts')
    BY <1>1, <2>1, <2>3, <2>4, <2>5 DEF Checks, SameCall, WalkInStage
  <2>. QED  BY <1>0, <1>1, <2>1, <2>3, <2>4, <2>6 DEF Calls, StepKind
<1>5. CASE EmitHandle
  <2>1. Running("emit", "handle") /\ misused' = misused
    BY <1>5 DEF EmitHandle
  <2>2. stack[1].fn = "emit" /\ stack[1].at = "handle"
    BY <1>1, <2>1 DEF Running
  <2>3. CASE /\ events' = events /\ RunsQuery(This)
             /\ stack' = <<Call("execute", This, "begin", <<>>)>> \o
                         Goto(IF handler = "executes" THEN "free" ELSE "print")
    <3>. DEFINE at == IF handler = "executes" THEN "free" ELSE "print"
                f == At(stack[1], at)
                g == Call("execute", This, "begin", <<>>)
    <3>1. at \in {"print", "free"} /\ at \in Points
      BY DEF Points
    <3>. HIDE DEF at
    <3>2. f \in Frame /\ SameCall(f, stack[1]) /\ f.at = at /\ f.stage = stack[1].stage
      BY <1>1, <3>1 DEF At, SameCall, Frame
    <3>3. g \in Frame /\ g.fn = "execute" /\ g.event = This /\ g.stage = 1 /\ g.at = "begin"
      BY <1>1, <1>2 DEF Call, Frame, Points
    <3>4. stack' = <<g>> \o (<<f>> \o Tail(stack))
      BY <1>1, <2>3 DEF Goto, At, at
    <3>. HIDE DEF f, g
    <3>5. Executes(g, f) /\ WalkInStage(f, contexts')
      BY <1>1, <2>2, <2>3, <3>1, <3>2, <3>3 DEF Executes, SameCall, WalkInStage, at
    <3>. QED  BY <1>0, <1>1, <2>1, <3>2, <3>3, <3>4, <3>5 DEF Calls, StepKind
  <2>4. CASE EmitResult("LOG", Goto("free")) /\ handler = "emits"
    <3>. DEFINE f == At(stack[1], "free")
    <3>1. f \in Frame /\ SameCall(f, stack[1]) /\ f.stage = stack[1].stage /\ f.at = "free"
      BY <1>1 DEF At, SameCall, Frame, Points
    <3>2. EmitResult("LOG", <<f>> \o Tail(stack))
      BY <1>1, <2>4 DEF Goto, At
    <3>. HIDE DEF f
    <3>3. \E g \in Frame : Calls(g, f)
      BY <1>0, <1>1, <2>1, <2>2, <3>1, <3>2, <2>4, ResultCalls
         DEF SameCall, WalkInStage, MakesLog
    <3>. QED  BY <3>1, <3>3 DEF StepKind
  <2>5. CASE stack' = Goto("free") /\ events' = events
    <3>. DEFINE f == At(stack[1], "free")
    <3>1. f \in Frame /\ SameCall(f, stack[1]) /\ f.stage = stack[1].stage /\ f.at = "free"
      BY <1>1 DEF At, SameCall, Frame, Points
    <3>2. stack' = <<f>> \o Tail(stack)
      BY <1>1, <2>5 DEF Goto, At
    <3>. HIDE DEF f
    <3>. QED  BY <1>0, <1>1, <2>1, <2>2, <2>5, <3>1, <3>2 DEF GoesOn, SameCall, StepKind, WalkInStage
  <2>. QED  BY <1>5, <2>3, <2>4, <2>5 DEF EmitHandle
<1>6. CASE HandlerPrint
  <2>. DEFINE f == At(stack[1], "free")
  <2>1. f \in Frame /\ SameCall(f, stack[1]) /\ f.stage = stack[1].stage /\ f.at = "free"
    BY <1>1 DEF At, SameCall, Frame, Points
  <2>2. /\ stack' = <<f>> \o Tail(stack) /\ UNCHANGED <<events, misused>>
        /\ stack[1].fn = "emit" /\ stack[1].at = "print"
    BY <1>1, <1>6 DEF HandlerPrint, Goto, At, Running
  <2>. HIDE DEF f
  <2>. QED  BY <1>0, <1>1, <2>1, <2>2 DEF GoesOn, SameCall, StepKind, WalkInStage
<1>. QED  BY <1>3, <1>4, <1>5, <1>6

LEMMA CheckKinds ==
    ASSUME Base, CheckMatch \/ CheckAdd
    PROVE  StepKind
<1>0. stack # <<>>
  BY DEF CheckMatch, CheckAdd, Running
<1>1. /\ Head(stack) = stack[1] /\ stack[1] \in Frame /\ This = stack[1].event
      /\ stack[1].stage \in 1 .. Len(query) + 1 /\ stack[1].fn = "check"
  <2>1. Head(stack).fn = "check"
    BY DEF CheckMatch, CheckAdd, Running
  <2>. QED  BY <1>0, <2>1, Innermost
<1>2. CASE CheckMatch
  <2>. DEFINE todo == stack[1].todo
              f == OnWalk(stack[1], "walk", Tail(todo))
  <2>1. todo \in Seq(Nat) /\ todo # <<>>
    BY <1>1, <1>2 DEF CheckMatch, Frame
  <2>2. Tail(todo) \in Seq(Nat) /\ 0 \in Nat /\ "walk" \in Points
    BY <2>1, Returned DEF Points
  <2>3. f \in Frame /\ SameCall(f, stack[1]) /\ f.stage = stack[1].stage
    BY <1>1, <2>2 DEF OnWalk, SameCall, Frame
  <2>4. EmitResult("CORRELATION", <<f>> \o Tail(stack)) /\ misused' = misused
    BY <1>1, <1>2 DEF CheckMatch, Walk, OnWalk
  <2>5. events[stack[1].event].type # "CORRELATION"
    <3>1. 1 \in 1 .. Len(stack)
      BY <1>0, Returned DEF Base, Typed
    <3>. QED  BY <1>1, <2>1, <3>1 DEF Base, CallsTyped
  <2>. HIDE DEF f
  <2>6. \E g \in Frame : Calls(g, f)
    BY <1>0, <1>1, <2>3, <2>4, <2>5, ResultCalls DEF SameCall, WalkInStage
  <2>. QED  BY <2>3, <2>6 DEF StepKind
<1>3. CASE CheckAdd
  BY <1>0, <1>1, <1>3 DEF CheckAdd, Return, StepKind, Returns, Owner
<1>. QED  BY <1>2, <1>3

LEMMA ContextFound ==
    ASSUME Base, contexts # <<>>
    PROVE  contexts \in Seq(Context) /\ Len(contexts) = 1 /\ contexts[1] \in Context
<1>1. contexts \in Seq(Context) /\ Len(contexts) <= 1
  BY DEF Base, Typed
<1>2. Len(contexts) \in Nat \ {0}
  BY <1>1, EmptySeq
<1>. QED  BY <1>1, <1>2, ElementOfSeq

(* The context of the query, for a stage that does not confuse it.         *)
LEMMA ContextsTyped ==
    ASSUME Base, NEW stage \in Stages, Stateful(stage)
    PROVE  LET cs == Contexts(stage)
           IN  /\ cs \in Seq(Context) /\ Len(cs) = 1 /\ cs[1] \in Context
               /\ ~Confused(stage) => cs[1].type = stage.type
<1>1. stage.type \in {"aggregate", "correlate"}
  BY DEF Stateful
<1>2. NewContext(stage) \in Context /\ NewContext(stage).type = stage.type
  <2>1. <<>> \in Seq(Nat)
    OBVIOUS
  <2>. QED  BY <1>1, <2>1 DEF NewContext, Context
<1>3. CASE contexts = <<>>
  <2>1. Contexts(stage) = <<NewContext(stage)>>
    BY <1>3 DEF Contexts
  <2>. HIDE DEF NewContext
  <2>. QED  BY <1>2, <2>1
<1>4. CASE contexts # <<>>
  <2>1. Len(contexts) = 1 /\ contexts[1] \in Context /\ contexts \in Seq(Context)
    BY <1>4, ContextFound
  <2>. QED  BY <1>4, <2>1 DEF Contexts, Confused
<1>. QED  BY <1>3, <1>4

(* What an event adds to it.                                               *)
WithBucket(cs, e) == [cs EXCEPT ![1].buckets = Append(@, e)]

LEMMA ContextChanged ==
    ASSUME NEW cs \in Seq(Context), Len(cs) = 1, NEW e \in Nat
    PROVE  /\ \A d \in {WithLeft(cs, e), WithRight(cs, e), WithBucket(cs, e)} :
                 d \in Seq(Context) /\ Len(d) = 1 /\ d # <<>> /\ d[1].type = cs[1].type
           /\ WithLeft(cs, e)[1].left_events = <<e>> \o cs[1].left_events
           /\ WithLeft(cs, e)[1].right_events = cs[1].right_events
           /\ WithRight(cs, e)[1].left_events = cs[1].left_events
           /\ WithRight(cs, e)[1].right_events = <<e>> \o cs[1].right_events
<1>. DEFINE c == cs[1]
            lc == [c EXCEPT !.left_events = <<e>> \o @]
            rc == [c EXCEPT !.right_events = <<e>> \o @]
            ac == [c EXCEPT !.buckets = Append(@, e)]
<1>1. c \in Context /\ 1 \in 1 .. Len(cs)
  BY ElementOfSeq
<1>2. /\ <<e>> \o c.left_events \in Seq(Nat) /\ <<e>> \o c.right_events \in Seq(Nat)
      /\ Append(c.buckets, e) \in Seq(Nat)
  <2>1. /\ <<e>> \in Seq(Nat) /\ c.left_events \in Seq(Nat) /\ c.right_events \in Seq(Nat)
        /\ c.buckets \in Seq(Nat)
    BY <1>1 DEF Context
  <2>. HIDE DEF c
  <2>. QED  BY <2>1, ConcatProperties, AppendProperties
<1>3. /\ lc \in Context /\ lc.type = c.type
      /\ lc.left_events = <<e>> \o c.left_events /\ lc.right_events = c.right_events
      /\ rc \in Context /\ rc.type = c.type
      /\ rc.right_events = <<e>> \o c.right_events /\ rc.left_events = c.left_events
      /\ ac \in Context /\ ac.type = c.type
  BY <1>1, <1>2 DEF Context
<1>4. /\ WithLeft(cs, e) = [cs EXCEPT ![1] = lc] /\ WithRight(cs, e) = [cs EXCEPT ![1] = rc]
      /\ WithBucket(cs, e) = [cs EXCEPT ![1] = ac]
  BY DEF WithLeft, WithRight, WithBucket
<1>5. \A x \in Context : LET d == [cs EXCEPT ![1] = x]
                         IN  d \in Seq(Context) /\ Len(d) = 1 /\ d[1] = x
  BY <1>1, ExceptSeq
<1>. HIDE DEF c, lc, rc, ac
<1>6. \A x \in {lc, rc, ac} : LET d == [cs EXCEPT ![1] = x]
                         IN  d \in Seq(Context) /\ Len(d) = 1 /\ d[1] = x
  BY <1>3, <1>5
<1>7. \A d \in Seq(Context) : Len(d) = 1 => d # <<>>
  OBVIOUS
<1>. QED  BY <1>3, <1>4, <1>6, <1>7 DEF c

LEMMA ExecuteKinds ==
    ASSUME Base,
           \/ ExecuteBegin \/ ExecuteRefuse \/ ExecuteEnd \/ ExecuteFilter \/ ExecuteConfused
           \/ ExecuteAggregate \/ ExecuteCorrelate \/ CorrelateRight \/ CorrelateDone
           \/ \E side \in {"left", "right"} : CorrelateMatch(side)
    PROVE  StepKind
<1>0. stack # <<>> /\ Head(stack).fn = "execute"
  BY DEF ExecuteBegin, ExecuteRefuse, ExecuteEnd, ExecuteFilter, ExecuteConfused,
         ExecuteAggregate, ExecuteCorrelate, CorrelateRight, CorrelateDone, CorrelateMatch,
         Running
<1>1. /\ Head(stack) = stack[1] /\ stack[1] \in Frame /\ This = stack[1].event
      /\ Stage = stack[1].stage /\ Stage \in 1 .. Len(query) + 1 /\ stack[1].fn = "execute"
      /\ Stage \in Nat /\ Len(query) \in Nat /\ This \in Nat
  BY <1>0, Innermost
<1>2. ASSUME NEW at \in {"stage", "left", "right"}, NEW todo \in Seq(Nat),
             stack' = Goto(at) \/ stack' = Walk(at, todo), UNCHANGED <<events, misused>>,
             at # "stage" => /\ Stage <= Len(query) /\ query[Stage].type = "correlate"
                             /\ contexts' # <<>> /\ query' = query
      PROVE  StepKind
  <2>. DEFINE f == At(stack[1], at)
              g == OnWalk(stack[1], at, todo)
  <2>1. at \in Points /\ 0 \in Nat
    BY DEF Points
  <2>2. /\ f \in Frame /\ SameCall(f, stack[1]) /\ f.stage = stack[1].stage
        /\ g \in Frame /\ SameCall(g, stack[1]) /\ g.stage = stack[1].stage
        /\ f.at = at /\ g.at = at
    BY <1>1, <2>1 DEF At, OnWalk, SameCall, Frame
  <2>3. stack' = <<f>> \o Tail(stack) \/ stack' = <<g>> \o Tail(stack)
    BY <1>1, <1>2 DEF Goto, Walk, At, OnWalk
  <2>. HIDE DEF f, g
  <2>4. WalkInStage(f, contexts') /\ WalkInStage(g, contexts')
    BY <1>1, <1>2, <2>2 DEF WalkInStage
  <2>. QED  BY <1>0, <1>1, <1>2, <2>2, <2>3, <2>4 DEF GoesOn, SameCall, StepKind
<1>. PICK k \in Nat : k = Stage + 1
  BY <1>1
<1>. DEFINE next == AtStage(stack[1], k)
<1>3. Stage <= Len(query) =>
        /\ next \in Frame /\ SameCall(next, stack[1]) /\ next.stage = Stage + 1
        /\ next.stage \in 1 .. Len(query) + 1
        /\ WalkInStage(next, contexts')
  <2>1. <<>> \in Seq(Nat) /\ "stage" \in Points
    BY DEF Points
  <2>2. next \in Frame /\ SameCall(next, stack[1]) /\ next.stage = k
        /\ next.at = "stage"
    BY <1>1, <2>1 DEF AtStage, SameCall, Frame
  <2>. HIDE DEF next
  <2>. QED  BY <1>1, <2>2 DEF WalkInStage
<1>4. GotoStage(Stage + 1) = <<next>> \o Tail(stack)
  BY <1>1 DEF GotoStage, AtStage
<1>. HIDE DEF next
<1>5. ASSUME Stage <= Len(query), stack' = GotoStage(Stage + 1), UNCHANGED <<events, misused>>
      PROVE  StepKind
  BY <1>0, <1>1, <1>3, <1>4, <1>5 DEF GoesOn, SameCall, StepKind
<1>6. ASSUME stack' = Tail(stack), UNCHANGED <<events, misused>>
      PROVE  StepKind
  BY <1>0, <1>1, <1>6 DEF Returns, Owner, StepKind
<1>7. <<>> \in Seq(Nat)
  OBVIOUS
<1>8. CASE ExecuteBegin
  BY <1>2, <1>7, <1>8 DEF ExecuteBegin
<1>9. CASE ExecuteRefuse \/ ExecuteEnd
  BY <1>6, <1>9 DEF ExecuteRefuse, ExecuteEnd, Refused, Answer, Return
<1>10. CASE ExecuteFilter
  BY <1>5, <1>10 DEF ExecuteFilter
<1>11. CASE ExecuteConfused
  <2>. DEFINE stage == query[Stage]
  <2>1. /\ contexts # <<>> /\ contexts[1].type # stage.type
        /\ stage.type \in {"aggregate", "correlate"} /\ Stage <= Len(query)
        /\ misused' = This
        /\ UNCHANGED <<setting, events, stack, engine, execution, output, sources>>
    BY <1>11 DEF ExecuteConfused, Confused, Stateful
  <2>2. PICK j \in 1 .. Len(query) : contexts[1].type = query[j].type
    BY <2>1 DEF Base, ContextOfStage
  <2>3. contexts[1].type \in {"aggregate", "correlate"}
    <3>1. contexts[1] \in Context
      BY <2>1, Returned DEF Base, Typed
    <3>. QED  BY <3>1 DEF Context
  <2>4. Stage \in DOMAIN query /\ j \in DOMAIN query
    BY <1>1, <2>1, QueryTyped DEF Base
  <2>5. OfTwoTypes
    BY <2>1, <2>2, <2>3, <2>4 DEF OfTwoTypes
  <2>. QED  BY <1>0, <1>1, <2>1, <2>5 DEF Stays, StepKind
<1>12. CASE ExecuteAggregate
  <2>1. Stage <= Len(query) /\ misused' = misused
    BY <1>12 DEF ExecuteAggregate
  <2>2. CASE stack' = GotoStage(Stage + 1) /\ events' = events
    BY <1>5, <2>1, <2>2
  <2>3. CASE EmitResult("LOG", GotoStage(Stage + 1))
    <3>1. MakesLog(next)
      BY <1>1, <1>3, <1>12, <2>1 DEF ExecuteAggregate, MakesLog, SameCall
    <3>2. \E g \in Frame : Calls(g, next)
      BY <1>0, <1>1, <1>3, <1>4, <2>1, <2>3, <3>1, ResultCalls DEF SameCall
    <3>. QED  BY <1>3, <2>1, <3>2 DEF StepKind
  <2>. QED  BY <1>12, <2>2, <2>3 DEF ExecuteAggregate
<1>13. CASE ExecuteCorrelate
  <2>. DEFINE stage == query[Stage]
  <2>1. Stage \in 1 .. Len(query) /\ Stateful(stage) /\ stage \in Stages
    BY <1>1, <1>13, QueryTyped DEF ExecuteCorrelate, Base, Stateful
  <2>2. Contexts(stage)[1].right_events \in Seq(Nat)
    BY <2>1, ContextsTyped DEF Context
  <2>3. \E todo \in Seq(Nat) : stack' = Walk("left", todo)
    BY <1>7, <1>13, <2>2 DEF ExecuteCorrelate
  <2>4. UNCHANGED <<query, events, misused>> /\ stage.type = "correlate"
    BY <1>13 DEF ExecuteCorrelate, setting
  <2>5. contexts' # <<>>
    <3>. DEFINE cs == Contexts(stage)
    <3>1. cs \in Seq(Context) /\ Len(cs) = 1
      BY <2>1, ContextsTyped
    <3>2. contexts' = WithLeft(cs, This) \/ contexts' = cs
      BY <1>13 DEF ExecuteCorrelate
    <3>. HIDE DEF cs
    <3>3. Len(WithLeft(cs, This)) = 1
      BY <1>1, <3>1, ContextChanged
    <3>. QED  BY <3>1, <3>2, <3>3
  <2>. QED  BY <1>1, <1>2, <2>1, <2>3, <2>4, <2>5
<1>17. stack[1].at \in {"left", "right"} =>
          Stage <= Len(query) /\ query[Stage].type = "correlate" /\ contexts # <<>>
  <2>1. 1 \in 1 .. Len(stack)
    BY <1>0, Returned DEF Base, Typed
  <2>. QED  BY <1>1, <2>1 DEF Base, CallsTyped, WalkInStage
<1>14. ASSUME NEW side \in {"left", "right"}, CorrelateMatch(side)
       PROVE  StepKind
  <2>. DEFINE todo == stack[1].todo
              f == OnWalk(stack[1], side, Tail(todo))
  <2>1. todo \in Seq(Nat) /\ todo # <<>>
    BY <1>1, <1>14 DEF CorrelateMatch, Frame
  <2>2. Tail(todo) \in Seq(Nat) /\ 0 \in Nat /\ side \in Points
    BY <2>1, Returned DEF Points
  <2>3. f \in Frame /\ SameCall(f, stack[1]) /\ f.stage = stack[1].stage
    BY <1>1, <2>2 DEF OnWalk, SameCall, Frame
  <2>4. EmitResult("CORRELATION", <<f>> \o Tail(stack)) /\ UNCHANGED <<misused, query, contexts>>
    BY <1>1, <1>14 DEF CorrelateMatch, Walk, OnWalk, setting
  <2>. HIDE DEF f
  <2>5. WalkInStage(f, contexts')
    <3>1. stack[1].at \in {"left", "right"}
      BY <1>1, <1>14 DEF CorrelateMatch, Running
    <3>. QED  BY <1>1, <1>17, <2>3, <2>4, <3>1 DEF WalkInStage
  <2>6. \E g \in Frame : Calls(g, f)
    BY <1>0, <1>1, <2>3, <2>4, <2>5, ResultCalls DEF SameCall
  <2>. QED  BY <2>3, <2>6 DEF StepKind
<1>15. CASE CorrelateRight
  <2>1. /\ Stage <= Len(query) /\ query[Stage].type = "correlate" /\ contexts # <<>>
    BY <1>1, <1>15, <1>17 DEF CorrelateRight, Running
  <2>2. contexts[1] \in Context /\ contexts[1].left_events \in Seq(Nat)
    BY <2>1, ContextFound DEF Context
  <2>3. UNCHANGED <<query, events, misused>>
    BY <1>15 DEF CorrelateRight, setting
  <2>4. CASE stack' = GotoStage(Stage + 1)
    BY <1>5, <2>1, <2>3, <2>4
  <2>5. CASE Right(This)
    <3>1. stack' = Walk("right", contexts[1].left_events)
      BY <1>15, <2>5 DEF CorrelateRight
    <3>2. contexts' # <<>>
      <4>1. contexts \in Seq(Context) /\ Len(contexts) = 1
        BY <2>1, ContextFound
      <4>2. contexts' = WithRight(contexts, This)
        BY <1>15, <2>5 DEF CorrelateRight
      <4>3. Len(contexts') = 1
        BY <1>1, <4>1, <4>2, ContextChanged
      <4>. QED  BY <4>3
    <3>. QED  BY <1>1, <1>2, <2>1, <2>2, <2>3, <3>1, <3>2
  <2>. QED  BY <1>15, <2>4, <2>5 DEF CorrelateRight
<1>16. CASE CorrelateDone
  BY <1>1, <1>5, <1>16, <1>17 DEF CorrelateDone, Running
<1>. QED
  BY <1>8, <1>9, <1>10, <1>11, <1>12, <1>13, <1>14, <1>15, <1>16

----------------------------------------------------------------------------
LEMMA Steps == Base /\ [Next]_vars => StepKind
<1>1. ASSUME Base, Next PROVE StepKind
  <2>1. ASSUME NEW m \in Matching, FileLine(m) \/ Packet(m) \/ CallerExecutes(m)
        PROVE  StepKind
    BY <1>1, <2>1, SourceBegins DEF StepKind
  <2>2. ASSUME NEW m \in Matching, NEW type \in {"LOG", "NETWORK"}, CallerEmits(type, m)
        PROVE  StepKind
    BY <1>1, <2>2, SourceBegins DEF StepKind
  <2>. QED  BY <1>1, <2>1, <2>2, EmitKinds, CheckKinds, ExecuteKinds DEF Next
<1>2. UNCHANGED vars => StepKind
  BY DEF vars, StepKind, Stays
<1>. QED  BY <1>1, <1>2

LEMMA SettingKept == [Next]_vars => UNCHANGED setting
  BY DEF Next, FileLine, Packet, CallerExecutes, CallerEmits, Source, CallerFrees, EmitDrop,
         EmitProcess, EmitHandle, HandlerPrint, EmitFree, CheckMatch, CheckAdd, ExecuteBegin,
         ExecuteRefuse, ExecuteEnd, ExecuteFilter, ExecuteConfused, ExecuteAggregate,
         ExecuteCorrelate, CorrelateRight, CorrelateDone, CorrelateMatch, vars

(* Only the end of a walk changes the buffers of the engine.               *)
LEMMA BuffersKept ==
    [Next]_vars => \/ UNCHANGED <<log_events, network_events>>
                   \/ CheckAdd
  BY DEF Next, FileLine, Packet, CallerExecutes, CallerEmits, Source, CallerFrees, EmitDrop,
         EmitProcess, EmitHandle, HandlerPrint, EmitFree, CheckMatch, ExecuteBegin,
         ExecuteRefuse, ExecuteEnd, ExecuteFilter, ExecuteConfused, ExecuteAggregate,
         ExecuteCorrelate, CorrelateRight, CorrelateDone, CorrelateMatch, vars,
         engine, execution

(* And only stages that keep a state the contexts.                         *)
LEMMA ContextsKept ==
    [Next]_vars => \/ UNCHANGED contexts
                   \/ ExecuteAggregate \/ ExecuteCorrelate \/ CorrelateRight
  BY DEF Next, FileLine, Packet, CallerExecutes, CallerEmits, Source, CallerFrees, EmitDrop,
         EmitProcess, EmitHandle, HandlerPrint, EmitFree, CheckMatch, CheckAdd, ExecuteBegin,
         ExecuteRefuse, ExecuteEnd, ExecuteFilter, ExecuteConfused, CorrelateDone,
         CorrelateMatch, vars, engine, execution

LEMMA BuffersTyped ==
    ASSUME Base, [Next]_vars
    PROVE  log_events' \in Seq(Nat) /\ network_events' \in Seq(Nat)
<1>1. log_events \in Seq(Nat) /\ network_events \in Seq(Nat)
  BY DEF Base, Typed
<1>2. CASE CheckAdd
  <2>1. This \in Nat
    BY <1>2, Innermost DEF CheckAdd, Running
  <2>2. <<This>> \o log_events \in Seq(Nat) /\ <<This>> \o network_events \in Seq(Nat)
    <3>1. <<This>> \in Seq(Nat)
      BY <2>1
    <3>. QED  BY <1>1, <3>1, ConcatProperties
  <2>. QED  BY <1>1, <1>2, <2>2 DEF CheckAdd, AddToBuffer
<1>. QED  BY <1>1, <1>2, BuffersKept

(* The stage that an execution is in.                                      *)
LEMMA StageTyped ==
    ASSUME Base, stack # <<>>, Stage <= Len(query)
    PROVE  /\ Stage \in 1 .. Len(query) /\ query[Stage] \in Stages
  BY Innermost, QueryTyped DEF Base

LEMMA ContextsStay ==
    ASSUME Base, [Next]_vars
    PROVE  /\ contexts' \in Seq(Context) /\ Len(contexts') <= 1
           /\ ContextOfStage'
           /\ contexts # <<>> => contexts' # <<>>
<1>0. contexts \in Seq(Context) /\ Len(contexts) <= 1 /\ ContextOfStage /\ query' = query
  BY SettingKept DEF Base, Typed, setting
<1>1. CASE UNCHANGED contexts
  BY <1>0, <1>1 DEF ContextOfStage
<1>2. ASSUME NEW cs \in Seq(Context), Len(cs) = 1, cs[1].type = query[Stage].type,
             Stage \in 1 .. Len(query), NEW e \in Nat,
             contexts' \in {cs, WithLeft(cs, e), WithRight(cs, e), WithBucket(cs, e)}
      PROVE  /\ contexts' \in Seq(Context) /\ Len(contexts') <= 1
             /\ ContextOfStage'
             /\ contexts' # <<>>
  <2>1. /\ contexts' \in Seq(Context) /\ Len(contexts') = 1 /\ contexts' # <<>>
        /\ contexts'[1].type = query[Stage].type
    <3>1. \A d \in {WithLeft(cs, e), WithRight(cs, e), WithBucket(cs, e)} :
              d \in Seq(Context) /\ Len(d) = 1 /\ d # <<>> /\ d[1].type = cs[1].type
      BY <1>2, ContextChanged
    <3>2. cs # <<>>
      <4>1. \A d \in Seq(Context) : Len(d) = 1 => d # <<>>
        OBVIOUS
      <4>2. Len(cs) = 1
        BY <1>2
      <4>. QED  BY <4>1, <4>2
    <3>3. CASE contexts' = cs
      BY <1>2, <3>2, <3>3
    <3>4. CASE contexts' \in {WithLeft(cs, e), WithRight(cs, e), WithBucket(cs, e)}
      BY <1>2, <3>1, <3>4
    <3>. QED  BY <1>2, <3>3, <3>4
  <2>. QED  BY <1>0, <1>2, <2>1 DEF ContextOfStage
<1>3. ASSUME stack # <<>>, Stage <= Len(query), Stateful(query[Stage]), ~Confused(query[Stage])
      PROVE  LET cs == Contexts(query[Stage])
             IN  /\ cs \in Seq(Context) /\ Len(cs) = 1 /\ cs[1].type = query[Stage].type
                 /\ Stage \in 1 .. Len(query) /\ This \in Nat
  BY <1>3, StageTyped, ContextsTyped, Innermost
<1>4. CASE ExecuteAggregate \/ ExecuteCorrelate
  <2>. DEFINE cs == Contexts(query[Stage])
  <2>1. stack # <<>> /\ Stage <= Len(query) /\ Stateful(query[Stage]) /\ ~Confused(query[Stage])
    BY <1>4 DEF ExecuteAggregate, ExecuteCorrelate, Running, Stateful
  <2>2. contexts' \in {cs, WithLeft(cs, This), WithBucket(cs, This)}
    BY <1>4 DEF ExecuteAggregate, ExecuteCorrelate, WithBucket
  <2>3. /\ cs \in Seq(Context) /\ Len(cs) = 1 /\ cs[1].type = query[Stage].type
        /\ Stage \in 1 .. Len(query) /\ This \in Nat
    BY <1>3, <2>1
  <2>. HIDE DEF cs
  <2>. QED  BY <1>2, <2>2, <2>3
<1>5. CASE CorrelateRight
  <2>1. CASE contexts' = contexts
    BY <1>1, <2>1
  <2>2. CASE contexts' = WithRight(contexts, This)
    <3>1. stack # <<>> /\ Head(stack).fn = "execute" /\ Head(stack).at = "left"
      BY <1>5 DEF CorrelateRight, Running
    <3>2. Head(stack) = stack[1] /\ This \in Nat /\ 1 \in 1 .. Len(stack)
      BY <3>1, Innermost, Returned DEF Base, Typed
    <3>3. contexts # <<>>
      BY <3>1, <3>2 DEF Base, CallsTyped, WalkInStage
    <3>4. Len(contexts) = 1
      BY <3>3, ContextFound
    <3>5. /\ contexts' \in Seq(Context) /\ Len(contexts') = 1
          /\ contexts'[1].type = contexts[1].type
      BY <1>0, <2>2, <3>2, <3>4, ContextChanged
    <3>. QED  BY <1>0, <3>3, <3>5 DEF ContextOfStage
  <2>. QED  BY <1>5, <2>1, <2>2 DEF CorrelateRight
<1>. QED  BY <1>1, <1>4, <1>5, ContextsKept

(* What an event is does not change; only whether it has been freed does.  *)
Kept(e) ==
    /\ events'[e].type = events[e].type /\ events'[e].input = events[e].input
    /\ events'[e].matches = events[e].matches /\ events'[e].emitted = events[e].emitted

LEMMA EventsAppended ==
    ASSUME Base, NEW r, NewEvent(r)
    PROVE  /\ events' \in Seq(EventRecord)
           /\ Len(events') = Len(events) + 1 /\ Len(events) \in Nat
           /\ events'[New] = r /\ New = Len(events) + 1
           /\ \A e \in 1 .. Len(events) : Kept(e) /\ events'[e].freed = events[e].freed
<1>1. events \in Seq(EventRecord) /\ r \in EventRecord /\ events' = Append(events, r)
  BY DEF Base, Typed, NewEvent
<1>2. /\ events' \in Seq(EventRecord) /\ Len(events') = Len(events) + 1 /\ Len(events) \in Nat
      /\ events'[Len(events) + 1] = r /\ \A e \in 1 .. Len(events) : events'[e] = events[e]
  BY <1>1, EventMade
<1>. QED  BY <1>2 DEF New, Kept

LEMMA EventsFree ==
    ASSUME Base, NEW e \in 1 .. Len(events), Free(e)
    PROVE  /\ events' \in Seq(EventRecord)
           /\ Len(events') = Len(events) /\ Len(events) \in Nat
           /\ \A x \in 1 .. Len(events) :
                 Kept(x) /\ (events'[x].freed <=> (x = e \/ events[x].freed))
<1>1. events \in Seq(EventRecord) /\ events' = [events EXCEPT ![e].freed = TRUE]
  BY DEF Base, Typed, Free
<1>. QED  BY <1>1, EventFreed DEF Kept

LEMMA EventsStep ==
    ASSUME Base, StepKind
    PROVE  /\ events' \in Seq(EventRecord) /\ misused' \in Nat
           /\ Len(events) \in Nat /\ Len(events') \in {Len(events), Len(events) + 1}
           /\ \A e \in 1 .. Len(events) : Kept(e)
<1>0. events \in Seq(EventRecord) /\ misused \in Nat /\ Len(events) \in Nat
  BY LenProperties DEF Base, Typed
<1>1. ASSUME UNCHANGED events
      PROVE  /\ events' \in Seq(EventRecord)
             /\ Len(events') = Len(events)
             /\ \A e \in 1 .. Len(events) : Kept(e)
  BY <1>0, <1>1 DEF Kept
<1>2. CASE Returns
  <2>1. CASE Owner(stack[1])
    <3>1. stack[1].event \in 1 .. Len(events) /\ Free(stack[1].event)
      BY <1>2, <2>1, Innermost DEF Returns
    <3>2. misused' \in Nat
      BY <1>0, <3>1 DEF Free
    <3>. QED  BY <1>0, <3>1, <3>2, EventsFree
  <2>. QED  BY <1>0, <1>1, <1>2, <2>1 DEF Returns
<1>3. CASE \E f \in Frame : GoesOn(f)
  BY <1>0, <1>1, <1>3 DEF GoesOn
<1>4. ASSUME NEW f \in Frame, NEW g \in Frame, Calls(g, f)
      PROVE  /\ events' \in Seq(EventRecord) /\ misused' \in Nat
             /\ Len(events') \in {Len(events), Len(events) + 1}
             /\ \A e \in 1 .. Len(events) : Kept(e)
  <2>1. misused' \in Nat
    BY <1>0, <1>4 DEF Calls
  <2>2. CASE UNCHANGED events
    BY <1>0, <1>1, <2>1, <2>2
  <2>3. CASE \E r \in EventRecord : NewEvent(r)
    BY <1>0, <2>1, <2>3, EventsAppended
  <2>4. EmitsResult(g, f) => \E r \in EventRecord : NewEvent(r)
    BY DEF EmitsResult
  <2>5. Checks(g, f) \/ Executes(g, f) => UNCHANGED events
    BY DEF Checks, Executes
  <2>. QED  BY <1>4, <2>2, <2>3, <2>4, <2>5 DEF Calls
<1>5. ASSUME NEW g \in Frame, Begins(g)
      PROVE  /\ events' \in Seq(EventRecord) /\ misused' \in Nat
             /\ Len(events') \in {Len(events), Len(events) + 1}
             /\ \A e \in 1 .. Len(events) : Kept(e)
  <2>1. misused' \in Nat
    BY <1>0, <1>5 DEF Begins
  <2>2. PICK r \in EventRecord : NewEvent(r)
    BY <1>5 DEF Begins
  <2>. QED  BY <1>0, <2>1, <2>2, EventsAppended
<1>6. CASE Stays
  <2>1. misused' \in Nat
    BY <1>0, <1>6, Innermost DEF Stays
  <2>. QED  BY <1>0, <1>1, <1>6, <2>1 DEF Stays
<1>. QED  BY <1>0, <1>2, <1>3, <1>4, <1>5, <1>6 DEF StepKind

(* The frames of the stack after a step, by the kind of the step.          *)
LEMMA StackReturns ==
    ASSUME Base, Returns
    PROVE  /\ stack' \in Seq(Frame) /\ Len(stack) \in Nat \ {0} /\ Len(stack') = Len(stack) - 1
           /\ \A i \in 1 .. Len(stack') : stack'[i] = stack[i + 1] /\ i + 1 \in 1 .. Len(stack)
<1>1. stack \in Seq(Frame) /\ stack # <<>> /\ stack' = Tail(stack)
  BY DEF Base, Typed, Returns
<1>. QED  BY <1>1, Returned

LEMMA StackGoesOn ==
    ASSUME Base, NEW f \in Frame, GoesOn(f)
    PROVE  /\ stack' \in Seq(Frame) /\ Len(stack) \in Nat \ {0} /\ Len(stack') = Len(stack)
           /\ stack'[1] = f /\ \A i \in 2 .. Len(stack) : stack'[i] = stack[i]
<1>1. stack \in Seq(Frame) /\ stack # <<>> /\ stack' = <<f>> \o Tail(stack)
  BY DEF Base, Typed, GoesOn
<1>. QED  BY <1>1, Returned, WentOn

LEMMA StackCalls ==
    ASSUME Base, NEW f \in Frame, NEW g \in Frame, Calls(g, f)
    PROVE  /\ stack' \in Seq(Frame) /\ Len(stack) \in Nat \ {0} /\ Len(stack') = Len(stack) + 1
           /\ stack'[1] = g /\ stack'[2] = f
           /\ \A i \in 3 .. Len(stack') : stack'[i] = stack[i - 1] /\ i - 1 \in 2 .. Len(stack)
<1>1. stack \in Seq(Frame) /\ stack # <<>> /\ stack' = <<g>> \o (<<f>> \o Tail(stack))
  BY DEF Base, Typed, Calls
<1>2. /\ stack' \in Seq(Frame) /\ Len(stack') = Len(stack) + 1
      /\ stack'[1] = g /\ stack'[2] = f /\ Len(stack) \in Nat \ {0}
      /\ \A i \in 2 .. Len(stack) : stack'[i + 1] = stack[i]
  BY <1>1, Returned, CalledFrom
<1>3. ASSUME NEW i \in 3 .. Len(stack')
      PROVE  stack'[i] = stack[i - 1] /\ i - 1 \in 2 .. Len(stack)
  <2>1. i - 1 \in 2 .. Len(stack) /\ (i - 1) + 1 = i
    BY <1>2
  <2>. QED  BY <1>2, <2>1
<1>. QED  BY <1>2, <1>3

LEMMA StackBegins ==
    ASSUME Base, NEW g \in Frame, Begins(g)
    PROVE  /\ stack' \in Seq(Frame) /\ Len(stack) = 0
           /\ Len(stack') \in {1, 2} /\ stack'[1] = g
           /\ Len(stack') = 2 => /\ stack'[2] \in Frame /\ stack'[2].fn = "caller"
                                 /\ stack'[2].event = New /\ stack'[2].stage = 1
<1>. DEFINE c == Call("caller", New, "free", <<>>)
<1>1. c \in Frame /\ c.fn = "caller" /\ c.event = New /\ c.stage = 1
  <2>1. New \in Nat /\ <<>> \in Seq(Nat) /\ "free" \in Points
    BY NewNat DEF Points
  <2>. QED  BY <2>1 DEF Call, Frame
<1>. HIDE DEF c
<1>2. stack = <<>> /\ (stack' = <<g>> \/ stack' = <<g, c>>)
  BY DEF Begins, c
<1>3. CASE stack' = <<g>>
  BY <1>2, <1>3
<1>4. CASE stack' = <<g, c>>
  BY <1>1, <1>2, <1>4
<1>. QED  BY <1>2, <1>3, <1>4

LEMMA BaseInit == Init => Base
<1>. SUFFICES ASSUME Init PROVE Base
  OBVIOUS
<1>1. <<>> \in Seq(Frame) /\ <<>> \in Seq(EventRecord) /\ <<>> \in Seq(Nat) /\ <<>> \in Seq(Context)
      /\ Len(<<>>) = 0
  BY EmptySeq
<1>2. Typed
  BY <1>1 DEF Init, Typed
<1>. QED  BY <1>1, <1>2 DEF Init, Base, CallsTyped, ContextOfStage

(* A call in hand is well typed.                                           *)
CallTyped(f) ==
    /\ f.event \in 1 .. Len(events)
    /\ f.stage \in 1 .. Len(query) + 1
    /\ f.fn = "check" /\ events[f.event].type = "CORRELATION" => f.todo = <<>>
    /\ WalkInStage(f, contexts)

(* The calls below the innermost one stay well typed.                      *)
LEMMA CallsKept ==
    ASSUME Base, [Next]_vars, NEW i \in 1 .. Len(stack)
    PROVE  LET f == stack[i]
           IN  /\ f.event \in 1 .. Len(events')
               /\ f.stage \in 1 .. Len(query') + 1
               /\ f.fn = "check" /\ events'[f.event].type = "CORRELATION" => f.todo = <<>>
               /\ WalkInStage(f, contexts')
<1>1. query' = query /\ (contexts # <<>> => contexts' # <<>>)
  BY SettingKept, ContextsStay DEF setting
<1>2. /\ Len(events) \in Nat /\ Len(events') \in {Len(events), Len(events) + 1}
      /\ \A e \in 1 .. Len(events) : Kept(e)
  BY Steps, EventsStep
<1>3. CallTyped(stack[i])
  BY DEF Base, CallsTyped, CallTyped
<1>. QED  BY <1>1, <1>2, <1>3 DEF CallTyped, WalkInStage, Kept

LEMMA BaseNext == Base /\ [Next]_vars => Base'
<1>. SUFFICES ASSUME Base, [Next]_vars PROVE Base'
  OBVIOUS
<1>0. query' = query /\ UNCHANGED handler
  BY SettingKept DEF setting
<1>1. /\ events' \in Seq(EventRecord) /\ misused' \in Nat
      /\ Len(events) \in Nat /\ Len(events') \in {Len(events), Len(events) + 1}
      /\ \A e \in 1 .. Len(events) : Kept(e)
  BY Steps, EventsStep
<1>2. Len(query) \in Nat /\ 1 \in 1 .. Len(query) + 1
  BY QueryTyped DEF Base
<1>. DEFINE Good(f) == /\ f.event \in 1 .. Len(events')
                       /\ f.stage \in 1 .. Len(query) + 1
                       /\ f.fn = "check" /\ events'[f.event].type = "CORRELATION" => f.todo = <<>>
                       /\ WalkInStage(f, contexts')
            AllGood == stack' \in Seq(Frame) /\ \A i \in 1 .. Len(stack') : Good(stack'[i])
<1>3. \A i \in 1 .. Len(stack) : Good(stack[i])
  BY <1>0, CallsKept
<1>. HIDE DEF Good
<1>4. ASSUME Returns PROVE AllGood
  BY <1>3, <1>4, StackReturns
<1>5. ASSUME NEW f \in Frame, GoesOn(f) PROVE AllGood
  <2>1. /\ stack' \in Seq(Frame) /\ Len(stack) \in Nat \ {0} /\ Len(stack') = Len(stack)
        /\ stack'[1] = f /\ \A i \in 2 .. Len(stack) : stack'[i] = stack[i]
    BY <1>5, StackGoesOn
  <2>2. Good(f)
    <3>1. /\ f.event = stack[1].event /\ f.fn \in {"emit", "execute"}
          /\ f.stage \in 1 .. Len(query) + 1 /\ WalkInStage(f, contexts')
      BY <1>5 DEF GoesOn, SameCall
    <3>2. Good(stack[1])
      BY <1>3, <2>1
    <3>. QED  BY <3>1, <3>2 DEF Good
  <2>. QED  BY <1>3, <2>1, <2>2
<1>6. ASSUME NEW f \in Frame, NEW g \in Frame, Calls(g, f) PROVE AllGood
  <2>1. /\ stack' \in Seq(Frame) /\ Len(stack) \in Nat \ {0} /\ Len(stack') = Len(stack) + 1
        /\ stack'[1] = g /\ stack'[2] = f
        /\ \A i \in 3 .. Len(stack') : stack'[i] = stack[i - 1] /\ i - 1 \in 2 .. Len(stack)
    BY <1>6, StackCalls
  <2>2. /\ SameCall(f, stack[1]) /\ f.stage \in 1 .. Len(query) + 1
        /\ WalkInStage(f, contexts') /\ g.stage = 1
        /\ Checks(g, f) \/ Executes(g, f) \/ EmitsResult(g, f)
    BY <1>6 DEF Calls
  <2>3. Good(stack[1]) /\ stack[1].event \in 1 .. Len(events)
    BY <1>3, <2>1 DEF Base, CallsTyped
  <2>4. Good(f)
    <3>1. f.fn = "check" => events'[f.event].type # "CORRELATION"
      <4>1. f.fn = "check" => events[f.event].type # "CORRELATION"
        BY <2>2 DEF Checks, Executes, EmitsResult
      <4>. QED  BY <1>1, <2>2, <2>3, <4>1 DEF SameCall, Kept
    <3>. QED  BY <2>2, <2>3, <3>1 DEF Good, SameCall
  <2>5. Good(g)
    <3>1. CASE Checks(g, f)
      BY <1>2, <2>2, <2>3, <3>1 DEF Checks, Good, SameCall, WalkInStage
    <3>2. CASE Executes(g, f)
      BY <1>2, <2>2, <2>3, <3>2 DEF Executes, Good, SameCall, WalkInStage
    <3>3. CASE EmitsResult(g, f)
      <4>1. g.event = New /\ g.fn = "emit" /\ \E r : NewEvent(r)
        BY <3>3 DEF EmitsResult
      <4>2. New \in 1 .. Len(events')
        BY <4>1, EventsAppended
      <4>. QED  BY <1>2, <2>2, <4>1, <4>2 DEF Good, WalkInStage
    <3>. QED  BY <2>2, <3>1, <3>2, <3>3
  <2>6. ASSUME NEW i \in 1 .. Len(stack') PROVE Good(stack'[i])
    <3>1. i = 1 \/ i = 2 \/ i \in 3 .. Len(stack')
      BY <2>1
    <3>2. i \in 3 .. Len(stack') => i - 1 \in 1 .. Len(stack)
      BY <2>1
    <3>. QED  BY <1>3, <2>1, <2>4, <2>5, <3>1, <3>2
  <2>. QED  BY <2>1, <2>6
<1>7. ASSUME NEW g \in Frame, Begins(g) PROVE AllGood
  <2>1. /\ stack' \in Seq(Frame) /\ Len(stack') \in {1, 2} /\ stack'[1] = g
        /\ Len(stack') = 2 => /\ stack'[2].fn = "caller"
                              /\ stack'[2].event = New /\ stack'[2].stage = 1
    BY <1>7, StackBegins
  <2>2. New \in 1 .. Len(events')
    BY <1>7, EventsAppended DEF Begins
  <2>3. Good(g)
    BY <1>2, <1>7, <2>2 DEF Begins, Good, WalkInStage
  <2>4. Len(stack') = 2 => Good(stack'[2])
    BY <1>2, <2>1, <2>2 DEF Good, WalkInStage
  <2>5. CASE Len(stack') = 1
    BY <2>1, <2>3, <2>5
  <2>6. CASE Len(stack') = 2
    <3>1. \A i \in 1 .. 2 : i = 1 \/ i = 2
      OBVIOUS
    <3>. QED  BY <2>1, <2>3, <2>4, <2>6, <3>1
  <2>. QED  BY <2>1, <2>5, <2>6
<1>8. ASSUME Stays PROVE AllGood
  BY <1>3, <1>8 DEF Stays, Base, Typed
<1>9. AllGood
  BY <1>4, <1>5, <1>6, <1>7, <1>8, Steps DEF StepKind
<1>10. Typed'
  BY <1>0, <1>1, <1>9, BuffersTyped, ContextsStay DEF Base, Typed
<1>11. CallsTyped'
  BY <1>0, <1>9 DEF Good, CallsTyped, WalkInStage
<1>. QED  BY <1>10, <1>11, ContextsStay DEF Base

----------------------------------------------------------------------------
(* How deep a call may be nested under the handlers of the command line:   *)
(* the events of sources are emitted first, then what a query makes of     *)
(* them, and last the correlations of either.                              *)
Level(e) ==
    CASE events[e].input # "none" -> 2
      [] events[e].input = "none" /\ events[e].type # "CORRELATION" -> 4
      [] OTHER -> 6
Depth(f) == CASE f.fn = "caller" -> 1
              [] f.fn = "emit" -> Level(f.event)
              [] OTHER -> Level(f.event) + 1

(* The query is executed on the events of sources only.                    *)
NestingInv ==
    handler \in CommandLineHandlers =>
        \A i \in 1 .. Len(stack) :
            /\ Len(stack) - i + 1 <= Depth(stack[i])
            /\ stack[i].fn = "execute" => events[stack[i].event].input # "none"

LEMMA NestingNext == Base /\ NestingInv /\ [Next]_vars => NestingInv'
<1>. SUFFICES ASSUME Base, NestingInv, [Next]_vars, handler \in CommandLineHandlers
              PROVE  NestingInv'
  BY SettingKept DEF NestingInv, setting
<1>. DEFINE Level1(e) == CASE events'[e].input # "none" -> 2
                           [] events'[e].input = "none" /\ events'[e].type # "CORRELATION" -> 4
                           [] OTHER -> 6
            Depth1(f) == CASE f.fn = "caller" -> 1
                           [] f.fn = "emit" -> Level1(f.event)
                           [] OTHER -> Level1(f.event) + 1
            Fits(f, n) == /\ n <= Depth1(f)
                          /\ f.fn = "execute" => events'[f.event].input # "none"
<1>1. SUFFICES \A i \in 1 .. Len(stack') : Fits(stack'[i], Len(stack') - i + 1)
  BY DEF NestingInv, Level, Depth
<1>2. \A i \in 1 .. Len(stack) :
          Fits(stack[i], Len(stack) - i + 1) /\ stack[i].event \in 1 .. Len(events)
  <2>. SUFFICES ASSUME NEW i \in 1 .. Len(stack)
                PROVE  Fits(stack[i], Len(stack) - i + 1) /\ stack[i].event \in 1 .. Len(events)
    OBVIOUS
  <2>1. stack[i].event \in 1 .. Len(events)
    BY DEF Base, CallsTyped
  <2>2. Kept(stack[i].event)
    BY <2>1, Steps, EventsStep
  <2>3. Depth1(stack[i]) = Depth(stack[i])
    BY <2>2 DEF Depth, Level, Kept
  <2>. QED  BY <2>1, <2>2, <2>3 DEF NestingInv, Kept
<1>3. \A f, g : SameCall(f, g) => Depth1(f) = Depth1(g)
  BY DEF SameCall
<1>4. \A e : Level1(e) \in {2, 4, 6}
  OBVIOUS
<1>. DEFINE AllFit == \A i \in 1 .. Len(stack') : Fits(stack'[i], Len(stack') - i + 1)
<1>5. ASSUME Returns PROVE AllFit
  <2>1. /\ Len(stack) \in Nat /\ Len(stack') = Len(stack) - 1
        /\ \A i \in 1 .. Len(stack') : stack'[i] = stack[i + 1] /\ i + 1 \in 1 .. Len(stack)
    BY <1>5, StackReturns
  <2>2. \A i \in 1 .. Len(stack') : Len(stack') - i + 1 = Len(stack) - (i + 1) + 1
    BY <2>1
  <2>. HIDE DEF Fits
  <2>. QED  BY <1>2, <2>1, <2>2
<1>6. ASSUME NEW f \in Frame, GoesOn(f) PROVE AllFit
  <2>1. /\ Len(stack) \in Nat \ {0} /\ Len(stack') = Len(stack)
        /\ stack'[1] = f /\ \A i \in 2 .. Len(stack) : stack'[i] = stack[i]
    BY <1>6, StackGoesOn
  <2>2. SameCall(f, stack[1]) /\ Fits(stack[1], Len(stack))
    BY <1>2, <1>6, <2>1 DEF GoesOn
  <2>3. Fits(f, Len(stack))
    BY <1>3, <2>2 DEF SameCall
  <2>. HIDE DEF Fits
  <2>. QED  BY <1>2, <2>1, <2>3
<1>7. ASSUME NEW f \in Frame, NEW g \in Frame, Calls(g, f) PROVE AllFit
  <2>1. /\ Len(stack) \in Nat \ {0} /\ Len(stack') = Len(stack) + 1
        /\ stack'[1] = g /\ stack'[2] = f
        /\ \A i \in 3 .. Len(stack') : stack'[i] = stack[i - 1] /\ i - 1 \in 2 .. Len(stack)
    BY <1>7, StackCalls
  <2>2. SameCall(f, stack[1]) /\ Fits(stack[1], Len(stack)) /\ stack[1].event \in 1 .. Len(events)
    BY <1>2, <1>7, <2>1 DEF Calls
  <2>3. Fits(f, Len(stack))
    BY <1>3, <2>2 DEF SameCall
  <2>4. Fits(g, Len(stack) + 1)
    <3>1. CASE Checks(g, f)
      BY <1>4, <2>1, <2>3, <3>1 DEF Checks
    <3>2. CASE Executes(g, f)
      <4>1. events'[g.event].input # "none"
        <5>1. events[g.event].input # "none" /\ events' = events
          BY <3>2 DEF Executes, RunsQuery, CommandLineHandlers
        <5>. QED  BY <5>1
      <4>. QED  BY <1>4, <2>1, <2>3, <3>2, <4>1 DEF Executes
    <3>3. CASE EmitsResult(g, f)
      <4>1. PICK r \in EventRecord : /\ NewEvent(r) /\ r.input = "none"
                                     /\ r.type # "CORRELATION" => MakesLog(f)
        BY <3>3 DEF EmitsResult
      <4>2. /\ g.fn = "emit" /\ g.event = New /\ f.fn \in {"check", "execute"}
            /\ f.fn = "check" => events[f.event].type # "CORRELATION"
            /\ f.fn = "check" => r.type = "CORRELATION"
        <5>1. f.fn # "emit"
          BY <3>3 DEF EmitsResult, CommandLineHandlers
        <5>2. f.fn \in {"check", "execute"}
          BY <3>3, <5>1 DEF EmitsResult, Frame
        <5>. QED  BY <3>3, <4>1, <5>2 DEF EmitsResult, MakesLog
      <4>3. events'[New] = r
        BY <4>1, EventsAppended
      <4>4. Depth1(g) \in {4, 6} /\ (r.type = "CORRELATION" => Depth1(g) = 6)
        BY <4>1, <4>2, <4>3
      <4>5. f.fn = "check" => Depth1(f) <= 5
        <5>1. f.fn = "check" => events'[f.event].type # "CORRELATION"
          BY <2>2, <4>2, Steps, EventsStep DEF SameCall, Kept
        <5>. QED  BY <5>1
      <4>6. f.fn = "execute" => Depth1(f) = 3
        BY <2>3
      <4>. QED  BY <2>1, <2>3, <4>2, <4>4, <4>5, <4>6
    <3>. QED  BY <1>7, <3>1, <3>2, <3>3 DEF Calls
  <2>5. ASSUME NEW i \in 1 .. Len(stack') PROVE Fits(stack'[i], Len(stack') - i + 1)
    <3>. HIDE DEF Fits
    <3>1. CASE i = 1
      BY <2>1, <2>4, <3>1
    <3>2. CASE i = 2
      <4>1. Len(stack') - 2 + 1 = Len(stack)
        BY <2>1
      <4>. QED  BY <2>1, <2>3, <3>2, <4>1
    <3>3. CASE i \in 3 .. Len(stack')
      <4>1. Len(stack') - i + 1 = Len(stack) - (i - 1) + 1 /\ i - 1 \in 1 .. Len(stack)
        BY <2>1, <3>3
      <4>. QED  BY <1>2, <2>1, <3>3, <4>1
    <3>4. i = 1 \/ i = 2 \/ i \in 3 .. Len(stack')
      BY <2>1
    <3>. QED  BY <3>1, <3>2, <3>3, <3>4
  <2>. QED  BY <2>5
<1>8. ASSUME NEW g \in Frame, Begins(g) PROVE AllFit
  <2>1. /\ Len(stack') \in {1, 2} /\ stack'[1] = g
        /\ Len(stack') = 2 => stack'[2].fn = "caller"
    BY <1>8, StackBegins
  <2>2. g.event = New /\ \E r : NewEvent(r) /\ r.input # "none"
    BY <1>8 DEF Begins
  <2>3. events'[g.event].input # "none"
    BY <2>2, EventsAppended
  <2>4. Fits(g, 1) /\ Fits(g, 2)
    <3>1. Level1(g.event) = 2
      BY <2>3
    <3>2. Depth1(g) \in {2, 3}
      BY <1>8, <3>1 DEF Begins
    <3>. QED  BY <2>3, <3>2
  <2>5. Len(stack') = 2 => Fits(stack'[2], 1)
    BY <2>1
  <2>. HIDE DEF Fits
  <2>6. CASE Len(stack') = 1
    BY <2>1, <2>4, <2>6
  <2>7. CASE Len(stack') = 2
    <3>1. \A i \in 1 .. 2 : (i = 1 /\ 2 - i + 1 = 2) \/ (i = 2 /\ 2 - i + 1 = 1)
      OBVIOUS
    <3>. QED  BY <2>1, <2>4, <2>5, <2>7, <3>1
  <2>. QED  BY <2>1, <2>6, <2>7
<1>9. ASSUME Stays PROVE AllFit
  BY <1>2, <1>9 DEF Stays
<1>. QED  BY <1>5, <1>6, <1>7, <1>8, <1>9, Steps DEF StepKind

(* Under the handlers of the command line calls never nest more than seven *)
(* deep, for every query, filter and number of events: emissions, walks    *)
(* and queries end, whatever they make of their results.                   *)
THEOREM NestingIsBounded == Spec => []NestingBounded
<1>1. Init => Base /\ NestingInv
  BY BaseInit, EmptySeq DEF Init, NestingInv
<1>2. Base /\ NestingInv => NestingBounded
  <2>. SUFFICES ASSUME Base, NestingInv, handler \in CommandLineHandlers PROVE Len(stack) <= 7
    BY DEF NestingBounded
  <2>1. Len(stack) \in Nat
    BY LenProperties DEF Base, Typed
  <2>2. Len(stack) # 0 => Len(stack) - 1 + 1 <= Depth(stack[1])
    BY <2>1 DEF NestingInv
  <2>3. Depth(stack[1]) \in 1 .. 7
    BY DEF Depth, Level
  <2>. QED  BY <2>1, <2>2, <2>3
<1>. QED  BY <1>1, <1>2, BaseNext, NestingNext, PTL DEF Spec

----------------------------------------------------------------------------
(* Of two calls for one event, neither is of the function of the other,    *)
(* and both free it only if it is a packet; a call that does not free its  *)
(* event was made by one that does.                                        *)
CallsApart ==
    \A i, j \in 1 .. Len(stack) :
        i # j /\ stack[i].event = stack[j].event =>
            /\ stack[i].fn # stack[j].fn
            /\ Owner(stack[i]) /\ Owner(stack[j]) => events[stack[i].event].input = "pcap"

OwnerBelow ==
    \A i \in 1 .. Len(stack) :
        ~Owner(stack[i]) =>
            /\ i < Len(stack) /\ Owner(stack[i + 1]) /\ stack[i + 1].event = stack[i].event
            /\ stack[i + 1].fn = "caller" => events[stack[i].event].input # "pcap"

Alive ==
    \A i \in 1 .. Len(stack) :
        events[stack[i].event].input # "pcap" => ~events[stack[i].event].freed

AllOwned ==
    \A e \in 1 .. Len(events) :
        events[e].freed \/ \E i \in 1 .. Len(stack) : Owner(stack[i]) /\ stack[i].event = e

MisuseKnown ==
    misused # 0 => /\ misused \in 1 .. Len(events)
                   /\ events[misused].input = "pcap" \/ OfTwoTypes

Nested == CallsApart /\ OwnerBelow
OwnedInv == Nested /\ Alive /\ AllOwned /\ MisuseKnown

(* Two calls for the event of the innermost one.                           *)
LEMMA OwnerAlone ==
    ASSUME Base, Nested, stack # <<>>, Owner(stack[1]),
           events[stack[1].event].input # "pcap", NEW i \in 2 .. Len(stack)
    PROVE  stack[i].event # stack[1].event
<1>. SUFFICES ASSUME stack[i].event = stack[1].event PROVE FALSE
  OBVIOUS
<1>1. Len(stack) \in Nat /\ 1 \in 1 .. Len(stack) /\ i \in 1 .. Len(stack) /\ i # 1
  BY LenProperties DEF Base, Typed
<1>2. ~Owner(stack[i])
  BY <1>1 DEF Nested, CallsApart
<1>3. /\ i + 1 \in 1 .. Len(stack) /\ i + 1 # 1
      /\ Owner(stack[i + 1]) /\ stack[i + 1].event = stack[1].event
  BY <1>1, <1>2 DEF Nested, OwnerBelow
<1>. QED  BY <1>1, <1>3 DEF Nested, CallsApart

LEMMA OwnedInit == Init => OwnedInv
  BY EmptySeq DEF Init, OwnedInv, Nested, CallsApart, OwnerBelow, Alive, AllOwned, MisuseKnown

LEMMA NestedReturns ==
    ASSUME Base, Nested, Returns, \A e \in 1 .. Len(events) : Kept(e)
    PROVE  Nested'
<1>1. /\ Len(stack) \in Nat \ {0} /\ Len(stack') = Len(stack) - 1
      /\ \A i \in 1 .. Len(stack') : stack'[i] = stack[i + 1] /\ i + 1 \in 1 .. Len(stack)
  BY StackReturns
<1>2. \A i \in 1 .. Len(stack) : stack[i].event \in 1 .. Len(events)
  BY DEF Base, CallsTyped
<1>3. ASSUME NEW i \in 1 .. Len(stack'), NEW j \in 1 .. Len(stack'),
             i # j, stack'[i].event = stack'[j].event
      PROVE  /\ stack'[i].fn # stack'[j].fn
             /\ Owner(stack'[i]) /\ Owner(stack'[j]) => events'[stack'[i].event].input = "pcap"
  <2>1. /\ i + 1 # j + 1 /\ i + 1 \in 1 .. Len(stack) /\ j + 1 \in 1 .. Len(stack)
        /\ stack'[i] = stack[i + 1] /\ stack'[j] = stack[j + 1]
    BY <1>1, <1>3
  <2>2. Kept(stack[i + 1].event)
    BY <1>2, <2>1
  <2>. QED  BY <1>3, <2>1, <2>2 DEF Nested, CallsApart, Kept
<1>4. ASSUME NEW i \in 1 .. Len(stack'), ~Owner(stack'[i])
      PROVE  /\ i < Len(stack') /\ Owner(stack'[i + 1]) /\ stack'[i + 1].event = stack'[i].event
             /\ stack'[i + 1].fn = "caller" => events'[stack'[i].event].input # "pcap"
  <2>. PICK k \in Int : k = i + 1
    OBVIOUS
  <2>1. k \in 1 .. Len(stack) /\ stack'[i] = stack[k] /\ Kept(stack[k].event)
    BY <1>1, <1>2
  <2>2. /\ k < Len(stack) /\ Owner(stack[k + 1]) /\ stack[k + 1].event = stack[k].event
        /\ stack[k + 1].fn = "caller" => events[stack[k].event].input # "pcap"
    BY <1>4, <2>1 DEF Nested, OwnerBelow
  <2>3. i < Len(stack') /\ k \in 1 .. Len(stack') /\ stack'[k] = stack[k + 1]
    BY <1>1, <2>1, <2>2
  <2>. QED  BY <2>1, <2>2, <2>3 DEF Kept
<1>. QED  BY <1>3, <1>4 DEF Nested, CallsApart, OwnerBelow, Owner

LEMMA OwnedReturns ==
    ASSUME Base, OwnedInv, Returns, Base', UNCHANGED setting
    PROVE  OwnedInv'
<1>1. /\ Len(stack) \in Nat \ {0} /\ Len(stack') = Len(stack) - 1
      /\ \A i \in 1 .. Len(stack') : /\ stack'[i] = stack[i + 1] /\ i + 1 \in 2 .. Len(stack)
                                     /\ i + 1 \in 1 .. Len(stack)
      /\ stack # <<>> /\ 1 \in 1 .. Len(stack)
  BY StackReturns DEF Returns
<1>2. \A i \in 1 .. Len(stack) : stack[i].event \in 1 .. Len(events)
  BY DEF Base, CallsTyped
<1>3. CASE Owner(stack[1])
  <2>. DEFINE e == stack[1].event
  <2>1. e \in 1 .. Len(events) /\ Free(e)
    BY <1>1, <1>2, <1>3 DEF Returns
  <2>2. /\ Len(events') = Len(events)
        /\ \A x \in 1 .. Len(events) :
              Kept(x) /\ (events'[x].freed <=> (x = e \/ events[x].freed))
    BY <2>1, EventsFree
  <2>3. Nested'
    BY <1>2, <2>2, NestedReturns DEF OwnedInv
  <2>4. Alive'
    <3>. SUFFICES ASSUME NEW i \in 1 .. Len(stack'), events'[stack'[i].event].input # "pcap"
                  PROVE  ~events'[stack'[i].event].freed
      BY DEF Alive
    <3>1. /\ stack'[i] = stack[i + 1] /\ i + 1 \in 2 .. Len(stack) /\ i + 1 \in 1 .. Len(stack)
      BY <1>1
    <3>2. /\ events[stack[i + 1].event].input # "pcap" /\ ~events[stack[i + 1].event].freed
          /\ stack[i + 1].event \in 1 .. Len(events)
      BY <1>2, <2>2, <3>1 DEF Kept, OwnedInv, Alive
    <3>3. e # stack[i + 1].event
      BY <1>1, <1>3, <3>1, <3>2, OwnerAlone DEF OwnedInv
    <3>. QED  BY <2>2, <3>1, <3>2, <3>3
  <2>5. AllOwned'
    <3>. SUFFICES ASSUME NEW x \in 1 .. Len(events'), ~events'[x].freed
                  PROVE  \E i \in 1 .. Len(stack') : Owner(stack'[i]) /\ stack'[i].event = x
      BY DEF AllOwned, Owner
    <3>1. x \in 1 .. Len(events) /\ ~events[x].freed /\ x # e
      BY <2>2
    <3>2. PICK j \in 1 .. Len(stack) : Owner(stack[j]) /\ stack[j].event = x
      BY <3>1 DEF OwnedInv, AllOwned
    <3>3. j # 1
      BY <3>1, <3>2
    <3>. PICK i \in Int : i = j - 1
      OBVIOUS
    <3>4. i \in 1 .. Len(stack') /\ i + 1 = j
      BY <1>1, <3>3
    <3>. QED  BY <1>1, <3>2, <3>4
  <2>6. MisuseKnown'
    <3>1. CASE events[e].freed
      <4>1. events[e].input = "pcap"
        BY <1>1, <3>1 DEF OwnedInv, Alive
      <4>2. misused' = e
        BY <2>1, <3>1 DEF Free
      <4>. QED  BY <2>1, <2>2, <4>1, <4>2 DEF MisuseKnown, Kept
    <3>2. CASE ~events[e].freed
      BY <2>1, <3>2 DEF Free, MisuseKnown
    <3>. QED  BY <3>1, <3>2
  <2>. QED  BY <2>3, <2>4, <2>5, <2>6 DEF OwnedInv
<1>4. CASE ~Owner(stack[1])
  <2>1. UNCHANGED <<events, misused>>
    BY <1>4 DEF Returns
  <2>2. Nested' /\ Alive'
    BY <1>1, <1>2, <2>1, NestedReturns DEF OwnedInv, Alive, Kept
  <2>3. AllOwned'
    <3>. SUFFICES ASSUME NEW x \in 1 .. Len(events), ~events[x].freed
                  PROVE  \E i \in 1 .. Len(stack') : Owner(stack'[i]) /\ stack'[i].event = x
      BY <2>1 DEF AllOwned, Owner
    <3>2. PICK j \in 1 .. Len(stack) : Owner(stack[j]) /\ stack[j].event = x
      BY DEF OwnedInv, AllOwned
    <3>3. j # 1
      BY <1>4, <3>2
    <3>. PICK i \in Int : i = j - 1
      OBVIOUS
    <3>4. i \in 1 .. Len(stack') /\ i + 1 = j
      BY <1>1, <3>3
    <3>. QED  BY <1>1, <3>2, <3>4
  <2>4. MisuseKnown'
    BY <2>1 DEF OwnedInv, MisuseKnown, OfTwoTypes, setting
  <2>. QED  BY <2>2, <2>3, <2>4 DEF OwnedInv
<1>. QED  BY <1>3, <1>4

(* The same calls, of the same events, at other points.                    *)
LEMMA OwnedSame ==
    ASSUME OwnedInv, Len(stack') = Len(stack),
           \A i \in 1 .. Len(stack) : SameCall(stack'[i], stack[i]),
           UNCHANGED events, MisuseKnown'
    PROVE  OwnedInv'
<1>1. CallsApart'
  <2>. SUFFICES ASSUME NEW i \in 1 .. Len(stack), NEW j \in 1 .. Len(stack),
                       i # j, stack'[i].event = stack'[j].event
                PROVE  /\ stack'[i].fn # stack'[j].fn
                       /\ Owner(stack'[i]) /\ Owner(stack'[j])
                             => events[stack'[i].event].input = "pcap"
    BY DEF CallsApart, Owner
  <2>1. SameCall(stack'[i], stack[i]) /\ SameCall(stack'[j], stack[j])
    OBVIOUS
  <2>. QED  BY <2>1 DEF OwnedInv, Nested, CallsApart, SameCall, Owner
<1>2. OwnerBelow'
  <2>. SUFFICES ASSUME NEW i \in 1 .. Len(stack), ~Owner(stack'[i])
                PROVE  /\ i < Len(stack) /\ Owner(stack'[i + 1])
                       /\ stack'[i + 1].event = stack'[i].event
                       /\ stack'[i + 1].fn = "caller" => events[stack'[i].event].input # "pcap"
    BY DEF OwnerBelow, Owner
  <2>1. SameCall(stack'[i], stack[i]) /\ ~Owner(stack[i])
    BY DEF SameCall, Owner
  <2>2. /\ i < Len(stack) /\ Owner(stack[i + 1]) /\ stack[i + 1].event = stack[i].event
        /\ stack[i + 1].fn = "caller" => events[stack[i].event].input # "pcap"
    BY <2>1 DEF OwnedInv, Nested, OwnerBelow
  <2>. PICK k \in Int : k = i + 1
    OBVIOUS
  <2>3. SameCall(stack'[k], stack[k])
    BY <2>2
  <2>. QED  BY <2>1, <2>2, <2>3 DEF SameCall, Owner
<1>3. Alive' /\ AllOwned'
  BY DEF OwnedInv, Alive, AllOwned, SameCall, Owner
<1>. QED  BY <1>1, <1>2, <1>3 DEF OwnedInv, Nested

LEMMA OwnedGoesOn ==
    ASSUME Base, OwnedInv, NEW f \in Frame, GoesOn(f), UNCHANGED setting
    PROVE  OwnedInv'
<1>1. /\ Len(stack) \in Nat \ {0} /\ Len(stack') = Len(stack)
      /\ stack'[1] = f /\ \A i \in 2 .. Len(stack) : stack'[i] = stack[i]
  BY StackGoesOn
<1>2. SameCall(f, stack[1]) /\ UNCHANGED <<events, misused>>
  BY DEF GoesOn
<1>3. \A i \in 1 .. Len(stack) : SameCall(stack'[i], stack[i])
  <2>. SUFFICES ASSUME NEW i \in 1 .. Len(stack) PROVE SameCall(stack'[i], stack[i])
    OBVIOUS
  <2>1. i = 1 \/ i \in 2 .. Len(stack)
    BY <1>1
  <2>. QED  BY <1>1, <1>2, <2>1 DEF SameCall
<1>4. MisuseKnown'
  BY <1>2 DEF OwnedInv, MisuseKnown, OfTwoTypes, setting
<1>. QED  BY <1>1, <1>2, <1>3, <1>4, OwnedSame

LEMMA OwnedStays ==
    ASSUME Base, OwnedInv, Stays, UNCHANGED setting
    PROVE  OwnedInv'
<1>1. UNCHANGED <<stack, events>>
  BY DEF Stays
<1>2. \A i \in 1 .. Len(stack) : SameCall(stack'[i], stack[i])
  BY <1>1 DEF SameCall
<1>3. MisuseKnown'
  <2>1. CASE misused' = misused
    BY <1>1, <2>1 DEF OwnedInv, MisuseKnown, OfTwoTypes, setting
  <2>2. CASE stack # <<>> /\ misused' = stack[1].event /\ OfTwoTypes
    <3>1. stack[1].event \in 1 .. Len(events)
      BY <2>2, Innermost
    <3>. QED  BY <1>1, <2>2, <3>1 DEF MisuseKnown, OfTwoTypes, setting
  <2>. QED  BY <2>1, <2>2 DEF Stays
<1>. QED  BY <1>1, <1>2, <1>3, OwnedSame

LEMMA OwnedCalls ==
    ASSUME Base, OwnedInv, NEW f \in Frame, NEW g \in Frame, Calls(g, f), UNCHANGED setting
    PROVE  OwnedInv'
<1>1. /\ Len(stack) \in Nat \ {0} /\ Len(stack') = Len(stack) + 1
      /\ stack'[1] = g /\ stack'[2] = f /\ SameCall(f, stack[1])
      /\ \A i \in 3 .. Len(stack') : stack'[i] = stack[i - 1] /\ i - 1 \in 2 .. Len(stack)
  BY StackCalls DEF Calls
<1>2. ASSUME NEW i \in 2 .. Len(stack')
      PROVE  i - 1 \in 1 .. Len(stack) /\ SameCall(stack'[i], stack[i - 1])
  <2>1. i = 2 \/ i \in 3 .. Len(stack')
    BY <1>1
  <2>2. i \in 3 .. Len(stack') => i - 1 \in 1 .. Len(stack) /\ SameCall(stack'[i], stack[i - 1])
    BY <1>1 DEF SameCall
  <2>3. i = 2 => i - 1 = 1 /\ 1 \in 1 .. Len(stack)
    BY <1>1
  <2>. QED  BY <1>1, <2>1, <2>2, <2>3
<1>3. \A i \in 1 .. Len(stack) : stack[i].event \in 1 .. Len(events)
  BY DEF Base, CallsTyped
<1>4. Len(events) \in Nat /\ misused' = misused
  BY LenProperties DEF Base, Typed, Calls
<1>. DEFINE Inner == /\ g.fn \in {"check", "execute"} /\ g.event = stack[1].event
                     /\ stack[1].fn = "emit" /\ events' = events
            Result == /\ g.fn = "emit" /\ g.event = Len(events) + 1
                      /\ Len(events') = Len(events) + 1
                      /\ events'[g.event].input = "none" /\ ~events'[g.event].freed
                      /\ \A e \in 1 .. Len(events) : Kept(e) /\ events'[e].freed = events[e].freed
<1>5. Inner \/ Result
  <2>1. CASE Checks(g, f) \/ Executes(g, f)
    BY <1>1, <2>1 DEF Checks, Executes, SameCall
  <2>2. CASE EmitsResult(g, f)
    <3>1. PICK r \in EventRecord : NewEvent(r) /\ r.input = "none"
      BY <2>2 DEF EmitsResult
    <3>2. ~r.freed /\ g.fn = "emit" /\ g.event = New
      BY <2>2, <3>1 DEF NewEvent, EmitsResult
    <3>3. events'[New] = r /\ New = Len(events) + 1 /\ Len(events') = Len(events) + 1
          /\ \A e \in 1 .. Len(events) : Kept(e) /\ events'[e].freed = events[e].freed
      BY <3>1, EventsAppended
    <3>. QED  BY <3>1, <3>2, <3>3
  <2>. QED  BY <2>1, <2>2 DEF Calls
<1>6. /\ Len(events') \in {Len(events), Len(events) + 1}
      /\ \A e \in 1 .. Len(events) : Kept(e) /\ events'[e].freed = events[e].freed
  BY <1>4, <1>5 DEF Kept
<1>7. ASSUME NEW i \in 2 .. Len(stack'), stack'[i].event = g.event
      PROVE  stack'[i].fn # g.fn /\ ~(Owner(stack'[i]) /\ Owner(g))
  <2>1. SameCall(stack'[i], stack[i - 1]) /\ i - 1 \in 1 .. Len(stack)
    BY <1>2
  <2>2. ~Result
    BY <1>3, <1>4, <1>7, <2>1 DEF SameCall
  <2>3. Inner
    BY <1>5, <2>2
  <2>4. ~Owner(g)
    BY <2>3 DEF Owner
  <2>. PICK k \in Int : k = i - 1
    BY <2>1
  <2>5. ASSUME stack[k].fn = g.fn PROVE FALSE
    <3>1. k # 1 /\ ~Owner(stack[k]) /\ k \in 1 .. Len(stack)
      BY <2>1, <2>3, <2>5 DEF Owner
    <3>2. /\ k < Len(stack) /\ Owner(stack[k + 1]) /\ stack[k + 1].event = stack[k].event
          /\ stack[k + 1].fn = "caller" => events[stack[k].event].input # "pcap"
      BY <3>1 DEF OwnedInv, Nested, OwnerBelow
    <3>. PICK m \in Int : m = k + 1
      BY <3>1
    <3>3. m \in 1 .. Len(stack) /\ m # 1 /\ 1 \in 1 .. Len(stack)
      BY <1>1, <3>1, <3>2
    <3>4. stack[m].event = stack[1].event
      BY <1>7, <2>1, <2>3, <3>2 DEF SameCall
    <3>5. stack[m].fn # stack[1].fn /\ events[stack[1].event].input = "pcap"
      BY <2>3, <3>2, <3>3, <3>4 DEF OwnedInv, Nested, CallsApart, Owner
    <3>. QED  BY <2>3, <3>2, <3>4, <3>5 DEF Owner
  <2>. QED  BY <2>1, <2>4, <2>5 DEF SameCall
<1>8. CallsApart'
  <2>. SUFFICES ASSUME NEW i \in 1 .. Len(stack'), NEW j \in 1 .. Len(stack'),
                       i # j, stack'[i].event = stack'[j].event
                PROVE  /\ stack'[i].fn # stack'[j].fn
                       /\ Owner(stack'[i]) /\ Owner(stack'[j])
                             => events'[stack'[i].event].input = "pcap"
    BY DEF CallsApart, Owner
  <2>1. CASE i = 1 \/ j = 1
    <3>1. i = 1 => j \in 2 .. Len(stack')
      OBVIOUS
    <3>2. j = 1 => i \in 2 .. Len(stack')
      OBVIOUS
    <3>. QED  BY <1>1, <1>7, <2>1, <3>1, <3>2
  <2>2. CASE i # 1 /\ j # 1
    <3>0. i \in 2 .. Len(stack') /\ j \in 2 .. Len(stack')
      BY <2>2
    <3>1. /\ i - 1 \in 1 .. Len(stack) /\ SameCall(stack'[i], stack[i - 1])
          /\ j - 1 \in 1 .. Len(stack) /\ SameCall(stack'[j], stack[j - 1])
      BY <1>2, <3>0
    <3>2. i - 1 # j - 1
      OBVIOUS
    <3>3. /\ stack[i - 1].fn # stack[j - 1].fn
          /\ Owner(stack[i - 1]) /\ Owner(stack[j - 1])
                => events[stack[i - 1].event].input = "pcap"
      BY <3>1, <3>2 DEF OwnedInv, Nested, CallsApart, SameCall
    <3>4. Kept(stack[i - 1].event)
      BY <1>3, <1>6, <3>1
    <3>. QED  BY <3>1, <3>3, <3>4 DEF SameCall, Owner, Kept
  <2>. QED  BY <2>1, <2>2
<1>9. OwnerBelow'
  <2>. SUFFICES ASSUME NEW i \in 1 .. Len(stack'), ~Owner(stack'[i])
                PROVE  /\ i < Len(stack') /\ Owner(stack'[i + 1])
                       /\ stack'[i + 1].event = stack'[i].event
                       /\ stack'[i + 1].fn = "caller" => events'[stack'[i].event].input # "pcap"
    BY DEF OwnerBelow, Owner
  <2>1. CASE i = 1
    <3>1. Inner
      BY <1>1, <1>5, <2>1 DEF Owner
    <3>2. stack'[2].fn = "emit" /\ stack'[2].event = g.event /\ 1 < Len(stack')
      BY <1>1, <3>1 DEF SameCall
    <3>. QED  BY <1>1, <2>1, <3>2 DEF Owner
  <2>2. CASE i # 1
    <3>1. i \in 2 .. Len(stack') /\ i - 1 \in 1 .. Len(stack) /\ SameCall(stack'[i], stack[i - 1])
      BY <1>2, <2>2
    <3>. PICK k \in Int : k = i - 1
      OBVIOUS
    <3>2. /\ k < Len(stack) /\ Owner(stack[k + 1]) /\ stack[k + 1].event = stack[k].event
          /\ stack[k + 1].fn = "caller" => events[stack[k].event].input # "pcap"
      BY <3>1 DEF OwnedInv, Nested, OwnerBelow, SameCall, Owner
    <3>3. i < Len(stack') /\ k + 1 = i /\ i + 1 \in 2 .. Len(stack') /\ (i + 1) - 1 = i
      BY <1>1, <3>1, <3>2
    <3>4. SameCall(stack'[i + 1], stack[i])
      BY <1>2, <3>3
    <3>5. Kept(stack[k].event)
      BY <1>3, <1>6, <3>1
    <3>. QED  BY <3>1, <3>2, <3>3, <3>4, <3>5 DEF SameCall, Owner, Kept
  <2>. QED  BY <2>1, <2>2
<1>10. Alive'
  <2>. SUFFICES ASSUME NEW i \in 1 .. Len(stack'), events'[stack'[i].event].input # "pcap"
                PROVE  ~events'[stack'[i].event].freed
    BY DEF Alive
  <2>1. ASSUME NEW k \in 1 .. Len(stack), stack'[i].event = stack[k].event
        PROVE  ~events'[stack'[i].event].freed
    BY <1>3, <1>6, <2>1 DEF OwnedInv, Alive, Kept
  <2>2. CASE i = 1
    BY <1>1, <1>5, <2>1, <2>2
  <2>3. CASE i # 1
    <3>1. i \in 2 .. Len(stack')
      BY <2>3
    <3>. QED  BY <1>2, <2>1, <3>1 DEF SameCall
  <2>. QED  BY <2>2, <2>3
<1>11. AllOwned'
  <2>. SUFFICES ASSUME NEW x \in 1 .. Len(events'), ~events'[x].freed
                PROVE  \E i \in 1 .. Len(stack') : Owner(stack'[i]) /\ stack'[i].event = x
    BY DEF AllOwned, Owner
  <2>1. CASE x \in 1 .. Len(events)
    <3>1. PICK j \in 1 .. Len(stack) : Owner(stack[j]) /\ stack[j].event = x
      BY <1>6, <2>1 DEF OwnedInv, AllOwned
    <3>. PICK i \in Int : i = j + 1
      OBVIOUS
    <3>2. i \in 2 .. Len(stack') /\ i - 1 = j /\ i \in 1 .. Len(stack')
      BY <1>1
    <3>3. SameCall(stack'[i], stack[j])
      BY <1>2, <3>2
    <3>. QED  BY <3>1, <3>2, <3>3 DEF SameCall, Owner
  <2>2. CASE x \notin 1 .. Len(events)
    <3>1. Len(events') = Len(events) + 1 /\ x = Len(events) + 1
      BY <1>4, <1>6, <2>2
    <3>2. Result
      BY <1>4, <1>5, <3>1
    <3>. QED  BY <1>1, <3>1, <3>2 DEF Owner
  <2>. QED  BY <2>1, <2>2
<1>12. MisuseKnown'
  <2>1. misused # 0 => misused \in 1 .. Len(events) /\ misused \in 1 .. Len(events')
    BY <1>4, <1>6 DEF OwnedInv, MisuseKnown
  <2>2. misused # 0 => Kept(misused)
    BY <1>6, <2>1
  <2>. QED  BY <1>4, <2>1, <2>2 DEF OwnedInv, MisuseKnown, Kept, OfTwoTypes, setting
<1>. QED  BY <1>8, <1>9, <1>10, <1>11, <1>12 DEF OwnedInv, Nested

LEMMA OwnedBegins ==
    ASSUME Base, OwnedInv, NEW g \in Frame, Begins(g), UNCHANGED setting
    PROVE  OwnedInv'
<1>. PICK r \in EventRecord :
          /\ NewEvent(r) /\ r.input # "none" /\ r.emitted = (g.fn = "emit")
          /\ \/ stack' = <<g>> /\ g.fn = "emit" /\ r.input # "pcap"
             \/ /\ stack' = <<g, Call("caller", New, "free", <<>>)>>
                /\ r.input = "pcap" <=> g.fn = "emit"
  BY DEF Begins
<1>1. /\ stack = <<>> /\ Len(stack) = 0 /\ g.event = New /\ g.fn \in {"emit", "execute"}
      /\ misused' = misused /\ ~r.freed
  BY StackBegins DEF Begins, NewEvent
<1>2. /\ Len(events') = Len(events) + 1 /\ Len(events) \in Nat
      /\ events'[New] = r /\ New = Len(events) + 1
      /\ \A e \in 1 .. Len(events) : Kept(e) /\ events'[e].freed = events[e].freed
  BY EventsAppended
<1>3. \A e \in 1 .. Len(events) : events[e].freed
  BY <1>1 DEF OwnedInv, AllOwned
<1>4. MisuseKnown'
  <2>1. misused # 0 => misused \in 1 .. Len(events) /\ misused \in 1 .. Len(events')
    BY <1>2 DEF OwnedInv, MisuseKnown
  <2>2. misused # 0 => Kept(misused)
    BY <1>2, <2>1
  <2>. QED  BY <1>1, <2>1, <2>2 DEF OwnedInv, MisuseKnown, Kept, OfTwoTypes, setting
<1>5. CASE stack' = <<g>> /\ g.fn = "emit" /\ r.input # "pcap"
  <2>1. Len(stack') = 1 /\ stack'[1] = g
    BY <1>5
  <2>2. Nested'
    BY <1>5, <2>1 DEF Nested, CallsApart, OwnerBelow, Owner
  <2>3. Alive'
    BY <1>1, <1>2, <2>1 DEF Alive
  <2>4. AllOwned'
    <3>1. \A e \in 1 .. Len(events') : e = New \/ e \in 1 .. Len(events)
      BY <1>2
    <3>. QED  BY <1>1, <1>2, <1>3, <1>5, <2>1, <3>1 DEF AllOwned, Owner
  <2>. QED  BY <1>4, <2>2, <2>3, <2>4 DEF OwnedInv
<1>6. CASE /\ stack' = <<g, Call("caller", New, "free", <<>>)>>
           /\ r.input = "pcap" <=> g.fn = "emit"
  <2>. DEFINE c == Call("caller", New, "free", <<>>)
  <2>1. c.fn = "caller" /\ c.event = New
    BY DEF Call
  <2>. HIDE DEF c
  <2>2. Len(stack') = 2 /\ stack'[1] = g /\ stack'[2] = c
    BY <1>6 DEF c
  <2>3. \A i \in 1 .. 2 : i = 1 \/ i = 2
    OBVIOUS
  <2>4. CallsApart'
    BY <1>1, <1>2, <1>6, <2>1, <2>2, <2>3 DEF CallsApart, Owner
  <2>5. OwnerBelow'
    <3>1. 1 + 1 = 2 /\ 1 < 2
      OBVIOUS
    <3>. QED  BY <1>1, <1>2, <1>6, <2>1, <2>2, <2>3, <3>1 DEF OwnerBelow, Owner
  <2>6. Alive'
    BY <1>1, <1>2, <2>1, <2>2, <2>3 DEF Alive
  <2>7. AllOwned'
    <3>1. \A e \in 1 .. Len(events') : e = New \/ e \in 1 .. Len(events)
      BY <1>2
    <3>2. 2 \in 1 .. Len(stack')
      BY <2>2
    <3>. QED  BY <1>1, <1>2, <1>3, <2>1, <2>2, <3>1, <3>2 DEF AllOwned, Owner
  <2>. QED  BY <1>4, <2>4, <2>5, <2>6, <2>7 DEF OwnedInv, Nested
<1>. QED  BY <1>5, <1>6

LEMMA OwnedNext == Base /\ OwnedInv /\ [Next]_vars => OwnedInv'
<1>. SUFFICES ASSUME Base, OwnedInv, [Next]_vars PROVE OwnedInv'
  OBVIOUS
<1>. QED
  BY Steps, BaseNext, SettingKept, OwnedReturns, OwnedGoesOn, OwnedCalls, OwnedBegins,
     OwnedStays DEF StepKind

(* Whatever calls nest in each other, an event that is no packet is freed  *)
(* exactly once, while no call has it in hand any more; and when nothing   *)
(* is running no event is left.                                            *)
THEOREM EventsFreedOnce == Spec => []FreedOnce
<1>1. Init => Base /\ OwnedInv
  BY BaseInit, OwnedInit
<1>2. Base /\ OwnedInv => FreedOnce
  <2>. SUFFICES ASSUME Base, OwnedInv PROVE FreedOnce
    OBVIOUS
  <2>1. DOMAIN stack = 1 .. Len(stack) /\ DOMAIN events = 1 .. Len(events)
    BY DEF Base, Typed
  <2>2. stack = <<>> => Len(stack) = 0
    OBVIOUS
  <2>. QED  BY <2>1, <2>2 DEF FreedOnce, OwnedInv, MisuseKnown, Alive, AllOwned, Idle
<1>. QED  BY <1>1, <1>2, BaseNext, OwnedNext, PTL DEF Spec

----------------------------------------------------------------------------
(* The calls in progress, as a set: none is there twice.                   *)
Frames(s) == {s[i] : i \in 1 .. Len(s)}

LEMMA FramesOnTop ==
    ASSUME NEW s \in Seq(Frame), NEW f \in Frame
    PROVE  Frames(<<f>> \o s) = Frames(s) \cup {f}
<1>. DEFINE t == <<f>> \o s
<1>1. <<f>> \in Seq(Frame) /\ Len(<<f>>) = 1 /\ <<f>>[1] = f /\ Len(s) \in Nat
  BY LenProperties
<1>2. /\ Len(t) = 1 + Len(s)
      /\ \A i \in 1 .. 1 + Len(s) : t[i] = IF i <= 1 THEN <<f>>[i] ELSE s[i - 1]
  BY <1>1, ConcatProperties
<1>. HIDE DEF t
<1>3. t[1] = f /\ 1 \in 1 .. Len(t)
  BY <1>1, <1>2
<1>4. ASSUME NEW i \in 1 .. Len(s) PROVE i + 1 \in 1 .. Len(t) /\ t[i + 1] = s[i]
  <2>1. i + 1 \in 1 .. 1 + Len(s) /\ ~(i + 1 <= 1) /\ (i + 1) - 1 = i
    BY <1>1
  <2>. QED  BY <1>2, <2>1
<1>5. ASSUME NEW i \in 1 .. Len(t), i # 1 PROVE i - 1 \in 1 .. Len(s) /\ t[i] = s[i - 1]
  BY <1>1, <1>2, <1>5
<1>6. ASSUME NEW i \in 1 .. Len(t) PROVE t[i] \in Frames(s) \cup {f}
  BY <1>3, <1>5 DEF Frames
<1>7. ASSUME NEW i \in 1 .. Len(s) PROVE s[i] \in Frames(t)
  BY <1>4 DEF Frames
<1>8. f \in Frames(t)
  BY <1>3 DEF Frames
<1>9. Frames(t) \subseteq Frames(s) \cup {f}
  BY <1>6 DEF Frames
<1>10. Frames(s) \subseteq Frames(t)
  BY <1>7 DEF Frames
<1>. QED  BY <1>8, <1>9, <1>10 DEF t

Rest == Frames(Tail(stack))

LEMMA FramesTop ==
    ASSUME Base, stack # <<>>
    PROVE  /\ Frames(stack) = Rest \cup {stack[1]}
           /\ Tail(stack) \in Seq(Frame) /\ stack[1] \in Frame
           /\ Frames(stack) \subseteq Frame
<1>1. /\ Head(stack) = stack[1] /\ stack[1] \in Frame /\ Len(stack) \in Nat \ {0}
      /\ Tail(stack) \in Seq(Frame) /\ Len(Tail(stack)) = Len(stack) - 1
      /\ \A i \in 1 .. Len(stack) - 1 : Tail(stack)[i] = stack[i + 1]
  BY Returned DEF Base, Typed
<1>2. ASSUME NEW i \in 1 .. Len(stack), i # 1
      PROVE  i - 1 \in 1 .. Len(Tail(stack)) /\ Tail(stack)[i - 1] = stack[i]
  BY <1>1, <1>2
<1>3. \A i \in 1 .. Len(Tail(stack)) : i + 1 \in 1 .. Len(stack) /\ Tail(stack)[i] = stack[i + 1]
  BY <1>1
<1>4. \A i \in 1 .. Len(stack) : stack[i] \in Frame
  BY ElementOfSeq DEF Base, Typed
<1>5. ASSUME NEW i \in 1 .. Len(stack) PROVE stack[i] \in Rest \cup {stack[1]}
  BY <1>2 DEF Frames, Rest
<1>6. ASSUME NEW i \in 1 .. Len(Tail(stack)) PROVE Tail(stack)[i] \in Frames(stack)
  BY <1>3 DEF Frames
<1>7. 1 \in 1 .. Len(stack)
  BY <1>1
<1>8. Frames(stack) \subseteq Rest \cup {stack[1]}
  BY <1>5 DEF Frames
<1>9. Rest \subseteq Frames(stack)
  BY <1>6 DEF Frames, Rest
<1>10. stack[1] \in Frames(stack)
  BY <1>7 DEF Frames
<1>11. Frames(stack) \subseteq Frame
  BY <1>4 DEF Frames
<1>. QED  BY <1>1, <1>8, <1>9, <1>10, <1>11

LEMMA FramesApart ==
    ASSUME Base, Nested, stack # <<>>, NEW x \in Rest
    PROVE  /\ x.event = stack[1].event => x.fn # stack[1].fn
           /\ x # stack[1] /\ x \in Frame /\ x.event \in 1 .. Len(events)
<1>1. /\ Len(stack) \in Nat \ {0} /\ Tail(stack) \in Seq(Frame)
      /\ Len(Tail(stack)) = Len(stack) - 1
      /\ \A i \in 1 .. Len(stack) - 1 : Tail(stack)[i] = stack[i + 1]
  BY Returned DEF Base, Typed
<1>2. PICK i \in 1 .. Len(Tail(stack)) : x = Tail(stack)[i]
  BY DEF Rest, Frames
<1>. PICK k \in Int : k = i + 1
  OBVIOUS
<1>3. k \in 1 .. Len(stack) /\ 1 \in 1 .. Len(stack) /\ k # 1 /\ x = stack[k]
  BY <1>1, <1>2
<1>4. x.event = stack[1].event => x.fn # stack[1].fn
  BY <1>3 DEF Nested, CallsApart
<1>. QED  BY <1>3, <1>4, ElementOfSeq DEF Base, Typed, CallsTyped

(* The frames after a step.                                                *)
LEMMA FramesStep ==
    ASSUME Base, stack # <<>>
    PROVE  /\ stack' = Tail(stack) => Frames(stack') = Rest
           /\ \A f \in Frame : stack' = <<f>> \o Tail(stack) => Frames(stack') = Rest \cup {f}
           /\ \A f, g \in Frame : stack' = <<g>> \o (<<f>> \o Tail(stack))
                                     => Frames(stack') = Rest \cup {f, g}
<1>1. Tail(stack) \in Seq(Frame)
  BY FramesTop
<1>2. ASSUME NEW f \in Frame, NEW g \in Frame
      PROVE  /\ Frames(<<f>> \o Tail(stack)) = Rest \cup {f}
             /\ Frames(<<g>> \o (<<f>> \o Tail(stack))) = Rest \cup {f, g}
  <2>1. <<f>> \o Tail(stack) \in Seq(Frame)
    <3>1. <<f>> \in Seq(Frame)
      OBVIOUS
    <3>. QED  BY <1>1, <3>1, ConcatProperties
  <2>2. Frames(<<f>> \o Tail(stack)) = Rest \cup {f}
    BY <1>1, FramesOnTop DEF Rest
  <2>3. Frames(<<g>> \o (<<f>> \o Tail(stack))) = Frames(<<f>> \o Tail(stack)) \cup {g}
    BY <2>1, FramesOnTop
  <2>. QED  BY <2>2, <2>3
<1>. QED  BY <1>2 DEF Rest

LEMMA FramesBegin ==
    ASSUME Base, NEW g \in Frame, Begins(g)
    PROVE  /\ Frames(stack) = {}
           /\ \/ Frames(stack') = {g}
              \/ \E c \in Frame : /\ Frames(stack') = {g, c}
                                  /\ c.fn = "caller" /\ c.event = New
<1>1. /\ stack' \in Seq(Frame) /\ Len(stack) = 0
      /\ Len(stack') \in {1, 2} /\ stack'[1] = g
      /\ Len(stack') = 2 => /\ stack'[2] \in Frame /\ stack'[2].fn = "caller"
                            /\ stack'[2].event = New
  BY StackBegins
<1>2. Frames(stack) = {}
  BY <1>1 DEF Frames
<1>3. CASE Len(stack') = 1
  <2>1. \A i \in 1 .. 1 : i = 1
    OBVIOUS
  <2>. QED  BY <1>1, <1>2, <1>3, <2>1 DEF Frames
<1>4. CASE Len(stack') = 2
  <2>1. \A i \in 1 .. 2 : i = 1 \/ i = 2
    OBVIOUS
  <2>2. 1 \in 1 .. 2 /\ 2 \in 1 .. 2
    OBVIOUS
  <2>3. Frames(stack') = {g, stack'[2]}
    BY <1>1, <1>4, <2>1, <2>2 DEF Frames
  <2>. QED  BY <1>1, <1>2, <1>4, <2>3
<1>. QED  BY <1>1, <1>3, <1>4

----------------------------------------------------------------------------
(* A sequence without repetitions, as what it holds.                       *)
LEMMA AddedOnce ==
    ASSUME NEW S, NEW s \in Seq(S), NEW e \in S, IsFiniteSet(Elements(s)), Distinct(s),
           e \notin Elements(s)
    PROVE  LET t == Append(s, e)
           IN  /\ t \in Seq(S) /\ Elements(t) = Elements(s) \cup {e}
               /\ IsFiniteSet(Elements(t)) /\ Distinct(t)
<1>. DEFINE t == Append(s, e)
<1>1. /\ t \in Seq(S) /\ Len(t) = Len(s) + 1 /\ Len(s) \in Nat
      /\ t[Len(s) + 1] = e /\ \A i \in 1 .. Len(s) : t[i] = s[i]
  BY EventMade
<1>2. DOMAIN s = 1 .. Len(s) /\ DOMAIN t = 1 .. Len(t)
  BY <1>1
<1>. HIDE DEF t
<1>3. Elements(t) = Elements(s) \cup {e}
  <2>1. \A i \in 1 .. Len(t) : i \in 1 .. Len(s) \/ i = Len(s) + 1
    BY <1>1
  <2>2. \A i \in 1 .. Len(s) : i \in 1 .. Len(t)
    BY <1>1
  <2>3. Len(s) + 1 \in 1 .. Len(t)
    BY <1>1
  <2>. QED  BY <1>1, <1>2, <2>1, <2>2, <2>3 DEF Elements
<1>4. IsFiniteSet(Elements(t)) /\ Cardinality(Elements(t)) = Cardinality(Elements(s)) + 1
  BY <1>3, FS_AddElement
<1>5. Distinct(t)
  BY <1>1, <1>4 DEF Distinct
<1>. QED  BY <1>1, <1>3, <1>4, <1>5 DEF t

(* The emissions that have come to a point.                                *)
EmitsAt(s, p) == {e \in Nat : \E x \in Frames(s) : x.fn = "emit" /\ x.at = p /\ x.event = e}

Waiting(s) == EmitsAt(s, "filter")
Pending(s) == EmitsAt(s, "handle")

(* The events that the engine has taken in.                                *)
Processed(hd, s) == Elements(hd) \cup Pending(s)

(* What has been handed to the handler, what is about to be, and what the  *)
(* filter of its input has still to admit.                                 *)
HandledInv ==
    /\ handled \in Seq(Nat)
    /\ IsFiniteSet(Elements(handled)) /\ Distinct(handled)
    /\ \A e \in Elements(handled) \cup Waiting(stack) \cup Pending(stack) :
          e \in 1 .. Len(events) /\ events[e].emitted
    /\ \A e \in Elements(handled) \cup Pending(stack) : Admitted(e)
    /\ \A e \in Elements(handled) : e \notin Waiting(stack) /\ e \notin Pending(stack)
    /\ \A e \in 1 .. Len(events) :
          events[e].emitted /\ Admitted(e)
              => e \in Elements(handled) \cup Waiting(stack) \cup Pending(stack)
    /\ IsFiniteSet(Elements(handled) \cup Pending(stack))
    /\ events_processed = Cardinality(Elements(handled) \cup Pending(stack))

LEMMA HandledKept ==
    [Next]_vars => \/ UNCHANGED <<handled, events_processed>>
                   \/ EmitProcess \/ EmitHandle
  BY DEF Next, FileLine, Packet, CallerExecutes, CallerEmits, Source, CallerFrees, EmitDrop,
         HandlerPrint, EmitFree, CheckMatch, CheckAdd, ExecuteBegin,
         ExecuteRefuse, ExecuteEnd, ExecuteFilter, ExecuteConfused, ExecuteAggregate,
         ExecuteCorrelate, CorrelateRight, CorrelateDone, CorrelateMatch, vars,
         engine, execution, output

(* What an emission does at each of its points.                            *)
LEMMA EmitPoints ==
    ASSUME Base, [Next]_vars, stack # <<>>, stack[1].fn = "emit"
    PROVE  \/ UNCHANGED vars
           \/ stack[1].at = "filter" /\ (EmitDrop \/ EmitProcess)
           \/ stack[1].at = "handle" /\ EmitHandle
           \/ stack[1].at = "print" /\ HandlerPrint
           \/ stack[1].at = "free" /\ EmitFree
<1>1. Head(stack) = stack[1]
  BY Innermost
<1>2. Next \/ UNCHANGED vars
  OBVIOUS
<1>. QED
  BY <1>1, <1>2
     DEF Next, FileLine, Packet, CallerExecutes, CallerEmits, Source, CallerFrees, EmitDrop,
         EmitProcess, EmitHandle, HandlerPrint, EmitFree, CheckMatch, CheckAdd, ExecuteBegin,
         ExecuteRefuse, ExecuteEnd, ExecuteFilter, ExecuteConfused, ExecuteAggregate,
         ExecuteCorrelate, CorrelateRight, CorrelateDone, CorrelateMatch, Running

LEMMA Processing ==
    ASSUME Base, EmitProcess
    PROVE  /\ stack # <<>> /\ stack[1].fn = "emit" /\ stack[1].at = "filter"
           /\ Admitted(stack[1].event) /\ stack[1].event \in 1 .. Len(events)
           /\ events_processed' = events_processed + 1 /\ handled' = handled
           /\ UNCHANGED events
           /\ \E f, g \in Frame : Calls(g, f) /\ Checks(g, f)
<1>1. stack # <<>>
  BY DEF EmitProcess, Running
<1>2. Head(stack) = stack[1] /\ This = stack[1].event /\ stack[1].event \in 1 .. Len(events)
      /\ stack[1] \in Frame /\ Tail(stack) \in Seq(Frame) /\ Len(stack) \in Nat
      /\ Len(Tail(stack)) = Len(stack) - 1
  BY <1>1, Innermost, Returned DEF Base, Typed
<1>3. /\ stack[1].fn = "emit" /\ stack[1].at = "filter" /\ Admitted(stack[1].event)
      /\ events_processed' = events_processed + 1 /\ handled' = handled
      /\ UNCHANGED <<events, misused>>
      /\ stack' = <<Call("check", This, "walk", Opposite(This))>> \o Goto("handle")
  BY <1>1, <1>2 DEF EmitProcess, Running, output
<1>4. Len(stack') = Len(stack) + 1
  <2>1. Goto("handle") \in Seq(Frame) /\ Len(Goto("handle")) = Len(stack)
    <3>. DEFINE f == At(stack[1], "handle")
    <3>1. f \in Frame
      BY <1>2 DEF At, Frame, Points
    <3>2. Goto("handle") = <<f>> \o Tail(stack)
      BY <1>2 DEF Goto, At
    <3>. HIDE DEF f
    <3>3. stack \in Seq(Frame)
      BY DEF Base, Typed
    <3>. QED  BY <1>1, <3>1, <3>2, <3>3, WentOn
  <2>2. Call("check", This, "walk", Opposite(This)) \in Frame
    <3>1. Opposite(This) \in Seq(Nat) /\ This \in Nat
      <4>1. <<>> \in Seq(Nat) /\ log_events \in Seq(Nat) /\ network_events \in Seq(Nat)
        BY DEF Base, Typed
      <4>. QED  BY <1>1, <4>1, Innermost DEF Opposite
    <3>. QED  BY <3>1 DEF Call, Frame, Points
  <2>. DEFINE g == Call("check", This, "walk", Opposite(This))
  <2>. HIDE DEF g
  <2>3. g \in Frame /\ stack' = <<g>> \o Goto("handle")
    BY <1>3, <2>2 DEF g
  <2>4. <<g>> \in Seq(Frame) /\ Len(<<g>>) = 1
    BY <2>3
  <2>5. Len(stack') = 1 + Len(stack)
    BY <2>1, <2>3, <2>4, ConcatProperties
  <2>. QED  BY <1>2, <2>5
<1>5. ~Stays /\ ~Returns /\ (\A f \in Frame : ~GoesOn(f)) /\ (\A f \in Frame : ~Begins(f))
  <2>1. ~Stays
    BY <1>2, <1>4 DEF Stays
  <2>2. ASSUME Returns PROVE FALSE
    BY <1>2, <1>4, <2>2, StackReturns
  <2>3. ASSUME NEW f \in Frame, GoesOn(f) PROVE FALSE
    BY <1>4, <2>3, StackGoesOn
  <2>4. ASSUME NEW f \in Frame PROVE ~Begins(f)
    BY <1>1 DEF Begins
  <2>. QED  BY <2>1, <2>2, <2>3, <2>4
<1>6. \E f, g \in Frame : Calls(g, f)
  BY <1>5, Steps DEF StepKind, Next
<1>7. ASSUME NEW f \in Frame, NEW g \in Frame, Calls(g, f) PROVE Checks(g, f)
  <2>1. ~Executes(g, f)
    BY <1>3 DEF Executes
  <2>2. ASSUME EmitsResult(g, f) PROVE FALSE
    <3>1. \E r : NewEvent(r)
      BY <2>2 DEF EmitsResult
    <3>. QED  BY <1>3, <3>1, EventsAppended
  <2>. QED  BY <1>7, <2>1, <2>2 DEF Calls
<1>. QED  BY <1>1, <1>2, <1>3, <1>6, <1>7

LEMMA Handing ==
    ASSUME Base, EmitHandle, handled \in Seq(Nat)
    PROVE  /\ stack # <<>> /\ stack[1].fn = "emit" /\ stack[1].at = "handle"
           /\ handled' = Append(handled, stack[1].event)
           /\ events_processed' = events_processed
           /\ \/ \E f \in Frame : GoesOn(f) /\ f.at = "free"
              \/ \E f, g \in Frame : Calls(g, f) /\ (Executes(g, f) \/ EmitsResult(g, f))
<1>1. stack # <<>>
  BY DEF EmitHandle, Running
<1>2. Head(stack) = stack[1] /\ This = stack[1].event /\ stack[1].event \in Nat
  BY <1>1, Innermost
<1>3. /\ stack[1].fn = "emit" /\ stack[1].at = "handle"
      /\ handled' = Append(handled, stack[1].event)
      /\ events_processed' = events_processed
  BY <1>1, <1>2 DEF EmitHandle, Running, engine
<1>4. ~Stays /\ ~Returns /\ (\A f \in Frame : ~Begins(f))
  <2>1. Len(handled') = Len(handled) + 1 /\ Len(handled) \in Nat
    BY <1>2, <1>3, EventMade
  <2>. QED  BY <1>1, <1>3, <2>1 DEF Stays, Returns, Begins, output
<1>5. StepKind
  BY Steps DEF Next
<1>6. \A f \in Frame : GoesOn(f) => f.at = "free"
  BY <1>3 DEF GoesOn, SameCall
<1>7. \A f, g \in Frame : Calls(g, f) => Executes(g, f) \/ EmitsResult(g, f)
  BY <1>3 DEF Calls, Checks
<1>. QED  BY <1>1, <1>3, <1>4, <1>5, <1>6, <1>7 DEF StepKind

(* How the emissions at a point change with the innermost calls.           *)
Part(f, p) == {e \in Nat : f.fn = "emit" /\ f.at = p /\ f.event = e}
Outer(p) == EmitsAt(Tail(stack), p)

LEMMA EmitsChange ==
    ASSUME Base, Nested, stack # <<>>, NEW p
    PROVE  /\ EmitsAt(stack, p) = Outer(p) \cup Part(stack[1], p)
           /\ stack[1].fn = "emit" => stack[1].event \notin Outer(p)
           /\ stack' = Tail(stack) => EmitsAt(stack', p) = Outer(p)
           /\ \A f \in Frame : stack' = <<f>> \o Tail(stack)
                                  => EmitsAt(stack', p) = Outer(p) \cup Part(f, p)
           /\ \A f, g \in Frame : stack' = <<g>> \o (<<f>> \o Tail(stack))
                 => EmitsAt(stack', p) = Outer(p) \cup Part(f, p) \cup Part(g, p)
<1>1. EmitsAt(stack, p) = Outer(p) \cup Part(stack[1], p)
  BY FramesTop DEF EmitsAt, Outer, Part, Rest
<1>2. stack[1].fn = "emit" => stack[1].event \notin Outer(p)
  BY FramesApart DEF EmitsAt, Outer, Rest
<1>3. stack' = Tail(stack) => EmitsAt(stack', p) = Outer(p)
  BY DEF Outer
<1>4. ASSUME NEW f \in Frame, stack' = <<f>> \o Tail(stack)
      PROVE  EmitsAt(stack', p) = Outer(p) \cup Part(f, p)
  <2>1. Frames(stack') = Rest \cup {f}
    BY <1>4, FramesStep
  <2>. QED  BY <2>1 DEF EmitsAt, Outer, Part, Rest
<1>5. ASSUME NEW f \in Frame, NEW g \in Frame, stack' = <<g>> \o (<<f>> \o Tail(stack))
      PROVE  EmitsAt(stack', p) = Outer(p) \cup Part(f, p) \cup Part(g, p)
  <2>1. Frames(stack') = Rest \cup {f, g}
    BY <1>5, FramesStep
  <2>. QED  BY <2>1 DEF EmitsAt, Outer, Part, Rest
<1>. QED  BY <1>1, <1>2, <1>3, <1>4, <1>5

LEMMA PartIs ==
    ASSUME NEW f \in Frame, NEW p
    PROVE  /\ f.fn = "emit" /\ f.at = p => Part(f, p) = {f.event}
           /\ f.fn # "emit" \/ f.at # p => Part(f, p) = {}
  BY DEF Part, Frame

LEMMA AdmittedKept ==
    ASSUME Base, [Next]_vars, NEW e \in 1 .. Len(events)
    PROVE  /\ Admitted(e)' <=> Admitted(e)
           /\ events'[e].emitted = events[e].emitted
           /\ e \in 1 .. Len(events')
<1>1. Kept(e) /\ Len(events) \in Nat /\ Len(events') \in {Len(events), Len(events) + 1}
  BY Steps, EventsStep
<1>2. filter' = filter
  BY SettingKept DEF setting
<1>. QED  BY <1>1, <1>2 DEF Admitted, Passes, Kept

(* A step in which the emissions that wait for the handler, and those that *)
(* it has seen, stay; a new event may begin to wait, or one may be dropped.*)
LEMMA HandledStays ==
    ASSUME Base, HandledInv, [Next]_vars, UNCHANGED <<handled, events_processed>>,
           Pending(stack') = Pending(stack),
           \/ /\ \A e \in 1 .. Len(events') : events'[e].emitted => e \in 1 .. Len(events)
              /\ \A e \in Waiting(stack) \ Waiting(stack') : ~Admitted(e)
              /\ Waiting(stack') \subseteq Waiting(stack)
           \/ \E r \in EventRecord :
                 /\ NewEvent(r)
                 /\ Waiting(stack') = IF r.emitted THEN Waiting(stack) \cup {New}
                                                   ELSE Waiting(stack)
    PROVE  HandledInv' /\ Processed(handled', stack') = Processed(handled, stack)
<1>0. Processed(handled', stack') = Processed(handled, stack)
  BY DEF Processed
<1>1. \A e \in 1 .. Len(events) : /\ Admitted(e)' <=> Admitted(e)
                                  /\ events'[e].emitted = events[e].emitted
                                  /\ e \in 1 .. Len(events')
  BY AdmittedKept
<1>2. CASE /\ \A e \in 1 .. Len(events') : events'[e].emitted => e \in 1 .. Len(events)
           /\ \A e \in Waiting(stack) \ Waiting(stack') : ~Admitted(e)
           /\ Waiting(stack') \subseteq Waiting(stack)
  BY <1>0, <1>1, <1>2 DEF HandledInv
<1>3. ASSUME NEW r \in EventRecord, NewEvent(r),
             Waiting(stack') = IF r.emitted THEN Waiting(stack) \cup {New} ELSE Waiting(stack)
      PROVE  HandledInv'
  <2>1. /\ events'[New] = r /\ New \in 1 .. Len(events') /\ New \notin 1 .. Len(events)
        /\ \A e \in 1 .. Len(events') : e \in 1 .. Len(events) \/ e = New
    BY <1>3, EventsAppended
  <2>2. \A e \in Elements(handled) \cup Waiting(stack') \cup Pending(stack) :
            e \in 1 .. Len(events') /\ events'[e].emitted
    BY <1>1, <1>3, <2>1 DEF HandledInv
  <2>3. \A e \in Elements(handled) \cup Pending(stack) : Admitted(e)'
    BY <1>1 DEF HandledInv
  <2>4. \A e \in Elements(handled) : e \notin Waiting(stack') /\ e \notin Pending(stack)
    BY <1>3, <2>1 DEF HandledInv
  <2>5. \A e \in 1 .. Len(events') :
            events'[e].emitted /\ Admitted(e)'
                => e \in Elements(handled) \cup Waiting(stack') \cup Pending(stack)
    BY <1>1, <1>3, <2>1 DEF HandledInv
  <2>6. /\ handled \in Seq(Nat) /\ IsFiniteSet(Elements(handled)) /\ Distinct(handled)
        /\ IsFiniteSet(Elements(handled) \cup Pending(stack))
        /\ events_processed = Cardinality(Elements(handled) \cup Pending(stack))
    BY DEF HandledInv
  <2>. QED  BY <2>2, <2>3, <2>4, <2>5, <2>6 DEF HandledInv
<1>. QED  BY <1>0, <1>2, <1>3

LEMMA HandledProcess ==
    ASSUME Base, Nested, HandledInv, EmitProcess
    PROVE  /\ HandledInv'
           /\ Processed(handled', stack') = Processed(handled, stack) \cup {stack[1].event}
           /\ stack[1].event \notin Processed(handled, stack)
<1>. PICK f \in Frame, g \in Frame : Calls(g, f) /\ Checks(g, f)
  BY Processing
<1>. DEFINE t == stack[1].event
            H == Elements(handled)
            W == Waiting(stack)
            P == Pending(stack)
<1>1. /\ stack # <<>> /\ stack[1].fn = "emit" /\ stack[1].at = "filter"
      /\ Admitted(t) /\ t \in 1 .. Len(events) /\ t \in Nat
      /\ events_processed' = events_processed + 1 /\ handled' = handled
      /\ UNCHANGED events
  BY Processing, Innermost
<1>2. /\ g.fn = "check" /\ f.fn = "emit" /\ f.at = "handle" /\ f.event = t
      /\ stack' = <<g>> \o (<<f>> \o Tail(stack))
  BY DEF Calls, Checks, SameCall
<1>3. /\ W = Outer("filter") \cup {t} /\ t \notin Outer("filter")
      /\ P = Outer("handle") /\ t \notin P
      /\ Waiting(stack') = Outer("filter") /\ Pending(stack') = P \cup {t}
  BY <1>1, <1>2, EmitsChange DEF Waiting, Pending, Part
<1>4. \A e \in 1 .. Len(events) : Admitted(e)' <=> Admitted(e)
  BY <1>1, AdmittedKept DEF Next
<1>5. t \notin H
  BY <1>3 DEF HandledInv
<1>6. /\ IsFiniteSet(H \cup (P \cup {t}))
      /\ events_processed' = Cardinality(H \cup (P \cup {t}))
  <2>1. H \cup (P \cup {t}) = (H \cup P) \cup {t} /\ t \notin H \cup P
    BY <1>3, <1>5
  <2>2. IsFiniteSet(H \cup P) /\ events_processed = Cardinality(H \cup P)
    BY DEF HandledInv
  <2>. HIDE DEF H, P
  <2>. QED  BY <1>1, <2>1, <2>2, FS_AddElement
<1>7. \A e \in H \cup Waiting(stack') \cup Pending(stack') :
          e \in 1 .. Len(events') /\ events'[e].emitted
  BY <1>1, <1>3 DEF HandledInv
<1>8. \A e \in H \cup Pending(stack') : Admitted(e)'
  BY <1>1, <1>3, <1>4 DEF HandledInv
<1>9. \A e \in H : e \notin Waiting(stack') /\ e \notin Pending(stack')
  BY <1>3 DEF HandledInv
<1>10. \A e \in 1 .. Len(events') :
          events'[e].emitted /\ Admitted(e)' => e \in H \cup Waiting(stack') \cup Pending(stack')
  BY <1>1, <1>3, <1>4 DEF HandledInv
<1>11. handled \in Seq(Nat) /\ IsFiniteSet(H) /\ Distinct(handled)
  BY DEF HandledInv
<1>12. HandledInv'
  BY <1>1, <1>3, <1>6, <1>7, <1>8, <1>9, <1>10, <1>11 DEF HandledInv
<1>. QED  BY <1>1, <1>3, <1>5, <1>12 DEF Processed

LEMMA HandledHandle ==
    ASSUME Base, Nested, HandledInv, EmitHandle
    PROVE  HandledInv' /\ Processed(handled', stack') = Processed(handled, stack)
<1>. DEFINE t == stack[1].event
            H == Elements(handled)
            W == Waiting(stack)
            P == Pending(stack)
<1>0. handled \in Seq(Nat)
  BY DEF HandledInv
<1>1. /\ stack # <<>> /\ stack[1].fn = "emit" /\ stack[1].at = "handle"
      /\ t \in 1 .. Len(events) /\ t \in Nat
      /\ events_processed' = events_processed /\ handled' = Append(handled, t)
  BY <1>0, Handing, Innermost
<1>2. /\ W = Outer("filter") /\ P = Outer("handle") \cup {t}
      /\ t \notin Outer("filter") /\ t \notin Outer("handle")
  <2>1. stack[1] \in Frame
    BY <1>1, FramesTop
  <2>2. Part(stack[1], "filter") = {} /\ Part(stack[1], "handle") = {t}
    BY <1>1, <2>1, PartIs
  <2>3. /\ EmitsAt(stack, "filter") = Outer("filter") \cup Part(stack[1], "filter")
        /\ EmitsAt(stack, "handle") = Outer("handle") \cup Part(stack[1], "handle")
        /\ t \notin Outer("filter") /\ t \notin Outer("handle")
    BY <1>1, EmitsChange
  <2>. QED  BY <2>2, <2>3 DEF Waiting, Pending
<1>3. \/ /\ UNCHANGED events /\ Waiting(stack') = W /\ Pending(stack') = Outer("handle")
      \/ \E r \in EventRecord :
            /\ NewEvent(r) /\ r.emitted /\ r.input = "none"
            /\ Waiting(stack') = W \cup {New} /\ Pending(stack') = Outer("handle")
  <2>1. ASSUME NEW f \in Frame, GoesOn(f), f.at = "free"
        PROVE  UNCHANGED events /\ Waiting(stack') = W /\ Pending(stack') = Outer("handle")
    <3>1. stack' = <<f>> \o Tail(stack) /\ UNCHANGED events
      BY <2>1 DEF GoesOn
    <3>2. Part(f, "filter") = {} /\ Part(f, "handle") = {}
      BY <2>1, PartIs
    <3>3. /\ EmitsAt(stack', "filter") = Outer("filter") \cup Part(f, "filter")
          /\ EmitsAt(stack', "handle") = Outer("handle") \cup Part(f, "handle")
      BY <1>1, <3>1, EmitsChange
    <3>. QED  BY <1>2, <3>1, <3>2, <3>3 DEF Waiting, Pending
  <2>2. ASSUME NEW f \in Frame, NEW g \in Frame, Calls(g, f), Executes(g, f)
        PROVE  UNCHANGED events /\ Waiting(stack') = W /\ Pending(stack') = Outer("handle")
    <3>1. /\ stack' = <<g>> \o (<<f>> \o Tail(stack)) /\ UNCHANGED events
          /\ g.fn = "execute" /\ f.at \in {"free", "print"}
      BY <2>2 DEF Calls, Executes
    <3>2. /\ Part(f, "filter") = {} /\ Part(f, "handle") = {}
          /\ Part(g, "filter") = {} /\ Part(g, "handle") = {}
      BY <3>1, PartIs
    <3>3. /\ EmitsAt(stack', "filter") = Outer("filter") \cup Part(f, "filter") \cup Part(g, "filter")
          /\ EmitsAt(stack', "handle") = Outer("handle") \cup Part(f, "handle") \cup Part(g, "handle")
      BY <1>1, <3>1, EmitsChange
    <3>. QED  BY <1>2, <3>1, <3>2, <3>3 DEF Waiting, Pending
  <2>3. ASSUME NEW f \in Frame, NEW g \in Frame, Calls(g, f), EmitsResult(g, f)
        PROVE  \E r \in EventRecord :
                  /\ NewEvent(r) /\ r.emitted /\ r.input = "none"
                  /\ Waiting(stack') = W \cup {New} /\ Pending(stack') = Outer("handle")
    <3>1. PICK r \in EventRecord : NewEvent(r) /\ r.emitted /\ r.input = "none"
      BY <2>3 DEF EmitsResult
    <3>2. /\ stack' = <<g>> \o (<<f>> \o Tail(stack)) /\ f.fn = "emit" /\ f.at = "free"
          /\ g.fn = "emit" /\ g.at = "filter" /\ g.event = New /\ New \in Nat
      BY <1>1, <2>3, NewNat DEF Calls, EmitsResult, SameCall
    <3>3. Part(f, "filter") = {} /\ Part(f, "handle") = {}
          /\ Part(g, "filter") = {New} /\ Part(g, "handle") = {}
      BY <3>2, PartIs
    <3>4. /\ EmitsAt(stack', "filter") = Outer("filter") \cup Part(f, "filter") \cup Part(g, "filter")
          /\ EmitsAt(stack', "handle") = Outer("handle") \cup Part(f, "handle") \cup Part(g, "handle")
      BY <1>1, <3>2, EmitsChange
    <3>. QED  BY <1>2, <3>1, <3>3, <3>4 DEF Waiting, Pending
  <2>. QED  BY <1>0, <2>1, <2>2, <2>3, Handing
<1>4. t \notin H
  BY <1>2 DEF HandledInv
<1>5. /\ handled' \in Seq(Nat) /\ Elements(handled') = H \cup {t}
      /\ IsFiniteSet(Elements(handled')) /\ Distinct(handled')
  <2>1. IsFiniteSet(H) /\ Distinct(handled)
    BY DEF HandledInv
  <2>. QED  BY <1>0, <1>1, <1>4, <2>1, AddedOnce
<1>6. Elements(handled') \cup Pending(stack') = H \cup P
  BY <1>2, <1>3, <1>5
<1>7. \A e \in 1 .. Len(events) : /\ Admitted(e)' <=> Admitted(e)
                                  /\ events'[e].emitted = events[e].emitted
                                  /\ e \in 1 .. Len(events')
  BY AdmittedKept DEF Next
<1>8. /\ \A e \in Elements(handled') \cup Pending(stack') : Admitted(e)'
      /\ IsFiniteSet(Elements(handled') \cup Pending(stack'))
      /\ events_processed' = Cardinality(Elements(handled') \cup Pending(stack'))
  BY <1>1, <1>6, <1>7 DEF HandledInv
<1>9. ASSUME UNCHANGED events, Waiting(stack') = W, Pending(stack') = Outer("handle")
      PROVE  HandledInv'
  <2>1. \A e \in Elements(handled') \cup Waiting(stack') \cup Pending(stack') :
            e \in 1 .. Len(events') /\ events'[e].emitted
    BY <1>6, <1>9 DEF HandledInv
  <2>2. \A e \in Elements(handled') : e \notin Waiting(stack') /\ e \notin Pending(stack')
    BY <1>2, <1>5, <1>9 DEF HandledInv
  <2>3. \A e \in 1 .. Len(events') :
            events'[e].emitted /\ Admitted(e)'
                => e \in Elements(handled') \cup Waiting(stack') \cup Pending(stack')
    BY <1>6, <1>7, <1>9 DEF HandledInv
  <2>. QED  BY <1>5, <1>8, <2>1, <2>2, <2>3 DEF HandledInv
<1>10. ASSUME NEW r \in EventRecord, NewEvent(r), r.emitted, r.input = "none",
              Waiting(stack') = W \cup {New}, Pending(stack') = Outer("handle")
       PROVE  HandledInv'
  <2>1. /\ events'[New] = r /\ New \in 1 .. Len(events') /\ New \notin 1 .. Len(events)
        /\ \A e \in 1 .. Len(events') : e \in 1 .. Len(events) \/ e = New
    BY <1>10, EventsAppended
  <2>2. \A e \in Elements(handled') \cup Waiting(stack') \cup Pending(stack') :
            e \in 1 .. Len(events') /\ events'[e].emitted
    BY <1>6, <1>7, <1>10, <2>1 DEF HandledInv
  <2>3. \A e \in Elements(handled') : e \notin Waiting(stack') /\ e \notin Pending(stack')
    BY <1>1, <1>2, <1>5, <1>10, <2>1 DEF HandledInv
  <2>4. \A e \in 1 .. Len(events') :
            events'[e].emitted /\ Admitted(e)'
                => e \in Elements(handled') \cup Waiting(stack') \cup Pending(stack')
    BY <1>6, <1>7, <1>10, <2>1 DEF HandledInv
  <2>. QED  BY <1>5, <1>8, <2>2, <2>3, <2>4 DEF HandledInv
<1>. QED  BY <1>3, <1>6, <1>9, <1>10 DEF Processed

(* The steps of a call that is no emission that processes or hands over.   *)
LEMMA OtherSteps ==
    ASSUME Base, [Next]_vars, ~EmitProcess, ~EmitHandle
    PROVE  \/ Returns
           \/ \E f \in Frame : /\ GoesOn(f)
                               /\ f.fn = "emit" => stack[1].at = "print" /\ f.at = "free"
           \/ \E f, g \in Frame : Calls(g, f) /\ EmitsResult(g, f) /\ f.fn \in {"check", "execute"}
           \/ \E g \in Frame : Begins(g)
           \/ Stays
<1>1. CASE UNCHANGED vars
  BY <1>1 DEF vars, Stays
<1>2. CASE ~UNCHANGED vars
  <2>1. stack # <<>> /\ stack[1].fn = "emit" =>
            /\ stack[1].at # "handle"
            /\ stack[1].at = "filter" => EmitDrop
    BY <1>2, EmitPoints
  <2>2. ASSUME NEW f \in Frame, GoesOn(f)
        PROVE  f.fn = "emit" => stack[1].at = "print" /\ f.at = "free"
    BY <2>1, <2>2 DEF GoesOn, SameCall
  <2>3. ASSUME NEW f \in Frame, NEW g \in Frame, Calls(g, f)
        PROVE  EmitsResult(g, f) /\ f.fn \in {"check", "execute"}
    <3>1. stack # <<>> /\ SameCall(f, stack[1])
      BY <2>3 DEF Calls
    <3>2. ~Executes(g, f)
      BY <2>1, <3>1 DEF Executes, SameCall
    <3>3. ASSUME Checks(g, f) PROVE FALSE
      <4>1. EmitDrop
        BY <2>1, <3>1, <3>3 DEF Checks, SameCall
      <4>2. stack' = Tail(stack)
        BY <4>1 DEF EmitDrop, Return
      <4>3. Len(stack') = Len(stack) - 1 /\ Len(stack) \in Nat
        BY <3>1, <4>2, Returned DEF Base, Typed
      <4>4. Len(stack') = Len(stack) + 1
        BY <2>3, StackCalls
      <4>. QED  BY <4>3, <4>4
    <3>4. EmitsResult(g, f)
      BY <2>3, <3>2, <3>3 DEF Calls
    <3>5. f.fn # "emit"
      BY <2>1, <3>1, <3>4 DEF EmitsResult, SameCall
    <3>. QED  BY <3>4, <3>5 DEF EmitsResult, Frame
  <2>. QED  BY <2>2, <2>3, Steps DEF StepKind
<1>. QED  BY <1>1, <1>2

LEMMA HandledOther ==
    ASSUME Base, Nested, HandledInv, [Next]_vars, ~EmitProcess, ~EmitHandle
    PROVE  HandledInv' /\ Processed(handled', stack') = Processed(handled, stack)
<1>0. UNCHANGED <<handled, events_processed>> /\ Len(events) \in Nat
  BY HandledKept, LenProperties DEF Base, Typed
<1>1. CASE Returns
  <2>1. /\ stack # <<>> /\ stack' = Tail(stack) /\ stack[1] \in Frame
        /\ stack[1].fn = "emit" /\ stack[1].at # "free"
              => stack[1].at = "filter" /\ ~Admitted(stack[1].event)
    BY <1>1, FramesTop DEF Returns
  <2>2. /\ Waiting(stack) = Outer("filter") \cup Part(stack[1], "filter")
        /\ Pending(stack) = Outer("handle") \cup Part(stack[1], "handle")
        /\ Waiting(stack') = Outer("filter") /\ Pending(stack') = Outer("handle")
    BY <2>1, EmitsChange DEF Waiting, Pending
  <2>3. Part(stack[1], "handle") = {} /\ \A e \in Part(stack[1], "filter") : ~Admitted(e)
    BY <2>1 DEF Part
  <2>4. Len(events') = Len(events)
    <3>1. CASE Owner(stack[1])
      BY <1>1, <2>1, <3>1, Innermost, EventsFree DEF Returns
    <3>. QED  BY <1>1, <3>1 DEF Returns
  <2>. QED  BY <1>0, <2>2, <2>3, <2>4, HandledStays
<1>2. ASSUME NEW f \in Frame, GoesOn(f), f.fn = "emit" => stack[1].at = "print" /\ f.at = "free"
      PROVE  HandledInv' /\ Processed(handled', stack') = Processed(handled, stack)
  <2>1. /\ stack # <<>> /\ stack' = <<f>> \o Tail(stack) /\ stack[1] \in Frame
        /\ SameCall(f, stack[1]) /\ UNCHANGED events
    BY <1>2, FramesTop DEF GoesOn
  <2>2. /\ Part(f, "filter") = {} /\ Part(f, "handle") = {}
        /\ Part(stack[1], "filter") = {} /\ Part(stack[1], "handle") = {}
    BY <1>2, <2>1, PartIs DEF SameCall
  <2>3. /\ Waiting(stack) = Outer("filter") \cup Part(stack[1], "filter")
        /\ Pending(stack) = Outer("handle") \cup Part(stack[1], "handle")
        /\ Waiting(stack') = Outer("filter") \cup Part(f, "filter")
        /\ Pending(stack') = Outer("handle") \cup Part(f, "handle")
    BY <2>1, EmitsChange DEF Waiting, Pending
  <2>4. Waiting(stack') = Waiting(stack) /\ Pending(stack') = Pending(stack)
    BY <2>2, <2>3
  <2>. QED  BY <1>0, <2>1, <2>4, HandledStays
<1>3. ASSUME NEW f \in Frame, NEW g \in Frame, Calls(g, f), EmitsResult(g, f),
             f.fn \in {"check", "execute"}
      PROVE  HandledInv' /\ Processed(handled', stack') = Processed(handled, stack)
  <2>1. PICK r \in EventRecord : NewEvent(r) /\ r.emitted
    BY <1>3 DEF EmitsResult
  <2>2. /\ stack # <<>> /\ stack' = <<g>> \o (<<f>> \o Tail(stack)) /\ stack[1] \in Frame
        /\ f.fn # "emit" /\ stack[1].fn # "emit"
        /\ g.fn = "emit" /\ g.at = "filter" /\ g.event = New
    BY <1>3, FramesTop DEF Calls, EmitsResult, SameCall
  <2>3. /\ Part(f, "filter") = {} /\ Part(f, "handle") = {}
        /\ Part(stack[1], "filter") = {} /\ Part(stack[1], "handle") = {}
        /\ Part(g, "filter") = {New} /\ Part(g, "handle") = {}
    BY <2>2, PartIs
  <2>4. /\ Waiting(stack) = Outer("filter") \cup Part(stack[1], "filter")
        /\ Pending(stack) = Outer("handle") \cup Part(stack[1], "handle")
        /\ Waiting(stack') = Outer("filter") \cup Part(f, "filter") \cup Part(g, "filter")
        /\ Pending(stack') = Outer("handle") \cup Part(f, "handle") \cup Part(g, "handle")
    BY <2>2, EmitsChange DEF Waiting, Pending
  <2>5. Waiting(stack') = Waiting(stack) \cup {New} /\ Pending(stack') = Pending(stack)
    BY <2>3, <2>4
  <2>. QED  BY <1>0, <2>1, <2>5, HandledStays
<1>4. ASSUME NEW g \in Frame, Begins(g)
      PROVE  HandledInv' /\ Processed(handled', stack') = Processed(handled, stack)
  <2>1. PICK r \in EventRecord : NewEvent(r) /\ r.emitted = (g.fn = "emit")
    BY <1>4 DEF Begins
  <2>2. /\ g.fn \in {"emit", "execute"} /\ g.event = New /\ New \in Nat
        /\ g.fn = "emit" => g.at = "filter"
    BY <1>4, NewNat DEF Begins
  <2>3. /\ Frames(stack) = {}
        /\ \/ Frames(stack') = {g}
           \/ \E c \in Frame : Frames(stack') = {g, c} /\ c.fn = "caller"
    BY <1>4, FramesBegin
  <2>4. Waiting(stack) = {} /\ Pending(stack) = {}
    BY <2>3 DEF Waiting, Pending, EmitsAt
  <2>5. /\ Pending(stack') = {}
        /\ Waiting(stack') = IF g.fn = "emit" THEN {New} ELSE {}
    BY <2>2, <2>3 DEF Waiting, Pending, EmitsAt
  <2>6. Waiting(stack') = IF r.emitted THEN Waiting(stack) \cup {New} ELSE Waiting(stack)
    BY <2>1, <2>4, <2>5
  <2>. QED  BY <1>0, <2>1, <2>4, <2>5, <2>6, HandledStays
<1>5. CASE Stays
  <2>1. UNCHANGED <<stack, events>>
    BY <1>5 DEF Stays
  <2>. QED  BY <1>0, <2>1, HandledStays
<1>. QED  BY <1>1, <1>2, <1>3, <1>4, <1>5, OtherSteps

LEMMA HandledInit == Init => HandledInv
<1>. SUFFICES ASSUME Init PROVE HandledInv
  OBVIOUS
<1>1. handled = <<>> /\ stack = <<>> /\ events = <<>> /\ events_processed = 0
  BY DEF Init
<1>2. Elements(handled) = {} /\ Len(handled) = 0 /\ handled \in Seq(Nat)
  BY <1>1 DEF Elements
<1>3. Waiting(stack) = {} /\ Pending(stack) = {}
  BY <1>1 DEF Waiting, Pending, EmitsAt, Frames
<1>4. IsFiniteSet({}) /\ Cardinality({}) = 0
  BY FS_EmptySet
<1>5. Elements(handled) \cup Pending(stack) = {}
  BY <1>2, <1>3
<1>6. Len(events) = 0
  BY <1>1
<1>7. Distinct(handled) /\ IsFiniteSet(Elements(handled))
  BY <1>2, <1>4 DEF Distinct
<1>8. /\ IsFiniteSet(Elements(handled) \cup Pending(stack))
      /\ events_processed = Cardinality(Elements(handled) \cup Pending(stack))
  BY <1>1, <1>4, <1>5
<1>. QED  BY <1>2, <1>3, <1>6, <1>7, <1>8 DEF HandledInv

LEMMA HandledNext == Base /\ Nested /\ HandledInv /\ [Next]_vars => HandledInv'
  BY HandledProcess, HandledHandle, HandledOther

(* Through every nesting of calls, each event that is emitted and that its *)
(* filter admits is handed to the handler exactly once, and counted.       *)
THEOREM EventsHandledOnce == Spec => []HandledOnce
<1>1. Init => Base /\ OwnedInv /\ HandledInv
  BY BaseInit, OwnedInit, HandledInit
<1>2. OwnedInv => Nested
  BY DEF OwnedInv
<1>3. Base /\ HandledInv => HandledOnce
  <2>. SUFFICES ASSUME Base, HandledInv, Idle PROVE HandledOnce
    BY DEF HandledOnce
  <2>1. stack = <<>>
    BY DEF Idle
  <2>2. Waiting(stack) = {} /\ Pending(stack) = {}
    BY <2>1 DEF Waiting, Pending, EmitsAt, Frames
  <2>3. Elements(handled) \cup Pending(stack) = Elements(handled)
    BY <2>2
  <2>4. DOMAIN events = 1 .. Len(events)
    BY DEF Base, Typed
  <2>5. events_processed = Len(handled)
    BY <2>3 DEF HandledInv, Distinct
  <2>6. \A e : Admitted(e) <=>
              (events[e].input = "file" => filter \in {"none"} \cup events[e].matches)
    BY DEF Admitted, Passes
  <2>7. Elements(handled) = {e \in 1 .. Len(events) : events[e].emitted /\ Admitted(e)}
    BY <2>2 DEF HandledInv
  <2>. QED  BY <2>4, <2>5, <2>6, <2>7 DEF HandledOnce, HandledInv
<1>. QED  BY <1>1, <1>2, <1>3, BaseNext, OwnedNext, HandledNext, PTL DEF Spec

----------------------------------------------------------------------------
(* Sequences and what they hold, at their heads.                           *)
LEMMA HoldsFinite ==
    ASSUME NEW S, NEW s \in Seq(S)
    PROVE  /\ IsFiniteSet(Elements(s)) /\ Cardinality(Elements(s)) \in Nat
           /\ Cardinality(Elements(s)) <= Len(s)
<1>1. Len(s) \in Nat /\ DOMAIN s = 1 .. Len(s)
  BY LenProperties
<1>2. IsFiniteSet(1 .. Len(s)) /\ Cardinality(1 .. Len(s)) = Len(s)
  <2>1. 1 \in Int /\ Len(s) \in Int
    BY <1>1
  <2>. QED  BY <1>1, <2>1, FS_Interval
<1>3. [i \in 1 .. Len(s) |-> s[i]] \in Surjection(1 .. Len(s), Elements(s))
  BY <1>1 DEF Surjection, Elements
<1>4. IsFiniteSet(Elements(s)) /\ Cardinality(Elements(s)) <= Cardinality(1 .. Len(s))
  BY <1>2, <1>3, FS_Surjection
<1>. QED  BY <1>2, <1>4, FS_CardinalityType

LEMMA HoldsFirst ==
    ASSUME NEW S, NEW s \in Seq(S), NEW e \in S
    PROVE  LET t == <<e>> \o s
           IN  /\ t \in Seq(S) /\ Elements(t) = Elements(s) \cup {e}
               /\ Distinct(s) /\ e \notin Elements(s) => Distinct(t)
<1>. DEFINE t == <<e>> \o s
<1>1. <<e>> \in Seq(S) /\ Len(<<e>>) = 1 /\ <<e>>[1] = e /\ Len(s) \in Nat
  BY LenProperties
<1>2. /\ t \in Seq(S) /\ Len(t) = 1 + Len(s)
      /\ \A i \in 1 .. 1 + Len(s) : t[i] = IF i <= 1 THEN <<e>>[i] ELSE s[i - 1]
  BY <1>1, ConcatProperties
<1>. HIDE DEF t
<1>3. DOMAIN s = 1 .. Len(s) /\ DOMAIN t = 1 .. Len(t)
  BY <1>2
<1>4. t[1] = e /\ 1 \in 1 .. Len(t)
  BY <1>1, <1>2
<1>5. ASSUME NEW i \in 1 .. Len(s) PROVE s[i] \in Elements(t)
  <2>1. i + 1 \in 1 .. 1 + Len(s) /\ ~(i + 1 <= 1) /\ (i + 1) - 1 = i
    BY <1>1
  <2>2. t[i + 1] = s[i] /\ i + 1 \in DOMAIN t
    BY <1>2, <1>3, <2>1
  <2>. QED  BY <2>2 DEF Elements
<1>6. ASSUME NEW i \in 1 .. Len(t) PROVE t[i] \in Elements(s) \cup {e}
  <2>1. CASE i = 1
    BY <1>4, <2>1
  <2>2. CASE i # 1
    <3>1. i - 1 \in 1 .. Len(s) /\ t[i] = s[i - 1]
      BY <1>1, <1>2, <2>2
    <3>. QED  BY <1>3, <3>1 DEF Elements
  <2>. QED  BY <2>1, <2>2
<1>7. Elements(t) = Elements(s) \cup {e}
  <2>1. Elements(s) \subseteq Elements(t)
    BY <1>3, <1>5 DEF Elements
  <2>2. Elements(t) \subseteq Elements(s) \cup {e}
    BY <1>3, <1>6 DEF Elements
  <2>3. e \in Elements(t)
    BY <1>3, <1>4 DEF Elements
  <2>. QED  BY <2>1, <2>2, <2>3
<1>8. ASSUME Distinct(s), e \notin Elements(s) PROVE Distinct(t)
  <2>1. Cardinality(Elements(s)) = Len(s) /\ IsFiniteSet(Elements(s))
    BY <1>8, HoldsFinite DEF Distinct
  <2>2. Cardinality(Elements(t)) = Cardinality(Elements(s)) + 1
    BY <1>7, <1>8, <2>1, FS_AddElement
  <2>. QED  BY <1>1, <1>2, <2>1, <2>2 DEF Distinct
<1>. QED  BY <1>2, <1>7, <1>8 DEF t

LEMMA HoldsRest ==
    ASSUME NEW S, NEW s \in Seq(S), s # <<>>
    PROVE  /\ Tail(s) \in Seq(S) /\ Head(s) \in S
           /\ Elements(s) = Elements(Tail(s)) \cup {Head(s)}
           /\ Distinct(s) => Distinct(Tail(s)) /\ Head(s) \notin Elements(Tail(s))
<1>1. /\ Head(s) = s[1] /\ s[1] \in S /\ Len(s) \in Nat \ {0}
      /\ Tail(s) \in Seq(S) /\ Len(Tail(s)) = Len(s) - 1
      /\ \A i \in 1 .. Len(s) - 1 : Tail(s)[i] = s[i + 1]
  BY Returned
<1>. DEFINE t == Tail(s)
<1>2. DOMAIN s = 1 .. Len(s) /\ DOMAIN t = 1 .. Len(t)
  BY <1>1
<1>. HIDE DEF t
<1>3. ASSUME NEW i \in 1 .. Len(s) PROVE s[i] \in Elements(t) \cup {s[1]}
  <2>1. CASE i = 1
    BY <2>1
  <2>2. CASE i # 1
    <3>1. i - 1 \in 1 .. Len(s) - 1 /\ (i - 1) + 1 = i
      BY <1>1, <2>2
    <3>2. i - 1 \in DOMAIN t /\ t[i - 1] = s[i]
      BY <1>1, <1>2, <3>1 DEF t
    <3>. QED  BY <3>2 DEF Elements
  <2>. QED  BY <2>1, <2>2
<1>4. ASSUME NEW i \in 1 .. Len(t) PROVE t[i] \in Elements(s)
  <2>1. i + 1 \in 1 .. Len(s) /\ t[i] = s[i + 1]
    BY <1>1 DEF t
  <2>. QED  BY <1>2, <2>1 DEF Elements
<1>5. Elements(s) = Elements(t) \cup {s[1]}
  <2>1. Elements(s) \subseteq Elements(t) \cup {s[1]}
    BY <1>2, <1>3 DEF Elements
  <2>2. Elements(t) \subseteq Elements(s)
    BY <1>2, <1>4 DEF Elements
  <2>3. s[1] \in Elements(s)
    BY <1>1, <1>2 DEF Elements
  <2>. QED  BY <2>1, <2>2, <2>3
<1>6. ASSUME Distinct(s) PROVE Distinct(t) /\ s[1] \notin Elements(t)
  <2>1. /\ IsFiniteSet(Elements(t)) /\ Cardinality(Elements(t)) \in Nat
        /\ Cardinality(Elements(t)) <= Len(s) - 1
    BY <1>1, HoldsFinite DEF t
  <2>2. Cardinality(Elements(s)) = Len(s)
    BY <1>6 DEF Distinct
  <2>3. s[1] \notin Elements(t)
    <3>. SUFFICES ASSUME s[1] \in Elements(t) PROVE FALSE
      OBVIOUS
    <3>1. Elements(s) = Elements(t)
      BY <1>5
    <3>. QED  BY <1>1, <2>1, <2>2, <3>1
  <2>4. Cardinality(Elements(s)) = Cardinality(Elements(t)) + 1
    BY <1>5, <2>1, <2>3, FS_AddElement
  <2>. QED  BY <1>1, <2>1, <2>2, <2>3, <2>4 DEF Distinct, t
<1>. QED  BY <1>1, <1>5, <1>6 DEF t

----------------------------------------------------------------------------
(* Unless the handler makes log events of correlations, everything that a  *)
(* walk of the engine causes are correlations, and the walk of a           *)
(* correlation is empty.                                                   *)
Correlation(e) == events[e].type = "CORRELATION"

WalksApart ==
    /\ \A e \in 1 .. Len(events) : Correlation(e) => events[e].input = "none"
    /\ ~MakesLogEvents =>
          \A i, j \in 1 .. Len(stack) :
              i < j /\ stack[j].fn = "check" /\ ~Correlation(stack[j].event)
                  => Correlation(stack[i].event)

LEMMA WalksApartInit == Init => WalksApart
  BY EmptySeq DEF Init, WalksApart

LEMMA WalksApartNext == Base /\ NestingInv /\ WalksApart /\ [Next]_vars => WalksApart'
<1>. SUFFICES ASSUME Base, NestingInv, WalksApart, [Next]_vars PROVE WalksApart'
  OBVIOUS
<1>0. UNCHANGED <<handler, query>> /\ (MakesLogEvents' <=> MakesLogEvents)
  BY SettingKept DEF setting, MakesLogEvents
<1>1. /\ Len(events) \in Nat /\ Len(events') \in {Len(events), Len(events) + 1}
      /\ \A e \in 1 .. Len(events) : Kept(e)
  BY Steps, EventsStep
<1>. DEFINE C1(e) == events'[e].type = "CORRELATION"
            Made1 == \A e \in 1 .. Len(events') : C1(e) => events'[e].input = "none"
            Inner1 == \A i, j \in 1 .. Len(stack') :
                         i < j /\ stack'[j].fn = "check" /\ ~C1(stack'[j].event)
                             => C1(stack'[i].event)
<1>2. \A e \in 1 .. Len(events) : C1(e) <=> Correlation(e)
  BY <1>1 DEF Kept, Correlation
<1>3. \A i \in 1 .. Len(stack) : stack[i].event \in 1 .. Len(events)
  BY DEF Base, CallsTyped
<1>4. Made1
  <2>1. CASE Len(events') = Len(events)
    BY <1>1, <1>2, <2>1 DEF WalksApart, Kept
  <2>2. ASSUME NEW r \in EventRecord, NewEvent(r), r.type = "CORRELATION" => r.input = "none"
        PROVE  Made1
    <3>1. events'[New] = r /\ \A e \in 1 .. Len(events') : e \in 1 .. Len(events) \/ e = New
      BY <2>2, EventsAppended
    <3>. QED  BY <1>1, <1>2, <2>2, <3>1 DEF WalksApart, Kept
  <2>3. CASE Returns
    <3>1. CASE Owner(stack[1])
      <4>1. Len(events') = Len(events)
        BY <2>3, <3>1, Innermost, EventsFree DEF Returns
      <4>. QED  BY <2>1, <4>1
    <3>. QED  BY <2>1, <2>3, <3>1 DEF Returns
  <2>4. ASSUME NEW f \in Frame, GoesOn(f) PROVE Made1
    BY <2>1, <2>4 DEF GoesOn
  <2>5. ASSUME NEW f \in Frame, NEW g \in Frame, Calls(g, f) PROVE Made1
    <3>1. CASE Checks(g, f) \/ Executes(g, f)
      BY <2>1, <3>1 DEF Checks, Executes
    <3>2. CASE EmitsResult(g, f)
      BY <2>2, <3>2 DEF EmitsResult
    <3>. QED  BY <2>5, <3>1, <3>2 DEF Calls
  <2>6. ASSUME NEW g \in Frame, Begins(g) PROVE Made1
    BY <2>2, <2>6 DEF Begins
  <2>7. CASE Stays
    BY <2>1, <2>7 DEF Stays
  <2>. QED  BY <2>3, <2>4, <2>5, <2>6, <2>7, Steps DEF StepKind
<1>5. ASSUME ~MakesLogEvents PROVE Inner1
  <2>0. \A i, j \in 1 .. Len(stack) :
            i < j /\ stack[j].fn = "check" /\ ~C1(stack[j].event) => C1(stack[i].event)
    BY <1>2, <1>3, <1>5 DEF WalksApart
  <2>. HIDE DEF C1
  <2>1. ASSUME Len(stack') = Len(stack), \A i \in 1 .. Len(stack) : SameCall(stack'[i], stack[i])
        PROVE  Inner1
    BY <2>0, <2>1 DEF SameCall
  <2>2. CASE Returns
    <3>1. /\ Len(stack) \in Nat \ {0} /\ Len(stack') = Len(stack) - 1
          /\ \A i \in 1 .. Len(stack') : stack'[i] = stack[i + 1] /\ i + 1 \in 1 .. Len(stack)
      BY <2>2, StackReturns
    <3>2. \A i, j \in 1 .. Len(stack') : i < j => i + 1 < j + 1
      BY <3>1
    <3>. QED  BY <2>0, <3>1, <3>2
  <2>3. ASSUME NEW f \in Frame, GoesOn(f) PROVE Inner1
    <3>1. /\ Len(stack) \in Nat \ {0} /\ Len(stack') = Len(stack)
          /\ stack'[1] = f /\ SameCall(f, stack[1])
          /\ \A i \in 2 .. Len(stack) : stack'[i] = stack[i]
      BY <2>3, StackGoesOn DEF GoesOn
    <3>2. \A i \in 1 .. Len(stack) : SameCall(stack'[i], stack[i])
      <4>. SUFFICES ASSUME NEW i \in 1 .. Len(stack) PROVE SameCall(stack'[i], stack[i])
        OBVIOUS
      <4>1. i = 1 \/ i \in 2 .. Len(stack)
        BY <3>1
      <4>. QED  BY <3>1, <4>1 DEF SameCall
    <3>. QED  BY <2>1, <3>1, <3>2
  <2>4. ASSUME NEW f \in Frame, NEW g \in Frame, Calls(g, f) PROVE Inner1
    <3>1. /\ Len(stack) \in Nat \ {0} /\ Len(stack') = Len(stack) + 1
          /\ stack'[1] = g /\ stack'[2] = f /\ SameCall(f, stack[1])
          /\ \A i \in 3 .. Len(stack') : stack'[i] = stack[i - 1] /\ i - 1 \in 2 .. Len(stack)
      BY <2>4, StackCalls DEF Calls
    <3>2. f.event = stack[1].event /\ f.event \in 1 .. Len(events) /\ 1 \in 1 .. Len(stack)
      BY <1>3, <3>1 DEF SameCall
    <3>. DEFINE Below == \E j \in 2 .. Len(stack) : stack[j].fn = "check" /\ ~C1(stack[j].event)
                Walking == f.fn = "check" /\ ~C1(f.event)
    <3>3. Below => C1(f.event)
      <4>. SUFFICES ASSUME NEW j \in 2 .. Len(stack), stack[j].fn = "check", ~C1(stack[j].event)
                    PROVE  C1(f.event)
        OBVIOUS
      <4>1. j \in 1 .. Len(stack) /\ 1 < j
        BY <3>1
      <4>. QED  BY <2>0, <3>2, <4>1
    <3>4. Below \/ Walking => C1(g.event)
      <4>1. CASE Checks(g, f) \/ Executes(g, f)
        <5>1. f.fn = "emit" /\ g.event = f.event
          BY <4>1 DEF Checks, Executes
        <5>. QED  BY <3>3, <5>1
      <4>2. CASE EmitsResult(g, f)
        <5>1. PICK r \in EventRecord : NewEvent(r) /\ (r.type # "CORRELATION" => MakesLog(f))
          BY <4>2 DEF EmitsResult
        <5>2. events'[New] = r /\ g.event = New /\ f.fn # "emit"
          BY <1>5, <4>2, <5>1, EventsAppended DEF EmitsResult, MakesLogEvents
        <5>. SUFFICES ASSUME MakesLog(f), Below \/ Walking PROVE FALSE
          BY <5>1, <5>2 DEF C1
        <5>3. f.fn = "execute" /\ \E k \in 1 .. Len(query) : query[k].type = "aggregate"
          BY <5>2 DEF MakesLog
        <5>4. C1(f.event)
          BY <3>3, <5>3
        <5>5. events[f.event].input = "none"
          BY <1>2, <3>2, <5>4 DEF WalksApart
        <5>6. handler \notin CommandLineHandlers
          <6>1. stack[1].fn = "execute"
            BY <3>1, <5>3 DEF SameCall
          <6>. QED  BY <3>2, <5>5, <6>1 DEF NestingInv
        <5>7. handler = "executes"
          BY <1>5, <5>6, FlowAssumption DEF Base, Typed, MakesLogEvents
        <5>8. DOMAIN query = 1 .. Len(query)
          BY QueryTyped DEF Base
        <5>. QED  BY <1>5, <5>3, <5>7, <5>8 DEF MakesLogEvents
      <4>. QED  BY <2>4, <4>1, <4>2 DEF Calls
    <3>5. ASSUME NEW i \in 1 .. Len(stack'), NEW j \in 1 .. Len(stack'),
                 i < j, stack'[j].fn = "check", ~C1(stack'[j].event)
          PROVE  C1(stack'[i].event)
      <4>1. /\ j = 2 \/ j \in 3 .. Len(stack')
            /\ i = 1 \/ i = 2 \/ i \in 3 .. Len(stack')
            /\ i # 1 => j \in 3 .. Len(stack')
        BY <3>1, <3>5
      <4>2. j = 2 => Walking
        BY <3>1, <3>5
      <4>3. j \in 3 .. Len(stack') => stack'[j] = stack[j - 1] /\ j - 1 \in 2 .. Len(stack)
        BY <3>1
      <4>4. j \in 3 .. Len(stack') => Below
        BY <3>5, <4>3
      <4>. HIDE DEF Walking, Below
      <4>5. CASE i = 1
        BY <3>1, <3>4, <4>1, <4>2, <4>4, <4>5
      <4>6. CASE i = 2
        BY <3>1, <3>3, <4>1, <4>4, <4>6
      <4>7. CASE i \in 3 .. Len(stack')
        <5>1. /\ stack'[i] = stack[i - 1] /\ i - 1 \in 1 .. Len(stack) /\ j - 1 \in 1 .. Len(stack)
              /\ stack'[j] = stack[j - 1] /\ i - 1 < j - 1
          BY <3>1, <3>5, <4>1, <4>3, <4>7
        <5>. QED  BY <2>0, <3>5, <5>1
      <4>. QED  BY <4>1, <4>5, <4>6, <4>7
    <3>. QED  BY <3>5
  <2>5. ASSUME NEW g \in Frame, Begins(g) PROVE Inner1
    <3>1. /\ Len(stack') \in {1, 2}
          /\ Len(stack') = 2 => stack'[2].fn = "caller"
      BY <2>5, StackBegins
    <3>2. \A i, j \in 1 .. 1 : ~(i < j)
      OBVIOUS
    <3>3. \A i, j \in 1 .. 2 : i < j => j = 2
      OBVIOUS
    <3>4. CASE Len(stack') = 1
      BY <3>2, <3>4
    <3>5. CASE Len(stack') = 2
      <4>1. stack'[2].fn # "check"
        BY <3>1, <3>5
      <4>. QED  BY <3>3, <3>5, <4>1
    <3>. QED  BY <3>1, <3>4, <3>5
  <2>6. CASE Stays
    BY <2>1, <2>6 DEF Stays, SameCall
  <2>. QED  BY <2>2, <2>3, <2>4, <2>5, <2>6, Steps DEF StepKind
<1>. QED  BY <1>0, <1>4, <1>5 DEF WalksApart, Correlation

----------------------------------------------------------------------------
----------------------------------------------------------------------------
(* The walks of the engine in progress, the events they are for, and the   *)
(* pairs they have yet to correlate.                                       *)
Walks(s) == {x \in Frames(s) : x.fn = "check"}
InWalk(s) == {e \in Nat : \E x \in Walks(s) : x.event = e}
OfType(es, T, t) == {e \in T : es[e].type = t}
Pair(es, e, y) == IF es[e].type = "LOG" THEN <<e, y>> ELSE <<y, e>>
ToCorrelate(es, s) ==
    {p \in Nat \X Nat : \E x \in Walks(s) : \E y \in Elements(x.todo) : p = Pair(es, x.event, y)}

(* An event is in a buffer of the engine as soon as its walk is over.      *)
BuffersInv ==
    LET T == Processed(handled, stack)
        B == T \ InWalk(stack)
    IN  /\ InWalk(stack) \subseteq T
        /\ Elements(log_events) = OfType(events, B, "LOG")
        /\ Elements(network_events) = OfType(events, B, "NETWORK")
        /\ Distinct(log_events) /\ Distinct(network_events)

(* Each pair of events that have been processed is correlated, or is about *)
(* to be, by the one walk that has it before it.                           *)
PairsInv ==
    LET T == Processed(handled, stack)
        P == ToCorrelate(events, stack)
    IN  /\ Distinct(correlated)
        /\ \A x \in Walks(stack) : Distinct(x.todo)
        /\ P \cap Elements(correlated) = {}
        /\ P \cup Elements(correlated) = OfType(events, T, "LOG") \X OfType(events, T, "NETWORK")

EngineInv ==
    /\ correlated \in Seq(Nat \X Nat)
    /\ BuffersInv
    /\ ~MakesLogEvents => PairsInv

LEMMA EngineKept ==
    [Next]_vars => \/ UNCHANGED <<log_events, network_events, correlated>>
                   \/ CheckMatch \/ CheckAdd
  BY DEF Next, FileLine, Packet, CallerExecutes, CallerEmits, Source, CallerFrees, EmitDrop,
         EmitProcess, EmitHandle, HandlerPrint, EmitFree, ExecuteBegin,
         ExecuteRefuse, ExecuteEnd, ExecuteFilter, ExecuteConfused, ExecuteAggregate,
         ExecuteCorrelate, CorrelateRight, CorrelateDone, CorrelateMatch, vars,
         engine, execution, output

LEMMA CheckPoints ==
    ASSUME Base, [Next]_vars, stack # <<>>, stack[1].fn = "check"
    PROVE  UNCHANGED vars \/ CheckMatch \/ CheckAdd
<1>1. Head(stack) = stack[1]
  BY Innermost
<1>2. Next \/ UNCHANGED vars
  OBVIOUS
<1>. QED
  BY <1>1, <1>2
     DEF Next, FileLine, Packet, CallerExecutes, CallerEmits, Source, CallerFrees, EmitDrop,
         EmitProcess, EmitHandle, HandlerPrint, EmitFree, ExecuteBegin,
         ExecuteRefuse, ExecuteEnd, ExecuteFilter, ExecuteConfused, ExecuteAggregate,
         ExecuteCorrelate, CorrelateRight, CorrelateDone, CorrelateMatch, Running

LEMMA WalksStay ==
    ASSUME Base, Nested, HandledInv, [Next]_vars, ~EmitProcess, ~CheckMatch, ~CheckAdd
    PROVE  Walks(stack') = Walks(stack)
<1>1. CASE UNCHANGED vars
  BY <1>1 DEF vars
<1>2. CASE ~UNCHANGED vars
  <2>1. stack # <<>> => stack[1].fn # "check"
    BY <1>2, CheckPoints
  <2>2. stack # <<>> => Walks(stack) = {x \in Rest : x.fn = "check"}
    BY <2>1, FramesTop DEF Walks
  <2>3. ASSUME stack # <<>>, stack' = Tail(stack) PROVE Walks(stack') = Walks(stack)
    BY <2>2, <2>3 DEF Walks, Rest
  <2>4. ASSUME stack # <<>>, NEW f \in Frame, f.fn # "check", stack' = <<f>> \o Tail(stack)
        PROVE  Walks(stack') = Walks(stack)
    <3>1. Frames(stack') = Rest \cup {f}
      BY <2>4, FramesStep
    <3>. QED  BY <2>2, <2>4, <3>1 DEF Walks
  <2>5. ASSUME stack # <<>>, NEW f \in Frame, NEW g \in Frame, f.fn # "check", g.fn # "check",
               stack' = <<g>> \o (<<f>> \o Tail(stack))
        PROVE  Walks(stack') = Walks(stack)
    <3>1. Frames(stack') = Rest \cup {f, g}
      BY <2>5, FramesStep
    <3>. QED  BY <2>2, <2>5, <3>1 DEF Walks
  <2>6. CASE Returns
    BY <2>3, <2>6 DEF Returns
  <2>7. ASSUME NEW f \in Frame, GoesOn(f) PROVE Walks(stack') = Walks(stack)
    BY <2>4, <2>7 DEF GoesOn
  <2>8. ASSUME NEW f \in Frame, NEW g \in Frame, Calls(g, f), Executes(g, f) \/ EmitsResult(g, f)
        PROVE  Walks(stack') = Walks(stack)
    <3>1. f.fn # "check" /\ g.fn # "check"
      BY <2>1, <2>8 DEF Calls, SameCall, Executes, EmitsResult
    <3>. QED  BY <2>5, <2>8, <3>1 DEF Calls
  <2>9. ASSUME NEW g \in Frame, Begins(g) PROVE Walks(stack') = Walks(stack)
    <3>1. g.fn # "check"
      BY <2>9 DEF Begins
    <3>. QED  BY <2>9, <3>1, FramesBegin DEF Walks
  <2>10. CASE Stays
    BY <2>10 DEF Stays
  <2>11. CASE EmitHandle
    BY <2>7, <2>8, <2>11, Handing DEF HandledInv
  <2>12. CASE ~EmitHandle
    BY <2>6, <2>7, <2>8, <2>9, <2>10, <2>12, OtherSteps
  <2>. QED  BY <2>11, <2>12
<1>. QED  BY <1>1, <1>2

(* The types of the events that the engine has taken in do not change.     *)
LEMMA TypesKept ==
    ASSUME Base, HandledInv, [Next]_vars
    PROVE  /\ Processed(handled, stack) \subseteq 1 .. Len(events)
           /\ \A e \in 1 .. Len(events) : events'[e].type = events[e].type
           /\ \A e \in InWalk(stack) : e \in 1 .. Len(events)
           /\ \A t : \A T \in SUBSET (1 .. Len(events)) : OfType(events', T, t) = OfType(events, T, t)
           /\ ToCorrelate(events', stack) = ToCorrelate(events, stack)
<1>1. Processed(handled, stack) \subseteq 1 .. Len(events)
  BY DEF Processed, HandledInv
<1>2. \A e \in 1 .. Len(events) : events'[e].type = events[e].type
  BY Steps, EventsStep DEF Kept
<1>3. \A x \in Walks(stack) : x.event \in 1 .. Len(events)
  BY DEF Walks, Frames, Base, CallsTyped
<1>4. \A t : \A T \in SUBSET (1 .. Len(events)) : OfType(events', T, t) = OfType(events, T, t)
  BY <1>2 DEF OfType
<1>5. ToCorrelate(events', stack) = ToCorrelate(events, stack)
  <2>1. \A x \in Walks(stack) : \A y : Pair(events', x.event, y) = Pair(events, x.event, y)
    BY <1>2, <1>3 DEF Pair
  <2>. QED  BY <2>1 DEF ToCorrelate
<1>. QED  BY <1>1, <1>2, <1>3, <1>4, <1>5 DEF InWalk

LEMMA EngineOther ==
    ASSUME Base, Nested, HandledInv, EngineInv, [Next]_vars,
           ~EmitProcess, ~CheckMatch, ~CheckAdd
    PROVE  EngineInv'
<1>1. UNCHANGED <<log_events, network_events, correlated>>
  BY EngineKept
<1>2. Walks(stack') = Walks(stack) /\ InWalk(stack') = InWalk(stack)
      /\ ToCorrelate(events', stack') = ToCorrelate(events, stack)
  <2>1. Walks(stack') = Walks(stack)
    BY WalksStay
  <2>2. ToCorrelate(events', stack') = ToCorrelate(events', stack)
    BY <2>1 DEF ToCorrelate
  <2>. QED  BY <2>1, <2>2, TypesKept DEF InWalk
<1>3. Processed(handled', stack') = Processed(handled, stack)
  BY HandledHandle, HandledOther
<1>4. \A t : \A T \in SUBSET Processed(handled, stack) : OfType(events', T, t) = OfType(events, T, t)
  BY TypesKept
<1>5. MakesLogEvents' <=> MakesLogEvents
  BY SettingKept DEF setting, MakesLogEvents
<1>6. BuffersInv'
  BY <1>1, <1>2, <1>3, <1>4 DEF EngineInv, BuffersInv
<1>7. PairsInv => PairsInv'
  BY <1>1, <1>2, <1>3, <1>4 DEF PairsInv
<1>. QED  BY <1>1, <1>5, <1>6, <1>7 DEF EngineInv

(* While an event that is no correlation is innermost, no other walk has   *)
(* anything before it.                                                     *)
LEMMA OtherWalksEmpty ==
    ASSUME Base, WalksApart, ~MakesLogEvents, stack # <<>>, ~Correlation(stack[1].event),
           NEW x \in Rest, x.fn = "check"
    PROVE  Correlation(x.event) /\ x.todo = <<>>
<1>1. /\ Len(stack) \in Nat \ {0} /\ Tail(stack) \in Seq(Frame)
      /\ Len(Tail(stack)) = Len(stack) - 1
      /\ \A i \in 1 .. Len(stack) - 1 : Tail(stack)[i] = stack[i + 1]
  BY Returned DEF Base, Typed
<1>2. PICK i \in 1 .. Len(Tail(stack)) : x = Tail(stack)[i]
  BY DEF Rest, Frames
<1>. PICK k \in Int : k = i + 1
  OBVIOUS
<1>3. k \in 1 .. Len(stack) /\ 1 \in 1 .. Len(stack) /\ 1 < k /\ x = stack[k]
  BY <1>1, <1>2
<1>4. Correlation(x.event)
  BY <1>3 DEF WalksApart
<1>. QED  BY <1>3, <1>4 DEF Base, CallsTyped, Correlation

LEMMA PairWith ==
    ASSUME NEW t \in Nat, NEW S \in SUBSET Nat, NEW p
    PROVE  /\ p \in {t} \X S => \E y \in S : p = <<t, y>>
           /\ p \in S \X {t} => \E y \in S : p = <<y, t>>
<1>1. ASSUME p \in {t} \X S PROVE \E y \in S : p = <<t, y>>
  <2>1. p = <<p[1], p[2]>> /\ p[1] = t /\ p[2] \in S
    BY <1>1
  <2>. QED  BY <2>1
<1>2. ASSUME p \in S \X {t} PROVE \E y \in S : p = <<y, t>>
  <2>1. p = <<p[1], p[2]>> /\ p[1] \in S /\ p[2] = t
    BY <1>2
  <2>. QED  BY <2>1
<1>. QED  BY <1>1, <1>2

LEMMA PairsWith ==
    ASSUME NEW t \in Nat, NEW S \in SUBSET Nat
    PROVE  /\ {p \in Nat \X Nat : \E y \in S : p = <<t, y>>} = {t} \X S
           /\ {p \in Nat \X Nat : \E y \in S : p = <<y, t>>} = S \X {t}
<1>1. \A y \in S : <<t, y>> \in {t} \X S /\ <<y, t>> \in S \X {t}
                   /\ <<t, y>> \in Nat \X Nat /\ <<y, t>> \in Nat \X Nat
  OBVIOUS
<1>2. \A p : p \in {t} \X S => \E y \in S : p = <<t, y>>
  BY PairWith
<1>3. \A p : p \in S \X {t} => \E y \in S : p = <<y, t>>
  BY PairWith
<1>4. {p \in Nat \X Nat : \E y \in S : p = <<t, y>>} = {t} \X S
  BY <1>1, <1>2, Zenon
<1>5. {p \in Nat \X Nat : \E y \in S : p = <<y, t>>} = S \X {t}
  BY <1>1, <1>3, Zenon
<1>. QED  BY <1>4, <1>5

LEMMA EngineProcess ==
    ASSUME Base, Nested, HandledInv, WalksApart, EngineInv, EmitProcess
    PROVE  EngineInv'
<1>. PICK f \in Frame, g \in Frame : Calls(g, f) /\ Checks(g, f)
  BY Processing
<1>. DEFINE t == stack[1].event
            T == Processed(handled, stack)
            D == InWalk(stack)
            P == ToCorrelate(events, stack)
            Logs == OfType(events, T, "LOG")
            Nets == OfType(events, T, "NETWORK")
<1>1. /\ stack # <<>> /\ stack[1].fn = "emit" /\ t \in 1 .. Len(events) /\ t \in Nat
      /\ UNCHANGED events /\ events[t] \in EventRecord
  BY Processing, Innermost
<1>2. UNCHANGED <<log_events, network_events, correlated>>
  BY DEF EmitProcess
<1>3. Processed(handled', stack') = T \cup {t} /\ t \notin T
  BY HandledProcess
<1>4. /\ g.fn = "check" /\ g.event = t /\ g.todo = Opposite(t) /\ f.fn = "emit"
      /\ stack' = <<g>> \o (<<f>> \o Tail(stack))
  BY DEF Calls, Checks, SameCall
<1>5. Walks(stack) = {x \in Rest : x.fn = "check"} /\ Walks(stack') = Walks(stack) \cup {g}
  <2>1. Frames(stack') = Rest \cup {f, g}
    BY <1>1, <1>4, FramesStep
  <2>. QED  BY <1>1, <1>4, <2>1, FramesTop DEF Walks
<1>6. InWalk(stack') = D \cup {t}
  BY <1>1, <1>4, <1>5 DEF InWalk
<1>7. ToCorrelate(events, stack') =
          P \cup {p \in Nat \X Nat : \E y \in Elements(Opposite(t)) : p = Pair(events, t, y)}
  BY <1>4, <1>5 DEF ToCorrelate
<1>8. BuffersInv'
  <2>1. (T \cup {t}) \ (D \cup {t}) = T \ D
    BY <1>3
  <2>. QED  BY <1>1, <1>2, <1>3, <1>6, <2>1 DEF EngineInv, BuffersInv
<1>9. ASSUME ~MakesLogEvents PROVE PairsInv'
  <2>1. /\ Distinct(correlated) /\ \A x \in Walks(stack) : Distinct(x.todo)
        /\ P \cap Elements(correlated) = {} /\ P \cup Elements(correlated) = Logs \X Nets
    BY <1>9 DEF EngineInv, PairsInv
  <2>2. Elements(log_events) = OfType(events, T \ D, "LOG")
        /\ Elements(network_events) = OfType(events, T \ D, "NETWORK")
        /\ Distinct(log_events) /\ Distinct(network_events)
    BY DEF EngineInv, BuffersInv
  <2>3. Elements(<<>>) = {} /\ Distinct(<<>>)
    BY FS_EmptySet DEF Elements, Distinct
  <2>4. \A x \in Walks(stack') : Distinct(x.todo)
    <3>1. Distinct(Opposite(t))
      BY <2>2, <2>3 DEF Opposite
    <3>. QED  BY <1>4, <1>5, <2>1, <3>1
  <2>5. T \subseteq Nat /\ T \subseteq 1 .. Len(events)
    <3>1. T \subseteq 1 .. Len(events)
      BY TypesKept DEF Next
    <3>. QED  BY <3>1
  <2>. DEFINE Q == ToCorrelate(events, stack')
              Logs1 == OfType(events, T \cup {t}, "LOG")
              Nets1 == OfType(events, T \cup {t}, "NETWORK")
  <2>6. Q \cap Elements(correlated) = {} /\ Q \cup Elements(correlated) = Logs1 \X Nets1
    <3>1. CASE Correlation(t)
      <4>1. Opposite(t) = <<>>
        BY <3>1 DEF Opposite, Correlation
      <4>2. Q = P
        BY <1>7, <2>3, <4>1
      <4>3. Logs1 = Logs /\ Nets1 = Nets
        BY <3>1 DEF OfType, Correlation
      <4>. QED  BY <2>1, <4>2, <4>3
    <3>2. CASE ~Correlation(t)
      <4>1. \A x \in Walks(stack) : Correlation(x.event) /\ x.todo = <<>>
        BY <1>1, <1>5, <1>9, <3>2, OtherWalksEmpty
      <4>2. P = {}
        BY <2>3, <4>1 DEF ToCorrelate
      <4>3. \A e \in D : Correlation(e)
        BY <4>1 DEF InWalk
      <4>4. Elements(log_events) = Logs /\ Elements(network_events) = Nets
        BY <2>2, <4>3 DEF OfType, Correlation
      <4>5. Elements(correlated) = Logs \X Nets
        BY <2>1, <4>2
      <4>6. CASE events[t].type = "LOG"
        <5>1. Opposite(t) = network_events
          BY <4>6 DEF Opposite
        <5>2. Q = {p \in Nat \X Nat : \E y \in Nets : p = <<t, y>>}
          BY <1>7, <4>2, <4>4, <4>6, <5>1 DEF Pair
        <5>3. Logs1 = Logs \cup {t} /\ Nets1 = Nets /\ t \notin Logs
          BY <1>3, <4>6 DEF OfType
        <5>4. Nets \subseteq Nat
          BY <2>5 DEF OfType
        <5>. HIDE DEF Q, Logs, Nets, Logs1, Nets1
        <5>5. Q = {t} \X Nets
          BY <1>1, <5>2, <5>4, PairsWith
        <5>. QED  BY <4>5, <5>3, <5>5
      <4>7. CASE events[t].type = "NETWORK"
        <5>1. Opposite(t) = log_events
          BY <4>7 DEF Opposite
        <5>2. Q = {p \in Nat \X Nat : \E y \in Logs : p = <<y, t>>}
          BY <1>7, <4>2, <4>4, <4>7, <5>1 DEF Pair
        <5>3. Nets1 = Nets \cup {t} /\ Logs1 = Logs /\ t \notin Nets
          BY <1>3, <4>7 DEF OfType
        <5>4. Logs \subseteq Nat
          BY <2>5 DEF OfType
        <5>. HIDE DEF Q, Logs, Nets, Logs1, Nets1
        <5>5. Q = Logs \X {t}
          BY <1>1, <5>2, <5>4, PairsWith
        <5>. QED  BY <4>5, <5>3, <5>5
      <4>. QED  BY <1>1, <3>2, <4>6, <4>7 DEF EventRecord, Correlation
    <3>. QED  BY <3>1, <3>2
  <2>. QED  BY <1>1, <1>2, <1>3, <2>1, <2>4, <2>6 DEF PairsInv
<1>10. (MakesLogEvents' <=> MakesLogEvents)
  BY SettingKept DEF Next, setting, MakesLogEvents
<1>. QED  BY <1>2, <1>8, <1>9, <1>10 DEF EngineInv

LEMMA EngineMatch ==
    ASSUME Base, Nested, HandledInv, WalksApart, EngineInv, CheckMatch
    PROVE  EngineInv'
<1>. DEFINE h == stack[1]
            t == h.event
            todo == h.todo
            T == Processed(handled, stack)
            P == ToCorrelate(events, stack)
            f == OnWalk(h, "walk", Tail(todo))
            g == Call("emit", New, "filter", <<>>)
            c == Pair(events, t, Head(todo))
            R == {p \in Nat \X Nat : \E x \in Rest : x.fn = "check" /\
                                        \E y \in Elements(x.todo) : p = Pair(events, x.event, y)}
<1>1. stack # <<>>
  BY DEF CheckMatch, Running
<1>2. /\ Head(stack) = h /\ h \in Frame /\ This = t /\ t \in 1 .. Len(events) /\ t \in Nat
      /\ h.fn = "check" /\ todo # <<>> /\ todo \in Seq(Nat)
      /\ UNCHANGED <<log_events, network_events>>
      /\ correlated' = Append(correlated, c)
      /\ EmitResult("CORRELATION", <<f>> \o Tail(stack))
  <2>1. Head(stack) = h /\ h \in Frame /\ This = t /\ t \in 1 .. Len(events) /\ t \in Nat
    BY <1>1, Innermost
  <2>. QED  BY <2>1 DEF CheckMatch, Running, Walk, OnWalk, Frame, Pair
<1>3. Processed(handled', stack') = T
  BY <1>1, <1>2, Innermost, HandledOther DEF Next, CheckMatch, EmitProcess, EmitHandle, Running
<1>4. /\ Tail(todo) \in Seq(Nat) /\ Head(todo) \in Nat
      /\ Elements(todo) = Elements(Tail(todo)) \cup {Head(todo)}
      /\ Distinct(todo) => Distinct(Tail(todo)) /\ Head(todo) \notin Elements(Tail(todo))
  BY <1>2, HoldsRest
<1>5. f \in Frame /\ f.fn = "check" /\ f.event = t /\ f.todo = Tail(todo)
  BY <1>2, <1>4 DEF OnWalk, Frame, Points
<1>6. g \in Frame /\ g.fn = "emit"
  <2>1. New \in Nat /\ <<>> \in Seq(Nat) /\ "filter" \in Points
    BY NewNat DEF Points
  <2>. QED  BY <2>1 DEF Call, Frame
<1>7. stack' = <<g>> \o (<<f>> \o Tail(stack))
  BY <1>2 DEF EmitResult
<1>. HIDE DEF f, g
<1>8. /\ Walks(stack) = {x \in Rest : x.fn = "check"} \cup {h}
      /\ Walks(stack') = {x \in Rest : x.fn = "check"} \cup {f}
  <2>1. Frames(stack') = Rest \cup {f, g}
    BY <1>1, <1>5, <1>6, <1>7, FramesStep
  <2>. QED  BY <1>1, <1>2, <1>5, <1>6, <2>1, FramesTop DEF Walks
<1>9. InWalk(stack') = InWalk(stack)
  BY <1>5, <1>8 DEF InWalk
<1>10. /\ \A e \in 1 .. Len(events) : events'[e].type = events[e].type
       /\ \A y : Pair(events', t, y) = Pair(events, t, y)
       /\ \A x \in Rest : \A y : Pair(events', x.event, y) = Pair(events, x.event, y)
  <2>1. \A e \in 1 .. Len(events) : events'[e].type = events[e].type
    BY TypesKept DEF Next
  <2>2. \A x \in Rest : x.event \in 1 .. Len(events)
    BY <1>1, FramesApart
  <2>. QED  BY <1>2, <2>1, <2>2 DEF Pair
<1>11. /\ P = R \cup {p \in Nat \X Nat : \E y \in Elements(todo) : p = Pair(events, t, y)}
       /\ ToCorrelate(events', stack') =
             R \cup {p \in Nat \X Nat : \E y \in Elements(Tail(todo)) : p = Pair(events, t, y)}
  <2>. DEFINE After(e, td) == {p \in Nat \X Nat : \E y \in Elements(td) : p = Pair(events, e, y)}
  <2>1. P = R \cup After(t, todo)
    BY <1>8 DEF ToCorrelate
  <2>2. ToCorrelate(events', stack') = R \cup After(t, Tail(todo))
    <3>1. ASSUME NEW p \in Nat \X Nat
          PROVE  p \in ToCorrelate(events', stack') <=> p \in R \cup After(t, Tail(todo))
      <4>1. p \in ToCorrelate(events', stack') <=>
              \/ \E x \in Rest : x.fn = "check" /\ \E y \in Elements(x.todo) : p = Pair(events', x.event, y)
              \/ \E y \in Elements(f.todo) : p = Pair(events', f.event, y)
        BY <1>8 DEF ToCorrelate
      <4>. QED  BY <1>5, <1>10, <4>1
    <3>. QED  BY <3>1 DEF ToCorrelate
  <2>. QED  BY <2>1, <2>2
<1>12. c \in Nat \X Nat
  BY <1>2, <1>4 DEF Pair
<1>13. correlated' \in Seq(Nat \X Nat)
  BY <1>2, <1>12, EventMade DEF EngineInv
<1>14. \A ty : OfType(events', T, ty) = OfType(events, T, ty)
  BY TypesKept DEF Next
<1>15. BuffersInv'
  <2>1. \A ty : OfType(events', T \ InWalk(stack), ty) = OfType(events, T \ InWalk(stack), ty)
    BY TypesKept DEF Next
  <2>. QED  BY <1>2, <1>3, <1>9, <2>1 DEF EngineInv, BuffersInv
<1>16. ASSUME ~MakesLogEvents PROVE PairsInv'
  <2>1. /\ Distinct(correlated) /\ \A x \in Walks(stack) : Distinct(x.todo)
        /\ P \cap Elements(correlated) = {}
        /\ P \cup Elements(correlated) = OfType(events, T, "LOG") \X OfType(events, T, "NETWORK")
    BY <1>16 DEF EngineInv, PairsInv
  <2>2. R = {}
    <3>1. ~Correlation(t)
      <4>1. 1 \in 1 .. Len(stack)
        BY <1>1, Returned DEF Base, Typed
      <4>. QED  BY <1>2, <4>1 DEF Base, CallsTyped, Correlation
    <3>2. \A x \in Rest : x.fn = "check" => x.todo = <<>>
      BY <1>1, <1>16, <3>1, OtherWalksEmpty
    <3>3. Elements(<<>>) = {}
      BY DEF Elements
    <3>. QED  BY <3>2, <3>3
  <2>3. Distinct(todo)
    BY <1>8, <2>1
  <2>4. \A y, z \in Nat : Pair(events, t, y) = Pair(events, t, z) => y = z
    BY DEF Pair
  <2>5. Elements(todo) \subseteq Nat /\ \A y \in Elements(todo) : Pair(events, t, y) \in Nat \X Nat
    <3>1. Elements(todo) \subseteq Nat
      BY <1>2, ElementOfSeq DEF Elements
    <3>. QED  BY <1>2, <3>1 DEF Pair
  <2>. DEFINE Q == ToCorrelate(events', stack')
  <2>6. P = Q \cup {c} /\ c \notin Q /\ c \in P
    BY <1>4, <1>11, <1>12, <2>2, <2>3, <2>4, <2>5
  <2>7. /\ Elements(correlated') = Elements(correlated) \cup {c} /\ Distinct(correlated')
    <3>1. c \notin Elements(correlated)
      BY <2>1, <2>6
    <3>2. correlated \in Seq(Nat \X Nat) /\ IsFiniteSet(Elements(correlated))
      BY HoldsFinite DEF EngineInv
    <3>. QED  BY <1>2, <1>12, <2>1, <3>1, <3>2, AddedOnce
  <2>8. \A x \in Walks(stack') : Distinct(x.todo)
    BY <1>4, <1>5, <1>8, <2>1, <2>3
  <2>9. Q \cap Elements(correlated') = {} /\ Q \cup Elements(correlated') = P \cup Elements(correlated)
    BY <2>1, <2>6, <2>7
  <2>. QED  BY <1>3, <1>14, <2>1, <2>7, <2>8, <2>9 DEF PairsInv
<1>17. (MakesLogEvents' <=> MakesLogEvents)
  BY SettingKept DEF Next, setting, MakesLogEvents
<1>. QED  BY <1>13, <1>15, <1>16, <1>17 DEF EngineInv

LEMMA EngineAdd ==
    ASSUME Base, Nested, HandledInv, WalksApart, EngineInv, CheckAdd
    PROVE  EngineInv'
<1>. DEFINE h == stack[1]
            t == h.event
            T == Processed(handled, stack)
            D == InWalk(stack)
            B == T \ D
<1>1. stack # <<>>
  BY DEF CheckAdd, Running
<1>2. /\ Head(stack) = h /\ h \in Frame /\ This = t /\ t \in 1 .. Len(events) /\ t \in Nat
      /\ h.fn = "check" /\ h.todo = <<>>
      /\ UNCHANGED <<events, correlated>> /\ AddToBuffer(t)
      /\ stack' = Tail(stack)
  <2>1. Head(stack) = h /\ h \in Frame /\ This = t /\ t \in 1 .. Len(events) /\ t \in Nat
    BY <1>1, Innermost
  <2>. QED  BY <2>1 DEF CheckAdd, Running, AddToBuffer, Return
<1>3. Processed(handled', stack') = T
  BY <1>1, <1>2, Innermost, HandledOther DEF Next, CheckAdd, EmitProcess, EmitHandle, Running
<1>4. /\ Walks(stack) = {x \in Rest : x.fn = "check"} \cup {h}
      /\ Walks(stack') = {x \in Rest : x.fn = "check"}
  <2>1. Frames(stack') = Rest
    BY <1>1, <1>2, FramesStep
  <2>. QED  BY <1>1, <1>2, <2>1, FramesTop DEF Walks
<1>5. InWalk(stack') = D \ {t} /\ t \in D
  <2>1. \A x \in Rest : x.event = t => x.fn # "check"
    BY <1>1, <1>2, FramesApart
  <2>. QED  BY <1>2, <1>4, <2>1 DEF InWalk
<1>6. ToCorrelate(events', stack') = ToCorrelate(events, stack)
  <2>1. Elements(<<>>) = {}
    BY DEF Elements
  <2>. QED  BY <1>2, <1>4, <2>1 DEF ToCorrelate
<1>7. /\ D \subseteq T
      /\ Elements(log_events) = OfType(events, B, "LOG")
      /\ Elements(network_events) = OfType(events, B, "NETWORK")
      /\ Distinct(log_events) /\ Distinct(network_events)
  BY DEF EngineInv, BuffersInv
<1>8. T \ InWalk(stack') = B \cup {t} /\ t \notin B
  BY <1>5, <1>7
<1>9. log_events \in Seq(Nat) /\ network_events \in Seq(Nat)
  BY DEF Base, Typed
<1>. HIDE DEF B
<1>10. t \notin Elements(log_events) /\ t \notin Elements(network_events)
  BY <1>7, <1>8 DEF OfType
<1>11. Elements(log_events') = OfType(events, B \cup {t}, "LOG") /\ Distinct(log_events')
  <2>1. CASE events[t].type = "LOG"
    <3>1. log_events' = <<t>> \o log_events
      BY <1>2, <2>1 DEF AddToBuffer
    <3>2. Elements(log_events') = Elements(log_events) \cup {t} /\ Distinct(log_events')
      BY <1>2, <1>7, <1>9, <1>10, <3>1, HoldsFirst
    <3>. QED  BY <1>7, <2>1, <3>2 DEF OfType
  <2>2. CASE events[t].type # "LOG"
    <3>1. log_events' = log_events
      BY <1>2, <2>2 DEF AddToBuffer
    <3>. QED  BY <1>7, <2>2, <3>1 DEF OfType
  <2>. QED  BY <2>1, <2>2
<1>12. Elements(network_events') = OfType(events, B \cup {t}, "NETWORK") /\ Distinct(network_events')
  <2>1. CASE events[t].type = "NETWORK"
    <3>1. network_events' = <<t>> \o network_events
      BY <1>2, <2>1 DEF AddToBuffer
    <3>2. Elements(network_events') = Elements(network_events) \cup {t} /\ Distinct(network_events')
      BY <1>2, <1>7, <1>9, <1>10, <3>1, HoldsFirst
    <3>. QED  BY <1>7, <2>1, <3>2 DEF OfType
  <2>2. CASE events[t].type # "NETWORK"
    <3>1. network_events' = network_events
      BY <1>2, <2>2 DEF AddToBuffer
    <3>. QED  BY <1>7, <2>2, <3>1 DEF OfType
  <2>. QED  BY <2>1, <2>2
<1>13. BuffersInv'
  BY <1>2, <1>3, <1>5, <1>7, <1>8, <1>11, <1>12 DEF BuffersInv
<1>14. PairsInv => PairsInv'
  BY <1>2, <1>3, <1>4, <1>6 DEF PairsInv
<1>15. (MakesLogEvents' <=> MakesLogEvents)
  BY SettingKept DEF Next, setting, MakesLogEvents
<1>. QED  BY <1>2, <1>13, <1>14, <1>15 DEF EngineInv

LEMMA EngineInit == Init => EngineInv
<1>. SUFFICES ASSUME Init PROVE EngineInv
  OBVIOUS
<1>1. /\ stack = <<>> /\ handled = <<>> /\ log_events = <<>> /\ network_events = <<>>
      /\ correlated = <<>>
  BY DEF Init
<1>2. Elements(<<>>) = {} /\ Distinct(<<>>)
  BY FS_EmptySet DEF Elements, Distinct
<1>3. Frames(stack) = {}
  BY <1>1 DEF Frames
<1>4. Walks(stack) = {} /\ InWalk(stack) = {} /\ Processed(handled, stack) = {}
      /\ ToCorrelate(events, stack) = {}
  BY <1>1, <1>2, <1>3 DEF Walks, InWalk, Processed, Pending, EmitsAt, ToCorrelate
<1>5. \A t : OfType(events, {}, t) = {}
  BY DEF OfType
<1>6. BuffersInv
  BY <1>1, <1>2, <1>4, <1>5 DEF BuffersInv
<1>7. PairsInv
  <2>1. {} \X {} = {}
    OBVIOUS
  <2>. QED  BY <1>1, <1>2, <1>4, <1>5, <2>1 DEF PairsInv
<1>. QED  BY <1>1, <1>6, <1>7 DEF EngineInv

LEMMA EngineNext ==
    Base /\ Nested /\ HandledInv /\ WalksApart /\ EngineInv /\ [Next]_vars => EngineInv'
  BY EngineOther, EngineProcess, EngineMatch, EngineAdd

(* Whatever is nested in its walks, the engine correlates each log event   *)
(* with each network event that it has processed exactly once, provided    *)
(* that the handler makes no log events of its own out of correlations     *)
(* (check_correlation in core/nblex_event.c): a pair is correlated by the  *)
(* walk of its younger event, and while a walk that has pairs before it    *)
(* goes on, nothing but correlations is emitted.                           *)
THEOREM EngineIsExact == Spec => []EngineExact
<1>1. Init => Base /\ OwnedInv /\ NestingInv /\ HandledInv /\ WalksApart /\ EngineInv
  <2>1. Init => NestingInv
    BY EmptySeq DEF Init, NestingInv
  <2>. QED  BY <2>1, BaseInit, OwnedInit, HandledInit, WalksApartInit, EngineInit
<1>2. OwnedInv => Nested
  BY DEF OwnedInv
<1>3. Base /\ HandledInv /\ EngineInv => EngineExact
  <2>. SUFFICES ASSUME Base, HandledInv, EngineInv, Idle, ~MakesLogEvents PROVE EngineExact
    BY DEF EngineExact
  <2>1. stack = <<>>
    BY DEF Idle
  <2>2. Frames(stack) = {}
    BY <2>1 DEF Frames
  <2>3. Processed(handled, stack) = Elements(handled) /\ ToCorrelate(events, stack) = {}
    BY <2>2 DEF Walks, Processed, Pending, EmitsAt, ToCorrelate
  <2>4. /\ Distinct(correlated)
        /\ Elements(correlated) =
              OfType(events, Elements(handled), "LOG") \X OfType(events, Elements(handled), "NETWORK")
    BY <2>3 DEF EngineInv, PairsInv
  <2>5. OfType(events, Elements(handled), "LOG") \X OfType(events, Elements(handled), "NETWORK")
        = {p \in Elements(handled) \X Elements(handled) :
              events[p[1]].type = "LOG" /\ events[p[2]].type = "NETWORK"}
    <3>. DEFINE A == OfType(events, Elements(handled), "LOG")
                C == OfType(events, Elements(handled), "NETWORK")
                H == Elements(handled)
    <3>1. /\ \A e : e \in A <=> e \in H /\ events[e].type = "LOG"
          /\ \A e : e \in C <=> e \in H /\ events[e].type = "NETWORK"
      BY DEF OfType
    <3>. HIDE DEF A, C, H
    <3>2. ASSUME NEW p PROVE p \in A \X C <=> p = <<p[1], p[2]>> /\ p[1] \in A /\ p[2] \in C
      OBVIOUS
    <3>3. ASSUME NEW p PROVE p \in H \X H <=> p = <<p[1], p[2]>> /\ p[1] \in H /\ p[2] \in H
      OBVIOUS
    <3>4. ASSUME NEW p
          PROVE  p \in A \X C <=> p \in {q \in H \X H : events[q[1]].type = "LOG"
                                                       /\ events[q[2]].type = "NETWORK"}
      BY <3>1, <3>2, <3>3
    <3>5. A \X C = {q \in H \X H : events[q[1]].type = "LOG" /\ events[q[2]].type = "NETWORK"}
      BY <3>4
    <3>. QED  BY <3>5 DEF A, C, H
  <2>. QED  BY <2>4, <2>5 DEF EngineExact
<1>. QED
  BY <1>1, <1>2, <1>3, BaseNext, OwnedNext, NestingNext, HandledNext, WalksApartNext,
     EngineNext, PTL DEF Spec

----------------------------------------------------------------------------
----------------------------------------------------------------------------
(* The executions of the query in progress, and the events that are on     *)
(* their way to the handler.                                               *)
Execs(s) == {x \in Frames(s) : x.fn = "execute"}
Before(s) == Waiting(s) \cup Pending(s)

LEMMA BeforeStep ==
    ASSUME Base, Nested, [Next]_vars
    PROVE  /\ \A e \in 1 .. Len(events) : e \in Before(stack') => e \in Before(stack)
           /\ \A f, g \in Frame : Calls(g, f) /\ Executes(g, f)
                 => g.event \in Before(stack) /\ g.event \notin Before(stack')
<1>1. ASSUME stack # <<>>, stack' = Tail(stack)
      PROVE  Before(stack') \subseteq Before(stack)
  BY <1>1, EmitsChange DEF Before, Waiting, Pending
<1>2. ASSUME stack # <<>>, NEW f \in Frame, NEW p
      PROVE  /\ EmitsAt(stack, p) = Outer(p) \cup Part(stack[1], p)
             /\ stack[1].fn = "emit" => stack[1].event \notin Outer(p)
             /\ stack' = <<f>> \o Tail(stack) => EmitsAt(stack', p) = Outer(p) \cup Part(f, p)
             /\ \A g \in Frame : stack' = <<g>> \o (<<f>> \o Tail(stack))
                   => EmitsAt(stack', p) = Outer(p) \cup Part(f, p) \cup Part(g, p)
  BY <1>2, EmitsChange
<1>3. ASSUME NEW f \in Frame, GoesOn(f)
      PROVE  Before(stack') \subseteq Before(stack)
  <2>1. Part(f, "filter") = {} /\ Part(f, "handle") = {}
    BY <1>3 DEF GoesOn, Part
  <2>2. stack # <<>> /\ stack' = <<f>> \o Tail(stack)
    BY <1>3 DEF GoesOn
  <2>3. /\ EmitsAt(stack, "filter") = Outer("filter") \cup Part(stack[1], "filter")
        /\ EmitsAt(stack', "filter") = Outer("filter") \cup Part(f, "filter")
    BY <1>2, <2>2
  <2>4. /\ EmitsAt(stack, "handle") = Outer("handle") \cup Part(stack[1], "handle")
        /\ EmitsAt(stack', "handle") = Outer("handle") \cup Part(f, "handle")
    BY <1>2, <2>2
  <2>. QED  BY <2>1, <2>3, <2>4 DEF Before, Waiting, Pending
<1>4. ASSUME NEW f \in Frame, NEW g \in Frame, Calls(g, f)
      PROVE  /\ \A e \in 1 .. Len(events) : e \in Before(stack') => e \in Before(stack)
             /\ Executes(g, f) => g.event \in Before(stack) /\ g.event \notin Before(stack')
  <2>1. /\ stack # <<>> /\ stack' = <<g>> \o (<<f>> \o Tail(stack)) /\ SameCall(f, stack[1])
        /\ stack[1] \in Frame
    BY <1>4, Innermost DEF Calls
  <2>2. /\ EmitsAt(stack, "filter") = Outer("filter") \cup Part(stack[1], "filter")
        /\ stack[1].fn = "emit" => stack[1].event \notin Outer("filter")
        /\ EmitsAt(stack', "filter") = Outer("filter") \cup Part(f, "filter") \cup Part(g, "filter")
    BY <1>2, <2>1
  <2>3. /\ EmitsAt(stack, "handle") = Outer("handle") \cup Part(stack[1], "handle")
        /\ stack[1].fn = "emit" => stack[1].event \notin Outer("handle")
        /\ EmitsAt(stack', "handle") = Outer("handle") \cup Part(f, "handle") \cup Part(g, "handle")
    BY <1>2, <2>1
  <2>4. CASE Checks(g, f)
    <3>1. /\ Part(g, "filter") = {} /\ Part(g, "handle") = {}
          /\ Part(f, "filter") = {} /\ Part(f, "handle") = {f.event}
          /\ Part(stack[1], "filter") = {f.event}
      BY <2>1, <2>4, PartIs DEF Checks, SameCall
    <3>2. ~Executes(g, f)
      BY <2>4 DEF Checks, Executes
    <3>. QED  BY <2>2, <2>3, <3>1, <3>2 DEF Before, Waiting, Pending
  <2>5. CASE Executes(g, f)
    <3>1. /\ Part(g, "filter") = {} /\ Part(g, "handle") = {}
          /\ Part(f, "filter") = {} /\ Part(f, "handle") = {}
          /\ Part(stack[1], "handle") = {f.event}
      BY <2>1, <2>5, PartIs DEF Executes, SameCall
    <3>2. g.event = f.event /\ f.event = stack[1].event /\ stack[1].fn = "emit"
      BY <2>1, <2>5 DEF Executes, SameCall
    <3>. QED  BY <2>2, <2>3, <3>1, <3>2 DEF Before, Waiting, Pending
  <2>6. CASE EmitsResult(g, f)
    <3>1. /\ Part(f, "filter") = {} /\ Part(f, "handle") = {}
          /\ Part(g, "filter") = {g.event} /\ Part(g, "handle") = {}
      BY <2>6, PartIs DEF EmitsResult
    <3>2. g.event \notin 1 .. Len(events)
      BY <2>6, NewNat DEF EmitsResult
    <3>3. ~Executes(g, f)
      BY <2>6 DEF EmitsResult, Executes
    <3>. QED  BY <2>2, <2>3, <3>1, <3>2, <3>3 DEF Before, Waiting, Pending
  <2>. QED  BY <1>4, <2>4, <2>5, <2>6 DEF Calls
<1>5. ASSUME NEW g \in Frame, Begins(g)
      PROVE  \A e \in 1 .. Len(events) : e \notin Before(stack')
  <2>1. \A x \in Frames(stack') : x.event = New
    BY <1>5, FramesBegin DEF Begins
  <2>. QED  BY <2>1, NewNat DEF Before, Waiting, Pending, EmitsAt
<1>6. CASE Stays
  <2>1. stack' = stack
    BY <1>6 DEF Stays
  <2>2. ASSUME NEW f \in Frame, NEW g \in Frame PROVE ~Calls(g, f)
    <3>. SUFFICES ASSUME Calls(g, f) PROVE FALSE
      OBVIOUS
    <3>. QED  BY <2>1, StackCalls
  <2>. QED  BY <2>1, <2>2
<1>7. \A f, g \in Frame : Calls(g, f) /\ Executes(g, f)
          => g.event \in Before(stack) /\ g.event \notin Before(stack')
  BY <1>4
<1>8. \A e \in 1 .. Len(events) : e \in Before(stack') => e \in Before(stack)
  <2>1. Returns => Before(stack') \subseteq Before(stack)
    BY <1>1 DEF Returns
  <2>. QED  BY <1>3, <1>4, <1>5, <1>6, <2>1, Steps DEF StepKind
<1>. QED  BY <1>7, <1>8

(* Steps of calls other than an execution.                                 *)
LEMMA Outside ==
    ASSUME Base, Nested, [Next]_vars, stack # <<>> => stack[1].fn # "execute"
    PROVE  \/ Execs(stack') = Execs(stack)
           \/ \E g \in Frame : /\ Execs(stack') = Execs(stack) \cup {g}
                               /\ g.fn = "execute" /\ g.at = "begin" /\ g.stage = 1
                               /\ g.event = New \/ g.event \in Before(stack)
                               /\ g.event \notin Before(stack')
<1>1. stack # <<>> => Execs(stack) = {x \in Rest : x.fn = "execute"}
  BY FramesTop DEF Execs
<1>2. CASE Returns
  BY <1>1, <1>2 DEF Returns, Execs, Rest
<1>3. ASSUME NEW f \in Frame, GoesOn(f) PROVE Execs(stack') = Execs(stack)
  <2>1. Frames(stack') = Rest \cup {f} /\ stack # <<>> /\ f.fn # "execute"
    BY <1>3, FramesStep DEF GoesOn, SameCall
  <2>. QED  BY <1>1, <2>1 DEF Execs
<1>4. ASSUME NEW f \in Frame, NEW g \in Frame, Calls(g, f)
      PROVE  \/ Execs(stack') = Execs(stack)
             \/ /\ Execs(stack') = Execs(stack) \cup {g}
                /\ g.fn = "execute" /\ g.at = "begin" /\ g.stage = 1
                /\ g.event \in Before(stack) /\ g.event \notin Before(stack')
  <2>1. Frames(stack') = Rest \cup {f, g} /\ stack # <<>> /\ f.fn # "execute" /\ g.stage = 1
    BY <1>4, FramesStep DEF Calls, SameCall
  <2>2. CASE Executes(g, f)
    <3>1. g.event \in Before(stack) /\ g.event \notin Before(stack')
      BY <1>4, <2>2, BeforeStep
    <3>2. g.fn = "execute" /\ g.at = "begin"
      BY <2>2 DEF Executes
    <3>. QED  BY <1>1, <2>1, <3>1, <3>2 DEF Execs
  <2>3. CASE g.fn # "execute"
    BY <1>1, <2>1, <2>3 DEF Execs
  <2>. QED  BY <1>4, <2>2, <2>3 DEF Calls, Checks, EmitsResult
<1>5. ASSUME NEW g \in Frame, Begins(g)
      PROVE  \/ Execs(stack') = Execs(stack)
             \/ /\ Execs(stack') = Execs(stack) \cup {g}
                /\ g.fn = "execute" /\ g.at = "begin" /\ g.stage = 1
                /\ g.event = New /\ g.event \notin Before(stack')
  <2>1. /\ Frames(stack) = {}
        /\ \/ Frames(stack') = {g}
           \/ \E c \in Frame : Frames(stack') = {g, c} /\ c.fn = "caller" /\ c.event = New
    BY <1>5, FramesBegin
  <2>2. g.stage = 1 /\ g.event = New /\ (g.fn # "emit" => g.fn = "execute" /\ g.at = "begin")
    BY <1>5 DEF Begins
  <2>3. CASE g.fn = "emit"
    BY <2>1, <2>3 DEF Execs
  <2>4. CASE g.fn # "emit"
    <3>1. Execs(stack') = Execs(stack) \cup {g}
      BY <2>1, <2>2, <2>4 DEF Execs
    <3>2. Before(stack') = {}
      BY <2>1, <2>2, <2>4 DEF Before, Waiting, Pending, EmitsAt
    <3>. QED  BY <2>2, <2>4, <3>1, <3>2
  <2>. QED  BY <2>3, <2>4
<1>6. CASE Stays
  BY <1>6 DEF Stays
<1>. QED  BY <1>2, <1>3, <1>4, <1>5, <1>6, Steps DEF StepKind

(* Only executions change what the query holds.                            *)
querying == <<contexts, executed, joined, counted>>

LEMMA QueryKept ==
    ASSUME Base, [Next]_vars, stack # <<>> => stack[1].fn # "execute"
    PROVE  UNCHANGED querying
<1>1. stack # <<>> => Head(stack) = stack[1]
  BY Innermost
<1>2. Next \/ UNCHANGED vars
  OBVIOUS
<1>. QED
  BY <1>1, <1>2
     DEF Next, FileLine, Packet, CallerExecutes, CallerEmits, Source, CallerFrees, EmitDrop,
         EmitProcess, EmitHandle, HandlerPrint, EmitFree, CheckMatch, CheckAdd, ExecuteBegin,
         ExecuteRefuse, ExecuteEnd, ExecuteFilter, ExecuteConfused, ExecuteAggregate,
         ExecuteCorrelate, CorrelateRight, CorrelateDone, CorrelateMatch, Running,
         vars, execution, querying

LEMMA ExecutePoints ==
    ASSUME Base, [Next]_vars, stack # <<>>, stack[1].fn = "execute"
    PROVE  \/ UNCHANGED vars
           \/ stack[1].at = "begin" /\ ExecuteBegin
           \/ stack[1].at = "stage" /\ \/ ExecuteRefuse \/ ExecuteEnd \/ ExecuteFilter
                                       \/ ExecuteConfused \/ ExecuteAggregate \/ ExecuteCorrelate
           \/ stack[1].at = "left" /\ (CorrelateRight \/ CorrelateMatch("left"))
           \/ stack[1].at = "right" /\ (CorrelateDone \/ CorrelateMatch("right"))
<1>1. Head(stack) = stack[1]
  BY Innermost
<1>2. Next \/ UNCHANGED vars
  OBVIOUS
<1>. QED
  BY <1>1, <1>2
     DEF Next, FileLine, Packet, CallerExecutes, CallerEmits, Source, CallerFrees, EmitDrop,
         EmitProcess, EmitHandle, HandlerPrint, EmitFree, CheckMatch, CheckAdd, ExecuteBegin,
         ExecuteRefuse, ExecuteEnd, ExecuteFilter, ExecuteConfused, ExecuteAggregate,
         ExecuteCorrelate, CorrelateRight, CorrelateDone, CorrelateMatch, Running

(* The executions other than the innermost call, and after its steps.      *)
Others == {x \in Rest : x.fn = "execute"}

LEMMA ExecsStep ==
    ASSUME Base, Nested, stack # <<>>, stack[1].fn = "execute"
    PROVE  /\ Execs(stack) = Others \cup {stack[1]}
           /\ \A x \in Others : x.event # stack[1].event
           /\ stack' = Tail(stack) => Execs(stack') = Others
           /\ \A f \in Frame : f.fn = "execute" =>
                 /\ stack' = <<f>> \o Tail(stack) => Execs(stack') = Others \cup {f}
                 /\ \A g \in Frame : /\ g.fn = "emit"
                                     /\ stack' = <<g>> \o (<<f>> \o Tail(stack))
                                     => Execs(stack') = Others \cup {f}
<1>1. Execs(stack) = Others \cup {stack[1]}
  BY FramesTop DEF Execs, Others
<1>2. \A x \in Others : x.event # stack[1].event
  BY FramesApart DEF Others
<1>3. stack' = Tail(stack) => Execs(stack') = Others
  BY DEF Execs, Others, Rest
<1>4. ASSUME NEW f \in Frame, f.fn = "execute"
      PROVE  /\ stack' = <<f>> \o Tail(stack) => Execs(stack') = Others \cup {f}
             /\ \A g \in Frame : /\ g.fn = "emit"
                                 /\ stack' = <<g>> \o (<<f>> \o Tail(stack))
                                 => Execs(stack') = Others \cup {f}
  <2>1. /\ stack' = <<f>> \o Tail(stack) => Frames(stack') = Rest \cup {f}
        /\ \A g \in Frame : stack' = <<g>> \o (<<f>> \o Tail(stack))
                               => Frames(stack') = Rest \cup {f, g}
    BY FramesStep
  <2>. QED  BY <1>4, <2>1 DEF Execs, Others
<1>. QED  BY <1>1, <1>2, <1>3, <1>4

(* The innermost execution at another point, stage and walk.               *)
Becomes(at, stage, todo) ==
    \E f \in Frame : /\ f.fn = "execute" /\ f.event = stack[1].event
                     /\ f.at = at /\ f.stage = stage /\ f.todo = todo
                     /\ Execs(stack') = Others \cup {f}

(* The buffers of the query.                                               *)
LeftEvents == IF contexts = <<>> THEN <<>> ELSE contexts[1].left_events
RightEvents == IF contexts = <<>> THEN <<>> ELSE contexts[1].right_events

(* The pair that a walk makes with an event of the other buffer.           *)
Joining(at, e, y) == IF at = "left" THEN <<e, y>> ELSE <<y, e>>
Joins(x, y) == Joining(x.at, x.event, y)

(* What a step of an execution does to the executions and to what the      *)
(* query holds.                                                            *)
ExecutionStep ==
    LET h == stack[1]
        t == h.event
    IN  \/ UNCHANGED querying /\ Execs(stack') = Execs(stack)
        \/ /\ h.at = "begin" /\ Becomes("stage", h.stage, h.todo)
           /\ executed' = executed \cup {t} /\ UNCHANGED <<contexts, joined, counted>>
        \/ /\ h.at = "stage" /\ Execs(stack') = Others /\ UNCHANGED querying
           /\ h.stage <= Len(query) => ~Accepts(query[h.stage], t)
        \/ /\ h.at = "stage" /\ Becomes("stage", h.stage + 1, <<>>) /\ UNCHANGED querying
           /\ h.stage <= Len(query) /\ ~Stateful(query[h.stage])
           /\ Accepts(query[h.stage], t)
        \/ /\ h.at = "stage" /\ Becomes("stage", h.stage + 1, <<>>)
           /\ h.stage <= Len(query) /\ query[h.stage].type = "aggregate"
           /\ Accepts(query[h.stage], t)
           /\ counted' = Append(counted, t) /\ UNCHANGED <<executed, joined>>
        \/ /\ h.at = "stage" /\ h.stage <= Len(query) /\ query[h.stage].type = "correlate"
           /\ Accepts(query[h.stage], t)
           /\ \/ /\ Passes(t, query[h.stage].left) /\ LeftEvents' = <<t>> \o LeftEvents
                 /\ Becomes("left", h.stage, RightEvents)
              \/ /\ ~Passes(t, query[h.stage].left) /\ LeftEvents' = LeftEvents
                 /\ Becomes("left", h.stage, <<>>)
           /\ RightEvents' = RightEvents /\ UNCHANGED <<executed, joined, counted>>
        \/ /\ h.at = "left" /\ h.todo = <<>>
           /\ \/ /\ Passes(t, query[h.stage].right) /\ RightEvents' = <<t>> \o RightEvents
                 /\ Becomes("right", h.stage, LeftEvents)
              \/ /\ ~Passes(t, query[h.stage].right) /\ RightEvents' = RightEvents
                 /\ Becomes("stage", h.stage + 1, <<>>)
           /\ LeftEvents' = LeftEvents /\ UNCHANGED <<executed, joined, counted>>
        \/ /\ h.at = "right" /\ h.todo = <<>> /\ UNCHANGED querying
           /\ Becomes("stage", h.stage + 1, <<>>)
        \/ /\ h.at \in {"left", "right"} /\ h.todo # <<>>
           /\ joined' = Append(joined, Joins(h, Head(h.todo)))
           /\ Becomes(h.at, h.stage, Tail(h.todo)) /\ UNCHANGED <<contexts, executed, counted>>

LEMMA BecomesBy ==
    ASSUME Base, Nested, stack # <<>>, stack[1].fn = "execute",
           NEW at \in Points, NEW stage \in Nat, NEW todo \in Seq(Nat),
           NEW f, f = [stack[1] EXCEPT !.at = at, !.stage = stage, !.todo = todo],
           \/ stack' = <<f>> \o Tail(stack)
           \/ \E type : EmitResult(type, <<f>> \o Tail(stack))
    PROVE  Becomes(at, stage, todo)
<1>1. stack[1] \in Frame
  BY Innermost
<1>2. /\ f \in Frame /\ f.fn = "execute" /\ f.event = stack[1].event
      /\ f.at = at /\ f.stage = stage /\ f.todo = todo
  BY <1>1 DEF Frame
<1>. DEFINE g == Call("emit", New, "filter", <<>>)
<1>3. g \in Frame /\ g.fn = "emit"
  <2>1. New \in Nat /\ <<>> \in Seq(Nat) /\ "filter" \in Points
    BY NewNat DEF Points
  <2>. QED  BY <2>1 DEF Call, Frame
<1>4. stack' = <<f>> \o Tail(stack) \/ stack' = <<g>> \o (<<f>> \o Tail(stack))
  BY DEF EmitResult
<1>. HIDE DEF g
<1>5. Execs(stack') = Others \cup {f}
  BY <1>2, <1>3, <1>4, ExecsStep
<1>. QED  BY <1>2, <1>5 DEF Becomes

LEMMA ExecutionSteps ==
    ASSUME Base, Nested, [Next]_vars, stack # <<>>, stack[1].fn = "execute"
    PROVE  ExecutionStep
<1>. DEFINE h == stack[1]
            t == h.event
<1>1. /\ Head(stack) = h /\ h \in Frame /\ This = t /\ Stage = h.stage /\ t \in Nat
      /\ Stage \in 1 .. Len(query) + 1 /\ Len(query) \in Nat /\ Stage \in Nat
      /\ h.todo \in Seq(Nat) /\ h.fn = "execute"
  <2>1. Head(stack) = h /\ h \in Frame /\ This = t /\ Stage = h.stage /\ t \in Nat
        /\ Stage \in 1 .. Len(query) + 1 /\ Len(query) \in Nat /\ Stage \in Nat
    BY Innermost
  <2>. QED  BY <2>1 DEF Frame
<1>2. \A at \in Points, k \in Nat, todo \in Seq(Nat) :
          LET f == [h EXCEPT !.at = at, !.stage = k, !.todo = todo]
          IN  \/ stack' = <<f>> \o Tail(stack)
              \/ \E type : EmitResult(type, <<f>> \o Tail(stack))
              => Becomes(at, k, todo)
  BY BecomesBy
<1>3. \A at \in Points : Goto(at) = <<[h EXCEPT !.at = at, !.stage = Stage, !.todo = h.todo]>> \o Tail(stack)
  <2>1. \A at \in Points : [h EXCEPT !.at = at] = [h EXCEPT !.at = at, !.stage = h.stage, !.todo = h.todo]
    BY <1>1 DEF Frame
  <2>. QED  BY <1>1, <2>1 DEF Goto
<1>4. \A k \in Nat : GotoStage(k) =
          <<[h EXCEPT !.at = "stage", !.stage = k, !.todo = <<>>]>> \o Tail(stack)
  <2>1. \A k \in Nat : [h EXCEPT !.stage = k, !.at = "stage", !.todo = <<>>]
                       = [h EXCEPT !.at = "stage", !.stage = k, !.todo = <<>>]
    BY <1>1 DEF Frame
  <2>. QED  BY <1>1, <2>1 DEF GotoStage
<1>5. \A at \in Points, todo \in Seq(Nat) : Walk(at, todo) =
          <<[h EXCEPT !.at = at, !.stage = Stage, !.todo = todo]>> \o Tail(stack)
  <2>1. \A at \in Points, todo \in Seq(Nat) :
            [h EXCEPT !.at = at, !.todo = todo]
            = [h EXCEPT !.at = at, !.stage = h.stage, !.todo = todo]
    BY <1>1 DEF Frame
  <2>. QED  BY <1>1, <2>1 DEF Walk
<1>6. {"stage", "left", "right"} \subseteq Points /\ <<>> \in Seq(Nat) /\ Stage + 1 \in Nat
  BY <1>1 DEF Points
<1>7. stack' = Tail(stack) => Execs(stack') = Others
  BY ExecsStep
<1>8. ASSUME stack' = GotoStage(Stage + 1) \/ \E type : EmitResult(type, GotoStage(Stage + 1))
      PROVE  Becomes("stage", h.stage + 1, <<>>)
  BY <1>1, <1>2, <1>4, <1>6, <1>8
<1>9. CASE UNCHANGED vars
  BY <1>9 DEF vars, execution, querying, ExecutionStep
<1>10. CASE h.at = "begin" /\ ExecuteBegin
  <2>1. stack' = Goto("stage") /\ executed' = executed \cup {t}
        /\ UNCHANGED <<contexts, joined, counted>>
    BY <1>1, <1>10 DEF ExecuteBegin
  <2>2. Becomes("stage", h.stage, h.todo)
    BY <1>1, <1>2, <1>3, <1>6, <2>1
  <2>. QED  BY <1>10, <2>1, <2>2 DEF ExecutionStep
<1>11. CASE h.at = "stage" /\ (ExecuteRefuse \/ ExecuteEnd)
  <2>1. stack' = Tail(stack) /\ UNCHANGED querying
        /\ (h.stage <= Len(query) => ~Accepts(query[h.stage], t))
    BY <1>1, <1>11 DEF ExecuteRefuse, ExecuteEnd, Refused, Answer, Return, querying
  <2>. QED  BY <1>7, <1>11, <2>1 DEF ExecutionStep
<1>12. CASE h.at = "stage" /\ ExecuteFilter
  <2>1. /\ stack' = GotoStage(Stage + 1) /\ UNCHANGED querying
        /\ h.stage <= Len(query) /\ ~Stateful(query[h.stage]) /\ Accepts(query[h.stage], t)
    BY <1>1, <1>12 DEF ExecuteFilter, execution, querying
  <2>2. Becomes("stage", h.stage + 1, <<>>)
    BY <1>8, <2>1
  <2>. QED  BY <1>12, <2>1, <2>2 DEF ExecutionStep
<1>13. CASE h.at = "stage" /\ ExecuteConfused
  BY <1>13 DEF ExecuteConfused, execution, querying, ExecutionStep
<1>14. CASE h.at = "stage" /\ ExecuteAggregate
  <2>1. /\ h.stage <= Len(query) /\ query[h.stage].type = "aggregate" /\ Accepts(query[h.stage], t)
        /\ counted' = Append(counted, t) /\ UNCHANGED <<executed, joined>>
        /\ stack' = GotoStage(Stage + 1) \/ EmitResult("LOG", GotoStage(Stage + 1))
    BY <1>1, <1>14 DEF ExecuteAggregate
  <2>2. Becomes("stage", h.stage + 1, <<>>)
    BY <1>8, <2>1
  <2>. QED  BY <1>14, <2>1, <2>2 DEF ExecutionStep
<1>15. CASE h.at = "stage" /\ ExecuteCorrelate
  <2>. DEFINE cs == Contexts(query[Stage])
  <2>1. /\ h.stage <= Len(query) /\ query[h.stage].type = "correlate" /\ Accepts(query[h.stage], t)
        /\ UNCHANGED <<executed, joined, counted>>
        /\ IF Left(t) THEN contexts' = WithLeft(cs, t) /\ stack' = Walk("left", cs[1].right_events)
                      ELSE contexts' = cs /\ stack' = Walk("left", <<>>)
        /\ ~Confused(query[Stage])
    BY <1>1, <1>15 DEF ExecuteCorrelate, Left
  <2>2. cs \in Seq(Context) /\ Len(cs) = 1 /\ cs[1] \in Context
    BY <1>1, <2>1, StageTyped, ContextsTyped DEF Stateful
  <2>3. cs[1].left_events = LeftEvents /\ cs[1].right_events = RightEvents
    BY DEF Contexts, NewContext, LeftEvents, RightEvents
  <2>4. cs # <<>> /\ cs[1].right_events \in Seq(Nat)
    <3>1. \A d \in Seq(Context) : Len(d) = 1 => d # <<>>
      OBVIOUS
    <3>. HIDE DEF cs
    <3>. QED  BY <2>2, <3>1 DEF Context
  <2>. HIDE DEF cs
  <2>5. CASE Left(t)
    <3>1. contexts' = WithLeft(cs, t) /\ stack' = Walk("left", cs[1].right_events)
      BY <2>1, <2>5
    <3>2. /\ WithLeft(cs, t) # <<>>
          /\ WithLeft(cs, t)[1].left_events = <<t>> \o cs[1].left_events
          /\ WithLeft(cs, t)[1].right_events = cs[1].right_events
      BY <1>1, <2>2, ContextChanged
    <3>3. LeftEvents' = <<t>> \o LeftEvents /\ RightEvents' = RightEvents
      BY <2>3, <3>1, <3>2 DEF LeftEvents, RightEvents
    <3>4. Becomes("left", h.stage, RightEvents)
      BY <1>1, <1>2, <1>5, <1>6, <2>3, <2>4, <3>1
    <3>5. Passes(t, query[h.stage].left)
      BY <1>1, <2>5 DEF Left
    <3>. QED  BY <1>15, <2>1, <3>3, <3>4, <3>5 DEF ExecutionStep
  <2>6. CASE ~Left(t)
    <3>1. contexts' = cs /\ stack' = Walk("left", <<>>)
      BY <2>1, <2>6
    <3>2. LeftEvents' = LeftEvents /\ RightEvents' = RightEvents
      BY <2>3, <2>4, <3>1 DEF LeftEvents, RightEvents
    <3>3. Becomes("left", h.stage, <<>>)
      BY <1>1, <1>2, <1>5, <1>6, <3>1
    <3>4. ~Passes(t, query[h.stage].left)
      BY <1>1, <2>6 DEF Left
    <3>. QED  BY <1>15, <2>1, <3>2, <3>3, <3>4 DEF ExecutionStep
  <2>. QED  BY <2>5, <2>6
<1>16. CASE h.at = "left" /\ CorrelateRight
  <2>1. /\ h.todo = <<>> /\ UNCHANGED <<executed, joined, counted>>
        /\ IF Right(t) THEN /\ contexts' = WithRight(contexts, t)
                            /\ stack' = Walk("right", contexts[1].left_events)
                       ELSE stack' = GotoStage(Stage + 1) /\ UNCHANGED contexts
    BY <1>1, <1>16 DEF CorrelateRight, Right
  <2>2. contexts # <<>>
    <3>1. 1 \in 1 .. Len(stack)
      BY Returned DEF Base, Typed
    <3>. QED  BY <1>1, <1>16, <3>1 DEF Base, CallsTyped, WalkInStage
  <2>3. contexts \in Seq(Context) /\ Len(contexts) = 1 /\ contexts[1] \in Context
    BY <2>2, ContextFound
  <2>4. /\ contexts[1].left_events = LeftEvents /\ contexts[1].right_events = RightEvents
        /\ LeftEvents \in Seq(Nat)
    BY <2>2, <2>3 DEF LeftEvents, RightEvents, Context
  <2>5. CASE Right(t)
    <3>1. contexts' = WithRight(contexts, t) /\ stack' = Walk("right", contexts[1].left_events)
      BY <2>1, <2>5
    <3>2. /\ WithRight(contexts, t) # <<>>
          /\ WithRight(contexts, t)[1].left_events = contexts[1].left_events
          /\ WithRight(contexts, t)[1].right_events = <<t>> \o contexts[1].right_events
      BY <1>1, <2>3, ContextChanged
    <3>3. RightEvents' = <<t>> \o RightEvents /\ LeftEvents' = LeftEvents
      BY <2>4, <3>1, <3>2 DEF LeftEvents, RightEvents
    <3>4. Becomes("right", h.stage, LeftEvents)
      BY <1>1, <1>2, <1>5, <1>6, <2>4, <3>1
    <3>5. Passes(t, query[h.stage].right)
      BY <1>1, <2>5 DEF Right
    <3>. QED  BY <1>16, <2>1, <3>3, <3>4, <3>5 DEF ExecutionStep
  <2>6. CASE ~Right(t)
    <3>1. stack' = GotoStage(Stage + 1) /\ UNCHANGED contexts
      BY <2>1, <2>6
    <3>2. LeftEvents' = LeftEvents /\ RightEvents' = RightEvents
      BY <3>1 DEF LeftEvents, RightEvents
    <3>3. Becomes("stage", h.stage + 1, <<>>)
      BY <1>8, <3>1
    <3>4. ~Passes(t, query[h.stage].right)
      BY <1>1, <2>6 DEF Right
    <3>. QED  BY <1>16, <2>1, <3>2, <3>3, <3>4 DEF ExecutionStep
  <2>. QED  BY <2>5, <2>6
<1>17. CASE h.at = "right" /\ CorrelateDone
  <2>1. h.todo = <<>> /\ UNCHANGED querying /\ stack' = GotoStage(Stage + 1)
    BY <1>1, <1>17 DEF CorrelateDone, execution, querying
  <2>2. Becomes("stage", h.stage + 1, <<>>)
    BY <1>8, <2>1
  <2>. QED  BY <1>17, <2>1, <2>2 DEF ExecutionStep
<1>18. ASSUME NEW side \in {"left", "right"}, h.at = side, CorrelateMatch(side)
       PROVE  ExecutionStep
  <2>1. /\ h.todo # <<>> /\ UNCHANGED <<contexts, executed, counted>>
        /\ joined' = Append(joined, Joins(h, Head(h.todo)))
        /\ EmitResult("CORRELATION", Walk(side, Tail(h.todo)))
    BY <1>1, <1>18 DEF CorrelateMatch, Joins, Joining
  <2>2. Tail(h.todo) \in Seq(Nat)
    BY <1>1, <2>1, HoldsRest
  <2>3. Becomes(side, h.stage, Tail(h.todo))
    BY <1>1, <1>2, <1>5, <1>6, <2>1, <2>2
  <2>. QED  BY <1>18, <2>1, <2>3 DEF ExecutionStep
<1>. QED  BY <1>9, <1>10, <1>11, <1>12, <1>13, <1>14, <1>15, <1>16, <1>17, <1>18, ExecutePoints

----------------------------------------------------------------------------
(* Which stages let an event through does not change.                      *)
LEMMA AcceptsKept ==
    ASSUME Base, [Next]_vars, NEW e \in 1 .. Len(events)
    PROVE  /\ \A f : Passes(e, f)' <=> Passes(e, f)
           /\ \A k : Accepts(query[k], e)' <=> Accepts(query[k], e)
           /\ \A k : Satisfies(e, k)' <=> Satisfies(e, k)
<1>1. Kept(e) /\ query' = query
  BY Steps, EventsStep, SettingKept DEF setting
<1>2. \A f : Passes(e, f)' <=> Passes(e, f)
  BY <1>1 DEF Passes, Kept
<1>3. \A k : Accepts(query[k], e)' <=> Accepts(query[k], e)
  BY <1>1, <1>2 DEF Accepts
<1>. QED  BY <1>2, <1>3 DEF Satisfies

LEMMA SatisfiesMore ==
    ASSUME NEW e, NEW k \in Nat
    PROVE  /\ Satisfies(e, k + 1) <=> Satisfies(e, k) /\ Accepts(query[k + 1], e)
           /\ Satisfies(e, 0)
           /\ \A j \in 1 .. k : Satisfies(e, k) => Satisfies(e, j) /\ Accepts(query[j], e)
<1>1. \A j \in 1 .. (k + 1) : j \in 1 .. k \/ j = k + 1
  OBVIOUS
<1>2. k + 1 \in 1 .. (k + 1) /\ \A j \in 1 .. k : j \in 1 .. (k + 1)
  OBVIOUS
<1>3. Satisfies(e, k + 1) <=> Satisfies(e, k) /\ Accepts(query[k + 1], e)
  BY <1>1, <1>2 DEF Satisfies
<1>4. Satisfies(e, 0)
  BY DEF Satisfies
<1>5. \A j \in 1 .. k : Satisfies(e, k) => Satisfies(e, j) /\ Accepts(query[j], e)
  <2>1. \A j \in 1 .. k : \A i \in 1 .. j : i \in 1 .. k
    OBVIOUS
  <2>. QED  BY <2>1 DEF Satisfies
<1>. QED  BY <1>3, <1>4, <1>5

(* The query is executed on an event once, and an execution comes to a     *)
(* stage when all the stages before it have let its event through.         *)
Reached(x) ==
    IF x.at = "begin" THEN x.stage = 1 /\ x.event \notin executed
    ELSE /\ x.event \in executed /\ Satisfies(x.event, x.stage - 1)
         /\ x.at \in {"left", "right"} => Accepts(query[x.stage], x.event)

ExecInv ==
    /\ executed \subseteq 1 .. Len(events)
    /\ \A e \in executed : e \notin Before(stack)
    /\ \A x \in Execs(stack) : x.event \notin Before(stack) /\ Reached(x)

LEMMA ExecInit == Init => ExecInv
<1>. SUFFICES ASSUME Init PROVE ExecInv
  OBVIOUS
<1>1. stack = <<>> /\ executed = {}
  BY DEF Init
<1>. QED  BY <1>1 DEF ExecInv, Execs, Frames

(* The events of the executions.                                           *)
LEMMA ExecsTyped ==
    ASSUME Base
    PROVE  \A x \in Execs(stack) :
              /\ x \in Frame /\ x.event \in 1 .. Len(events) /\ x.event \in Nat
              /\ x.stage \in 1 .. Len(query) + 1 /\ x.todo \in Seq(Nat) /\ x.fn = "execute"
              /\ x.at \in {"left", "right"} =>
                    x.stage <= Len(query) /\ query[x.stage].type = "correlate"
<1>1. stack \in Seq(Frame)
  BY DEF Base, Typed
<1>2. \A i \in 1 .. Len(stack) : stack[i] \in Frame
  BY <1>1, ElementOfSeq
<1>. QED  BY <1>2 DEF Execs, Frames, Base, CallsTyped, WalkInStage, Frame

LEMMA ExecNext == Base /\ Nested /\ ExecInv /\ [Next]_vars => ExecInv'
<1>. SUFFICES ASSUME Base, Nested, ExecInv, [Next]_vars PROVE ExecInv'
  OBVIOUS
<1>1. /\ Len(events) \in Nat /\ Len(events') \in {Len(events), Len(events) + 1}
      /\ New = Len(events) + 1 /\ New \notin 1 .. Len(events)
  BY Steps, EventsStep, NewNat
<1>2. query' = query
  BY SettingKept DEF setting
<1>3. \A e \in 1 .. Len(events) : e \in Before(stack') => e \in Before(stack)
  BY BeforeStep
<1>4. \A x \in Execs(stack) : x.event \in 1 .. Len(events) /\ x.stage \in 1 .. Len(query) + 1
  BY ExecsTyped
<1>5. \A e \in 1 .. Len(events) : \A k : /\ Satisfies(e, k)' <=> Satisfies(e, k)
                                         /\ Accepts(query[k], e)' <=> Accepts(query[k], e)
  BY AcceptsKept
<1>6. ASSUME executed' = executed, NEW x \in Execs(stack)
      PROVE  x.event \notin Before(stack') /\ Reached(x)'
  <2>1. x.event \notin Before(stack') /\ Reached(x)
    BY <1>3, <1>4 DEF ExecInv
  <2>. QED  BY <1>4, <1>5, <1>6, <2>1 DEF Reached
<1>7. ASSUME executed' = executed
      PROVE  executed' \subseteq 1 .. Len(events') /\ \A e \in executed' : e \notin Before(stack')
  BY <1>1, <1>3, <1>7 DEF ExecInv
<1>8. CASE stack # <<>> => stack[1].fn # "execute"
  <2>1. executed' = executed
    BY <1>8, QueryKept DEF querying
  <2>2. ASSUME NEW g \in Frame, g.fn = "execute", g.at = "begin", g.stage = 1,
               g.event = New \/ g.event \in Before(stack), g.event \notin Before(stack')
        PROVE  g.event \notin Before(stack') /\ Reached(g)'
    BY <1>1, <2>1, <2>2 DEF ExecInv, Reached
  <2>. QED  BY <1>6, <1>7, <1>8, <2>1, <2>2, Outside DEF ExecInv
<1>9. CASE stack # <<>> /\ stack[1].fn = "execute"
  <2>. DEFINE h == stack[1]
              t == h.event
  <2>1. /\ h \in Execs(stack) /\ Others \subseteq Execs(stack) /\ \A x \in Others : x.event # t
    BY <1>9, ExecsStep
  <2>2. /\ h.stage \in Nat /\ h.stage \in 1 .. Len(query) + 1 /\ t \in 1 .. Len(events)
        /\ t \notin Before(stack') /\ Reached(h) /\ Len(query) \in Nat
    BY <1>3, <1>4, <1>9, <2>1, Innermost DEF ExecInv
  <2>3. ASSUME executed' = executed, NEW f, f.event = t, f.at # "begin", t \in executed,
               Satisfies(t, f.stage - 1),
               f.at \in {"left", "right"} => Accepts(query[f.stage], t),
               Execs(stack') = Others \cup {f}
        PROVE  ExecInv'
    <3>1. f.event \notin Before(stack') /\ Reached(f)'
      BY <1>5, <2>2, <2>3 DEF Reached
    <3>. QED  BY <1>6, <1>7, <2>1, <2>3, <3>1 DEF ExecInv
  <2>4. \A k \in Nat \ {0} : (k + 1) - 1 = k
                             /\ (Satisfies(t, k) <=> Satisfies(t, k - 1) /\ Accepts(query[k], t))
    <3>1. ASSUME NEW k \in Nat \ {0}
          PROVE  (k + 1) - 1 = k
                 /\ (Satisfies(t, k) <=> Satisfies(t, k - 1) /\ Accepts(query[k], t))
      <4>1. k - 1 \in Nat /\ (k - 1) + 1 = k
        OBVIOUS
      <4>2. Satisfies(t, (k - 1) + 1) <=> Satisfies(t, k - 1) /\ Accepts(query[(k - 1) + 1], t)
        BY <4>1, SatisfiesMore
      <4>. QED  BY <4>1, <4>2
    <3>. QED  BY <3>1
  <2>5. h.at # "begin" => /\ t \in executed /\ Satisfies(t, h.stage - 1)
                          /\ h.at \in {"left", "right"} => Accepts(query[h.stage], t)
    BY <2>2 DEF Reached
  <2>6. h.stage \in Nat \ {0}
    BY <2>2
  <2>7. ASSUME h.at # "begin", executed' = executed, Accepts(query[h.stage], t),
               Becomes("stage", h.stage + 1, <<>>)
        PROVE  ExecInv'
    <3>1. PICK f \in Frame : /\ f.event = t /\ f.at = "stage" /\ f.stage = h.stage + 1
                             /\ Execs(stack') = Others \cup {f}
      BY <2>7 DEF Becomes
    <3>. QED  BY <2>3, <2>4, <2>5, <2>6, <2>7, <3>1
  <2>8. ASSUME NEW at \in {"left", "right"}, NEW todo, Becomes(at, h.stage, todo),
               h.at # "begin", executed' = executed, Accepts(query[h.stage], t)
        PROVE  ExecInv'
    <3>1. PICK f \in Frame : /\ f.event = t /\ f.at = at /\ f.stage = h.stage
                             /\ Execs(stack') = Others \cup {f}
      BY <2>8 DEF Becomes
    <3>. QED  BY <2>3, <2>5, <2>8, <3>1
  <2>9. CASE executed' = executed /\ Execs(stack') = Execs(stack)
    BY <1>6, <1>7, <2>9 DEF ExecInv
  <2>10. CASE executed' = executed /\ Execs(stack') = Others
    BY <1>6, <1>7, <2>1, <2>10 DEF ExecInv
  <2>11. CASE /\ h.at = "begin" /\ Becomes("stage", h.stage, h.todo)
              /\ executed' = executed \cup {t}
    <3>1. PICK f \in Frame : /\ f.event = t /\ f.at = "stage" /\ f.stage = h.stage
                             /\ Execs(stack') = Others \cup {f}
      BY <2>11 DEF Becomes
    <3>2. h.stage = 1 /\ Satisfies(t, 1 - 1)
      <4>1. h.stage = 1 /\ 1 - 1 = 0
        BY <2>2, <2>11 DEF Reached
      <4>. QED  BY <4>1, SatisfiesMore
    <3>3. Satisfies(f.event, f.stage - 1)'
      BY <1>5, <2>2, <3>1, <3>2
    <3>4. Reached(f)'
      BY <2>11, <3>1, <3>3 DEF Reached
    <3>5. \A x \in Others : x.event \notin Before(stack') /\ Reached(x)'
      <4>1. ASSUME NEW x \in Others PROVE x.event \notin Before(stack') /\ Reached(x)'
        <5>1. /\ x.event \notin Before(stack') /\ Reached(x) /\ x.event # t
              /\ x.event \in 1 .. Len(events)
          BY <1>3, <1>4, <2>1 DEF ExecInv
        <5>2. x.event \in executed' <=> x.event \in executed
          BY <2>11, <5>1
        <5>. QED  BY <1>5, <5>1, <5>2 DEF Reached
      <4>. QED  BY <4>1
    <3>6. executed' \subseteq 1 .. Len(events') /\ \A e \in executed' : e \notin Before(stack')
      <4>1. 1 .. Len(events) \subseteq 1 .. Len(events')
        BY <1>1
      <4>2. executed' = executed \cup {t} /\ t \in 1 .. Len(events) /\ t \notin Before(stack')
        BY <2>2, <2>11
      <4>. HIDE DEF t
      <4>. QED  BY <1>3, <4>1, <4>2 DEF ExecInv
    <3>. QED  BY <2>2, <3>1, <3>4, <3>5, <3>6 DEF ExecInv
  <2>. QED
    BY <1>9, <2>5, <2>7, <2>8, <2>9, <2>10, <2>11, ExecutionSteps DEF ExecutionStep, querying
<1>. QED  BY <1>8, <1>9

----------------------------------------------------------------------------
----------------------------------------------------------------------------
(* The query has one stage that keeps a state, and what has not come to it *)
(* yet, or not to the second half of it.                                   *)
OneState(k) == {j \in DOMAIN query : Stateful(query[j])} = {k}

Yet(X, k) == {e \in Nat : \E x \in X : x.at = "stage" /\ x.stage <= k /\ x.event = e}
OnLeft(X) == {e \in Nat : \E x \in X : x.at = "left" /\ x.event = e}

(* The pairs that an execution has yet to join.                            *)
MadeBy(at, e, todo) ==
    {p \in Nat \X Nat : at \in {"left", "right"} /\ \E y \in Elements(todo) : p = Joining(at, e, y)}
ToJoinOf(x) == MadeBy(x.at, x.event, x.todo)
ToJoin(X) == {p \in Nat \X Nat : \E x \in X : p \in ToJoinOf(x)}

(* No pair is before a walk twice, or before two walks.                    *)
Apart(X) ==
    /\ \A x \in X : x.at \in {"left", "right"} => Distinct(x.todo)
    /\ \A x, y \in X : x # y => ToJoinOf(x) \cap ToJoinOf(y) = {}

LeftOf(k) == {e \in Reaching(k) : Passes(e, query[k].left)}
RightOf(k) == {e \in Reaching(k) : Passes(e, query[k].right)}

CountInv(k) ==
    /\ counted \in Seq(Nat) /\ Distinct(counted)
    /\ Elements(counted) = Reaching(k) \ Yet(Execs(stack), k)

(* A buffer holds what has come to its side of the stage, and each pair of *)
(* what the buffers hold has been joined, or is yet to be, by one walk.    *)
JoinInv(k) ==
    LET X == Execs(stack)
    IN  /\ joined \in Seq(Nat \X Nat) /\ Distinct(joined)
        /\ Elements(LeftEvents) = LeftOf(k) \ Yet(X, k) /\ Distinct(LeftEvents)
        /\ Elements(RightEvents) = RightOf(k) \ (Yet(X, k) \cup OnLeft(X))
        /\ Distinct(RightEvents)
        /\ Apart(X)
        /\ ToJoin(X) \cap Elements(joined) = {}
        /\ ToJoin(X) \cup Elements(joined) = Elements(LeftEvents) \X Elements(RightEvents)

QueryInv ==
    \A k \in 1 .. Len(query) :
        OneState(k) => IF query[k].type = "aggregate" THEN CountInv(k) ELSE JoinInv(k)

LEMMA OneStage ==
    ASSUME Base, NEW k, OneState(k), NEW j \in 1 .. Len(query)
    PROVE  /\ k \in 1 .. Len(query) /\ k \in Nat /\ query[k].type \in {"aggregate", "correlate"}
           /\ Stateful(query[j]) <=> j = k
           /\ query[j].type \in {"aggregate", "correlate"} <=> j = k
<1>1. DOMAIN query = 1 .. Len(query)
  BY QueryTyped DEF Base
<1>. QED  BY <1>1 DEF OneState, Stateful

LEMMA YetStep ==
    ASSUME Base, Nested, stack # <<>>, stack[1].fn = "execute", NEW k \in Nat
    PROVE  LET t == stack[1].event
               Y == Yet(Execs(stack), k)
               D == OnLeft(Execs(stack))
           IN  /\ t \in Y <=> stack[1].at = "stage" /\ stack[1].stage <= k
               /\ t \in D <=> stack[1].at = "left"
               /\ Execs(stack') = Others =>
                     Yet(Execs(stack'), k) = Y \ {t} /\ OnLeft(Execs(stack')) = D \ {t}
               /\ \A at, stage, todo : Becomes(at, stage, todo) =>
                     /\ Yet(Execs(stack'), k) = IF at = "stage" /\ stage <= k THEN Y \cup {t}
                                                                              ELSE Y \ {t}
                     /\ OnLeft(Execs(stack')) = IF at = "left" THEN D \cup {t} ELSE D \ {t}
<1>. DEFINE h == stack[1]
            t == h.event
            Y == Yet(Execs(stack), k)
            D == OnLeft(Execs(stack))
            Z == Yet(Others, k)
            C == OnLeft(Others)
<1>1. Execs(stack) = Others \cup {h} /\ (\A x \in Others : x.event # t) /\ t \in Nat
  BY ExecsStep, Innermost
<1>2. t \notin Z /\ t \notin C
  BY <1>1 DEF Yet, OnLeft
<1>3. /\ Y = IF h.at = "stage" /\ h.stage <= k THEN Z \cup {t} ELSE Z
      /\ D = IF h.at = "left" THEN C \cup {t} ELSE C
  BY <1>1 DEF Yet, OnLeft
<1>4. Execs(stack') = Others => Yet(Execs(stack'), k) = Z /\ OnLeft(Execs(stack')) = C
  OBVIOUS
<1>5. ASSUME NEW at, NEW stage, NEW todo, Becomes(at, stage, todo)
      PROVE  /\ Yet(Execs(stack'), k) = IF at = "stage" /\ stage <= k THEN Z \cup {t} ELSE Z
             /\ OnLeft(Execs(stack')) = IF at = "left" THEN C \cup {t} ELSE C
  <2>1. PICK f \in Frame : /\ f.event = t /\ f.at = at /\ f.stage = stage
                           /\ Execs(stack') = Others \cup {f}
    BY <1>5 DEF Becomes
  <2>. QED  BY <1>1, <2>1 DEF Yet, OnLeft
<1>. HIDE DEF Y, D, Z, C, t
<1>6. /\ t \in Y <=> h.at = "stage" /\ h.stage <= k
      /\ t \in D <=> h.at = "left"
      /\ Z = Y \ {t} /\ Z \cup {t} = Y \cup {t} /\ C = D \ {t} /\ C \cup {t} = D \cup {t}
  BY <1>2, <1>3
<1>7. Execs(stack') = Others => Yet(Execs(stack'), k) = Y \ {t} /\ OnLeft(Execs(stack')) = D \ {t}
  BY <1>4, <1>6
<1>8. \A at, stage, todo : Becomes(at, stage, todo) =>
          /\ Yet(Execs(stack'), k) = IF at = "stage" /\ stage <= k THEN Y \cup {t} ELSE Y \ {t}
          /\ OnLeft(Execs(stack')) = IF at = "left" THEN D \cup {t} ELSE D \ {t}
  BY <1>5, <1>6
<1>. QED  BY <1>6, <1>7, <1>8 DEF Y, D, t

LEMMA ReachingStep ==
    ASSUME Base, ExecInv, [Next]_vars, NEW k
    PROVE  /\ executed' = executed => /\ Reaching(k)' = Reaching(k)
                                      /\ LeftOf(k)' = LeftOf(k) /\ RightOf(k)' = RightOf(k)
           /\ \A t \in 1 .. Len(events) :
                 executed' = executed \cup {t} =>
                    /\ Reaching(k)' = Reaching(k) \cup {e \in {t} : Satisfies(e, k)}
                    /\ LeftOf(k)' = LeftOf(k) \cup
                          {e \in {t} : Satisfies(e, k) /\ Passes(e, query[k].left)}
                    /\ RightOf(k)' = RightOf(k) \cup
                          {e \in {t} : Satisfies(e, k) /\ Passes(e, query[k].right)}
<1>1. executed \subseteq 1 .. Len(events) /\ query' = query
  BY SettingKept DEF ExecInv, setting
<1>2. \A e \in 1 .. Len(events) : /\ Satisfies(e, k)' <=> Satisfies(e, k)
                                  /\ \A f : Passes(e, f)' <=> Passes(e, f)
  BY AcceptsKept
<1>3. ASSUME executed' = executed
      PROVE  /\ Reaching(k)' = Reaching(k)
             /\ LeftOf(k)' = LeftOf(k) /\ RightOf(k)' = RightOf(k)
  <2>1. Reaching(k)' = Reaching(k)
    BY <1>1, <1>2, <1>3 DEF Reaching
  <2>2. Reaching(k) \subseteq 1 .. Len(events)
    BY <1>1 DEF Reaching
  <2>. QED  BY <1>1, <1>2, <2>1, <2>2 DEF LeftOf, RightOf
<1>4. ASSUME NEW t \in 1 .. Len(events), executed' = executed \cup {t}
      PROVE  /\ Reaching(k)' = Reaching(k) \cup {e \in {t} : Satisfies(e, k)}
             /\ LeftOf(k)' = LeftOf(k) \cup
                   {e \in {t} : Satisfies(e, k) /\ Passes(e, query[k].left)}
             /\ RightOf(k)' = RightOf(k) \cup
                   {e \in {t} : Satisfies(e, k) /\ Passes(e, query[k].right)}
  <2>1. Reaching(k)' = Reaching(k) \cup {e \in {t} : Satisfies(e, k)}
    BY <1>1, <1>2, <1>4 DEF Reaching
  <2>2. Reaching(k) \subseteq 1 .. Len(events)
    BY <1>1 DEF Reaching
  <2>. QED  BY <1>1, <1>2, <2>1, <2>2 DEF LeftOf, RightOf
<1>. QED  BY <1>3, <1>4

(* Outside an execution, nothing comes to a stage.                         *)
LEMMA OutsideSame ==
    ASSUME Base, Nested, [Next]_vars, stack # <<>> => stack[1].fn # "execute", NEW k
    PROVE  /\ Yet(Execs(stack'), k) = Yet(Execs(stack), k)
           /\ OnLeft(Execs(stack')) = OnLeft(Execs(stack))
           /\ ToJoin(Execs(stack')) = ToJoin(Execs(stack))
           /\ \A x \in Execs(stack') : x \in Execs(stack) \/ (x.at = "begin" /\ ToJoinOf(x) = {})
<1>1. CASE Execs(stack') = Execs(stack)
  BY <1>1
<1>2. ASSUME NEW g \in Frame, Execs(stack') = Execs(stack) \cup {g}, g.at = "begin"
      PROVE  /\ Yet(Execs(stack'), k) = Yet(Execs(stack), k)
             /\ OnLeft(Execs(stack')) = OnLeft(Execs(stack))
             /\ ToJoin(Execs(stack')) = ToJoin(Execs(stack))
             /\ \A x \in Execs(stack') : x \in Execs(stack) \/ (x.at = "begin" /\ ToJoinOf(x) = {})
  <2>1. ToJoinOf(g) = {}
    BY <1>2 DEF ToJoinOf, MadeBy
  <2>. QED  BY <1>2, <2>1 DEF Yet, OnLeft, ToJoin
<1>. QED  BY <1>1, <1>2, Outside

(* Where the innermost execution is, with regard to the stage.             *)
LEMMA InnermostReached ==
    ASSUME Base, Nested, ExecInv, stack # <<>>, stack[1].fn = "execute", NEW k \in Nat
    PROVE  LET h == stack[1]
               t == h.event
           IN  /\ t \in 1 .. Len(events) /\ t \in Nat /\ h.todo \in Seq(Nat)
               /\ h.stage \in 1 .. Len(query) + 1 /\ h.stage \in Nat /\ Len(query) \in Nat
               /\ h.at = "begin" => h.stage = 1 /\ t \notin executed
               /\ h.at # "begin" => /\ t \in executed
                                    /\ Accepts(query[h.stage], t) => Satisfies(t, h.stage)
                                    /\ h.stage > k => t \in Reaching(k)
               /\ h.at \in {"left", "right"} => t \in Reaching(h.stage)
               /\ h.stage <= k /\ ~Accepts(query[h.stage], t) => t \notin Reaching(k)
<1>. DEFINE h == stack[1]
            t == h.event
<1>1. /\ t \in 1 .. Len(events) /\ t \in Nat /\ h.todo \in Seq(Nat)
      /\ h.stage \in 1 .. Len(query) + 1 /\ h.stage \in Nat /\ Len(query) \in Nat
      /\ Reached(h)
  <2>1. h \in Execs(stack)
    BY ExecsStep
  <2>. QED  BY <2>1, ExecsTyped, Innermost DEF ExecInv
<1>2. h.stage - 1 \in Nat /\ (h.stage - 1) + 1 = h.stage
  BY <1>1
<1>3. /\ Satisfies(t, (h.stage - 1) + 1) <=>
            Satisfies(t, h.stage - 1) /\ Accepts(query[(h.stage - 1) + 1], t)
      /\ \A j \in 1 .. (h.stage - 1) : Satisfies(t, h.stage - 1) => Satisfies(t, j)
  BY <1>2, SatisfiesMore
<1>4. Satisfies(t, h.stage) <=> Satisfies(t, h.stage - 1) /\ Accepts(query[h.stage], t)
  BY <1>2, <1>3
<1>5. h.stage > k /\ Satisfies(t, h.stage - 1) => Satisfies(t, k)
  <2>1. CASE k = 0
    BY <2>1, SatisfiesMore
  <2>2. CASE k # 0
    BY <1>1, <1>3, <2>2
  <2>. QED  BY <2>1, <2>2
<1>6. h.stage <= k /\ ~Accepts(query[h.stage], t) => ~Satisfies(t, k)
  BY <1>1 DEF Satisfies
<1>. QED  BY <1>1, <1>4, <1>5, <1>6 DEF Reached, Reaching

LEMMA CountNext ==
    ASSUME Base, Nested, ExecInv, [Next]_vars, NEW k \in 1 .. Len(query), OneState(k),
           query[k].type = "aggregate", CountInv(k)
    PROVE  CountInv(k)'
<1>0. k \in Nat
  BY OneStage
<1>. DEFINE Y == Yet(Execs(stack), k)
            Y1 == Yet(Execs(stack'), k)
            R == Reaching(k)
<1>1. counted \in Seq(Nat) /\ Distinct(counted) /\ Elements(counted) = R \ Y
  BY DEF CountInv
<1>2. CASE stack # <<>> => stack[1].fn # "execute"
  <2>1. Y1 = Y /\ counted' = counted /\ executed' = executed
    BY <1>2, OutsideSame, QueryKept DEF querying
  <2>2. Reaching(k)' = R
    BY <2>1, ReachingStep
  <2>. QED  BY <1>1, <2>1, <2>2 DEF CountInv
<1>3. CASE stack # <<>> /\ stack[1].fn = "execute"
  <2>. DEFINE h == stack[1]
              t == h.event
  <2>1. /\ t \in 1 .. Len(events) /\ t \in Nat
        /\ h.stage \in 1 .. Len(query) + 1 /\ h.stage \in Nat /\ Len(query) \in Nat
        /\ h.at = "begin" => h.stage = 1 /\ t \notin executed
        /\ h.at # "begin" => t \in executed
        /\ h.at # "begin" /\ Accepts(query[h.stage], t) => Satisfies(t, h.stage)
        /\ h.stage <= k /\ ~Accepts(query[h.stage], t) => t \notin R
    BY <1>0, <1>3, InnermostReached
  <2>2. /\ t \in Y <=> h.at = "stage" /\ h.stage <= k
        /\ Execs(stack') = Others => Y1 = Y \ {t}
        /\ \A at, stage, todo : Becomes(at, stage, todo) =>
              Y1 = IF at = "stage" /\ stage <= k THEN Y \cup {t} ELSE Y \ {t}
    BY <1>0, <1>3, YetStep
  <2>3. /\ executed' = executed => Reaching(k)' = R
        /\ executed' = executed \cup {t} => Reaching(k)' = R \cup {e \in {t} : Satisfies(e, k)}
    BY <2>1, ReachingStep
  <2>4. \A j \in 1 .. Len(query) : (Stateful(query[j]) <=> j = k)
                                   /\ (query[j].type = "aggregate" => j = k)
                                   /\ query[j].type # "correlate"
    BY OneStage
  <2>5. h.at \notin {"left", "right"}
    <3>1. h \in Execs(stack)
      BY <1>3, ExecsStep
    <3>. QED  BY <2>1, <2>4, <3>1, ExecsTyped
  <2>6. h.stage <= Len(query) => h.stage \in 1 .. Len(query)
    BY <2>1
  <2>. HIDE DEF Y, Y1, R, h, t
  <2>7. ASSUME counted' = counted, Reaching(k)' \ Y1 = R \ Y PROVE CountInv(k)'
    BY <1>1, <2>7 DEF CountInv, Y1
  <2>8. CASE UNCHANGED querying /\ Execs(stack') = Execs(stack)
    BY <2>3, <2>7, <2>8 DEF querying, Y, Y1
  <2>9. CASE /\ h.at = "begin" /\ Becomes("stage", h.stage, h.todo)
             /\ executed' = executed \cup {t} /\ UNCHANGED <<contexts, joined, counted>>
    <3>1. Y1 = Y \cup {t} /\ t \notin R
      BY <1>0, <2>1, <2>2, <2>9 DEF R, Reaching
    <3>. QED  BY <2>3, <2>7, <2>9, <3>1
  <2>10. CASE /\ h.at = "stage" /\ Execs(stack') = Others /\ UNCHANGED querying
              /\ h.stage <= Len(query) => ~Accepts(query[h.stage], t)
    <3>1. Y1 = Y \ {t} /\ (t \in R => t \notin Y)
      BY <1>0, <2>1, <2>2, <2>10
    <3>. QED  BY <2>3, <2>7, <2>10, <3>1 DEF querying
  <2>11. CASE /\ h.at = "stage" /\ Becomes("stage", h.stage + 1, <<>>) /\ UNCHANGED querying
              /\ h.stage <= Len(query) /\ ~Stateful(query[h.stage])
              /\ Accepts(query[h.stage], t)
    <3>1. h.stage # k
      BY <2>4, <2>6, <2>11
    <3>2. h.stage + 1 <= k <=> h.stage <= k
      BY <1>0, <2>1, <3>1
    <3>3. Y1 = Y
      BY <2>2, <2>11, <3>2
    <3>. QED  BY <2>3, <2>7, <2>11, <3>3 DEF querying
  <2>12. CASE /\ h.at = "stage" /\ Becomes("stage", h.stage + 1, <<>>)
              /\ h.stage <= Len(query) /\ query[h.stage].type = "aggregate"
              /\ Accepts(query[h.stage], t)
              /\ counted' = Append(counted, t) /\ UNCHANGED <<executed, joined>>
    <3>1. h.stage = k /\ t \in R /\ t \in Y
      BY <1>0, <2>1, <2>2, <2>4, <2>6, <2>12 DEF R, Reaching
    <3>2. Y1 = Y \ {t}
      BY <1>0, <2>2, <2>12, <3>1
    <3>3. t \notin Elements(counted) /\ IsFiniteSet(Elements(counted))
      BY <1>1, <3>1, HoldsFinite
    <3>4. /\ counted' \in Seq(Nat) /\ Elements(counted') = Elements(counted) \cup {t}
          /\ Distinct(counted')
      <4>1. counted \in Seq(Nat) /\ t \in Nat /\ Distinct(counted)
        BY <1>1, <2>1
      <4>2. LET c == Append(counted, t)
            IN  c \in Seq(Nat) /\ Elements(c) = Elements(counted) \cup {t} /\ Distinct(c)
        BY <3>3, <4>1, AddedOnce
      <4>. QED  BY <2>12, <4>2
    <3>5. Elements(counted') = R \ Y1
      BY <1>1, <3>1, <3>2, <3>4
    <3>. QED  BY <2>3, <2>12, <3>4, <3>5 DEF CountInv, Y1
  <2>. QED
    BY <1>3, <2>4, <2>5, <2>6, <2>8, <2>9, <2>10, <2>11, <2>12, ExecutionSteps
       DEF ExecutionStep, h, t
<1>. QED  BY <1>2, <1>3

LEMMA JoinStep ==
    ASSUME Base, Nested, stack # <<>>, stack[1].fn = "execute", Apart(Execs(stack))
    PROVE  LET h == stack[1]
               t == h.event
               O == ToJoin(Others)
           IN  /\ ToJoin(Execs(stack)) = O \cup MadeBy(h.at, t, h.todo)
               /\ O \cap MadeBy(h.at, t, h.todo) = {}
               /\ h.at \in {"left", "right"} => Distinct(h.todo)
               /\ Execs(stack') = Others => ToJoin(Execs(stack')) = O /\ Apart(Execs(stack'))
               /\ \A at, stage, todo : Becomes(at, stage, todo) =>
                     /\ ToJoin(Execs(stack')) = O \cup MadeBy(at, t, todo)
                     /\ /\ O \cap MadeBy(at, t, todo) = {}
                        /\ at \in {"left", "right"} => Distinct(todo)
                        => Apart(Execs(stack'))
<1>. DEFINE h == stack[1]
            t == h.event
            O == ToJoin(Others)
<1>1. Execs(stack) = Others \cup {h} /\ (\A x \in Others : x.event # t)
  BY ExecsStep
<1>2. h \in Execs(stack) /\ h \notin Others /\ Others \subseteq Execs(stack)
  BY <1>1
<1>3. ToJoin(Execs(stack)) = O \cup MadeBy(h.at, t, h.todo)
  <2>1. \A x : ToJoinOf(x) \subseteq Nat \X Nat
    BY DEF ToJoinOf, MadeBy
  <2>2. ToJoinOf(h) = MadeBy(h.at, t, h.todo)
    BY DEF ToJoinOf
  <2>. QED  BY <1>1, <2>1, <2>2 DEF ToJoin
<1>4. O \cap MadeBy(h.at, t, h.todo) = {}
  <2>1. \A x \in Others : ToJoinOf(x) \cap ToJoinOf(h) = {}
    BY <1>2 DEF Apart
  <2>2. ToJoinOf(h) = MadeBy(h.at, t, h.todo)
    BY DEF ToJoinOf
  <2>. QED  BY <2>1, <2>2 DEF ToJoin
<1>5. h.at \in {"left", "right"} => Distinct(h.todo)
  BY <1>2 DEF Apart
<1>6. Apart(Others)
  BY <1>2 DEF Apart
<1>7. ASSUME NEW at, NEW stage, NEW todo, Becomes(at, stage, todo)
      PROVE  /\ ToJoin(Execs(stack')) = O \cup MadeBy(at, t, todo)
             /\ /\ O \cap MadeBy(at, t, todo) = {}
                /\ at \in {"left", "right"} => Distinct(todo)
                => Apart(Execs(stack'))
  <2>1. PICK f \in Frame : /\ f.event = t /\ f.at = at /\ f.todo = todo
                           /\ Execs(stack') = Others \cup {f}
    BY <1>7 DEF Becomes
  <2>2. ToJoinOf(f) = MadeBy(at, t, todo)
    BY <2>1 DEF ToJoinOf
  <2>3. \A x : ToJoinOf(x) \subseteq Nat \X Nat
    BY DEF ToJoinOf, MadeBy
  <2>4. ToJoin(Execs(stack')) = O \cup MadeBy(at, t, todo)
    BY <2>1, <2>2, <2>3 DEF ToJoin
  <2>5. ASSUME O \cap MadeBy(at, t, todo) = {}, at \in {"left", "right"} => Distinct(todo)
        PROVE  Apart(Execs(stack'))
    <3>1. \A x \in Others : ToJoinOf(x) \cap ToJoinOf(f) = {}
      BY <2>2, <2>3, <2>5 DEF ToJoin
    <3>. QED  BY <1>6, <2>1, <2>5, <3>1 DEF Apart
  <2>. QED  BY <2>4, <2>5
<1>. QED  BY <1>3, <1>4, <1>5, <1>6, <1>7

LEMMA BuffersOfQuery == Base => LeftEvents \in Seq(Nat) /\ RightEvents \in Seq(Nat)
<1>. SUFFICES ASSUME Base PROVE LeftEvents \in Seq(Nat) /\ RightEvents \in Seq(Nat)
  OBVIOUS
<1>1. contexts # <<>> => contexts[1] \in Context
  BY ContextFound
<1>2. <<>> \in Seq(Nat)
  OBVIOUS
<1>. QED  BY <1>1, <1>2 DEF LeftEvents, RightEvents, Context

LEMMA MadeByIs ==
    ASSUME NEW t \in Nat, NEW todo \in Seq(Nat)
    PROVE  /\ MadeBy("left", t, todo) = {t} \X Elements(todo)
           /\ MadeBy("right", t, todo) = Elements(todo) \X {t}
           /\ \A at : at \notin {"left", "right"} => MadeBy(at, t, todo) = {}
           /\ \A at : MadeBy(at, t, <<>>) = {}
<1>1. Elements(todo) \in SUBSET Nat
  BY ElementOfSeq DEF Elements
<1>2. MadeBy("left", t, todo) = {t} \X Elements(todo)
  <2>1. MadeBy("left", t, todo) = {p \in Nat \X Nat : \E y \in Elements(todo) : p = <<t, y>>}
    BY DEF MadeBy, Joining
  <2>. QED  BY <1>1, <2>1, PairsWith
<1>3. MadeBy("right", t, todo) = Elements(todo) \X {t}
  <2>1. MadeBy("right", t, todo) = {p \in Nat \X Nat : \E y \in Elements(todo) : p = <<y, t>>}
    BY DEF MadeBy, Joining
  <2>. QED  BY <1>1, <2>1, PairsWith
<1>4. \A at : at \notin {"left", "right"} => MadeBy(at, t, todo) = {}
  BY DEF MadeBy
<1>5. \A at : MadeBy(at, t, <<>>) = {}
  <2>1. Elements(<<>>) = {}
    BY DEF Elements
  <2>. QED  BY <2>1 DEF MadeBy
<1>. QED  BY <1>2, <1>3, <1>4, <1>5

LEMMA MadeByFirst ==
    ASSUME NEW t \in Nat, NEW todo \in Seq(Nat), todo # <<>>, NEW at \in {"left", "right"}
    PROVE  /\ MadeBy(at, t, todo) = MadeBy(at, t, Tail(todo)) \cup {Joining(at, t, Head(todo))}
           /\ Joining(at, t, Head(todo)) \in Nat \X Nat
           /\ Distinct(todo) => /\ Joining(at, t, Head(todo)) \notin MadeBy(at, t, Tail(todo))
                                /\ Distinct(Tail(todo))
<1>. DEFINE c == Joining(at, t, Head(todo))
            E == Elements(todo)
            F == Elements(Tail(todo))
<1>1. /\ Head(todo) \in Nat /\ E = F \cup {Head(todo)}
      /\ Distinct(todo) => Distinct(Tail(todo)) /\ Head(todo) \notin F
  BY HoldsRest
<1>2. c \in Nat \X Nat
  BY <1>1 DEF Joining
<1>. DEFINE P(S) == {p \in Nat \X Nat : \E y \in S : p = Joining(at, t, y)}
<1>3. MadeBy(at, t, todo) = P(E) /\ MadeBy(at, t, Tail(todo)) = P(F)
  BY DEF MadeBy
<1>4. F \subseteq Nat
  <2>1. E \subseteq Nat
    BY ElementOfSeq DEF Elements
  <2>. QED  BY <1>1, <2>1
<1>. HIDE DEF E, F
<1>5. P(E) = P(F) \cup {c}
  BY <1>1, <1>2
<1>6. Head(todo) \notin F => c \notin P(F)
  BY <1>1, <1>4 DEF Joining
<1>. QED  BY <1>1, <1>2, <1>3, <1>5, <1>6

LEMMA JoinNext ==
    ASSUME Base, Nested, ExecInv, [Next]_vars, NEW k \in 1 .. Len(query), OneState(k),
           query[k].type = "correlate", JoinInv(k)
    PROVE  JoinInv(k)'
<1>0. k \in Nat
  BY OneStage
<1>. DEFINE Y == Yet(Execs(stack), k)
            Y1 == Yet(Execs(stack'), k)
            D == OnLeft(Execs(stack))
            D1 == OnLeft(Execs(stack'))
            P == ToJoin(Execs(stack))
            P1 == ToJoin(Execs(stack'))
            L == Elements(LeftEvents)
            R == Elements(RightEvents)
            J == Elements(joined)
<1>1. /\ joined \in Seq(Nat \X Nat) /\ Distinct(joined)
      /\ L = LeftOf(k) \ Y /\ Distinct(LeftEvents)
      /\ R = RightOf(k) \ (Y \cup D) /\ Distinct(RightEvents)
      /\ Apart(Execs(stack)) /\ P \cap J = {} /\ P \cup J = L \X R
  BY DEF JoinInv
<1>2. CASE stack # <<>> => stack[1].fn # "execute"
  <2>1. /\ Y1 = Y /\ D1 = D /\ P1 = P
        /\ \A x \in Execs(stack') : x \in Execs(stack) \/ (x.at = "begin" /\ ToJoinOf(x) = {})
        /\ contexts' = contexts /\ joined' = joined /\ executed' = executed
    BY <1>2, OutsideSame, QueryKept DEF querying
  <2>2. LeftOf(k)' = LeftOf(k) /\ RightOf(k)' = RightOf(k)
    BY <2>1, ReachingStep
  <2>3. LeftEvents' = LeftEvents /\ RightEvents' = RightEvents
    BY <2>1 DEF LeftEvents, RightEvents
  <2>4. Apart(Execs(stack'))
    BY <1>1, <2>1 DEF Apart
  <2>. HIDE DEF Y1, D1, P1
  <2>. QED  BY <1>1, <2>1, <2>2, <2>3, <2>4 DEF JoinInv, Y1, D1, P1
<1>3. CASE stack # <<>> /\ stack[1].fn = "execute"
  <2>. DEFINE h == stack[1]
              t == h.event
              O == ToJoin(Others)
              N == MadeBy(h.at, t, h.todo)
  <2>1. /\ t \in 1 .. Len(events) /\ t \in Nat /\ h.todo \in Seq(Nat)
        /\ h.stage \in 1 .. Len(query) + 1 /\ h.stage \in Nat /\ Len(query) \in Nat
        /\ h.at = "begin" => h.stage = 1 /\ t \notin executed
        /\ h.at # "begin" => t \in executed
        /\ h.at # "begin" /\ Accepts(query[h.stage], t) => Satisfies(t, h.stage)
        /\ h.at \in {"left", "right"} => t \in Reaching(h.stage)
        /\ h.stage <= k /\ ~Accepts(query[h.stage], t) => t \notin Reaching(k)
    BY <1>0, <1>3, InnermostReached
  <2>2. /\ t \in Y <=> h.at = "stage" /\ h.stage <= k
        /\ t \in D <=> h.at = "left"
        /\ Execs(stack') = Others => Y1 = Y \ {t} /\ D1 = D \ {t}
        /\ \A at, stage, todo : Becomes(at, stage, todo) =>
              /\ Y1 = IF at = "stage" /\ stage <= k THEN Y \cup {t} ELSE Y \ {t}
              /\ D1 = IF at = "left" THEN D \cup {t} ELSE D \ {t}
    BY <1>0, <1>3, YetStep
  <2>3. /\ executed' = executed => LeftOf(k)' = LeftOf(k) /\ RightOf(k)' = RightOf(k)
        /\ executed' = executed \cup {t} =>
              /\ LeftOf(k)' = LeftOf(k) \cup
                    {e \in {t} : Satisfies(e, k) /\ Passes(e, query[k].left)}
              /\ RightOf(k)' = RightOf(k) \cup
                    {e \in {t} : Satisfies(e, k) /\ Passes(e, query[k].right)}
    BY <2>1, ReachingStep
  <2>4. \A j \in 1 .. Len(query) : (Stateful(query[j]) <=> j = k)
                                   /\ (query[j].type = "correlate" => j = k)
                                   /\ query[j].type # "aggregate"
    BY OneStage
  <2>5. h.stage <= Len(query) => h.stage \in 1 .. Len(query)
    BY <2>1
  <2>6. h.at \in {"left", "right"} => h.stage = k
    <3>1. h \in Execs(stack)
      BY <1>3, ExecsStep
    <3>. QED  BY <2>4, <2>5, <3>1, ExecsTyped
  <2>7. /\ P = O \cup N /\ O \cap N = {}
        /\ h.at \in {"left", "right"} => Distinct(h.todo)
        /\ Execs(stack') = Others => P1 = O /\ Apart(Execs(stack'))
        /\ \A at, stage, todo : Becomes(at, stage, todo) =>
              /\ P1 = O \cup MadeBy(at, t, todo)
              /\ /\ O \cap MadeBy(at, t, todo) = {}
                 /\ at \in {"left", "right"} => Distinct(todo)
                 => Apart(Execs(stack'))
    BY <1>1, <1>3, JoinStep
  <2>8. h.at \notin {"left", "right"} \/ h.todo = <<>> => N = {}
    BY <2>1, MadeByIs
  <2>9. Distinct(<<>>) /\ <<>> \in Seq(Nat)
    <3>1. Elements(<<>>) = {}
      BY DEF Elements
    <3>2. Distinct(<<>>)
      BY <3>1, FS_EmptySet DEF Distinct
    <3>3. <<>> \in Seq(Nat)
      OBVIOUS
    <3>. QED  BY <3>2, <3>3
  <2>. HIDE DEF Y, Y1, D, D1, P, P1, O, N, L, R, J, h, t
  (* A step that neither puts an event into a buffer nor joins a pair.     *)
  <2>10. ASSUME joined' = joined, LeftEvents' = LeftEvents, RightEvents' = RightEvents,
                P1 = P, Apart(Execs(stack')), LeftOf(k)' \ Y1 = LeftOf(k) \ Y,
                RightOf(k)' \ (Y1 \cup D1) = RightOf(k) \ (Y \cup D)
         PROVE  JoinInv(k)'
    BY <1>1, <2>10 DEF JoinInv, Y1, D1, P1, L, R, J
  <2>11. ASSUME N = {}, joined' = joined, LeftEvents' = LeftEvents, RightEvents' = RightEvents,
                NEW at, NEW stage, NEW todo, Becomes(at, stage, todo),
                at \notin {"left", "right"} \/ todo = <<>>,
                todo \in Seq(Nat),
                LeftOf(k)' \ Y1 = LeftOf(k) \ Y,
                RightOf(k)' \ (Y1 \cup D1) = RightOf(k) \ (Y \cup D)
         PROVE  JoinInv(k)'
    <3>1. MadeBy(at, t, todo) = {}
      BY <2>1, <2>11, MadeByIs
    <3>2. P1 = P /\ Apart(Execs(stack'))
      BY <2>7, <2>9, <2>11, <3>1
    <3>. QED  BY <2>10, <2>11, <3>2
  <2>12. querying' = querying => /\ joined' = joined /\ executed' = executed
                                 /\ LeftEvents' = LeftEvents /\ RightEvents' = RightEvents
    BY DEF querying, LeftEvents, RightEvents
  <2>13. LeftOf(k) \subseteq Reaching(k) /\ RightOf(k) \subseteq Reaching(k)
         /\ Reaching(k) \subseteq executed
    BY DEF LeftOf, RightOf, Reaching
  <2>14. CASE UNCHANGED querying /\ Execs(stack') = Execs(stack)
    BY <1>1, <2>3, <2>10, <2>12, <2>14 DEF P, P1, Y, Y1, D, D1
  <2>15. CASE /\ h.at = "begin" /\ Becomes("stage", h.stage, h.todo)
              /\ executed' = executed \cup {t} /\ UNCHANGED <<contexts, joined, counted>>
    <3>1. Y1 = Y \cup {t} /\ D1 = D \ {t} /\ t \notin D /\ t \notin executed
      BY <1>0, <2>1, <2>2, <2>15
    <3>2. /\ LeftOf(k)' \ Y1 = LeftOf(k) \ Y
          /\ RightOf(k)' \ (Y1 \cup D1) = RightOf(k) \ (Y \cup D)
      BY <2>3, <2>13, <2>15, <3>1
    <3>3. joined' = joined /\ LeftEvents' = LeftEvents /\ RightEvents' = RightEvents
      BY <2>15 DEF LeftEvents, RightEvents
    <3>4. N = {}
      BY <2>8, <2>15
    <3>. QED  BY <2>1, <2>11, <2>15, <3>2, <3>3, <3>4
  <2>16. CASE /\ h.at = "stage" /\ Execs(stack') = Others /\ UNCHANGED querying
              /\ h.stage <= Len(query) => ~Accepts(query[h.stage], t)
    <3>1. Y1 = Y \ {t} /\ D1 = D \ {t} /\ t \notin D /\ (t \in Reaching(k) => t \notin Y)
      BY <1>0, <2>1, <2>2, <2>16
    <3>2. /\ LeftOf(k)' \ Y1 = LeftOf(k) \ Y
          /\ RightOf(k)' \ (Y1 \cup D1) = RightOf(k) \ (Y \cup D)
      BY <2>3, <2>12, <2>13, <2>16, <3>1
    <3>3. P1 = P /\ Apart(Execs(stack'))
      BY <2>7, <2>8, <2>16
    <3>. QED  BY <2>10, <2>12, <2>16, <3>2, <3>3
  <2>17. CASE /\ h.at = "stage" /\ Becomes("stage", h.stage + 1, <<>>) /\ UNCHANGED querying
              /\ h.stage <= Len(query) /\ ~Stateful(query[h.stage])
              /\ Accepts(query[h.stage], t)
    <3>1. h.stage # k
      BY <2>4, <2>5, <2>17
    <3>2. h.stage + 1 <= k <=> h.stage <= k
      BY <1>0, <2>1, <3>1
    <3>3. Y1 = Y /\ D1 = D
      BY <2>2, <2>17, <3>2
    <3>4. N = {} /\ LeftOf(k)' = LeftOf(k) /\ RightOf(k)' = RightOf(k)
      BY <2>3, <2>8, <2>12, <2>17
    <3>. QED  BY <2>9, <2>11, <2>12, <2>17, <3>3, <3>4
  <2>18. CASE /\ h.at = "stage" /\ h.stage <= Len(query) /\ query[h.stage].type = "correlate"
              /\ Accepts(query[h.stage], t)
              /\ \/ /\ Passes(t, query[h.stage].left) /\ LeftEvents' = <<t>> \o LeftEvents
                    /\ Becomes("left", h.stage, RightEvents)
                 \/ /\ ~Passes(t, query[h.stage].left) /\ LeftEvents' = LeftEvents
                    /\ Becomes("left", h.stage, <<>>)
              /\ RightEvents' = RightEvents /\ UNCHANGED <<executed, joined, counted>>
    <3>1. h.stage = k /\ t \in Reaching(k) /\ t \in Y /\ t \notin D /\ N = {}
      BY <1>0, <2>1, <2>2, <2>4, <2>5, <2>8, <2>18 DEF Reaching
    <3>2. LeftOf(k)' = LeftOf(k) /\ RightOf(k)' = RightOf(k)
      BY <2>3, <2>18
    <3>3. \A todo : Becomes("left", h.stage, todo) => Y1 = Y \ {t} /\ D1 = D \cup {t}
      BY <2>2
    <3>4. ASSUME Passes(t, query[h.stage].left), LeftEvents' = <<t>> \o LeftEvents,
                 Becomes("left", h.stage, RightEvents)
          PROVE  JoinInv(k)'
      <4>1. Y1 = Y \ {t} /\ D1 = D \cup {t} /\ t \in LeftOf(k) /\ t \notin L
        BY <1>1, <3>1, <3>3, <3>4 DEF LeftOf
      <4>2. LeftEvents \in Seq(Nat) /\ RightEvents \in Seq(Nat)
        BY BuffersOfQuery
      <4>3. Elements(LeftEvents') = L \cup {t} /\ Distinct(LeftEvents')
        BY <1>1, <2>1, <3>4, <4>1, <4>2, HoldsFirst DEF L
      <4>4. MadeBy("left", t, RightEvents) = {t} \X R
        BY <2>1, <4>2, MadeByIs DEF R
      <4>5. O \cap ({t} \X R) = {} /\ ({t} \X R) \cap J = {}
        BY <1>1, <2>7, <4>1
      <4>6. P1 = P \cup ({t} \X R) /\ Apart(Execs(stack'))
        BY <1>1, <2>7, <3>1, <3>4, <4>4, <4>5
      <4>7. P1 \cap J = {} /\ P1 \cup J = (L \cup {t}) \X R
        <5>1. (L \cup {t}) \X R = (L \X R) \cup ({t} \X R)
          OBVIOUS
        <5>. QED  BY <1>1, <4>5, <4>6, <5>1
      <4>8. L \cup {t} = LeftOf(k) \ Y1 /\ R = RightOf(k) \ (Y1 \cup D1)
        BY <1>1, <3>1, <4>1
      <4>. QED  BY <1>1, <2>18, <3>2, <4>3, <4>6, <4>7, <4>8 DEF JoinInv, Y1, D1, P1, R, J
    <3>5. ASSUME ~Passes(t, query[h.stage].left), LeftEvents' = LeftEvents,
                 Becomes("left", h.stage, <<>>)
          PROVE  JoinInv(k)'
      <4>1. Y1 = Y \ {t} /\ D1 = D \cup {t} /\ t \notin LeftOf(k)
        BY <3>1, <3>3, <3>5 DEF LeftOf
      <4>2. LeftOf(k) \ Y1 = LeftOf(k) \ Y /\ RightOf(k) \ (Y1 \cup D1) = RightOf(k) \ (Y \cup D)
        BY <3>1, <4>1
      <4>. QED  BY <2>9, <2>11, <2>18, <3>1, <3>2, <3>5, <4>2
    <3>. QED  BY <2>18, <3>4, <3>5
  <2>19. CASE /\ h.at = "left" /\ h.todo = <<>>
              /\ \/ /\ Passes(t, query[h.stage].right) /\ RightEvents' = <<t>> \o RightEvents
                    /\ Becomes("right", h.stage, LeftEvents)
                 \/ /\ ~Passes(t, query[h.stage].right) /\ RightEvents' = RightEvents
                    /\ Becomes("stage", h.stage + 1, <<>>)
              /\ LeftEvents' = LeftEvents /\ UNCHANGED <<executed, joined, counted>>
    <3>1. h.stage = k /\ t \in Reaching(k) /\ t \notin Y /\ t \in D /\ N = {}
      BY <2>1, <2>2, <2>6, <2>8, <2>19
    <3>2. LeftOf(k)' = LeftOf(k) /\ RightOf(k)' = RightOf(k)
      BY <2>3, <2>19
    <3>5. /\ \A todo : Becomes("right", h.stage, todo) => Y1 = Y \ {t} /\ D1 = D \ {t}
          /\ \A todo : Becomes("stage", h.stage + 1, todo) => Y1 = Y \ {t} /\ D1 = D \ {t}
      <4>1. \A todo : Becomes("right", h.stage, todo) => Y1 = Y \ {t} /\ D1 = D \ {t}
        BY <2>2
      <4>2. ~(h.stage + 1 <= k)
        BY <1>0, <3>1
      <4>3. \A todo : Becomes("stage", h.stage + 1, todo) => Y1 = Y \ {t} /\ D1 = D \ {t}
        BY <2>2, <4>2
      <4>. QED  BY <4>1, <4>3
    <3>3. ASSUME Passes(t, query[h.stage].right), RightEvents' = <<t>> \o RightEvents,
                 Becomes("right", h.stage, LeftEvents)
          PROVE  JoinInv(k)'
      <4>1. Y1 = Y /\ D1 = D \ {t} /\ t \in RightOf(k) /\ t \notin R
        BY <1>1, <3>1, <3>3, <3>5 DEF RightOf
      <4>2. LeftEvents \in Seq(Nat) /\ RightEvents \in Seq(Nat)
        BY BuffersOfQuery
      <4>3. Elements(RightEvents') = R \cup {t} /\ Distinct(RightEvents')
        <5>1. t \notin Elements(RightEvents) /\ Distinct(RightEvents)
          BY <1>1, <4>1 DEF R
        <5>2. LET d == <<t>> \o RightEvents
              IN  Elements(d) = Elements(RightEvents) \cup {t} /\ Distinct(d)
          BY <2>1, <4>2, <5>1, HoldsFirst
        <5>. QED  BY <3>3, <5>2 DEF R
      <4>4. MadeBy("right", t, LeftEvents) = L \X {t}
        BY <2>1, <4>2, MadeByIs DEF L
      <4>5. O \cap (L \X {t}) = {} /\ (L \X {t}) \cap J = {}
        BY <1>1, <2>7, <4>1
      <4>6. P1 = P \cup (L \X {t}) /\ Apart(Execs(stack'))
        BY <1>1, <2>7, <3>1, <3>3, <4>4, <4>5
      <4>7. P1 \cap J = {} /\ P1 \cup J = L \X (R \cup {t})
        <5>1. L \X (R \cup {t}) = (L \X R) \cup (L \X {t})
          OBVIOUS
        <5>. QED  BY <1>1, <4>5, <4>6, <5>1
      <4>8. L = LeftOf(k) \ Y1 /\ R \cup {t} = RightOf(k) \ (Y1 \cup D1)
        BY <1>1, <3>1, <4>1
      <4>. QED  BY <1>1, <2>19, <3>2, <4>3, <4>6, <4>7, <4>8 DEF JoinInv, Y1, D1, P1, L, J
    <3>4. ASSUME ~Passes(t, query[h.stage].right), RightEvents' = RightEvents,
                 Becomes("stage", h.stage + 1, <<>>)
          PROVE  JoinInv(k)'
      <4>1. Y1 = Y /\ D1 = D \ {t} /\ t \notin RightOf(k)
        BY <3>1, <3>4, <3>5 DEF RightOf
      <4>2. LeftOf(k) \ Y1 = LeftOf(k) \ Y /\ RightOf(k) \ (Y1 \cup D1) = RightOf(k) \ (Y \cup D)
        BY <3>1, <4>1
      <4>. QED  BY <2>9, <2>11, <2>19, <3>1, <3>2, <3>4, <4>2
    <3>. QED  BY <2>19, <3>3, <3>4
  <2>20. CASE /\ h.at = "right" /\ h.todo = <<>> /\ UNCHANGED querying
              /\ Becomes("stage", h.stage + 1, <<>>)
    <3>1. h.stage = k /\ t \notin Y /\ t \notin D /\ N = {} /\ ~(h.stage + 1 <= k)
      BY <1>0, <2>1, <2>2, <2>6, <2>8, <2>20
    <3>2. Y1 = Y /\ D1 = D
      BY <2>2, <2>20, <3>1
    <3>3. LeftOf(k)' = LeftOf(k) /\ RightOf(k)' = RightOf(k)
      BY <2>3, <2>12, <2>20
    <3>. QED  BY <2>9, <2>11, <2>12, <2>20, <3>1, <3>2, <3>3
  <2>21. CASE /\ h.at \in {"left", "right"} /\ h.todo # <<>>
              /\ joined' = Append(joined, Joins(h, Head(h.todo)))
              /\ Becomes(h.at, h.stage, Tail(h.todo)) /\ UNCHANGED <<contexts, executed, counted>>
    <3>0. /\ MadeBy(h.at, t, h.todo)
                = MadeBy(h.at, t, Tail(h.todo)) \cup {Joining(h.at, t, Head(h.todo))}
          /\ Joining(h.at, t, Head(h.todo)) \in Nat \X Nat
          /\ Distinct(h.todo) =>
                /\ Joining(h.at, t, Head(h.todo)) \notin MadeBy(h.at, t, Tail(h.todo))
                /\ Distinct(Tail(h.todo))
      <4>1. t \in Nat /\ h.todo \in Seq(Nat) /\ h.todo # <<>> /\ h.at \in {"left", "right"}
        BY <2>1, <2>21
      <4>2. \A e \in Nat, s \in Seq(Nat), at \in {"left", "right"} : s # <<>> =>
               /\ MadeBy(at, e, s) = MadeBy(at, e, Tail(s)) \cup {Joining(at, e, Head(s))}
               /\ Joining(at, e, Head(s)) \in Nat \X Nat
               /\ Distinct(s) => /\ Joining(at, e, Head(s)) \notin MadeBy(at, e, Tail(s))
                                 /\ Distinct(Tail(s))
        BY MadeByFirst
      <4>3. \A s \in Seq(Nat), at \in {"left", "right"} : s # <<>> =>
               /\ MadeBy(at, t, s) = MadeBy(at, t, Tail(s)) \cup {Joining(at, t, Head(s))}
               /\ Joining(at, t, Head(s)) \in Nat \X Nat
               /\ Distinct(s) => /\ Joining(at, t, Head(s)) \notin MadeBy(at, t, Tail(s))
                                 /\ Distinct(Tail(s))
        BY <4>1, <4>2
      <4>4. \A at \in {"left", "right"} :
               /\ MadeBy(at, t, h.todo) = MadeBy(at, t, Tail(h.todo)) \cup {Joining(at, t, Head(h.todo))}
               /\ Joining(at, t, Head(h.todo)) \in Nat \X Nat
               /\ Distinct(h.todo) => /\ Joining(at, t, Head(h.todo)) \notin MadeBy(at, t, Tail(h.todo))
                                 /\ Distinct(Tail(h.todo))
        BY <4>1, <4>3
      <4>. QED  BY <4>1, <4>4
    <3>. PICK c : c = Joining(h.at, t, Head(h.todo))
      OBVIOUS
    <3>. PICK M : M = MadeBy(h.at, t, Tail(h.todo))
      OBVIOUS
    <3>1. /\ N = M \cup {c} /\ c \in Nat \X Nat /\ c \notin M /\ Distinct(Tail(h.todo))
      <4>4. N = MadeBy(h.at, t, h.todo)
        BY DEF N
      <4>5. N = M \cup {c}
        BY <3>0, <4>4
      <4>6. Distinct(h.todo)
        BY <2>7, <2>21
      <4>7. c \notin M /\ Distinct(Tail(h.todo)) /\ c \in Nat \X Nat
        BY <3>0, <4>6
      <4>. QED  BY <4>5, <4>7
    <3>2. Y1 = Y /\ D1 = D
      BY <2>2, <2>21
    <3>3. P1 = O \cup M /\ Apart(Execs(stack'))
      BY <2>7, <2>21, <3>1
    <3>4. c \in P /\ c \notin P1 /\ P = P1 \cup {c}
      BY <2>7, <3>1, <3>3
    <3>5. joined' \in Seq(Nat \X Nat) /\ Elements(joined') = J \cup {c} /\ Distinct(joined')
      <4>1. c \notin J /\ IsFiniteSet(Elements(joined))
        BY <1>1, <3>4, HoldsFinite
      <4>2. LET d == Append(joined, c)
            IN  d \in Seq(Nat \X Nat) /\ Elements(d) = Elements(joined) \cup {c} /\ Distinct(d)
        BY <1>1, <3>1, <4>1, AddedOnce DEF J
      <4>3. Joins(h, Head(h.todo)) = c
        BY DEF Joins, t
      <4>. QED  BY <2>21, <4>2, <4>3 DEF J
    <3>6. P1 \cap (J \cup {c}) = {} /\ P1 \cup (J \cup {c}) = L \X R
      BY <1>1, <3>4
    <3>7. /\ LeftOf(k)' = LeftOf(k) /\ RightOf(k)' = RightOf(k)
          /\ LeftEvents' = LeftEvents /\ RightEvents' = RightEvents
      BY <2>3, <2>21 DEF LeftEvents, RightEvents
    <3>. QED  BY <1>1, <3>2, <3>3, <3>5, <3>6, <3>7 DEF JoinInv, Y1, D1, P1, L, R
  <2>. QED
    BY <1>3, <2>4, <2>5, <2>14, <2>15, <2>16, <2>17, <2>18, <2>19, <2>20, <2>21, ExecutionSteps
       DEF ExecutionStep, h, t
<1>. QED  BY <1>2, <1>3

LEMMA QueryInit == Init => QueryInv
<1>. SUFFICES ASSUME Init PROVE QueryInv
  OBVIOUS
<1>1. /\ stack = <<>> /\ executed = {} /\ contexts = <<>> /\ joined = <<>> /\ counted = <<>>
  BY DEF Init
<1>2. Elements(<<>>) = {}
  BY DEF Elements
<1>3. Distinct(<<>>)
  BY <1>2, FS_EmptySet DEF Distinct
<1>4. Execs(stack) = {}
  BY <1>1 DEF Execs, Frames
<1>5. LeftEvents = <<>> /\ RightEvents = <<>>
  BY <1>1 DEF LeftEvents, RightEvents
<1>6. \A k : Reaching(k) = {} /\ LeftOf(k) = {} /\ RightOf(k) = {}
  BY <1>1 DEF Reaching, LeftOf, RightOf
<1>7. \A k : CountInv(k)
  <2>1. counted \in Seq(Nat)
    BY <1>1
  <2>. QED  BY <1>1, <1>2, <1>3, <1>6, <2>1 DEF CountInv
<1>8. Apart(Execs(stack)) /\ ToJoin(Execs(stack)) = {}
  BY <1>4 DEF Apart, ToJoin
<1>9. \A k : JoinInv(k)
  <2>1. joined \in Seq(Nat \X Nat)
    BY <1>1
  <2>2. {} \X {} = {}
    OBVIOUS
  <2>. QED  BY <1>1, <1>2, <1>3, <1>5, <1>6, <1>8, <2>1, <2>2 DEF JoinInv
<1>. QED  BY <1>7, <1>9 DEF QueryInv

LEMMA QueryNext == Base /\ Nested /\ ExecInv /\ QueryInv /\ [Next]_vars => QueryInv'
<1>. SUFFICES ASSUME Base, Nested, ExecInv, QueryInv, [Next]_vars,
                     NEW k \in 1 .. Len(query), OneState(k)
              PROVE  IF query[k].type = "aggregate" THEN CountInv(k)' ELSE JoinInv(k)'
  BY SettingKept DEF QueryInv, OneState, setting
<1>1. query[k].type \in {"aggregate", "correlate"}
  BY OneStage
<1>2. CASE query[k].type = "aggregate"
  BY <1>2, CountNext DEF QueryInv
<1>3. CASE query[k].type = "correlate"
  BY <1>3, JoinNext DEF QueryInv
<1>. QED  BY <1>1, <1>2, <1>3

(* A query with one stage that keeps a state counts, or joins, each event  *)
(* that comes to that stage exactly once, also when handlers execute the   *)
(* query in the middle of its own walks (execute_aggregate and             *)
(* execute_correlate in core/nql_executor.c): an execution joins its event *)
(* with what the other side held when it came, and whichever of two events *)
(* comes second finds the first one in its buffer.                         *)
THEOREM QueriesExact == Spec => []QueryExact
<1>1. Init => Base /\ OwnedInv /\ ExecInv /\ QueryInv
  BY BaseInit, OwnedInit, ExecInit, QueryInit
<1>2. OwnedInv => Nested
  BY DEF OwnedInv
<1>3. Base /\ QueryInv => QueryExact
  <2>. SUFFICES ASSUME Base, QueryInv, NEW k \in DOMAIN query, Idle, OneState(k)
                PROVE  IF query[k].type = "aggregate"
                       THEN Distinct(counted) /\ Elements(counted) = Reaching(k)
                       ELSE /\ Distinct(joined)
                            /\ Elements(joined) =
                                  {p \in Reaching(k) \X Reaching(k) :
                                     Passes(p[1], query[k].left) /\ Passes(p[2], query[k].right)}
    BY DEF QueryExact, OneState
  <2>1. k \in 1 .. Len(query)
    BY QueryTyped DEF Base
  <2>2. Execs(stack) = {}
    BY DEF Idle, Execs, Frames
  <2>3. Yet(Execs(stack), k) = {} /\ OnLeft(Execs(stack)) = {} /\ ToJoin(Execs(stack)) = {}
    BY <2>2 DEF Yet, OnLeft, ToJoin
  <2>4. CASE query[k].type = "aggregate"
    BY <2>1, <2>3, <2>4 DEF QueryInv, CountInv
  <2>5. CASE query[k].type # "aggregate"
    <3>1. /\ Distinct(joined) /\ Elements(joined) = LeftOf(k) \X RightOf(k)
      BY <2>1, <2>3, <2>5 DEF QueryInv, JoinInv
    <3>. DEFINE A == LeftOf(k)
                C == RightOf(k)
                H == Reaching(k)
    <3>2. /\ \A e : e \in A <=> e \in H /\ Passes(e, query[k].left)
          /\ \A e : e \in C <=> e \in H /\ Passes(e, query[k].right)
      BY DEF LeftOf, RightOf
    <3>. HIDE DEF A, C, H
    <3>3. ASSUME NEW p PROVE p \in A \X C <=> p = <<p[1], p[2]>> /\ p[1] \in A /\ p[2] \in C
      OBVIOUS
    <3>4. ASSUME NEW p PROVE p \in H \X H <=> p = <<p[1], p[2]>> /\ p[1] \in H /\ p[2] \in H
      OBVIOUS
    <3>5. ASSUME NEW p
          PROVE  p \in A \X C <=> p \in {q \in H \X H : Passes(q[1], query[k].left)
                                                       /\ Passes(q[2], query[k].right)}
      BY <3>2, <3>3, <3>4
    <3>6. A \X C = {q \in H \X H : Passes(q[1], query[k].left) /\ Passes(q[2], query[k].right)}
      BY <3>5
    <3>. QED  BY <2>5, <3>1, <3>6 DEF A, C, H
  <2>. QED  BY <2>4, <2>5
<1>. QED
  BY <1>1, <1>2, <1>3, BaseNext, OwnedNext, ExecNext, QueryNext, PTL DEF Spec

----------------------------------------------------------------------------
(* With event_handler_query, what is directly inside of an emission that   *)
(* waits for its query is the execution of that query on its event, and    *)
(* any other execution is that of a caller, whose event is not emitted.    *)
Sits(g, f) ==
    /\ f.fn = "emit" /\ f.at = "print" => g.fn = "execute"
    /\ g.fn = "execute" =>
          /\ f.event = g.event
          /\ \/ f.fn = "emit" /\ f.at = "print"
             \/ f.fn = "caller" /\ ~events[g.event].emitted

Printing(s) == EmitsAt(s, "print")

SeatsInv == \A i \in 1 .. Len(stack) - 1 : Sits(stack[i], stack[i + 1])

ResultInv ==
    stack # <<>> /\ stack[1].fn = "emit" /\ stack[1].at = "print" =>
        /\ stack[1].event \in executed
        /\ result = 1 <=> Satisfies(stack[1].event, Len(query))

PrintInv ==
    handler = "event_handler_query" =>
        /\ SeatsInv /\ ResultInv
        /\ \A e \in Printing(stack) : e \in 1 .. Len(events) /\ events[e].emitted
        /\ printed = {e \in Reaching(Len(query)) : events[e].emitted} \ Printing(stack)

LEMMA SeatsNext ==
    ASSUME Base, handler = "event_handler_query", SeatsInv, [Next]_vars
    PROVE  SeatsInv'
<1>. DEFINE emitted1(e) == events'[e].emitted
            S1(g, f) == /\ f.fn = "emit" /\ f.at = "print" => g.fn = "execute"
                        /\ g.fn = "execute" =>
                              /\ f.event = g.event
                              /\ \/ f.fn = "emit" /\ f.at = "print"
                                 \/ f.fn = "caller" /\ ~emitted1(g.event)
<1>1. (\A i \in 1 .. Len(stack') - 1 : S1(stack'[i], stack'[i + 1])) => SeatsInv'
  BY DEF SeatsInv, Sits
<1>2. /\ Len(stack) \in Nat /\ \A i \in 1 .. Len(stack) : stack[i].event \in 1 .. Len(events)
      /\ \A e \in 1 .. Len(events) : Kept(e)
  BY Steps, EventsStep, LenProperties DEF Base, Typed, CallsTyped
<1>3. \A i \in 1 .. Len(stack) - 1 : S1(stack[i], stack[i + 1])
  <2>1. ASSUME NEW i \in 1 .. Len(stack) - 1 PROVE S1(stack[i], stack[i + 1])
    <3>1. i \in 1 .. Len(stack) /\ Sits(stack[i], stack[i + 1])
      BY <1>2 DEF SeatsInv
    <3>2. emitted1(stack[i].event) = events[stack[i].event].emitted
      BY <1>2, <3>1 DEF Kept
    <3>. QED  BY <3>1, <3>2 DEF Sits
  <2>. QED  BY <2>1
<1>4. ASSUME NEW f, NEW h, NEW g, S1(h, g), f.fn = h.fn, f.event = h.event PROVE S1(f, g)
  BY <1>4
<1>. HIDE DEF S1
<1>5. CASE Returns
  <2>1. /\ Len(stack') = Len(stack) - 1 /\ Len(stack) \in Nat
        /\ \A i \in 1 .. Len(stack') : stack'[i] = stack[i + 1]
    BY <1>5, StackReturns
  <2>2. ASSUME NEW i \in 1 .. Len(stack') - 1 PROVE S1(stack'[i], stack'[i + 1])
    <3>. PICK j \in Int : j = i + 1
      OBVIOUS
    <3>1. j \in 1 .. Len(stack') /\ i \in 1 .. Len(stack') /\ j \in 1 .. Len(stack) - 1
      BY <2>1
    <3>2. stack'[i] = stack[j] /\ stack'[j] = stack[j + 1]
      BY <2>1, <3>1
    <3>. QED  BY <1>3, <3>1, <3>2
  <2>. QED  BY <1>1, <2>2
<1>6. ASSUME NEW f \in Frame, GoesOn(f) PROVE SeatsInv'
  <2>1. /\ Len(stack') = Len(stack) /\ Len(stack) \in Nat \ {0}
        /\ stack'[1] = f /\ \A i \in 2 .. Len(stack) : stack'[i] = stack[i]
        /\ f.fn = stack[1].fn /\ f.event = stack[1].event
    BY <1>6, StackGoesOn DEF GoesOn, SameCall
  <2>2. ASSUME NEW i \in 1 .. Len(stack') - 1 PROVE S1(stack'[i], stack'[i + 1])
    <3>. PICK j \in Int : j = i + 1
      OBVIOUS
    <3>1. j \in 2 .. Len(stack) /\ stack'[j] = stack[j] /\ i \in 1 .. Len(stack) - 1
          /\ S1(stack[i], stack[j])
      BY <1>3, <2>1
    <3>2. CASE i = 1
      BY <1>4, <2>1, <3>1, <3>2
    <3>3. CASE i # 1
      <4>1. stack'[i] = stack[i]
        BY <2>1, <3>1, <3>3
      <4>. QED  BY <3>1, <4>1
    <3>. QED  BY <3>2, <3>3
  <2>. QED  BY <1>1, <2>2
<1>7. ASSUME NEW f \in Frame, NEW g \in Frame, Calls(g, f) PROVE SeatsInv'
  <2>1. /\ Len(stack') = Len(stack) + 1 /\ Len(stack) \in Nat \ {0}
        /\ stack'[1] = g /\ stack'[2] = f
        /\ \A i \in 3 .. Len(stack') : stack'[i] = stack[i - 1]
        /\ f.fn = stack[1].fn /\ f.event = stack[1].event
    BY <1>7, StackCalls DEF Calls, SameCall
  <2>2. S1(g, f)
    <3>1. CASE Checks(g, f)
      BY <3>1 DEF Checks, S1
    <3>2. CASE Executes(g, f)
      BY <3>2 DEF Executes, S1
    <3>3. CASE EmitsResult(g, f)
      BY <3>3 DEF EmitsResult, S1
    <3>. QED  BY <1>7, <3>1, <3>2, <3>3 DEF Calls
  <2>3. ASSUME NEW i \in 1 .. Len(stack') - 1 PROVE S1(stack'[i], stack'[i + 1])
    <3>1. CASE i = 1
      BY <2>1, <2>2, <3>1
    <3>2. CASE i = 2
      <4>1. 3 \in 3 .. Len(stack') /\ 1 \in 1 .. Len(stack) - 1
        BY <2>1, <3>2
      <4>2. stack'[3] = stack[2] /\ S1(stack[1], stack[2])
        BY <1>3, <2>1, <4>1
      <4>3. S1(f, stack[2])
        BY <1>4, <2>1, <4>2
      <4>. QED  BY <2>1, <3>2, <4>2, <4>3
    <3>3. CASE i \notin {1, 2}
      <4>. PICK j \in Int : j = i - 1
        OBVIOUS
      <4>1. i \in 3 .. Len(stack') /\ i + 1 \in 3 .. Len(stack') /\ j \in 1 .. Len(stack) - 1
            /\ (i + 1) - 1 = j + 1
        BY <2>1, <3>3
      <4>2. stack'[i] = stack[j] /\ stack'[i + 1] = stack[j + 1]
        BY <2>1, <4>1
      <4>. QED  BY <1>3, <4>1, <4>2
    <3>. QED  BY <3>1, <3>2, <3>3
  <2>. QED  BY <1>1, <2>3
<1>8. ASSUME NEW g \in Frame, Begins(g) PROVE SeatsInv'
  <2>1. /\ Len(stack') \in {1, 2} /\ stack'[1] = g
        /\ Len(stack') = 2 => stack'[2].fn = "caller" /\ stack'[2].event = New
    BY <1>8, StackBegins
  <2>2. Len(stack') = 2 => S1(g, stack'[2])
    <3>1. g.event = New /\ (g.fn = "execute" => ~emitted1(New))
      <4>1. PICK r \in EventRecord : NewEvent(r) /\ r.emitted = (g.fn = "emit")
        BY <1>8 DEF Begins
      <4>2. events'[New] = r
        BY <4>1, EventsAppended
      <4>. QED  BY <1>8, <4>1, <4>2 DEF Begins
    <3>. QED  BY <2>1, <3>1 DEF S1
  <2>3. CASE Len(stack') = 1
    BY <1>1, <2>3
  <2>4. CASE Len(stack') = 2
    <3>1. \A i \in 1 .. 2 - 1 : i = 1 /\ i + 1 = 2
      OBVIOUS
    <3>. QED  BY <1>1, <2>1, <2>2, <2>4, <3>1
  <2>. QED  BY <2>1, <2>3, <2>4
<1>9. CASE Stays
  <2>1. stack' = stack
    BY <1>9 DEF Stays
  <2>. QED  BY <1>1, <1>3, <2>1
<1>. QED  BY <1>5, <1>6, <1>7, <1>8, <1>9, Steps DEF StepKind

(* What is printed, and what the query answers, change at one step each.   *)
LEMMA PrintedKept ==
    ASSUME Base, handler = "event_handler_query", [Next]_vars, ~HandlerPrint
    PROVE  printed' = printed /\ ((stack # <<>> /\ stack[1].fn = "execute") \/ result' = result)
<1>1. stack # <<>> => Head(stack) = stack[1]
  BY Innermost
<1>2. Next \/ UNCHANGED vars
  OBVIOUS
<1>. QED
  BY <1>1, <1>2
     DEF Next, FileLine, Packet, CallerExecutes, CallerEmits, Source, CallerFrees, EmitDrop,
         EmitProcess, EmitHandle, EmitFree, CheckMatch, CheckAdd, ExecuteBegin,
         ExecuteRefuse, ExecuteEnd, ExecuteFilter, ExecuteConfused, ExecuteAggregate,
         ExecuteCorrelate, CorrelateRight, CorrelateDone, CorrelateMatch, Running,
         vars, execution, output

LEMMA Longer ==
    ASSUME Base, stack # <<>>, NEW f
    PROVE  /\ Tail(stack) # <<f>> \o Tail(stack)
           /\ \A g : Tail(stack) # <<g>> \o (<<f>> \o Tail(stack))
<1>1. Tail(stack) \in Seq(Frame)
  BY Returned DEF Base, Typed
<1>2. ASSUME NEW g PROVE Tail(stack) # <<g>> \o (<<f>> \o Tail(stack))
  <2>. DEFINE S == Frame \cup {f, g}
  <2>1. Tail(stack) \in Seq(S) /\ <<f>> \in Seq(S) /\ <<g>> \in Seq(S) /\ Len(<<f>>) = 1 /\ Len(<<g>>) = 1
    BY <1>1
  <2>. HIDE DEF S
  <2>2. <<f>> \o Tail(stack) \in Seq(S) /\ Len(<<f>> \o Tail(stack)) = 1 + Len(Tail(stack))
    BY <2>1, ConcatProperties
  <2>3. Len(<<g>> \o (<<f>> \o Tail(stack))) = 1 + (1 + Len(Tail(stack)))
    BY <2>1, <2>2, ConcatProperties
  <2>4. Len(Tail(stack)) \in Nat
    BY <1>1, LenProperties
  <2>. QED  BY <2>3, <2>4
<1>3. Tail(stack) # <<f>> \o Tail(stack)
  <2>. DEFINE S == Frame \cup {f}
  <2>1. Tail(stack) \in Seq(S) /\ <<f>> \in Seq(S) /\ Len(<<f>>) = 1
    BY <1>1
  <2>. HIDE DEF S
  <2>2. Len(<<f>> \o Tail(stack)) = 1 + Len(Tail(stack))
    BY <2>1, ConcatProperties
  <2>3. Len(Tail(stack)) \in Nat
    BY <1>1, LenProperties
  <2>. QED  BY <2>2, <2>3
<1>. QED  BY <1>2, <1>3

(* How an execution returns.                                               *)
LEMMA Answered ==
    ASSUME Base, [Next]_vars, stack # <<>>, stack[1].fn = "execute", stack' = Tail(stack)
    PROVE  /\ stack[1].at = "stage" /\ executed' = executed
           /\ \/ /\ Stage <= Len(query) /\ ~Accepts(query[Stage], This) /\ result' = 0
              \/ Stage > Len(query) /\ result' = 1
<1>1. \A f : stack' # <<f>> \o Tail(stack)
  BY Longer
<1>2. \A f, g : stack' # <<g>> \o (<<f>> \o Tail(stack))
  BY Longer
<1>3. stack' # stack
  BY Returned DEF Base, Typed
<1>4. ~UNCHANGED vars /\ ~ExecuteBegin /\ ~ExecuteFilter /\ ~ExecuteConfused
  BY <1>1, <1>3 DEF vars, ExecuteBegin, ExecuteFilter, ExecuteConfused, Goto, GotoStage
<1>5. ~ExecuteCorrelate /\ ~CorrelateRight /\ ~CorrelateDone
  BY <1>1 DEF ExecuteCorrelate, CorrelateRight, CorrelateDone, Walk, GotoStage
<1>6. ~ExecuteAggregate /\ \A side : ~CorrelateMatch(side)
  BY <1>1, <1>2 DEF ExecuteAggregate, CorrelateMatch, EmitResult, Walk, GotoStage
<1>7. stack[1].at = "stage" /\ (ExecuteRefuse \/ ExecuteEnd)
  BY <1>4, <1>5, <1>6, ExecutePoints
<1>. QED  BY <1>7 DEF ExecuteRefuse, ExecuteEnd, Refused, Answer

(* What an emission reads when its query has been executed.                *)
LEMMA ResultNext ==
    ASSUME Base, Nested, ExecInv, handler = "event_handler_query", SeatsInv, ResultInv,
           [Next]_vars
    PROVE  ResultInv'
<1>. SUFFICES ASSUME (stack # <<>> /\ stack[1].fn = "emit" /\ stack[1].at = "print")'
              PROVE  (/\ stack[1].event \in executed
                      /\ result = 1 <=> Satisfies(stack[1].event, Len(query)))'
  BY DEF ResultInv
<1>0. query' = query /\ Len(query) \in Nat
  BY SettingKept, QueryTyped DEF setting, Base
<1>1. CASE Returns
  <2>1. /\ stack # <<>> /\ stack' = Tail(stack) /\ Len(stack) \in Nat /\ Len(stack) # 1
        /\ Len(stack) > 0 /\ 1 \in 1 .. Len(stack')
    <3>1. /\ Len(stack) \in Nat \ {0} /\ Len(stack') = Len(stack) - 1 /\ stack' \in Seq(Frame)
          /\ stack # <<>> /\ stack' = Tail(stack)
      BY <1>1, StackReturns DEF Returns
    <3>2. Len(stack') # 0
      BY <3>1, EmptySeq
    <3>. QED  BY <3>1, <3>2
  <2>2. stack'[1] = stack[2]
    <3>1. stack'[1] = stack[1 + 1]
      BY <1>1, <2>1, StackReturns
    <3>. QED  BY <3>1
  <2>3. Sits(stack[1], stack[2])
    <3>1. 1 \in 1 .. Len(stack) - 1
      BY <2>1
    <3>2. Sits(stack[1], stack[1 + 1])
      BY <3>1 DEF SeatsInv
    <3>. QED  BY <3>2
  <2>. PICK t \in 1 .. Len(events) : t = stack[1].event
    BY <2>1, Innermost
  <2>4. stack[1].fn = "execute" /\ stack'[1].event = t
    BY <2>2, <2>3 DEF Sits
  <2>5. /\ stack[1].at = "stage" /\ executed' = executed
        /\ \/ /\ stack[1].stage <= Len(query) /\ ~Accepts(query[stack[1].stage], t) /\ result' = 0
           \/ stack[1].stage > Len(query) /\ result' = 1
    BY <2>1, <2>4, Answered, Innermost
  <2>6. /\ t \in executed
        /\ stack[1].stage > Len(query) => t \in Reaching(Len(query))
        /\ stack[1].stage <= Len(query) /\ ~Accepts(query[stack[1].stage], t)
              => t \notin Reaching(Len(query))
    BY <1>0, <2>1, <2>4, <2>5, InnermostReached
  <2>7. t \in executed' /\ (result' = 1 <=> Satisfies(t, Len(query)))
    BY <2>5, <2>6 DEF Reaching
  <2>8. Satisfies(t, Len(query))' <=> Satisfies(t, Len(query))
    BY <1>0, AcceptsKept
  <2>. QED  BY <1>0, <2>4, <2>7, <2>8
<1>2. ASSUME NEW f \in Frame, GoesOn(f) PROVE FALSE
  <2>1. stack'[1] = f
    BY <1>2, StackGoesOn
  <2>. QED  BY <1>2, <2>1 DEF GoesOn
<1>3. ASSUME NEW f \in Frame, NEW g \in Frame, Calls(g, f) PROVE FALSE
  <2>1. stack'[1] = g
    BY <1>3, StackCalls
  <2>. QED  BY <1>3, <2>1 DEF Calls, Checks, Executes, EmitsResult
<1>4. ASSUME NEW g \in Frame, Begins(g) PROVE FALSE
  <2>1. stack'[1] = g
    BY <1>4, StackBegins
  <2>. QED  BY <1>4, <2>1 DEF Begins
<1>5. CASE Stays
  <2>1. stack' = stack /\ result' = result /\ executed' = executed
    BY <1>5 DEF Stays, execution
  <2>. PICK t \in 1 .. Len(events) : t = stack[1].event
    BY <2>1, Innermost
  <2>2. t \in executed /\ (result = 1 <=> Satisfies(t, Len(query)))
    BY <2>1 DEF ResultInv
  <2>3. Satisfies(t, Len(query))' <=> Satisfies(t, Len(query))
    BY <1>0, AcceptsKept
  <2>. QED  BY <1>0, <2>1, <2>2, <2>3
<1>. QED  BY <1>1, <1>2, <1>3, <1>4, <1>5, Steps DEF StepKind

(* The emissions that wait for their query, over a step.                   *)
LEMMA PrintingOther ==
    ASSUME Base, Nested, handler = "event_handler_query", [Next]_vars, ~HandlerPrint
    PROVE  \/ Printing(stack') = Printing(stack)
           \/ /\ stack # <<>> /\ stack[1].fn = "emit"
              /\ \E t \in Pending(stack) : Printing(stack') = Printing(stack) \cup {t}
<1>1. ASSUME stack # <<>>, NEW f \in Frame
      PROVE  /\ Printing(stack) = Outer("print") \cup Part(stack[1], "print")
             /\ Pending(stack) = Outer("handle") \cup Part(stack[1], "handle")
             /\ stack' = Tail(stack) => Printing(stack') = Outer("print")
             /\ stack' = <<f>> \o Tail(stack)
                   => Printing(stack') = Outer("print") \cup Part(f, "print")
             /\ \A g \in Frame : stack' = <<g>> \o (<<f>> \o Tail(stack))
                   => Printing(stack') = Outer("print") \cup Part(f, "print") \cup Part(g, "print")
  BY <1>1, EmitsChange DEF Printing, Pending
<1>2. CASE UNCHANGED stack
  BY <1>2
<1>3. CASE Returns
  <2>1. stack # <<>> /\ stack[1] \in Frame /\ stack' = Tail(stack)
    BY <1>3, Innermost DEF Returns
  <2>2. Part(stack[1], "print") = {}
    BY <1>3, <2>1, PartIs DEF Returns
  <2>. QED  BY <1>1, <2>1, <2>2
<1>4. ASSUME NEW f \in Frame, GoesOn(f), ~UNCHANGED stack
      PROVE  Printing(stack') = Printing(stack)
  <2>1. stack # <<>> /\ stack[1] \in Frame /\ stack' = <<f>> \o Tail(stack) /\ f.fn = stack[1].fn
    BY <1>4, Innermost DEF GoesOn, SameCall
  <2>2. ~(stack[1].fn = "emit" /\ stack[1].at = "print")
    BY <1>4, <2>1, EmitPoints DEF vars
  <2>3. Part(stack[1], "print") = {}
    BY <2>1, <2>2, PartIs
  <2>4. Part(f, "print") = {}
    BY <1>4, PartIs DEF GoesOn
  <2>. QED  BY <1>1, <2>1, <2>3, <2>4
<1>5. ASSUME NEW f \in Frame, NEW g \in Frame, Calls(g, f)
      PROVE  \/ Printing(stack') = Printing(stack)
             \/ /\ stack # <<>> /\ stack[1].fn = "emit"
                /\ \E t \in Pending(stack) : Printing(stack') = Printing(stack) \cup {t}
  <2>1. /\ stack # <<>> /\ stack[1] \in Frame /\ stack' = <<g>> \o (<<f>> \o Tail(stack))
        /\ f.fn = stack[1].fn /\ f.event = stack[1].event
    BY <1>5, Innermost DEF Calls, SameCall
  <2>2. CASE Checks(g, f)
    <3>1. /\ Part(stack[1], "print") = {} /\ Part(f, "print") = {} /\ Part(g, "print") = {}
      BY <2>1, <2>2, PartIs DEF Checks
    <3>. QED  BY <1>1, <2>1, <3>1
  <2>3. CASE Executes(g, f)
    <3>1. /\ Part(stack[1], "print") = {} /\ Part(f, "print") = {f.event} /\ Part(g, "print") = {}
          /\ Part(stack[1], "handle") = {f.event} /\ stack[1].fn = "emit"
      BY <2>1, <2>3, PartIs DEF Executes
    <3>2. f.event \in Pending(stack)
      BY <1>1, <2>1, <3>1
    <3>3. Printing(stack') = Outer("print") \cup Part(f, "print") \cup Part(g, "print")
      BY <1>1, <2>1
    <3>4. Printing(stack) = Outer("print") \cup Part(stack[1], "print")
      BY <1>1, <2>1
    <3>5. Printing(stack') = Printing(stack) \cup {f.event}
      BY <3>1, <3>3, <3>4
    <3>. QED  BY <2>1, <3>1, <3>2, <3>5
  <2>4. CASE EmitsResult(g, f)
    <3>1. /\ Part(stack[1], "print") = {} /\ Part(f, "print") = {} /\ Part(g, "print") = {}
      BY <2>1, <2>4, PartIs DEF EmitsResult
    <3>. QED  BY <1>1, <2>1, <3>1
  <2>. QED  BY <1>5, <2>2, <2>3, <2>4 DEF Calls
<1>6. ASSUME NEW g \in Frame, Begins(g) PROVE Printing(stack') = Printing(stack)
  <2>1. /\ Frames(stack) = {}
        /\ \/ Frames(stack') = {g}
           \/ \E c \in Frame : Frames(stack') = {g, c} /\ c.fn = "caller" /\ c.event = New
    BY <1>6, FramesBegin
  <2>2. g.at # "print"
    BY <1>6 DEF Begins
  <2>3. \A x \in Frames(stack') : ~(x.fn = "emit" /\ x.at = "print")
    BY <2>1, <2>2
  <2>. QED  BY <2>1, <2>3 DEF Printing, EmitsAt
<1>. QED  BY <1>2, <1>3, <1>4, <1>5, <1>6, Steps DEF StepKind, Stays

LEMMA PrintingDone ==
    ASSUME Base, Nested, HandlerPrint
    PROVE  /\ stack # <<>> /\ stack[1].fn = "emit" /\ stack[1].at = "print"
           /\ stack[1].event \in Printing(stack)
           /\ Printing(stack') = Printing(stack) \ {stack[1].event}
           /\ printed' = IF result = 1 THEN printed \cup {stack[1].event} ELSE printed
           /\ executed' = executed
<1>1. stack # <<>>
  BY DEF HandlerPrint, Running
<1>2. Head(stack) = stack[1] /\ stack[1] \in Frame /\ This = stack[1].event
  BY <1>1, Innermost
<1>3. /\ stack[1].fn = "emit" /\ stack[1].at = "print" /\ stack' = Goto("free")
      /\ printed' = IF result = 1 THEN printed \cup {stack[1].event} ELSE printed
      /\ executed' = executed
  BY <1>2 DEF HandlerPrint, Running, execution
<1>. DEFINE f == At(stack[1], "free")
<1>4. f \in Frame /\ stack' = <<f>> \o Tail(stack) /\ f.at = "free"
  BY <1>2, <1>3 DEF At, Frame, Points, Goto
<1>. HIDE DEF f
<1>5. Part(f, "print") = {} /\ Part(stack[1], "print") = {stack[1].event}
  BY <1>2, <1>3, <1>4, PartIs
<1>6. /\ Printing(stack) = Outer("print") \cup Part(stack[1], "print")
      /\ stack[1].event \notin Outer("print")
      /\ Printing(stack') = Outer("print") \cup Part(f, "print")
  BY <1>1, <1>3, <1>4, EmitsChange DEF Printing
<1>. QED  BY <1>1, <1>3, <1>5, <1>6

(* The emitted events that every stage lets through.                       *)
Matched == {e \in Reaching(Len(query)) : events[e].emitted}

LEMMA MatchedStep ==
    ASSUME Base, ExecInv, [Next]_vars
    PROVE  /\ executed' = executed => Matched' = Matched
           /\ \A t \in 1 .. Len(events) :
                 executed' = executed \cup {t} =>
                    \/ Matched' = Matched
                    \/ Matched' = Matched \cup {t} /\ events[t].emitted
<1>1. query' = query /\ executed \subseteq 1 .. Len(events)
  BY SettingKept DEF setting, ExecInv
<1>2. \A e \in 1 .. Len(events) : events'[e].emitted = events[e].emitted
  BY Steps, EventsStep DEF Kept
<1>. PICK L : L = Len(query)
  OBVIOUS
<1>. DEFINE R == Reaching(L)
<1>3. R \subseteq 1 .. Len(events) /\ Matched = {e \in R : events[e].emitted}
  BY <1>1 DEF Reaching, Matched
<1>4. Matched' = {e \in Reaching(L)' : events'[e].emitted}
  BY <1>1 DEF Matched
<1>5. /\ executed' = executed => Reaching(L)' = R
      /\ \A t \in 1 .. Len(events) :
            executed' = executed \cup {t} => Reaching(L)' \in {R, R \cup {t}}
  <2>1. executed' = executed => Reaching(L)' = R
    BY ReachingStep
  <2>2. ASSUME NEW t \in 1 .. Len(events), executed' = executed \cup {t}
        PROVE  Reaching(L)' \in {R, R \cup {t}}
    <3>1. Reaching(L)' = R \cup {e \in {t} : Satisfies(e, L)}
      BY <2>2, ReachingStep
    <3>. HIDE DEF R
    <3>. QED  BY <3>1
  <2>. QED  BY <2>1, <2>2
<1>. HIDE DEF R
<1>. QED  BY <1>2, <1>3, <1>4, <1>5

LEMMA PrintInit == Init => PrintInv
<1>. SUFFICES ASSUME Init PROVE PrintInv
  OBVIOUS
<1>1. stack = <<>> /\ executed = {} /\ printed = {}
  BY DEF Init
<1>2. Printing(stack) = {}
  BY <1>1 DEF Printing, EmitsAt, Frames
<1>3. SeatsInv /\ ResultInv
  BY <1>1 DEF SeatsInv, ResultInv
<1>4. {e \in Reaching(Len(query)) : events[e].emitted} = {}
  BY <1>1 DEF Reaching
<1>. QED  BY <1>1, <1>2, <1>3, <1>4 DEF PrintInv

LEMMA PrintNext == Base /\ Nested /\ HandledInv /\ ExecInv /\ PrintInv /\ [Next]_vars => PrintInv'
<1>. SUFFICES ASSUME Base, Nested, HandledInv, ExecInv, PrintInv, [Next]_vars,
                     handler = "event_handler_query"
              PROVE  /\ SeatsInv' /\ ResultInv'
                     /\ \A e \in Printing(stack') : e \in 1 .. Len(events') /\ events'[e].emitted
                     /\ printed' = Matched' \ Printing(stack')
  BY SettingKept DEF PrintInv, setting, Matched
<1>. DEFINE P == Printing(stack)
            Q == Printing(stack')
<1>1. /\ SeatsInv /\ ResultInv /\ printed = Matched \ P
      /\ \A e \in P : e \in 1 .. Len(events) /\ events[e].emitted
  BY DEF PrintInv, Matched
<1>2. SeatsInv' /\ ResultInv'
  BY <1>1, SeatsNext, ResultNext
<1>3. \A e \in 1 .. Len(events) : e \in 1 .. Len(events') /\ events'[e].emitted = events[e].emitted
  BY AdmittedKept
<1>4. Matched \subseteq executed
  BY DEF Matched, Reaching
<1>5. CASE HandlerPrint
  <2>. PICK t : t = stack[1].event
    OBVIOUS
  <2>1. /\ t \in P /\ Q = P \ {t} /\ executed' = executed
        /\ printed' = IF result = 1 THEN printed \cup {t} ELSE printed
        /\ stack # <<>> /\ stack[1].fn = "emit" /\ stack[1].at = "print"
    BY <1>5, PrintingDone
  <2>2. t \in Matched <=> result = 1
    <3>1. t \in executed /\ (result = 1 <=> Satisfies(t, Len(query)))
      BY <1>1, <2>1 DEF ResultInv
    <3>. QED  BY <1>1, <2>1, <3>1 DEF Matched, Reaching
  <2>3. Matched' = Matched
    BY <2>1, MatchedStep
  <2>. HIDE DEF P, Q
  <2>4. printed' = Matched \ Q
    BY <1>1, <2>1, <2>2
  <2>. QED  BY <1>1, <1>2, <1>3, <2>1, <2>3, <2>4 DEF Q
<1>6. CASE ~HandlerPrint /\ ~(stack # <<>> /\ stack[1].fn = "execute")
  <2>1. printed' = printed /\ executed' = executed
    BY <1>6, PrintedKept, QueryKept DEF querying
  <2>2. Matched' = Matched
    BY <2>1, MatchedStep
  <2>3. \A t \in Pending(stack) : t \in 1 .. Len(events) /\ events[t].emitted /\ t \notin Matched
    BY <1>4 DEF HandledInv, ExecInv, Before
  <2>4. Q = P \/ \E t \in Pending(stack) : Q = P \cup {t}
    BY <1>6, PrintingOther
  <2>. HIDE DEF P, Q
  <2>5. printed' = Matched \ Q
    BY <1>1, <2>1, <2>3, <2>4
  <2>6. \A e \in Q : e \in 1 .. Len(events) /\ events[e].emitted
    BY <1>1, <2>3, <2>4
  <2>. QED  BY <1>2, <1>3, <2>2, <2>5, <2>6 DEF Q
<1>7. CASE ~HandlerPrint /\ stack # <<>> /\ stack[1].fn = "execute"
  <2>. PICK t \in 1 .. Len(events) : t = stack[1].event
    BY <1>7, Innermost
  <2>1. printed' = printed /\ Q = P
    BY <1>7, PrintedKept, PrintingOther
  <2>2. executed' = executed \/ executed' = executed \cup {t}
    BY <1>7, ExecutionSteps DEF ExecutionStep, querying
  <2>3. events[t].emitted => t \in P
    <3>1. /\ Len(stack) \in Nat /\ 1 \in 1 .. Len(stack)
          /\ stack \in Seq(Frame)
      BY <1>7, Returned DEF Base, Typed
    <3>2. 1 < Len(stack)
      BY <1>7, <3>1 DEF Nested, OwnerBelow, Owner
    <3>3. 1 \in 1 .. Len(stack) - 1 /\ 2 \in 1 .. Len(stack)
      BY <3>1, <3>2
    <3>4. Sits(stack[1], stack[1 + 1])
      BY <1>1, <3>3 DEF SeatsInv
    <3>5. Sits(stack[1], stack[2])
      BY <3>4
    <3>6. events[t].emitted => stack[2].fn = "emit" /\ stack[2].at = "print" /\ stack[2].event = t
      BY <1>7, <3>5 DEF Sits
    <3>7. stack[2] \in Frames(stack) /\ stack[2] \in Frame
      BY <3>1, <3>3, ElementOfSeq DEF Frames
    <3>8. t \in Nat
      BY LenProperties DEF Base, Typed
    <3>. QED  BY <3>6, <3>7, <3>8 DEF Printing, EmitsAt
  <2>4. Matched' = Matched \/ (Matched' = Matched \cup {t} /\ events[t].emitted)
    BY <2>2, MatchedStep
  <2>. HIDE DEF P, Q
  <2>5. printed' = Matched' \ Q
    BY <1>1, <2>1, <2>3, <2>4
  <2>. QED  BY <1>1, <1>2, <1>3, <2>1, <2>5 DEF Q
<1>. QED  BY <1>5, <1>6, <1>7

(* The command line prints the events that every stage lets through, once  *)
(* the query has answered, and only those (event_handler_query in          *)
(* cli/main.c): the answer that an emission reads is that of its own       *)
(* execution, whatever was emitted and executed in between.                *)
THEOREM PrintedIsExact == Spec => []PrintedExact
<1>1. Init => Base /\ OwnedInv /\ HandledInv /\ ExecInv /\ PrintInv
  BY BaseInit, OwnedInit, HandledInit, ExecInit, PrintInit
<1>2. OwnedInv => Nested
  BY DEF OwnedInv
<1>3. PrintInv => PrintedExact
  <2>. SUFFICES ASSUME PrintInv, Idle, handler = "event_handler_query"
                PROVE  printed = {e \in Reaching(Len(query)) : events[e].emitted}
    BY DEF PrintedExact
  <2>1. Printing(stack) = {}
    BY DEF Idle, Printing, EmitsAt, Frames
  <2>. QED  BY <2>1 DEF PrintInv
<1>. QED
  BY <1>1, <1>2, <1>3, BaseNext, OwnedNext, HandledNext, ExecNext, PrintNext, PTL DEF Spec
=============================================================================
