----------------------------- MODULE WindowJoin -----------------------------
(***************************************************************************)
(* What time-based correlation promises, without buffers, timers or a      *)
(* clock: a join of two streams of timestamped events.  Each event is      *)
(* joined, when it is processed, with events of the other stream.  The     *)
(* join may only produce pairs that lie within the window, and it must     *)
(* produce every pair whose earlier event was kept and whose distance lies *)
(* within every window configured so far.                                  *)
(***************************************************************************)
EXTENDS Integers

VARIABLES
    window,      \* the window now in force
    narrowest,   \* the smallest window configured so far
    processed,   \* the events seen so far
    refused,     \* the events seen but not kept for later ones to join
    pairs        \* the pairs produced so far

joinVars == <<window, narrowest, processed, refused, pairs>>

Distance(e, f) == IF e.ts <= f.ts THEN f.ts - e.ts ELSE e.ts - f.ts

Pair(e, f) == IF e.type = "LOG" THEN [log |-> e, network |-> f]
                                ELSE [log |-> f, network |-> e]

Candidates(e) == {f \in processed : f.type # e.type /\ Distance(e, f) <= window}

Obliged(e) == {f \in processed \ refused :
                  f.type # e.type /\ Distance(e, f) <= narrowest}

JoinInit ==
    /\ narrowest = window
    /\ processed = {}
    /\ refused = {}
    /\ pairs = {}

Join ==
    \E e \in processed' :
        /\ e \notin processed
        /\ processed' = processed \cup {e}
        /\ refused' \in {refused, refused \cup {e}}
        /\ pairs \subseteq pairs'
        /\ {Pair(e, f) : f \in Obliged(e)} \subseteq pairs'
        /\ pairs' \ pairs \subseteq {Pair(e, f) : f \in Candidates(e)}
        /\ UNCHANGED <<window, narrowest>>

SetWindow ==
    /\ narrowest' = IF window' < narrowest THEN window' ELSE narrowest
    /\ UNCHANGED <<processed, refused, pairs>>

JoinSpec == JoinInit /\ [][Join \/ SetWindow]_joinVars
=============================================================================
