------------------------ MODULE NqlCorrelate_proofs ------------------------
(***************************************************************************)
(* Proofs about a correlation query, for every duration, cleanup interval  *)
(* and clock range, however many events and worlds there are.              *)
(***************************************************************************)
EXTENDS NqlCorrelate, FiniteSetTheorems, TLAPS

(* The history is finite, and its events are numbered.                     *)
Finite == IsFiniteSet(accepted) /\ IsFiniteSet(pairs)

Numbered == \A e \in accepted : e.id <= Cardinality(accepted)

(* What a later event may still be joined with is in the buffers.          *)
Kept ==
    \A e \in accepted : e.ts + 2 * Within >= now =>
        /\ e.left => e \in left_events
        /\ e.right => e \in right_events

Inv ==
    /\ TypeOK
    /\ Finite
    /\ Numbered
    /\ EmittedOnce

JoinInv ==
    /\ Inv
    /\ Kept
    /\ PairsExact

----------------------------------------------------------------------------
(* Joining one event with the events of a set gives one pair for each.     *)
LEMMA PairsOfOne ==
    ASSUME NEW e, NEW S, IsFiniteSet(S)
    PROVE  /\ IsFiniteSet({<<e, f>> : f \in S})
           /\ IsFiniteSet({<<f, e>> : f \in S})
<1>1. IsFiniteSet({<<e, f>> : f \in S})
  <2>. DEFINE T == {<<e, f>> : f \in S}
              g == [f \in S |-> <<e, f>>]
  <2>1. g \in Surjection(S, T)
    BY DEF Surjection
  <2>. QED  BY <2>1, FS_Surjection
<1>2. IsFiniteSet({<<f, e>> : f \in S})
  <2>. DEFINE T == {<<f, e>> : f \in S}
              g == [f \in S |-> <<f, e>>]
  <2>1. g \in Surjection(S, T)
    BY DEF Surjection
  <2>. QED  BY <2>1, FS_Surjection
<1>. QED  BY <1>1, <1>2

(* Two sets of new pairs that do not overlap are counted one by one.       *)
LEMMA UnionCount ==
    ASSUME NEW P, NEW A, NEW B,
           IsFiniteSet(P), IsFiniteSet(A), IsFiniteSet(B),
           P \cap A = {}, P \cap B = {}, A \cap B = {}
    PROVE  /\ IsFiniteSet(P \cup A \cup B)
           /\ Cardinality(P \cup A \cup B)
                = Cardinality(P) + Cardinality(A) + Cardinality(B)
<1>1. Cardinality(P) \in Nat /\ Cardinality(A) \in Nat /\ Cardinality(B) \in Nat
  BY FS_CardinalityType
<1>2. /\ IsFiniteSet(P \cup A)
      /\ Cardinality(P \cup A)
           = Cardinality(P) + Cardinality(A) - Cardinality(P \cap A)
  BY FS_Union
<1>3. (P \cup A) \cap B = {}
  OBVIOUS
<1>4. /\ IsFiniteSet((P \cup A) \cup B)
      /\ Cardinality((P \cup A) \cup B)
           = Cardinality(P \cup A) + Cardinality(B) - Cardinality((P \cup A) \cap B)
  BY <1>2, FS_Union
<1>5. Cardinality(P \cap A) = 0 /\ Cardinality((P \cup A) \cap B) = 0
  BY <1>3, FS_EmptySet
<1>6. Cardinality(P \cup A) = Cardinality(P) + Cardinality(A)
  BY <1>1, <1>2, <1>5
<1>. QED  BY <1>1, <1>4, <1>5, <1>6

(* The event that is given to the query is a new one, and so are its pairs. *)
LEMMA ExecuteStep ==
    ASSUME Inv, NEW left \in BOOLEAN, NEW right \in BOOLEAN, NEW lag \in 0..Lag,
           Execute(left, right, lag)
    PROVE  LET e == [id |-> Cardinality(accepted) + 1, ts |-> now - lag,
                     left |-> left, right |-> right, world |-> world]
           IN  /\ e \in Event
               /\ e \notin accepted
               /\ accepted' = accepted \cup {e}
               /\ Inv'
<1>. DEFINE e == [id |-> Cardinality(accepted) + 1, ts |-> now - lag,
                  left |-> left, right |-> right, world |-> world]
<1>1. Cardinality(accepted) \in Nat /\ IsFiniteSet(accepted) /\ IsFiniteSet(pairs)
  BY FS_CardinalityType DEF Inv, Finite
<1>2. e \in Event
  BY <1>1, ConstantsAssumption DEF Inv, TypeOK, Event, Execute
<1>3. e \notin accepted
  BY <1>1 DEF Inv, Numbered, TypeOK, Event
<1>4. /\ accepted' = accepted \cup {e}
      /\ left_events' = Added(left_events, e, left)
      /\ right_events' = Added(right_events, e, right)
      /\ pairs' = pairs \cup AsLeft(e) \cup AsRight(e)
      /\ emissions' = emissions + Cardinality(AsLeft(e)) + Cardinality(AsRight(e))
      /\ UNCHANGED <<now, world, started, aborted>>
  BY DEF Execute
<1>5. e.left = left /\ e.right = right
  OBVIOUS
<1>. HIDE DEF e
<1>6. /\ IsFiniteSet(accepted \cup {e})
      /\ Cardinality(accepted \cup {e}) = Cardinality(accepted) + 1
  BY <1>1, <1>3, FS_AddElement
<1>7. /\ AsLeft(e) \subseteq {<<e, f>> : f \in accepted}
      /\ AsRight(e) \subseteq {<<f, e>> : f \in accepted \cup {e}}
  BY DEF AsLeft, AsRight, Result, Added, Inv, TypeOK
<1>8. IsFiniteSet(AsLeft(e)) /\ IsFiniteSet(AsRight(e))
  <2>1. IsFiniteSet({<<e, f>> : f \in accepted})
    BY <1>1, PairsOfOne
  <2>2. IsFiniteSet({<<f, e>> : f \in accepted \cup {e}})
    BY <1>6, PairsOfOne
  <2>3. /\ AsLeft(e) \in SUBSET {<<e, f>> : f \in accepted}
        /\ AsRight(e) \in SUBSET {<<f, e>> : f \in accepted \cup {e}}
    BY <1>7
  <2>. QED  BY <2>1, <2>2, <2>3, FS_Subset
<1>9. /\ pairs \cap AsLeft(e) = {} /\ pairs \cap AsRight(e) = {}
      /\ AsLeft(e) \cap AsRight(e) = {}
  <2>1. pairs \subseteq accepted \X accepted
    BY DEF Inv, TypeOK
  <2>2. \A p \in AsLeft(e) : p[1] = e /\ p[2] \in accepted
    BY <1>7
  <2>3. \A p \in AsRight(e) : p[2] = e
    BY <1>7
  <2>4. \A p \in pairs : p[1] \in accepted /\ p[2] \in accepted
    BY <2>1
  <2>. QED  BY <1>3, <2>2, <2>3, <2>4
<1>10. /\ IsFiniteSet(pairs')
       /\ Cardinality(pairs')
            = Cardinality(pairs) + Cardinality(AsLeft(e)) + Cardinality(AsRight(e))
  <2>. DEFINE A == AsLeft(e)
              B == AsRight(e)
  <2>1. pairs' = pairs \cup A \cup B
    BY <1>4
  <2>2. /\ IsFiniteSet(pairs) /\ IsFiniteSet(A) /\ IsFiniteSet(B)
        /\ pairs \cap A = {} /\ pairs \cap B = {} /\ A \cap B = {}
    BY <1>1, <1>8, <1>9
  <2>. HIDE DEF A, B
  <2>3. /\ IsFiniteSet(pairs \cup A \cup B)
        /\ Cardinality(pairs \cup A \cup B)
             = Cardinality(pairs) + Cardinality(A) + Cardinality(B)
    BY <2>2, UnionCount
  <2>4. IsFiniteSet(pairs') /\ Cardinality(pairs')
             = Cardinality(pairs) + Cardinality(A) + Cardinality(B)
    BY <2>1, <2>3
  <2>. QED  BY <2>4 DEF A, B
<1>11. EmittedOnce' /\ emissions' \in Nat
  <2>1. /\ Cardinality(pairs) \in Nat /\ Cardinality(AsLeft(e)) \in Nat
        /\ Cardinality(AsRight(e)) \in Nat
    BY <1>1, <1>8, FS_CardinalityType
  <2>. QED  BY <1>4, <1>10, <2>1 DEF Inv, EmittedOnce
<1>12. TypeOK'
  <2>1. accepted' \subseteq Event
    BY <1>2, <1>4 DEF Inv, TypeOK
  <2>2. /\ left_events' \subseteq {f \in accepted' : f.left}
        /\ right_events' \subseteq {f \in accepted' : f.right}
    BY <1>4, <1>5 DEF Inv, TypeOK, Added
  <2>3. pairs' \subseteq accepted' \X accepted'
    BY <1>4, <1>7 DEF Inv, TypeOK
  <2>4. cleanup_timer' \in {"none", "active", "closed"} /\ due' \in Nat
    BY ConstantsAssumption DEF Execute, EnsureTimer, Inv, TypeOK
  <2>. QED  BY <1>4, <1>11, <2>1, <2>2, <2>3, <2>4 DEF Inv, TypeOK
<1>13. Finite'
  BY <1>4, <1>6, <1>10 DEF Finite
<1>14. Numbered'
  <2>1. e.id = Cardinality(accepted) + 1
    BY DEF e
  <2>2. \A f \in accepted : f.id \in Nat
    BY DEF Inv, TypeOK, Event
  <2>. QED  BY <1>1, <1>4, <1>6, <2>1, <2>2 DEF Inv, Numbered
<1>. QED  BY <1>2, <1>3, <1>4, <1>11, <1>12, <1>13, <1>14 DEF Inv, e

(* The invariant holds at the beginning.                                   *)
LEMMA InitInv == Init => JoinInv
<1>. SUFFICES ASSUME Init PROVE JoinInv
  OBVIOUS
<1>1. TypeOK
  <2>1. now \in Nat /\ StartTime <= now /\ now < Modulus
    BY ConstantsAssumption DEF Init
  <2>2. world \in Nat /\ due \in Nat /\ emissions \in Nat
    BY DEF Init
  <2>3. started \in BOOLEAN /\ aborted \in BOOLEAN
        /\ cleanup_timer \in {"none", "active", "closed"}
    BY DEF Init
  <2>4. /\ accepted \subseteq Event
        /\ left_events \subseteq {e \in accepted : e.left}
        /\ right_events \subseteq {e \in accepted : e.right}
        /\ pairs \subseteq accepted \X accepted
    BY Zenon DEF Init
  <2>. QED  BY <2>1, <2>2, <2>3, <2>4 DEF TypeOK
<1>2. Finite /\ EmittedOnce
  BY FS_EmptySet DEF Init, Finite, EmittedOnce
<1>3. Numbered /\ Kept
  BY DEF Init, Numbered, Kept
<1>4. PairsExact
  BY DEF Init, PairsExact
<1>. QED  BY <1>1, <1>2, <1>3, <1>4 DEF JoinInv, Inv

(* The steps that give the query no event change nothing but the buffers,  *)
(* which may shrink.                                                       *)
LEMMA OtherSteps ==
    ASSUME Inv,
           \/ WorldStart \/ WorldStop \/ Cleanup \/ ReplaceWorld \/ Tick
           \/ UNCHANGED vars
    PROVE  /\ Inv'
           /\ UNCHANGED <<accepted, pairs, emissions>>
           /\ left_events' \subseteq left_events
           /\ right_events' \subseteq right_events
<1>1. /\ UNCHANGED <<accepted, pairs, emissions>>
      /\ left_events' \subseteq left_events
      /\ right_events' \subseteq right_events
  BY DEF WorldStart, WorldStop, Cleanup, ReplaceWorld, Tick, vars, events, Cleaned
<1>2. /\ now' \in Nat /\ StartTime <= now' /\ now' < Modulus
      /\ world' \in Nat /\ due' \in Nat
  BY ConstantsAssumption
  DEF WorldStart, WorldStop, Cleanup, ReplaceWorld, Tick, vars, Inv, TypeOK
<1>3. cleanup_timer' \in {"none", "active", "closed"} /\ started' \in BOOLEAN
  BY DEF WorldStart, WorldStop, Cleanup, ReplaceWorld, Tick, vars, Inv, TypeOK
<1>4. aborted' \in BOOLEAN
  BY Zenon DEF WorldStart, WorldStop, Cleanup, ReplaceWorld, Tick, vars, Inv, TypeOK
<1>. QED
  BY <1>1, <1>2, <1>3, <1>4 DEF Inv, TypeOK, Finite, Numbered, EmittedOnce

(* The cutoff does not wrap when the machine has been up long enough.      *)
LEMMA CutoffExact ==
    ASSUME TypeOK, Timely
    PROVE  Cutoff = now - 2 * Within
<1>1. /\ now - 2 * Within \in Nat /\ Modulus \in Nat
      /\ now - 2 * Within < Modulus
  BY ConstantsAssumption DEF TypeOK, Timely
<1>2. \A a \in Nat, m \in Nat : a < m => a % m = a
  BY SMT
<1>. QED  BY <1>1, <1>2 DEF Cutoff

(* A new event finds what it has to be joined with in the buffers, and it  *)
(* is kept for later ones.                                                 *)
LEMMA ExecuteJoins ==
    ASSUME JoinInv, Timely,
           NEW left \in BOOLEAN, NEW right \in BOOLEAN, NEW lag \in 0..Lag,
           Execute(left, right, lag)
    PROVE  Kept' /\ PairsExact'
<1>. DEFINE e == [id |-> Cardinality(accepted) + 1, ts |-> now - lag,
                  left |-> left, right |-> right, world |-> world]
<1>1. e \in Event /\ e \notin accepted /\ accepted' = accepted \cup {e}
  BY ExecuteStep DEF JoinInv
<1>2. /\ left_events' = Added(left_events, e, left)
      /\ right_events' = Added(right_events, e, right)
      /\ pairs' = pairs \cup AsLeft(e) \cup AsRight(e)
      /\ now' = now
  BY DEF Execute
<1>3. e.left = left /\ e.right = right /\ e.ts = now - lag
  OBVIOUS
<1>. HIDE DEF e
<1>4. Kept'
  BY <1>1, <1>2, <1>3 DEF JoinInv, Kept, Added
<1>5. now \in Nat /\ Within \in Nat /\ lag \in Nat /\ lag <= Within /\ e.ts \in Nat
  BY <1>1, ConstantsAssumption DEF JoinInv, Inv, TypeOK, Timely, Event
<1>6. \A f \in accepted : f.ts \in Nat /\ f.left \in BOOLEAN /\ f.right \in BOOLEAN
  BY DEF JoinInv, Inv, TypeOK, Event
<1>7. \A f \in accepted : Near(e, f) =>
          (f.left => f \in left_events) /\ (f.right => f \in right_events)
  <2>1. \A f \in accepted : Near(e, f) => f.ts + 2 * Within >= now
    BY <1>3, <1>5, <1>6 DEF Near
  <2>. QED  BY <2>1 DEF JoinInv, Kept
<1>8. \A f \in accepted : Near(e, f) = Near(f, e)
  BY DEF Near
<1>9. Near(e, e)
  BY <1>5 DEF Near
<1>10. \A f, g \in accepted :
          <<f, g>> \in pairs <=> f.left /\ g.right /\ Near(f, g)
  BY DEF JoinInv, PairsExact
<1>11. pairs \subseteq accepted \X accepted
  BY DEF JoinInv, Inv, TypeOK
<1>12. AsLeft(e) = {<<e, f>> : f \in {g \in accepted : e.left /\ g.right /\ Near(e, g)}}
  <2>1. right_events \subseteq {f \in accepted : f.right}
    BY DEF JoinInv, Inv, TypeOK
  <2>. QED  BY <1>7, <2>1 DEF AsLeft, Result
<1>13. AsRight(e) = {<<f, e>> : f \in {g \in accepted \cup {e} :
                                          g.left /\ e.right /\ Near(g, e)}}
  <2>1. left_events \subseteq {f \in accepted : f.left}
    BY DEF JoinInv, Inv, TypeOK
  <2>2. e.left \in BOOLEAN
    BY <1>3
  <2>. QED  BY <1>7, <1>8, <1>9, <2>1, <2>2 DEF AsRight, Result, Added
<1>14. PairsExact'
  <2>. DEFINE Q == {p \in accepted' \X accepted' : p[1].left /\ p[2].right /\ Near(p[1], p[2])}
  <2>1. ASSUME NEW p \in pairs' PROVE p \in Q
    <3>1. CASE p \in pairs
      BY <1>1, <3>1 DEF JoinInv, PairsExact
    <3>2. CASE p \in AsLeft(e)
      BY <1>1, <1>12, <3>2
    <3>3. CASE p \in AsRight(e)
      BY <1>1, <1>13, <3>3
    <3>. QED  BY <1>2, <2>1, <3>1, <3>2, <3>3
  <2>2. ASSUME NEW f \in accepted', NEW g \in accepted', f.left, g.right, Near(f, g)
        PROVE  <<f, g>> \in pairs'
    <3>1. CASE f \in accepted /\ g \in accepted
      BY <1>2, <1>10, <2>2, <3>1
    <3>2. CASE g = e
      BY <1>1, <1>2, <1>13, <2>2, <3>2
    <3>3. CASE f = e /\ g \in accepted
      BY <1>2, <1>12, <2>2, <3>3
    <3>. QED  BY <1>1, <3>1, <3>2, <3>3
  <2>3. Q \subseteq pairs'
    BY <2>2
  <2>4. pairs' = Q
    BY <2>1, <2>3
  <2>5. PairsExact' <=> pairs' = Q
    BY DEF PairsExact, Near
  <2>. QED  BY <2>4, <2>5
<1>. QED  BY <1>4, <1>14

(* A cleanup drops only what is two durations old, and time makes events   *)
(* only older.                                                             *)
LEMMA OthersKeep ==
    ASSUME JoinInv, Timely,
           \/ WorldStart \/ WorldStop \/ Cleanup \/ ReplaceWorld \/ Tick
           \/ UNCHANGED vars
    PROVE  Kept' /\ PairsExact'
<1>1. UNCHANGED <<accepted, pairs>>
  BY OtherSteps DEF JoinInv
<1>2. PairsExact'
  BY <1>1 DEF JoinInv, PairsExact, Near
<1>3. /\ now \in Nat /\ Within \in Nat
      /\ \A e \in accepted : e.ts \in Nat
  BY ConstantsAssumption DEF JoinInv, Inv, TypeOK, Event
<1>4. CASE Cleanup
  <2>1. Cutoff = now - 2 * Within
    BY CutoffExact DEF JoinInv, Inv
  <2>2. /\ left_events' = {e \in left_events : e.ts >= Cutoff}
        /\ right_events' = {e \in right_events : e.ts >= Cutoff}
        /\ now' = now
    BY <1>4 DEF Cleanup, Cleaned
  <2>. QED  BY <1>1, <1>2, <1>3, <2>1, <2>2 DEF JoinInv, Kept
<1>5. CASE ~Cleanup
  <2>1. now' \in {now, now + 1} /\ UNCHANGED <<left_events, right_events>>
    BY <1>5 DEF WorldStart, WorldStop, ReplaceWorld, Tick, vars, events
  <2>. QED  BY <1>1, <1>2, <1>3, <2>1 DEF JoinInv, Kept
<1>. QED  BY <1>4, <1>5

(* A correlation query emits every pair of events at most once, whatever   *)
(* the order of events, cleanups, starts and stops (EmittedOnce).          *)
THEOREM QueryEmitsOnce == Spec => [](TypeOK /\ EmittedOnce)
<1>1. Init => Inv
  BY InitInv DEF JoinInv
<1>2. Inv /\ [Next]_vars => Inv'
  <2>. SUFFICES ASSUME Inv, [Next]_vars PROVE Inv'
    OBVIOUS
  <2>1. ASSUME NEW left \in BOOLEAN, NEW right \in BOOLEAN, NEW lag \in 0..Lag,
               Execute(left, right, lag)
        PROVE  Inv'
    BY <2>1, ExecuteStep
  <2>2. CASE \/ WorldStart \/ WorldStop \/ Cleanup \/ ReplaceWorld \/ Tick
             \/ UNCHANGED vars
    BY <2>2, OtherSteps
  <2>. QED  BY <2>1, <2>2 DEF Next
<1>3. Inv => TypeOK /\ EmittedOnce
  BY DEF Inv
<1>. QED  BY <1>1, <1>2, <1>3, PTL DEF Spec

(* A correlation query emits exactly the pairs that lie within its         *)
(* duration (PairsExact): corr_cleanup_cb, which drops events two          *)
(* durations old, never costs a pair.  It needs a machine that has been up *)
(* for two durations, or the cutoff wraps, and events that reach the query *)
(* within one duration of being stamped.                                   *)
THEOREM QueryJoinsExactly == Timely => (Spec => []PairsExact)
<1>1. Init => JoinInv
  BY InitInv
<1>2. Timely /\ JoinInv /\ [Next]_vars => JoinInv'
  <2>. SUFFICES ASSUME Timely, JoinInv, [Next]_vars PROVE JoinInv'
    OBVIOUS
  <2>1. ASSUME NEW left \in BOOLEAN, NEW right \in BOOLEAN, NEW lag \in 0..Lag,
               Execute(left, right, lag)
        PROVE  JoinInv'
    BY <2>1, ExecuteStep, ExecuteJoins DEF JoinInv
  <2>2. CASE \/ WorldStart \/ WorldStop \/ Cleanup \/ ReplaceWorld \/ Tick
             \/ UNCHANGED vars
    BY <2>2, OtherSteps, OthersKeep DEF JoinInv
  <2>. QED  BY <2>1, <2>2 DEF Next
<1>3. JoinInv => PairsExact
  BY DEF JoinInv
<1>. QED
  <2>. SUFFICES ASSUME Timely PROVE Spec => []PairsExact
    OBVIOUS
  <2>1. JoinInv /\ [Next]_vars => JoinInv'
    BY <1>2
  <2>. QED  BY <1>1, <1>3, <2>1, PTL DEF Spec
=============================================================================
