----------------------- MODULE TimeCorrelation_proofs -----------------------
(***************************************************************************)
(* Proofs about the correlation engine, for every choice of windows,       *)
(* buffer size, cleanup interval and clock range, and without the bound on *)
(* the number of events.                                                   *)
(***************************************************************************)
EXTENDS TimeCorrelation, FiniteSetTheorems, TLAPS

(* The history and the buffers are finite.                                 *)
Finite ==
    /\ IsFiniteSet(processed)
    /\ IsFiniteSet(pairs)
    /\ \A t \in Types : IsFiniteSet(events[t])

(* A buffer holds processed events of its own type.                        *)
Stored ==
    \A t \in Types : \A e \in events[t] : e.type = t /\ e \in processed

(* Event numbers and pairs come from what was processed.                   *)
Numbered ==
    /\ \A e \in processed : e.id <= events_processed
    /\ \A p \in pairs : p.log \in processed /\ p.network \in processed

Narrowest == narrowest <= window

Inv ==
    /\ TypeOK
    /\ CountsExact
    /\ CorrelatedOnce
    /\ Finite
    /\ Stored
    /\ Numbered
    /\ Narrowest

----------------------------------------------------------------------------
(* A uint64 that does not wrap is left alone by the modulus.               *)
LEMMA ModSmall ==
    ASSUME NEW a \in Nat, NEW m \in Nat, a < m
    PROVE  a % m = a
  BY SMT

(* The cleanup cutoff is a natural number even when it wraps.              *)
LEMMA CutoffNat ==
    ASSUME TypeOK
    PROVE  Cutoff \in Nat
<1>1. Modulus \in Nat /\ Modulus > 0 /\ now \in Int /\ window \in Nat
  BY ConstantsAssumption DEF TypeOK
<1>2. now - 2 * window \in Int
  BY <1>1
<1>. QED  BY <1>1, <1>2 DEF Cutoff

(* Joining one event with the events of a set gives one pair for each.     *)
LEMMA PairsOfOne ==
    ASSUME NEW e, NEW S, IsFiniteSet(S)
    PROVE  /\ IsFiniteSet({WJ!Pair(e, f) : f \in S})
           /\ Cardinality({WJ!Pair(e, f) : f \in S}) = Cardinality(S)
<1>. DEFINE T == {WJ!Pair(e, f) : f \in S}
            g == [f \in S |-> WJ!Pair(e, f)]
<1>1. \A f, h \in S : WJ!Pair(e, f) = WJ!Pair(e, h) => f = h
  BY DEF WJ!Pair
<1>2. g \in Bijection(S, T)
  BY <1>1 DEF Bijection, Injection, Surjection, IsInjective
<1>3. ExistsBijection(S, T)
  BY <1>2 DEF ExistsBijection
<1>. QED  BY <1>3, FS_Bijection

(* Removing some elements of a finite set leaves as many as there were,    *)
(* less the number removed.                                                *)
LEMMA RemoveCount ==
    ASSUME NEW S, IsFiniteSet(S), NEW R \in SUBSET S
    PROVE  /\ IsFiniteSet(S \ R)
           /\ Cardinality(R) \in Nat
           /\ Cardinality(S \ R) \in Nat
           /\ Cardinality(S \ R) = Cardinality(S) - Cardinality(R)
<1>1. IsFiniteSet(S \ R) /\ IsFiniteSet(R)
  BY FS_Subset, S \ R \in SUBSET S
<1>2. (S \ R) \cup R = S /\ (S \ R) \cap R = {}
  OBVIOUS
<1>3. Cardinality(S) = Cardinality(S \ R) + Cardinality(R)
                         - Cardinality((S \ R) \cap R)
  BY <1>1, <1>2, FS_Union
<1>4. Cardinality(S \ R) \in Nat /\ Cardinality(R) \in Nat
  BY <1>1, FS_CardinalityType
<1>. QED  BY <1>1, <1>2, <1>3, <1>4, FS_EmptySet

----------------------------------------------------------------------------
(* What one emitted event does to the correlation history: the event and   *)
(* its pairs are new, and each is counted once.                            *)
LEMMA EmitHistory ==
    ASSUME Inv, NEW type \in Types, NEW lag \in 0..Lag, Emit(type, lag)
    PROVE  LET e == [id |-> events_processed + 1, type |-> type, ts |-> now - lag]
           IN  /\ e \in Event
               /\ e \notin processed
               /\ processed' = processed \cup {e}
               /\ Matches(e) \subseteq processed
               /\ IsFiniteSet(Matches(e))
               /\ Cardinality(Matches(e)) \in Nat
               /\ IsFiniteSet(processed') /\ IsFiniteSet(pairs')
               /\ CorrelatedOnce'
<1>. DEFINE e == [id |-> events_processed + 1, type |-> type, ts |-> now - lag]
            new == {WJ!Pair(e, f) : f \in Matches(e)}
<1>1. e \in Event
  BY ConstantsAssumption DEF Inv, TypeOK, Event, Emit
<1>2. e \notin processed
  BY DEF Inv, Numbered, TypeOK, Event
<1>3. /\ processed' = processed \cup {e}
      /\ pairs' = pairs \cup new
      /\ correlations_found' = correlations_found + Cardinality(Matches(e))
      /\ events_processed' = events_processed + 1 + Cardinality(Matches(e))
  BY DEF Emit, ProcessEvent
<1>4. OtherType(type) \in Types
  BY DEF OtherType, Types
<1>5. Matches(e) \in SUBSET events[OtherType(type)]
  BY DEF Matches
<1>6. IsFiniteSet(Matches(e)) /\ Cardinality(Matches(e)) \in Nat
  BY <1>4, <1>5, FS_Subset, FS_CardinalityType DEF Inv, Finite
<1>7. Matches(e) \subseteq processed
  BY <1>4, <1>5 DEF Inv, Stored
<1>8. IsFiniteSet(new) /\ Cardinality(new) = Cardinality(Matches(e))
  BY <1>6, PairsOfOne
<1>9. pairs \cap new = {}
  <2>1. \A p \in new : p.log = e \/ p.network = e
    BY DEF WJ!Pair
  <2>. QED  BY <1>2, <2>1 DEF Inv, Numbered
<1>10. /\ IsFiniteSet(pairs')
       /\ Cardinality(pairs') = Cardinality(pairs) + Cardinality(new)
  <2>1. IsFiniteSet(pairs) /\ Cardinality(pairs) \in Nat
    BY FS_CardinalityType DEF Inv, Finite
  <2>2. /\ IsFiniteSet(pairs \cup new)
        /\ Cardinality(pairs \cup new)
             = Cardinality(pairs) + Cardinality(new) - Cardinality(pairs \cap new)
    <3>. HIDE DEF new
    <3>. QED  BY <1>8, <2>1, FS_Union
  <2>3. Cardinality(pairs \cap new) = 0
    BY <1>9, FS_EmptySet
  <2>. QED  BY <1>3, <1>6, <1>8, <2>1, <2>2, <2>3
<1>11. /\ IsFiniteSet(processed')
       /\ Cardinality(processed') = Cardinality(processed) + 1
  BY <1>2, <1>3, FS_AddElement DEF Inv, Finite
<1>12. CorrelatedOnce'
  <2>1. Cardinality(pairs) \in Nat /\ Cardinality(processed) \in Nat
    BY FS_CardinalityType DEF Inv, Finite
  <2>. QED
    BY <1>3, <1>6, <1>8, <1>10, <1>11, <2>1 DEF Inv, CorrelatedOnce
<1>. QED  BY <1>1, <1>2, <1>3, <1>6, <1>7, <1>10, <1>11, <1>12

(* What one emitted event does to the buffers: it is kept in the buffer of *)
(* its type, which then holds one more, or refused by a full one.          *)
LEMMA EmitBuffers ==
    ASSUME Inv, NEW type \in Types, NEW lag \in 0..Lag, Emit(type, lag)
    PROVE  /\ events' \in [Types -> SUBSET Event]
           /\ events_count' \in [Types -> Nat]
           /\ refused' \subseteq processed'
           /\ CountsExact'
           /\ Stored'
           /\ \A t \in Types : IsFiniteSet(events'[t])
<1>. DEFINE e == [id |-> events_processed + 1, type |-> type, ts |-> now - lag]
<1>1. /\ e \in Event /\ e \notin processed /\ e.type = type
      /\ processed' = processed \cup {e}
  BY EmitHistory
<1>2. e \notin events[type]
  BY <1>1 DEF Inv, Stored
<1>3. AddToBuffer(e)
  BY DEF Emit, ProcessEvent
<1>4. CASE events_count[type] >= MaxBufferSize
  <2>1. events' = events /\ events_count' = events_count /\ refused' = refused \cup {e}
    BY <1>1, <1>3, <1>4 DEF AddToBuffer, buffers
  <2>. QED
    BY <1>1, <2>1 DEF Inv, TypeOK, CountsExact, Stored, Finite
<1>5. CASE ~(events_count[type] >= MaxBufferSize)
  <2>1. /\ events' = [events EXCEPT ![type] = @ \cup {e}]
        /\ events_count' = [events_count EXCEPT ![type] = @ + 1]
        /\ refused' = refused
    BY <1>1, <1>3, <1>5 DEF AddToBuffer
  <2>2. events' \in [Types -> SUBSET Event] /\ events_count' \in [Types -> Nat]
    BY <1>1, <2>1 DEF Inv, TypeOK
  <2>3. /\ IsFiniteSet(events'[type])
        /\ Cardinality(events'[type]) = Cardinality(events[type]) + 1
    <3>1. events'[type] = events[type] \cup {e}
      BY <2>1 DEF Inv, TypeOK
    <3>2. IsFiniteSet(events[type])
      BY DEF Inv, Finite
    <3>. HIDE DEF e
    <3>. QED  BY <1>2, <3>1, <3>2, FS_AddElement
  <2>4. \A t \in Types : t # type =>
            events'[t] = events[t] /\ events_count'[t] = events_count[t]
    BY <2>1 DEF Inv, TypeOK
  <2>5. events_count'[type] = events_count[type] + 1
    BY <2>1 DEF Inv, TypeOK
  <2>6. CountsExact'
    <3>1. events_count[type] \in Nat /\ MaxBufferSize \in Nat
      BY ConstantsAssumption DEF Inv, TypeOK
    <3>2. events_count'[type] = Cardinality(events'[type])
      BY <2>3, <2>5 DEF Inv, CountsExact
    <3>3. events_count'[type] <= MaxBufferSize
      BY <1>5, <2>5, <3>1
    <3>. QED  BY <2>4, <3>2, <3>3 DEF Inv, CountsExact
  <2>7. Stored'
    BY <1>1, <2>1, <2>4 DEF Inv, Stored, TypeOK
  <2>8. \A t \in Types : IsFiniteSet(events'[t])
    BY <2>3, <2>4 DEF Inv, Finite
  <2>. QED  BY <1>1, <2>1, <2>2, <2>6, <2>7, <2>8 DEF Inv, TypeOK
<1>. QED  BY <1>4, <1>5

(* A cleanup keeps a part of each buffer and counts it correctly.          *)
LEMMA CleanupBuffers ==
    ASSUME Inv, NEW cutoff \in Nat, CleanupOldEvents(cutoff)
    PROVE  /\ events' \in [Types -> SUBSET Event]
           /\ events_count' \in [Types -> Nat]
           /\ \A t \in Types :
                 /\ events'[t] = {e \in events[t] : e.ts >= cutoff}
                 /\ IsFiniteSet(events'[t])
                 /\ events_count'[t] = Cardinality(events'[t])
                 /\ events_count'[t] <= MaxBufferSize
<1>. SUFFICES ASSUME NEW t \in Types
              PROVE  /\ events'[t] = {e \in events[t] : e.ts >= cutoff}
                     /\ events'[t] \in SUBSET Event
                     /\ IsFiniteSet(events'[t])
                     /\ events_count'[t] \in Nat
                     /\ events_count'[t] = Cardinality(events'[t])
                     /\ events_count'[t] <= MaxBufferSize
  BY DEF CleanupOldEvents
<1>. DEFINE S == events[t]
            R == {e \in events[t] : e.ts < cutoff}
<1>1. events'[t] = {e \in events[t] : e.ts >= cutoff}
  BY DEF CleanupOldEvents
<1>2. events_count'[t] = events_count[t] - Cardinality(R)
  BY DEF CleanupOldEvents
<1>3. S \in SUBSET Event
  BY DEF Inv, TypeOK
<1>4. events'[t] = S \ R
  BY <1>1, <1>3 DEF Event
<1>5. IsFiniteSet(S) /\ R \in SUBSET S
  BY DEF Inv, Finite
<1>6. /\ IsFiniteSet(S \ R) /\ Cardinality(R) \in Nat /\ Cardinality(S \ R) \in Nat
      /\ Cardinality(S \ R) = Cardinality(S) - Cardinality(R)
  <2>. HIDE DEF S, R
  <2>. QED  BY <1>5, RemoveCount
<1>7. events_count[t] = Cardinality(S) /\ events_count[t] <= MaxBufferSize
  BY DEF Inv, CountsExact
<1>8. events_count[t] \in Nat /\ MaxBufferSize \in Nat
  BY ConstantsAssumption DEF Inv, TypeOK
<1>. QED
  <2>. HIDE DEF S, R
  <2>1. events_count'[t] = Cardinality(events'[t])
    BY <1>2, <1>4, <1>6, <1>7
  <2>2. events_count'[t] \in Nat /\ events_count'[t] <= MaxBufferSize
    BY <1>2, <1>6, <1>7, <1>8
  <2>3. events'[t] \in SUBSET Event
    BY <1>3, <1>4
  <2>. QED  BY <1>1, <1>4, <1>6, <2>1, <2>2, <2>3

----------------------------------------------------------------------------
(* Inv holds of a new engine.                                              *)
LEMMA InvInit == Init => Inv
<1>. SUFFICES ASSUME Init PROVE Inv
  OBVIOUS
<1>. USE ConstantsAssumption DEF Init
<1>1. TypeOK
  BY DEF TypeOK, Types
<1>2. CountsExact /\ CorrelatedOnce /\ Finite
  BY FS_EmptySet DEF CountsExact, CorrelatedOnce, Finite
<1>3. Stored /\ Numbered /\ Narrowest
  BY DEF Stored, Numbered, Narrowest
<1>. QED  BY <1>1, <1>2, <1>3 DEF Inv

(* Every step of the engine preserves Inv.                                 *)
LEMMA InvNext == Inv /\ [Next]_vars => Inv'
<1>. SUFFICES ASSUME Inv, [Next]_vars PROVE Inv'
  OBVIOUS
<1>1. ASSUME NEW w \in Windows, AddStrategy(w) PROVE Inv'
  <2>1. UNCHANGED <<now, engine, due, events, events_count, events_processed,
                    correlations_found, processed, refused, pairs>>
    BY <1>1 DEF AddStrategy, buffers, history
  <2>2. window' \in Windows /\ narrowest' \in Windows /\ narrowest' <= window'
    BY <1>1, ConstantsAssumption DEF AddStrategy, Inv, TypeOK
  <2>. QED
    BY <2>1, <2>2 DEF Inv, TypeOK, CountsExact, CorrelatedOnce, Finite, Stored,
                      Numbered, Narrowest
<1>2. ASSUME Start PROVE Inv'
  <2>1. UNCHANGED <<now, window, narrowest, events, events_count, events_processed,
                    correlations_found, processed, refused, pairs>>
    BY <1>2 DEF Start, buffers, history
  <2>2. engine' = "started" /\ due' \in Nat
    BY <1>2, ConstantsAssumption DEF Start, Inv, TypeOK
  <2>. QED
    BY <2>1, <2>2 DEF Inv, TypeOK, CountsExact, CorrelatedOnce, Finite, Stored,
                      Numbered, Narrowest
<1>3. ASSUME NEW type \in Types, NEW lag \in 0..Lag, Emit(type, lag) PROVE Inv'
  <2>. DEFINE e == [id |-> events_processed + 1, type |-> type, ts |-> now - lag]
  <2>1. UNCHANGED <<now, engine, due, window, narrowest>>
    BY <1>3 DEF Emit
  <2>2. /\ e \in Event /\ processed' = processed \cup {e}
        /\ Matches(e) \subseteq processed /\ Cardinality(Matches(e)) \in Nat
        /\ IsFiniteSet(processed') /\ IsFiniteSet(pairs') /\ CorrelatedOnce'
    BY <1>3, EmitHistory
  <2>3. /\ correlations_found' = correlations_found + Cardinality(Matches(e))
        /\ events_processed' = events_processed + 1 + Cardinality(Matches(e))
        /\ pairs' = pairs \cup {WJ!Pair(e, f) : f \in Matches(e)}
    BY <1>3 DEF Emit, ProcessEvent
  <2>4. /\ events' \in [Types -> SUBSET Event] /\ events_count' \in [Types -> Nat]
        /\ refused' \subseteq processed' /\ CountsExact' /\ Stored'
        /\ \A t \in Types : IsFiniteSet(events'[t])
    BY <1>3, EmitBuffers
  <2>5. \A f \in processed :
            /\ WJ!Pair(e, f) \in [log : Event, network : Event]
            /\ WJ!Pair(e, f).log \in processed' /\ WJ!Pair(e, f).network \in processed'
    BY <2>2 DEF WJ!Pair, Inv, TypeOK
  <2>6. TypeOK'
    <3>1. correlations_found' \in Nat /\ events_processed' \in Nat
      BY <2>2, <2>3 DEF Inv, TypeOK
    <3>2. processed' \subseteq Event /\ pairs' \subseteq [log : Event, network : Event]
      BY <2>2, <2>3, <2>5 DEF Inv, TypeOK
    <3>. QED  BY <2>1, <2>4, <3>1, <3>2 DEF Inv, TypeOK
  <2>7. Numbered'
    <3>1. \A f \in processed' : f.id <= events_processed'
      BY <2>2, <2>3 DEF Inv, TypeOK, Numbered, Event
    <3>2. \A p \in pairs' : p.log \in processed' /\ p.network \in processed'
      BY <2>2, <2>3, <2>5 DEF Inv, Numbered
    <3>. QED  BY <3>1, <3>2 DEF Numbered
  <2>8. Finite' /\ Narrowest'
    BY <2>1, <2>2, <2>4 DEF Inv, Finite, Narrowest
  <2>. QED  BY <2>2, <2>4, <2>6, <2>7, <2>8 DEF Inv
<1>4. ASSUME Cleanup PROVE Inv'
  <2>1. UNCHANGED <<now, engine, window, narrowest, events_processed,
                    correlations_found, processed, refused, pairs>>
    BY <1>4 DEF Cleanup, history
  <2>2. Cutoff \in Nat /\ CleanupOldEvents(Cutoff) /\ due' \in Nat
    BY <1>4, CutoffNat, ConstantsAssumption DEF Cleanup, Inv, TypeOK
  <2>3. /\ events' \in [Types -> SUBSET Event] /\ events_count' \in [Types -> Nat]
        /\ \A t \in Types :
              /\ events'[t] \subseteq events[t]
              /\ IsFiniteSet(events'[t])
              /\ events_count'[t] = Cardinality(events'[t])
              /\ events_count'[t] <= MaxBufferSize
    BY <2>2, CleanupBuffers
  <2>4. TypeOK' /\ CorrelatedOnce' /\ Numbered' /\ Narrowest'
    BY <2>1, <2>2, <2>3 DEF Inv, TypeOK, CorrelatedOnce, Numbered, Narrowest
  <2>5. CountsExact' /\ Finite' /\ Stored'
    BY <2>1, <2>3 DEF Inv, CountsExact, Finite, Stored
  <2>. QED  BY <2>4, <2>5 DEF Inv
<1>5. ASSUME Free \/ CleanupTimerClose PROVE Inv'
  <2>1. UNCHANGED <<now, due, window, narrowest, events_processed,
                    correlations_found, processed, refused, pairs>>
    BY <1>5 DEF Free, CleanupTimerClose, history
  <2>2. engine' \in {"closing", "freed"}
    BY <1>5 DEF Free, CleanupTimerClose
  <2>3. \/ events' = events /\ events_count' = events_count
        \/ events' = [t \in Types |-> {}] /\ events_count' = [t \in Types |-> 0]
    BY <1>5 DEF Free, CleanupTimerClose, buffers, ReleaseBuffers
  <2>4. TypeOK' /\ CorrelatedOnce' /\ Numbered' /\ Narrowest'
    BY <2>1, <2>2, <2>3 DEF Inv, TypeOK, CorrelatedOnce, Numbered, Narrowest
  <2>5. CountsExact' /\ Finite' /\ Stored'
    <3>1. CASE events' = events /\ events_count' = events_count
      BY <2>1, <3>1 DEF Inv, CountsExact, Finite, Stored
    <3>2. CASE events' = [t \in Types |-> {}] /\ events_count' = [t \in Types |-> 0]
      <4>1. \A t \in Types : events'[t] = {} /\ events_count'[t] = 0
        BY <3>2
      <4>2. IsFiniteSet({}) /\ Cardinality({}) = 0 /\ 0 <= MaxBufferSize
        BY FS_EmptySet, ConstantsAssumption
      <4>. QED
        BY <2>1, <4>1, <4>2 DEF Inv, CountsExact, Finite, Stored
    <3>. QED  BY <2>3, <3>1, <3>2
  <2>. QED  BY <2>4, <2>5 DEF Inv
<1>6. ASSUME Tick PROVE Inv'
  <2>1. UNCHANGED <<engine, due, window, narrowest, events, events_count,
                    events_processed, correlations_found, processed, refused, pairs>>
    BY <1>6 DEF Tick, buffers, history
  <2>2. now' \in Nat /\ StartTime <= now' /\ now' < Modulus
    BY <1>6, ConstantsAssumption DEF Tick, Inv, TypeOK
  <2>. QED
    BY <2>1, <2>2 DEF Inv, TypeOK, CountsExact, CorrelatedOnce, Finite, Stored,
                      Numbered, Narrowest
<1>7. ASSUME UNCHANGED vars PROVE Inv'
  BY <1>7 DEF vars, Inv, TypeOK, CountsExact, CorrelatedOnce, Finite, Stored,
              Numbered, Narrowest
<1>. QED  BY <1>1, <1>2, <1>3, <1>4, <1>5, <1>6, <1>7 DEF Next

(* The engine's state keeps its types, and no pair is correlated twice:    *)
(* for every configuration, also while the cleanup cutoff wraps.           *)
THEOREM EngineInvariant == Spec => [](TypeOK /\ CorrelatedOnce)
<1>1. Inv => TypeOK /\ CorrelatedOnce
  BY DEF Inv
<1>. QED  BY InvInit, InvNext, <1>1, PTL DEF Spec

(* The two buffer counters stay exact and bounded by MAX_BUFFER_SIZE,      *)
(* whatever the cleanup timer removes and the full buffer refuses.         *)
THEOREM CountsAreExact == Spec => []CountsExact
<1>1. Inv => CountsExact
  BY DEF Inv
<1>. QED  BY InvInit, InvNext, <1>1, PTL DEF Spec

----------------------------------------------------------------------------
(* An event that was kept is still buffered, or too old by two windows to  *)
(* be of use.                                                              *)
Retained ==
    Live => \A e \in processed \ refused :
                e \in events[e.type] \/ e.ts + 2 * narrowest < now

JoinInv ==
    /\ Timely
    /\ Inv
    /\ Retained
    /\ NoMissedPair

(* Everything an emitted event must be joined with is found in the other   *)
(* buffer: what the cleanup removed is more than a window older, even for  *)
(* an event stamped Lag ticks ago.                                         *)
LEMMA ObligedFound ==
    ASSUME JoinInv, NEW type \in Types, NEW lag \in 0..Lag, Emit(type, lag)
    PROVE  LET e == [id |-> events_processed + 1, type |-> type, ts |-> now - lag]
           IN  WJ!Obliged(e) \subseteq Matches(e)
<1>. DEFINE e == [id |-> events_processed + 1, type |-> type, ts |-> now - lag]
<1>. SUFFICES ASSUME NEW f \in WJ!Obliged(e)
              PROVE  f \in Matches(e)
  OBVIOUS
<1>1. e \in Event /\ e.type = type /\ e.ts = now - lag
  BY EmitHistory DEF JoinInv
<1>2. /\ f \in processed \ refused /\ f \in Event /\ f.type # type
      /\ WJ!Distance(e, f) <= narrowest
  BY DEF WJ!Obliged, JoinInv, Inv, TypeOK
<1>3. /\ now \in Nat /\ window \in Nat /\ narrowest \in Nat /\ narrowest <= window
      /\ lag \in Nat /\ lag <= narrowest
  BY ConstantsAssumption DEF JoinInv, Timely, Inv, TypeOK, Narrowest
<1>4. e.ts \in Nat /\ f.ts \in Nat
  BY <1>1, <1>2 DEF Event
<1>5. ~(f.ts + 2 * narrowest < now)
  BY <1>1, <1>2, <1>3, <1>4 DEF WJ!Distance
<1>6. f \in events[f.type]
  BY <1>2, <1>5 DEF JoinInv, Retained, Emit
<1>7. f.type = OtherType(type)
  BY <1>2 DEF OtherType, Event, Types
<1>8. WJ!Distance(e, f) <= window
  BY <1>2, <1>3, <1>4 DEF WJ!Distance
<1>. QED  BY <1>1, <1>6, <1>7, <1>8 DEF Matches

(* JoinInv holds of a new engine and is preserved by every step.           *)
LEMMA JoinInvInit == Timely /\ Init => JoinInv
  BY InvInit DEF JoinInv, Retained, NoMissedPair, Init

LEMMA JoinInvNext == JoinInv /\ [Next]_vars => JoinInv'
<1>. SUFFICES ASSUME JoinInv, [Next]_vars PROVE JoinInv'
  OBVIOUS
<1>1. Timely' /\ Inv'
  BY InvNext DEF JoinInv, Timely
<1>2. SUFFICES Retained' /\ NoMissedPair'
  BY <1>1 DEF JoinInv
<1>a. /\ now \in Nat /\ narrowest \in Nat /\ narrowest' \in Nat /\ window \in Nat
      /\ narrowest <= window
      /\ \A e \in processed : e \in Event /\ e.ts \in Nat /\ e.id \in Nat
  BY ConstantsAssumption, <1>1 DEF JoinInv, Inv, TypeOK, Narrowest, Event
<1>3. ASSUME NEW w \in Windows, AddStrategy(w) PROVE Retained' /\ NoMissedPair'
  <2>1. UNCHANGED <<now, engine, events, processed, refused, pairs>>
    BY <1>3 DEF AddStrategy, buffers, history
  <2>2. narrowest' <= narrowest
    BY <1>3, <1>a, ConstantsAssumption DEF AddStrategy
  <2>3. Retained'
    BY <1>a, <2>1, <2>2 DEF JoinInv, Retained, Live
  <2>4. NoMissedPair'
    BY <1>a, <2>1, <2>2 DEF JoinInv, NoMissedPair, WJ!Distance
  <2>. QED  BY <2>3, <2>4
<1>4. ASSUME Start PROVE Retained' /\ NoMissedPair'
  BY <1>4 DEF JoinInv, Retained, NoMissedPair, Start, Live, buffers, history
<1>5. ASSUME NEW type \in Types, NEW lag \in 0..Lag, Emit(type, lag)
      PROVE  Retained' /\ NoMissedPair'
  <2>. DEFINE e == [id |-> events_processed + 1, type |-> type, ts |-> now - lag]
  <2>1. /\ e \in Event /\ e \notin processed /\ processed' = processed \cup {e}
        /\ e.type = type /\ e.id = events_processed + 1
    BY <1>5, EmitHistory DEF JoinInv
  <2>2. /\ pairs' = pairs \cup {WJ!Pair(e, f) : f \in Matches(e)}
        /\ AddToBuffer(e)
        /\ UNCHANGED <<now, engine, window, narrowest>>
    BY <1>5 DEF Emit, ProcessEvent
  <2>3. /\ refused \subseteq refused' /\ refused' \subseteq refused \cup {e}
        /\ \A t \in Types : events[t] \subseteq events'[t]
        /\ e \notin refused' => e \in events'[type]
    <3>1. CASE events_count[type] >= MaxBufferSize
      BY <2>1, <2>2, <3>1 DEF AddToBuffer, buffers
    <3>2. CASE ~(events_count[type] >= MaxBufferSize)
      BY <2>1, <2>2, <3>2 DEF AddToBuffer, JoinInv, Inv, TypeOK
    <3>. QED  BY <3>1, <3>2
  <2>4. Retained'
    <3>. SUFFICES ASSUME NEW f \in processed' \ refused'
                  PROVE  f \in events'[f.type] \/ f.ts + 2 * narrowest' < now'
      BY DEF Retained
    <3>1. CASE f = e
      BY <2>1, <2>3, <3>1
    <3>2. CASE f \in processed
      <4>1. f \in events[f.type] \/ f.ts + 2 * narrowest < now
        BY <1>5, <2>3, <3>2 DEF JoinInv, Retained, Emit
      <4>2. f.type \in Types
        BY <1>a, <3>2 DEF Event
      <4>. QED  BY <2>2, <2>3, <4>1, <4>2
    <3>. QED  BY <2>1, <3>1, <3>2
  <2>5. NoMissedPair'
    <3>. SUFFICES ASSUME NEW g \in processed', NEW f \in processed',
                         g.id < f.id, g.type # f.type, g \notin refused',
                         WJ!Distance(g, f) <= narrowest'
                  PROVE  WJ!Pair(f, g) \in pairs'
      BY DEF NoMissedPair
    <3>1. CASE g \in processed /\ f \in processed
      BY <2>2, <2>3, <3>1 DEF JoinInv, NoMissedPair
    <3>2. CASE g \in processed /\ f = e
      <4>1. WJ!Distance(e, g) = WJ!Distance(g, e)
        BY <1>a, <2>1, <3>2 DEF WJ!Distance, Event
      <4>2. g \in WJ!Obliged(e)
        BY <2>1, <2>2, <2>3, <3>2, <4>1 DEF WJ!Obliged
      <4>3. g \in Matches(e)
        BY <1>5, <4>2, ObligedFound
      <4>. QED  BY <2>2, <3>2, <4>3
    <3>3. CASE g = e
      <4>1. events_processed \in Nat /\ f.id <= e.id
        BY <1>a, <2>1 DEF JoinInv, Inv, TypeOK, Numbered
      <4>2. f.id \in Nat /\ e.id \in Nat
        BY <1>a, <2>1 DEF Event
      <4>. QED  BY <3>3, <4>1, <4>2
    <3>. QED  BY <2>1, <3>1, <3>2, <3>3
  <2>. QED  BY <2>4, <2>5
<1>6. ASSUME Cleanup PROVE Retained' /\ NoMissedPair'
  <2>1. UNCHANGED <<now, engine, window, narrowest, processed, refused, pairs>>
    BY <1>6 DEF Cleanup, history
  <2>2. Cutoff = now - 2 * window
    <3>1. 2 * window <= StartTime /\ StartTime <= now /\ StartTime \in Nat
          /\ Modulus \in Nat /\ now < Modulus
      BY ConstantsAssumption DEF JoinInv, Timely, Inv, TypeOK
    <3>2. now - 2 * window \in Nat /\ now - 2 * window < Modulus
      BY <1>a, <3>1
    <3>. QED  BY <3>1, <3>2, ModSmall DEF Cutoff
  <2>3. \A t \in Types : events'[t] = {f \in events[t] : f.ts >= Cutoff}
    BY <1>6, CutoffNat, CleanupBuffers DEF Cleanup, JoinInv, Inv
  <2>4. Retained'
    <3>. SUFFICES ASSUME Live', NEW f \in processed' \ refused'
                  PROVE  f \in events'[f.type] \/ f.ts + 2 * narrowest' < now'
      BY DEF Retained
    <3>1. f \in events[f.type] \/ f.ts + 2 * narrowest < now
      BY <2>1 DEF JoinInv, Retained, Live
    <3>2. f.ts \in Nat /\ f.type \in Types
      BY <1>a, <2>1 DEF Event
    <3>3. f \in events[f.type] => f \in events'[f.type] \/ f.ts + 2 * narrowest < now
      BY <1>a, <2>2, <2>3, <3>2
    <3>. QED  BY <2>1, <3>1, <3>3
  <2>5. NoMissedPair'
    BY <2>1 DEF JoinInv, NoMissedPair
  <2>. QED  BY <2>4, <2>5
<1>7. ASSUME Free \/ CleanupTimerClose PROVE Retained' /\ NoMissedPair'
  <2>1. ~Live' /\ UNCHANGED <<narrowest, processed, refused, pairs>>
    BY <1>7 DEF Free, CleanupTimerClose, Live, history
  <2>. QED  BY <2>1 DEF JoinInv, Retained, NoMissedPair
<1>8. ASSUME Tick PROVE Retained' /\ NoMissedPair'
  <2>1. UNCHANGED <<engine, narrowest, events, processed, refused, pairs>>
    BY <1>8 DEF Tick, buffers, history
  <2>2. now' = now + 1
    BY <1>8 DEF Tick
  <2>3. Retained'
    BY <1>a, <2>1, <2>2 DEF JoinInv, Retained, Live
  <2>4. NoMissedPair'
    BY <2>1 DEF JoinInv, NoMissedPair
  <2>. QED  BY <2>3, <2>4
<1>9. ASSUME UNCHANGED vars PROVE Retained' /\ NoMissedPair'
  BY <1>9 DEF JoinInv, Retained, NoMissedPair, Live, vars
<1>. QED  BY <1>3, <1>4, <1>5, <1>6, <1>7, <1>8, <1>9 DEF Next

(* The cleanup timer never costs a correlation, whatever the windows, the  *)
(* buffer size and the interval, provided the machine has been up for two  *)
(* windows and events are emitted within a window of being stamped.        *)
THEOREM NoPairMissed == Timely => (Spec => []NoMissedPair)
<1>1. JoinInv => NoMissedPair
  BY DEF JoinInv
<1>. QED  BY JoinInvInit, JoinInvNext, <1>1, PTL DEF Spec

(* Each step of the engine is a step of the join it promises, or leaves it *)
(* alone.                                                                  *)
LEMMA JoinSteps == JoinInv /\ [Next]_vars => [WJ!Join \/ WJ!SetWindow]_(WJ!joinVars)
<1>. SUFFICES ASSUME JoinInv, [Next]_vars
              PROVE  [WJ!Join \/ WJ!SetWindow]_(WJ!joinVars)
  OBVIOUS
<1>1. ASSUME NEW w \in Windows, AddStrategy(w) PROVE WJ!SetWindow
  BY <1>1 DEF AddStrategy, WJ!SetWindow, history
<1>2. ASSUME NEW type \in Types, NEW lag \in 0..Lag, Emit(type, lag) PROVE WJ!Join
  <2>. DEFINE e == [id |-> events_processed + 1, type |-> type, ts |-> now - lag]
  <2>1. /\ e \in Event /\ e \notin processed /\ processed' = processed \cup {e}
        /\ Matches(e) \subseteq processed
    BY <1>2, EmitHistory DEF JoinInv
  <2>2. /\ pairs' = pairs \cup {WJ!Pair(e, f) : f \in Matches(e)}
        /\ AddToBuffer(e)
        /\ UNCHANGED <<window, narrowest>>
    BY <1>2 DEF Emit, ProcessEvent
  <2>3. refused' \in {refused, refused \cup {e}}
    BY <2>2 DEF AddToBuffer
  <2>4. WJ!Obliged(e) \subseteq Matches(e)
    BY <1>2, ObligedFound
  <2>5. Matches(e) \subseteq WJ!Candidates(e)
    <3>. SUFFICES ASSUME NEW f \in Matches(e) PROVE f \in WJ!Candidates(e)
      OBVIOUS
    <3>1. f \in events[OtherType(type)] /\ WJ!Distance(e, f) <= window
      BY DEF Matches
    <3>2. OtherType(type) \in Types /\ OtherType(type) # type
      BY DEF OtherType, Types
    <3>. QED  BY <2>1, <3>1, <3>2 DEF WJ!Candidates, JoinInv, Inv, Stored
  <2>. HIDE DEF e
  <2>. QED  BY <2>1, <2>2, <2>3, <2>4, <2>5 DEF WJ!Join
<1>3. ASSUME Start \/ Cleanup \/ Free \/ CleanupTimerClose \/ Tick \/ UNCHANGED vars
      PROVE  UNCHANGED WJ!joinVars
  BY <1>3 DEF Start, Cleanup, Free, CleanupTimerClose, Tick, vars, history, WJ!joinVars
<1>. QED  BY <1>1, <1>2, <1>3 DEF Next

(* The correlation engine, with its buffers, timer and clock, implements   *)
(* the window join.                                                        *)
THEOREM EngineImplementsJoin == Timely => (Spec => ImplementsJoin)
<1>1. Init => WJ!JoinInit
  BY DEF Init, WJ!JoinInit
<1>. QED
  BY JoinInvInit, JoinInvNext, JoinSteps, <1>1, PTL
     DEF Spec, ImplementsJoin, WJ!JoinSpec
=============================================================================
