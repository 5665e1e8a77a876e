---------------------------- MODULE World_proofs ----------------------------
(***************************************************************************)
(* Proofs about the life of a world, for any number of inputs and queries  *)
(* and any order of calls.                                                 *)
(***************************************************************************)
EXTENDS World, TLAPS

(* The engine and its timer live and die together.                         *)
EngineTimer ==
    /\ life = "alive" => correlation \in {"none", "alive"}
    /\ life # "alive" => correlation # "alive"
    /\ opened => correlation # "none"
    /\ correlation = "none" => cleanup_timer = "none"
    /\ correlation = "alive" => cleanup_timer \in {"none", "active"}
    /\ correlation = "closing" => cleanup_timer = "closing"
    /\ correlation = "freed" => cleanup_timer \in {"none", "closed"}
    /\ in_run => life = "alive"
    /\ life = "freed" => ~LoopBusy /\ correlation # "closing"

Inv == TypeOK /\ EngineTimer

(* Inv holds of a new world.                                               *)
LEMMA InvInit == Init => Inv
<1>. SUFFICES ASSUME Init PROVE Inv
  OBVIOUS
<1>1. TypeOK
  BY DEF Init, TypeOK, HandleState
<1>2. EngineTimer
  BY DEF Init, EngineTimer
<1>. QED  BY <1>1, <1>2 DEF Inv

(* Closing callbacks leave every handle a handle.                          *)
LEMMA ClosedType == ASSUME NEW h \in HandleState PROVE Closed(h) \in HandleState
  BY DEF Closed, HandleState

LEMMA CloseCallbacksType ==
    ASSUME TypeOK, RunCloseCallbacks
    PROVE  /\ cleanup_timer' \in HandleState
           /\ fs_event' \in [Files -> HandleState]
           /\ poll_timer' \in [Files -> HandleState]
           /\ query_timer' \in [Queries -> HandleState]
           /\ correlation' \in {"none", "alive", "closing", "freed"}
  BY ClosedType DEF TypeOK, RunCloseCallbacks

(* Every step preserves the types.                                         *)
LEMMA TypeNext == Inv /\ [Next]_vars => TypeOK'
<1>. SUFFICES ASSUME Inv, [Next]_vars PROVE TypeOK'
  OBVIOUS
<1>. USE DEF Inv
<1>1. CASE Open
  BY <1>1 DEF TypeOK, Open, handles, inputState
<1>2. ASSUME NEW f \in Files, NewFile(f) PROVE TypeOK'
  BY <1>2 DEF TypeOK, NewFile, AddInput, handles, flags
<1>3. ASSUME NEW p \in Pcaps, NewPcap(p) PROVE TypeOK'
  BY <1>3 DEF TypeOK, NewPcap, handles, flags
<1>4. ASSUME NEW S \in SUBSET inputs, NEW fs \in [Files -> FsResults], Start(S, fs)
      PROVE  TypeOK'
  <2>1. /\ fs_event' \in [Files -> HandleState] /\ poll_timer' \in [Files -> HandleState]
        /\ use_fs_event' \in [Files -> BOOLEAN]
        /\ watching' \in [Files \cup Pcaps -> BOOLEAN]
    BY <1>4 DEF TypeOK, Start, StartFiles, HandleState
  <2>2. faults' \subseteq {"reinit", "double_close", "early_free"} /\ starts' \in Nat
    BY <1>4 DEF TypeOK, Start, Fault
  <2>3. started' \in BOOLEAN /\ cleanup_timer' \in HandleState
    BY <1>4 DEF Start, HandleState
  <2>. QED  BY <1>4, <2>1, <2>2, <2>3 DEF TypeOK, Start
<1>5. CASE Stop
  <2>1. /\ fs_event' \in [Files -> HandleState] /\ poll_timer' \in [Files -> HandleState]
        /\ watching' \in [Files \cup Pcaps -> BOOLEAN]
    BY <1>5 DEF TypeOK, Stop, StopFiles, HandleState
  <2>2. faults' \subseteq {"reinit", "double_close", "early_free"}
    BY <1>5 DEF TypeOK, Stop, StopFaults, Fault
  <2>. QED  BY <1>5, <2>1, <2>2 DEF TypeOK, Stop
<1>6. CASE Run
  <2>1. in_run' \in BOOLEAN /\ running' \in BOOLEAN /\ stop_flag' \in BOOLEAN
    BY <1>6 DEF TypeOK, Run
  <2>. QED  BY <1>6, <2>1 DEF TypeOK, Run, handles, inputState
<1>7. CASE LoopIteration
  <2>1. in_run' \in BOOLEAN /\ running' \in BOOLEAN /\ stop_flag' \in BOOLEAN
    BY <1>7 DEF TypeOK, LoopIteration
  <2>. QED
    BY <1>7, <2>1, CloseCallbacksType DEF TypeOK, LoopIteration, inputState
<1>8. ASSUME NEW q \in Queries, QueryTimerStart(q) PROVE TypeOK'
  BY <1>8 DEF TypeOK, QueryTimerStart, flags, inputState, HandleState
<1>9. CASE Free
  <2>1. /\ fs_event' \in [Files -> HandleState] /\ poll_timer' \in [Files -> HandleState]
        /\ watching' \in [Files \cup Pcaps -> BOOLEAN]
    BY <1>9 DEF TypeOK, Free, StopFiles, HandleState
  <2>2. faults' \subseteq {"reinit", "double_close", "early_free"}
    <3>1. StopFaults \subseteq {"reinit", "double_close", "early_free"}
      BY DEF StopFaults, Fault
    <3>. QED  BY <1>9, <3>1 DEF TypeOK, Free, FreeInputsFaults, Fault
  <2>3. /\ correlation' \in {"none", "alive", "closing", "freed"}
        /\ cleanup_timer' \in HandleState
    BY <1>9 DEF TypeOK, Free, FreeCorrelation, HandleState
  <2>4. query_timer' \in [Queries -> HandleState]
    BY <1>9 DEF TypeOK, Free, ShutdownContexts, HandleState
  <2>. QED  BY <1>9, <2>1, <2>2, <2>3, <2>4 DEF TypeOK, Free, flags
<1>10. CASE LoopClose
  BY <1>10 DEF TypeOK, LoopClose, flags, handles, inputState
<1>11. CASE LoopDrain
  <2>1. CASE stop_flag
    BY <1>11, <2>1 DEF TypeOK, LoopDrain, handles, inputState
  <2>2. CASE ~stop_flag
    BY <1>11, <2>2, CloseCallbacksType DEF TypeOK, LoopDrain, inputState
  <2>. QED  BY <2>1, <2>2
<1>12. CASE UNCHANGED vars
  BY <1>12 DEF TypeOK, vars
<1>. QED
  BY <1>1, <1>2, <1>3, <1>4, <1>5, <1>6, <1>7, <1>8, <1>9, <1>10, <1>11, <1>12 DEF Next

(* Every step keeps the engine and its timer together.                     *)
LEMMA EngineTimerNext == Inv /\ [Next]_vars => EngineTimer'
<1>. SUFFICES ASSUME Inv, [Next]_vars PROVE EngineTimer'
  OBVIOUS
<1>. USE DEF Inv, EngineTimer
<1>1. CASE Open
  BY <1>1 DEF Open, Idle, handles
<1>2. CASE \/ \E f \in Files : NewFile(f)
           \/ \E p \in Pcaps : NewPcap(p)
           \/ \E q \in Queries : QueryTimerStart(q)
  BY <1>2 DEF NewFile, NewPcap, QueryTimerStart, Idle, handles, flags
<1>3. ASSUME NEW S \in SUBSET inputs, NEW fs \in [Files -> FsResults], Start(S, fs)
      PROVE  EngineTimer'
  BY <1>3 DEF Start, Idle
<1>4. CASE Stop
  BY <1>4 DEF Stop
<1>5. CASE Run
  BY <1>5 DEF Run, Idle, handles
<1>6. CASE LoopIteration
  BY <1>6 DEF LoopIteration, RunCloseCallbacks, Closed
<1>7. CASE Free
  <2>1. life = "alive" /\ life' = "freeing" /\ ~in_run /\ in_run' = in_run
        /\ opened' = opened
    BY <1>7 DEF Free, Idle, flags
  <2>. QED  BY <1>7, <2>1 DEF Free, FreeCorrelation
<1>8. CASE LoopClose
  <2>1. UNCHANGED <<correlation, cleanup_timer, fs_event, poll_timer, query_timer,
                    in_run, opened>>
    BY <1>8 DEF LoopClose, handles, flags
  <2>2. life = "freeing" /\ life' = "freed" /\ ~LoopBusy /\ ~LoopBusy'
    BY <1>8, <2>1 DEF LoopClose, LoopBusy
  <2>3. correlation # "closing"
    BY <2>2 DEF LoopBusy, OnLoop
  <2>. QED  BY <2>1, <2>2, <2>3
<1>9. CASE LoopDrain
  BY <1>9 DEF LoopDrain, RunCloseCallbacks, Closed, handles
<1>10. CASE UNCHANGED vars
  BY <1>10 DEF vars, LoopBusy
<1>. QED
  BY <1>1, <1>2, <1>3, <1>4, <1>5, <1>6, <1>7, <1>8, <1>9, <1>10 DEF Next

(* The world's state keeps its types, and teardown frees nothing that the  *)
(* loop still holds of the correlation engine or of the world: for every   *)
(* order of API calls, loop iterations and failing inputs.                 *)
THEOREM TeardownIsOrdered == Spec => [](TypeOK /\ TeardownOrder)
<1>1. Inv => TypeOK /\ TeardownOrder
  BY DEF Inv, EngineTimer, TeardownOrder, TypeOK, OnLoop
<1>2. Inv /\ [Next]_vars => Inv'
  BY TypeNext, EngineTimerNext DEF Inv
<1>. QED  BY InvInit, <1>1, <1>2, PTL DEF Spec

----------------------------------------------------------------------------
(* In a world that is started once, what file_input_stop is going to close *)
(* is active.                                                              *)
StartedOnce ==
    /\ starts = 0 => \A f \in Files : ~watching[f] /\ ~use_fs_event[f]
    /\ \A f \in Files : watching[f] =>
          IF use_fs_event[f] THEN fs_event[f] = "active" ELSE poll_timer[f] = "active"
    /\ ClosedOnce

OneStart == starts <= 1 => StartedOnce

(* No step forgets a start.                                                *)
LEMMA StartsGrow ==
    ASSUME TypeOK, [Next]_vars
    PROVE  starts' \in {starts, starts + 1}
  BY DEF TypeOK, Next, Open, NewFile, NewPcap, Start, Stop, Run, LoopIteration,
         QueryTimerStart, Free, LoopClose, LoopDrain, vars

(* Every step preserves OneStart.                                          *)
LEMMA OneStartNext == Inv /\ OneStart /\ [Next]_vars => OneStart'
<1>. SUFFICES ASSUME Inv, OneStart, [Next]_vars, starts' <= 1 PROVE StartedOnce'
  BY DEF OneStart
<1>. USE DEF Inv, StartedOnce, ClosedOnce
<1>0. starts <= 1 /\ StartedOnce
  BY StartsGrow DEF OneStart, TypeOK
<1>a. StopFaults = {}
  BY <1>0 DEF StopFaults, Fault, ViaFs, Stopped, TypeOK
<1>b. ASSUME StopFiles
      PROVE  /\ \A f \in Files : watching'[f] =>
                   /\ watching[f]
                   /\ fs_event'[f] = fs_event[f] /\ poll_timer'[f] = poll_timer[f]
  BY <1>b DEF StopFiles, ViaFs, Stopped, TypeOK
<1>1. CASE Open
  BY <1>0, <1>1 DEF Open, handles, inputState
<1>2. CASE \/ \E f \in Files : NewFile(f)
           \/ \E p \in Pcaps : NewPcap(p)
           \/ \E q \in Queries : QueryTimerStart(q)
  BY <1>0, <1>2 DEF NewFile, NewPcap, QueryTimerStart, handles, inputState
<1>3. ASSUME NEW S \in SUBSET inputs, NEW fs \in [Files -> FsResults], Start(S, fs)
      PROVE  StartedOnce'
  <2>1. starts = 0 /\ starts' = 1
    BY <1>3 DEF Start, TypeOK
  <2>2. \A f \in Files : watching'[f] =>
          IF use_fs_event'[f] THEN fs_event'[f] = "active" ELSE poll_timer'[f] = "active"
    BY <1>0, <1>3, <2>1 DEF Start, StartFiles, TypeOK
  <2>3. "double_close" \notin faults'
    BY <1>0, <1>3 DEF Start, Fault
  <2>. QED  BY <2>1, <2>2, <2>3
<1>4. CASE Stop
  <2>1. faults' = faults /\ UNCHANGED <<use_fs_event, starts>>
    BY <1>4, <1>a DEF Stop
  <2>. QED  BY <1>0, <1>4, <1>b, <2>1 DEF Stop
<1>5. CASE Run \/ LoopClose
  BY <1>0, <1>5 DEF Run, LoopClose, handles, inputState
<1>6. CASE LoopIteration \/ LoopDrain
  <2>1. UNCHANGED <<watching, use_fs_event, faults, starts>>
    BY <1>6 DEF LoopIteration, LoopDrain, inputState
  <2>2. \A f \in Files : /\ fs_event[f] = "active" => fs_event'[f] = "active"
                         /\ poll_timer[f] = "active" => poll_timer'[f] = "active"
    BY <1>6 DEF LoopIteration, LoopDrain, RunCloseCallbacks, Closed, handles
  <2>. QED  BY <1>0, <2>1, <2>2
<1>7. CASE Free
  <2>1. "double_close" \notin faults' /\ UNCHANGED <<use_fs_event, starts>>
    BY <1>0, <1>7, <1>a DEF Free, FreeInputsFaults, Fault
  <2>. QED  BY <1>0, <1>7, <1>b, <2>1 DEF Free
<1>8. CASE UNCHANGED vars
  BY <1>0, <1>8 DEF vars
<1>. QED  BY <1>1, <1>2, <1>3, <1>4, <1>5, <1>6, <1>7, <1>8 DEF Next

(* In a world that is started at most once, no stop or free ever closes a  *)
(* handle twice.                                                           *)
THEOREM ClosedAtMostOnce == Spec => []NoDoubleClose
<1>1. Init => OneStart
  BY DEF Init, OneStart, StartedOnce, ClosedOnce
<1>2. Inv /\ [Next]_vars => Inv'
  BY TypeNext, EngineTimerNext DEF Inv
<1>3. OneStart => NoDoubleClose
  BY DEF OneStart, StartedOnce, NoDoubleClose
<1>. QED  BY InvInit, OneStartNext, <1>1, <1>2, <1>3, PTL DEF Spec
=============================================================================
