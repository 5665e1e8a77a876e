------------------------ MODULE NqlAggregate_proofs ------------------------
(***************************************************************************)
(* Proofs about aggregation queries, for every kind of window, every size, *)
(* slide and timeout, every set of groups and every pattern of arrivals;   *)
(* and, from the section on loops on, about the functions that a bucket    *)
(* computes, for every list of functions and any events.                   *)
(***************************************************************************)
EXTENDS NqlAggregate, AggregateFunctions, FiniteSetTheorems,
        SequenceTheorems, WellFoundedInduction, TLAPS

AllBuckets == buckets \cup results

(* The number of an event tells it from the events accepted before it.     *)
EventsNumbered ==
    /\ IsFiniteSet(accepted)
    /\ \A e \in accepted : e.id <= Cardinality(accepted)

(* A bucket holds only events that were accepted.                          *)
BucketsFilled == \A b \in AllBuckets : b.members \subseteq accepted

(* Buckets are numbered up to the counter.  (Those of sliding windows are  *)
(* too, but their numbers are never compared with one another.)            *)
BucketsNumbered == type # "sliding" => \A b \in AllBuckets : b.id <= created

(* A bucket of a tumbling or sliding window is as long as the window.      *)
WindowsSized ==
    type \in {"tumbling", "sliding"} => \A b \in AllBuckets : b.end = b.start + Size

(* Without a window, or with sliding ones, a window of a group has at most *)
(* one bucket.  (A tumbling bucket moved on by a flush may be a second.)   *)
WindowsUnique ==
    type \in {"none", "sliding"} =>
        \A b, c \in buckets : b.key = c.key /\ b.start = c.start => b = c

(* A query without a window has no timer.                                  *)
TimerOff == type = "none" => ~timer

Base ==
    /\ TypeOK
    /\ EventsNumbered
    /\ BucketsFilled
    /\ BucketsNumbered
    /\ WindowsSized
    /\ WindowsUnique
    /\ TimerOff

----------------------------------------------------------------------------
(* A non-empty set of numbered buckets has a newest one.                   *)
LEMMA NewestExists ==
    ASSUME NEW S, S # {}, NEW n \in Nat,
           \A b \in S : b.id \in Nat /\ b.id <= n
    PROVE  Newest(S) \in S /\ \A c \in S : c.id <= Newest(S).id
<1>. DEFINE ages == {n - b.id : b \in S}
            lt == OpToRel(<, Nat)
<1>1. ages \subseteq Nat /\ ages # {}
  OBVIOUS
<1>2. PICK a \in ages : \A y \in ages : <<y, a>> \notin lt
  <2>1. IsWellFoundedOn(lt, Nat)
    BY NatLessThanWellFounded
  <2>. HIDE DEF lt, ages
  <2>. QED  BY <1>1, <2>1, WFMin
<1>3. \A y \in ages : ~ (y < a)
  BY <1>1, <1>2 DEF OpToRel
<1>4. PICK b \in S : a = n - b.id
  BY <1>2
<1>5. ASSUME NEW c \in S
      PROVE  c.id <= b.id
  <2>1. ~ (n - c.id < a)
    BY <1>3
  <2>. QED  BY <1>4, <2>1
<1>. QED  BY <1>4, <1>5 DEF Newest

(* The start of a window, and a window in which it moves on, are naturals. *)
LEMMA AlignedNat ==
    ASSUME NEW t \in Nat, NEW step \in Nat \ {0}
    PROVE  Aligned(t, step) \in Nat
<1>1. t \div step \in Nat
  OBVIOUS
<1>2. \A a, b \in Nat : a * b \in Nat
  OBVIOUS
<1>. QED  BY <1>1, <1>2 DEF Aligned

LEMMA IntervalNat == TypeOK => Interval \in Nat
  BY ConstantsAssumption DEF Interval, slide_ms

(* The sliding windows an event is put in are finitely many, and each      *)
(* contains the event.                                                     *)
LEMMA SlidingStartsContain ==
    ASSUME NEW ts \in Nat
    PROVE  /\ SlidingStarts(ts) \subseteq Nat
           /\ IsFiniteSet(SlidingStarts(ts))
           /\ \A s \in SlidingStarts(ts) : s <= ts /\ ts < s + Size
<1>. DEFINE slide == IF Slide > 0 THEN Slide ELSE Size
            earliest == Aligned(IF ts >= Size THEN ts - Size ELSE 0, slide)
            n == (Aligned(ts, slide) - earliest) \div slide + 1
            max_windows == IF n > MaxWindows THEN MaxWindows ELSE n
<1>1. slide \in Nat \ {0} /\ Size \in Nat
  BY ConstantsAssumption
<1>2. earliest \in Nat
  <2>1. (IF ts >= Size THEN ts - Size ELSE 0) \in Nat
    BY <1>1
  <2>. HIDE DEF slide
  <2>. QED  BY <1>1, <2>1, AlignedNat
<1>3. SlidingStarts(ts) =
        {s \in {earliest + i * slide : i \in 0 .. max_windows - 1} :
            earliest + Size > ts /\ s <= ts}
  BY DEF SlidingStarts
<1>. HIDE DEF slide, earliest, max_windows
<1>4. ASSUME NEW s \in SlidingStarts(ts)
      PROVE  s \in Nat /\ s <= ts /\ ts < s + Size
  <2>1. PICK i \in 0 .. max_windows - 1 : s = earliest + i * slide
    BY <1>3
  <2>2. i \in Nat /\ i * slide \in Nat
    <3>1. i \in Nat
      OBVIOUS
    <3>2. \A a, b \in Nat : a * b \in Nat
      OBVIOUS
    <3>. QED  BY <1>1, <3>1, <3>2
  <2>3. earliest + Size > ts /\ s <= ts
    BY <1>3
  <2>. QED  BY <1>1, <1>2, <2>1, <2>2, <2>3
<1>5. SlidingStarts(ts) \subseteq 0..ts /\ IsFiniteSet(0..ts)
  BY <1>4, FS_Interval
<1>. QED  BY <1>4, <1>5, FS_Subset

----------------------------------------------------------------------------
(* What Execute does with an event: the buckets taken hold it afterwards.  *)
Executes(e, taken) ==
    /\ e.id = Cardinality(accepted) + 1
    /\ e.ts <= now /\ (e.lag = 0 => e.ts = now)
    /\ e \notin accepted
    /\ accepted' = accepted \cup {e}
    /\ buckets' = (buckets \ taken) \cup {UpdateBucket(b, e) : b \in taken}
    /\ created' = created + Cardinality(taken \ buckets)
    /\ results' = IF type = "none" THEN results \cup {UpdateBucket(b, e) : b \in taken}
                                   ELSE results
    /\ EnsureTimer
    /\ UNCHANGED <<now, started, type, freed_keys>>

LEMMA ExecuteEvent ==
    ASSUME Base, NEW key \in Keys, NEW lag \in 0..Lag, Execute(key, lag)
    PROVE  \E e \in Event : Executes(e, BucketsForEvent(e))
<1>. DEFINE e == [id |-> Cardinality(accepted) + 1, key |-> key,
                  ts |-> now - lag, live |-> started, lag |-> lag]
            taken == BucketsForEvent(e)
<1>1. Cardinality(accepted) \in Nat /\ \A f \in accepted : f.id <= Cardinality(accepted)
  BY FS_CardinalityType DEF Base, EventsNumbered
<1>2. now \in Nat /\ started \in BOOLEAN /\ lag \in Nat /\ lag < now
  BY ConstantsAssumption DEF Execute, Base, TypeOK
<1>3. now - lag \in Nat /\ now - lag <= now /\ (lag = 0 => now - lag = now)
  BY <1>2
<1>4. e \in Event
  BY <1>1, <1>2, <1>3 DEF Event
<1>5. e \notin accepted
  <2>1. e.id = Cardinality(accepted) + 1
    OBVIOUS
  <2>. HIDE DEF e
  <2>. QED  BY <1>1, <2>1
<1>6. /\ accepted' = accepted \cup {e}
      /\ buckets' = (buckets \ taken) \cup {UpdateBucket(b, e) : b \in taken}
      /\ created' = created + Cardinality(taken \ buckets)
      /\ results' = IF type = "none" THEN results \cup {UpdateBucket(b, e) : b \in taken}
                                     ELSE results
  BY DEF Execute
<1>7. EnsureTimer /\ UNCHANGED <<now, started, type, freed_keys>>
  BY DEF Execute
<1>8. e.id = Cardinality(accepted) + 1 /\ e.ts = now - lag /\ e.lag = lag
  OBVIOUS
<1>. HIDE DEF e
<1>. QED  BY <1>3, <1>4, <1>5, <1>6, <1>7, <1>8 DEF Executes

(* The window a new bucket has, and the buckets in which an event may be   *)
(* put, where there is one window.                                         *)
WindowStart(e) == CASE type = "session"  -> e.ts
                    [] type = "tumbling" -> Aligned(e.ts, Size)
                    [] OTHER             -> 0
WindowEnd(e) == IF type = "tumbling" THEN WindowStart(e) + Size ELSE Forever
Found(e) == IF type = "session" THEN OpenSessions(e) ELSE InWindow(e, WindowStart(e))

(* One window: it is created, or its newest bucket is used.                *)
LEMMA OneWindow ==
    ASSUME Base, type # "sliding", NEW e \in Event
    PROVE  \E b : /\ BucketsForEvent(e) = {b}
                  /\ \/ b \in Found(e)
                     \/ /\ Found(e) = {}
                        /\ b = CreateBucket(1, e, WindowStart(e), WindowEnd(e))
<1>1. type \in {"none", "tumbling", "session"}
  BY ConstantsAssumption DEF Base, TypeOK
<1>2. Found(e) # {} => Newest(Found(e)) \in Found(e)
  <2>1. \A b \in Found(e) : b.id \in Nat /\ b.id <= created
    BY DEF Found, OpenSessions, InWindow, Base, TypeOK, Bucket, BucketsNumbered, AllBuckets
  <2>2. created \in Nat
    BY DEF Base, TypeOK
  <2>. QED  BY <2>1, <2>2, NewestExists
<1>3. CASE type = "session"
  <2>1. BucketsForEvent(e) = SessionBuckets(e) /\ Found(e) = OpenSessions(e)
        /\ WindowStart(e) = e.ts /\ WindowEnd(e) = Forever
    BY <1>3 DEF BucketsForEvent, Found, WindowStart, WindowEnd
  <2>. QED  BY <1>2, <2>1 DEF SessionBuckets
<1>4. CASE type \in {"none", "tumbling"}
  <2>. DEFINE s == WindowStart(e)
              end == WindowEnd(e)
              missing == {x \in {s} : InWindow(e, x) = {}}
  <2>1. Found(e) = InWindow(e, s)
    BY <1>4 DEF Found
  <2>2. BucketsForEvent(e) = WindowBuckets(e, [x \in {s} |-> end])
    <3>1. CASE type = "none"
      BY <3>1 DEF BucketsForEvent, NoWindowBuckets, WindowStart, WindowEnd
    <3>2. CASE type = "tumbling"
      <4>1. s = Aligned(e.ts, Size) /\ end = s + Size
        BY <3>2 DEF WindowStart, WindowEnd
      <4>2. BucketsForEvent(e)
              = WindowBuckets(e, [x \in {Aligned(e.ts, Size)} |-> x + Size])
        BY <3>2 DEF BucketsForEvent, TumblingBuckets
      <4>3. [x \in {Aligned(e.ts, Size)} |-> x + Size] = [x \in {s} |-> end]
        BY <4>1
      <4>. QED  BY <4>2, <4>3
    <3>. QED  BY <1>4, <3>1, <3>2
  <2>. HIDE DEF s, end
  <2>3. BucketsForEvent(e)
          = {IF s \in missing
             THEN CreateBucket(Cardinality({m \in missing : m <= s}), e, s, end)
             ELSE Newest(InWindow(e, s))}
    BY <2>2 DEF WindowBuckets
  <2>4. CASE InWindow(e, s) = {}
    <3>1. s <= s
      <4>1. s \in Nat
        BY <1>4, AlignedNat, ConstantsAssumption DEF s, WindowStart, Event
      <4>. QED  BY <4>1
    <3>2. s \in missing /\ {m \in missing : m <= s} = {s}
      BY <2>4, <3>1
    <3>3. Cardinality({m \in missing : m <= s}) = 1
      BY <3>2, FS_Singleton
    <3>. QED  BY <2>1, <2>3, <2>4, <3>2, <3>3 DEF s, end
  <2>5. CASE InWindow(e, s) # {}
    BY <1>2, <2>1, <2>3, <2>5
  <2>. QED  BY <2>4, <2>5
<1>. QED  BY <1>1, <1>3, <1>4

(* An event taken by one bucket, found or new.                             *)
TakesOne(e, b) ==
    /\ Executes(e, {b})
    /\ b.key = e.key
    /\ \/ b \in Found(e) /\ b \in buckets /\ created' = created
       \/ /\ Found(e) = {} /\ b \notin AllBuckets
          /\ b = CreateBucket(1, e, WindowStart(e), WindowEnd(e))
          /\ b.id = created + 1 /\ b.members = {} /\ b.keys = e.id
          /\ b.start = WindowStart(e) /\ b.end = WindowEnd(e)
          /\ b.last = WindowStart(e)
          /\ created' = created + 1

(* So, except with sliding windows, Execute puts an event in one bucket.   *)
LEMMA ExecuteOne ==
    ASSUME Base, type # "sliding",
           NEW key \in Keys, NEW lag \in 0..Lag, Execute(key, lag)
    PROVE  \E e \in Event, b \in Bucket : TakesOne(e, b)
<1>1. PICK e \in Event : Executes(e, BucketsForEvent(e))
  BY ExecuteEvent
<1>2. PICK b : /\ BucketsForEvent(e) = {b}
               /\ \/ b \in Found(e)
                  \/ /\ Found(e) = {}
                     /\ b = CreateBucket(1, e, WindowStart(e), WindowEnd(e))
  BY OneWindow
<1>3. Executes(e, {b}) /\ created \in Nat
  BY <1>1, <1>2 DEF Base, TypeOK
<1>4. CASE b \in Found(e)
  <2>1. b \in buckets /\ b \in Bucket /\ b.key = e.key
    BY <1>4 DEF Found, OpenSessions, InWindow, Base, TypeOK
  <2>2. Cardinality({b} \ buckets) = 0
    BY <2>1, FS_EmptySet, {b} \ buckets = {}
  <2>3. created' = created
    BY <1>3, <2>2 DEF Executes
  <2>. QED  BY <1>3, <1>4, <2>1, <2>3 DEF TakesOne
<1>5. CASE Found(e) = {} /\ b = CreateBucket(1, e, WindowStart(e), WindowEnd(e))
  <2>1. WindowStart(e) \in Nat /\ WindowEnd(e) \in Nat
    <3>1. Aligned(e.ts, Size) \in Nat /\ e.ts \in Nat
      BY AlignedNat, ConstantsAssumption DEF Event
    <3>2. WindowStart(e) \in Nat
      BY <3>1 DEF WindowStart
    <3>. QED  BY <3>2, ConstantsAssumption DEF WindowEnd
  <2>2. /\ b \in Bucket
        /\ b.key = e.key
        /\ b.id = created + 1 /\ b.members = {} /\ b.keys = e.id
        /\ b.start = WindowStart(e) /\ b.end = WindowEnd(e) /\ b.last = WindowStart(e)
    BY <1>3, <1>5, <2>1 DEF CreateBucket, Bucket, Event
  <2>3. b \notin AllBuckets
    BY <1>3, <2>2 DEF Base, BucketsNumbered
  <2>4. Cardinality({b} \ buckets) = 1
    BY <2>3, FS_Singleton, {b} \ buckets = {b} DEF AllBuckets
  <2>5. created' = created + 1
    BY <1>3, <2>4 DEF Executes
  <2>. QED  BY <1>3, <1>5, <2>2, <2>3, <2>5 DEF TakesOne
<1>. QED  BY <1>2, <1>4, <1>5

(* An event taken by the buckets of several windows.                       *)
TakesSliding(e, taken) ==
    /\ Executes(e, taken)
    /\ IsFiniteSet(taken)
    /\ \A b \in taken :
          /\ b.key = e.key /\ b.end = b.start + Size
          /\ b.start <= e.ts /\ e.ts < b.end
          /\ \/ b \in buckets
             \/ b.members = {} /\ InWindow(e, b.start) = {}
    /\ \A b, c \in taken : b.start = c.start => b = c
    /\ \A b \in taken, c \in buckets :
          b.key = c.key /\ b.start = c.start => c = b

(* With sliding windows it puts the event in one bucket for each window    *)
(* that it takes, the one the window has or a new one.                     *)
LEMMA ExecuteSliding ==
    ASSUME Base, type = "sliding",
           NEW key \in Keys, NEW lag \in 0..Lag, Execute(key, lag)
    PROVE  \E e \in Event, taken \in SUBSET Bucket : TakesSliding(e, taken)
<1>1. PICK e \in Event : Executes(e, BucketsForEvent(e))
  BY ExecuteEvent
<1>. DEFINE starts == SlidingStarts(e.ts)
            ends == [s \in starts |-> s + Size]
            missing == {s \in starts : InWindow(e, s) = {}}
            id(s) == Cardinality({m \in missing : m <= s})
            f(s) == IF s \in missing THEN CreateBucket(id(s), e, s, ends[s])
                                     ELSE Newest(InWindow(e, s))
            taken == {f(s) : s \in starts}
<1>2. BucketsForEvent(e) = taken
  <2>1. BucketsForEvent(e) = WindowBuckets(e, ends)
    BY DEF BucketsForEvent, SlidingBuckets
  <2>2. DOMAIN ends = starts
    OBVIOUS
  <2>. QED  BY <2>1, <2>2 DEF WindowBuckets
<1>3. /\ starts \subseteq Nat /\ IsFiniteSet(starts)
      /\ \A s \in starts : s <= e.ts /\ e.ts < s + Size
      /\ \A s \in starts : ends[s] = s + Size
  BY SlidingStartsContain DEF Event
<1>. HIDE DEF starts, ends
<1>4. ASSUME NEW s \in starts, s \in missing
      PROVE  /\ f(s) \in Bucket
             /\ f(s).key = e.key /\ f(s).start = s /\ f(s).end = s + Size
             /\ f(s).members = {} /\ InWindow(e, f(s).start) = {}
  <2>1. id(s) \in Nat
    <3>1. IsFiniteSet({m \in missing : m <= s})
      BY <1>3, FS_Subset, {m \in missing : m <= s} \subseteq starts
    <3>. QED  BY <3>1, FS_CardinalityType
  <2>. HIDE DEF id
  <2>2. s \in Nat /\ s + Size \in Nat /\ created \in Nat
    BY <1>3, ConstantsAssumption DEF Base, TypeOK
  <2>3. f(s) = CreateBucket(id(s), e, s, s + Size)
    BY <1>3, <1>4
  <2>4. created + id(s) \in Nat
    BY <2>1, <2>2
  <2>5. /\ f(s) \in Bucket
        /\ f(s).key = e.key /\ f(s).start = s /\ f(s).end = s + Size
        /\ f(s).members = {}
    BY <2>2, <2>3, <2>4 DEF CreateBucket, Bucket, Event
  <2>. QED  BY <1>4, <2>5
<1>5. ASSUME NEW s \in starts, s \notin missing
      PROVE  f(s) \in InWindow(e, s) /\ InWindow(e, s) = {f(s)}
  <2>1. f(s) = Newest(InWindow(e, s)) /\ InWindow(e, s) # {}
    BY <1>5
  <2>2. \A b, c \in InWindow(e, s) : b = c
    BY DEF InWindow, Base, WindowsUnique
  <2>3. \A b \in InWindow(e, s) : b.id \in Nat
    BY DEF InWindow, Base, TypeOK, Bucket
  <2>4. PICK b : InWindow(e, s) = {b}
    BY <2>1, <2>2
  <2>5. Newest(InWindow(e, s)) = b
    BY <2>3, <2>4 DEF Newest
  <2>. QED  BY <2>1, <2>4, <2>5
<1>6. ASSUME NEW s \in starts
      PROVE  /\ f(s) \in Bucket
             /\ f(s).key = e.key /\ f(s).start = s /\ f(s).end = f(s).start + Size
             /\ f(s).start <= e.ts /\ e.ts < f(s).end
             /\ \/ f(s) \in buckets
                \/ f(s).members = {} /\ InWindow(e, f(s).start) = {}
             /\ \A c \in buckets : f(s).key = c.key /\ f(s).start = c.start => c = f(s)
  <2>1. CASE s \in missing
    <3>1. \A c \in buckets : ~(c.key = e.key /\ c.start = s)
      BY <2>1 DEF InWindow
    <3>. HIDE DEF f, missing
    <3>. QED  BY <1>3, <1>4, <2>1, <3>1
  <2>2. CASE s \notin missing
    <3>. HIDE DEF f, missing
    <3>1. f(s) \in buckets /\ f(s).key = e.key /\ f(s).start = s
      BY <1>5, <2>2 DEF InWindow
    <3>2. f(s) \in Bucket /\ f(s).end = s + Size
      BY <3>1 DEF Base, TypeOK, WindowsSized, AllBuckets
    <3>3. \A c \in buckets : f(s).key = c.key /\ f(s).start = c.start => c = f(s)
      BY <3>1 DEF Base, WindowsUnique
    <3>. QED  BY <1>3, <3>1, <3>2, <3>3
  <2>. QED  BY <2>1, <2>2
<1>. HIDE DEF f
<1>7. IsFiniteSet(taken)
  <2>. DEFINE g == [s \in starts |-> f(s)]
  <2>1. g \in Surjection(starts, taken)
    BY DEF Surjection
  <2>. HIDE DEF g, taken
  <2>. QED  BY <1>3, <2>1, FS_Surjection
<1>8. taken \in SUBSET Bucket
  BY <1>6
<1>9. \A b, c \in taken : b.start = c.start => b = c
  BY <1>6
<1>10. Executes(e, taken)
  BY <1>1, <1>2
<1>11. \A b \in taken :
          /\ b.key = e.key /\ b.end = b.start + Size
          /\ b.start <= e.ts /\ e.ts < b.end
          /\ \/ b \in buckets
             \/ b.members = {} /\ InWindow(e, b.start) = {}
  BY <1>6
<1>12. \A b \in taken, c \in buckets : b.key = c.key /\ b.start = c.start => c = b
  BY <1>6
<1>. HIDE DEF taken
<1>. QED  BY <1>7, <1>8, <1>9, <1>10, <1>11, <1>12 DEF TakesSliding

(* What an event changes in a bucket, and a flush in a tumbling one.       *)
LEMMA UpdatedBucket ==
    ASSUME NEW b \in Bucket, NEW e \in Event
    PROVE  LET u == UpdateBucket(b, e)
           IN  /\ u \in Bucket
               /\ u.id = b.id /\ u.key = b.key /\ u.keys = b.keys
               /\ u.start = b.start /\ u.end = b.end
               /\ u.members = b.members \cup {e}
               /\ u.last = IF type = "session" /\ e.ts > b.last THEN e.ts ELSE b.last
  BY DEF UpdateBucket, Bucket, Event

LEMMA ResetBucketFields ==
    ASSUME TypeOK, NEW b \in Bucket, b.end = b.start + Size, b.end <= now
    PROVE  LET r == ResetBucket(b)
           IN  /\ r \in Bucket
               /\ r.id = b.id /\ r.key = b.key /\ r.keys = b.keys
               /\ r.end = r.start + Size
               /\ r.members = {}
<1>. DEFINE start == b.start + ((now - b.start) \div Size) * Size
<1>1. start \in Nat
  <2>1. now - b.start \in Nat /\ Size \in Nat \ {0} /\ b.start \in Nat
    BY ConstantsAssumption DEF TypeOK, Bucket
  <2>2. (now - b.start) \div Size \in Nat
    BY <2>1
  <2>3. \A x, y \in Nat : x * y \in Nat
    OBVIOUS
  <2>. QED  BY <2>1, <2>2, <2>3
<1>2. start + Size \in Nat
  BY <1>1, ConstantsAssumption
<1>3. ResetBucket(b) = [b EXCEPT !.members = {}, !.start = start, !.end = start + Size]
  BY DEF ResetBucket
<1>. HIDE DEF start
<1>. QED  BY <1>1, <1>2, <1>3 DEF Bucket

----------------------------------------------------------------------------
LEMMA BaseInit == Init => Base
<1>. SUFFICES ASSUME Init PROVE Base
  OBVIOUS
<1>1. TypeOK
  BY ConstantsAssumption DEF Init, TypeOK
<1>. QED
  BY <1>1, FS_EmptySet DEF Init, Base, EventsNumbered, BucketsFilled, BucketsNumbered,
                           WindowsSized, WindowsUnique, TimerOff, AllBuckets

(* The parts of the invariant that do not depend on the kind of window.    *)
LEMMA BaseExecuteCommon ==
    ASSUME Base, NEW e \in Event, NEW taken \in SUBSET Bucket, Executes(e, taken),
           created' \in Nat,
           \A b \in taken : b \in buckets \/ b.members = {}
    PROVE  TypeOK' /\ EventsNumbered' /\ BucketsFilled' /\ TimerOff'
<1>1. Cardinality(accepted) \in Nat
  BY FS_CardinalityType DEF Base, EventsNumbered
<1>2. EventsNumbered'
  <2>1. /\ IsFiniteSet(accepted \cup {e})
        /\ Cardinality(accepted \cup {e}) = Cardinality(accepted) + 1
    BY FS_AddElement DEF Executes, Base, EventsNumbered
  <2>2. \A f \in accepted : f.id \in Nat /\ f.id <= Cardinality(accepted)
    BY DEF Base, EventsNumbered, TypeOK, Event
  <2>3. e.id = Cardinality(accepted) + 1 /\ accepted' = accepted \cup {e}
    BY DEF Executes
  <2>4. \A f \in accepted \cup {e} : f.id <= Cardinality(accepted) + 1
    BY <1>1, <2>2, <2>3
  <2>. QED  BY <2>1, <2>3, <2>4 DEF EventsNumbered
<1>3. TimerOff' /\ timer' \in BOOLEAN /\ due' \in Nat
  <2>1. CASE type # "none" /\ timer' = TRUE /\ due' = now + Interval
    BY <2>1, IntervalNat DEF Executes, Base, TypeOK, TimerOff
  <2>2. CASE UNCHANGED <<timer, due>>
    BY <2>2 DEF Executes, Base, TypeOK, TimerOff
  <2>3. EnsureTimer
    BY DEF Executes
  <2>. QED  BY <2>1, <2>2, <2>3 DEF EnsureTimer
<1>. DEFINE updated == {UpdateBucket(b, e) : b \in taken}
<1>4. \A u \in updated : u \in Bucket /\ u.members \subseteq accepted \cup {e}
  <2>. SUFFICES ASSUME NEW b \in taken
                PROVE  /\ UpdateBucket(b, e) \in Bucket
                       /\ UpdateBucket(b, e).members \subseteq accepted \cup {e}
    OBVIOUS
  <2>1. b.members \subseteq accepted
    BY DEF Base, BucketsFilled, AllBuckets
  <2>. QED  BY <2>1, UpdatedBucket
<1>. HIDE DEF updated
<1>5. /\ buckets' = (buckets \ taken) \cup updated
      /\ results' = results \cup updated \/ results' = results
      /\ accepted' = accepted \cup {e}
  BY DEF Executes, updated
<1>6. TypeOK'
  <2>1. now' \in Nat \ {0} /\ started' \in BOOLEAN /\ type' \in WindowTypes
        /\ freed_keys' \subseteq Nat
    BY DEF Executes, Base, TypeOK
  <2>2. buckets' \subseteq Bucket /\ results' \subseteq Bucket /\ accepted' \subseteq Event
    BY <1>4, <1>5 DEF Base, TypeOK
  <2>. QED  BY <1>3, <2>1, <2>2 DEF TypeOK
<1>7. BucketsFilled'
  BY <1>4, <1>5 DEF Base, BucketsFilled, AllBuckets
<1>. QED  BY <1>2, <1>3, <1>6, <1>7

LEMMA BaseExecute ==
    ASSUME Base, NEW key \in Keys, NEW lag \in 0..Lag, Execute(key, lag)
    PROVE  Base'
<1>1. CASE type # "sliding"
  <2>1. PICK e \in Event, b \in Bucket : TakesOne(e, b)
    BY <1>1, ExecuteOne
  <2>2. created \in Nat /\ created' \in Nat /\ created <= created' /\ b.id <= created'
    BY <1>1, <2>1 DEF TakesOne, Base, TypeOK, BucketsNumbered, AllBuckets, Bucket
  <2>3. TypeOK' /\ EventsNumbered' /\ BucketsFilled' /\ TimerOff'
    BY <2>1, <2>2, BaseExecuteCommon DEF TakesOne
  <2>. DEFINE u == UpdateBucket(b, e)
  <2>4. /\ u \in Bucket /\ u.id = b.id /\ u.key = b.key
        /\ u.start = b.start /\ u.end = b.end
    BY UpdatedBucket
  <2>. HIDE DEF u
  <2>5. /\ buckets' = (buckets \ {b}) \cup {u}
        /\ results' = results \/ results' = results \cup {u}
        /\ type' = type
    BY <2>1 DEF TakesOne, Executes, u
  <2>6. BucketsNumbered'
    BY <2>2, <2>4, <2>5 DEF Base, TypeOK, BucketsNumbered, AllBuckets, Bucket
  <2>7. WindowsSized'
    <3>1. type = "tumbling" => b.end = b.start + Size
      BY <2>1 DEF TakesOne, Base, WindowsSized, AllBuckets, WindowEnd
    <3>. QED  BY <1>1, <2>4, <2>5, <3>1 DEF Base, WindowsSized, AllBuckets
  <2>8. WindowsUnique'
    <3>1. type = "none" => Found(e) = InWindow(e, WindowStart(e))
      BY DEF Found
    <3>2. type = "none" => \A c \in buckets \ {b} : ~(c.key = u.key /\ c.start = u.start)
      BY <2>1, <2>4, <3>1 DEF TakesOne, InWindow, Base, WindowsUnique
    <3>. QED  BY <1>1, <2>5, <3>2 DEF Base, WindowsUnique
  <2>. QED  BY <2>3, <2>6, <2>7, <2>8 DEF Base
<1>2. CASE type = "sliding"
  <2>1. PICK e \in Event, taken \in SUBSET Bucket : TakesSliding(e, taken)
    BY <1>2, ExecuteSliding
  <2>2. created' \in Nat
    <3>1. IsFiniteSet(taken \ buckets)
      BY <2>1, FS_Subset, taken \ buckets \subseteq taken DEF TakesSliding
    <3>2. Cardinality(taken \ buckets) \in Nat
      BY <3>1, FS_CardinalityType
    <3>. QED  BY <2>1, <3>2 DEF TakesSliding, Executes, Base, TypeOK
  <2>3. TypeOK' /\ EventsNumbered' /\ BucketsFilled' /\ TimerOff'
    BY <2>1, <2>2, BaseExecuteCommon DEF TakesSliding
  <2>. DEFINE updated == {UpdateBucket(b, e) : b \in taken}
  <2>4. \A u \in updated : \E b \in taken :
            u = UpdateBucket(b, e) /\ u.key = b.key /\ u.start = b.start /\ u.end = b.end
    BY UpdatedBucket
  <2>. HIDE DEF updated
  <2>5. /\ buckets' = (buckets \ taken) \cup updated
        /\ results' = results
        /\ type' = type
    BY <1>2, <2>1 DEF TakesSliding, Executes, updated
  <2>6. WindowsSized'
    BY <1>2, <2>1, <2>4, <2>5 DEF TakesSliding, Base, WindowsSized, AllBuckets
  <2>7. WindowsUnique'
    <3>1. ASSUME NEW c \in buckets', NEW d \in buckets', c.key = d.key, c.start = d.start
          PROVE  c = d
      <4>1. CASE c \in buckets \ taken /\ d \in buckets \ taken
        BY <1>2, <3>1, <4>1 DEF Base, WindowsUnique
      <4>2. CASE c \in updated /\ d \in updated
        BY <2>1, <2>4, <3>1, <4>2 DEF TakesSliding
      <4>3. CASE c \in updated /\ d \in buckets \ taken
        BY <2>1, <2>4, <3>1, <4>3 DEF TakesSliding
      <4>4. CASE c \in buckets \ taken /\ d \in updated
        BY <2>1, <2>4, <3>1, <4>4 DEF TakesSliding
      <4>. QED  BY <2>5, <4>1, <4>2, <4>3, <4>4
    <3>. QED  BY <3>1 DEF WindowsUnique
  <2>8. BucketsNumbered'
    BY <1>2, <2>5 DEF BucketsNumbered
  <2>. QED  BY <2>3, <2>6, <2>7, <2>8 DEF Base
<1>. QED  BY <1>1, <1>2

(* What Flush does: an expired tumbling bucket moves on to the window the  *)
(* clock is in, any other one leaves the list with its group keys.         *)
Retires(expired) ==
    /\ \A b \in buckets : b \in expired <=> Expired(b)
    /\ type = "tumbling" =>
          /\ \A b \in expired : b.end = b.start + Size /\ b.end <= now
          /\ buckets' = (buckets \ expired) \cup {ResetBucket(b) : b \in expired}
          /\ results' = results \cup
                {ResetBucket(b) : b \in {c \in expired : c.members # {}}}
          /\ freed_keys' = freed_keys
    /\ type # "tumbling" =>
          /\ buckets' = buckets \ expired
          /\ results' = results \cup {b \in expired : b.members # {}}
          /\ freed_keys' \in {freed_keys, freed_keys \cup {b.keys : b \in expired}}
    /\ type # "none"
    /\ timer' = timer /\ due' = now + Interval
    /\ UNCHANGED <<now, started, type, created, accepted>>

LEMMA FlushStep ==
    ASSUME Base, Flush
    PROVE  \E expired \in SUBSET buckets : Retires(expired)
<1>. DEFINE expired == {b \in buckets : Expired(b)}
<1>1. Retire(expired)
  BY DEF Flush
<1>2. type # "none" /\ timer' = timer /\ due' = now + Interval
  BY DEF Flush, Base, TimerOff
<1>3. UNCHANGED <<now, started, type, created, accepted>>
  BY DEF Flush
<1>4. expired \in SUBSET buckets /\ \A b \in buckets : b \in expired <=> Expired(b)
  OBVIOUS
<1>5. type = "tumbling" => \A b \in expired : b.end = b.start + Size /\ b.end <= now
  BY DEF Base, WindowsSized, AllBuckets, Expired
<1>. HIDE DEF expired
<1>6. CASE type = "tumbling"
  BY <1>1, <1>2, <1>3, <1>4, <1>5, <1>6 DEF Retire, Retires
<1>7. CASE type # "tumbling"
  BY <1>1, <1>2, <1>3, <1>4, <1>7 DEF Retire, Retires
<1>. QED  BY <1>6, <1>7

LEMMA BaseFlush ==
    ASSUME Base, Flush
    PROVE  Base'
<1>1. PICK expired \in SUBSET buckets : Retires(expired)
  BY FlushStep
<1>2. buckets \subseteq Bucket /\ results \subseteq Bucket
  BY DEF Base, TypeOK
<1>. DEFINE reset == {ResetBucket(b) : b \in expired}
<1>3. type = "tumbling" =>
        \A r \in reset : /\ r \in Bucket /\ r.members = {} /\ r.end = r.start + Size
                         /\ \E b \in expired : r.id = b.id
  <2>. SUFFICES ASSUME type = "tumbling", NEW b \in expired
                PROVE  /\ ResetBucket(b) \in Bucket /\ ResetBucket(b).members = {}
                       /\ ResetBucket(b).end = ResetBucket(b).start + Size
                       /\ ResetBucket(b).id = b.id
    OBVIOUS
  <2>1. b \in Bucket /\ b.end = b.start + Size /\ b.end <= now /\ TypeOK
    BY <1>1, <1>2 DEF Base, Retires
  <2>. QED  BY <2>1, ResetBucketFields
<1>4. /\ type = "tumbling" => /\ buckets' = (buckets \ expired) \cup reset
                              /\ results' \subseteq results \cup reset
      /\ type # "tumbling" => /\ buckets' \subseteq buckets
                              /\ results' \subseteq results \cup buckets
  BY <1>1 DEF Retires
<1>. HIDE DEF reset
<1>5. AllBuckets' \subseteq AllBuckets \cup reset /\ (type # "tumbling" => AllBuckets' \subseteq AllBuckets)
  BY <1>4 DEF AllBuckets
<1>6. TypeOK'
  <2>1. buckets' \subseteq Bucket /\ results' \subseteq Bucket
    BY <1>2, <1>3, <1>4
  <2>2. freed_keys' \subseteq Nat
    <3>1. {b.keys : b \in expired} \subseteq Nat
      BY <1>2 DEF Bucket
    <3>2. freed_keys' \in {freed_keys, freed_keys \cup {b.keys : b \in expired}}
      BY <1>1 DEF Retires
    <3>. QED  BY <3>1, <3>2 DEF Base, TypeOK
  <2>3. due' \in Nat
    BY <1>1, IntervalNat DEF Base, TypeOK, Retires
  <2>4. now' \in Nat \ {0} /\ started' \in BOOLEAN /\ type' \in WindowTypes
        /\ timer' \in BOOLEAN /\ created' \in Nat /\ accepted' \subseteq Event
    BY <1>1 DEF Base, TypeOK, Retires
  <2>. QED  BY <2>1, <2>2, <2>3, <2>4 DEF TypeOK
<1>7. EventsNumbered' /\ TimerOff'
  BY <1>1 DEF Retires, Base, EventsNumbered, TimerOff
<1>8. BucketsFilled' /\ BucketsNumbered' /\ WindowsSized'
  <2>1. CASE type = "tumbling"
    BY <1>1, <1>3, <1>5, <2>1
    DEF Retires, Base, BucketsFilled, BucketsNumbered, WindowsSized, AllBuckets
  <2>2. CASE type # "tumbling"
    BY <1>1, <1>5, <2>2 DEF Retires, Base, BucketsFilled, BucketsNumbered, WindowsSized
  <2>. QED  BY <2>1, <2>2
<1>9. WindowsUnique'
  BY <1>1, <1>4 DEF Retires, Base, WindowsUnique
<1>. QED  BY <1>6, <1>7, <1>8, <1>9 DEF Base

LEMMA BaseNext == Base /\ [Next]_vars => Base'
<1>. SUFFICES ASSUME Base, [Next]_vars PROVE Base'
  OBVIOUS
<1>. USE DEF Base, TypeOK, EventsNumbered, BucketsFilled, BucketsNumbered, WindowsSized,
             WindowsUnique, TimerOff, AllBuckets
<1>1. CASE WorldStart
  BY <1>1 DEF WorldStart
<1>2. CASE Tick
  BY <1>2 DEF Tick
<1>3. CASE UNCHANGED vars
  BY <1>3 DEF vars
<1>4. CASE Flush
  BY <1>4, BaseFlush
<1>5. ASSUME NEW key \in Keys, NEW lag \in 0..Lag, Execute(key, lag) PROVE Base'
  BY <1>5, BaseExecute
<1>. QED  BY <1>1, <1>2, <1>3, <1>4, <1>5 DEF Next

----------------------------------------------------------------------------
(* Session windows.  A session is identified by its number, and is         *)
(* reported only once it has left the list.                                *)
SessionsDistinct ==
    type = "session" =>
        /\ \A b, c \in AllBuckets : b.id = c.id => b = c
        /\ buckets \cap results = {}

SessionInv == Base /\ SessionsDistinct /\ ExactlyOnce

(* What happens to the sessions when one of them takes an event.           *)
LEMMA SessionTakes ==
    ASSUME SessionInv, type = "session", NEW e \in Event, NEW b \in Bucket, TakesOne(e, b)
    PROVE  LET u == UpdateBucket(b, e)
           IN  /\ AllBuckets' = (AllBuckets \ {b}) \cup {u}
               /\ buckets' = (buckets \ {b}) \cup {u} /\ results' = results
               /\ u.id = b.id /\ u.members = b.members \cup {e}
               /\ e \notin accepted /\ accepted' = accepted \cup {e}
               /\ \A c \in AllBuckets \ {b} : c.id # b.id
               /\ b \notin results
               /\ b \in AllBuckets \/ b.members = {}
               /\ type' = type
<1>1. /\ e \notin accepted /\ accepted' = accepted \cup {e}
      /\ buckets' = (buckets \ {b}) \cup {UpdateBucket(b, e)}
      /\ results' = results /\ type' = type
  BY DEF TakesOne, Executes
<1>2. b \notin results
  BY DEF TakesOne, SessionInv, SessionsDistinct, AllBuckets
<1>3. \A c \in AllBuckets \ {b} : c.id # b.id
  <2>1. CASE b \in buckets
    BY <2>1 DEF SessionInv, SessionsDistinct, AllBuckets
  <2>2. CASE b.id = created + 1
    <3>1. \A c \in AllBuckets : c.id \in Nat /\ c.id <= created
      BY DEF SessionInv, Base, TypeOK, BucketsNumbered, AllBuckets, Bucket
    <3>2. created \in Nat
      BY DEF SessionInv, Base, TypeOK
    <3>. QED  BY <2>2, <3>1, <3>2
  <2>. QED  BY <2>1, <2>2 DEF TakesOne
<1>4. b \in AllBuckets \/ b.members = {}
  BY DEF TakesOne, AllBuckets
<1>5. UpdateBucket(b, e).id = b.id /\ UpdateBucket(b, e).members = b.members \cup {e}
  BY UpdatedBucket
<1>. QED  BY <1>1, <1>2, <1>3, <1>4, <1>5 DEF AllBuckets

(* What a flush does to them: those that have timed out are reported.      *)
LEMMA SessionFlush ==
    ASSUME Base, type = "session", Flush
    PROVE  \E expired \in SUBSET buckets :
              /\ \A b \in expired : now - b.last >= Timeout
              /\ buckets' = buckets \ expired
              /\ results' = results \cup expired
              /\ AllBuckets' = AllBuckets
              /\ UNCHANGED <<now, type, accepted>>
<1>1. PICK expired \in SUBSET buckets : Retires(expired)
  BY FlushStep
<1>2. \A b \in expired : b.members # {} /\ now - b.last >= Timeout
  BY <1>1 DEF Retires, Expired
<1>3. /\ buckets' = buckets \ expired
      /\ results' = results \cup {b \in expired : b.members # {}}
      /\ UNCHANGED <<now, type, accepted>>
  BY <1>1 DEF Retires
<1>4. {b \in expired : b.members # {}} = expired
  BY <1>2
<1>. QED  BY <1>2, <1>3, <1>4 DEF AllBuckets

LEMMA SessionInvInit == Init => SessionInv
  BY BaseInit DEF Init, SessionInv, SessionsDistinct, ExactlyOnce, AllBuckets

LEMMA SessionInvNext == SessionInv /\ [Next]_vars => SessionInv'
<1>. SUFFICES ASSUME SessionInv, [Next]_vars PROVE SessionInv'
  OBVIOUS
<1>0. Base'
  BY BaseNext DEF SessionInv
<1>1. ASSUME NEW key \in Keys, NEW lag \in 0..Lag, Execute(key, lag)
      PROVE  SessionInv'
  <2>. SUFFICES ASSUME type = "session" PROVE SessionInv'
    <3>1. type' = type
      BY <1>1 DEF Execute
    <3>. QED  BY <1>0, <3>1 DEF SessionInv, SessionsDistinct, ExactlyOnce
  <2>1. PICK e \in Event, b \in Bucket : TakesOne(e, b)
    BY <1>1, ExecuteOne DEF SessionInv
  <2>. DEFINE u == UpdateBucket(b, e)
  <2>2. /\ AllBuckets' = (AllBuckets \ {b}) \cup {u}
        /\ buckets' = (buckets \ {b}) \cup {u} /\ results' = results
        /\ u.id = b.id /\ u.members = b.members \cup {e}
        /\ e \notin accepted /\ accepted' = accepted \cup {e}
        /\ \A c \in AllBuckets \ {b} : c.id # b.id
        /\ b \notin results
        /\ b \in AllBuckets \/ b.members = {}
        /\ type' = type
    BY <2>1, SessionTakes
  <2>. HIDE DEF u
  <2>3. \A c \in AllBuckets : c.members \subseteq accepted
    BY DEF SessionInv, Base, BucketsFilled
  <2>4. SessionsDistinct'
    <3>1. \A c, d \in AllBuckets' : c.id = d.id => c = d
      BY <2>2 DEF SessionInv, SessionsDistinct
    <3>2. u \notin results
      BY <2>2, <2>3 DEF AllBuckets
    <3>. QED  BY <2>2, <3>1, <3>2 DEF SessionInv, SessionsDistinct
  <2>5. ExactlyOnce'
    <3>1. \A f \in accepted' : \E c \in AllBuckets' : f \in c.members
      <4>. SUFFICES ASSUME NEW f \in accepted' PROVE \E c \in AllBuckets' : f \in c.members
        OBVIOUS
      <4>1. CASE f = e
        BY <2>2, <4>1
      <4>2. CASE f \in accepted
        <5>1. PICK c \in AllBuckets : f \in c.members
          BY <4>2 DEF SessionInv, ExactlyOnce, AllBuckets
        <5>. QED  BY <2>2, <5>1
      <4>. QED  BY <2>2, <4>1, <4>2
    <3>2. \A c, d \in AllBuckets : c # d => c.members \cap d.members = {}
      BY DEF SessionInv, ExactlyOnce, AllBuckets
    <3>3. \A c \in AllBuckets \ {b} : c.members \cap u.members = {}
      BY <2>2, <2>3, <3>2
    <3>4. \A c, d \in AllBuckets' : c # d => c.members \cap d.members = {}
      BY <2>2, <3>2, <3>3
    <3>. QED  BY <3>1, <3>4 DEF ExactlyOnce, AllBuckets
  <2>. QED  BY <1>0, <2>4, <2>5 DEF SessionInv
<1>2. CASE Flush
  <2>. SUFFICES ASSUME type = "session" PROVE SessionInv'
    <3>1. type' = type
      BY <1>2 DEF Flush
    <3>. QED  BY <1>0, <3>1 DEF SessionInv, SessionsDistinct, ExactlyOnce
  <2>1. PICK expired \in SUBSET buckets :
              /\ \A b \in expired : now - b.last >= Timeout
              /\ buckets' = buckets \ expired
              /\ results' = results \cup expired
              /\ AllBuckets' = AllBuckets
              /\ UNCHANGED <<now, type, accepted>>
    BY <1>2, SessionFlush DEF SessionInv
  <2>. QED
    BY <1>0, <2>1 DEF SessionInv, SessionsDistinct, ExactlyOnce, AllBuckets
<1>3. CASE WorldStart \/ Tick \/ UNCHANGED vars
  BY <1>0, <1>3 DEF WorldStart, Tick, vars, SessionInv, SessionsDistinct, ExactlyOnce, AllBuckets
<1>. QED  BY <1>1, <1>2, <1>3 DEF Next

(* For every timeout, number of groups and pattern of late arrivals, a     *)
(* session query accounts for every event it accepts in exactly one        *)
(* session, open or reported.                                              *)
THEOREM SessionsExact == Spec => []ExactlyOnce
<1>1. SessionInv => ExactlyOnce
  BY DEF SessionInv
<1>. QED  BY <1>1, SessionInvInit, SessionInvNext, PTL DEF Spec

(* The query's state keeps its types, for every kind of window.            *)
THEOREM QueryTyped == Spec => []TypeOK
<1>1. Base => TypeOK
  BY DEF Base
<1>. QED  BY <1>1, BaseInit, BaseNext, PTL DEF Spec

----------------------------------------------------------------------------
(* What keeps sessions apart: a session does not reach into the future, and *)
(* one that was reported had already timed out.                            *)
SessionClock ==
    /\ \A b \in AllBuckets : b.start <= b.last /\ b.last <= now
    /\ \A b \in results : b.last + Timeout <= now

Apart == \A b, c \in AllBuckets :
             (b.key = c.key /\ b.id < c.id) => b.last + Timeout <= c.start

ApartInv == SessionInv /\ (type = "session" /\ Prompt => SessionClock /\ Apart)

(* A step that leaves all events prompt keeps the sessions of a group      *)
(* apart.                                                                  *)
LEMMA ApartStep ==
    ASSUME SessionInv, type = "session", SessionClock, Apart, [Next]_vars, Prompt'
    PROVE  SessionClock' /\ Apart'
<1>1. Timeout \in Nat /\ now \in Nat /\ created \in Nat
  BY ConstantsAssumption DEF SessionInv, Base, TypeOK
<1>2. \A b \in AllBuckets : /\ b.id \in Nat /\ b.start \in Nat /\ b.last \in Nat
                          /\ b.id <= created
  BY DEF SessionInv, Base, TypeOK, Bucket, AllBuckets, BucketsNumbered
<1>3. ASSUME NEW key \in Keys, NEW lag \in 0..Lag, Execute(key, lag)
      PROVE  SessionClock' /\ Apart'
  <2>0. PICK e \in Event, b \in Bucket : TakesOne(e, b)
    BY <1>3, ExecuteOne DEF SessionInv
  <2>1. /\ accepted' = accepted \cup {e}
        /\ buckets' = (buckets \ {b}) \cup {UpdateBucket(b, e)}
        /\ results' = results
        /\ now' = now /\ type' = type
        /\ b.key = e.key
        /\ \/ /\ OpenSessions(e) = {}
              /\ b.id = created + 1 /\ b.start = e.ts /\ b.last = e.ts
           \/ b \in OpenSessions(e)
    BY <2>0 DEF TakesOne, Executes, Found, WindowStart
  <2>2. e.ts = now
    <3>1. e.lag = 0
      BY <2>1 DEF Prompt
    <3>. QED  BY <2>0, <3>1 DEF TakesOne, Executes
  <2>. DEFINE u == UpdateBucket(b, e)
  <2>3. /\ u.id = b.id /\ u.key = b.key /\ u.start = b.start
        /\ u.last = IF now > b.last THEN now ELSE b.last
        /\ b.start \in Nat /\ b.last \in Nat /\ b.id \in Nat
    BY <1>1, <2>1, <2>2 DEF UpdateBucket, Bucket
  <2>4. CASE /\ OpenSessions(e) = {}
             /\ b.id = created + 1 /\ b.start = e.ts /\ b.last = e.ts
    <3>1. b.id = created + 1 /\ b.key = e.key /\ b.start = now /\ b.last = now
      BY <2>1, <2>2, <2>4
    <3>2. ASSUME NEW c \in AllBuckets, c.key = e.key
          PROVE  c.last + Timeout <= now
      <4>1. CASE c \in results
        BY <4>1 DEF SessionClock
      <4>2. CASE c \in buckets
        <5>1. c.last <= now
          BY DEF SessionClock
        <5>2. c \notin OpenSessions(e)
          BY <2>4
        <5>. QED  BY <1>1, <1>2, <2>1, <2>2, <3>2, <4>2, <5>1, <5>2 DEF OpenSessions
      <4>. QED  BY <4>1, <4>2 DEF AllBuckets
    <3>3. u.last = now /\ u.start = now /\ u.id = created + 1 /\ u.key = e.key
      BY <1>1, <2>3, <3>1
    <3>4. AllBuckets' \subseteq AllBuckets \cup {u}
      BY <2>1 DEF AllBuckets
    <3>. HIDE DEF u
    <3>5. SessionClock'
      BY <1>1, <2>1, <3>3, <3>4 DEF SessionClock
    <3>6. ASSUME NEW c \in AllBuckets', NEW d \in AllBuckets', c.key = d.key, c.id < d.id
          PROVE  c.last + Timeout <= d.start
      <4>1. CASE c \in AllBuckets /\ d \in AllBuckets
        BY <1>1, <3>6, <4>1 DEF Apart, AllBuckets
      <4>2. CASE c \in AllBuckets /\ d = u
        BY <3>2, <3>3, <3>6, <4>2
      <4>3. CASE c = u /\ d = u
        BY <1>1, <3>3, <3>6, <4>3
      <4>4. CASE c = u /\ d \in AllBuckets
        BY <1>1, <1>2, <3>3, <3>6, <4>4
      <4>. QED  BY <3>4, <4>1, <4>2, <4>3, <4>4
    <3>. QED  BY <3>5, <3>6 DEF Apart, AllBuckets
  <2>5. CASE b \in OpenSessions(e)
    <3>1. b \in buckets /\ b \in AllBuckets /\ b.last <= now /\ now - b.last < Timeout
      BY <2>2, <2>5 DEF OpenSessions, AllBuckets
    <3>2. u.last = now
      BY <1>1, <2>3, <3>1
    <3>3. AllBuckets' \subseteq AllBuckets \cup {u}
      BY <2>1 DEF AllBuckets
    <3>4. ASSUME NEW c \in AllBuckets, c.key = b.key
          PROVE  c.id <= b.id
      <4>1. SUFFICES ASSUME b.id < c.id PROVE FALSE
        BY <1>2, <3>1
      <4>2. b.last + Timeout <= c.start
        BY <1>1, <3>1, <3>4, <4>1 DEF Apart, AllBuckets
      <4>3. c.start <= c.last /\ c.last <= now
        BY DEF SessionClock
      <4>. QED  BY <1>1, <1>2, <3>1, <4>2, <4>3
    <3>. HIDE DEF u
    <3>5. SessionClock'
      <4>1. b.start <= b.last
        BY <3>1 DEF SessionClock
      <4>2. u.start <= u.last
        BY <1>1, <2>3, <3>1, <3>2, <4>1
      <4>. QED  BY <1>1, <2>1, <3>2, <3>3, <4>2 DEF SessionClock
    <3>6. ASSUME NEW c \in AllBuckets', NEW d \in AllBuckets', c.key = d.key, c.id < d.id
          PROVE  c.last + Timeout <= d.start
      <4>1. CASE c \in AllBuckets /\ d \in AllBuckets
        BY <1>1, <3>6, <4>1 DEF Apart, AllBuckets
      <4>2. CASE c \in AllBuckets /\ d = u
        BY <1>1, <2>3, <3>1, <3>6, <4>2 DEF Apart, AllBuckets
      <4>3. CASE c = u /\ d = u
        BY <2>3, <3>6, <4>3
      <4>4. CASE c = u /\ d \in AllBuckets
        BY <1>2, <2>3, <3>4, <3>6, <4>4
      <4>. QED  BY <3>3, <4>1, <4>2, <4>3, <4>4
    <3>. QED  BY <3>5, <3>6 DEF Apart, AllBuckets
  <2>. QED  BY <2>1, <2>4, <2>5
<1>4. CASE Flush
  <2>1. PICK expired \in SUBSET buckets :
              /\ \A b \in expired : now - b.last >= Timeout
              /\ buckets' = buckets \ expired
              /\ results' = results \cup expired
              /\ AllBuckets' = AllBuckets
              /\ UNCHANGED <<now, type, accepted>>
    BY <1>4, SessionFlush DEF SessionInv
  <2>3. \A b \in expired : b.last + Timeout <= now
    <3>1. \A b \in expired : b.last \in Nat
      BY <1>2 DEF AllBuckets
    <3>. QED  BY <1>1, <2>1, <3>1
  <2>. QED  BY <2>1, <2>3 DEF SessionClock, Apart, AllBuckets
<1>5. CASE Tick
  <2>1. now' = now + 1 /\ buckets' = buckets /\ results' = results /\ type' = type
    BY <1>5 DEF Tick
  <2>2. SessionClock'
    BY <1>1, <1>2, <2>1 DEF SessionClock, AllBuckets
  <2>. QED  BY <2>1, <2>2 DEF Apart, AllBuckets
<1>6. CASE WorldStart
  BY <1>6 DEF WorldStart, SessionClock, Apart, AllBuckets
<1>7. CASE UNCHANGED vars
  BY <1>7 DEF vars, SessionClock, Apart, AllBuckets
<1>. QED  BY <1>3, <1>4, <1>5, <1>6, <1>7 DEF Next

(* A step keeps the events accepted before it.                             *)
LEMMA PromptBefore == Prompt' /\ [Next]_vars => Prompt /\ type' = type
<1>. SUFFICES ASSUME Prompt', [Next]_vars PROVE Prompt /\ type' = type
  OBVIOUS
<1>1. accepted \subseteq accepted' /\ type' = type
  BY DEF Next, WorldStart, Execute, Flush, Tick, vars
<1>. QED  BY <1>1 DEF Prompt

LEMMA ApartNext == ApartInv /\ [Next]_vars => ApartInv'
<1>. SUFFICES ASSUME ApartInv, [Next]_vars PROVE ApartInv'
  OBVIOUS
<1>1. SessionInv'
  BY SessionInvNext DEF ApartInv
<1>2. ASSUME type' = "session", Prompt'
      PROVE  SessionClock' /\ Apart'
  <2>1. Prompt /\ type = "session"
    BY <1>2, PromptBefore
  <2>. QED  BY <1>2, <2>1, ApartStep DEF ApartInv
<1>. QED  BY <1>1, <1>2 DEF ApartInv

(* For every timeout and number of groups, as long as no event is late     *)
(* the sessions of a group are never less than the timeout apart: a        *)
(* session is never split.                                                 *)
THEOREM SessionsNeverSplit == Spec => []SessionsApart
<1>1. Init => ApartInv
  BY SessionInvInit DEF Init, ApartInv, SessionClock, Apart, AllBuckets
<1>2. ApartInv => SessionsApart
  BY DEF ApartInv, SessionsApart, Apart, AllBuckets
<1>. QED  BY <1>1, <1>2, ApartNext, PTL DEF Spec

----------------------------------------------------------------------------
(* Group keys.  A bucket takes the array of the event that created it, so  *)
(* no array is newer than the newest event.                                *)
KeysKnown ==
    /\ \A b \in buckets : b.keys <= Cardinality(accepted)
    /\ \A k \in freed_keys : k <= Cardinality(accepted)

KeysInv == Base /\ (type # "sliding" => KeysKnown /\ KeysHeld)

(* The kind of the window never changes.                                   *)
LEMMA TypeKept == [Next]_vars => type' = type
  BY DEF Next, WorldStart, Execute, Flush, Tick, vars

LEMMA KeysInvNext == KeysInv /\ [Next]_vars => KeysInv'
<1>. SUFFICES ASSUME KeysInv, [Next]_vars, type # "sliding" PROVE KeysKnown' /\ KeysHeld'
  BY BaseNext, TypeKept DEF KeysInv
<1>0. /\ KeysKnown
      /\ \A b \in buckets : b.keys \notin freed_keys
      /\ \A b, c \in buckets : b.keys = c.keys => b = c
  BY DEF KeysInv, KeysHeld, Defined
<1>1. Cardinality(accepted) \in Nat
  BY FS_CardinalityType DEF KeysInv, Base, EventsNumbered
<1>2. /\ \A b \in buckets : b.keys \in Nat
      /\ \A k \in freed_keys : k \in Nat
      /\ buckets \subseteq Bucket
  BY DEF KeysInv, Base, TypeOK, Bucket
<1>3. ASSUME NEW key \in Keys, NEW lag \in 0..Lag, Execute(key, lag)
      PROVE  KeysKnown' /\ KeysHeld'
  <2>1. PICK e \in Event, b \in Bucket : TakesOne(e, b)
    BY <1>3, ExecuteOne DEF KeysInv
  <2>. DEFINE u == UpdateBucket(b, e)
  <2>2. /\ e.id = Cardinality(accepted) + 1
        /\ buckets' = (buckets \ {b}) \cup {u}
        /\ freed_keys' = freed_keys /\ type' = type
        /\ u.keys = b.keys
        /\ b \in buckets \/ b.keys = e.id
    BY <2>1, UpdatedBucket DEF TakesOne, Executes
  <2>3. Cardinality(accepted') = Cardinality(accepted) + 1
    <3>1. accepted' = accepted \cup {e} /\ e \notin accepted
      BY <2>1 DEF TakesOne, Executes
    <3>. QED  BY <3>1, FS_AddElement DEF KeysInv, Base, EventsNumbered
  <2>. HIDE DEF u
  <2>4. u.keys \notin freed_keys /\ \A c \in buckets \ {b} : c.keys # u.keys
    BY <1>0, <1>1, <1>2, <2>2 DEF KeysKnown
  <2>5. KeysKnown'
    BY <1>0, <1>1, <1>2, <2>2, <2>3 DEF KeysKnown
  <2>6. KeysHeld'
    BY <1>0, <2>2, <2>4 DEF KeysHeld, Defined
  <2>. QED  BY <2>5, <2>6
<1>4. CASE Flush
  <2>1. PICK expired \in SUBSET buckets : Retires(expired)
    BY <1>4, FlushStep DEF KeysInv
  <2>2. accepted' = accepted /\ type' = type
    BY <2>1 DEF Retires
  <2>3. CASE type = "tumbling"
    <3>. DEFINE reset == {ResetBucket(b) : b \in expired}
    <3>1. buckets' = (buckets \ expired) \cup reset /\ freed_keys' = freed_keys
          /\ \A b \in expired : b.end = b.start + Size /\ b.end <= now
      BY <2>1, <2>3 DEF Retires
    <3>2. \A b \in expired : ResetBucket(b).keys = b.keys
      BY <1>2, <3>1, ResetBucketFields DEF KeysInv, Base
    <3>3. \A r \in reset : \E b \in expired : r = ResetBucket(b) /\ r.keys = b.keys
      BY <3>2
    <3>. HIDE DEF reset
    <3>4. \A b, c \in buckets' : b.keys = c.keys => b = c
      BY <1>0, <3>1, <3>3
    <3>5. KeysKnown' /\ \A b \in buckets' : b.keys \notin freed_keys'
      BY <1>0, <2>2, <3>1, <3>3 DEF KeysKnown
    <3>. QED  BY <3>4, <3>5 DEF KeysHeld, Defined
  <2>4. CASE type # "tumbling"
    <3>1. /\ buckets' = buckets \ expired
          /\ freed_keys' \in {freed_keys, freed_keys \cup {b.keys : b \in expired}}
      BY <2>1, <2>4 DEF Retires
    <3>2. \A k \in freed_keys' : k \in freed_keys \/ \E b \in expired : k = b.keys
      BY <3>1
    <3>3. \A b \in buckets' : b.keys \notin freed_keys'
      BY <1>0, <3>1, <3>2
    <3>. QED  BY <1>0, <2>2, <3>1, <3>2, <3>3 DEF KeysKnown, KeysHeld, Defined
  <2>. QED  BY <2>3, <2>4
<1>5. CASE WorldStart \/ Tick \/ UNCHANGED vars
  BY <1>0, <1>5 DEF WorldStart, Tick, vars, KeysKnown, KeysHeld, Defined
<1>. QED  BY <1>3, <1>4, <1>5 DEF Next

(* Except with sliding windows, each bucket owns its group keys: for every *)
(* window, group and pattern of arrivals, no flush frees the keys of a     *)
(* bucket that stays in the list, and no two buckets share them.           *)
THEOREM GroupKeysHeld == Spec => []KeysHeld
<1>1. Init => KeysInv
  BY BaseInit DEF Init, KeysInv, KeysKnown, KeysHeld, Defined
<1>2. KeysInv => KeysHeld
  BY DEF KeysInv, KeysHeld
<1>. QED  BY <1>1, <1>2, KeysInvNext, PTL DEF Spec

----------------------------------------------------------------------------
(* Tumbling windows.                                                       *)

(* A window that is still open ends in the future.                         *)
Open(e) == Aligned(e.ts, Size) + Size > now

(* As long as its window is open, an event is in one bucket, and that one  *)
(* spans the window.                                                       *)
HeldBy(e, b) ==
    /\ e \in b.members
    /\ b.start = Aligned(e.ts, Size) /\ b.end = b.start + Size
    /\ \A c \in buckets : e \in c.members => c = b
OpenHeld == \A e \in accepted : Open(e) => \E b \in buckets : HeldBy(e, b)

OpenInv == Base /\ (type = "tumbling" => OpenHeld)

LEMMA OpenHeldHolds == OpenInv => OpenWindowHeld
<1>. SUFFICES ASSUME OpenInv, type = "tumbling", NEW e \in accepted, Open(e)
              PROVE  /\ Cardinality({b \in buckets : e \in b.members}) = 1
                     /\ \A b \in {b \in buckets : e \in b.members} :
                            /\ b.start = Aligned(e.ts, Size)
                            /\ b.end = Aligned(e.ts, Size) + Size
  BY DEF OpenWindowHeld, Open
<1>1. PICK b \in buckets : HeldBy(e, b)
  BY DEF OpenInv, OpenHeld
<1>2. {c \in buckets : e \in c.members} = {b}
  BY <1>1 DEF HeldBy
<1>3. Cardinality({b}) = 1
  BY FS_Singleton
<1>. QED  BY <1>1, <1>2, <1>3 DEF HeldBy

LEMMA OpenInvNext == OpenInv /\ [Next]_vars => OpenInv'
<1>. SUFFICES ASSUME OpenInv, [Next]_vars, type = "tumbling" PROVE OpenHeld'
  BY BaseNext, TypeKept DEF OpenInv
<1>0. OpenHeld /\ now \in Nat /\ BucketsFilled
  BY DEF OpenInv, Base, TypeOK
<1>1. \A e \in accepted : Aligned(e.ts, Size) + Size \in Nat
  <2>1. \A e \in accepted : e.ts \in Nat
    BY DEF OpenInv, Base, TypeOK, Event
  <2>2. \A t \in Nat : Aligned(t, Size) \in Nat
    BY AlignedNat, ConstantsAssumption
  <2>. QED  BY <2>1, <2>2, ConstantsAssumption
<1>2. ASSUME NEW key \in Keys, NEW lag \in 0..Lag, Execute(key, lag)
      PROVE  OpenHeld'
  <2>1. PICK e \in Event, b \in Bucket : TakesOne(e, b)
    BY <1>2, ExecuteOne DEF OpenInv
  <2>. DEFINE u == UpdateBucket(b, e)
  <2>2. /\ u.members = b.members \cup {e}
        /\ u.start = b.start /\ u.end = b.end
    BY UpdatedBucket
  <2>3. /\ accepted' = accepted \cup {e} /\ e \notin accepted
        /\ buckets' = (buckets \ {b}) \cup {u}
        /\ now' = now
    BY <2>1 DEF TakesOne, Executes
  <2>4. b.start = Aligned(e.ts, Size) /\ b.end = b.start + Size
    <3>1. WindowStart(e) = Aligned(e.ts, Size) /\ WindowEnd(e) = WindowStart(e) + Size
          /\ Found(e) = InWindow(e, WindowStart(e))
      BY DEF WindowStart, WindowEnd, Found
    <3>2. b \in buckets => b.end = b.start + Size
      BY DEF OpenInv, Base, WindowsSized, AllBuckets
    <3>. QED  BY <2>1, <3>1, <3>2 DEF TakesOne, InWindow
  <2>. HIDE DEF u
  <2>5. \A c \in buckets : e \notin c.members
    BY <1>0, <2>3 DEF BucketsFilled, AllBuckets
  <2>6. b \in buckets \/ b.members = {}
    BY <2>1 DEF TakesOne
  <2>. SUFFICES ASSUME NEW f \in accepted', Aligned(f.ts, Size) + Size > now
                PROVE  \E d \in buckets' :
                          /\ f \in d.members
                          /\ d.start = Aligned(f.ts, Size) /\ d.end = d.start + Size
                          /\ \A c \in buckets' : f \in c.members => c = d
    BY <2>3 DEF OpenHeld, Open, HeldBy
  <2>7. CASE f = e
    BY <2>2, <2>3, <2>4, <2>5, <2>7
  <2>8. CASE f \in accepted
    <3>1. PICK d \in buckets : HeldBy(f, d)
      BY <1>0, <2>8 DEF OpenHeld, Open
    <3>2. CASE d = b
      BY <2>2, <2>3, <2>4, <3>1, <3>2 DEF HeldBy
    <3>3. CASE d # b
      <4>1. f \notin b.members
        BY <2>6, <3>1, <3>3 DEF HeldBy
      <4>2. f \notin u.members
        BY <2>2, <2>3, <2>8, <4>1
      <4>. QED  BY <2>3, <3>1, <3>3, <4>2 DEF HeldBy
    <3>. QED  BY <3>2, <3>3
  <2>. QED  BY <2>3, <2>7, <2>8
<1>3. CASE Flush
  <2>1. PICK expired \in SUBSET buckets : Retires(expired)
    BY <1>3, FlushStep DEF OpenInv
  <2>. DEFINE reset == {ResetBucket(b) : b \in expired}
  <2>2. /\ buckets' = (buckets \ expired) \cup reset
        /\ now' = now /\ accepted' = accepted
        /\ \A b \in expired : b.end = b.start + Size /\ b.end <= now
    BY <2>1 DEF Retires
  <2>3. \A r \in reset : r.members = {}
    <3>1. \A b \in expired : b \in Bucket /\ TypeOK
      BY DEF OpenInv, Base, TypeOK
    <3>. QED  BY <2>2, <3>1, ResetBucketFields
  <2>. HIDE DEF reset
  <2>. SUFFICES ASSUME NEW f \in accepted, Aligned(f.ts, Size) + Size > now
                PROVE  \E d \in buckets' :
                          /\ f \in d.members
                          /\ d.start = Aligned(f.ts, Size) /\ d.end = d.start + Size
                          /\ \A c \in buckets' : f \in c.members => c = d
    BY <2>2 DEF OpenHeld, Open, HeldBy
  <2>4. PICK d \in buckets : HeldBy(f, d)
    BY <1>0 DEF OpenHeld, Open
  <2>5. d \notin expired
    BY <1>0, <1>1, <2>2, <2>4 DEF HeldBy
  <2>. QED  BY <2>2, <2>3, <2>4, <2>5 DEF HeldBy
<1>4. CASE Tick
  <2>1. now' = now + 1 /\ accepted' = accepted /\ buckets' = buckets
    BY <1>4 DEF Tick
  <2>2. \A e \in accepted : Aligned(e.ts, Size) + Size > now + 1 => Open(e)
    BY <1>0, <1>1 DEF Open
  <2>. QED  BY <1>0, <2>1, <2>2 DEF OpenHeld, Open, HeldBy
<1>5. CASE WorldStart \/ UNCHANGED vars
  BY <1>0, <1>5 DEF WorldStart, vars, OpenHeld, Open, HeldBy
<1>. QED  BY <1>2, <1>3, <1>4, <1>5 DEF Next

(* For every window size, group and pattern of late arrivals, as long as a *)
(* tumbling window is open each of its events is in exactly one bucket,    *)
(* one that spans that window.                                             *)
THEOREM OpenWindowsExact == Spec => []OpenWindowHeld
<1>1. Init => OpenInv
  BY BaseInit DEF Init, OpenInv, OpenHeld
<1>. QED  BY <1>1, OpenHeldHolds, OpenInvNext, PTL DEF Spec

----------------------------------------------------------------------------
(* No window: each group has one bucket, which holds all of its events.    *)
HoldsGroup ==
    /\ \A b \in buckets : b.start = 0 /\ b.members = {f \in accepted : f.key = b.key}
    /\ \A e \in accepted : \E b \in buckets : b.key = e.key

TotalInv == Base /\ (type = "none" => HoldsGroup /\ RunningTotal)

LEMMA TotalInvNext == TotalInv /\ [Next]_vars => TotalInv'
<1>. SUFFICES ASSUME TotalInv, [Next]_vars, type = "none" PROVE HoldsGroup' /\ RunningTotal'
  BY BaseNext, TypeKept DEF TotalInv
<1>0. HoldsGroup /\ RunningTotal /\ WindowsUnique
  BY DEF TotalInv, Base
<1>1. ASSUME NEW key \in Keys, NEW lag \in 0..Lag, Execute(key, lag)
      PROVE  HoldsGroup' /\ RunningTotal'
  <2>1. PICK e \in Event, b \in Bucket : TakesOne(e, b)
    BY <1>1, ExecuteOne DEF TotalInv
  <2>. DEFINE u == UpdateBucket(b, e)
  <2>2. /\ u.members = b.members \cup {e}
        /\ u.start = b.start /\ u.key = b.key
    BY UpdatedBucket
  <2>3. /\ accepted' = accepted \cup {e}
        /\ buckets' = (buckets \ {b}) \cup {u}
        /\ results' = results \cup {u}
        /\ type' = type /\ b.key = e.key
        /\ e.id = Cardinality(accepted) + 1
    BY <2>1 DEF TakesOne, Executes
  <2>4. WindowStart(e) = 0 /\ Found(e) = {c \in buckets : c.key = e.key /\ c.start = 0}
    BY DEF WindowStart, Found, InWindow
  <2>5. b.start = 0 /\ b.members = {f \in accepted : f.key = e.key}
    <3>1. CASE b \in buckets
      BY <1>0, <2>3, <3>1 DEF HoldsGroup
    <3>2. CASE Found(e) = {} /\ b.members = {} /\ b.start = 0
      <4>1. \A f \in accepted : f.key # e.key
        BY <1>0, <2>4, <3>2 DEF HoldsGroup
      <4>. QED  BY <3>2, <4>1
    <3>. QED  BY <2>1, <2>4, <3>1, <3>2 DEF TakesOne
  <2>6. \A c \in buckets \ {b} : c.key # e.key
    <3>1. CASE b \in buckets
      BY <1>0, <2>3, <2>5, <3>1 DEF HoldsGroup, WindowsUnique
    <3>2. CASE Found(e) = {}
      BY <1>0, <2>4, <3>2 DEF HoldsGroup
    <3>. QED  BY <2>1, <3>1, <3>2 DEF TakesOne
  <2>7. \A f \in accepted : f.id \in Nat /\ f.id < e.id
    <3>1. Cardinality(accepted) \in Nat
      BY FS_CardinalityType DEF TotalInv, Base, EventsNumbered
    <3>2. \A f \in accepted : f.id \in Nat /\ f.id <= Cardinality(accepted)
      BY DEF TotalInv, Base, EventsNumbered, TypeOK, Event
    <3>. QED  BY <2>3, <3>1, <3>2
  <2>8. e.id \in Nat
    BY DEF Event
  <2>. HIDE DEF u
  <2>9. HoldsGroup'
    <3>1. \A c \in buckets' : c.start = 0 /\ c.members = {f \in accepted' : f.key = c.key}
      <4>1. u.start = 0 /\ u.members = {f \in accepted' : f.key = u.key}
        BY <2>2, <2>3, <2>5
      <4>2. ASSUME NEW c \in buckets \ {b}
            PROVE  c.start = 0 /\ c.members = {f \in accepted' : f.key = c.key}
        <5>1. c.start = 0 /\ c.members = {f \in accepted : f.key = c.key} /\ e.key # c.key
          BY <1>0, <2>6 DEF HoldsGroup
        <5>. QED  BY <2>3, <5>1
      <4>. QED  BY <2>3, <4>1, <4>2
    <3>2. \A f \in accepted' : \E c \in buckets' : c.key = f.key
      BY <1>0, <2>2, <2>3 DEF HoldsGroup
    <3>. QED  BY <3>1, <3>2 DEF HoldsGroup
  <2>10. RunningTotal'
    <3>. SUFFICES ASSUME NEW g \in accepted'
                  PROVE  \E r \in results' :
                            r.members = {f \in accepted' : f.key = g.key /\ f.id <= g.id}
      BY <2>3 DEF RunningTotal
    <3>1. CASE g = e
      <4>1. u.members = {f \in accepted' : f.key = e.key /\ f.id <= e.id}
        BY <2>2, <2>3, <2>5, <2>7, <2>8
      <4>. QED  BY <2>3, <3>1, <4>1
    <3>2. CASE g \in accepted
      <4>1. PICK r \in results : r.members = {f \in accepted : f.key = g.key /\ f.id <= g.id}
        BY <1>0, <3>2 DEF RunningTotal
      <4>2. ~(e.id <= g.id)
        BY <2>7, <2>8, <3>2
      <4>. QED  BY <2>3, <4>1, <4>2
    <3>. QED  BY <2>3, <3>1, <3>2
  <2>. QED  BY <2>9, <2>10
<1>2. CASE Flush
  BY <1>2 DEF Flush, TotalInv, Base, TimerOff
<1>3. CASE WorldStart \/ Tick \/ UNCHANGED vars
  BY <1>0, <1>3 DEF WorldStart, Tick, vars, HoldsGroup, RunningTotal
<1>. QED  BY <1>1, <1>2, <1>3 DEF Next

(* A query without a window reports a running total, for every number of   *)
(* groups and of events: each result covers all the events of its group.   *)
THEOREM TotalsRun == Spec => []RunningTotal
<1>1. Init => TotalInv
  BY BaseInit DEF Init, TotalInv, HoldsGroup, RunningTotal
<1>2. TotalInv => RunningTotal
  BY DEF TotalInv, RunningTotal
<1>. QED  BY <1>1, <1>2, TotalInvNext, PTL DEF Spec

----------------------------------------------------------------------------
(* Sliding windows.                                                        *)
WithinWindows ==
    \A b \in AllBuckets : \A e \in b.members : b.start <= e.ts /\ e.ts < b.end

SameWindow(b, c) == b.key = c.key /\ b.start = c.start

(* What was reported is over, and has no bucket any more.                  *)
ReportedOver ==
    /\ \A r \in results : r.end <= now
    /\ \A r \in results, b \in buckets : ~SameWindow(r, b)
    /\ \A r, s \in results : SameWindow(r, s) => r = s

SlidingInv ==
    Base /\ (type = "sliding" => WithinWindows /\ (Prompt => ReportedOver))

LEMMA SlidingInvNext == SlidingInv /\ [Next]_vars => SlidingInv'
<1>. SUFFICES ASSUME SlidingInv, [Next]_vars, type = "sliding"
              PROVE  WithinWindows' /\ (Prompt' => ReportedOver')
  BY BaseNext, TypeKept DEF SlidingInv
<1>0. /\ WithinWindows /\ (Prompt' => ReportedOver)
      /\ WindowsUnique /\ now \in Nat
      /\ \A b \in AllBuckets : b.end = b.start + Size /\ b.end \in Nat
  <2>1. Prompt' => Prompt
    BY PromptBefore
  <2>. QED  BY <2>1 DEF SlidingInv, Base, TypeOK, Bucket, WindowsSized, AllBuckets
<1>1. ASSUME NEW key \in Keys, NEW lag \in 0..Lag, Execute(key, lag)
      PROVE  WithinWindows' /\ (Prompt' => ReportedOver')
  <2>1. PICK e \in Event, taken \in SUBSET Bucket : TakesSliding(e, taken)
    BY <1>1, ExecuteSliding DEF SlidingInv
  <2>. DEFINE updated == {UpdateBucket(b, e) : b \in taken}
  <2>2. /\ buckets' = (buckets \ taken) \cup updated
        /\ results' = results /\ now' = now
        /\ accepted' = accepted \cup {e}
        /\ e.lag = 0 => e.ts = now
    BY <2>1 DEF TakesSliding, Executes
  <2>3. \A u \in updated : \E b \in taken :
            /\ u.key = b.key /\ u.start = b.start /\ u.end = b.end
            /\ u.members = b.members \cup {e}
    BY UpdatedBucket
  <2>. HIDE DEF updated
  <2>4. ASSUME NEW u \in updated
        PROVE  /\ u.start <= e.ts /\ e.ts < u.end /\ u.end = u.start + Size
               /\ \A f \in u.members : u.start <= f.ts /\ f.ts < u.end
    <3>1. PICK b \in taken : /\ u.start = b.start /\ u.end = b.end
                             /\ u.members = b.members \cup {e}
      BY <2>3
    <3>2. b.start <= e.ts /\ e.ts < b.end /\ b.end = b.start + Size
      BY <2>1 DEF TakesSliding
    <3>3. \A f \in b.members : b.start <= f.ts /\ f.ts < b.end
      BY <1>0, <2>1 DEF TakesSliding, WithinWindows, AllBuckets
    <3>. QED  BY <3>1, <3>2, <3>3
  <2>5. WithinWindows'
    BY <1>0, <2>2, <2>4 DEF WithinWindows, AllBuckets
  <2>6. ASSUME Prompt' PROVE ReportedOver'
    <3>1. e.ts = now
      BY <2>2, <2>6 DEF Prompt
    <3>2. ASSUME NEW r \in results, NEW u \in updated PROVE ~SameWindow(r, u)
      <4>1. r.end <= now /\ r.end = r.start + Size
        BY <1>0, <2>6 DEF ReportedOver, AllBuckets
      <4>. QED  BY <1>0, <2>4, <3>1, <4>1 DEF SameWindow, AllBuckets
    <3>. QED  BY <1>0, <2>2, <2>6, <3>2 DEF ReportedOver, SameWindow
  <2>. QED  BY <2>5, <2>6
<1>2. CASE Flush
  <2>1. PICK expired \in SUBSET buckets : Retires(expired)
    BY <1>2, FlushStep DEF SlidingInv
  <2>2. /\ \A b \in expired : b.end <= now
        /\ buckets' = buckets \ expired
        /\ results' = results \cup {b \in expired : b.members # {}}
        /\ now' = now
    BY <2>1 DEF Retires, Expired
  <2>3. WithinWindows'
    BY <1>0, <2>2 DEF WithinWindows, AllBuckets
  <2>4. ASSUME Prompt' PROVE ReportedOver'
    <3>1. \A b, c \in buckets : SameWindow(b, c) => b = c
      BY <1>0 DEF WindowsUnique, SameWindow
    <3>2. ReportedOver
      BY <1>0, <2>4
    <3>3. \A r \in results' : r.end <= now'
      BY <2>2, <3>2 DEF ReportedOver
    <3>4. \A r \in results', b \in buckets' : ~SameWindow(r, b)
      BY <2>2, <3>1, <3>2 DEF ReportedOver
    <3>5. \A r, s \in results' : SameWindow(r, s) => r = s
      <4>1. \A r, s : SameWindow(r, s) => SameWindow(s, r)
        BY DEF SameWindow
      <4>. QED  BY <2>2, <3>1, <3>2, <4>1 DEF ReportedOver
    <3>. QED  BY <3>3, <3>4, <3>5 DEF ReportedOver, SameWindow
  <2>. QED  BY <2>3, <2>4
<1>3. CASE Tick
  <2>1. now' = now + 1 /\ buckets' = buckets /\ results' = results
    BY <1>3 DEF Tick
  <2>2. \A r \in results : r.end <= now => r.end <= now + 1
    BY <1>0 DEF AllBuckets
  <2>. QED  BY <1>0, <2>1, <2>2 DEF WithinWindows, ReportedOver, SameWindow, AllBuckets
<1>4. CASE WorldStart \/ UNCHANGED vars
  BY <1>0, <1>4 DEF WorldStart, vars, WithinWindows, ReportedOver, SameWindow, AllBuckets
<1>. QED  BY <1>1, <1>2, <1>3, <1>4 DEF Next

(* For every size and slide, a sliding window reports only events it       *)
(* contains, and as long as no event is late it is reported at most once.  *)
THEOREM SlidingWindowsExact == Spec => []SlidingReportedOnce
<1>1. Init => SlidingInv
  BY BaseInit DEF Init, SlidingInv, WithinWindows, ReportedOver, AllBuckets
<1>2. SlidingInv => SlidingReportedOnce
  BY DEF SlidingInv, SlidingReportedOnce, WithinWindows, ReportedOver, SameWindow, AllBuckets
<1>. QED  BY <1>1, <1>2, SlidingInvNext, PTL DEF Spec

----------------------------------------------------------------------------
(* Loops                                                                   *)
(* What a loop computes is the last value of a recursive function.  The    *)
(* states it goes through are shown to exist, and properties of them to    *)
(* hold to the last turn, from the least number at which they would fail.  *)

(* A set of naturals that is not empty has a least element.                *)
LEMMA LeastNatural ==
    ASSUME NEW T \in SUBSET Nat, T # {}
    PROVE  \E n \in T : \A m \in T : n <= m
<1>1. PICK n \in T : \A m \in T : ~(<<m, n>> \in OpToRel(<, Nat))
  BY WFMin, NatLessThanWellFounded
<1>2. \A m \in T : ~(m < n)
  BY <1>1 DEF OpToRel
<1>. QED  BY <1>2

(* A loop reaches its last turn: what holds before the first turn and goes *)
(* on to hold with each turn is the members of S.                          *)
LEMMA EveryTurn ==
    ASSUME NEW N \in Nat, NEW S, 0 \in S, \A n \in 0 .. N - 1 : n \in S => n + 1 \in S
    PROVE  \A n \in 0..N : n \in S
<1>. SUFFICES ASSUME NEW k \in 0..N, k \notin S PROVE FALSE
  OBVIOUS
<1>. DEFINE T == {n \in 0..N : n \notin S}
<1>1. T \in SUBSET Nat /\ T # {}
  OBVIOUS
<1>2. PICK n \in T : \A m \in T : n <= m
  BY <1>1, LeastNatural
<1>3. n # 0 /\ n \in 0..N
  OBVIOUS
<1>4. n - 1 \in 0 .. N - 1 /\ n - 1 \in 0..N /\ ~(n <= n - 1)
  BY <1>3
<1>5. n - 1 \in S
  BY <1>2, <1>4
<1>6. (n - 1) + 1 \in S
  BY <1>4, <1>5
<1>. QED  BY <1>3, <1>6

(* The states g of a loop of N turns, the n-th of which is F[n].           *)
LoopRuns(g, base, F, N) == g[0] = base /\ \A n \in 1..N : g[n] = F[n][g[n - 1]]

(* A loop has its states.                                                  *)
LEMMA LoopStates ==
    ASSUME NEW T, NEW N \in Nat, NEW base \in T, NEW F,
           \A n \in 1..N, x \in T : F[n][x] \in T
    PROVE  \E g \in [0..N -> T] : LoopRuns(g, base, F, N)
<1>. DEFINE Runs(g, m) == g[0] = base /\ \A n \in 1..m : g[n] = F[n][g[n - 1]]
            S == {m \in 0..N : \E g \in [0..m -> T] : Runs(g, m)}
<1>1. 0 \in S
  <2>1. PICK g : g = [n \in 0..0 |-> base]
    OBVIOUS
  <2>2. g \in [0..0 -> T] /\ Runs(g, 0)
    BY <2>1
  <2>. QED  BY <2>2
<1>2. ASSUME NEW m \in 0 .. N - 1, m \in S PROVE m + 1 \in S
  <2>1. PICK g \in [0..m -> T] : Runs(g, m)
    BY <1>2
  <2>2. PICK e : e = F[m + 1][g[m]]
    OBVIOUS
  <2>3. e \in T
    <3>1. m + 1 \in 1..N /\ m \in 0..m
      OBVIOUS
    <3>2. g[m] \in T
      BY <3>1
    <3>. QED  BY <2>2, <3>2
  <2>4. PICK h : h = [n \in 0 .. m + 1 |-> IF n = m + 1 THEN e ELSE g[n]]
    OBVIOUS
  <2>5. h \in [0 .. m + 1 -> T]
    BY <2>3, <2>4
  <2>6. h[0] = base
    BY <2>1, <2>4
  <2>7. ASSUME NEW n \in 1 .. m + 1 PROVE h[n] = F[n][h[n - 1]]
    <3>1. n - 1 \in 0 .. m + 1 /\ n - 1 # m + 1 /\ n \in 0 .. m + 1
      OBVIOUS
    <3>2. h[n - 1] = g[n - 1]
      BY <2>4, <3>1
    <3>3. CASE n = m + 1
      BY <2>2, <2>4, <3>1, <3>2, <3>3
    <3>4. CASE n # m + 1
      <4>1. n \in 1..m
        BY <3>4
      <4>2. g[n] = F[n][g[n - 1]]
        BY <2>1, <4>1
      <4>. QED  BY <2>4, <3>1, <3>2, <3>4, <4>2
    <3>. QED  BY <3>3, <3>4
  <2>8. Runs(h, m + 1)
    BY <2>6, <2>7
  <2>9. m + 1 \in 0..N
    OBVIOUS
  <2>. QED  BY <2>5, <2>8, <2>9
<1>3. N \in S
  <2>. HIDE DEF S
  <2>1. \A n \in 0..N : n \in S
    BY <1>1, <1>2, EveryTurn
  <2>. QED  BY <2>1
<1>. QED  BY <1>3 DEF LoopRuns

----------------------------------------------------------------------------
(* Operators on values                                                     *)
LEMMA SumUnfolds ==
    ASSUME NEW values \in Seq(Nat)
    PROVE  \E sum \in [0..Len(values) -> Nat] :
              /\ sum[0] = 0
              /\ \A n \in 1..Len(values) : sum[n] = sum[n - 1] + values[n]
              /\ SumOf(values) = sum[Len(values)]
<1>1. PICK N \in Nat : N = Len(values)
  BY LenProperties
<1>. DEFINE P(g) == g = [n \in 0..N |-> IF n = 0 THEN 0 ELSE g[n - 1] + values[n]]
<1>2. PICK F : F = [n \in 1..N |-> [x \in Nat |-> x + values[n]]]
  OBVIOUS
<1>3. \A n \in 1..N, x \in Nat : F[n][x] \in Nat
  <2>1. \A n \in 1..N : values[n] \in Nat
    BY <1>1, ElementOfSeq
  <2>. SUFFICES ASSUME NEW n \in 1..N, NEW x \in Nat PROVE F[n][x] \in Nat
    OBVIOUS
  <2>2. F[n][x] = x + values[n]
    BY <1>2
  <2>. QED  BY <2>1, <2>2
<1>4. PICK g \in [0..N -> Nat] : LoopRuns(g, 0, F, N)
  BY <1>3, LoopStates
<1>5. \A n \in 0..N : g[n] = IF n = 0 THEN 0 ELSE g[n - 1] + values[n]
  <2>. TAKE n \in 0..N
  <2>1. CASE n = 0
    BY <1>4, <2>1 DEF LoopRuns
  <2>2. CASE n # 0
    <3>1. n \in 1..N /\ n - 1 \in 0..N
      BY <2>2
    <3>2. g[n] = F[n][g[n - 1]] /\ g[n - 1] \in Nat
      BY <1>4, <3>1 DEF LoopRuns
    <3>. QED  BY <1>2, <2>2, <3>1, <3>2
  <2>. QED  BY <2>1, <2>2
<1>6. P(g)
  BY <1>4, <1>5
<1>7. PICK h : h = CHOOSE f : P(f)
  OBVIOUS
<1>8. P(h)
  BY <1>6, <1>7
<1>9. SumOf(values) = h[N]
  BY <1>1, <1>7 DEF SumOf
<1>10. h[0] = 0 /\ \A n \in 1..N : h[n] = h[n - 1] + values[n]
  <2>1. \A n \in 0..N : h[n] = IF n = 0 THEN 0 ELSE h[n - 1] + values[n]
    BY <1>8
  <2>2. \A n \in 1..N : n \in 0..N /\ n # 0
    OBVIOUS
  <2>. QED  BY <2>1, <2>2
<1>11. \A n \in 0..N : h[n] \in Nat
  <2>. DEFINE S == {n \in 0..N : h[n] \in Nat}
  <2>1. 0 \in S
    BY <1>10
  <2>2. ASSUME NEW n \in 0 .. N - 1, n \in S PROVE n + 1 \in S
    <3>1. n + 1 \in 1..N /\ n + 1 \in 0..N /\ (n + 1) - 1 = n
      OBVIOUS
    <3>2. values[n + 1] \in Nat /\ h[n] \in Nat
      BY <1>1, <2>2, <3>1, ElementOfSeq
    <3>3. h[n + 1] = h[n] + values[n + 1]
      BY <1>10, <3>1
    <3>. QED  BY <3>1, <3>2, <3>3
  <2>. HIDE DEF S
  <2>3. \A n \in 0..N : n \in S
    BY <2>1, <2>2, EveryTurn
  <2>. QED  BY <2>3 DEF S
<1>12. h = [n \in 0..N |-> h[n]]
  BY <1>8
<1>13. h \in [0..N -> Nat]
  BY <1>11, <1>12
<1>. QED  BY <1>1, <1>9, <1>10, <1>13

(* A value more is added to the sum.                                       *)
LEMMA SumAppended ==
    ASSUME NEW values \in Seq(Nat), NEW v \in Nat
    PROVE  SumOf(Append(values, v)) = SumOf(values) + v
<1>1. PICK N \in Nat : N = Len(values)
  BY LenProperties
<1>2. PICK longer : longer = Append(values, v)
  OBVIOUS
<1>3. longer \in Seq(Nat) /\ Len(longer) = N + 1 /\ longer[N + 1] = v
      /\ \A n \in 1..N : longer[n] = values[n]
  BY <1>1, <1>2, AppendProperties
<1>4. PICK g \in [0..N -> Nat] :
        /\ g[0] = 0
        /\ \A n \in 1..N : g[n] = g[n - 1] + values[n]
        /\ SumOf(values) = g[N]
  BY <1>1, SumUnfolds
<1>5. PICK h \in [0 .. N + 1 -> Nat] :
        /\ h[0] = 0
        /\ \A n \in 1 .. N + 1 : h[n] = h[n - 1] + longer[n]
        /\ SumOf(longer) = h[N + 1]
  BY <1>3, SumUnfolds
<1>. DEFINE S == {n \in 0..N : h[n] = g[n]}
<1>6. 0 \in S
  BY <1>4, <1>5
<1>7. ASSUME NEW n \in 0 .. N - 1, n \in S PROVE n + 1 \in S
  <2>1. n + 1 \in 1..N /\ n + 1 \in 1 .. N + 1 /\ n + 1 \in 0..N /\ (n + 1) - 1 = n
    OBVIOUS
  <2>2. h[n + 1] = h[n] + longer[n + 1] /\ g[n + 1] = g[n] + values[n + 1]
    BY <1>4, <1>5, <2>1
  <2>3. h[n] = g[n] /\ longer[n + 1] = values[n + 1]
    BY <1>3, <1>7, <2>1
  <2>. QED  BY <2>1, <2>2, <2>3
<1>8. h[N] = g[N]
  <2>. HIDE DEF S
  <2>1. \A n \in 0..N : n \in S
    BY <1>6, <1>7, EveryTurn
  <2>2. N \in 0..N
    OBVIOUS
  <2>. QED  BY <2>1, <2>2 DEF S
<1>9. h[N + 1] = h[N] + v
  <2>1. N + 1 \in 1 .. N + 1 /\ (N + 1) - 1 = N
    OBVIOUS
  <2>. QED  BY <1>3, <1>5, <2>1
<1>. QED  BY <1>2, <1>4, <1>5, <1>8, <1>9

LEMMA SumOfNone == SumOf(<<>>) = 0
<1>1. <<>> \in Seq(Nat) /\ Len(<<>>) = 0
  OBVIOUS
<1>. QED  BY <1>1, SumUnfolds

LEMMA Indices ==
    ASSUME NEW n \in Nat
    PROVE  /\ IsFiniteSet(1..n) /\ Cardinality(1..n) = n
           /\ IsFiniteSet(0..n) /\ Cardinality(0..n) = n + 1
<1>1. IsFiniteSet(1..n) /\ Cardinality(1..n) = IF 1 > n THEN 0 ELSE n - 1 + 1
  BY FS_Interval, 1 \in Int, n \in Int
<1>2. IsFiniteSet(0..n) /\ Cardinality(0..n) = IF 0 > n THEN 0 ELSE n - 0 + 1
  BY FS_Interval, 0 \in Int, n \in Int
<1>. QED  BY <1>1, <1>2

(* Sorting: each index of the sorted array is some element's, since the    *)
(* numbers of elements that go before two elements are never the same.     *)
LEMMA EveryPositionTaken ==
    ASSUME NEW values \in Seq(Nat), NEW k \in 0 .. Len(values) - 1
    PROVE  \E i \in DOMAIN values : Cardinality(Before(values, i)) = k
<1>1. PICK n \in Nat : n = Len(values) /\ DOMAIN values = 1..n
  BY LenProperties
<1>2. \A i \in 1..n : values[i] \in Nat
  BY <1>1, ElementOfSeq
<1>3. IsFiniteSet(1..n) /\ Cardinality(1..n) = n
  BY Indices
<1>4. ASSUME NEW i \in 1..n
      PROVE  /\ Before(values, i) \subseteq 1..n /\ i \notin Before(values, i)
             /\ IsFiniteSet(Before(values, i))
             /\ Cardinality(Before(values, i)) \in 0 .. n - 1
  <2>1. Before(values, i) \subseteq 1..n /\ i \notin Before(values, i)
    BY <1>1, <1>2 DEF Before
  <2>2. /\ IsFiniteSet(Before(values, i)) /\ Cardinality(Before(values, i)) <= n
        /\ Cardinality(Before(values, i)) # n
    BY <1>3, <2>1, FS_Subset
  <2>3. Cardinality(Before(values, i)) \in Nat
    BY <2>2, FS_CardinalityType
  <2>. QED  BY <2>1, <2>2, <2>3
<1>5. ASSUME NEW i \in 1..n, NEW j \in Before(values, i)
      PROVE  Cardinality(Before(values, j)) < Cardinality(Before(values, i))
  <2>1. j \in 1..n
    BY <1>4
  <2>2. Before(values, j) \subseteq Before(values, i)
    <3>. SUFFICES ASSUME NEW m \in Before(values, j) PROVE m \in Before(values, i)
      OBVIOUS
    <3>1. m \in 1..n
      BY <1>4, <2>1
    <3>2. values[m] \in Nat /\ values[j] \in Nat /\ values[i] \in Nat
      BY <1>2, <2>1, <3>1
    <3>. QED  BY <1>1, <2>1, <3>1, <3>2 DEF Before
  <2>3. Before(values, j) # Before(values, i)
    BY <1>4, <2>1
  <2>4. Cardinality(Before(values, j)) <= Cardinality(Before(values, i))
        /\ Cardinality(Before(values, j)) # Cardinality(Before(values, i))
    BY <1>4, <2>2, <2>3, FS_Subset
  <2>. QED  BY <1>4, <2>1, <2>4
<1>. SUFFICES ASSUME \A i \in 1..n : Cardinality(Before(values, i)) # k PROVE FALSE
  BY <1>1
<1>6. PICK R : R = [i \in 1..n |-> Cardinality(Before(values, i))]
  OBVIOUS
<1>7. R \in [1..n -> (0 .. n - 1) \ {k}]
  BY <1>4, <1>6
<1>8. IsFiniteSet((0 .. n - 1) \ {k}) /\ Cardinality((0 .. n - 1) \ {k}) < n
  <2>1. PICK top \in Nat : top = n - 1
    BY <1>1
  <2>2. IsFiniteSet(0..top) /\ Cardinality(0..top) = n /\ k \in 0..top
    <3>1. IsFiniteSet(0..top) /\ Cardinality(0..top) = top + 1
      BY Indices
    <3>2. top + 1 = n /\ k \in 0..top
      BY <1>1, <2>1
    <3>. QED  BY <3>1, <3>2
  <2>3. IsFiniteSet((0..top) \ {k}) /\ Cardinality((0..top) \ {k}) = n - 1
    BY <2>2, FS_RemoveElement
  <2>. QED  BY <2>1, <2>3
<1>9. PICK i \in 1..n, j \in 1..n : i # j /\ R[i] = R[j]
  BY <1>3, <1>7, <1>8, FS_PigeonHole
<1>10. j \in Before(values, i) \/ i \in Before(values, j)
  <2>1. values[j] \in Nat /\ values[i] \in Nat
    BY <1>2
  <2>. QED  BY <1>1, <1>9, <2>1 DEF Before
<1>11. Cardinality(Before(values, i)) = Cardinality(Before(values, j))
  BY <1>6, <1>9
<1>12. Cardinality(Before(values, i)) \in Nat
  BY <1>4
<1>. QED  BY <1>5, <1>10, <1>11, <1>12

NotAbove(values, v) == Cardinality({j \in DOMAIN values : values[j] <= v})
NotBelow(values, v) == Cardinality({j \in DOMAIN values : values[j] >= v})

(* The value at index k of the sorted array is one of the values; k + 1 of *)
(* them are not above it and all but k not below it.                       *)
LEMMA SortedAtIndex ==
    ASSUME NEW values \in Seq(Nat), NEW k \in 0 .. Len(values) - 1,
           NEW v, v = SortedAt(values, k)
    PROVE  /\ Contains(values, v) /\ v \in Nat
           /\ NotAbove(values, v) >= k + 1
           /\ NotBelow(values, v) >= Len(values) - k
<1>1. PICK n \in Nat : n = Len(values) /\ DOMAIN values = 1..n
  BY LenProperties
<1>2. PICK i \in 1..n : v = values[i] /\ Cardinality(Before(values, i)) = k
  BY <1>1, EveryPositionTaken DEF SortedAt
<1>3. \A j \in 1..n : values[j] \in Nat
  BY <1>1, ElementOfSeq
<1>4. IsFiniteSet(1..n) /\ Cardinality(1..n) = n
  BY Indices
<1>. DEFINE below == Before(values, i)
            most == {j \in 1..n : values[j] <= v}
            least == {j \in 1..n : values[j] >= v}
<1>5. IsFiniteSet(below) /\ below \subseteq 1..n /\ i \notin below
  <2>1. below \subseteq 1..n /\ i \notin below
    BY <1>1, <1>3 DEF Before
  <2>. QED  BY <1>4, <2>1, FS_Subset
<1>6. IsFiniteSet(most) /\ IsFiniteSet(least)
  <2>1. most \subseteq 1..n /\ least \subseteq 1..n
    OBVIOUS
  <2>. QED  BY <1>4, <2>1, FS_Subset
<1>7. Cardinality(most) \in Nat /\ Cardinality(least) \in Nat
  BY <1>6, FS_CardinalityType
<1>8. Cardinality(most) >= k + 1
  <2>1. below \cup {i} \subseteq most
    BY <1>1, <1>2, <1>3 DEF Before
  <2>2. Cardinality(below \cup {i}) = k + 1
    BY <1>2, <1>5, FS_AddElement
  <2>3. Cardinality(below \cup {i}) <= Cardinality(most)
    BY <1>6, <2>1, FS_Subset
  <2>. QED  BY <1>7, <2>2, <2>3
<1>9. Cardinality(least) >= n - k
  <2>1. 1..n = below \cup least
    BY <1>1, <1>2, <1>3, <1>5 DEF Before
  <2>2. Cardinality(1..n) = Cardinality(below) + Cardinality(least) - Cardinality(below \cap least)
    BY <1>5, <1>6, <2>1, FS_Union
  <2>3. below \cap least \subseteq below
    OBVIOUS
  <2>4. Cardinality(below \cap least) \in Nat
    BY <1>5, <2>3, FS_Subset, FS_CardinalityType
  <2>. QED  BY <1>2, <1>4, <1>7, <2>2, <2>4
<1>10. NotAbove(values, v) = Cardinality(most)
  BY <1>1 DEF NotAbove, NotBelow
<1>11. NotBelow(values, v) = Cardinality(least)
  BY <1>1 DEF NotAbove, NotBelow
<1>12. Contains(values, v) /\ v \in Nat
  BY <1>1, <1>2, <1>3 DEF Contains
<1>. QED  BY <1>1, <1>7, <1>8, <1>9, <1>10, <1>11, <1>12

----------------------------------------------------------------------------
(* The accumulators after one function, and after all of them              *)
LEMMA Numeric ==
    ASSUME NEW x
    PROVE  /\ NumericValue(x) \in Numbers \cup {0}
           /\ NumericValue(x) \in Nat /\ NumericValue(x) <= Infinity
<1>1. NumericValue(x) \in Numbers \cup {0}
  BY DEF NumericValue
<1>2. \A n \in Numbers \cup {0} : n \in Nat /\ n <= Infinity
  <2>1. Numbers \subseteq Nat /\ Infinity \in Nat /\ \A n \in Numbers : n < Infinity
    BY FunctionsAssumption
  <2>2. 0 <= Infinity
    BY <2>1
  <2>3. \A n \in Numbers : n \in Nat /\ n <= Infinity
    BY <2>1
  <2>. QED  BY <2>2, <2>3
<1>. QED  BY <1>1, <1>2

(* What one function changes.                                              *)
LEMMA ApplyOne ==
    ASSUME NEW b \in Accumulators, NEW f \in Func, NEW data,
           NEW v, v = NumericValue(data[f.field])
    PROVE  /\ Apply(b, f, data) \in Accumulators
           /\ Apply(b, f, data).count = b.count
           /\ Apply(b, f, data).sum =
                 IF f.type \in {"sum", "avg"} THEN b.sum + v ELSE b.sum
           /\ Apply(b, f, data).min =
                 IF "min" \in Feeds(f) THEN Least(b.min, v) ELSE b.min
           /\ Apply(b, f, data).max =
                 IF "max" \in Feeds(f) THEN Greatest(b.max, v) ELSE b.max
           /\ Apply(b, f, data).percentile_values =
                 IF f.type = "percentile" THEN Append(b.percentile_values, v)
                 ELSE b.percentile_values
           /\ Apply(b, f, data).distinct_values =
                 IF f.type = "distinct" /\ ~Contains(b.distinct_values, v)
                 THEN Append(b.distinct_values, v) ELSE b.distinct_values
<1>1. v \in Numbers \cup {0}
  BY Numeric
<1>2. /\ b.count \in Nat /\ b.sum \in Nat
      /\ b.min \in Numbers \cup {0, Infinity} /\ b.max \in Numbers \cup {0, -Infinity}
      /\ b.percentile_values \in Seq(Numbers \cup {0})
      /\ b.distinct_values \in Seq(Numbers \cup {0})
  BY DEF Accumulators
<1>3. f.type \in {"count", "sum", "avg", "min", "max", "percentile", "distinct"}
  BY FunctionsAssumption DEF Func
<1>4. /\ b.sum + v \in Nat
      /\ Least(b.min, v) \in Numbers \cup {0, Infinity}
      /\ Greatest(b.max, v) \in Numbers \cup {0, -Infinity}
  <2>1. b.sum + v \in Nat
    BY <1>1, <1>2, Numeric
  <2>2. Least(b.min, v) \in Numbers \cup {0, Infinity}
    BY <1>1, <1>2 DEF Least
  <2>3. Greatest(b.max, v) \in Numbers \cup {0, -Infinity}
    BY <1>1, <1>2 DEF Greatest
  <2>. QED  BY <2>1, <2>2, <2>3
<1>5. /\ Append(b.percentile_values, v) \in Seq(Numbers \cup {0})
      /\ Append(b.distinct_values, v) \in Seq(Numbers \cup {0})
  BY <1>1, <1>2, AppendProperties
<1>6. CASE f.type = "count"
  BY <1>6 DEF Apply, Feeds
<1>7. CASE f.type \in {"sum", "avg"}
  <2>1. Apply(b, f, data) =
          [b EXCEPT !.sum = @ + v, !.min = Least(@, v), !.max = Greatest(@, v)]
    BY <1>7 DEF Apply
  <2>2. "min" \in Feeds(f) /\ "max" \in Feeds(f) /\ f.type # "percentile" /\ f.type # "distinct"
    BY <1>7 DEF Feeds
  <2>. QED  BY <1>2, <1>4, <1>7, <2>1, <2>2 DEF Accumulators
<1>8. CASE f.type = "min"
  <2>1. Apply(b, f, data) = [b EXCEPT !.min = Least(@, v)]
    BY <1>8 DEF Apply
  <2>. QED  BY <1>2, <1>4, <1>8, <2>1 DEF Accumulators, Feeds
<1>9. CASE f.type = "max"
  <2>1. Apply(b, f, data) = [b EXCEPT !.max = Greatest(@, v)]
    BY <1>9 DEF Apply
  <2>. QED  BY <1>2, <1>4, <1>9, <2>1 DEF Accumulators, Feeds
<1>10. CASE f.type = "percentile"
  <2>1. Apply(b, f, data) = [b EXCEPT !.percentile_values = Append(@, v)]
    BY <1>10 DEF Apply
  <2>. QED  BY <1>2, <1>5, <1>10, <2>1 DEF Accumulators, Feeds
<1>11. CASE f.type = "distinct"
  <2>1. Apply(b, f, data) =
          [b EXCEPT !.distinct_values = IF Contains(@, v) THEN @ ELSE Append(@, v)]
    BY <1>11 DEF Apply
  <2>. QED  BY <1>2, <1>5, <1>11, <2>1 DEF Accumulators, Feeds
<1>. QED  BY <1>3, <1>6, <1>7, <1>8, <1>9, <1>10, <1>11

(* The states of the accumulators b while the functions fs are applied.    *)
Applies(h, b, fs, data) ==
    /\ h \in [0..Len(fs) -> Accumulators]
    /\ h[0] = [b EXCEPT !.count = @ + 1]
    /\ \A n \in 1..Len(fs) : h[n] = Apply(h[n - 1], fs[n], data)
    /\ Applied(b, fs, data) = h[Len(fs)]

LEMMA AppliedUnfolds ==
    ASSUME NEW b \in Accumulators, NEW fs \in Seq(Func), NEW data
    PROVE  \E h : Applies(h, b, fs, data)
<1>1. PICK N \in Nat : N = Len(fs)
  BY LenProperties
<1>2. PICK base \in Accumulators : base = [b EXCEPT !.count = @ + 1]
  <2>1. b.count + 1 \in Nat
    BY DEF Accumulators
  <2>2. [b EXCEPT !.count = @ + 1] \in Accumulators
    BY <2>1 DEF Accumulators
  <2>. QED  BY <2>2
<1>. DEFINE P(g) == g = [n \in 0..N |-> IF n = 0 THEN [b EXCEPT !.count = @ + 1]
                                       ELSE Apply(g[n - 1], fs[n], data)]
<1>3. PICK F : F = [n \in 1..N |-> [x \in Accumulators |-> Apply(x, fs[n], data)]]
  OBVIOUS
<1>4. \A n \in 1..N : fs[n] \in Func
  BY <1>1, ElementOfSeq
<1>5. \A n \in 1..N, x \in Accumulators :
         F[n][x] = Apply(x, fs[n], data) /\ F[n][x] \in Accumulators
  <2>. TAKE n \in 1..N, x \in Accumulators
  <2>1. F[n][x] = Apply(x, fs[n], data)
    BY <1>3
  <2>. QED  BY <1>4, <2>1, ApplyOne
<1>6. PICK g \in [0..N -> Accumulators] : LoopRuns(g, base, F, N)
  BY <1>5, LoopStates
<1>7. \A n \in 0..N : g[n] = IF n = 0 THEN [b EXCEPT !.count = @ + 1]
                              ELSE Apply(g[n - 1], fs[n], data)
  <2>. TAKE n \in 0..N
  <2>1. CASE n = 0
    BY <1>2, <1>6, <2>1 DEF LoopRuns
  <2>2. CASE n # 0
    <3>1. n \in 1..N /\ n - 1 \in 0..N
      BY <2>2
    <3>2. g[n] = F[n][g[n - 1]] /\ g[n - 1] \in Accumulators
      BY <1>6, <3>1 DEF LoopRuns
    <3>. QED  BY <1>5, <2>2, <3>1, <3>2
  <2>. QED  BY <2>1, <2>2
<1>8. P(g)
  BY <1>6, <1>7
<1>9. PICK h : h = CHOOSE f : P(f)
  OBVIOUS
<1>10. P(h)
  BY <1>8, <1>9
<1>11. Applied(b, fs, data) = h[N]
  BY <1>1, <1>9 DEF Applied
<1>12. h[0] = base /\ \A n \in 1..N : h[n] = Apply(h[n - 1], fs[n], data)
  <2>1. \A n \in 0..N : h[n] = IF n = 0 THEN [b EXCEPT !.count = @ + 1]
                                ELSE Apply(h[n - 1], fs[n], data)
    BY <1>10
  <2>2. \A n \in 1..N : n \in 0..N /\ n # 0
    OBVIOUS
  <2>. QED  BY <1>2, <2>1, <2>2
<1>13. \A n \in 0..N : h[n] \in Accumulators
  <2>. DEFINE S == {n \in 0..N : h[n] \in Accumulators}
  <2>1. 0 \in S
    BY <1>12
  <2>2. ASSUME NEW n \in 0 .. N - 1, n \in S PROVE n + 1 \in S
    <3>1. n + 1 \in 1..N /\ n + 1 \in 0..N /\ (n + 1) - 1 = n
      OBVIOUS
    <3>2. h[n + 1] = Apply(h[n], fs[n + 1], data)
      BY <1>12, <3>1
    <3>3. h[n + 1] \in Accumulators
      BY <1>4, <2>2, <3>1, <3>2, ApplyOne
    <3>. QED  BY <3>1, <3>3
  <2>. HIDE DEF S
  <2>3. \A n \in 0..N : n \in S
    BY <2>1, <2>2, EveryTurn
  <2>. QED  BY <2>3 DEF S
<1>14. h = [n \in 0..N |-> h[n]]
  BY <1>10
<1>15. h \in [0..N -> Accumulators]
  BY <1>13, <1>14
<1>. QED  BY <1>1, <1>2, <1>11, <1>12, <1>15 DEF Applies

(* One turn of the loop over the functions.                                *)
LEMMA AppliesTurn ==
    ASSUME NEW b \in Accumulators, NEW fs \in Seq(Func), NEW data, NEW h,
           Applies(h, b, fs, data), NEW n \in 0 .. Len(fs) - 1
    PROVE  /\ n + 1 \in 0..Len(fs) /\ n + 1 \in 1..Len(fs)
           /\ h[n] \in Accumulators /\ fs[n + 1] \in Func
           /\ h[n + 1] = Apply(h[n], fs[n + 1], data)
<1>1. Len(fs) \in Nat
  BY LenProperties
<1>2. n + 1 \in 0..Len(fs) /\ n + 1 \in 1..Len(fs) /\ n \in 0..Len(fs) /\ (n + 1) - 1 = n
  BY <1>1
<1>3. fs[n + 1] \in Func
  BY <1>2, ElementOfSeq
<1>. QED  BY <1>2, <1>3 DEF Applies

(* The event is counted once.                                              *)
LEMMA AppliedCounts ==
    ASSUME NEW b \in Accumulators, NEW fs \in Seq(Func), NEW data
    PROVE  /\ Applied(b, fs, data) \in Accumulators
           /\ Applied(b, fs, data).count = b.count + 1
<1>1. PICK N \in Nat : N = Len(fs)
  BY LenProperties
<1>2. PICK h : Applies(h, b, fs, data)
  BY AppliedUnfolds
<1>. DEFINE S == {n \in 0..N : h[n].count = b.count + 1}
<1>3. 0 \in S
  BY <1>2 DEF Applies, Accumulators
<1>4. ASSUME NEW n \in 0 .. N - 1, n \in S PROVE n + 1 \in S
  <2>1. /\ n + 1 \in 0..N /\ h[n] \in Accumulators /\ fs[n + 1] \in Func
        /\ h[n + 1] = Apply(h[n], fs[n + 1], data)
    BY <1>1, <1>2, AppliesTurn
  <2>2. h[n + 1].count = h[n].count
    BY <2>1, ApplyOne
  <2>. QED  BY <1>4, <2>1, <2>2
<1>5. N \in S
  <2>. HIDE DEF S
  <2>1. \A n \in 0..N : n \in S
    BY <1>3, <1>4, EveryTurn
  <2>2. N \in 0..N
    OBVIOUS
  <2>. QED  BY <2>1, <2>2
<1>. QED  BY <1>1, <1>2, <1>5 DEF Applies

(* One function that adds to the sum adds its value once.                  *)
LEMMA AppliedAdds ==
    ASSUME NEW b \in Accumulators, NEW fs \in Seq(Func), NEW data,
           NEW i \in 1..Len(fs), fs[i].type \in {"sum", "avg"},
           \A j \in (1..Len(fs)) \ {i} : fs[j].type \notin {"sum", "avg"},
           NEW v, v = NumericValue(data[fs[i].field])
    PROVE  Applied(b, fs, data).sum = b.sum + v
<1>1. PICK N \in Nat : N = Len(fs)
  BY LenProperties
<1>2. PICK h : Applies(h, b, fs, data)
  BY AppliedUnfolds
<1>3. b.sum \in Nat /\ v \in Nat
  BY Numeric DEF Accumulators
<1>. DEFINE S == {n \in 0..N : h[n].sum = IF i <= n THEN b.sum + v ELSE b.sum}
<1>4. 0 \in S
  <2>1. ~(i <= 0)
    BY <1>1
  <2>. QED  BY <1>2, <2>1 DEF Applies, Accumulators
<1>5. ASSUME NEW n \in 0 .. N - 1, n \in S PROVE n + 1 \in S
  <2>1. /\ n + 1 \in 0..N /\ n + 1 \in 1..N /\ h[n] \in Accumulators /\ fs[n + 1] \in Func
        /\ h[n + 1] = Apply(h[n], fs[n + 1], data)
    BY <1>1, <1>2, AppliesTurn
  <2>2. h[n + 1].sum = IF fs[n + 1].type \in {"sum", "avg"}
                       THEN h[n].sum + NumericValue(data[fs[n + 1].field]) ELSE h[n].sum
    BY <2>1, ApplyOne
  <2>3. CASE i = n + 1
    <3>1. h[n + 1].sum = h[n].sum + v
      BY <2>2, <2>3
    <3>2. ~(i <= n) /\ i <= n + 1
      BY <2>3
    <3>. QED  BY <1>5, <2>1, <3>1, <3>2
  <2>4. CASE i # n + 1
    <3>1. h[n + 1].sum = h[n].sum
      BY <1>1, <2>1, <2>2, <2>4
    <3>2. i <= n <=> i <= n + 1
      BY <1>1, <2>4
    <3>. QED  BY <1>5, <2>1, <3>1, <3>2
  <2>. QED  BY <2>3, <2>4
<1>6. N \in S
  <2>. HIDE DEF S
  <2>1. \A n \in 0..N : n \in S
    BY <1>4, <1>5, EveryTurn
  <2>2. N \in 0..N
    OBVIOUS
  <2>. QED  BY <2>1, <2>2
<1>7. i <= N
  BY <1>1
<1>. QED  BY <1>1, <1>2, <1>6, <1>7 DEF Applies

(* Functions on one field take one value into the smallest, however many.  *)
LEMMA AppliedLeast ==
    ASSUME NEW b \in Accumulators, NEW fs \in Seq(Func), NEW data,
           NEW i \in 1..Len(fs), "min" \in Feeds(fs[i]),
           \A j \in 1..Len(fs) : "min" \in Feeds(fs[j]) => fs[j].field = fs[i].field,
           NEW v, v = NumericValue(data[fs[i].field])
    PROVE  Applied(b, fs, data).min = Least(b.min, v)
<1>1. PICK N \in Nat : N = Len(fs)
  BY LenProperties
<1>2. PICK h : Applies(h, b, fs, data)
  BY AppliedUnfolds
<1>3. PICK a, m : a = b.min /\ m = Least(a, v)
  OBVIOUS
<1>4. Least(m, v) = m
  BY <1>3 DEF Least
<1>. DEFINE S == {n \in 0..N : h[n].min \in {a, m} /\ (i <= n => h[n].min = m)}
<1>5. 0 \in S
  <2>1. ~(i <= 0)
    BY <1>1
  <2>. QED  BY <1>2, <1>3, <2>1 DEF Applies, Accumulators
<1>6. ASSUME NEW n \in 0 .. N - 1, n \in S PROVE n + 1 \in S
  <2>1. /\ n + 1 \in 0..N /\ n + 1 \in 1..N /\ h[n] \in Accumulators /\ fs[n + 1] \in Func
        /\ h[n + 1] = Apply(h[n], fs[n + 1], data)
    BY <1>1, <1>2, AppliesTurn
  <2>2. h[n + 1].min = IF "min" \in Feeds(fs[n + 1])
                       THEN Least(h[n].min, NumericValue(data[fs[n + 1].field])) ELSE h[n].min
    BY <2>1, ApplyOne
  <2>3. CASE "min" \in Feeds(fs[n + 1])
    <3>1. fs[n + 1].field = fs[i].field
      BY <1>1, <2>1, <2>3
    <3>2. h[n + 1].min = Least(h[n].min, v)
      BY <2>2, <2>3, <3>1
    <3>3. h[n + 1].min = m
      BY <1>3, <1>4, <1>6, <3>2
    <3>. QED  BY <2>1, <3>3
  <2>4. CASE "min" \notin Feeds(fs[n + 1])
    <3>1. i # n + 1 /\ h[n + 1].min = h[n].min
      BY <2>2, <2>4
    <3>2. i <= n <=> i <= n + 1
      BY <1>1, <3>1
    <3>. QED  BY <1>6, <2>1, <3>1, <3>2
  <2>. QED  BY <2>3, <2>4
<1>7. N \in S
  <2>. HIDE DEF S
  <2>1. \A n \in 0..N : n \in S
    BY <1>5, <1>6, EveryTurn
  <2>2. N \in 0..N
    OBVIOUS
  <2>. QED  BY <2>1, <2>2
<1>8. i <= N
  BY <1>1
<1>. QED  BY <1>1, <1>2, <1>3, <1>7, <1>8 DEF Applies

(* Functions on one field take one value into the largest, however many.   *)
LEMMA AppliedGreatest ==
    ASSUME NEW b \in Accumulators, NEW fs \in Seq(Func), NEW data,
           NEW i \in 1..Len(fs), "max" \in Feeds(fs[i]),
           \A j \in 1..Len(fs) : "max" \in Feeds(fs[j]) => fs[j].field = fs[i].field,
           NEW v, v = NumericValue(data[fs[i].field])
    PROVE  Applied(b, fs, data).max = Greatest(b.max, v)
<1>1. PICK N \in Nat : N = Len(fs)
  BY LenProperties
<1>2. PICK h : Applies(h, b, fs, data)
  BY AppliedUnfolds
<1>3. PICK a, m : a = b.max /\ m = Greatest(a, v)
  OBVIOUS
<1>4. Greatest(m, v) = m
  BY <1>3 DEF Greatest
<1>. DEFINE S == {n \in 0..N : h[n].max \in {a, m} /\ (i <= n => h[n].max = m)}
<1>5. 0 \in S
  <2>1. ~(i <= 0)
    BY <1>1
  <2>. QED  BY <1>2, <1>3, <2>1 DEF Applies, Accumulators
<1>6. ASSUME NEW n \in 0 .. N - 1, n \in S PROVE n + 1 \in S
  <2>1. /\ n + 1 \in 0..N /\ n + 1 \in 1..N /\ h[n] \in Accumulators /\ fs[n + 1] \in Func
        /\ h[n + 1] = Apply(h[n], fs[n + 1], data)
    BY <1>1, <1>2, AppliesTurn
  <2>2. h[n + 1].max = IF "max" \in Feeds(fs[n + 1])
                       THEN Greatest(h[n].max, NumericValue(data[fs[n + 1].field])) ELSE h[n].max
    BY <2>1, ApplyOne
  <2>3. CASE "max" \in Feeds(fs[n + 1])
    <3>1. fs[n + 1].field = fs[i].field
      BY <1>1, <2>1, <2>3
    <3>2. h[n + 1].max = Greatest(h[n].max, v)
      BY <2>2, <2>3, <3>1
    <3>3. h[n + 1].max = m
      BY <1>3, <1>4, <1>6, <3>2
    <3>. QED  BY <2>1, <3>3
  <2>4. CASE "max" \notin Feeds(fs[n + 1])
    <3>1. i # n + 1 /\ h[n + 1].max = h[n].max
      BY <2>2, <2>4
    <3>2. i <= n <=> i <= n + 1
      BY <1>1, <3>1
    <3>. QED  BY <1>6, <2>1, <3>1, <3>2
  <2>. QED  BY <2>3, <2>4
<1>7. N \in S
  <2>. HIDE DEF S
  <2>1. \A n \in 0..N : n \in S
    BY <1>5, <1>6, EveryTurn
  <2>2. N \in 0..N
    OBVIOUS
  <2>. QED  BY <2>1, <2>2
<1>8. i <= N
  BY <1>1
<1>. QED  BY <1>1, <1>2, <1>3, <1>7, <1>8 DEF Applies

(* Functions on one field add one value to the distinct ones, if it is new. *)
LEMMA AppliedDistinct ==
    ASSUME NEW b \in Accumulators, NEW fs \in Seq(Func), NEW data,
           NEW i \in 1..Len(fs), fs[i].type = "distinct",
           \A j \in 1..Len(fs) : fs[j].type = "distinct" => fs[j].field = fs[i].field,
           NEW v, v = NumericValue(data[fs[i].field])
    PROVE  Applied(b, fs, data).distinct_values =
             IF Contains(b.distinct_values, v) THEN b.distinct_values
             ELSE Append(b.distinct_values, v)
<1>1. PICK N \in Nat : N = Len(fs)
  BY LenProperties
<1>2. PICK h : Applies(h, b, fs, data)
  BY AppliedUnfolds
<1>3. PICK a : a = b.distinct_values
  OBVIOUS
<1>4. PICK m : m = IF Contains(a, v) THEN a ELSE Append(a, v)
  OBVIOUS
<1>5. Contains(m, v)
  <2>1. a \in Seq(Numbers \cup {0}) /\ v \in Numbers \cup {0} /\ Len(a) \in Nat
    BY <1>3, Numeric, LenProperties DEF Accumulators
  <2>2. CASE Contains(a, v)
    BY <1>4, <2>2
  <2>3. CASE ~Contains(a, v)
    <3>1. m = Append(a, v)
      BY <1>4, <2>3
    <3>2. Len(m) = Len(a) + 1 /\ m[Len(a) + 1] = v
      BY <2>1, <3>1, AppendProperties
    <3>3. Len(a) + 1 \in 1..Len(m)
      BY <2>1, <3>2
    <3>. QED  BY <3>2, <3>3 DEF Contains
  <2>. QED  BY <2>2, <2>3
<1>. DEFINE S == {n \in 0..N : /\ h[n].distinct_values \in {a, m}
                               /\ i <= n => h[n].distinct_values = m}
<1>6. 0 \in S
  <2>1. ~(i <= 0)
    BY <1>1
  <2>. QED  BY <1>2, <1>3, <2>1 DEF Applies, Accumulators
<1>7. ASSUME NEW n \in 0 .. N - 1, n \in S PROVE n + 1 \in S
  <2>1. /\ n + 1 \in 0..N /\ n + 1 \in 1..N /\ h[n] \in Accumulators /\ fs[n + 1] \in Func
        /\ h[n + 1] = Apply(h[n], fs[n + 1], data)
    BY <1>1, <1>2, AppliesTurn
  <2>2. PICK w : w = NumericValue(data[fs[n + 1].field])
    OBVIOUS
  <2>3. h[n + 1].distinct_values =
           IF fs[n + 1].type = "distinct" /\ ~Contains(h[n].distinct_values, w)
           THEN Append(h[n].distinct_values, w) ELSE h[n].distinct_values
    BY <2>1, <2>2, ApplyOne
  <2>4. CASE fs[n + 1].type = "distinct"
    <3>1. fs[n + 1].field = fs[i].field
      BY <1>1, <2>1, <2>4
    <3>2. w = v
      BY <2>2, <3>1
    <3>3. h[n + 1].distinct_values = m
      BY <1>4, <1>5, <1>7, <2>3, <2>4, <3>2
    <3>. QED  BY <2>1, <3>3
  <2>5. CASE fs[n + 1].type # "distinct"
    <3>1. i # n + 1 /\ h[n + 1].distinct_values = h[n].distinct_values
      BY <2>3, <2>5
    <3>2. i <= n <=> i <= n + 1
      BY <1>1, <3>1
    <3>. QED  BY <1>7, <2>1, <3>1, <3>2
  <2>. QED  BY <2>4, <2>5
<1>8. N \in S
  <2>. HIDE DEF S
  <2>1. \A n \in 0..N : n \in S
    BY <1>6, <1>7, EveryTurn
  <2>2. N \in 0..N
    OBVIOUS
  <2>. QED  BY <2>1, <2>2
<1>9. i <= N
  BY <1>1
<1>. QED  BY <1>1, <1>2, <1>3, <1>4, <1>8, <1>9 DEF Applies

----------------------------------------------------------------------------
(* Counting occurrences                                                    *)
Occurrences(values, X) == Cardinality({t \in DOMAIN values : values[t] \in X})

LEMMA OccursAppended ==
    ASSUME NEW T, NEW values \in Seq(T), NEW v \in T, NEW X
    PROVE  /\ Occurrences(values, X) \in Nat
           /\ Occurrences(Append(values, v), X) =
                 Occurrences(values, X) + (IF v \in X THEN 1 ELSE 0)
<1>1. PICK n \in Nat : n = Len(values) /\ DOMAIN values = 1..n
  BY LenProperties
<1>2. PICK longer : longer = Append(values, v)
  OBVIOUS
<1>3. /\ DOMAIN longer = 1 .. n + 1 /\ longer[n + 1] = v
      /\ \A t \in 1..n : longer[t] = values[t]
  BY <1>1, <1>2, AppendProperties, LenProperties
<1>. DEFINE old == {t \in 1..n : values[t] \in X}
            new == {t \in 1 .. n + 1 : longer[t] \in X}
<1>4. IsFiniteSet(old) /\ Cardinality(old) \in Nat
  <2>1. old \subseteq 1..n
    OBVIOUS
  <2>. QED  BY <2>1, Indices, FS_Subset, FS_CardinalityType
<1>5. CASE v \in X
  <2>1. new = old \cup {n + 1} /\ n + 1 \notin old
    BY <1>3, <1>5
  <2>2. Cardinality(new) = Cardinality(old) + 1
    BY <1>4, <2>1, FS_AddElement
  <2>. QED  BY <1>1, <1>2, <1>3, <1>4, <1>5, <2>2 DEF Occurrences
<1>6. CASE v \notin X
  <2>1. new = old
    BY <1>3, <1>6
  <2>2. Cardinality(new) = Cardinality(old) + 0
    <3>. HIDE DEF old, new
    <3>. QED  BY <1>4, <2>1
  <2>. QED  BY <1>1, <1>2, <1>3, <1>4, <1>6, <2>2 DEF Occurrences
<1>. QED  BY <1>5, <1>6

LEMMA OccursNever ==
    ASSUME NEW X
    PROVE  Occurrences(<<>>, X) = 0
<1>1. {t \in DOMAIN <<>> : <<>>[t] \in X} = {}
  OBVIOUS
<1>. QED  BY <1>1, FS_EmptySet DEF Occurrences

(* Every value occurs.                                                     *)
LEMMA OccursAlways ==
    ASSUME NEW T, NEW values \in Seq(T)
    PROVE  Occurrences(values, T) = Len(values)
<1>1. PICK n \in Nat : n = Len(values) /\ DOMAIN values = 1..n
  BY LenProperties
<1>2. \A t \in 1..n : values[t] \in T
  BY <1>1, ElementOfSeq
<1>3. {t \in DOMAIN values : values[t] \in T} = 1..n
  BY <1>1, <1>2
<1>. QED  BY <1>1, <1>3, Indices DEF Occurrences

LEMMA OccursIfContained ==
    ASSUME NEW T, NEW values \in Seq(T), NEW v
    PROVE  Contains(values, v) <=> Occurrences(values, {v}) # 0
<1>1. PICK n \in Nat : n = Len(values) /\ DOMAIN values = 1..n
  BY LenProperties
<1>. DEFINE at == {t \in DOMAIN values : values[t] \in {v}}
<1>2. IsFiniteSet(at)
  <2>1. at \subseteq 1..n
    BY <1>1
  <2>. QED  BY <2>1, Indices, FS_Subset
<1>3. Cardinality(at) # 0 <=> at # {}
  BY <1>2, FS_EmptySet
<1>4. Contains(values, v) <=> at # {}
  BY <1>1 DEF Contains
<1>. QED  BY <1>3, <1>4 DEF Occurrences

(* The percentile functions among the first n.                             *)
Percentiles(fs, n) == Cardinality({j \in 1..n : fs[j].type = "percentile"})

LEMMA PercentilesCounted ==
    ASSUME NEW fs, NEW n \in Nat
    PROVE  /\ Percentiles(fs, n) \in Nat /\ Percentiles(fs, 0) = 0
           /\ Percentiles(fs, n + 1) = Percentiles(fs, n)
                 + (IF fs[n + 1].type = "percentile" THEN 1 ELSE 0)
           /\ \A i \in 1..n : fs[i].type = "percentile" => Percentiles(fs, n) # 0
<1>. DEFINE old == {j \in 1..n : fs[j].type = "percentile"}
            new == {j \in 1 .. n + 1 : fs[j].type = "percentile"}
<1>1. IsFiniteSet(old) /\ Cardinality(old) \in Nat
  <2>1. old \subseteq 1..n
    OBVIOUS
  <2>. QED  BY <2>1, Indices, FS_Subset, FS_CardinalityType
<1>2. {j \in 1..0 : fs[j].type = "percentile"} = {}
  OBVIOUS
<1>3. Cardinality(new) = Cardinality(old) + (IF fs[n + 1].type = "percentile" THEN 1 ELSE 0)
  <2>1. CASE fs[n + 1].type = "percentile"
    <3>1. new = old \cup {n + 1} /\ n + 1 \notin old
      BY <2>1
    <3>. QED  BY <1>1, <2>1, <3>1, FS_AddElement
  <2>2. CASE fs[n + 1].type # "percentile"
    <3>1. new = old
      BY <2>2
    <3>2. Cardinality(new) = Cardinality(old) + 0
      <4>. HIDE DEF old, new
      <4>. QED  BY <1>1, <3>1
    <3>. QED  BY <2>2, <3>2
  <2>. QED  BY <2>1, <2>2
<1>4. \A i \in 1..n : fs[i].type = "percentile" => Cardinality(old) # 0
  BY <1>1, FS_EmptySet
<1>. QED  BY <1>1, <1>2, <1>3, <1>4, FS_EmptySet DEF Percentiles

(* The array of c is that of b with n times v more.                        *)
Gains(c, b, v, n) ==
    \A X : /\ v \in X => Occurrences(c.percentile_values, X) =
                           Occurrences(b.percentile_values, X) + n
           /\ v \notin X => Occurrences(c.percentile_values, X) =
                              Occurrences(b.percentile_values, X)

(* Percentiles of one field each put its value into the array.             *)
LEMMA AppliedPercentiles ==
    ASSUME NEW b \in Accumulators, NEW fs \in Seq(Func), NEW data,
           NEW i \in 1..Len(fs), fs[i].type = "percentile",
           \A j \in 1..Len(fs) : fs[j].type = "percentile" => fs[j].field = fs[i].field,
           NEW v, v = NumericValue(data[fs[i].field])
    PROVE  Gains(Applied(b, fs, data), b, v, Percentiles(fs, Len(fs)))
<1>. SUFFICES ASSUME NEW X
              PROVE  /\ v \in X => Occurrences(Applied(b, fs, data).percentile_values, X) =
                           Occurrences(b.percentile_values, X) + Percentiles(fs, Len(fs))
                     /\ v \notin X => Occurrences(Applied(b, fs, data).percentile_values, X) =
                              Occurrences(b.percentile_values, X)
  BY DEF Gains
<1>1. PICK N \in Nat : N = Len(fs)
  BY LenProperties
<1>2. PICK h : Applies(h, b, fs, data)
  BY AppliedUnfolds
<1>3. PICK c : c = Occurrences(b.percentile_values, X)
  OBVIOUS
<1>4. ASSUME NEW x \in Accumulators, NEW w \in Numbers \cup {0}
      PROVE  /\ Occurrences(x.percentile_values, X) \in Nat
             /\ Occurrences(Append(x.percentile_values, w), X) =
                   Occurrences(x.percentile_values, X) + (IF w \in X THEN 1 ELSE 0)
  <2>1. PICK D : D = Numbers \cup {0}
    OBVIOUS
  <2>2. x.percentile_values \in Seq(D) /\ w \in D
    BY <2>1 DEF Accumulators
  <2>. QED  BY <2>2, OccursAppended
<1>5. v \in Numbers \cup {0} /\ c \in Nat
  BY <1>3, <1>4, Numeric
<1>. DEFINE Gained(n) == IF v \in X THEN Percentiles(fs, n) ELSE 0
            S == {n \in 0..N : Occurrences(h[n].percentile_values, X) = c + Gained(n)}
<1>6. 0 \in S
  <2>1. Gained(0) = 0
    BY PercentilesCounted
  <2>2. h[0].percentile_values = b.percentile_values
    BY <1>2 DEF Applies, Accumulators
  <2>. QED  BY <1>3, <1>5, <2>1, <2>2
<1>7. ASSUME NEW n \in 0 .. N - 1, n \in S PROVE n + 1 \in S
  <2>1. /\ n + 1 \in 0..N /\ n + 1 \in 1..N /\ h[n] \in Accumulators /\ fs[n + 1] \in Func
        /\ h[n + 1] = Apply(h[n], fs[n + 1], data)
    BY <1>1, <1>2, AppliesTurn
  <2>2. PICK w : w = NumericValue(data[fs[n + 1].field])
    OBVIOUS
  <2>3. h[n + 1].percentile_values =
           IF fs[n + 1].type = "percentile" THEN Append(h[n].percentile_values, w)
           ELSE h[n].percentile_values
    BY <2>1, <2>2, ApplyOne
  <2>4. /\ Percentiles(fs, n) \in Nat
        /\ Percentiles(fs, n + 1) = Percentiles(fs, n)
              + (IF fs[n + 1].type = "percentile" THEN 1 ELSE 0)
    <3>1. n \in Nat
      OBVIOUS
    <3>. QED  BY <3>1, PercentilesCounted
  <2>5. Occurrences(h[n].percentile_values, X) = c + Gained(n)
    BY <1>7
  <2>6. CASE fs[n + 1].type = "percentile"
    <3>1. w = v
      BY <1>1, <2>1, <2>2, <2>6
    <3>2. Occurrences(h[n + 1].percentile_values, X) =
            Occurrences(h[n].percentile_values, X) + (IF v \in X THEN 1 ELSE 0)
      BY <1>4, <1>5, <2>1, <2>3, <2>6, <3>1
    <3>3. Gained(n + 1) = Gained(n) + (IF v \in X THEN 1 ELSE 0) /\ Gained(n) \in Nat
      BY <2>4, <2>6
    <3>4. Occurrences(h[n + 1].percentile_values, X) = c + Gained(n + 1)
      <4>. HIDE DEF Gained
      <4>. QED  BY <1>5, <2>5, <3>2, <3>3
    <3>. QED  BY <2>1, <3>4
  <2>7. CASE fs[n + 1].type # "percentile"
    <3>1. h[n + 1].percentile_values = h[n].percentile_values
      BY <2>3, <2>7
    <3>2. Gained(n + 1) = Gained(n)
      BY <2>4, <2>7
    <3>. QED  BY <2>1, <2>5, <3>1, <3>2
  <2>. QED  BY <2>6, <2>7
<1>8. N \in S
  <2>. HIDE DEF S
  <2>1. \A n \in 0..N : n \in S
    BY <1>6, <1>7, EveryTurn
  <2>2. N \in 0..N
    OBVIOUS
  <2>. QED  BY <2>1, <2>2
<1>9. Occurrences(Applied(b, fs, data).percentile_values, X) = c + Gained(N)
  BY <1>1, <1>2, <1>8 DEF Applies
<1>. QED  BY <1>1, <1>3, <1>5, <1>9

(* An index that truncates p hundredths of m * n values is that of a       *)
(* quantile of the n of them that differ.                                  *)
LEMMA Quantile ==
    ASSUME NEW m \in Nat \ {0}, NEW n \in Nat \ {0}, NEW p \in 0..100,
           NEW size, size = m * n, NEW idx, idx = (p * size) \div 100,
           NEW k, k = IF idx >= size THEN size - 1 ELSE idx,
           NEW a \in Nat, m * a >= k + 1, NEW b \in Nat, m * b >= size - k
    PROVE  100 * a >= p * n /\ 100 * b >= (100 - p) * n
<1>1. size \in Nat
  OBVIOUS
<1>2. PICK c \in Nat : c = p * size
  BY <1>1
<1>3. idx \in Nat /\ 100 * idx <= c /\ c < 100 * idx + 100
  BY <1>2
<1>4. ASSUME NEW x \in Int, NEW y \in Int, m * x >= m * y PROVE x >= y
  BY <1>4
<1>5. c = m * (p * n) /\ 100 * size - c = m * ((100 - p) * n)
  BY <1>2
<1>6. CASE idx < size
  <2>1. k = idx
    BY <1>1, <1>3, <1>6
  <2>2. m * (100 * a) >= 100 * idx + 100
    BY <1>3, <2>1
  <2>3. m * (100 * b) >= 100 * size - 100 * idx
    BY <1>1, <1>3, <2>1
  <2>4. m * (100 * a) >= m * (p * n)
    BY <1>3, <1>5, <2>2
  <2>5. m * (100 * b) >= m * ((100 - p) * n)
    BY <1>1, <1>3, <1>5, <2>3
  <2>. QED  BY <1>4, <2>4, <2>5
<1>7. CASE idx >= size
  <2>1. p = 100
    BY <1>1, <1>2, <1>3, <1>7
  <2>2. k = size - 1
    BY <1>7
  <2>3. m * a >= m * n
    BY <1>1, <2>2
  <2>4. a >= n
    BY <1>4, <2>3
  <2>. QED  BY <2>1, <2>4
<1>. QED  BY <1>1, <1>3, <1>6, <1>7

----------------------------------------------------------------------------
(* What a function that is not disturbed finds in the accumulators         *)
LeftAlone(fs, i) ==
    \A j \in DOMAIN fs \ {i} :
        (fs[i].type # "count" /\ Reads(fs[i]) \in Feeds(fs[j])) =>
            /\ fs[j].field = fs[i].field
            /\ Reads(fs[i]) # "sum"

NoRepeats(values) == \A i, j \in DOMAIN values : i # j => values[i] # values[j]

(* The accumulators b of a query with m percentiles hold, for function f,  *)
(* what it is to make of the values.                                       *)
Holds(f, m, b, values) ==
    /\ f.type \in {"sum", "avg"} => b.sum = SumOf(values)
    /\ f.type = "min" => /\ \A e \in DOMAIN values : b.min <= values[e]
                         /\ (values = <<>> /\ b.min = Infinity) \/ Contains(values, b.min)
    /\ f.type = "max" => /\ \A e \in DOMAIN values : b.max >= values[e]
                         /\ (values = <<>> /\ b.max = -Infinity) \/ Contains(values, b.max)
    /\ f.type = "percentile" =>
          \A X \in SUBSET Nat :
             Occurrences(b.percentile_values, X) = m * Occurrences(values, X)
    /\ f.type = "distinct" => /\ NoRepeats(b.distinct_values)
                              /\ \A x : Contains(b.distinct_values, x) <=> Contains(values, x)

LEMMA HoldsAtFirst ==
    ASSUME NEW f, NEW m \in Nat
    PROVE  Holds(f, m, Empty, <<>>)
<1>1. DOMAIN <<>> = {} /\ ~\E x : Contains(<<>>, x)
  BY DEF Contains
<1>2. \A X : Occurrences(<<>>, X) = 0
  BY OccursNever
<1>. QED  BY <1>1, <1>2, SumOfNone DEF Holds, Empty, NoRepeats

(* Containing one value more.                                              *)
LEMMA ContainsAppended ==
    ASSUME NEW T, NEW values \in Seq(T), NEW v \in T
    PROVE  /\ \A x : Contains(Append(values, v), x) <=> Contains(values, x) \/ x = v
           /\ DOMAIN Append(values, v) = (DOMAIN values) \cup {Len(values) + 1}
           /\ Len(values) + 1 \notin DOMAIN values
           /\ Append(values, v)[Len(values) + 1] = v
           /\ \A e \in DOMAIN values : Append(values, v)[e] = values[e]
<1>1. PICK n \in Nat : n = Len(values) /\ DOMAIN values = 1..n
  BY LenProperties
<1>2. PICK longer : longer = Append(values, v)
  OBVIOUS
<1>3. /\ Len(longer) = n + 1 /\ DOMAIN longer = 1 .. n + 1 /\ longer[n + 1] = v
      /\ \A t \in 1..n : longer[t] = values[t]
  BY <1>1, <1>2, AppendProperties, LenProperties
<1>4. 1 .. n + 1 = (1..n) \cup {n + 1} /\ n + 1 \notin 1..n
  OBVIOUS
<1>5. \A x : Contains(longer, x) <=> Contains(values, x) \/ x = v
  BY <1>1, <1>3, <1>4 DEF Contains
<1>. QED  BY <1>1, <1>2, <1>3, <1>4, <1>5

LEMMA HoldsNext ==
    ASSUME NEW b \in Accumulators, NEW fs \in Seq(Func), NEW data,
           NEW i \in 1..Len(fs), LeftAlone(fs, i), fs[i].type # "count",
           NEW v, v = NumericValue(data[fs[i].field]),
           NEW values \in Seq(Numbers \cup {0}),
           NEW m \in Nat, m = Percentiles(fs, Len(fs)), Holds(fs[i], m, b, values)
    PROVE  Holds(fs[i], m, Applied(b, fs, data), Append(values, v))
<1>1. v \in Numbers \cup {0} /\ v \in Nat /\ v <= Infinity /\ Infinity \in Nat
  BY Numeric, FunctionsAssumption
<1>2. \A x \in Numbers \cup {0} : x \in Nat
  BY FunctionsAssumption
<1>3. values \in Seq(Nat)
  BY <1>2, SeqDef
<1>4. PICK c : c = Applied(b, fs, data)
  OBVIOUS
<1>5. PICK longer : longer = Append(values, v)
  OBVIOUS
<1>6. /\ \A x : Contains(longer, x) <=> Contains(values, x) \/ x = v
      /\ DOMAIN longer = (DOMAIN values) \cup {Len(values) + 1}
      /\ longer[Len(values) + 1] = v
      /\ \A e \in DOMAIN values : longer[e] = values[e] /\ values[e] \in Nat
  <2>1. PICK D : D = Numbers \cup {0}
    OBVIOUS
  <2>2. values \in Seq(D) /\ v \in D
    BY <1>1, <2>1
  <2>3. /\ \A x : Contains(longer, x) <=> Contains(values, x) \/ x = v
        /\ DOMAIN longer = (DOMAIN values) \cup {Len(values) + 1}
        /\ longer[Len(values) + 1] = v
        /\ \A e \in DOMAIN values : longer[e] = values[e]
    BY <1>5, <2>2, ContainsAppended
  <2>4. \A e \in DOMAIN values : values[e] \in Nat
    BY <1>3, ElementOfSeq, LenProperties
  <2>. QED  BY <2>3, <2>4
<1>7. DOMAIN fs = 1..Len(fs) /\ \A j \in 1..Len(fs) : fs[j] \in Func
  BY LenProperties, ElementOfSeq
<1>8. CASE fs[i].type \in {"sum", "avg"}
  <2>1. \A j \in (1..Len(fs)) \ {i} : fs[j].type \notin {"sum", "avg"}
    BY <1>7, <1>8 DEF LeftAlone, Reads, Feeds
  <2>2. c.sum = b.sum + v
    BY <1>4, <1>8, <2>1, AppliedAdds
  <2>3. SumOf(longer) = SumOf(values) + v
    BY <1>1, <1>3, <1>5, SumAppended
  <2>. QED  BY <1>4, <1>5, <1>8, <2>2, <2>3 DEF Holds
<1>9. CASE fs[i].type = "min"
  <2>1. "min" \in Feeds(fs[i])
        /\ \A j \in 1..Len(fs) : "min" \in Feeds(fs[j]) => fs[j].field = fs[i].field
    BY <1>7, <1>9 DEF LeftAlone, Reads, Feeds
  <2>2. c.min = Least(b.min, v)
    BY <1>4, <2>1, AppliedLeast
  <2>3. b.min \in Nat
    BY <1>1, <1>2 DEF Accumulators
  <2>4. /\ \A e \in DOMAIN values : b.min <= values[e]
        /\ (values = <<>> /\ b.min = Infinity) \/ Contains(values, b.min)
    BY <1>9 DEF Holds
  <2>5. c.min <= v /\ c.min <= b.min /\ c.min \in Nat
    BY <1>1, <2>2, <2>3 DEF Least
  <2>6. \A e \in DOMAIN longer : c.min <= longer[e]
    <3>1. \A e \in DOMAIN values : c.min <= longer[e]
      BY <1>6, <2>3, <2>4, <2>5
    <3>. QED  BY <1>6, <2>5, <3>1
  <2>7. Contains(longer, c.min)
    BY <1>1, <1>6, <2>2, <2>3, <2>4 DEF Least
  <2>. QED  BY <1>4, <1>5, <1>9, <2>6, <2>7 DEF Holds
<1>10. CASE fs[i].type = "max"
  <2>1. "max" \in Feeds(fs[i])
        /\ \A j \in 1..Len(fs) : "max" \in Feeds(fs[j]) => fs[j].field = fs[i].field
    BY <1>7, <1>10 DEF LeftAlone, Reads, Feeds
  <2>2. c.max = Greatest(b.max, v)
    BY <1>4, <2>1, AppliedGreatest
  <2>3. b.max \in Int
    <3>1. b.max \in Numbers \cup {0} \/ b.max = -Infinity
      BY DEF Accumulators
    <3>2. -Infinity \in Int
      BY <1>1
    <3>. QED  BY <1>2, <3>1, <3>2
  <2>4. /\ \A e \in DOMAIN values : b.max >= values[e]
        /\ (values = <<>> /\ b.max = -Infinity) \/ Contains(values, b.max)
    BY <1>10 DEF Holds
  <2>5. c.max >= v /\ c.max >= b.max /\ c.max \in Int
    BY <1>1, <2>2, <2>3 DEF Greatest
  <2>6. \A e \in DOMAIN longer : c.max >= longer[e]
    <3>1. \A e \in DOMAIN values : c.max >= longer[e]
      BY <1>6, <2>3, <2>4, <2>5
    <3>. QED  BY <1>6, <2>5, <3>1
  <2>7. Contains(longer, c.max)
    BY <1>1, <1>6, <2>2, <2>3, <2>4 DEF Greatest
  <2>. QED  BY <1>4, <1>5, <1>10, <2>6, <2>7 DEF Holds
<1>11. CASE fs[i].type = "percentile"
  <2>1. \A j \in 1..Len(fs) : fs[j].type = "percentile" => fs[j].field = fs[i].field
    BY <1>7, <1>11 DEF LeftAlone, Reads, Feeds
  <2>2. Gains(c, b, v, m)
    BY <1>4, <1>11, <2>1, AppliedPercentiles
  <2>3. ASSUME NEW X \in SUBSET Nat
        PROVE  Occurrences(c.percentile_values, X) = m * Occurrences(longer, X)
    <3>1. /\ v \in X => Occurrences(c.percentile_values, X) =
                            Occurrences(b.percentile_values, X) + m
          /\ v \notin X => Occurrences(c.percentile_values, X) =
                               Occurrences(b.percentile_values, X)
      BY <2>2 DEF Gains
    <3>2. Occurrences(b.percentile_values, X) = m * Occurrences(values, X)
      BY <1>11 DEF Holds
    <3>3. /\ Occurrences(values, X) \in Nat
          /\ Occurrences(longer, X) = Occurrences(values, X) + (IF v \in X THEN 1 ELSE 0)
      <4>1. PICK D : D = Numbers \cup {0}
        OBVIOUS
      <4>2. values \in Seq(D) /\ v \in D
        BY <1>1, <4>1
      <4>. QED  BY <1>5, <4>2, OccursAppended
    <3>4. PICK o \in Nat : o = Occurrences(values, X)
      BY <3>3
    <3>5. CASE v \in X
      <4>1. Occurrences(longer, X) = o + 1 /\ Occurrences(c.percentile_values, X) = m * o + m
        BY <3>1, <3>2, <3>3, <3>4, <3>5
      <4>2. m * (o + 1) = m * o + m
        OBVIOUS
      <4>. QED  BY <4>1, <4>2
    <3>6. CASE v \notin X
      <4>1. Occurrences(longer, X) = o + 0 /\ Occurrences(c.percentile_values, X) = m * o
        BY <3>1, <3>2, <3>3, <3>4, <3>6
      <4>. QED  BY <4>1
    <3>. QED  BY <3>5, <3>6
  <2>. QED  BY <1>4, <1>5, <1>11, <2>3 DEF Holds
<1>12. CASE fs[i].type = "distinct"
  <2>1. \A j \in 1..Len(fs) : fs[j].type = "distinct" => fs[j].field = fs[i].field
    BY <1>7, <1>12 DEF LeftAlone, Reads, Feeds
  <2>2. PICK old \in Seq(Numbers \cup {0}) : old = b.distinct_values
    BY DEF Accumulators
  <2>3. c.distinct_values = IF Contains(old, v) THEN old ELSE Append(old, v)
    BY <1>4, <1>12, <2>1, <2>2, AppliedDistinct
  <2>4. NoRepeats(old) /\ \A x : Contains(old, x) <=> Contains(values, x)
    BY <1>12, <2>2 DEF Holds
  <2>5. CASE Contains(old, v)
    <3>1. \A x : Contains(old, x) <=> Contains(longer, x)
      BY <1>6, <2>4, <2>5
    <3>. QED  BY <1>4, <1>5, <1>12, <2>3, <2>4, <2>5, <3>1 DEF Holds
  <2>6. CASE ~Contains(old, v)
    <3>1. PICK more : more = Append(old, v)
      OBVIOUS
    <3>2. /\ \A x : Contains(more, x) <=> Contains(old, x) \/ x = v
          /\ DOMAIN more = (DOMAIN old) \cup {Len(old) + 1}
          /\ more[Len(old) + 1] = v
          /\ \A e \in DOMAIN old : more[e] = old[e]
      <4>1. PICK D : D = Numbers \cup {0}
        OBVIOUS
      <4>2. old \in Seq(D) /\ v \in D
        BY <1>1, <4>1
      <4>. QED  BY <3>1, <4>2, ContainsAppended
    <3>3. \A e \in DOMAIN old : old[e] # v
      BY <2>6, LenProperties DEF Contains
    <3>4. NoRepeats(more)
      BY <2>4, <3>2, <3>3 DEF NoRepeats
    <3>5. \A x : Contains(more, x) <=> Contains(longer, x)
      BY <1>6, <2>4, <3>2
    <3>. QED  BY <1>4, <1>5, <1>12, <2>3, <2>6, <3>1, <3>4, <3>5 DEF Holds
  <2>. QED  BY <2>5, <2>6
<1>13. fs[i].type \in {"count", "sum", "avg", "min", "max", "percentile", "distinct"}
  BY <1>7, FunctionsAssumption DEF Func
<1>. QED  BY <1>8, <1>9, <1>10, <1>11, <1>12, <1>13

(* Percentiles read off an array that has every value m times.             *)
LEMMA PercentileRead ==
    ASSUME NEW array \in Seq(Nat), NEW values \in Seq(Nat), Len(values) # 0,
           NEW m \in Nat \ {0},
           \A X \in SUBSET Nat : Occurrences(array, X) = m * Occurrences(values, X),
           NEW p \in 0..100, NEW v, v = Percentile(array, p)
    PROVE  /\ Contains(values, v)
           /\ 100 * NotAbove(values, v) >= p * Len(values)
           /\ 100 * NotBelow(values, v) >= (100 - p) * Len(values)
<1>1. PICK n \in Nat \ {0} : n = Len(values) /\ DOMAIN values = 1..n
  BY LenProperties
<1>2. PICK size : size = Len(array) /\ size \in Nat /\ DOMAIN array = 1..size
  BY LenProperties
<1>3. size = m * n /\ size > 0
  <2>1. Occurrences(array, Nat) = size /\ Occurrences(values, Nat) = n
    BY <1>1, <1>2, OccursAlways
  <2>2. size = m * n
    BY <2>1
  <2>. QED  BY <2>2
<1>4. PICK idx : idx = (p * size) \div 100
  OBVIOUS
<1>5. PICK k : k = IF idx >= size THEN size - 1 ELSE idx
  OBVIOUS
<1>6. k \in 0 .. size - 1
  <2>1. p * size \in Nat
    BY <1>2
  <2>2. idx \in Nat
    BY <1>4, <2>1
  <2>. QED  BY <1>2, <1>3, <1>5, <2>2
<1>7. v = SortedAt(array, k)
  BY <1>2, <1>4, <1>5 DEF Percentile
<1>8. /\ Contains(array, v) /\ v \in Nat
      /\ NotAbove(array, v) >= k + 1
      /\ NotBelow(array, v) >= size - k
  <2>1. k \in 0 .. Len(array) - 1
    BY <1>2, <1>6
  <2>2. /\ Contains(array, v) /\ v \in Nat
        /\ NotAbove(array, v) >= k + 1
        /\ NotBelow(array, v) >= Len(array) - k
    BY <1>7, <2>1, SortedAtIndex
  <2>. QED  BY <1>2, <2>2
<1>. DEFINE AtMost == {x \in Nat : x <= v}
            AtLeast == {x \in Nat : x >= v}
<1>9. /\ NotAbove(array, v) = Occurrences(array, AtMost)
      /\ NotBelow(array, v) = Occurrences(array, AtLeast)
  <2>1. \A t \in DOMAIN array : array[t] \in Nat
    BY <1>2, ElementOfSeq
  <2>2. {t \in DOMAIN array : array[t] <= v} = {t \in DOMAIN array : array[t] \in AtMost}
    BY <2>1
  <2>3. {t \in DOMAIN array : array[t] >= v} = {t \in DOMAIN array : array[t] \in AtLeast}
    BY <2>1
  <2>. QED  BY <2>2, <2>3 DEF NotAbove, NotBelow, Occurrences
<1>10. /\ NotAbove(values, v) = Occurrences(values, AtMost)
       /\ NotBelow(values, v) = Occurrences(values, AtLeast)
  <2>1. \A t \in DOMAIN values : values[t] \in Nat
    BY <1>1, ElementOfSeq
  <2>2. {t \in DOMAIN values : values[t] <= v} = {t \in DOMAIN values : values[t] \in AtMost}
    BY <2>1
  <2>3. {t \in DOMAIN values : values[t] >= v} = {t \in DOMAIN values : values[t] \in AtLeast}
    BY <2>1
  <2>. QED  BY <2>2, <2>3 DEF NotAbove, NotBelow, Occurrences
<1>11. PICK most \in SUBSET Nat, least \in SUBSET Nat : most = AtMost /\ least = AtLeast
  OBVIOUS
<1>. HIDE DEF AtMost, AtLeast
<1>12. Occurrences(array, most) = m * Occurrences(values, most)
       /\ Occurrences(array, least) = m * Occurrences(values, least)
  OBVIOUS
<1>13. PICK a \in Nat, b \in Nat :
          a = Occurrences(values, most) /\ b = Occurrences(values, least)
  <2>. PICK D : D = Nat
    OBVIOUS
  <2>1. values \in Seq(D) /\ 0 \in D
    OBVIOUS
  <2>2. Occurrences(values, most) \in Nat /\ Occurrences(values, least) \in Nat
    BY <2>1, OccursAppended
  <2>. QED  BY <2>2
<1>14. m * a >= k + 1 /\ m * b >= size - k
  BY <1>8, <1>9, <1>11, <1>12, <1>13
<1>15. 100 * a >= p * n /\ 100 * b >= (100 - p) * n
  <2>1. m * a >= k + 1 /\ m * b >= size - k /\ size = m * n
    BY <1>3, <1>14
  <2>. QED  BY ONLY <1>4, <1>5, <2>1, Quantile, p \in 0..100, m \in Nat \ {0}, a \in Nat,
                    b \in Nat, n \in Nat \ {0}, Zenon
<1>16. Contains(values, v)
  <2>1. Occurrences(array, {v}) # 0
    BY <1>8, OccursIfContained
  <2>2. {v} \in SUBSET Nat
    BY <1>8
  <2>3. Occurrences(array, {v}) = m * Occurrences(values, {v})
    BY <2>2
  <2>4. Occurrences(values, {v}) # 0
    BY <2>1, <2>3
  <2>. QED  BY <2>4, OccursIfContained
<1>. QED  BY <1>1, <1>10, <1>11, <1>13, <1>15, <1>16

(* Distinct values without repeats are counted by the length of their list. *)
LEMMA DistinctRead ==
    ASSUME NEW T, NEW distinct \in Seq(T), NoRepeats(distinct),
           NEW values \in Seq(T),
           \A x : Contains(distinct, x) <=> Contains(values, x)
    PROVE  Len(distinct) = Cardinality(ToSet(values))
<1>1. PICK n \in Nat : n = Len(distinct) /\ DOMAIN distinct = 1..n
  BY LenProperties
<1>2. DOMAIN values = 1..Len(values)
  BY LenProperties
<1>3. ToSet(values) = {distinct[i] : i \in 1..n}
  <2>1. \A x : x \in ToSet(values) <=> Contains(values, x)
    BY <1>2 DEF ToSet, Contains
  <2>2. \A x : x \in {distinct[i] : i \in 1..n} <=> Contains(distinct, x)
    BY <1>1 DEF Contains
  <2>. QED  BY <2>1, <2>2
<1>4. PICK S : S = ToSet(values)
  OBVIOUS
<1>5. distinct \in Bijection(1..n, S)
  <2>1. distinct \in [1..n -> S]
    <3>1. \A i \in 1..n : distinct[i] \in S
      BY <1>3, <1>4
    <3>2. distinct = [i \in 1..n |-> distinct[i]]
      BY <1>1
    <3>. QED  BY <3>1, <3>2
  <2>2. \A i, j \in 1..n : distinct[i] = distinct[j] => i = j
    BY <1>1 DEF NoRepeats
  <2>3. \A x \in S : \E i \in 1..n : distinct[i] = x
    BY <1>3, <1>4
  <2>. QED  BY <2>1, <2>2, <2>3 DEF Bijection, Injection, Surjection, IsInjective
<1>6. ExistsBijection(1..n, S)
  BY <1>5 DEF ExistsBijection
<1>7. Cardinality(S) = n
  BY <1>6, FS_CountingElements
<1>. QED  BY <1>1, <1>4, <1>7

----------------------------------------------------------------------------
(* The invariant of a bucket's accumulators                                *)
ValuesOf(f, events) ==
    [i \in DOMAIN events |-> IF f.type = "count" THEN 0
                             ELSE NumericValue(events[i][f.field])]

LEMMA ValuesTyped ==
    ASSUME NEW f, NEW events \in Seq(EventData)
    PROVE  /\ ValuesOf(f, events) \in Seq(Numbers \cup {0})
           /\ Len(ValuesOf(f, events)) = Len(events)
<1>1. PICK n \in Nat : n = Len(events) /\ DOMAIN events = 1..n
  BY LenProperties
<1>2. PICK D : D = Numbers \cup {0}
  OBVIOUS
<1>3. \A i \in 1..n : (IF f.type = "count" THEN 0 ELSE NumericValue(events[i][f.field])) \in D
  BY <1>2, Numeric
<1>4. PICK values : values = ValuesOf(f, events)
  OBVIOUS
<1>5. values \in [1..n -> D]
  BY <1>1, <1>3, <1>4 DEF ValuesOf
<1>6. values \in Seq(D)
  BY <1>5, SeqDef
<1>7. Len(values) = n
  BY <1>5, <1>6, LenProperties
<1>. QED  BY <1>1, <1>2, <1>4, <1>6, <1>7

LEMMA ValuesAppended ==
    ASSUME NEW f, f.type # "count", NEW events \in Seq(EventData), NEW data \in EventData
    PROVE  ValuesOf(f, Append(events, data)) =
              Append(ValuesOf(f, events), NumericValue(data[f.field]))
<1>1. PICK n \in Nat : n = Len(events) /\ DOMAIN events = 1..n
  BY LenProperties
<1>2. PICK more \in Seq(EventData) : more = Append(events, data)
  BY AppendProperties
<1>3. /\ DOMAIN more = 1 .. n + 1 /\ more[n + 1] = data
      /\ \A i \in 1..n : more[i] = events[i]
  BY <1>1, <1>2, AppendProperties, LenProperties
<1>4. PICK v : v = NumericValue(data[f.field])
  OBVIOUS
<1>5. PICK D : D = Numbers \cup {0}
  OBVIOUS
<1>6. PICK values : values = ValuesOf(f, events)
  OBVIOUS
<1>7. values \in Seq(D) /\ Len(values) = n /\ v \in D
  BY <1>1, <1>4, <1>5, <1>6, ValuesTyped, Numeric
<1>8. PICK longer : longer = Append(values, v)
  OBVIOUS
<1>9. /\ longer \in Seq(D) /\ Len(longer) = n + 1 /\ longer[n + 1] = v
      /\ \A i \in 1..n : longer[i] = values[i]
  BY <1>7, <1>8, AppendProperties
<1>10. longer = [i \in 1 .. n + 1 |-> longer[i]]
  BY <1>9, LenProperties
<1>11. \A i \in 1..n : values[i] = NumericValue(events[i][f.field])
  BY <1>1, <1>6 DEF ValuesOf
<1>12. \A i \in 1 .. n + 1 : longer[i] = NumericValue(more[i][f.field])
  <2>. TAKE i \in 1 .. n + 1
  <2>1. CASE i = n + 1
    BY <1>3, <1>4, <1>9, <2>1
  <2>2. CASE i # n + 1
    <3>1. i \in 1..n
      BY <2>2
    <3>. QED  BY <1>3, <1>9, <1>11, <3>1
  <2>. QED  BY <2>1, <2>2
<1>13. ValuesOf(f, more) = [i \in 1 .. n + 1 |-> NumericValue(more[i][f.field])]
  BY <1>3 DEF ValuesOf
<1>14. ValuesOf(f, more) = longer
  BY <1>10, <1>12, <1>13
<1>. QED  BY <1>2, <1>4, <1>6, <1>8, <1>14

BucketInv ==
    /\ BucketTypeOK
    /\ \A i \in DOMAIN funcs :
          LeftAlone(funcs, i) =>
             Holds(funcs[i], Percentiles(funcs, Len(funcs)), bucket, ValuesOf(funcs[i], seen))

LEMMA BucketEmpty ==
    ASSUME NEW fs \in Seq(Func)
    PROVE  /\ Empty \in Accumulators /\ Empty.count = Len(<<>>) /\ <<>> \in Seq(EventData)
           /\ \A i \in DOMAIN fs :
                 Holds(fs[i], Percentiles(fs, Len(fs)), Empty, ValuesOf(fs[i], <<>>))
<1>1. Empty \in Accumulators
  BY EmptySeq DEF Empty, Accumulators
<1>2. Empty.count = Len(<<>>) /\ <<>> \in Seq(EventData)
  BY EmptySeq DEF Empty
<1>3. \A f : ValuesOf(f, <<>>) = <<>>
  BY EmptySeq, ValuesTyped
<1>4. Percentiles(fs, Len(fs)) \in Nat
  BY LenProperties, PercentilesCounted
<1>5. \A f : Holds(f, Percentiles(fs, Len(fs)), Empty, <<>>)
  BY <1>4, HoldsAtFirst
<1>. QED  BY <1>1, <1>2, <1>3, <1>5

LEMMA BucketInvInit == BucketInit => BucketInv
<1>. SUFFICES ASSUME BucketInit PROVE BucketInv
  OBVIOUS
<1>1. funcs \in Seq(Func) /\ bucket = Empty /\ seen = <<>>
  <2>1. funcs \in BoundedSeq(Func, MaxFunctions) /\ bucket = Empty /\ seen = <<>>
    BY DEF BucketInit
  <2>2. PICK n \in 0..MaxFunctions : funcs \in [1..n -> Func]
    BY <2>1 DEF BoundedSeq, SeqOf
  <2>3. n \in Nat
    BY FunctionsAssumption
  <2>4. funcs \in Seq(Func)
    BY <2>2, <2>3, SeqDef
  <2>. QED  BY <2>1, <2>4
<1>. QED  BY <1>1, BucketEmpty DEF BucketInv, BucketTypeOK

LEMMA BucketInvUpdate ==
    ASSUME BucketInv, NEW data \in EventData, Update(data)
    PROVE  BucketInv'
<1>1. PICK fs \in Seq(Func), b \in Accumulators, events \in Seq(EventData) :
         fs = funcs /\ b = bucket /\ events = seen
  BY DEF BucketInv, BucketTypeOK
<1>2. PICK c, more : c = Applied(b, fs, data) /\ more = Append(events, data)
  OBVIOUS
<1>3. funcs' = fs /\ bucket' = c /\ seen' = more
  BY <1>1, <1>2 DEF Update
<1>4. PICK m \in Nat : m = Percentiles(fs, Len(fs))
  BY LenProperties, PercentilesCounted
<1>5. /\ b.count = Len(events)
      /\ \A i \in DOMAIN fs : LeftAlone(fs, i) => Holds(fs[i], m, b, ValuesOf(fs[i], events))
  BY <1>1, <1>4 DEF BucketInv, BucketTypeOK
<1>6. c \in Accumulators /\ c.count = b.count + 1
  BY <1>2, AppliedCounts
<1>7. more \in Seq(EventData) /\ Len(more) = Len(events) + 1
  BY <1>2, AppendProperties
<1>8. ASSUME NEW i \in DOMAIN fs, LeftAlone(fs, i)
      PROVE  Holds(fs[i], m, c, ValuesOf(fs[i], more))
  <2>1. i \in 1..Len(fs)
    BY LenProperties
  <2>2. CASE fs[i].type = "count"
    BY <2>2 DEF Holds
  <2>3. CASE fs[i].type # "count"
    <3>1. PICK v : v = NumericValue(data[fs[i].field])
      OBVIOUS
    <3>2. PICK values : values = ValuesOf(fs[i], events)
      OBVIOUS
    <3>3. values \in Seq(Numbers \cup {0})
      BY <3>2, ValuesTyped
    <3>4. ValuesOf(fs[i], more) = Append(values, v)
      BY <1>2, <2>3, <3>1, <3>2, ValuesAppended
    <3>5. Holds(fs[i], m, b, values)
      BY <1>5, <1>8, <3>2
    <3>6. Holds(fs[i], m, c, Append(values, v))
      BY <1>2, <1>4, <1>8, <2>1, <2>3, <3>1, <3>3, <3>5, HoldsNext
    <3>. QED  BY <3>4, <3>6
  <2>. QED  BY <2>2, <2>3
<1>. QED  BY <1>3, <1>4, <1>5, <1>6, <1>7, <1>8 DEF BucketInv, BucketTypeOK

LEMMA BucketInvNext == BucketInv /\ [BucketNext]_bucketVars => BucketInv'
<1>. SUFFICES ASSUME BucketInv, [BucketNext]_bucketVars PROVE BucketInv'
  OBVIOUS
<1>1. CASE \E data \in EventData : Update(data)
  BY <1>1, BucketInvUpdate
<1>2. CASE Reset
  <2>1. PICK fs \in Seq(Func) : fs = funcs
    BY DEF BucketInv, BucketTypeOK
  <2>2. funcs' = fs /\ bucket' = Empty /\ seen' = <<>>
    BY <1>2, <2>1 DEF Reset
  <2>. QED  BY <2>2, BucketEmpty DEF BucketInv, BucketTypeOK
<1>3. CASE UNCHANGED bucketVars
  <2>1. funcs' = funcs /\ bucket' = bucket /\ seen' = seen
    BY <1>3 DEF bucketVars
  <2>. QED  BY <2>1 DEF BucketInv, BucketTypeOK
<1>. QED  BY <1>1, <1>2, <1>3 DEF BucketNext

(* What an undisturbed function finds is its metric.                       *)
LEMMA MetricExact ==
    ASSUME BucketInv, seen # <<>>, NEW i \in DOMAIN funcs, Undisturbed(i)
    PROVE  IsMetric(funcs[i], Metric(funcs[i]), Given(funcs[i]))
<1>1. PICK fs \in Seq(Func), b \in Accumulators, events \in Seq(EventData) :
         fs = funcs /\ b = bucket /\ events = seen
  BY DEF BucketInv, BucketTypeOK
<1>2. PICK f \in Func : f = funcs[i]
  BY <1>1, ElementOfSeq, LenProperties
<1>3. PICK values \in Seq(Numbers \cup {0}) : values = Given(f)
  BY <1>1, ValuesTyped DEF Given, ValuesOf
<1>4. Len(values) = Len(events) /\ Len(values) # 0 /\ Len(values) \in Nat
  <2>1. Len(values) = Len(events)
    BY <1>1, <1>3, ValuesTyped DEF Given, ValuesOf
  <2>. QED  BY <1>1, <2>1, EmptySeq, LenProperties
<1>5. PICK m \in Nat : m = Percentiles(fs, Len(fs))
  BY LenProperties, PercentilesCounted
<1>6. Holds(f, m, b, values)
  <2>1. LeftAlone(fs, i)
    BY <1>1 DEF Undisturbed, LeftAlone
  <2>. QED  BY <1>1, <1>2, <1>3, <1>5, <2>1 DEF BucketInv, Given, ValuesOf
<1>7. b.count = Len(events) /\ b.sum \in Nat
  BY <1>1 DEF BucketInv, BucketTypeOK, Accumulators
<1>8. f.type \in {"count", "sum", "avg", "min", "max", "percentile", "distinct"}
  BY FunctionsAssumption DEF Func
<1>9. \A x \in Numbers \cup {0} : x \in Nat
  BY FunctionsAssumption
<1>10. \A e \in DOMAIN values : values[e] \in Nat
  BY <1>9, ElementOfSeq, LenProperties
<1>11. DOMAIN values # {} /\ values # <<>>
  <2>1. DOMAIN values = 1..Len(values)
    BY LenProperties
  <2>2. 1 \in 1..Len(values)
    BY <1>4
  <2>3. Len(<<>>) = 0
    BY EmptySeq
  <2>. QED  BY <1>4, <2>1, <2>2, <2>3
<1>. SUFFICES IsMetric(f, Metric(f), values)
  BY <1>2, <1>3
<1>12. CASE f.type = "count"
  BY <1>1, <1>7, <1>12 DEF IsMetric, Metric
<1>13. CASE f.type = "sum"
  BY <1>1, <1>6, <1>13 DEF IsMetric, Metric, Holds
<1>14. CASE f.type = "avg"
  <2>1. Metric(f) = <<b.sum, b.count>> /\ b.sum = SumOf(values)
    BY <1>1, <1>6, <1>14 DEF Metric, Holds
  <2>. QED  BY <1>4, <1>7, <1>14, <2>1 DEF IsMetric
<1>15. CASE f.type = "min"
  <2>1. Metric(f)[1] = b.min
    BY <1>1, <1>15 DEF Metric
  <2>2. Contains(values, b.min) /\ \A e \in DOMAIN values : b.min <= values[e]
    BY <1>6, <1>11, <1>15 DEF Holds
  <2>3. b.min \in Nat
    BY <1>10, <2>2, LenProperties DEF Contains
  <2>4. {e \in DOMAIN values : values[e] < b.min} = {}
    BY <1>10, <2>2, <2>3
  <2>5. HowMany(values, LAMBDA x : x < b.min) = 0
    BY <2>4, FS_EmptySet DEF HowMany
  <2>. QED  BY <1>15, <2>1, <2>2, <2>5 DEF IsMetric
<1>16. CASE f.type = "max"
  <2>1. Metric(f)[1] = b.max
    BY <1>1, <1>16 DEF Metric
  <2>2. Contains(values, b.max) /\ \A e \in DOMAIN values : b.max >= values[e]
    BY <1>6, <1>11, <1>16 DEF Holds
  <2>3. b.max \in Nat
    BY <1>10, <2>2, LenProperties DEF Contains
  <2>4. {e \in DOMAIN values : values[e] > b.max} = {}
    BY <1>10, <2>2, <2>3
  <2>5. HowMany(values, LAMBDA x : x > b.max) = 0
    BY <2>4, FS_EmptySet DEF HowMany
  <2>. QED  BY <1>16, <2>1, <2>2, <2>5 DEF IsMetric
<1>17. CASE f.type = "percentile"
  <2>1. PICK array \in Seq(Nat) : array = b.percentile_values
    BY <1>9, SeqDef DEF Accumulators
  <2>2. values \in Seq(Nat)
    BY <1>9, SeqDef
  <2>3. m # 0
    BY <1>1, <1>2, <1>5, <1>17, LenProperties, PercentilesCounted
  <2>4. f.p \in 0..100
    BY <1>17, FunctionsAssumption DEF Func
  <2>5. \A X \in SUBSET Nat : Occurrences(array, X) = m * Occurrences(values, X)
    BY <1>6, <1>17, <2>1 DEF Holds
  <2>6. PICK v : v = Percentile(array, f.p)
    OBVIOUS
  <2>7. /\ Contains(values, v)
        /\ 100 * NotAbove(values, v) >= f.p * Len(values)
        /\ 100 * NotBelow(values, v) >= (100 - f.p) * Len(values)
    BY <1>4, <2>2, <2>3, <2>4, <2>5, <2>6, PercentileRead
  <2>8. Metric(f)[1] = v
    BY <1>1, <1>17, <2>1, <2>6 DEF Metric
  <2>9. HowMany(values, LAMBDA x : x <= v) = NotAbove(values, v)
        /\ HowMany(values, LAMBDA x : x >= v) = NotBelow(values, v)
    BY DEF HowMany, NotAbove, NotBelow
  <2>. QED  BY <1>17, <2>7, <2>8, <2>9 DEF IsMetric
<1>18. CASE f.type = "distinct"
  <2>1. PICK D : D = Numbers \cup {0}
    OBVIOUS
  <2>2. PICK distinct \in Seq(D) : distinct = b.distinct_values
    BY <2>1 DEF Accumulators
  <2>3. NoRepeats(distinct) /\ \A x : Contains(distinct, x) <=> Contains(values, x)
    BY <1>6, <1>18, <2>2 DEF Holds
  <2>4. Len(distinct) = Cardinality(ToSet(values))
    BY <2>1, <2>3, DistinctRead
  <2>5. Metric(f)[1] = Len(distinct)
    BY <1>1, <1>18, <2>2 DEF Metric
  <2>. QED  BY <1>18, <2>4, <2>5 DEF IsMetric
<1>. QED  BY <1>8, <1>12, <1>13, <1>14, <1>15, <1>16, <1>17, <1>18

(* The metric of a function that no other function of the query disturbs   *)
(* is that function of the events of the window (update_bucket_with_event, *)
(* create_agg_result_event), for all functions, fields and events.         *)
THEOREM UndisturbedMetricsExact == BucketSpec => []UndisturbedExact
<1>1. BucketInv => UndisturbedExact
  BY MetricExact DEF UndisturbedExact
<1>. QED  BY BucketInvInit, BucketInvNext, <1>1, PTL DEF BucketSpec
=============================================================================
