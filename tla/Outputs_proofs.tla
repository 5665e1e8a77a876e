--------------------------- MODULE Outputs_proofs ---------------------------
(***************************************************************************)
(* Proofs about the file output, for every choice of limits, failures and  *)
(* clock, and any number of events; and at the end of the module about the *)
(* metrics output, another output with its own clock and file.             *)
(***************************************************************************)
EXTENDS FileOutput, MetricsOutput, FiniteSetTheorems, SequenceTheorems, TLAPS

(* What is on the disk was written, and there are finitely many files.     *)
OnDisk ==
    /\ IsFiniteSet(rotated)
    /\ current.events \subseteq written
    /\ \A r \in rotated : r.events \subseteq written

Inv == TypeOK /\ OnDisk

----------------------------------------------------------------------------
LEMMA RotationTypes ==
    ASSUME TypeOK
    PROVE  /\ rotation.size \in Nat
           /\ rotation.age \in Nat
           /\ rotation.count \in Nat
  BY OutputAssumption DEF TypeOK, Rotation

(* The candidates of a rotation: the files there were, or those with the   *)
(* one just renamed.                                                       *)
LEMMA CandidateFiles ==
    ASSUME Inv, NEW renames \in BOOLEAN, NEW files,
           files = IF renames THEN Renamed ELSE rotated
    PROVE  /\ files \subseteq RotatedFile
           /\ IsFiniteSet(files)
           /\ \A r \in files : r.events \subseteq written
<1>1. rotated \subseteq RotatedFile /\ current \in Contents /\ now \in Nat
  BY DEF Inv, TypeOK
<1>2. CASE renames
  <2>. DEFINE last == [stamp |-> now, events |-> current.events, mtime |-> current.mtime]
  <2>1. last \in RotatedFile /\ last.events \subseteq written
    BY <1>1 DEF RotatedFile, Contents, Inv, OnDisk
  <2>2. IsFiniteSet({r \in rotated : r.stamp # now})
    BY FS_Subset, {r \in rotated : r.stamp # now} \subseteq rotated DEF Inv, OnDisk
  <2>3. files = {r \in rotated : r.stamp # now} \cup {last}
    BY <1>2 DEF Renamed
  <2>4. IsFiniteSet(files)
    BY <2>2, <2>3, FS_AddElement
  <2>. QED  BY <1>1, <2>1, <2>3, <2>4 DEF Inv, OnDisk
<1>3. CASE ~renames
  BY <1>1, <1>3 DEF Inv, OnDisk
<1>. QED  BY <1>2, <1>3

(* The files a rotation keeps are some of the candidates, as many as the   *)
(* limit allows and none older than one it removes.                        *)
LEMMA KeptFiles ==
    ASSUME TypeOK, NEW files, IsFiniteSet(files), NEW keep \in Kept(files)
    PROVE  /\ keep \subseteq files
           /\ IsFiniteSet(keep)
           /\ rotation.count > 0 => Cardinality(keep) <= rotation.count
           /\ \A k \in keep, d \in files \ keep : k.mtime >= d.mtime
<1>1. keep \subseteq files /\ IsFiniteSet(keep)
  BY FS_Subset DEF Kept
<1>2. Cardinality(files) \in Nat /\ Cardinality(keep) \in Nat
  BY <1>1, FS_CardinalityType
<1>. QED  BY <1>1, <1>2, RotationTypes DEF Kept

(* What a rotation does to the files on the disk.                          *)
LEMMA RotateFiles ==
    ASSUME Inv, NEW renames \in BOOLEAN, Rotate(renames)
    PROVE  /\ rotated' \subseteq RotatedFile
           /\ IsFiniteSet(rotated')
           /\ \A r \in rotated' : r.events \subseteq written
           /\ deleted' \subseteq written
           /\ rotation.count > 0 => Cardinality(rotated') <= rotation.count
<1>1. PICK files : files = IF renames THEN Renamed ELSE rotated
  OBVIOUS
<1>2. PICK keep \in Kept(files) :
          rotated' = keep /\ deleted' = deleted \cup EventsIn(files \ keep)
  BY <1>1 DEF Rotate
<1>3. /\ files \subseteq RotatedFile
      /\ IsFiniteSet(files)
      /\ \A r \in files : r.events \subseteq written
  BY <1>1, CandidateFiles
<1>4. /\ keep \subseteq files
      /\ IsFiniteSet(keep)
      /\ rotation.count > 0 => Cardinality(keep) <= rotation.count
  BY <1>3, KeptFiles DEF Inv
<1>5. EventsIn(files \ keep) \subseteq written
  BY <1>3 DEF EventsIn
<1>. QED  BY <1>2, <1>3, <1>4, <1>5 DEF Inv, TypeOK

----------------------------------------------------------------------------
LEMMA InvInit == Init => Inv
<1>. SUFFICES ASSUME Init PROVE Inv
  OBVIOUS
<1>1. 0 \in 0..MaxEvents
  BY OutputAssumption
<1>. QED  BY <1>1, FS_EmptySet DEF Init, Inv, TypeOK, OnDisk, Contents, RotatedFile

LEMMA InvNext == Inv /\ [Next]_vars => Inv'
<1>. SUFFICES ASSUME Inv, [Next]_vars PROVE Inv'
  OBVIOUS
<1>0. offered < MaxEvents => /\ offered + 1 \in 0..MaxEvents
                             /\ offered + 1 \in 1..MaxEvents
                             /\ 1..offered \subseteq 1..(offered + 1)
                             /\ offered + 1 \in 1..(offered + 1)
  BY OutputAssumption DEF Inv, TypeOK
<1>1. ASSUME NEW r \in Rotation, SetRotation(r) PROVE Inv'
  BY <1>1 DEF Inv, TypeOK, OnDisk, SetRotation
<1>2. CASE Write
  <2>1. current' \in Contents
    BY <1>0, <1>2 DEF Write, Inv, TypeOK, Contents
  <2>2. TypeOK'
    BY <1>0, <1>2, <2>1 DEF Write, Inv, TypeOK
  <2>3. OnDisk'
    BY <1>2 DEF Write, Inv, TypeOK, OnDisk, Contents
  <2>. QED  BY <2>2, <2>3 DEF Inv
<1>3. ASSUME NEW renames \in BOOLEAN, RotateAndWrite(renames) PROVE Inv'
  <2>1. LeftAtPath(renames) \subseteq current.events
    BY DEF LeftAtPath
  <2>2. current' \in Contents /\ current'.events \subseteq written'
    BY <1>0, <1>3, <2>1 DEF RotateAndWrite, Inv, TypeOK, Contents, OnDisk
  <2>3. Rotate(renames) /\ written \subseteq written'
    BY <1>3 DEF RotateAndWrite
  <2>4. TypeOK'
    BY <1>0, <1>3, <2>2, <2>3, RotateFiles DEF RotateAndWrite, Inv, TypeOK
  <2>5. OnDisk'
    BY <2>2, <2>3, RotateFiles DEF OnDisk
  <2>. QED  BY <2>4, <2>5 DEF Inv
<1>4. ASSUME NEW renames \in BOOLEAN, RotateAndFail(renames) PROVE Inv'
  <2>1. LeftAtPath(renames) \subseteq current.events
    BY DEF LeftAtPath
  <2>2. current' \in Contents /\ current'.events \subseteq written'
    BY <1>0, <1>4, <2>1 DEF RotateAndFail, Inv, TypeOK, Contents, OnDisk
  <2>3. Rotate(renames) /\ written \subseteq written'
    BY <1>4 DEF RotateAndFail
  <2>4. TypeOK'
    BY <1>0, <1>4, <2>2, <2>3, RotateFiles DEF RotateAndFail, Inv, TypeOK
  <2>5. OnDisk'
    BY <2>2, <2>3, RotateFiles DEF OnDisk
  <2>. QED  BY <2>4, <2>5 DEF Inv
<1>5. CASE WriteWithoutFile
  BY <1>0, <1>5 DEF WriteWithoutFile, Inv, TypeOK, OnDisk
<1>6. CASE Free
  BY <1>6 DEF Free, Inv, TypeOK, OnDisk
<1>7. CASE Tick
  BY <1>7 DEF Tick, Inv, TypeOK, OnDisk
<1>8. CASE UNCHANGED vars
  BY <1>8 DEF vars, Inv, TypeOK, OnDisk
<1>. QED  BY <1>1, <1>2, <1>3, <1>4, <1>5, <1>6, <1>7, <1>8 DEF Next

(* The output's state keeps its types, and whatever is on the disk was     *)
(* written to it.                                                          *)
THEOREM OutputInvariant == Spec => [](TypeOK /\ OnDisk)
<1>1. Inv <=> TypeOK /\ OnDisk
  BY DEF Inv
<1>. QED  BY InvInit, InvNext, <1>1, PTL DEF Spec

(* A rotation leaves at most rotation_max_count rotated files, for every   *)
(* limit and whichever rename or reopen fails.                             *)
THEOREM CountIsEnforced == Spec => CountEnforced
<1>1. Inv /\ [Next]_vars
      => [rotated' # rotated /\ rotation.count > 0
          => Cardinality(rotated') <= rotation.count]_vars
  <2>. SUFFICES ASSUME Inv, Next, rotated' # rotated, rotation.count > 0
                PROVE  Cardinality(rotated') <= rotation.count
    OBVIOUS
  <2>1. PICK renames \in BOOLEAN : RotateAndWrite(renames) \/ RotateAndFail(renames)
    BY DEF Next, SetRotation, Write, WriteWithoutFile, Free, Tick
  <2>2. Rotate(renames)
    BY <2>1 DEF RotateAndWrite, RotateAndFail
  <2>. QED  BY <2>2, RotateFiles
<1>. QED  BY InvInit, InvNext, <1>1, PTL DEF Spec, CountEnforced

----------------------------------------------------------------------------
(* Rotation by age only: rotation_max_size is never anything but 0.        *)
AgeOnly == MaxSizes = {0}

(* While the output has a file, every rotated file was named no later than *)
(* the last rotation, so that the next rename replaces none.               *)
StampsPast == file = "open" => \A r \in rotated : r.stamp <= last_rotation

LostInv == Inv /\ StampsPast /\ NothingLost

(* A rotation by age comes after the second of the last one.               *)
LEMMA AgeRotation ==
    ASSUME AgeOnly, TypeOK, ShouldRotate
    PROVE  rotation.age > 0 /\ now >= last_rotation + rotation.age
<1>1. rotation.size = 0 /\ rotation.age \in Nat
  BY OutputAssumption DEF AgeOnly, TypeOK, Rotation
<1>. QED  BY <1>1 DEF ShouldRotate, TypeOK

(* Such a rotation moves the events of the file, and loses none but those  *)
(* of the files it removes.                                                *)
LEMMA AgeRotationLosesNothing ==
    ASSUME LostInv, AgeOnly, ShouldRotate, file = "open",
           NEW renames \in BOOLEAN, Rotate(renames)
    PROVE  /\ \A r \in rotated' : r.stamp <= now
           /\ written = LeftAtPath(renames) \cup EventsIn(rotated') \cup deleted'
<1>1. now > last_rotation /\ rotation.age > 0
  BY AgeRotation, RotationTypes DEF LostInv, Inv, TypeOK
<1>2. PICK files : files = IF renames THEN Renamed ELSE rotated
  OBVIOUS
<1>3. PICK keep \in Kept(files) :
          rotated' = keep /\ deleted' = deleted \cup EventsIn(files \ keep)
  BY <1>2 DEF Rotate
<1>4. keep \subseteq files
  BY DEF Kept
<1>5. \A r \in rotated : r.stamp \in Nat /\ r.stamp # now /\ r.stamp <= now
  <2>1. \A r \in rotated : r.stamp \in Nat
    BY DEF LostInv, Inv, TypeOK, RotatedFile
  <2>. QED  BY <1>1, <2>1 DEF LostInv, StampsPast, Inv, TypeOK
<1>6. /\ \A r \in files : r.stamp <= now
      /\ LeftAtPath(renames) \cup EventsIn(files) = current.events \cup EventsIn(rotated)
  <2>1. CASE renames
    <3>. DEFINE last == [stamp |-> now, events |-> current.events, mtime |-> current.mtime]
    <3>1. files = rotated \cup {last}
      BY <1>2, <1>5, <2>1 DEF Renamed
    <3>2. last.stamp = now /\ last.events = current.events /\ now <= now
      BY DEF LostInv, Inv, TypeOK
    <3>3. EventsIn(files) = current.events \cup EventsIn(rotated)
      BY <3>1, <3>2 DEF EventsIn
    <3>. QED  BY <1>5, <2>1, <3>1, <3>2, <3>3 DEF LeftAtPath
  <2>2. CASE ~renames
    BY <1>2, <1>5, <2>2 DEF LeftAtPath
  <2>. QED  BY <2>1, <2>2
<1>7. EventsIn(files) = EventsIn(keep) \cup EventsIn(files \ keep)
  BY <1>4 DEF EventsIn
<1>. QED  BY <1>3, <1>4, <1>6, <1>7 DEF LostInv, NothingLost

LEMMA LostInvInit == Init => LostInv
  BY InvInit DEF Init, LostInv, StampsPast, NothingLost, EventsIn

LEMMA LostInvNext == AgeOnly /\ LostInv /\ [Next]_vars => LostInv'
<1>. SUFFICES ASSUME AgeOnly, LostInv, [Next]_vars PROVE LostInv'
  OBVIOUS
<1>. USE DEF NothingLost, StampsPast, EventsIn
<1>0. Inv'
  BY InvNext DEF LostInv
<1>1. ASSUME NEW r \in Rotation, SetRotation(r) PROVE LostInv'
  BY <1>0, <1>1 DEF LostInv, SetRotation
<1>2. CASE Write
  BY <1>0, <1>2 DEF LostInv, Write
<1>3. ASSUME NEW renames \in BOOLEAN, RotateAndWrite(renames) PROVE LostInv'
  <2>1. /\ \A r \in rotated' : r.stamp <= now
        /\ written = LeftAtPath(renames) \cup EventsIn(rotated') \cup deleted'
    BY <1>3, AgeRotationLosesNothing DEF RotateAndWrite
  <2>2. /\ current'.events = LeftAtPath(renames) \cup {offered + 1}
        /\ written' = written \cup {offered + 1}
        /\ last_rotation' = now
    BY <1>3 DEF RotateAndWrite
  <2>. QED  BY <1>0, <2>1, <2>2 DEF LostInv
<1>4. ASSUME NEW renames \in BOOLEAN, RotateAndFail(renames) PROVE LostInv'
  <2>1. written = LeftAtPath(renames) \cup EventsIn(rotated') \cup deleted'
    BY <1>4, AgeRotationLosesNothing DEF RotateAndFail
  <2>2. /\ current'.events = LeftAtPath(renames)
        /\ written' = written
        /\ file' = "NULL"
    BY <1>4 DEF RotateAndFail, LostInv, Inv, TypeOK, Contents
  <2>. QED  BY <1>0, <2>1, <2>2 DEF LostInv
<1>5. CASE WriteWithoutFile \/ Free \/ Tick \/ UNCHANGED vars
  BY <1>0, <1>5 DEF LostInv, WriteWithoutFile, Free, Tick, vars
<1>. QED  BY <1>1, <1>2, <1>3, <1>4, <1>5 DEF Next

(* With rotation by age only, an event whose write succeeded is on the     *)
(* disk until the count limit removes its file, for every age, count and   *)
(* failure: two rotations never share the second that names their files.   *)
THEOREM AgeRotationKeepsEvents == AgeOnly => (Spec => []NothingLost)
<1>. SUFFICES ASSUME AgeOnly PROVE Spec => []NothingLost
  OBVIOUS
<1>1. LostInv => NothingLost
  BY DEF LostInv
<1>2. LostInv /\ [Next]_vars => LostInv'
  BY LostInvNext
<1>. QED  BY LostInvInit, <1>1, <1>2, PTL DEF Spec

----------------------------------------------------------------------------
(* The age limit is set once, at whatever it is.                           *)
OneAge == \A a, b \in MaxAges : a = b

(* Files in the order of their modification times are in the order of      *)
(* their events, and no two have the same time.                            *)
Ordered(files) ==
    \A r, s \in files :
        r # s => /\ r.mtime # s.mtime
                 /\ r.mtime < s.mtime => \A x \in r.events, y \in s.events : x < y

(* The file at the path was last written after every rotated file, and in  *)
(* less than an age since the last rotation.                               *)
PathIsLatest ==
    file = "open" =>
        /\ last_rotation <= current.mtime /\ current.mtime <= now
        /\ rotation.age > 0 => current.mtime < last_rotation + rotation.age
        /\ \A r \in rotated :
               /\ r.mtime < current.mtime
               /\ \A x \in r.events, y \in current.events : x < y

OrderInv == Inv /\ Ordered(rotated) /\ PathIsLatest /\ DeletesOldest

LEMMA OrderTypes ==
    ASSUME Inv
    PROVE  /\ current.mtime \in Nat
           /\ \A r \in rotated : r.mtime \in Nat
           /\ now \in Nat /\ last_rotation \in Nat /\ offered \in Nat
           /\ written \subseteq Nat /\ deleted \subseteq Nat
           /\ current.events \subseteq Nat
           /\ \A r \in rotated : r.events \subseteq Nat
           /\ \A x \in written : x < offered + 1
<1>1. /\ current.mtime \in Nat
      /\ \A r \in rotated : r.mtime \in Nat
      /\ now \in Nat /\ last_rotation \in Nat
  BY DEF Inv, TypeOK, Contents, RotatedFile
<1>2. offered \in Nat /\ written \subseteq 1..offered /\ deleted \subseteq written
  BY OutputAssumption DEF Inv, TypeOK
<1>3. current.events \subseteq written /\ \A r \in rotated : r.events \subseteq written
  BY DEF Inv, OnDisk
<1>4. written \subseteq Nat /\ \A x \in written : x < offered + 1
  BY <1>2
<1>5. deleted \subseteq Nat
  BY <1>2, <1>4
<1>. QED  BY <1>1, <1>2, <1>3, <1>4, <1>5

(* A rotation by age keeps the files in order and removes the first ones.  *)
LEMMA AgeRotationOrdered ==
    ASSUME OrderInv, AgeOnly, ShouldRotate, file = "open",
           NEW renames \in BOOLEAN, Rotate(renames)
    PROVE  /\ Ordered(rotated')
           /\ \A r \in rotated' :
                 /\ r.mtime < now
                 /\ \A x \in r.events, y \in LeftAtPath(renames) : x < y
           /\ \A d \in deleted' :
                 \A e \in LeftAtPath(renames) \cup EventsIn(rotated') : d < e
<1>1. PICK files : files = IF renames THEN Renamed ELSE rotated
  OBVIOUS
<1>2. PICK keep \in Kept(files) :
          rotated' = keep /\ deleted' = deleted \cup EventsIn(files \ keep)
  BY <1>1 DEF Rotate
<1>3. /\ keep \subseteq files
      /\ \A k \in keep, d \in files \ keep : k.mtime >= d.mtime
  <2>1. IsFiniteSet(files)
    BY <1>1, CandidateFiles DEF OrderInv
  <2>. QED  BY <2>1, KeptFiles DEF OrderInv, Inv
<1>4. current.mtime < now /\ \A r \in rotated : r.mtime < current.mtime
  <2>1. rotation.age \in Nat /\ rotation.age > 0 /\ now >= last_rotation + rotation.age
    BY AgeRotation, RotationTypes DEF OrderInv, Inv
  <2>. QED  BY <2>1, OrderTypes DEF OrderInv, PathIsLatest
<1>5. /\ \A r \in files : r.mtime \in Nat /\ r.mtime < now /\ r.events \subseteq Nat
      /\ Ordered(files)
      /\ \A r \in files : \A x \in r.events, y \in LeftAtPath(renames) : x < y
      /\ LeftAtPath(renames) \cup EventsIn(files) \subseteq current.events \cup EventsIn(rotated)
  <2>1. CASE renames
    <3>. DEFINE last == [stamp |-> now, events |-> current.events, mtime |-> current.mtime]
    <3>1. files = {r \in rotated : r.stamp # now} \cup {last}
      BY <1>1, <2>1 DEF Renamed
    <3>2. last.events = current.events /\ last.mtime = current.mtime
      OBVIOUS
    <3>. HIDE DEF last
    <3>3. \A r \in rotated : /\ r.mtime < last.mtime
                            /\ \A x \in r.events, y \in last.events : x < y
      BY <3>2 DEF OrderInv, PathIsLatest
    <3>4. \A r \in files : r \in rotated \/ r = last
      BY <3>1
    <3>5. \A r \in files : r.mtime \in Nat /\ r.mtime < now /\ r.events \subseteq Nat
      BY <1>4, <3>2, <3>4, OrderTypes DEF OrderInv
    <3>6. Ordered(files)
      <4>. SUFFICES ASSUME NEW r \in files, NEW s \in files, r # s
                    PROVE  /\ r.mtime # s.mtime
                           /\ r.mtime < s.mtime =>
                                  \A x \in r.events, y \in s.events : x < y
        BY DEF Ordered
      <4>1. CASE r \in rotated /\ s \in rotated
        BY <4>1 DEF OrderInv, Ordered
      <4>2. CASE r \in rotated /\ s = last
        BY <3>3, <3>5, <4>2
      <4>3. CASE r = last /\ s \in rotated
        BY <3>3, <3>5, <4>3
      <4>. QED  BY <3>4, <4>1, <4>2, <4>3
    <3>7. LeftAtPath(renames) = {}
      BY <2>1 DEF LeftAtPath
    <3>8. EventsIn(files) \subseteq current.events \cup EventsIn(rotated)
      BY <3>2, <3>4 DEF EventsIn
    <3>. QED  BY <3>5, <3>6, <3>7, <3>8
  <2>2. CASE ~renames
    <3>1. files = rotated /\ LeftAtPath(renames) = current.events
      BY <1>1, <2>2 DEF LeftAtPath
    <3>2. \A r \in rotated : r.mtime < now
      BY <1>4, OrderTypes DEF OrderInv
    <3>. QED  BY <3>1, <3>2, OrderTypes DEF OrderInv, PathIsLatest
  <2>. QED  BY <2>1, <2>2
<1>6. ASSUME NEW d \in deleted', NEW e \in LeftAtPath(renames) \cup EventsIn(keep)
      PROVE  d < e
  <2>1. CASE d \in deleted
    <3>1. e \in current.events \cup EventsIn(rotated)
      BY <1>3, <1>5 DEF EventsIn
    <3>. QED  BY <2>1, <3>1 DEF OrderInv, DeletesOldest
  <2>2. CASE d \notin deleted
    <3>1. PICK r \in files \ keep : d \in r.events
      BY <1>2, <2>2 DEF EventsIn
    <3>2. CASE e \in LeftAtPath(renames)
      BY <1>5, <3>1, <3>2
    <3>3. CASE e \notin LeftAtPath(renames)
      <4>1. PICK k \in keep : e \in k.events
        BY <3>3 DEF EventsIn
      <4>2. k \in files /\ k # r /\ k.mtime >= r.mtime
        BY <1>3, <3>1
      <4>3. r.mtime < k.mtime
        BY <1>5, <4>2 DEF Ordered
      <4>. QED  BY <1>5, <3>1, <4>1, <4>2, <4>3 DEF Ordered
    <3>. QED  BY <3>2, <3>3
  <2>. QED  BY <2>1, <2>2
<1>7. Ordered(keep)
  BY <1>3, <1>5 DEF Ordered
<1>. QED  BY <1>2, <1>3, <1>5, <1>6, <1>7

LEMMA OrderInvInit == Init => OrderInv
<1>. SUFFICES ASSUME Init PROVE OrderInv
  OBVIOUS
<1>1. rotation.age \in Nat
  BY InvInit, RotationTypes DEF Inv
<1>. QED
  BY <1>1, InvInit DEF Init, OrderInv, Ordered, PathIsLatest, DeletesOldest, EventsIn

LEMMA OrderInvNext == AgeOnly /\ OneAge /\ OrderInv /\ [Next]_vars => OrderInv'
<1>. SUFFICES ASSUME AgeOnly, OneAge, OrderInv, [Next]_vars PROVE OrderInv'
  OBVIOUS
<1>0. Inv'
  BY InvNext DEF OrderInv
<1>1. ASSUME NEW r \in Rotation, SetRotation(r) PROVE OrderInv'
  <2>1. rotation'.age = rotation.age
    BY <1>1 DEF OneAge, Rotation, SetRotation, OrderInv, Inv, TypeOK
  <2>. QED
    BY <1>0, <1>1, <2>1 DEF SetRotation, OrderInv, Ordered, PathIsLatest, DeletesOldest, EventsIn
<1>2. CASE Write
  <2>. DEFINE n == offered + 1
  <2>1. /\ current'.events = current.events \cup {n} /\ current'.mtime = now
        /\ \A x \in written : x < n
    BY <1>2, OrderTypes DEF Write, OrderInv
  <2>. HIDE DEF n
  <2>2. PathIsLatest'
    <3>1. /\ last_rotation <= now
          /\ rotation.age > 0 => now < last_rotation + rotation.age
      BY <1>2, RotationTypes, OrderTypes DEF Write, ShouldRotate, OrderInv, Inv, TypeOK
    <3>2. \A r \in rotated : /\ r.mtime < now
                            /\ \A x \in r.events, y \in current.events \cup {n} : x < y
      BY <1>2, <2>1, OrderTypes DEF Write, OrderInv, PathIsLatest, Inv, OnDisk
    <3>. QED  BY <1>2, <2>1, <3>1, <3>2, OrderTypes DEF Write, PathIsLatest, OrderInv
  <2>3. DeletesOldest'
    BY <1>2, <2>1 DEF Write, OrderInv, DeletesOldest, EventsIn, Inv, TypeOK
  <2>. QED  BY <1>0, <1>2, <2>2, <2>3 DEF Write, OrderInv, Ordered
<1>3. ASSUME NEW renames \in BOOLEAN, RotateAndWrite(renames) PROVE OrderInv'
  <2>. DEFINE n == offered + 1
  <2>1. /\ current'.events = LeftAtPath(renames) \cup {n} /\ current'.mtime = now
        /\ last_rotation' = now /\ now' = now /\ rotation' = rotation
        /\ \A x \in written : x < n
    BY <1>3, OrderTypes DEF RotateAndWrite, OrderInv
  <2>. HIDE DEF n
  <2>2. /\ Ordered(rotated')
        /\ \A r \in rotated' :
              /\ r.mtime < now
              /\ \A x \in r.events, y \in LeftAtPath(renames) : x < y
        /\ \A d \in deleted' :
              \A e \in LeftAtPath(renames) \cup EventsIn(rotated') : d < e
    BY <1>3, AgeRotationOrdered DEF RotateAndWrite
  <2>3. /\ deleted' \subseteq written
        /\ \A r \in rotated' : r.events \subseteq written
    BY <1>3, RotateFiles DEF RotateAndWrite, OrderInv
  <2>4. rotation.age \in Nat /\ now \in Nat
    BY RotationTypes DEF OrderInv, Inv, TypeOK
  <2>5. PathIsLatest'
    BY <2>1, <2>2, <2>3, <2>4 DEF PathIsLatest
  <2>6. DeletesOldest'
    BY <2>1, <2>2, <2>3 DEF DeletesOldest, EventsIn
  <2>7. Ordered(rotated)'
    BY <2>2 DEF Ordered
  <2>. QED  BY <1>0, <2>5, <2>6, <2>7 DEF OrderInv
<1>4. ASSUME NEW renames \in BOOLEAN, RotateAndFail(renames) PROVE OrderInv'
  <2>1. current'.events = LeftAtPath(renames) /\ file' # "open"
    BY <1>4 DEF RotateAndFail, OrderInv, Inv, TypeOK, Contents
  <2>2. /\ Ordered(rotated')
        /\ \A d \in deleted' :
              \A e \in LeftAtPath(renames) \cup EventsIn(rotated') : d < e
    BY <1>4, AgeRotationOrdered DEF RotateAndFail
  <2>3. Ordered(rotated)' /\ DeletesOldest'
    BY <2>1, <2>2 DEF Ordered, DeletesOldest, EventsIn
  <2>. QED  BY <1>0, <2>1, <2>3 DEF OrderInv, PathIsLatest
<1>5. CASE WriteWithoutFile \/ Free \/ UNCHANGED vars
  BY <1>0, <1>5 DEF WriteWithoutFile, Free, vars, OrderInv, Ordered, PathIsLatest,
                    DeletesOldest, EventsIn
<1>6. CASE Tick
  <2>1. now' >= now /\ current.mtime <= now => current.mtime <= now'
    BY <1>6, OrderTypes DEF Tick, OrderInv
  <2>2. now' >= now
    BY <1>6, OrderTypes DEF Tick, OrderInv
  <2>. QED
    BY <1>0, <1>6, <2>1, <2>2 DEF Tick, OrderInv, Ordered, PathIsLatest, DeletesOldest, EventsIn
<1>. QED  BY <1>1, <1>2, <1>3, <1>4, <1>5, <1>6 DEF Next

(* With rotation by one age only, the count limit removes the oldest       *)
(* events, for every age, count and failure: the files of two rotations    *)
(* never have the same modification time.                                  *)
THEOREM AgeRotationDeletesOldest == AgeOnly /\ OneAge => (Spec => []DeletesOldest)
<1>. SUFFICES ASSUME AgeOnly, OneAge PROVE Spec => []DeletesOldest
  OBVIOUS
<1>1. OrderInv => DeletesOldest
  BY DEF OrderInv
<1>2. OrderInv /\ [Next]_vars => OrderInv'
  BY OrderInvNext
<1>. QED  BY OrderInvInit, <1>1, <1>2, PTL DEF Spec

----------------------------------------------------------------------------
(* The metrics output.                                                     *)

(* A sample of any series and value.                                       *)
SampleSet == [series : Metrics \cup {"events_total", "correlations_found"}
                                \cup {TypeName[t] : t \in Types},
              value  : Nat \cup Values]

MetricsTyped ==
    /\ events_total \in Nat /\ correlations_found \in Nat
    /\ events_by_type \in [Types -> Nat]
    /\ aggregation_metrics \in Seq(SampleSet)
    /\ samples \in Seq(SampleSet) /\ report \in Seq(SampleSet)
    /\ recorded \in Nat /\ exported \in Nat

MetricsInv == MetricsTyped /\ ReportOnTop /\ GaugesExported
                           /\ (~open => aggregation_metrics = <<>>)

(* A flush writes samples.                                                 *)
LEMMA FlushesSamples ==
    ASSUME NEW total \in Nat, NEW by_type \in [Types -> Nat], NEW found \in Nat,
           NEW pending \in Seq(SampleSet)
    PROVE  Samples(total, by_type, found, pending) \in Seq(SampleSet)
<1>1. ASSUME NEW x \in SampleSet PROVE <<x>> \in Seq(SampleSet)
  BY <1>1
<1>2. [series |-> "events_total", value |-> total] \in SampleSet
      /\ [series |-> "correlations_found", value |-> found] \in SampleSet
  BY DEF SampleSet
<1>3. ASSUME NEW t \in Types PROVE TypeSample(t, by_type) \in Seq(SampleSet)
  <2>1. [series |-> TypeName[t], value |-> by_type[t]] \in SampleSet
    BY DEF SampleSet
  <2>. QED  BY <1>1, <2>1 DEF TypeSample
<1>4. {"LOG", "NETWORK", "CORRELATION", "ERROR"} \subseteq Types
  BY DEF Types
<1>5. PICK a, b \in Seq(SampleSet) :
         /\ a = <<[series |-> "events_total", value |-> total]>>
         /\ b = <<[series |-> "correlations_found", value |-> found]>>
  BY <1>1, <1>2
<1>6. PICK c, d, e, f \in Seq(SampleSet) :
         /\ c = TypeSample("LOG", by_type) /\ d = TypeSample("NETWORK", by_type)
         /\ e = TypeSample("CORRELATION", by_type) /\ f = TypeSample("ERROR", by_type)
  BY <1>3, <1>4
<1>7. a \o c \o d \o e \o f \o b \o pending \in Seq(SampleSet)
  BY ConcatProperties
<1>. QED  BY <1>5, <1>6, <1>7 DEF Samples

(* What is written from the start of a file stands there, whatever longer  *)
(* text was there before.                                                  *)
LEMMA OverwritesTop ==
    ASSUME NEW old \in Seq(SampleSet), NEW new \in Seq(SampleSet)
    PROVE  /\ Overwrite(old, new) \in Seq(SampleSet)
           /\ SubSeq(Overwrite(old, new), 1, Len(new)) = new
<1>1. PICK rest : rest = SubSeq(old, Len(new) + 1, Len(old))
  OBVIOUS
<1>2. Len(new) \in Nat /\ Len(old) \in Nat
  BY LenProperties
<1>3. rest \in Seq(SampleSet)
  <2>1. \A i \in (Len(new) + 1) .. Len(old) : i \in 1 .. Len(old)
    BY <1>2
  <2>2. \A i \in (Len(new) + 1) .. Len(old) : old[i] \in SampleSet
    BY <2>1, ElementOfSeq
  <2>. QED  BY <1>1, <1>2, <2>2, SubSeqProperties
<1>4. new \o rest \in Seq(SampleSet)
  BY <1>3, ConcatProperties
<1>5. SubSeq(new \o rest, 1, Len(new)) = new
  BY <1>3, SubSeqOfConcat1
<1>. QED  BY <1>1, <1>4, <1>5 DEF Overwrite

(* A flush, on counters as they have become.                               *)
LEMMA FlushKeeps ==
    ASSUME MetricsTyped, NEW total \in Nat, NEW by_type \in [Types -> Nat],
           NEW found \in Nat, NEW pending \in Seq(SampleSet), NEW k \in Nat,
           FlushNow(total, by_type, found, pending),
           recorded + k = exported + Len(pending)
    PROVE  /\ samples' \in Seq(SampleSet) /\ report' \in Seq(SampleSet)
           /\ aggregation_metrics' = <<>> /\ aggregation_metrics' \in Seq(SampleSet)
           /\ exported' \in Nat /\ exported' = recorded + k
           /\ SubSeq(samples', 1, Len(report')) = report'
<1>1. PICK new : new = Samples(total, by_type, found, pending)
  OBVIOUS
<1>2. new \in Seq(SampleSet)
  BY <1>1, FlushesSamples
<1>3. report' = new /\ samples' = Overwrite(samples, new) /\ aggregation_metrics' = <<>>
      /\ exported' = exported + Len(pending)
  BY <1>1 DEF FlushNow
<1>4. samples' \in Seq(SampleSet) /\ SubSeq(samples', 1, Len(new)) = new
  BY <1>2, <1>3, OverwritesTop DEF MetricsTyped
<1>5. exported' \in Nat /\ exported' = recorded + k
  BY <1>3 DEF MetricsTyped
<1>6. <<>> \in Seq(SampleSet)
  OBVIOUS
<1>. QED  BY <1>2, <1>3, <1>4, <1>5, <1>6

LEMMA MetricsInvInit == MetricsInit => MetricsInv
<1>. SUFFICES ASSUME MetricsInit PROVE MetricsInv
  OBVIOUS
<1>1. <<>> \in Seq(SampleSet) /\ Len(<<>>) = 0 /\ SubSeq(<<>>, 1, 0) = <<>>
  BY EmptySeq, SubSeqEmpty
<1>. QED  BY <1>1 DEF MetricsInit, MetricsInv, MetricsTyped, ReportOnTop, GaugesExported

LEMMA MetricsWriteKeeps ==
    ASSUME MetricsInv, NEW t \in Types, NEW gauges \in Seq(SampleSet), MetricsWrite(t, gauges)
    PROVE  MetricsInv'
<1>. PICK by_type, found, pending :
        /\ by_type = [events_by_type EXCEPT ![t] = @ + 1]
        /\ found = IF t = "CORRELATION" THEN correlations_found + 1 ELSE correlations_found
        /\ pending = gauges \o aggregation_metrics
  OBVIOUS
<1>1. MetricsTyped /\ recorded = exported + Len(aggregation_metrics)
      /\ SubSeq(samples, 1, Len(report)) = report
  BY DEF MetricsInv, GaugesExported, ReportOnTop
<1>2. by_type \in [Types -> Nat] /\ found \in Nat /\ events_total + 1 \in Nat
  BY <1>1 DEF MetricsTyped
<1>3. /\ pending \in Seq(SampleSet) /\ Len(pending) = Len(gauges) + Len(aggregation_metrics)
      /\ Len(gauges) \in Nat /\ Len(aggregation_metrics) \in Nat
  BY <1>1, ConcatProperties, LenProperties DEF MetricsTyped
<1>4. recorded + Len(gauges) = exported + Len(pending) /\ recorded + Len(gauges) \in Nat
  BY <1>1, <1>3 DEF MetricsTyped
<1>5. /\ open /\ open' = open
      /\ events_total' = events_total + 1 /\ events_by_type' = by_type
      /\ correlations_found' = found /\ recorded' = recorded + Len(gauges)
      /\ \/ FlushNow(events_total + 1, by_type, found, pending)
         \/ aggregation_metrics' = pending /\ UNCHANGED <<samples, report, exported>>
  BY DEF MetricsWrite, Record
<1>6. CASE FlushNow(events_total + 1, by_type, found, pending)
  <2>1. /\ samples' \in Seq(SampleSet) /\ report' \in Seq(SampleSet)
        /\ aggregation_metrics' = <<>> /\ aggregation_metrics' \in Seq(SampleSet)
        /\ exported' \in Nat /\ exported' = recorded + Len(gauges)
        /\ SubSeq(samples', 1, Len(report')) = report'
    BY <1>1, <1>2, <1>3, <1>4, <1>6, FlushKeeps
  <2>. QED
    BY <1>2, <1>4, <1>5, <2>1, EmptySeq
       DEF MetricsInv, MetricsTyped, ReportOnTop, GaugesExported
<1>7. CASE aggregation_metrics' = pending /\ UNCHANGED <<samples, report, exported>>
  BY <1>1, <1>2, <1>3, <1>4, <1>5, <1>7
     DEF MetricsInv, MetricsTyped, ReportOnTop, GaugesExported
<1>. QED  BY <1>5, <1>6, <1>7

LEMMA MetricsInvNext == MetricsInv /\ [MetricsNext]_(metricsVars) => MetricsInv'
<1>. SUFFICES ASSUME MetricsInv, [MetricsNext]_(metricsVars) PROVE MetricsInv'
  OBVIOUS
<1>0. MetricsTyped /\ recorded = exported + Len(aggregation_metrics)
  BY DEF MetricsInv, GaugesExported
<1>1. CASE \E t \in Types : MetricsWrite(t, <<>>)
  BY <1>1, MetricsWriteKeeps, EmptySeq
<1>2. CASE \E m \in Metrics, v \in Values :
              MetricsWrite("LOG", <<[series |-> m, value |-> v]>>)
  <2>. PICK m \in Metrics, v \in Values : MetricsWrite("LOG", <<[series |-> m, value |-> v]>>)
    BY <1>2
  <2>1. [series |-> m, value |-> v] \in SampleSet
    BY DEF SampleSet
  <2>2. <<[series |-> m, value |-> v]>> \in Seq(SampleSet) /\ "LOG" \in Types
    BY <2>1 DEF Types
  <2>. QED  BY <2>2, MetricsWriteKeeps
<1>3. CASE Flush \/ MetricsFree
  <2>1. /\ FlushNow(events_total, events_by_type, correlations_found, aggregation_metrics)
        /\ UNCHANGED <<events_total, events_by_type, correlations_found, recorded>>
        /\ recorded \in Nat
    BY <1>0, <1>3 DEF Flush, MetricsFree, counters, MetricsTyped
  <2>2. /\ samples' \in Seq(SampleSet) /\ report' \in Seq(SampleSet)
        /\ aggregation_metrics' = <<>> /\ aggregation_metrics' \in Seq(SampleSet)
        /\ exported' \in Nat /\ exported' = recorded + 0
        /\ SubSeq(samples', 1, Len(report')) = report'
    <3>1. recorded + 0 = exported + Len(aggregation_metrics)
      BY <1>0, <2>1
    <3>. QED  BY <1>0, <2>1, <3>1, FlushKeeps DEF MetricsTyped
  <2>3. exported' = recorded /\ Len(<<>>) = 0
    BY <2>1, <2>2
  <2>. QED
    BY <1>0, <2>1, <2>2, <2>3 DEF MetricsInv, MetricsTyped, ReportOnTop, GaugesExported
<1>4. CASE \/ (\E seconds \in FlushIntervals : SetFlushInterval(seconds))
           \/ MetricsTick \/ UNCHANGED metricsVars
  <2>1. UNCHANGED <<open, events_total, events_by_type, correlations_found, aggregation_metrics,
                    samples, report, recorded, exported>>
    BY <1>4 DEF SetFlushInterval, MetricsTick, metricsVars, counters
  <2>. QED  BY <2>1 DEF MetricsInv, MetricsTyped, ReportOnTop, GaugesExported
<1>. QED  BY <1>1, <1>2, <1>3, <1>4 DEF MetricsNext

LEMMA MetricsInvHolds == MetricsSpec => []MetricsInv
  BY MetricsInvInit, MetricsInvNext, PTL DEF MetricsSpec

(* The exported file always begins with the whole report of the last flush *)
(* (nblex_metrics_output_flush), for every interval and any events.        *)
THEOREM ReportStandsOnTop == MetricsSpec => []ReportOnTop
<1>1. MetricsInv => ReportOnTop
  BY DEF MetricsInv
<1>. QED  BY <1>1, MetricsInvHolds, PTL

(* Every aggregation metric is written to the file by exactly one flush,   *)
(* the one by the interval, the caller's or the last one of the free.      *)
THEOREM GaugesAreExported == MetricsSpec => []GaugesExported
<1>1. MetricsInv => GaugesExported
  BY DEF MetricsInv
<1>. QED  BY <1>1, MetricsInvHolds, PTL
=============================================================================
