----------------------------- MODULE FileOutput -----------------------------
(***************************************************************************)
(* The file output and its rotation (output/file_output.c).                *)
(*                                                                         *)
(* Events are numbered in the order in which they are written, and a file  *)
(* on the disk is the set of the events in it with its modification time.  *)
(* Time is in seconds, the resolution of time(NULL), of st_mtime and of    *)
(* the timestamp in the name of a rotated file.  Every event has size one. *)
(* A short write, an unlink that fails and failing allocations are not     *)
(* modelled.                                                               *)
(***************************************************************************)
EXTENDS Integers, FiniteSets

CONSTANTS
    MaxSizes,   \* the sizes, in events, a caller may set (0: no limit)
    MaxAges,    \* the ages a caller may set (0: no limit)
    MaxCounts,  \* the numbers of rotated files a caller may set (0: no limit)
    Failures,   \* the calls that may fail: "rename", "reopen"
    MaxTime,    \* bound: the clock
    MaxEvents   \* bound: events given to the output

ASSUME OutputAssumption ==
    /\ MaxSizes \subseteq Nat /\ MaxSizes # {}
    /\ MaxAges \subseteq Nat /\ MaxAges # {}
    /\ MaxCounts \subseteq Nat /\ MaxCounts # {}
    /\ Failures \subseteq {"rename", "reopen"}
    /\ MaxTime \in Nat
    /\ MaxEvents \in Nat

VARIABLES
    now,            \* time(NULL)
    file,           \* output->file: "open", "NULL" or the output is "freed"
    rotation,       \* rotation_max_size, rotation_max_age, rotation_max_count
    last_rotation,
    current,        \* the file at the path
    rotated,        \* the files at the path with a timestamp
    written,        \* history: events whose write returned 0
    offered,        \* history: events given to the output
    deleted         \* history: events in files removed by the count limit

vars == <<now, file, rotation, last_rotation, current, rotated, written,
          offered, deleted>>

Contents == [events : SUBSET (1..MaxEvents), mtime : Nat]
RotatedFile == [stamp : Nat, events : SUBSET (1..MaxEvents), mtime : Nat]
Rotation == [size : MaxSizes, age : MaxAges, count : MaxCounts]

----------------------------------------------------------------------------
(* nblex_file_output_new on a path without a file, for each choice of      *)
(* limits (the code's own are 100 MB, 7 days and 10 files).                *)
Init ==
    /\ now = 0
    /\ file = "open"
    /\ rotation \in Rotation
    /\ last_rotation = 0
    /\ current = [events |-> {}, mtime |-> 0]
    /\ rotated = {}
    /\ written = {}
    /\ offered = 0
    /\ deleted = {}

(* nblex_file_output_set_rotation *)
SetRotation(r) ==
    /\ file # "freed"
    /\ rotation' = r
    /\ UNCHANGED <<now, file, last_rotation, current, rotated, written, offered, deleted>>

ShouldRotate ==
    \/ rotation.size > 0 /\ Cardinality(current.events) >= rotation.size
    \/ rotation.age > 0 /\ now - last_rotation >= rotation.age

(* rename(path, path.timestamp) replaces a file that was rotated in the    *)
(* same second.                                                            *)
RenamedEmptied ==
    rotated \cup {[stamp |-> now, events |-> {}, mtime |-> current.mtime]}
Renamed ==
    {r \in rotated : r.stamp # now}
        \cup {[stamp |-> now, events |-> current.events, mtime |-> current.mtime]}

(* cleanup_old_rotated_files: which files remain.  They are sorted by      *)
(* modification time, in no particular order when that is equal.           *)
KeptOldest(files) ==
    {keep \in SUBSET files :
        IF rotation.count > 0 /\ Cardinality(files) > rotation.count
        THEN /\ Cardinality(keep) = rotation.count
             /\ \A k \in keep, d \in files \ keep : k.mtime <= d.mtime
        ELSE keep = files}
KeptOneMore(files) ==
    {keep \in SUBSET files :
        IF rotation.count > 0 /\ Cardinality(files) > rotation.count + 1
        THEN /\ Cardinality(keep) = rotation.count + 1
             /\ \A k \in keep, d \in files \ keep : k.mtime >= d.mtime
        ELSE keep = files}
Kept(files) ==
    {keep \in SUBSET files :
        IF rotation.count > 0 /\ Cardinality(files) > rotation.count
        THEN /\ Cardinality(keep) = rotation.count
             /\ \A k \in keep, d \in files \ keep : k.mtime >= d.mtime
        ELSE keep = files}

EventsIn(files) == UNION {r.events : r \in files}

(* rotate_file_if_needed, when it is needed: close, rename, clean up.  A   *)
(* rename that fails is not noticed, and the events stay at the path.      *)
Rotate(renames) ==
    LET files == IF renames THEN Renamed ELSE rotated
    IN  \E keep \in Kept(files) :
            /\ rotated' = keep
            /\ deleted' = deleted \cup EventsIn(files \ keep)

LeftAtPath(renames) == IF renames THEN {} ELSE current.events

(* nblex_file_output_write: rotate if needed, reopen, append the event.    *)
Write ==
    /\ file = "open"
    /\ offered < MaxEvents
    /\ ~ShouldRotate
    /\ offered' = offered + 1
    /\ current' = [events |-> current.events \cup {offered + 1}, mtime |-> now]
    /\ written' = written \cup {offered + 1}
    /\ UNCHANGED <<now, file, rotation, last_rotation, rotated, deleted>>

RotateAndWrite(renames) ==
    /\ file = "open"
    /\ offered < MaxEvents
    /\ ShouldRotate
    /\ renames \/ "rename" \in Failures
    /\ offered' = offered + 1
    /\ Rotate(renames)
    /\ current' = [events |-> LeftAtPath(renames) \cup {offered + 1}, mtime |-> now]
    /\ written' = written \cup {offered + 1}
    /\ last_rotation' = now
    /\ UNCHANGED <<now, file, rotation>>

(* The file cannot be reopened: the write fails, and so does every later   *)
(* one, since the output now has no file.                                  *)
RotateAndFail(renames) ==
    /\ "reopen" \in Failures
    /\ file = "open"
    /\ offered < MaxEvents
    /\ ShouldRotate
    /\ renames \/ "rename" \in Failures
    /\ offered' = offered + 1
    /\ file' = "NULL"
    /\ Rotate(renames)
    /\ current' = [current EXCEPT !.events = LeftAtPath(renames)]
    /\ UNCHANGED <<now, rotation, last_rotation, written>>

WriteWithoutFile ==
    /\ file = "NULL"
    /\ offered < MaxEvents
    /\ offered' = offered + 1
    /\ UNCHANGED <<now, file, rotation, last_rotation, current, rotated, written, deleted>>

(* nblex_file_output_free *)
Free ==
    /\ file # "freed"
    /\ file' = "freed"
    /\ UNCHANGED <<now, rotation, last_rotation, current, rotated, written, offered, deleted>>

(* The clock (external: time).                                             *)
Tick ==
    /\ now < MaxTime
    /\ now' = now + 1
    /\ UNCHANGED <<file, rotation, last_rotation, current, rotated, written, offered, deleted>>

Next ==
    \/ \E r \in Rotation : SetRotation(r)
    \/ Write
    \/ \E renames \in BOOLEAN : RotateAndWrite(renames) \/ RotateAndFail(renames)
    \/ WriteWithoutFile
    \/ Free
    \/ Tick

Spec == Init /\ [][Next]_vars
----------------------------------------------------------------------------
(* The types of the output's state.                                        *)
TypeOK ==
    /\ now \in Nat
    /\ file \in {"open", "NULL", "freed"}
    /\ rotation \in Rotation
    /\ last_rotation \in Nat /\ last_rotation <= now
    /\ current \in Contents
    /\ rotated \subseteq RotatedFile
    /\ written \subseteq 1..offered
    /\ offered \in 0..MaxEvents
    /\ deleted \subseteq written

(* An event whose write was reported as a success stays on the disk until  *)
(* the limit on the number of files removes it, whatever is rotated, when, *)
(* and whichever rename or reopen fails.                                   *)
NothingLost == written = current.events \cup EventsIn(rotated) \cup deleted

(* The count limit removes the oldest events: what remains on the disk is  *)
(* later than everything it has deleted.                                   *)
DeletesOldest ==
    \A d \in deleted : \A e \in current.events \cup EventsIn(rotated) : d < e

(* A rotation leaves at most rotation_max_count rotated files.             *)
CountEnforced ==
    [][rotated' # rotated /\ rotation.count > 0
       => Cardinality(rotated') <= rotation.count]_vars
=============================================================================
