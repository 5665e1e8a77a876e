------------------------------ MODULE FileTail ------------------------------
(***************************************************************************)
(* Tailing a log file (input/file_input.c): the input's FILE and its       *)
(* end-of-file flag on one side, the process that writes, rotates and      *)
(* truncates the log on the other.                                         *)
(*                                                                         *)
(* The writer is a process of its own, so it acts between any two system   *)
(* calls of the input: the check for new data, each fgets, and the event   *)
(* handler that runs for each line are separate steps.                     *)
(*                                                                         *)
(* A file is a sequence of pieces, each the whole of a line or the part of *)
(* it that one write appended; a size or a position counts pieces.  Every  *)
(* piece fits in the 4096-byte buffer of fgets, which holds BufferSize of  *)
(* them.  Parsing a line into its event does not matter here: each format  *)
(* falls back to an event with the raw line.                               *)
(***************************************************************************)
EXTENDS Naturals, Sequences

CONSTANTS
    Writer,      \* what the writer does besides appending whole lines
    Handler,     \* what the event handler may do: "stop" the world
    BufferSize,  \* the pieces that fit in the buffer of fgets
    MaxLines,    \* bound: lines written
    MaxFiles,    \* bound: files that have had the path
    MaxStarts    \* bound: starts of the input

ASSUME TailAssumption ==
    /\ Writer \subseteq {"partial", "rotate", "truncate"}
    /\ Handler \subseteq {"stop"}
    /\ BufferSize \in Nat \ {0}
    /\ MaxLines \in Nat
    /\ MaxFiles \in Nat \ {0}
    /\ MaxStarts \in Nat

VARIABLES
    content,    \* the pieces in each file that has had the path
    path,       \* the file that has, or was the last to have, the path
    exists,     \* whether a file has the path
    lines,      \* lines begun by the writer
    unfinished, \* whether the writer owes the rest of the last line
    open,       \* the file data->file reads, or 0 when it is NULL
    pos,        \* ftell(data->file)
    eof,        \* feof(data->file)
    pc,         \* where file_read_new_data is
    emitted,    \* history: the pieces of each event emitted
    owed,       \* history: lines completed at the path while the input runs
    starts,     \* history: starts of the input
    faults      \* history: reads through a NULL FILE

writer == <<content, path, exists, lines, unfinished>>
reader == <<open, pos, eof, pc>>
vars == <<writer, reader, emitted, owed, starts, faults>>

Piece == [line : Nat, begins : BOOLEAN, ends : BOOLEAN]

Files == 1..MaxFiles
----------------------------------------------------------------------------
(* A log that holds one line already, and an input that is not started.    *)
Init ==
    /\ content = [f \in Files |->
           IF f = 1 THEN <<[line |-> 1, begins |-> TRUE, ends |-> TRUE]>> ELSE <<>>]
    /\ path = 1
    /\ exists = TRUE
    /\ lines = 1
    /\ unfinished = FALSE
    /\ open = 0
    /\ pos = 0
    /\ eof = FALSE
    /\ pc = "idle"
    /\ emitted = <<>>
    /\ owed = {}
    /\ starts = 0
    /\ faults = 0

(* The writer (external).                                                  *)
Write(begins, ends) ==
    /\ exists
    /\ begins = ~unfinished
    /\ begins => lines < MaxLines
    /\ lines' = IF begins THEN lines + 1 ELSE lines
    /\ unfinished' = ~ends
    /\ content' = [content EXCEPT ![path] =
           @ \o <<[line |-> lines', begins |-> begins, ends |-> ends]>>]
    /\ owed' = IF ends /\ open # 0 THEN owed \cup {lines'} ELSE owed
    /\ UNCHANGED <<path, exists, reader, emitted, starts, faults>>

WriteLine == Write(TRUE, TRUE)
WriteHead == "partial" \in Writer /\ Write(TRUE, FALSE)
WriteTail == Write(FALSE, TRUE)

(* Rotation by rename: the log moves away, then a new one is created.      *)
Rotate ==
    /\ "rotate" \in Writer
    /\ ~unfinished
    /\ exists
    /\ path < MaxFiles
    /\ exists' = FALSE
    /\ UNCHANGED <<content, path, lines, unfinished, reader, emitted, owed, starts, faults>>

Create ==
    /\ ~exists
    /\ exists' = TRUE
    /\ path' = path + 1
    /\ UNCHANGED <<content, lines, unfinished, reader, emitted, owed, starts, faults>>

(* Rotation by copy and truncation; lines nobody had read are gone.        *)
Truncate ==
    /\ "truncate" \in Writer
    /\ exists
    /\ ~unfinished
    /\ content[path] # <<>>
    /\ content' = [content EXCEPT ![path] = <<>>]
    /\ owed' = {}
    /\ UNCHANGED <<path, exists, lines, unfinished, reader, emitted, starts, faults>>
----------------------------------------------------------------------------
(* file_input_start: open the file and seek to its end.  It fails if there *)
(* is no file at the path.  Watching starts: see World for the handles.    *)
StartAtBeginning ==
    /\ open = 0 /\ pc = "idle"
    /\ starts < MaxStarts
    /\ exists
    /\ open' = path
    /\ pos' = 0
    /\ eof' = FALSE
    /\ starts' = starts + 1
    /\ UNCHANGED <<writer, pc, emitted, owed, faults>>
Start ==
    /\ open = 0 /\ pc = "idle"
    /\ starts < MaxStarts
    /\ exists
    /\ open' = path
    /\ pos' = Len(content[path])
    /\ eof' = FALSE
    /\ starts' = starts + 1
    /\ UNCHANGED <<writer, pc, emitted, owed, faults>>

(* file_input_stop, called between callbacks or by the event handler that  *)
(* is running for a line.                                                  *)
Stop ==
    /\ open # 0
    /\ pc = "idle" \/ (pc = "handling" /\ "stop" \in Handler)
    /\ open' = 0
    /\ owed' = {}
    /\ UNCHANGED <<writer, pos, eof, pc, emitted, starts, faults>>

(* file_read_new_data, up to its loop; called by file_poll_timer_cb every  *)
(* 100 ms and by file_fs_event_cb when the directory reports the file.  It *)
(* compares the position with the size of whatever file has the path now,  *)
(* and returns at the end of a file that has not grown.                    *)
ReadNewDataKeepingEof ==
    /\ pc = "idle"
    /\ open # 0
    /\ \/ ~exists
       \/ Len(content[path]) > pos
       \/ ~eof
    /\ pc' = "reading"
    /\ UNCHANGED <<writer, open, pos, eof, emitted, owed, starts, faults>>
ReadNewData ==
    /\ pc = "idle"
    /\ open # 0
    /\ \/ ~exists
       \/ Len(content[path]) > pos
       \/ ~eof
    /\ eof' = FALSE
    /\ pc' = "reading"
    /\ UNCHANGED <<writer, open, pos, emitted, owed, starts, faults>>

(* How many pieces fgets returns: up to the end of a line, the end of the  *)
(* file or a full buffer.                                                  *)
FgetsLength(rest) ==
    CHOOSE n \in 1..Len(rest) :
        /\ rest[n].ends \/ n = Len(rest) \/ n = BufferSize
        /\ \A m \in 1 .. n - 1 : ~rest[m].ends /\ m < BufferSize

(* One iteration of the loop.  With nothing to read, or the end-of-file    *)
(* flag set by an iteration that met the end in the middle of a line,      *)
(* fgets returns NULL and the loop ends; otherwise what was read becomes   *)
(* an event, and the handler runs.                                         *)
ReadLine ==
    LET file == content[open]
        rest == SubSeq(file, pos + 1, Len(file))
        n == FgetsLength(rest)
    IN  /\ pc = "reading"
        /\ open # 0
        /\ IF eof \/ rest = <<>>
           THEN /\ eof' = TRUE
                /\ pc' = "idle"
                /\ UNCHANGED <<pos, emitted>>
           ELSE /\ pos' = pos + n
                /\ emitted' = emitted \o <<SubSeq(rest, 1, n)>>
                /\ eof' = (n = Len(rest) /\ ~rest[n].ends /\ n < BufferSize)
                /\ pc' = "handling"
        /\ UNCHANGED <<writer, open, owed, starts, faults>>

(* The event handler returns to the loop.                                  *)
HandlerReturns ==
    /\ pc = "handling"
    /\ pc' = "reading"
    /\ UNCHANGED <<writer, open, pos, eof, emitted, owed, starts, faults>>

(* The loop reads data->file again on each iteration: after a stop by the  *)
(* handler it is NULL, and the call of fgets is undefined.  The model ends *)
(* the callback here.                                                      *)
ReadClosed ==
    /\ pc = "reading"
    /\ open = 0
    /\ faults' = faults + 1
    /\ pc' = "idle"
    /\ UNCHANGED <<writer, open, pos, eof, emitted, owed, starts>>

Next ==
    \/ WriteLine \/ WriteHead \/ WriteTail
    \/ Rotate \/ Create \/ Truncate
    \/ Start \/ Stop
    \/ ReadNewData \/ ReadLine \/ HandlerReturns \/ ReadClosed

Spec == Init /\ [][Next]_vars

(* The poll timer runs, and a callback that has begun is finished.  The    *)
(* writer and the caller are not obliged to do anything.                   *)
FairSpec ==
    /\ Spec
    /\ WF_vars(ReadNewData)
    /\ WF_vars(ReadLine)
    /\ WF_vars(HandlerReturns)
----------------------------------------------------------------------------
(* The types of the tail's state.                                          *)
TypeOK ==
    /\ content \in [Files -> Seq(Piece)]
    /\ path \in Files
    /\ exists \in BOOLEAN
    /\ lines \in Nat
    /\ unfinished \in BOOLEAN
    /\ open \in Files \cup {0}
    /\ pos \in Nat
    /\ eof \in BOOLEAN
    /\ pc \in {"idle", "reading", "handling"}
    /\ emitted \in Seq(Seq(Piece))
    /\ owed \subseteq Nat
    /\ starts \in Nat
    /\ faults \in Nat

Before(p, q) == p.line < q.line \/ (p.line = q.line /\ p.begins /\ ~q.begins)

(* Nothing is emitted twice or out of order, through restarts, rotations,  *)
(* truncations and lines written in parts.                                 *)
InOrder ==
    \A i, j \in 1..Len(emitted) :
        i < j => \A k \in 1..Len(emitted[i]), m \in 1..Len(emitted[j]) :
                     Before(emitted[i][k], emitted[j][m])

(* The line that was already there is history: tailing begins at the end.  *)
Reported(i) ==
    \E k \in 1..Len(emitted) : \E m \in 1..Len(emitted[k]) :
        emitted[k][m].line = i /\ emitted[k][m].ends

(* A line completed while the input runs is emitted, unless the input is   *)
(* stopped first.                                                          *)
LinesReported ==
    \A i \in 1..MaxLines : (i \in owed) ~> (Reported(i) \/ i \notin owed)

(* The open file is no longer the log: it was renamed, or it was truncated *)
(* to less than the position.                                              *)
LeftBehind == open # path \/ ~exists \/ pos >= Len(content[path])

(* A line completed while the input runs is emitted, unless the input is   *)
(* stopped first or rotation leaves it behind: the end-of-file flag and    *)
(* the size check never leave a line unread, wherever the append falls     *)
(* between the calls of the reader, after a partial line or a restart.     *)
LinesFollowed ==
    \A i \in 1..MaxLines :
        (i \in owed) ~> (Reported(i) \/ i \notin owed \/ LeftBehind)

(* Each event is one whole line.                                           *)
LinesWhole ==
    \A k \in 1..Len(emitted) :
        emitted[k][1].begins /\ emitted[k][Len(emitted[k])].ends

(* Once the input is stopped it reads no more.                             *)
StopEndsReading == faults = 0
=============================================================================
