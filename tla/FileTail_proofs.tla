--------------------------- MODULE FileTail_proofs ---------------------------
(***************************************************************************)
(* Proofs about the tail of a log file, for every writer, handler and size *)
(* of buffer, and any number of lines, files and starts.                   *)
(***************************************************************************)
EXTENDS FileTail, SequenceTheorems, WellFoundedInduction, TLAPS

(* The writer is past a piece: the next one it appends comes after it.     *)
Past(p) == p.line <= lines /\ (unfinished /\ p.line = lines => p.begins)

WriterAhead ==
    /\ \A f \in Files : \A k \in 1..Len(content[f]) : Past(content[f][k])
    /\ \A i \in 1..Len(emitted) : \A k \in 1..Len(emitted[i]) : Past(emitted[i][k])

(* The pieces of a file are in the order in which they were written.       *)
FilesSorted ==
    \A f \in Files : \A i, j \in 1..Len(content[f]) :
        i < j => Before(content[f][i], content[f][j])

(* What has been emitted comes before all that is still to be read.        *)
UnreadLater ==
    open # 0 =>
        \A i \in 1..Len(emitted) : \A k \in 1..Len(emitted[i]) :
            \A m \in 1..Len(content[open]) :
                m > pos => Before(emitted[i][k], content[open][m])

(* A name is free for the log that follows one that has been moved away.   *)
RoomForNext == ~exists => path < MaxFiles

Inv ==
    /\ TypeOK
    /\ RoomForNext
    /\ WriterAhead
    /\ FilesSorted
    /\ UnreadLater
    /\ InOrder

----------------------------------------------------------------------------
(* A set of natural numbers that is not empty has a least one.             *)
LEMMA LeastNatural ==
    ASSUME NEW T \in SUBSET Nat, T # {}
    PROVE  \E n \in T : \A m \in T : n <= m
<1>1. PICK n \in T : \A m \in T : ~(<<m, n>> \in OpToRel(<, Nat))
  BY WFMin, NatLessThanWellFounded
<1>2. \A m \in T : ~(m < n)
  BY <1>1 DEF OpToRel
<1>. QED  BY <1>2

(* One call of fgets returns at least one piece and no more than there is. *)
LEMMA FgetsReturns ==
    ASSUME NEW rest \in Seq(Piece), rest # <<>>
    PROVE  FgetsLength(rest) \in 1..Len(rest)
<1>. DEFINE Ends(n) == rest[n].ends \/ n = Len(rest) \/ n = BufferSize
            T == {n \in 1..Len(rest) : Ends(n)}
<1>1. Len(rest) \in 1..Len(rest)
  BY EmptySeq, LenProperties
<1>2. T \in SUBSET Nat /\ T # {}
  BY <1>1
<1>3. PICK n \in T : \A m \in T : n <= m
  BY <1>2, LeastNatural
<1>4. \A m \in 1 .. n - 1 : ~rest[m].ends /\ m < BufferSize
  <2>. SUFFICES ASSUME NEW m \in 1 .. n - 1 PROVE ~rest[m].ends /\ m < BufferSize
    OBVIOUS
  <2>1. \A k \in 1 .. n - 1 : k \in 1..Len(rest) /\ ~Ends(k)
    BY <1>1, <1>3
  <2>2. ~rest[m].ends
    BY <2>1
  <2>3. CASE BufferSize < m
    BY <2>1, <2>3, TailAssumption
  <2>4. CASE ~(BufferSize < m)
    BY <2>1, <2>4, TailAssumption
  <2>. QED  BY <2>2, <2>3, <2>4
<1>. HIDE DEF T
<1>5. \E n_1 \in 1..Len(rest) :
        /\ rest[n_1].ends \/ n_1 = Len(rest) \/ n_1 = BufferSize
        /\ \A m \in 1 .. n_1 - 1 : ~rest[m].ends /\ m < BufferSize
  BY <1>3, <1>4 DEF T
<1>. QED  BY <1>5 DEF FgetsLength

(* Appending one element.                                                  *)
LEMMA Appended ==
    ASSUME NEW S, NEW s \in Seq(S), NEW e \in S
    PROVE  /\ s \o <<e>> \in Seq(S)
           /\ Len(s \o <<e>>) = Len(s) + 1
           /\ \A i \in 1..Len(s) : (s \o <<e>>)[i] = s[i]
           /\ (s \o <<e>>)[Len(s) + 1] = e
           /\ \A i \in 1..Len(s \o <<e>>) : i \in 1..Len(s) \/ i = Len(s) + 1
<1>1. <<e>> \in Seq(S) /\ Len(<<e>>) = 1 /\ <<e>>[1] = e
  OBVIOUS
<1>. QED  BY <1>1, ConcatProperties, LenProperties

----------------------------------------------------------------------------
LEMMA InvInit == Init => Inv
<1>. SUFFICES ASSUME Init PROVE Inv
  OBVIOUS
<1>. DEFINE first == [line |-> 1, begins |-> TRUE, ends |-> TRUE]
<1>1. first \in Piece /\ first.line = 1 /\ 1 \in Files
  BY TailAssumption DEF Piece, Files
<1>2. content = [f \in Files |-> IF f = 1 THEN <<first>> ELSE <<>>]
  BY DEF Init
<1>. HIDE DEF first
<1>3. <<first>> \in Seq(Piece) /\ <<>> \in Seq(Piece) /\ <<>> \in Seq(Seq(Piece))
  BY <1>1
<1>4. content \in [Files -> Seq(Piece)]
  BY <1>2, <1>3
<1>5. TypeOK
  BY <1>1, <1>3, <1>4 DEF Init, TypeOK
<1>6. \A f \in Files : \A k \in 1..Len(content[f]) : f = 1 /\ k = 1 /\ content[f][k] = first
  BY <1>2
<1>7. WriterAhead /\ FilesSorted
  BY <1>1, <1>6 DEF Init, WriterAhead, FilesSorted, Past
<1>. QED  BY <1>5, <1>7 DEF Init, Inv, RoomForNext, UnreadLater, InOrder

(* A new piece comes after everything written so far.                      *)
LEMMA NewPiece ==
    ASSUME Inv, NEW begins \in BOOLEAN, NEW ends \in BOOLEAN, begins \/ ends,
           Write(begins, ends),
           NEW new, new = [line |-> lines', begins |-> begins, ends |-> ends]
    PROVE  /\ new \in Piece /\ lines' \in Nat
           /\ Past(new)'
           /\ \A p \in Piece : Past(p) => Past(p)' /\ Before(p, new)
<1>1. lines' \in Nat /\ lines \in Nat /\ lines' = (IF begins THEN lines + 1 ELSE lines)
  BY DEF Inv, TypeOK, Write
<1>2. new \in Piece /\ new.line = lines' /\ new.begins = begins
  BY <1>1 DEF Piece
<1>3. begins = ~unfinished /\ unfinished' = ~ends
  BY DEF Write
<1>. QED  BY <1>1, <1>2, <1>3 DEF Past, Before, Piece

LEMMA WriteInv ==
    ASSUME Inv, NEW begins \in BOOLEAN, NEW ends \in BOOLEAN, begins \/ ends,
           Write(begins, ends)
    PROVE  Inv'
<1>. PICK new : new = [line |-> lines', begins |-> begins, ends |-> ends]
  OBVIOUS
<1>. DEFINE grown == content[path] \o <<new>>
<1>1. /\ new \in Piece /\ lines' \in Nat
      /\ Past(new)'
      /\ \A p \in Piece : Past(p) => Past(p)' /\ Before(p, new)
  BY NewPiece
<1>2. content' = [content EXCEPT ![path] = grown]
  BY DEF Write
<1>3. UNCHANGED <<path, exists, open, pos, eof, pc, emitted, starts, faults>>
  BY DEF Write, reader
<1>4. owed' \subseteq Nat /\ unfinished' \in BOOLEAN
  BY <1>1 DEF Inv, TypeOK, Write
<1>5. content \in [Files -> Seq(Piece)] /\ path \in Files
  BY DEF Inv, TypeOK
<1>6. /\ grown \in Seq(Piece)
      /\ Len(grown) = Len(content[path]) + 1
      /\ \A k \in 1..Len(content[path]) : grown[k] = content[path][k]
      /\ grown[Len(content[path]) + 1] = new
      /\ \A k \in 1..Len(grown) : k \in 1..Len(content[path]) \/ k = Len(content[path]) + 1
  BY <1>1, <1>5, Appended
<1>. HIDE DEF grown
<1>7. /\ content' \in [Files -> Seq(Piece)]
      /\ content'[path] = grown
      /\ \A f \in Files : f # path => content'[f] = content[f]
  BY <1>2, <1>5, <1>6
<1>8. \A f \in Files : \A k \in 1..Len(content[f]) : content[f][k] \in Piece
  BY <1>5, ElementOfSeq
<1>9. \A i \in 1..Len(emitted) : \A k \in 1..Len(emitted[i]) : emitted[i][k] \in Piece
  BY ElementOfSeq DEF Inv, TypeOK
<1>10. TypeOK' /\ RoomForNext'
  BY <1>1, <1>3, <1>4, <1>7 DEF Inv, TypeOK, RoomForNext
<1>11. WriterAhead'
  <2>1. ASSUME NEW f \in Files, NEW k \in 1..Len(content'[f]) PROVE Past(content[f][k])'
    BY <1>1, <1>6, <1>7, <1>8 DEF Inv, WriterAhead
  <2>2. ASSUME NEW i \in 1..Len(emitted), NEW k \in 1..Len(emitted[i])
        PROVE  Past(emitted[i][k])'
    BY <1>1, <1>3, <1>9 DEF Inv, WriterAhead
  <2>. QED  BY <1>3, <2>1, <2>2 DEF WriterAhead
<1>12. FilesSorted'
  <2>. SUFFICES ASSUME NEW f \in Files, NEW i \in 1..Len(content'[f]),
                       NEW j \in 1..Len(content'[f]), i < j
                PROVE  Before(content'[f][i], content'[f][j])
    BY DEF FilesSorted
  <2>1. CASE f # path
    BY <1>7, <2>1 DEF Inv, FilesSorted
  <2>2. CASE f = path /\ j \in 1..Len(content[path])
    <3>1. i \in 1..Len(content[path])
      BY <1>5, <2>2, LenProperties
    <3>. QED  BY <1>5, <1>6, <1>7, <2>2, <3>1 DEF Inv, FilesSorted
  <2>3. CASE f = path /\ j = Len(content[path]) + 1
    <3>1. i \in 1..Len(content[path])
      BY <1>5, <2>3, LenProperties
    <3>2. content'[f][i] = content[path][i] /\ content'[f][j] = new
      BY <1>6, <1>7, <2>3, <3>1
    <3>. QED  BY <1>1, <1>5, <1>8, <3>1, <3>2 DEF Inv, WriterAhead
  <2>. QED  BY <1>6, <1>7, <2>1, <2>2, <2>3
<1>13. UnreadLater'
  <2>. SUFFICES ASSUME open # 0, NEW i \in 1..Len(emitted), NEW k \in 1..Len(emitted[i]),
                       NEW m \in 1..Len(content'[open]), m > pos
                PROVE  Before(emitted[i][k], content'[open][m])
    BY <1>3 DEF UnreadLater
  <2>1. open \in Files
    BY DEF Inv, TypeOK
  <2>2. CASE m \in 1..Len(content[open])
    BY <1>6, <1>7, <2>1, <2>2 DEF Inv, UnreadLater
  <2>3. CASE open = path /\ m = Len(content[path]) + 1
    <3>1. content'[open][m] = new /\ Past(emitted[i][k])
      BY <1>6, <1>7, <2>3 DEF Inv, WriterAhead
    <3>. QED  BY <1>1, <1>9, <3>1
  <2>. QED  BY <1>6, <1>7, <2>1, <2>2, <2>3
<1>14. InOrder'
  BY <1>3 DEF Inv, InOrder
<1>. QED  BY <1>10, <1>11, <1>12, <1>13, <1>14 DEF Inv

(* What is left of a sequence after a position, and the beginning of one.  *)
LEMMA RestOf ==
    ASSUME NEW S, NEW s \in Seq(S), NEW p \in Nat,
           NEW rest, rest = SubSeq(s, p + 1, Len(s))
    PROVE  /\ rest \in Seq(S)
           /\ rest # <<>> => Len(rest) = Len(s) - p
           /\ \A k \in 1..Len(rest) : p + k \in 1..Len(s) /\ rest[k] = s[p + k]
<1>. DEFINE b == p + 1
            len == Len(s)
<1>1. len \in Nat /\ b \in Int
  BY LenProperties
<1>2. \A i \in b..len : s[i] \in S
  BY ElementOfSeq
<1>. HIDE DEF b, len
<1>3. /\ rest \in Seq(S)
      /\ Len(rest) = IF b <= len THEN len - b + 1 ELSE 0
      /\ \A i \in 1 .. len - b + 1 : rest[i] = s[b + i - 1]
  <2>1. /\ SubSeq(s, b, len) \in Seq(S)
        /\ Len(SubSeq(s, b, len)) = IF b <= len THEN len - b + 1 ELSE 0
        /\ \A i \in 1 .. len - b + 1 : SubSeq(s, b, len)[i] = s[b + i - 1]
    <3>1. len \in Int
      BY <1>1
    <3>. QED  BY <1>1, <1>2, <3>1, SubSeqProperties
  <2>. QED  BY <2>1 DEF b, len
<1>4. rest # <<>> => Len(rest) > 0
  BY <1>3, EmptySeq
<1>5. \A k \in 1..Len(rest) : p + k \in 1..len /\ rest[k] = s[p + k]
  <2>. SUFFICES ASSUME NEW k \in 1..Len(rest)
                PROVE  p + k \in 1..len /\ rest[k] = s[p + k]
    OBVIOUS
  <2>1. b = p + 1 /\ k \in 1 .. len - b + 1
    BY <1>1, <1>3 DEF b
  <2>2. b + k - 1 = p + k
    BY <2>1
  <2>3. rest[k] = s[b + k - 1]
    BY <1>3, <2>1
  <2>. QED  BY <1>1, <2>1, <2>2, <2>3
<1>. QED  BY <1>1, <1>3, <1>4, <1>5 DEF b, len

LEMMA BeginningOf ==
    ASSUME NEW S, NEW s \in Seq(S), NEW n \in 1..Len(s)
    PROVE  /\ SubSeq(s, 1, n) \in Seq(S)
           /\ Len(SubSeq(s, 1, n)) = n
           /\ \A k \in 1..n : SubSeq(s, 1, n)[k] = s[k]
<1>1. n \in Int /\ 1 \in Int /\ 1 <= n /\ Len(s) \in Nat
  BY LenProperties
<1>2. \A i \in 1..n : s[i] \in S
  BY <1>1, ElementOfSeq
<1>3. /\ SubSeq(s, 1, n) \in Seq(S)
      /\ Len(SubSeq(s, 1, n)) = (IF 1 <= n THEN n - 1 + 1 ELSE 0)
      /\ \A i \in 1 .. n - 1 + 1 : SubSeq(s, 1, n)[i] = s[1 + i - 1]
  BY <1>1, <1>2, SubSeqProperties
<1>4. n - 1 + 1 = n /\ \A k \in 1..n : 1 + k - 1 = k
  BY <1>1
<1>. QED  BY <1>1, <1>3, <1>4

(* What one iteration of the loop emits, and what is left to read.         *)
LEMMA ReadPieces ==
    ASSUME TypeOK, open # 0,
           NEW rest, rest = SubSeq(content[open], pos + 1, Len(content[open])),
           rest # <<>>,
           NEW read, read = SubSeq(rest, 1, FgetsLength(rest))
    PROVE  /\ FgetsLength(rest) \in Nat
           /\ read \in Seq(Piece) /\ Len(read) = FgetsLength(rest)
           /\ \A k \in 1..Len(read) :
                 /\ pos + k \in 1..Len(content[open])
                 /\ read[k] = content[open][pos + k]
<1>1. content[open] \in Seq(Piece) /\ pos \in Nat
  BY DEF TypeOK
<1>2. /\ rest \in Seq(Piece)
      /\ \A k \in 1..Len(rest) : /\ pos + k \in 1..Len(content[open])
                                /\ rest[k] = content[open][pos + k]
  BY <1>1, RestOf
<1>3. FgetsLength(rest) \in 1..Len(rest) /\ Len(rest) \in Nat
  BY <1>2, FgetsReturns, LenProperties
<1>4. /\ read \in Seq(Piece)
      /\ Len(read) = FgetsLength(rest)
      /\ \A k \in 1..FgetsLength(rest) : read[k] = rest[k]
  BY <1>2, <1>3, BeginningOf
<1>. QED  BY <1>2, <1>3, <1>4

LEMMA ReadLineInv == Inv /\ ReadLine => Inv'
<1>. SUFFICES ASSUME Inv, ReadLine PROVE Inv'
  OBVIOUS
<1>1. PICK rest : rest = SubSeq(content[open], pos + 1, Len(content[open]))
  OBVIOUS
<1>2. UNCHANGED <<writer, open, owed, starts, faults>> /\ open # 0 /\ open \in Files
  BY DEF ReadLine, Inv, TypeOK
<1>3. CASE eof \/ rest = <<>>
  <2>1. UNCHANGED <<pos, emitted>> /\ eof' = TRUE /\ pc' = "idle"
    BY <1>1, <1>3 DEF ReadLine
  <2>. QED
    BY <1>2, <2>1 DEF writer, Inv, TypeOK, RoomForNext, WriterAhead, FilesSorted,
                      UnreadLater, InOrder, Past
<1>4. CASE ~(eof \/ rest = <<>>)
  <2>. DEFINE n == FgetsLength(rest)
  <2>1. PICK read : read = SubSeq(rest, 1, n)
    OBVIOUS
  <2>2. /\ pos' = pos + n /\ emitted' = emitted \o <<read>> /\ pc' = "handling"
        /\ eof' = (n = Len(rest) /\ ~rest[n].ends /\ n < BufferSize)
    BY <1>1, <1>4, <2>1 DEF ReadLine
  <2>3. /\ n \in Nat
        /\ read \in Seq(Piece) /\ Len(read) = n
        /\ \A k \in 1..Len(read) : /\ pos + k \in 1..Len(content[open])
                                  /\ read[k] = content[open][pos + k]
    BY <1>1, <1>2, <1>4, <2>1, ReadPieces DEF Inv
  <2>. HIDE DEF n
  <2>4. pos \in Nat /\ emitted \in Seq(Seq(Piece)) /\ content[open] \in Seq(Piece)
    BY <1>2 DEF Inv, TypeOK
  <2>5. /\ emitted' \in Seq(Seq(Piece))
        /\ Len(emitted') = Len(emitted) + 1
        /\ \A i \in 1..Len(emitted) : emitted'[i] = emitted[i]
        /\ emitted'[Len(emitted) + 1] = read
        /\ \A i \in 1..Len(emitted') : i \in 1..Len(emitted) \/ i = Len(emitted) + 1
    BY <2>2, <2>3, <2>4, Appended
  <2>6. TypeOK' /\ RoomForNext'
    BY <1>2, <2>2, <2>3, <2>4, <2>5 DEF writer, Inv, TypeOK, RoomForNext
  <2>7. UNCHANGED <<content, lines, unfinished, open>>
    BY <1>2 DEF writer
  <2>8. ASSUME NEW i \in 1..Len(emitted'), NEW k \in 1..Len(emitted'[i])
        PROVE  \/ i \in 1..Len(emitted) /\ emitted'[i] = emitted[i]
               \/ /\ i = Len(emitted) + 1 /\ k \in 1..n
                  /\ pos + k \in 1..Len(content[open])
                  /\ emitted'[i][k] = content[open][pos + k]
    BY <2>3, <2>5
  <2>9. WriterAhead'
    <3>1. ASSUME NEW i \in 1..Len(emitted'), NEW k \in 1..Len(emitted'[i])
          PROVE  Past(emitted'[i][k])
      BY <1>2, <2>8 DEF Inv, WriterAhead
    <3>2. \A f \in Files : \A k \in 1..Len(content[f]) : Past(content[f][k])
      BY DEF Inv, WriterAhead
    <3>. QED  BY <2>7, <3>1, <3>2 DEF WriterAhead, Past
  <2>10. FilesSorted'
    BY <2>7 DEF Inv, FilesSorted
  <2>11. UnreadLater'
    <3>. SUFFICES ASSUME NEW i \in 1..Len(emitted'), NEW k \in 1..Len(emitted'[i]),
                         NEW m \in 1..Len(content[open]), m > pos + n
                  PROVE  Before(emitted'[i][k], content[open][m])
      BY <2>2, <2>7 DEF UnreadLater
    <3>1. m > pos
      BY <2>3, <2>4
    <3>2. CASE i \in 1..Len(emitted) /\ emitted'[i] = emitted[i]
      BY <1>2, <3>1, <3>2 DEF Inv, UnreadLater
    <3>3. CASE /\ k \in 1..n /\ pos + k \in 1..Len(content[open])
               /\ emitted'[i][k] = content[open][pos + k]
      <4>1. pos + k < m
        BY <2>3, <2>4, <3>3
      <4>. QED  BY <1>2, <3>3, <4>1 DEF Inv, FilesSorted
    <3>. QED  BY <2>8, <3>2, <3>3
  <2>12. InOrder'
    <3>. SUFFICES ASSUME NEW i \in 1..Len(emitted'), NEW j \in 1..Len(emitted'), i < j,
                         NEW k \in 1..Len(emitted'[i]), NEW m \in 1..Len(emitted'[j])
                  PROVE  Before(emitted'[i][k], emitted'[j][m])
      BY DEF InOrder
    <3>1. Len(emitted) \in Nat
      BY <2>4, LenProperties
    <3>2. i \in 1..Len(emitted) /\ emitted'[i] = emitted[i]
      BY <2>5, <3>1
    <3>3. CASE j \in 1..Len(emitted) /\ emitted'[j] = emitted[j]
      BY <3>2, <3>3 DEF Inv, InOrder
    <3>4. CASE /\ m \in 1..n /\ pos + m \in 1..Len(content[open])
               /\ emitted'[j][m] = content[open][pos + m]
      <4>1. pos + m > pos
        BY <2>3, <2>4, <3>4
      <4>. QED  BY <1>2, <3>2, <3>4, <4>1 DEF Inv, UnreadLater
    <3>. QED  BY <2>8, <3>3, <3>4
  <2>. QED  BY <2>6, <2>9, <2>10, <2>11, <2>12 DEF Inv
<1>. QED  BY <1>3, <1>4

(* The remaining steps move no piece and emit none.                        *)
LEMMA OtherInv ==
    ASSUME Inv, Rotate \/ Create \/ Truncate \/ Start \/ Stop \/ ReadNewData
                \/ HandlerReturns \/ ReadClosed \/ UNCHANGED vars
    PROVE  Inv'
<1>. USE DEF writer, reader
<1>1. CASE Rotate
  BY <1>1 DEF Rotate, Inv, TypeOK, RoomForNext, WriterAhead, FilesSorted, UnreadLater,
              InOrder, Past
<1>2. CASE Create
  <2>1. path + 1 \in Files
    BY <1>2, TailAssumption DEF Create, Inv, TypeOK, RoomForNext, Files
  <2>. QED
    BY <1>2, <2>1 DEF Create, Inv, TypeOK, RoomForNext, WriterAhead, FilesSorted,
                      UnreadLater, InOrder, Past
<1>3. CASE Truncate
  <2>1. /\ content' = [content EXCEPT ![path] = <<>>]
        /\ UNCHANGED <<path, exists, lines, unfinished, open, pos, eof, pc,
                       emitted, starts, faults>>
        /\ owed' = {}
    BY <1>3 DEF Truncate
  <2>2. /\ content' \in [Files -> Seq(Piece)]
        /\ \A f \in Files : content'[f] = content[f] \/ content'[f] = <<>>
    BY <2>1, EmptySeq DEF Inv, TypeOK
  <2>3. \A f \in Files : \A k \in 1..Len(content'[f]) : content'[f] = content[f]
    BY <2>2
  <2>4. TypeOK' /\ RoomForNext'
    BY <2>1, <2>2 DEF Inv, TypeOK, RoomForNext
  <2>5. WriterAhead' /\ FilesSorted' /\ UnreadLater'
    BY <2>1, <2>3 DEF Inv, TypeOK, WriterAhead, FilesSorted, UnreadLater, Past
  <2>. QED  BY <2>1, <2>4, <2>5 DEF Inv, InOrder
<1>4. CASE Start
  <2>1. open' = path /\ pos' = Len(content[path]) /\ starts' = starts + 1
    BY <1>4 DEF Start
  <2>2. UNCHANGED <<content, path, exists, lines, unfinished, pc, emitted, owed, faults>>
    BY <1>4 DEF Start
  <2>3. eof' \in BOOLEAN
    BY <1>4 DEF Start
  <2>4. path \in Files /\ pos' \in Nat /\ starts' \in Nat
    <3>1. path \in Files /\ content[path] \in Seq(Piece) /\ starts \in Nat
      BY DEF Inv, TypeOK
    <3>2. Len(content[path]) \in Nat
      BY <3>1, LenProperties
    <3>. QED  BY <2>1, <3>1, <3>2
  <2>5. TypeOK' /\ RoomForNext'
    BY <2>1, <2>2, <2>3, <2>4 DEF Inv, TypeOK, RoomForNext
  <2>6. UnreadLater'
    BY <2>1, <2>2, <2>4 DEF UnreadLater
  <2>. QED  BY <2>2, <2>5, <2>6 DEF Inv, WriterAhead, FilesSorted, InOrder, Past
<1>5. CASE Stop
  BY <1>5 DEF Stop, Inv, TypeOK, RoomForNext, WriterAhead, FilesSorted, UnreadLater,
              InOrder, Past
<1>6. CASE ReadNewData \/ HandlerReturns \/ ReadClosed \/ UNCHANGED vars
  <2>1. /\ UNCHANGED <<content, path, exists, lines, unfinished, open, pos, emitted>>
        /\ pc' \in {"idle", "reading", "handling"} /\ eof' \in BOOLEAN
        /\ owed' \subseteq Nat /\ starts' \in Nat /\ faults' \in Nat
    <3>1. CASE ReadNewData
      BY <3>1 DEF ReadNewData, Inv, TypeOK
    <3>2. CASE HandlerReturns
      BY <3>2 DEF HandlerReturns, Inv, TypeOK
    <3>3. CASE ReadClosed
      BY <3>3 DEF ReadClosed, Inv, TypeOK
    <3>4. CASE UNCHANGED vars
      BY <3>4 DEF vars, Inv, TypeOK
    <3>. QED  BY <1>6, <3>1, <3>2, <3>3, <3>4
  <2>. QED
    BY <2>1 DEF Inv, TypeOK, RoomForNext, WriterAhead, FilesSorted, UnreadLater,
                InOrder, Past
<1>. QED  BY <1>1, <1>2, <1>3, <1>4, <1>5, <1>6

LEMMA InvNext == Inv /\ [Next]_vars => Inv'
<1>. SUFFICES ASSUME Inv, [Next]_vars PROVE Inv'
  OBVIOUS
<1>1. CASE WriteLine \/ WriteHead \/ WriteTail
  BY <1>1, WriteInv DEF WriteLine, WriteHead, WriteTail
<1>2. CASE ReadLine
  BY <1>2, ReadLineInv
<1>. QED  BY <1>1, <1>2, OtherInv DEF Next

(* Nothing is emitted twice or out of order, however lines are split,      *)
(* files rotated and truncated, and the input stopped and started again,   *)
(* for every size of the buffer: it reads each open file forwards, from a  *)
(* position that is the end of the file when it starts.                    *)
THEOREM EmittedInOrder == Spec => []InOrder
<1>1. Inv => InOrder
  BY DEF Inv
<1>. QED  BY InvInit, InvNext, <1>1, PTL DEF Spec
=============================================================================
