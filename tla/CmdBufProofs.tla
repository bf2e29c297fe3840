---------------------------- MODULE CmdBufProofs ----------------------------
(***************************************************************************)
(* Proofs about CmdBuf, for any size of the buffer, any texts, any depth   *)
(* of re-entrant execute calls: no scan leaves the buffer; and, as long as *)
(* no handler calls execute and texts close their quotes, the buffer is a  *)
(* queue of commands.                                                      *)
(***************************************************************************)
EXTENDS CmdBuf, FiniteSetTheorems, SequenceTheorems, TLAPS

(* The three parts need each other: a scan stops at the NUL of the last    *)
(* cell, and does not take that cell for the end of an empty command       *)
(* because source bytes stay clear of it.                                  *)
IInv == TypeOK /\ ScanStops /\ SourceBeforeText

(* What cmdbuf_add may be given: no source byte and no NUL inside.         *)
TextCell == Cell \ (Source \cup {"nul"})

(* What cmdbuf_add_file passes on is such a text.                          *)
LEMMA FileTextType == ASSUME NEW l \in 0 .. Size PROVE FileText(l) \in Seq(TextCell)
<1> DEFINE n == ReadSize(l) - 1
<1>1. File \in Seq(TextCell) /\ Len(File) \in Nat
  BY TextAssumption, LenProperties DEF TextCell
<1>2. CASE File = <<>>
  BY <1>2 DEF FileText
<1>3. CASE File # <<>>
  <2>1. Len(File) >= 1
    BY <1>1, <1>3, EmptySeq
  <2>2. n \in 0 .. Len(File)
    BY <1>1, <2>1, SizeAssumption DEF ReadSize
  <2>3. SubSeq(File, 1, n) \in Seq(TextCell)
    BY <1>1, <2>2, SubSeqProperties
  <2>4. QED
    BY <1>3, <2>3 DEF FileText
<1>4. QED
  BY <1>2, <1>3

(* Which cell holds what after cmdbuf_add.                                 *)
StopAfter(c, l) == IF Ended(c) \/ l + Len(c) + 2 = Size THEN l + Len(c) + 1 ELSE l + Len(c) + 2

Layout(b, l, c, s) ==
  LET n    == l + Len(c)
      stop == StopAfter(c, l)
      w    == Written(b, l, c, s)
  IN  /\ Len(c) \in Nat /\ Len(c) >= 1 /\ n \in Nat /\ n < Size - 1
      /\ stop \in Nat /\ n < stop /\ stop <= n + 2 /\ stop <= Size - 1
      /\ w = [i \in Index |-> w[i]]
      /\ \A i \in Index: /\ i = l => w[i] = s
                         /\ i \in l + 1 .. n => w[i] = c[i - l] /\ c[i - l] \in TextCell
                         /\ i \in n + 1 .. stop - 1 => w[i] = "nl"
                         /\ i = stop => w[i] = "nul"
                         /\ i < l \/ i > stop => w[i] = b[i]
                         /\ \/ i = l \/ i \in l + 1 .. n \/ i \in n + 1 .. stop - 1
                            \/ i = stop \/ i < l \/ i > stop

LEMMA WrittenIs ==
  ASSUME NEW b, NEW l \in 0 .. Size, NEW c \in Seq(TextCell), NEW s, Takes(c, l)
  PROVE  Layout(b, l, c, s)
<1>1. Len(c) \in Nat /\ l \in Nat /\ Size \in Nat /\ Size >= 3
  BY LenProperties, SizeAssumption
<1> DEFINE n    == l + Len(c)
           stop == StopAfter(c, l)
           w    == Written(b, l, c, s)
<1>2. Len(c) >= 1 /\ n < Size - 1
  BY <1>1, EmptySeq DEF Takes, ValidText, Fits
<1>3. n \in Nat /\ stop \in Nat /\ n < stop /\ stop <= n + 2 /\ stop <= Size - 1
  BY <1>1, <1>2 DEF StopAfter
<1>4. \A i \in l + 1 .. n: c[i - l] \in TextCell
  <2> SUFFICES ASSUME NEW i \in l + 1 .. n PROVE c[i - l] \in TextCell
    OBVIOUS
  <2>1. i - l \in 1 .. Len(c)
    BY <1>1
  <2>2. QED
    BY <2>1, ElementOfSeq
<1>5. w = [i \in Index |->
             CASE i = l -> s
               [] i \in l + 1 .. n -> c[i - l]
               [] i \in n + 1 .. stop - 1 -> "nl"
               [] i = stop -> "nul"
               [] OTHER -> b[i]]
  BY DEF Written, StopAfter
<1> HIDE DEF stop, w
<1>6. ASSUME NEW i \in Index
      PROVE  /\ i = l => w[i] = s
             /\ i \in l + 1 .. n => w[i] = c[i - l]
             /\ i \in n + 1 .. stop - 1 => w[i] = "nl"
             /\ i = stop => w[i] = "nul"
             /\ i < l \/ i > stop => w[i] = b[i]
  <2> HIDE DEF n
  <2>1. i \in Int /\ n = l + Len(c)
    BY <1>1 DEF Index, n
  <2>2. CASE i = l
    BY <1>1, <1>2, <1>3, <1>5, <2>1, <2>2
  <2>3. CASE i \in l + 1 .. n
    <3>1. i # l /\ i \notin n + 1 .. stop - 1 /\ i # stop /\ ~(i < l) /\ ~(i > stop)
      BY <1>1, <1>3, <2>1, <2>3
    <3>2. w[i] = c[i - l]
      BY <1>5, <2>3, <3>1
    <3>3. QED
      BY <2>3, <3>1, <3>2
  <2>4. CASE i \in n + 1 .. stop - 1
    BY <1>1, <1>2, <1>3, <1>5, <2>1, <2>4
  <2>5. CASE i = stop
    BY <1>1, <1>2, <1>3, <1>5, <2>1, <2>5
  <2>6. CASE i < l \/ i > stop
    BY <1>1, <1>2, <1>3, <1>5, <2>1, <2>6, SMTT(30)
  <2>7. QED
    BY <2>2, <2>3, <2>4, <2>5, <2>6
<1>7. \A i \in Index: i = l \/ i \in l + 1 .. n \/ i \in n + 1 .. stop - 1 \/ i = stop \/ i < l \/ i > stop
  BY <1>1, <1>3 DEF Index
<1>8. w = [i \in Index |-> w[i]]
  BY <1>5
<1> QED
  BY <1>1, <1>2, <1>3, <1>4, <1>6, <1>7, <1>8 DEF stop, w, Layout

(* cmdbuf_add keeps the buffer's part of the invariant.                    *)
LEMMA AddKeeps ==
  ASSUME NEW b \in [Index -> Cell], NEW l \in 0 .. Size,
         NEW c \in Seq(TextCell), NEW s \in Source,
         b[Size - 1] = "nul", \A i \in Index: b[i] \in Source => i <= Size - 3
  PROVE  /\ BufAfter(b, l, c, s) \in [Index -> Cell]
         /\ LenAfter(l, c) \in 0 .. Size
         /\ BufAfter(b, l, c, s)[Size - 1] = "nul"
         /\ \A i \in Index: BufAfter(b, l, c, s)[i] \in Source => i <= Size - 3
<1>1. Len(c) \in Nat /\ l \in Nat /\ Size \in Nat /\ Size >= 3
  BY LenProperties, SizeAssumption
<1>2. CASE ~Takes(c, l)
  BY <1>2 DEF BufAfter, LenAfter
<1>3. CASE Takes(c, l)
  <2> DEFINE n    == l + Len(c)
             stop == StopAfter(c, l)
             w    == Written(b, l, c, s)
  <2>1. Layout(b, l, c, s)
    BY <1>3, WrittenIs, Zenon
  <2> HIDE DEF stop, w
  <2>2. /\ Len(c) >= 1 /\ n < Size - 1
        /\ n \in Nat /\ stop \in Nat /\ n < stop /\ stop <= n + 2 /\ stop <= Size - 1
        /\ w = [i \in Index |-> w[i]]
    BY <2>1 DEF stop, w, Layout
  <2>3. \A i \in Index: /\ i = l => w[i] = s
                        /\ i \in l + 1 .. n => w[i] = c[i - l] /\ c[i - l] \in TextCell
                        /\ i \in n + 1 .. stop - 1 => w[i] = "nl"
                        /\ i = stop => w[i] = "nul"
                        /\ i < l \/ i > stop => w[i] = b[i]
                        /\ \/ i = l \/ i \in l + 1 .. n \/ i \in n + 1 .. stop - 1
                           \/ i = stop \/ i < l \/ i > stop
    BY <2>1 DEF stop, w, Layout
  <2>4. LenAfter(l, c) \in 0 .. Size
    <3>1. LenAfter(l, c) = l + Len(c) + 1 + (IF Ended(c) THEN 0 ELSE 1)
      BY <1>3 DEF LenAfter, LengthAfter
    <3>2. l + Len(c) < Size - 1
      BY <2>2
    <3> QED
      BY <1>1, <3>1, <3>2
  <2>5. w \in [Index -> Cell]
    <3>1. \A i \in Index: w[i] \in Cell
      BY <2>3 DEF Cell, Mark, TextCell
    <3>2. QED
      BY <2>2, <3>1
  <2>6. Size - 1 \in Index /\ l <= n /\ n < Size - 1
    BY <1>1, <2>2 DEF Index
  <2>7. w[Size - 1] = "nul"
    <3>1. CASE stop = Size - 1
      BY <2>3, <2>6, <3>1
    <3>2. CASE stop < Size - 1
      <4>1. Size - 1 > stop
        BY <1>1, <2>2, <3>2
      <4>2. QED
        BY <2>3, <2>6, <4>1
    <3>3. QED
      BY <1>1, <2>2, <3>1, <3>2
  <2>8. ASSUME NEW i \in Index, w[i] \in Source PROVE i <= Size - 3
    <3>1. "nl" \notin Source /\ "nul" \notin Source
      BY CellAssumption DEF Mark
    <3>2. CASE i = l
      BY <1>1, <2>2, <3>2
    <3>3. CASE i < l \/ i > stop
      BY <2>3, <2>8, <3>3
    <3>4. QED
      BY <2>3, <2>8, <3>1, <3>2, <3>3 DEF TextCell
  <2>9. QED
    BY <1>3, <2>4, <2>5, <2>7, <2>8 DEF BufAfter, w
<1>4. QED
  BY <1>2, <1>3

(* The text of a command, and the frame after it.                          *)
LEMMA CommandTextType ==
  ASSUME IInv, frames # <<>>, NEW e \in Index, Scanning, e >= Start
  PROVE  /\ Start \in Index /\ CmdSource \in Source
         /\ CommandText(e) \in Seq(Cell)
<1>1. Top \in FrameType
  BY LenProperties, EmptySeq, ElementOfSeq DEF IInv, TypeOK, Top
<1>2. Top.pos \in Index /\ Top.src \in Source
  BY <1>1 DEF FrameType
<1>3. Start \in Index /\ CmdSource \in Source
  BY <1>2, SizeAssumption DEF IInv, SourceBeforeText, Start, CmdSource, Index
<1>4. e - Start \in Nat /\ \A i \in 1 .. e - Start: Start + i - 1 \in Index
  <2> DEFINE first == Start
  <2>1. first \in 0 .. Size - 1 /\ e \in 0 .. Size - 1 /\ e >= first
    BY <1>3 DEF Index
  <2> HIDE DEF first
  <2>2. e - first \in Nat /\ \A i \in 1 .. e - first: first + i - 1 \in 0 .. Size - 1
    BY <2>1, SizeAssumption
  <2>3. QED
    BY <2>2 DEF first, Index
<1>5. \A i \in 1 .. e - Start: buf[Start + i - 1] \in Cell
  BY <1>4 DEF IInv, TypeOK
<1>6. CommandText(e) \in Seq(Cell)
  BY <1>4, <1>5, SeqDef DEF CommandText
<1>7. QED
  BY <1>3, <1>6

(* A scan that goes on finds its next place inside the buffer.             *)
LEMMA FrameAfterType ==
  ASSUME IInv, frames # <<>>, NEW e \in Index, Scanning, e >= Start, FirstStop(e)
  PROVE  FrameAfter(e) \in FrameType
<1>1. Top \in FrameType
  BY LenProperties, EmptySeq, ElementOfSeq DEF IInv, TypeOK, Top
<1>2. Top.pos \in Index /\ Top.quoted \in BOOLEAN /\ Top.end \in BOOLEAN
  BY <1>1 DEF FrameType
<1>3. CmdSource \in Source /\ Start \in Index
  BY CommandTextType
<1>4. Quoted(e) \in BOOLEAN
  BY DEF Quoted
<1> DEFINE end   == Top.end \/ buf[e] = "nul"
           leave == end /\ e # Start
<1>5. end \in BOOLEAN /\ leave \in BOOLEAN
  BY <1>2
<1>6. ~leave => e + 1 \in Index
  <2> SUFFICES ASSUME ~leave, e = Size - 1 PROVE FALSE
    BY SizeAssumption DEF Index
  <2>1. buf[e] = "nul"
    BY DEF IInv, ScanStops
  <2>2. e = Start
    BY <2>1
  <2>3. CASE buf[Top.pos] \in Source
    BY <1>2, <2>2, <2>3, SizeAssumption DEF IInv, SourceBeforeText, Start, Index
  <2>4. CASE buf[Top.pos] \notin Source
    BY <2>1, <2>2, <2>4 DEF Start, Scanning
  <2>5. QED
    BY <2>3, <2>4
<1>7. QED
  BY <1>3, <1>4, <1>5, <1>6 DEF FrameAfter, FrameType

(* Writing the NUL that ends a command.                                    *)
LEMMA TerminatedKeeps ==
  ASSUME IInv, NEW e \in Index
  PROVE  /\ Terminated(e) \in [Index -> Cell]
         /\ Terminated(e)[Size - 1] = "nul"
         /\ \A i \in Index: Terminated(e)[i] \in Source => i <= Size - 3
BY CellAssumption, SizeAssumption
   DEF IInv, TypeOK, ScanStops, SourceBeforeText, Terminated, Cell, Mark, Index

LEMMA InitIInv == Init => IInv
BY SizeAssumption, SourceAssumption, CellAssumption
   DEF Init, IInv, TypeOK, ScanStops, SourceBeforeText, Index, Cell, Mark, FrameType

LEMMA NextKeepsIInv == IInv /\ [Next]_vars => IInv'
<1> SUFFICES ASSUME IInv, [Next]_vars PROVE IInv'
  OBVIOUS
<1>1. ASSUME NEW c \in Text, NEW s \in Source, Add(c, s) PROVE IInv'
  <2>1. c \in Seq(TextCell)
    BY TextAssumption DEF TextCell
  <2>2. QED
    BY <1>1, <2>1, AddKeeps DEF Add, IInv, TypeOK, ScanStops, SourceBeforeText
<1>2. NewFrame \in FrameType
  BY SizeAssumption, SourceAssumption DEF NewFrame, FrameType, Index
<1>3. CASE FrameCall
  BY <1>2, <1>3 DEF FrameCall, IInv, TypeOK, ScanStops, SourceBeforeText
<1>4. ASSUME NEW e \in Index, e >= Start, Step(e) PROVE IInv'
  <2>1. frames # <<>> /\ Scanning /\ FirstStop(e)
    BY <1>4 DEF Step, Scanning
  <2>2. FrameAfter(e) \in FrameType
    BY <1>4, <2>1, FrameAfterType
  <2>3. [src |-> CmdSource, text |-> CommandText(e)] \in [src: Source, text: Seq(Cell)]
    BY <1>4, <2>1, CommandTextType
  <2> DEFINE fr == [frames EXCEPT ![Len(frames)] = FrameAfter(e)]
  <2>4. fr \in Seq(FrameType)
    <3>1. frames \in Seq(FrameType) /\ Len(frames) \in 1 .. Len(frames)
      BY <2>1, LenProperties, EmptySeq DEF IInv, TypeOK
    <3>2. QED
      BY <2>2, <3>1, ExceptSeq
  <2>5. /\ Terminated(e) \in [Index -> Cell]
        /\ Terminated(e)[Size - 1] = "nul"
        /\ \A i \in Index: Terminated(e)[i] \in Source => i <= Size - 3
    BY TerminatedKeeps
  <2>6. CASE SkipEmpty(e)
    BY <2>4, <2>6 DEF SkipEmpty, IInv, TypeOK, ScanStops, SourceBeforeText
  <2>7. CASE Execute(e)
    <3>1. CASE buf[Start] = Exec
      <4>1. FileText(len) \in Seq(TextCell) /\ len \in 0 .. Size
        BY FileTextType DEF IInv, TypeOK
      <4>2. /\ buf' \in [Index -> Cell] /\ len' \in 0 .. Size /\ buf'[Size - 1] = "nul"
            /\ \A i \in Index: buf'[i] \in Source => i <= Size - 3
        BY <2>5, <2>7, <3>1, <4>1, AddKeeps, SourceAssumption DEF Execute
      <4>3. QED
        BY <2>3, <2>4, <2>7, <4>2 DEF Execute, IInv, TypeOK, ScanStops, SourceBeforeText
    <3>2. CASE buf[Start] # Exec
      BY <2>3, <2>4, <2>5, <2>7, <3>2 DEF Execute, IInv, TypeOK, ScanStops, SourceBeforeText
    <3>3. QED
      BY <3>1, <3>2
  <2>8. ASSUME NEW c \in Text, ExecuteLua(e, c) PROVE IInv'
    <3>1. c \in Seq(TextCell) /\ len \in 0 .. Size
      BY TextAssumption DEF TextCell, IInv, TypeOK
    <3>2. /\ buf' \in [Index -> Cell] /\ len' \in 0 .. Size /\ buf'[Size - 1] = "nul"
          /\ \A i \in Index: buf'[i] \in Source => i <= Size - 3
      BY <2>5, <2>8, <3>1, AddKeeps, SourceAssumption DEF ExecuteLua
    <3>3. frames' \in Seq(FrameType)
      <4>1. Append(fr, NewFrame) \in Seq(FrameType)
        BY <1>2, <2>4, AppendProperties
      <4>2. frames' = fr \/ frames' = Append(fr, NewFrame)
        BY <2>8 DEF ExecuteLua
      <4>3. QED
        BY <2>4, <4>1, <4>2
    <3>4. QED
      BY <2>3, <2>8, <3>2, <3>3 DEF ExecuteLua, IInv, TypeOK, ScanStops, SourceBeforeText
  <2>9. QED
    BY <1>4, <2>6, <2>7, <2>8 DEF Step
<1>5. CASE FrameReturn
  <2>1. frames' \in Seq(FrameType)
    <3>1. frames \in Seq(FrameType) /\ Len(frames) \in Nat /\ Len(frames) >= 1
      BY <1>5, LenProperties, EmptySeq DEF FrameReturn, IInv, TypeOK
    <3>2. SubSeq(frames, 1, Len(frames) - 1) \in Seq(FrameType)
      BY <3>1, SubSeqProperties
    <3>3. QED
      BY <1>5, <3>2 DEF FrameReturn, Front
  <2>2. len' \in 0 .. Size
    BY <1>5, SizeAssumption DEF FrameReturn, Release
  <2>3. QED
    BY <1>5, <2>1, <2>2 DEF FrameReturn, IInv, TypeOK, ScanStops, SourceBeforeText
<1>6. CASE UNCHANGED vars
  BY <1>6 DEF vars, IInv, TypeOK, ScanStops, SourceBeforeText
<1>7. QED
  BY <1>1, <1>3, <1>4, <1>5, <1>6 DEF Next, FrameStep

(* The three together are inductive.                                       *)
THEOREM Inductive == Spec => []IInv
BY InitIInv, NextKeepsIInv, PTL DEF Spec

(* cmdbuf_frame reads and writes inside the buffer only, at any depth of   *)
(* re-entrant execute calls: every scan's place is a place of the buffer.  *)
THEOREM ScanStaysInside == Spec => []TypeOK
<1>1. IInv => TypeOK
  BY DEF IInv
<1>2. QED
  BY <1>1, Inductive, PTL

(* The last cell of the buffer is always NUL, and a source byte is never   *)
(* the last thing before it.                                               *)
THEOREM ScanAlwaysStops == Spec => []ScansSafe
<1>1. IInv => ScansSafe
  BY DEF IInv, ScansSafe
<1>2. QED
  BY <1>1, Inductive, PTL

-----------------------------------------------------------------------------
(* What a text says.                                                       *)

(* Words, sources and the marks of the buffer are told apart.              *)
LEMMA CellsApart ==
  /\ \A s \in Source: s \notin {"nl", "semi", "quote", "nul", "bad"}
  /\ {"nl", "semi", "quote", "nul", "bad"} \subseteq Cell /\ Source \subseteq Cell
  BY CellAssumption DEF Cell, Mark

LEMMA CloseIs ==
  ASSUME NEW r \in Reader
  PROVE  /\ Close[r] \in Reader /\ Close[r].text = <<>>
         /\ Close[r].src = r.src /\ Close[r].quoted = r.quoted
         /\ r.text = <<>> => Close[r] = r
         /\ r.text # <<>> => Close[r].said = Append(r.said, [src |-> r.src, text |-> r.text])
<1>1. r = [src |-> r.src, quoted |-> r.quoted, text |-> r.text, said |-> r.said]
  BY DEF Reader
<1>2. r.src \in Source /\ r.quoted \in BOOLEAN /\ r.text \in Seq(Cell) /\ r.said \in Seq(Command)
  BY DEF Reader
<1>3. CASE r.text = <<>>
  BY <1>2, <1>3 DEF Close
<1>4. CASE r.text # <<>>
  <2>1. [src |-> r.src, text |-> r.text] \in Command
    BY <1>2 DEF Command
  <2>2. Append(r.said, [src |-> r.src, text |-> r.text]) \in Seq(Command)
    BY <1>2, <2>1, AppendProperties
  <2>3. Close[r] = [r EXCEPT !.text = <<>>, !.said = Append(r.said, [src |-> r.src, text |-> r.text])]
    BY <1>4 DEF Close
  <2>4. Close[r] = [src |-> r.src, quoted |-> r.quoted, text |-> <<>>,
                    said |-> Append(r.said, [src |-> r.src, text |-> r.text])]
    BY <1>1, <2>3
  <2>5. <<>> \in Seq(Cell)
    OBVIOUS
  <2> QED
    BY <1>2, <1>4, <2>2, <2>4, <2>5 DEF Reader
<1> QED
  BY <1>3, <1>4

LEMMA ReadCellIs ==
  ASSUME NEW r \in Reader, NEW c \in Cell
  PROVE  /\ ReadCell(c)[r] \in Reader
         /\ c = "nl" \/ (c = "semi" /\ ~r.quoted) => ReadCell(c)[r] = Close[r]
         /\ c \in Source /\ r.text = <<>> => ReadCell(c)[r] = [r EXCEPT !.src = c]
         /\ c # "nl" /\ ~(c = "semi" /\ ~r.quoted) /\ ~(c \in Source /\ r.text = <<>>) =>
              ReadCell(c)[r] = [r EXCEPT !.text = Append(r.text, c), !.quoted = (r.quoted # (c = "quote"))]
<1>1. r = [src |-> r.src, quoted |-> r.quoted, text |-> r.text, said |-> r.said]
  BY DEF Reader
<1>2. r.src \in Source /\ r.quoted \in BOOLEAN /\ r.text \in Seq(Cell) /\ r.said \in Seq(Command)
  BY DEF Reader
<1>3. ReadCell(c)[r] =
        CASE c = "nl" \/ (c = "semi" /\ ~r.quoted) -> Close[r]
          [] c \in Source /\ r.text = <<>> -> [r EXCEPT !.src = c]
          [] OTHER -> [r EXCEPT !.text = Append(r.text, c), !.quoted = (r.quoted # (c = "quote"))]
  BY DEF ReadCell
<1>4. CASE c = "nl" \/ (c = "semi" /\ ~r.quoted)
  <2>1. c \notin Source
    BY <1>4, CellsApart
  <2> QED
    BY <1>3, <1>4, <2>1, CloseIs
<1>5. CASE c \in Source /\ r.text = <<>>
  <2>1. c # "nl" /\ c # "semi"
    BY <1>5, CellsApart
  <2>2. [r EXCEPT !.src = c] \in Reader
    BY <1>5 DEF Reader
  <2> QED
    BY <1>3, <1>5, <2>1, <2>2
<1>6. CASE c # "nl" /\ ~(c = "semi" /\ ~r.quoted) /\ ~(c \in Source /\ r.text = <<>>)
  <2>1. Append(r.text, c) \in Seq(Cell) /\ (r.quoted # (c = "quote")) \in BOOLEAN
    BY <1>2, AppendProperties
  <2>2. [r EXCEPT !.text = Append(r.text, c), !.quoted = (r.quoted # (c = "quote"))] \in Reader
    BY <2>1 DEF Reader
  <2> QED
    BY <1>3, <1>6, <2>2
<1> QED
  BY <1>4, <1>5, <1>6

(* Induction over data: a set of numbers has a least element.              *)
LEMMA Least ==
  ASSUME NEW T \in SUBSET Nat, T # {}
  PROVE  \E n \in T: \A m \in T: n <= m
<1> DEFINE R == OpToRel(<, Nat)
<1>1. IsWellFoundedOn(R, Nat)
  BY NatLessThanWellFounded, Zenon
<1>2. \A x, y \in Nat: y < x => <<y, x>> \in R
  BY DEF OpToRel
<1> HIDE DEF R
<1>3. PICK x \in T: \A y \in T: ~(<<y, x>> \in R)
  BY <1>1, WFMin
<1>4. ASSUME NEW m \in T PROVE x <= m
  <2>1. x \in Nat /\ m \in Nat /\ ~(<<m, x>> \in R)
    BY <1>3
  <2>2. ~(m < x)
    BY <1>2, <2>1
  <2> QED
    BY <2>1, <2>2
<1> QED
  BY <1>4

(* The reader before a text, and after each of its cells.                  *)
Begin(s, q) == [src |-> s, quoted |-> q, text |-> <<>>, said |-> <<>>]
ReadStep(f, c, s, q) ==
  [i \in 0 .. Len(c) |-> IF i = 0 THEN Begin(s, q) ELSE ReadCell(c[i])[f[i - 1]]]
Read(c, s, q) == CHOOSE f: f = ReadStep(f, c, s, q)

LEMMA CommandsRead ==
  ASSUME NEW c, NEW s, NEW q
  PROVE  Commands(c, s, q) = Close[Read(c, s, q)[Len(c)]].said
  BY DEF Commands, Read, ReadStep, Begin

LEMMA BeginType ==
  ASSUME NEW s \in Source, NEW q \in BOOLEAN
  PROVE  Begin(s, q) \in Reader
  BY DEF Begin, Reader

LEMMA ReadIs ==
  ASSUME NEW c \in Seq(Cell), NEW s \in Source, NEW q \in BOOLEAN
  PROVE  /\ Read(c, s, q) \in [0 .. Len(c) -> Reader]
         /\ Read(c, s, q)[0] = Begin(s, q)
         /\ \A i \in 1 .. Len(c): /\ i - 1 \in 0 .. Len(c)
                                  /\ Read(c, s, q)[i - 1] \in Reader
                                  /\ Read(c, s, q)[i] = ReadCell(c[i])[Read(c, s, q)[i - 1]]
<1> DEFINE Good(f, n) == /\ f \in [0 .. n -> Reader] /\ f[0] = Begin(s, q)
                         /\ \A i \in 1 .. n: f[i] = ReadCell(c[i])[f[i - 1]]
           T == {n \in 0 .. Len(c): ~ \E f: Good(f, n)}
<1>1. Len(c) \in Nat /\ \A i \in 1 .. Len(c): c[i] \in Cell
  BY LenProperties, ElementOfSeq
<1>2. T = {}
  <2> SUFFICES ASSUME T # {} PROVE FALSE
    OBVIOUS
  <2>1. T \in SUBSET Nat
    BY <1>1
  <2> HIDE DEF T
  <2>2. PICK n \in T: \A m \in T: n <= m
    BY <2>1, Least, Zenon
  <2> USE DEF T
  <2>3. n \in 0 .. Len(c) /\ ~ \E f: Good(f, n)
    BY <2>2
  <2>4. n # 0
    <3> DEFINE f == [i \in 0 .. 0 |-> Begin(s, q)]
    <3>1. Good(f, 0)
      BY BeginType
    <3> HIDE DEF Good
    <3> QED
      BY <2>3, <3>1
  <2>5. n - 1 \in 0 .. Len(c) /\ n - 1 \notin T /\ n \in 1 .. Len(c)
    <3>1. n \in Nat /\ n >= 1 /\ n <= Len(c)
      BY <1>1, <2>3, <2>4
    <3>2. n - 1 \in 0 .. Len(c) /\ ~(n <= n - 1)
      BY <1>1, <3>1
    <3> HIDE DEF T
    <3> QED
      BY <1>1, <2>2, <3>1, <3>2
  <2>6. PICK f: Good(f, n - 1)
    BY <2>5
  <2> DEFINE g == [i \in 0 .. n |-> IF i = n THEN ReadCell(c[n])[f[n - 1]] ELSE f[i]]
  <2>7. Good(g, n)
    <3>1. n \in Nat /\ n >= 1 /\ n <= Len(c)
      BY <1>1, <2>5
    <3>2. f[n - 1] \in Reader /\ c[n] \in Cell
      BY <1>1, <2>5, <2>6, <3>1
    <3>3. ReadCell(c[n])[f[n - 1]] \in Reader
      BY <3>2, ReadCellIs
    <3>4. g \in [0 .. n -> Reader] /\ g[0] = Begin(s, q)
      BY <2>6, <3>1, <3>3
    <3>5. ASSUME NEW i \in 1 .. n PROVE g[i] = ReadCell(c[i])[g[i - 1]]
      <4>1. i - 1 \in 0 .. n /\ i - 1 # n /\ g[i - 1] = f[i - 1]
        BY <3>1
      <4>2. CASE i = n
        BY <3>1, <4>1, <4>2
      <4>3. CASE i # n
        <5>1. i \in 1 .. n - 1 /\ g[i] = f[i]
          BY <3>1, <4>3
        <5> QED
          BY <2>6, <4>1, <5>1
      <4> QED
        BY <4>2, <4>3
    <3> QED
      BY <3>4, <3>5
  <2> HIDE DEF Good
  <2> QED
    BY <2>3, <2>7
<1>3. PICK f: Good(f, Len(c))
  BY <1>1, <1>2
<1>4. f = ReadStep(f, c, s, q)
  <2>1. f = [i \in 0 .. Len(c) |-> f[i]]
    BY <1>3
  <2>2. \A i \in 0 .. Len(c): f[i] = IF i = 0 THEN Begin(s, q) ELSE ReadCell(c[i])[f[i - 1]]
    BY <1>1, <1>3
  <2> QED
    BY <2>1, <2>2 DEF ReadStep
<1>5. Read(c, s, q) = ReadStep(Read(c, s, q), c, s, q)
  BY <1>4 DEF Read
<1> HIDE DEF T
<1> DEFINE g == Read(c, s, q)
<1>6. DOMAIN g = 0 .. Len(c) /\ \A i \in 0 .. Len(c): g[i] = IF i = 0 THEN Begin(s, q) ELSE ReadCell(c[i])[g[i - 1]]
  BY <1>5 DEF ReadStep
<1>7. g = [i \in 0 .. Len(c) |-> g[i]]
  BY <1>5 DEF ReadStep
<1> HIDE DEF g
<1>8. \A i \in 0 .. Len(c): g[i] \in Reader
  <2> DEFINE U == {i \in 0 .. Len(c): g[i] \notin Reader}
  <2> SUFFICES ASSUME U # {} PROVE FALSE
    OBVIOUS
  <2>1. U \in SUBSET Nat
    BY <1>1
  <2> HIDE DEF U
  <2>2. PICK i \in U: \A m \in U: i <= m
    BY <2>1, Least, Zenon
  <2> USE DEF U
  <2>3. i \in 0 .. Len(c) /\ g[i] \notin Reader
    BY <2>2
  <2>4. i # 0
    BY <1>1, <1>6, <2>3, BeginType
  <2>5. i \in 1 .. Len(c) /\ i - 1 \in 0 .. Len(c) /\ ~(i <= i - 1)
    BY <1>1, <2>3, <2>4
  <2>6. g[i - 1] \in Reader
    <3>1. i - 1 \notin U
      <4> HIDE DEF U
      <4> QED
        BY <2>2, <2>5
    <3> QED
      BY <2>5, <3>1
  <2> QED
    BY <1>1, <1>6, <2>3, <2>4, <2>5, <2>6, ReadCellIs
<1>9. \A i \in 1 .. Len(c): i - 1 \in 0 .. Len(c) /\ i \in 0 .. Len(c) /\ i # 0
  BY <1>1
<1>10. g \in [0 .. Len(c) -> Reader]
  BY <1>7, <1>8
<1>11. g[0] = Begin(s, q)
  BY <1>1, <1>6
<1>12. \A i \in 1 .. Len(c): /\ i - 1 \in 0 .. Len(c) /\ g[i - 1] \in Reader
                              /\ g[i] = ReadCell(c[i])[g[i - 1]]
  BY <1>6, <1>8, <1>9
<1> QED
  BY <1>10, <1>11, <1>12 DEF g

(* A text whose head is read to the end of a command is read as if the     *)
(* rest began there.                                                       *)
Said(S, r) == [src |-> r.src, quoted |-> r.quoted, text |-> r.text, said |-> S \o r.said]

LEMMA AppendToConcat ==
  ASSUME NEW s \in Seq(Command), NEW t \in Seq(Command), NEW e \in Command
  PROVE  Append(s \o t, e) = s \o Append(t, e)
<1> DEFINE x == Append(s \o t, e)
           y == s \o Append(t, e)
<1>1. Len(s) \in Nat /\ Len(t) \in Nat
  BY LenProperties
<1>2. /\ s \o t \in Seq(Command) /\ Len(s \o t) = Len(s) + Len(t)
      /\ \A i \in 1 .. Len(s) + Len(t): (s \o t)[i] = IF i <= Len(s) THEN s[i] ELSE t[i - Len(s)]
  BY ConcatProperties
<1>3. /\ Append(t, e) \in Seq(Command) /\ Len(Append(t, e)) = Len(t) + 1
      /\ \A i \in 1 .. Len(t): Append(t, e)[i] = t[i]
      /\ Append(t, e)[Len(t) + 1] = e
  BY AppendProperties
<1>4. /\ x \in Seq(Command) /\ Len(x) = Len(s) + Len(t) + 1
      /\ \A i \in 1 .. Len(s) + Len(t): x[i] = (s \o t)[i]
      /\ x[Len(s) + Len(t) + 1] = e
  BY <1>2, AppendProperties
<1>5. /\ y \in Seq(Command) /\ Len(y) = Len(s) + (Len(t) + 1)
      /\ \A i \in 1 .. Len(s) + (Len(t) + 1):
           y[i] = IF i <= Len(s) THEN s[i] ELSE Append(t, e)[i - Len(s)]
  BY <1>3, ConcatProperties
<1> HIDE DEF x, y
<1>6. ASSUME NEW i \in 1 .. Len(x) PROVE x[i] = y[i]
  <2>1. i \in 1 .. Len(s) + (Len(t) + 1) /\ i \in Nat
    BY <1>1, <1>4
  <2>2. CASE i <= Len(s)
    <3>1. i \in 1 .. Len(s) + Len(t)
      BY <1>1, <2>1, <2>2
    <3> QED
      BY <1>2, <1>4, <1>5, <2>1, <2>2, <3>1
  <2>3. CASE i > Len(s) /\ i <= Len(s) + Len(t)
    <3>1. i - Len(s) \in 1 .. Len(t) /\ i \in 1 .. Len(s) + Len(t) /\ ~(i <= Len(s))
      BY <1>1, <2>1, <2>3
    <3> QED
      BY <1>2, <1>3, <1>4, <1>5, <2>1, <3>1
  <2>4. CASE i = Len(s) + Len(t) + 1
    <3>1. i - Len(s) = Len(t) + 1 /\ ~(i <= Len(s))
      BY <1>1, <2>4
    <3> QED
      BY <1>3, <1>4, <1>5, <2>1, <2>4, <3>1
  <2> QED
    BY <1>1, <2>1, <2>2, <2>3, <2>4
<1>7. Len(x) = Len(y)
  BY <1>1, <1>4, <1>5
<1> QED
  BY <1>4, <1>5, <1>6, <1>7, SeqEqual DEF x, y

LEMMA SaidStep ==
  ASSUME NEW S \in Seq(Command), NEW r \in Reader, NEW c \in Cell
  PROVE  /\ Said(S, r) \in Reader
         /\ ReadCell(c)[Said(S, r)] = Said(S, ReadCell(c)[r])
         /\ Close[Said(S, r)] = Said(S, Close[r])
<1>1. r = [src |-> r.src, quoted |-> r.quoted, text |-> r.text, said |-> r.said]
  BY DEF Reader
<1>2. r.src \in Source /\ r.quoted \in BOOLEAN /\ r.text \in Seq(Cell) /\ r.said \in Seq(Command)
  BY DEF Reader
<1>3. S \o r.said \in Seq(Command)
  BY <1>2, ConcatProperties
<1>4. Said(S, r) \in Reader /\ Said(S, r).text = r.text /\ Said(S, r).quoted = r.quoted
      /\ Said(S, r).src = r.src /\ Said(S, r).said = S \o r.said
  BY <1>2, <1>3 DEF Said, Reader
<1>5. Close[Said(S, r)] = Said(S, Close[r])
  <2>1. CASE r.text = <<>>
    BY <1>4, <2>1, CloseIs
  <2>2. CASE r.text # <<>>
    <3> DEFINE cmd == [src |-> r.src, text |-> r.text]
    <3>1. cmd \in Command
      BY <1>2 DEF Command
    <3>2. Append(S \o r.said, cmd) = S \o Append(r.said, cmd)
      <4>1. PICK e \in Command: e = cmd
        BY <3>1
      <4>2. PICK t \in Seq(Command): t = r.said
        BY <1>2
      <4>3. Append(S \o t, e) = S \o Append(t, e)
        BY AppendToConcat, Zenon
      <4> QED
        BY <4>1, <4>2, <4>3
    <3>3. /\ Close[r] \in Reader /\ Close[r].src = r.src /\ Close[r].quoted = r.quoted
          /\ Close[r].text = <<>> /\ Close[r].said = Append(r.said, cmd)
      BY <2>2, CloseIs
    <3>4. LET t == Close[Said(S, r)]
          IN  /\ t \in Reader /\ t.src = r.src /\ t.quoted = r.quoted
              /\ t.text = <<>> /\ t.said = Append(S \o r.said, cmd)
      BY <1>4, <2>2, CloseIs
    <3>5. Close[Said(S, r)] = [src |-> r.src, quoted |-> r.quoted, text |-> <<>>, said |-> Append(S \o r.said, cmd)]
      BY <3>4 DEF Reader
    <3>6. Said(S, Close[r]) = [src |-> r.src, quoted |-> r.quoted, text |-> <<>>, said |-> S \o Append(r.said, cmd)]
      BY <3>3 DEF Said
    <3> QED
      BY <3>2, <3>5, <3>6
  <2> QED
    BY <2>1, <2>2
<1>6. ReadCell(c)[Said(S, r)] = Said(S, ReadCell(c)[r])
  <2>1. CASE c = "nl" \/ (c = "semi" /\ ~r.quoted)
    BY <1>4, <1>5, <2>1, ReadCellIs
  <2>2. CASE c \in Source /\ r.text = <<>>
    <3>1. ReadCell(c)[r] = [r EXCEPT !.src = c] /\ ReadCell(c)[Said(S, r)] = [Said(S, r) EXCEPT !.src = c]
      <4> DEFINE t == Said(S, r)
      <4> HIDE DEF t
      <4>1. t \in Reader /\ c \in Source /\ t.text = <<>>
        BY <1>4, <2>2 DEF t
      <4>2. ReadCell(c)[t] = [t EXCEPT !.src = c]
        BY <4>1, ReadCellIs
      <4>3. ReadCell(c)[r] = [r EXCEPT !.src = c]
        BY <2>2, ReadCellIs
      <4> QED
        BY <4>2, <4>3 DEF t
    <3>2. ReadCell(c)[r] = [src |-> c, quoted |-> r.quoted, text |-> r.text, said |-> r.said]
      BY <1>1, <3>1
    <3>3. ReadCell(c)[Said(S, r)] = [src |-> c, quoted |-> r.quoted, text |-> r.text, said |-> S \o r.said]
      BY <3>1 DEF Said
    <3> QED
      BY <3>2, <3>3 DEF Said
  <2>3. CASE c # "nl" /\ ~(c = "semi" /\ ~r.quoted) /\ ~(c \in Source /\ r.text = <<>>)
    <3>1. ReadCell(c)[r] = [r EXCEPT !.text = Append(r.text, c), !.quoted = (r.quoted # (c = "quote"))]
      BY <2>3, ReadCellIs
    <3>2. ReadCell(c)[Said(S, r)] =
            [Said(S, r) EXCEPT !.text = Append(r.text, c), !.quoted = (r.quoted # (c = "quote"))]
      <4> DEFINE t == Said(S, r)
      <4> HIDE DEF t
      <4>1. t \in Reader /\ t.text = r.text /\ t.quoted = r.quoted
        BY <1>4 DEF t
      <4>2. ReadCell(c)[t] = [t EXCEPT !.text = Append(t.text, c), !.quoted = (t.quoted # (c = "quote"))]
        BY <2>3, <4>1, ReadCellIs
      <4> QED
        BY <4>1, <4>2 DEF t
    <3>3. ReadCell(c)[r] = [src |-> r.src, quoted |-> (r.quoted # (c = "quote")),
                            text |-> Append(r.text, c), said |-> r.said]
      BY <1>1, <3>1
    <3>4. ReadCell(c)[Said(S, r)] = [src |-> r.src, quoted |-> (r.quoted # (c = "quote")),
                                     text |-> Append(r.text, c), said |-> S \o r.said]
      BY <3>2 DEF Said
    <3> QED
      BY <3>3, <3>4 DEF Said
  <2> QED
    BY <2>1, <2>2, <2>3
<1> QED
  BY <1>4, <1>5, <1>6

LEMMA ReadFirst ==
  ASSUME NEW c \in Seq(Cell), NEW d \in Seq(Cell), NEW s \in Source, NEW q \in BOOLEAN,
         NEW k \in 0 .. Len(c)
  PROVE  Read(c \o d, s, q)[k] = Read(c, s, q)[k]
<1> DEFINE f == Read(c \o d, s, q)
           g == Read(c, s, q)
           T == {i \in 0 .. Len(c): f[i] # g[i]}
<1>1. /\ c \o d \in Seq(Cell) /\ Len(c \o d) = Len(c) + Len(d) /\ Len(c) \in Nat /\ Len(d) \in Nat
      /\ \A i \in 1 .. Len(c): (c \o d)[i] = c[i]
  BY LenProperties, ConcatProperties
<1>2. f[0] = Begin(s, q) /\ \A i \in 1 .. Len(c \o d): f[i] = ReadCell((c \o d)[i])[f[i - 1]]
  BY <1>1, ReadIs
<1>3. g[0] = Begin(s, q) /\ \A i \in 1 .. Len(c): g[i] = ReadCell(c[i])[g[i - 1]]
  BY ReadIs
<1> HIDE DEF f, g
<1>4. T = {}
  <2> SUFFICES ASSUME T # {} PROVE FALSE
    OBVIOUS
  <2>1. T \in SUBSET Nat
    BY <1>1
  <2> HIDE DEF T
  <2>2. PICK i \in T: \A m \in T: i <= m
    BY <2>1, Least, Zenon
  <2>3. i \in 0 .. Len(c) /\ f[i] # g[i]
    BY <2>2 DEF T
  <2>4. i # 0
    BY <1>2, <1>3, <2>3
  <2>5. i \in 1 .. Len(c) /\ i \in 1 .. Len(c \o d) /\ i - 1 \in 0 .. Len(c) /\ ~(i <= i - 1)
    BY <1>1, <2>3, <2>4
  <2>6. f[i - 1] = g[i - 1]
    BY <2>2, <2>5 DEF T
  <2> QED
    BY <1>1, <1>2, <1>3, <2>3, <2>5, <2>6
<1> QED
  BY <1>4 DEF f, g

LEMMA ReadThen ==
  ASSUME NEW c \in Seq(Cell), NEW d \in Seq(Cell), NEW s \in Source, NEW q \in BOOLEAN,
         NEW r \in Reader, r = Read(c, s, q)[Len(c)], r.text = <<>>,
         NEW k \in 0 .. Len(d)
  PROVE  Read(c \o d, s, q)[Len(c) + k] = Said(r.said, Read(d, r.src, r.quoted)[k])
<1> DEFINE f == Read(c \o d, s, q)
           g == Read(d, r.src, r.quoted)
           n == Len(c)
           T == {i \in 0 .. Len(d): f[n + i] # Said(r.said, g[i])}
<1>1. /\ c \o d \in Seq(Cell) /\ Len(c \o d) = n + Len(d) /\ n \in Nat /\ Len(d) \in Nat
      /\ \A i \in 1 .. Len(d): (c \o d)[n + i] = d[i] /\ d[i] \in Cell
  <2>1. c \o d \in Seq(Cell) /\ Len(c \o d) = n + Len(d) /\ n \in Nat /\ Len(d) \in Nat
    BY LenProperties, ConcatProperties
  <2>2. ASSUME NEW i \in 1 .. Len(d) PROVE (c \o d)[n + i] = d[i] /\ d[i] \in Cell
    <3>1. n + i \in 1 .. Len(c) + Len(d) /\ n + i > Len(c) /\ n + i - Len(c) = i
      BY <2>1
    <3>2. (c \o d)[n + i] = d[n + i - Len(c)]
      BY <3>1, ConcatProperties
    <3>3. d[i] \in Cell
      BY ElementOfSeq
    <3> QED
      BY <3>1, <3>2, <3>3
  <2> QED
    BY <2>1, <2>2
<1>2. r.src \in Source /\ r.quoted \in BOOLEAN /\ r.said \in Seq(Command)
  BY DEF Reader
<1>3. \A i \in 1 .. Len(c \o d): f[i] = ReadCell((c \o d)[i])[f[i - 1]]
  BY <1>1, ReadIs
<1>4. /\ g[0] = Begin(r.src, r.quoted)
      /\ \A i \in 1 .. Len(d): g[i - 1] \in Reader /\ g[i] = ReadCell(d[i])[g[i - 1]]
  BY <1>2, ReadIs
<1>5. f[n + 0] = r
  BY <1>1, ReadFirst
<1>6. Said(r.said, Begin(r.src, r.quoted)) = r
  <2>1. r.said \o <<>> = r.said
    BY <1>2, ConcatEmptySeq
  <2>2. r = [src |-> r.src, quoted |-> r.quoted, text |-> r.text, said |-> r.said]
    BY DEF Reader
  <2> QED
    BY <2>1, <2>2 DEF Said, Begin
<1> HIDE DEF f, g, n
<1>7. T = {}
  <2> SUFFICES ASSUME T # {} PROVE FALSE
    OBVIOUS
  <2>1. T \in SUBSET Nat
    BY <1>1
  <2> HIDE DEF T
  <2>2. PICK i \in T: \A m \in T: i <= m
    BY <2>1, Least, Zenon
  <2>3. i \in 0 .. Len(d) /\ f[n + i] # Said(r.said, g[i])
    BY <2>2 DEF T
  <2>4. i # 0
    BY <1>4, <1>5, <1>6, <2>3
  <2>5. i \in 1 .. Len(d) /\ n + i \in 1 .. Len(c \o d) /\ i - 1 \in 0 .. Len(d) /\ ~(i <= i - 1)
        /\ n + i - 1 = n + (i - 1)
    BY <1>1, <2>3, <2>4
  <2>6. f[n + (i - 1)] = Said(r.said, g[i - 1])
    BY <2>2, <2>5 DEF T
  <2>7. f[n + i] = ReadCell(d[i])[Said(r.said, g[i - 1])]
    <3>1. PICK m \in 1 .. Len(c \o d): m = n + i /\ m - 1 = n + (i - 1)
      <4>1. (n + i) - 1 = n + (i - 1)
        BY <1>1, <2>3
      <4> QED
        BY <2>5, <4>1
    <3>2. f[m] = ReadCell((c \o d)[m])[f[m - 1]]
      BY <1>3, <3>1
    <3>3. (c \o d)[m] = d[i] /\ f[m - 1] = Said(r.said, g[i - 1])
      BY <1>1, <2>5, <2>6, <3>1
    <3>4. f[m] = ReadCell(d[i])[Said(r.said, g[i - 1])]
      BY <3>2, <3>3
    <3> QED
      BY <3>1, <3>4
  <2>8. ReadCell(d[i])[Said(r.said, g[i - 1])] = Said(r.said, ReadCell(d[i])[g[i - 1]])
    BY <1>1, <1>2, <1>4, <2>5, SaidStep
  <2> QED
    BY <1>4, <2>3, <2>5, <2>7, <2>8
<1> QED
  BY <1>7 DEF f, g, n

(* One after the other.                                                    *)
Then(s, t) == s \o t

LEMMA CommandsWhole ==
  ASSUME NEW c \in Seq(Cell), NEW s \in Source, NEW q \in BOOLEAN,
         NEW r \in Reader, r = Read(c, s, q)[Len(c)], r.text = <<>>
  PROVE  Commands(c, s, q) = r.said
  BY CommandsRead, CloseIs

LEMMA CommandsThen ==
  ASSUME NEW c \in Seq(Cell), NEW d \in Seq(Cell), NEW s \in Source, NEW q \in BOOLEAN,
         NEW r \in Reader, r = Read(c, s, q)[Len(c)], r.text = <<>>
  PROVE  Commands(Then(c, d), s, q) = Then(r.said, Commands(d, r.src, r.quoted))
<1>1. r.src \in Source /\ r.quoted \in BOOLEAN /\ r.said \in Seq(Command)
  BY DEF Reader
<1>2. Len(d) \in 0 .. Len(d) /\ Len(c \o d) = Len(c) + Len(d)
  BY LenProperties, ConcatProperties
<1>3. Read(c \o d, s, q)[Len(c \o d)] = Said(r.said, Read(d, r.src, r.quoted)[Len(d)])
  BY <1>2, ReadThen
<1>4. Read(d, r.src, r.quoted)[Len(d)] \in Reader
  BY <1>1, <1>2, ReadIs
<1>5. Close[Said(r.said, Read(d, r.src, r.quoted)[Len(d)])] = Said(r.said, Close[Read(d, r.src, r.quoted)[Len(d)]])
  BY <1>1, <1>4, SaidStep, CellsApart
<1>6. Commands(c \o d, s, q) = Then(r.said, Commands(d, r.src, r.quoted))
  <2> DEFINE e == Read(d, r.src, r.quoted)[Len(d)]
  <2>1. Commands(c \o d, s, q) = Close[Read(c \o d, s, q)[Len(c \o d)]].said
    BY CommandsRead
  <2>2. Commands(d, r.src, r.quoted) = Close[e].said
    BY CommandsRead
  <2>3. Said(r.said, Close[e]).said = r.said \o Close[e].said
    BY DEF Said
  <2> HIDE DEF e
  <2> QED
    BY <1>3, <1>5, <2>1, <2>2, <2>3 DEF e, Then
<1> QED
  BY <1>6, Zenon DEF Then

(* Quotes.                                                                 *)
Odd(S) == Cardinality(S) % 2 = 1
Quotes(c, k) == {i \in 1 .. k: c[i] = "quote"}

(* A text that closes its quotes.                                          *)
Balanced(c) == ~Odd(Quotes(c, Len(c)))

LEMMA OddNone == Odd({}) = FALSE
  BY FS_EmptySet DEF Odd

LEMMA OddAdds ==
  ASSUME NEW S, IsFiniteSet(S), NEW x, x \notin S
  PROVE  Odd(S \cup {x}) = ~Odd(S)
<1>1. Cardinality(S) \in Nat
  BY FS_CardinalityType
<1>2. Cardinality(S \cup {x}) = Cardinality(S) + 1
  BY FS_AddElement
<1>3. \A n \in Nat: ((n + 1) % 2 = 1) = ~(n % 2 = 1)
  OBVIOUS
<1> QED
  BY <1>1, <1>2, <1>3 DEF Odd

(* Of the places from a to k, one more or one less.                        *)
LEMMA OddStep ==
  ASSUME NEW c, NEW a \in Int, NEW k \in Int, a <= k
  PROVE  Odd({i \in a .. k: c[i] = "quote"}) =
           (Odd({i \in a .. k - 1: c[i] = "quote"}) # (c[k] = "quote"))
<1> DEFINE S == {i \in a .. k - 1: c[i] = "quote"}
           W == {i \in a .. k: c[i] = "quote"}
<1>1. IsFiniteSet(S) /\ k \notin S
  <2>1. IsFiniteSet(a .. k - 1) /\ S \in SUBSET (a .. k - 1)
    BY FS_Interval
  <2>2. k \notin a .. k - 1
    OBVIOUS
  <2> QED
    BY <2>1, <2>2, FS_Subset
<1>2. a .. k = (a .. k - 1) \cup {k}
  OBVIOUS
<1>3. CASE c[k] = "quote"
  <2>1. W = S \cup {k}
    BY <1>2, <1>3
  <2> HIDE DEF S, W
  <2>2. Odd(W) = ~Odd(S)
    BY <1>1, <2>1, OddAdds
  <2> QED
    BY <1>3, <2>2 DEF S, W, Odd
<1>4. CASE c[k] # "quote"
  <2>1. W = S
    BY <1>2, <1>4
  <2> QED
    BY <1>4, <2>1 DEF Odd
<1> QED
  BY <1>3, <1>4

LEMMA ReadQuoted ==
  ASSUME NEW c \in Seq(Cell), NEW s \in Source, NEW q \in BOOLEAN, NEW k \in 0 .. Len(c)
  PROVE  Read(c, s, q)[k].quoted = (q # Odd(Quotes(c, k)))
<1> DEFINE f == Read(c, s, q)
           T == {i \in 0 .. Len(c): f[i].quoted # (q # Odd(Quotes(c, i)))}
<1>1. Len(c) \in Nat /\ \A i \in 1 .. Len(c): c[i] \in Cell
  BY LenProperties, ElementOfSeq
<1>2. f[0] = Begin(s, q) /\ \A i \in 1 .. Len(c): f[i - 1] \in Reader /\ f[i] = ReadCell(c[i])[f[i - 1]]
  BY ReadIs
<1> HIDE DEF f
<1>3. T = {}
  <2> SUFFICES ASSUME T # {} PROVE FALSE
    OBVIOUS
  <2>1. T \in SUBSET Nat
    BY <1>1
  <2> HIDE DEF T
  <2>2. PICK i \in T: \A m \in T: i <= m
    BY <2>1, Least, Zenon
  <2>3. i \in 0 .. Len(c) /\ f[i].quoted # (q # Odd(Quotes(c, i)))
    BY <2>2 DEF T
  <2>4. CASE i = 0
    <3>1. Quotes(c, 0) = {}
      BY DEF Quotes
    <3>2. f[0].quoted = q
      BY <1>2 DEF Begin
    <3> QED
      BY <2>3, <2>4, <3>1, <3>2, OddNone
  <2>5. CASE i # 0
    <3>1. i \in 1 .. Len(c) /\ i - 1 \in 0 .. Len(c) /\ ~(i <= i - 1)
      BY <1>1, <2>3, <2>5
    <3>2. f[i - 1].quoted = (q # Odd(Quotes(c, i - 1)))
      BY <2>2, <3>1 DEF T
    <3>3. Odd(Quotes(c, i)) = (Odd(Quotes(c, i - 1)) # (c[i] = "quote"))
      <4>1. 1 \in Int /\ i \in Int /\ 1 <= i
        BY <1>1, <3>1
      <4>2. Odd({j \in 1 .. i: c[j] = "quote"}) =
              (Odd({j \in 1 .. i - 1: c[j] = "quote"}) # (c[i] = "quote"))
        BY <4>1, OddStep
      <4> QED
        BY <4>2 DEF Quotes
    <3>4. PICK r \in Reader: r = f[i - 1]
      BY <1>2, <3>1
    <3>5. PICK d \in Cell: d = c[i]
      BY <1>1, <3>1
    <3>6. ReadCell(d)[r].quoted = (r.quoted # (d = "quote"))
      <4>1. r.quoted \in BOOLEAN /\ DOMAIN r = {"src", "quoted", "text", "said"}
        BY DEF Reader
      <4>2. CASE d = "nl" \/ (d = "semi" /\ ~r.quoted)
        <5>1. ReadCell(d)[r] = Close[r] /\ Close[r].quoted = r.quoted /\ d # "quote"
          BY <4>2, ReadCellIs, CloseIs
        <5> QED
          BY <4>1, <5>1
      <4>3. CASE d \in Source /\ r.text = <<>>
        <5>1. ReadCell(d)[r] = [r EXCEPT !.src = d] /\ d # "quote"
          BY <4>3, ReadCellIs, CellsApart
        <5> QED
          BY <4>1, <5>1
      <4>4. CASE d # "nl" /\ ~(d = "semi" /\ ~r.quoted) /\ ~(d \in Source /\ r.text = <<>>)
        <5>1. ReadCell(d)[r] = [r EXCEPT !.text = Append(r.text, d), !.quoted = (r.quoted # (d = "quote"))]
          BY <4>4, ReadCellIs
        <5> QED
          BY <4>1, <5>1
      <4> QED
        BY <4>2, <4>3, <4>4
    <3>7. f[i] = ReadCell(d)[r]
      BY <1>2, <3>1, <3>4, <3>5
    <3>8. r.quoted \in BOOLEAN /\ r.quoted = (q # Odd(Quotes(c, i - 1)))
      BY <3>2, <3>4 DEF Reader
    <3>9. f[i].quoted = (r.quoted # (c[i] = "quote"))
      BY <3>5, <3>6, <3>7
    <3> HIDE DEF T
    <3> QED
      BY <2>3, <3>3, <3>8, <3>9 DEF Odd
  <2> QED
    BY <2>4, <2>5
<1> QED
  BY <1>3 DEF f

(* The cells of the buffer from place p to before place n.                 *)
Cut(b, p, n) == [i \in 1 .. n - p |-> b[p + i - 1]]

LEMMA CutIs ==
  ASSUME NEW b, NEW p \in Nat, NEW n \in Nat, p <= n, \A i \in p .. n - 1: b[i] \in Cell
  PROVE  /\ Cut(b, p, n) \in Seq(Cell) /\ Len(Cut(b, p, n)) = n - p /\ n - p \in Nat
         /\ \A i \in 1 .. n - p: Cut(b, p, n)[i] = b[p + i - 1] /\ b[p + i - 1] \in Cell
         /\ \A j \in p .. n - 1: j - p + 1 \in 1 .. n - p /\ Cut(b, p, n)[j - p + 1] = b[j]
<1>1. \A i \in 1 .. n - p: p + i - 1 \in p .. n - 1
  OBVIOUS
<1>2. n - p \in Nat
  OBVIOUS
<1>3. Cut(b, p, n) \in [1 .. n - p -> Cell]
  BY <1>1 DEF Cut
<1>4. Cut(b, p, n) \in Seq(Cell)
  BY <1>2, <1>3, SeqDef
<1>5. DOMAIN Cut(b, p, n) = 1 .. n - p
  BY DEF Cut
<1>6. Len(Cut(b, p, n)) = n - p
  BY <1>2, <1>4, <1>5, LenProperties
<1>7. \A i \in 1 .. n - p: Cut(b, p, n)[i] = b[p + i - 1]
  BY DEF Cut
<1>8. ASSUME NEW j \in p .. n - 1 PROVE j - p + 1 \in 1 .. n - p /\ Cut(b, p, n)[j - p + 1] = b[j]
  <2>1. j - p + 1 \in 1 .. n - p /\ p + (j - p + 1) - 1 = j
    OBVIOUS
  <2> QED
    BY <1>7, <2>1
<1> QED
  BY <1>1, <1>2, <1>4, <1>6, <1>7, <1>8

(* Cut in two at place m.                                                  *)
Joins(b, p, m, n) == Cut(b, p, n) = Then(Cut(b, p, m), Cut(b, m, n))

LEMMA CutJoins ==
  ASSUME NEW b, NEW p \in Nat, NEW m \in Nat, NEW n \in Nat, p <= m, m <= n,
         \A i \in p .. n - 1: b[i] \in Cell
  PROVE  Joins(b, p, m, n)
<1> DEFINE x == Cut(b, p, n)
           y == Cut(b, p, m)
           z == Cut(b, m, n)
<1>1. x \in Seq(Cell) /\ Len(x) = n - p /\ \A i \in 1 .. n - p: x[i] = b[p + i - 1]
  BY CutIs
<1>2. y \in Seq(Cell) /\ Len(y) = m - p /\ \A i \in 1 .. m - p: y[i] = b[p + i - 1]
  <2>1. p <= m /\ \A i \in p .. m - 1: b[i] \in Cell
    OBVIOUS
  <2>2. /\ Cut(b, p, m) \in Seq(Cell) /\ Len(Cut(b, p, m)) = m - p
        /\ \A i \in 1 .. m - p: Cut(b, p, m)[i] = b[p + i - 1] /\ b[p + i - 1] \in Cell
    BY <2>1, CutIs
  <2> QED
    BY <2>2
<1>3. z \in Seq(Cell) /\ Len(z) = n - m /\ \A i \in 1 .. n - m: z[i] = b[m + i - 1]
  <2>1. m <= n /\ \A i \in m .. n - 1: b[i] \in Cell
    OBVIOUS
  <2>2. /\ Cut(b, m, n) \in Seq(Cell) /\ Len(Cut(b, m, n)) = n - m
        /\ \A i \in 1 .. n - m: Cut(b, m, n)[i] = b[m + i - 1] /\ b[m + i - 1] \in Cell
    BY <2>1, CutIs
  <2> QED
    BY <2>2
<1> HIDE DEF x, y, z
<1>4. /\ y \o z \in Seq(Cell) /\ Len(y \o z) = Len(y) + Len(z)
      /\ \A i \in 1 .. Len(y) + Len(z): (y \o z)[i] = IF i <= Len(y) THEN y[i] ELSE z[i - Len(y)]
  BY <1>2, <1>3, ConcatProperties
<1>5. Len(y) + Len(z) = n - p
  BY <1>2, <1>3
<1>6. ASSUME NEW i \in 1 .. n - p PROVE x[i] = (y \o z)[i]
  <2>1. CASE i <= m - p
    <3>1. i \in 1 .. m - p
      BY <2>1
    <3> QED
      BY <1>1, <1>2, <1>4, <1>5, <2>1, <3>1
  <2>2. CASE i > m - p
    <3>1. i - (m - p) \in 1 .. n - m /\ m + (i - (m - p)) - 1 = p + i - 1
      BY <2>2
    <3>2. (y \o z)[i] = z[i - (m - p)]
      BY <1>2, <1>4, <1>5, <2>2
    <3>3. z[i - (m - p)] = b[p + i - 1]
      BY <1>3, <3>1
    <3> QED
      BY <1>1, <3>2, <3>3
  <2>3. i <= m - p \/ i > m - p
    OBVIOUS
  <2> QED
    BY <2>1, <2>2, <2>3
<1>7. x = y \o z
  BY <1>1, <1>4, <1>5, <1>6, SeqEqual
<1> QED
  BY <1>7, Zenon DEF x, y, z, Then, Joins

LEMMA CutSame ==
  ASSUME NEW b, NEW d, NEW p \in Nat, NEW n \in Nat, \A i \in p .. n - 1: b[i] = d[i]
  PROVE  Cut(b, p, n) = Cut(d, p, n)
<1>1. \A i \in 1 .. n - p: p + i - 1 \in p .. n - 1
  OBVIOUS
<1> QED
  BY <1>1 DEF Cut

LEMMA CutOne ==
  ASSUME NEW b, NEW p \in Nat, NEW n \in Nat, n = p + 1, b[p] \in Cell
  PROVE  Cut(b, p, n) \in Seq(Cell) /\ Len(Cut(b, p, n)) = 1 /\ Cut(b, p, n)[1] = b[p]
<1>1. n - p = 1 /\ p + 1 - 1 = p /\ p <= n
  OBVIOUS
<1>2. \A i \in p .. n - 1: b[i] \in Cell
  OBVIOUS
<1>3. Cut(b, p, n) \in Seq(Cell) /\ Len(Cut(b, p, n)) = n - p
  <2>1. \A m \in Nat: p <= m /\ (\A i \in p .. m - 1: b[i] \in Cell) =>
          Cut(b, p, m) \in Seq(Cell) /\ Len(Cut(b, p, m)) = m - p
    BY CutIs
  <2> QED
    BY <1>1, <1>2, <2>1
<1>4. Cut(b, p, n)[1] = b[p + 1 - 1]
  BY <1>1 DEF Cut
<1> QED
  BY <1>1, <1>3, <1>4

LEMMA UnreadIs ==
  ASSUME NEW p \in Nat, NEW n \in Nat, SizeAssumption, p <= n, n <= Size - 1,
         buf[n] = "nul", \A j \in p .. n - 1: buf[j] # "nul"
  PROVE  Unread(p) = Cut(buf, p, n)
<1> DEFINE P(i) == buf[i] = "nul" /\ \A j \in p .. i - 1: buf[j] # "nul"
           m == CHOOSE i \in p .. Size - 1: P(i)
<1>1. Size \in Nat /\ n \in p .. Size - 1
  BY SizeAssumption
<1>2. P(n)
  OBVIOUS
<1>3. m \in p .. Size - 1 /\ P(m)
  BY <1>1, <1>2
<1> HIDE DEF m
<1>4. m = n
  <2>1. CASE m < n
    <3>1. m \in p .. n - 1
      BY <1>1, <1>3, <2>1
    <3> QED
      BY <1>3, <3>1
  <2>2. CASE n < m
    <3>1. n \in p .. m - 1
      BY <1>1, <1>3, <2>2
    <3> QED
      BY <1>3, <3>1
  <2> QED
    BY <1>1, <1>3, <2>1, <2>2
<1> QED
  BY <1>4 DEF m, Unread, Cut

(* At the end of a text no command and no quote is open.                   *)
Settled(c, s, q) == Read(c, s, q)[Len(c)].text = <<>> /\ ~Read(c, s, q)[Len(c)].quoted

LEMMA SettledThen ==
  ASSUME NEW c \in Seq(Cell), NEW d \in Seq(Cell), NEW s \in Source, NEW q \in BOOLEAN,
         NEW r \in Reader, r = Read(c, s, q)[Len(c)], r.text = <<>>
  PROVE  Settled(Then(c, d), s, q) = Settled(d, r.src, r.quoted)
<1>1. Len(d) \in 0 .. Len(d) /\ Len(c \o d) = Len(c) + Len(d)
  BY LenProperties, ConcatProperties
<1>2. Read(c \o d, s, q)[Len(c \o d)] = Said(r.said, Read(d, r.src, r.quoted)[Len(d)])
  BY <1>1, ReadThen
<1> QED
  BY <1>2 DEF Settled, Said, Then

(* The reader r has read all of c, and its last command is complete: what  *)
(* follows is read by itself.                                              *)
Ends(c, s, q, r) == r \in Reader /\ r = Read(c, s, q)[Len(c)] /\ r.text = <<>>
Follows(c, d, s, q, r) ==
  /\ Commands(Then(c, d), s, q) = Then(r.said, Commands(d, r.src, r.quoted))
  /\ Settled(Then(c, d), s, q) = Settled(d, r.src, r.quoted)

LEMMA ReadsOn ==
  ASSUME NEW c \in Seq(Cell), NEW d \in Seq(Cell), NEW s \in Source, NEW q \in BOOLEAN,
         NEW r, Ends(c, s, q, r)
  PROVE  Follows(c, d, s, q, r)
<1>1. r \in Reader /\ r = Read(c, s, q)[Len(c)] /\ r.text = <<>>
  BY DEF Ends
<1>2. Commands(Then(c, d), s, q) = Then(r.said, Commands(d, r.src, r.quoted))
  BY <1>1, CommandsThen
<1>3. Settled(Then(c, d), s, q) = Settled(d, r.src, r.quoted)
  BY <1>1, SettledThen
<1> QED
  BY <1>2, <1>3 DEF Follows

(* What cmdbuf_add writes says what the text does, for its source.         *)
LEMMA SourceSays ==
  ASSUME NEW w \in Seq(Cell), Len(w) = 1, w[1] \in Source, NEW d \in Seq(Cell),
         NEW s \in Source, NEW q \in BOOLEAN
  PROVE  /\ Commands(Then(w, d), s, q) = Commands(d, w[1], q)
         /\ Settled(Then(w, d), s, q) = Settled(d, w[1], q)
<1>1. Read(w, s, q)[1] = ReadCell(w[1])[Begin(s, q)] /\ w[1] \in Cell
  <2>1. 1 \in 1 .. Len(w) /\ w[1] \in Cell /\ 1 - 1 = 0
    BY CellsApart
  <2>2. /\ Read(w, s, q)[0] = Begin(s, q)
        /\ \A i \in 1 .. Len(w): Read(w, s, q)[i] = ReadCell(w[i])[Read(w, s, q)[i - 1]]
    BY ReadIs
  <2>3. Read(w, s, q)[1] = ReadCell(w[1])[Read(w, s, q)[1 - 1]]
    BY <2>1, <2>2
  <2> QED
    BY <2>1, <2>2, <2>3
<1>2. Begin(s, q) \in Reader /\ Begin(w[1], q) \in Reader /\ Begin(s, q).text = <<>>
  BY BeginType DEF Begin
<1>3. ReadCell(w[1])[Begin(s, q)] = [Begin(s, q) EXCEPT !.src = w[1]]
  BY <1>1, <1>2, ReadCellIs
<1>4. Read(w, s, q)[Len(w)] = Begin(w[1], q)
  BY <1>1, <1>3 DEF Begin
<1>5. PICK r \in Reader: r = Begin(w[1], q)
  BY <1>2
<1>6. r.text = <<>> /\ r.src = w[1] /\ r.quoted = q /\ r.said = <<>>
  BY <1>5 DEF Begin
<1>7. /\ Commands(Then(w, d), s, q) = Then(r.said, Commands(d, r.src, r.quoted))
      /\ Settled(Then(w, d), s, q) = Settled(d, r.src, r.quoted)
  <2>1. Ends(w, s, q, r)
    BY <1>4, <1>5, <1>6 DEF Ends
  <2>2. Follows(w, d, s, q, r)
    BY <2>1, ReadsOn
  <2> QED
    BY <2>2 DEF Follows
<1>8. Commands(d, w[1], q) \in Seq(Command)
  <2>1. Len(d) \in 0 .. Len(d)
    BY LenProperties
  <2>2. Read(d, w[1], q)[Len(d)] \in Reader
    BY <2>1, ReadIs
  <2>3. Close[Read(d, w[1], q)[Len(d)]] \in Reader
    BY <2>2, CloseIs
  <2> QED
    BY <2>3, CommandsRead DEF Reader
<1> QED
  BY <1>6, <1>7, <1>8, ConcatEmptySeq DEF Then

(* The newline that is added where there was none.                         *)
LEMMA NewlineSays ==
  ASSUME NEW c \in Seq(Cell), NEW x \in Seq(Cell), Len(x) = 1, x[1] = "nl",
         NEW s \in Source, NEW q \in BOOLEAN
  PROVE  /\ Commands(Then(c, x), s, q) = Commands(c, s, q)
         /\ Read(Then(c, x), s, q)[Len(Then(c, x))].text = <<>>
         /\ Read(Then(c, x), s, q)[Len(Then(c, x))].quoted = Read(c, s, q)[Len(c)].quoted
<1>1. /\ c \o x \in Seq(Cell) /\ Len(c \o x) = Len(c) + 1 /\ Len(c) \in Nat
      /\ (c \o x)[Len(c) + 1] = "nl"
  <2>1. c \o x \in Seq(Cell) /\ Len(c \o x) = Len(c) + 1 /\ Len(c) \in Nat
    <3>1. c \o x \in Seq(Cell) /\ Len(c \o x) = Len(c) + Len(x)
      BY ConcatProperties
    <3> QED
      BY <3>1, LenProperties
  <2>2. Len(c) + 1 \in 1 .. Len(c) + Len(x) /\ ~(Len(c) + 1 <= Len(c)) /\ Len(c) + 1 - Len(c) = 1
    BY <2>1
  <2>3. (c \o x)[Len(c) + 1] = x[Len(c) + 1 - Len(c)]
    BY <2>2, ConcatProperties
  <2> QED
    BY <2>1, <2>2, <2>3
<1> DEFINE n == Len(c) + 1
<1>2. n \in 1 .. Len(c \o x) /\ n - 1 = Len(c) /\ Len(c) \in 0 .. Len(c) /\ n = Len(c \o x)
  BY <1>1
<1>3. Read(c \o x, s, q)[n] = ReadCell((c \o x)[n])[Read(c \o x, s, q)[n - 1]]
  BY <1>1, <1>2, ReadIs
<1>4. Read(c \o x, s, q)[Len(c)] = Read(c, s, q)[Len(c)]
  BY <1>2, ReadFirst
<1>5. PICK r \in Reader: r = Read(c, s, q)[Len(c)]
  BY <1>2, ReadIs
<1>6. ReadCell("nl")[r] = Close[r]
  BY ReadCellIs, CellsApart
<1>7. Read(c \o x, s, q)[Len(c \o x)] = Close[r]
  BY <1>1, <1>2, <1>3, <1>4, <1>5, <1>6
<1>8. Close[r] \in Reader /\ Close[r].text = <<>> /\ Close[r].quoted = r.quoted
  BY CloseIs
<1>9. Close[Close[r]] = Close[r]
  BY <1>8, CloseIs
<1>10. Commands(c \o x, s, q) = Commands(c, s, q)
  BY <1>5, <1>7, <1>9, CommandsRead
<1>11. /\ Read(c \o x, s, q)[Len(c \o x)].text = <<>>
       /\ Read(c \o x, s, q)[Len(c \o x)].quoted = Read(c, s, q)[Len(c)].quoted
  BY <1>5, <1>7, <1>8
<1> QED
  BY <1>10, <1>11, Zenon DEF Then

(* A text with an end of its own and closed quotes leaves nothing open.    *)
LEMMA EndedSettles ==
  ASSUME NEW c \in Seq(Cell), c # <<>>, Ended(c), Balanced(c), NEW s \in Source
  PROVE  Settled(c, s, FALSE)
<1>1. Len(c) \in 1 .. Len(c) /\ Len(c) \in 0 .. Len(c) /\ c[Len(c)] \in {"nl", "semi"}
  BY LenProperties, EmptySeq DEF Ended, Last
<1>2. Read(c, s, FALSE)[Len(c)].quoted = (FALSE # Odd(Quotes(c, Len(c))))
  BY <1>1, ReadQuoted
<1>3. ~Read(c, s, FALSE)[Len(c)].quoted
  BY <1>2 DEF Balanced, Odd
<1>4. PICK r \in Reader: r = Read(c, s, FALSE)[Len(c) - 1]
  BY <1>1, ReadIs
<1>5. Read(c, s, FALSE)[Len(c)] = ReadCell(c[Len(c)])[r]
  BY <1>1, <1>4, ReadIs
<1>6. CASE c[Len(c)] = "nl" \/ (c[Len(c)] = "semi" /\ ~r.quoted)
  <2>1. PICK d \in Cell: d = c[Len(c)] /\ (d = "nl" \/ (d = "semi" /\ ~r.quoted))
    BY <1>1, <1>6, CellsApart
  <2>2. ReadCell(d)[r] = Close[r] /\ Close[r].text = <<>>
    BY <2>1, ReadCellIs, CloseIs
  <2> QED
    BY <1>3, <1>5, <2>1, <2>2 DEF Settled
<1>7. CASE c[Len(c)] = "semi" /\ r.quoted
  <2>1. "semi" \in Cell /\ "semi" \notin Source
    BY CellsApart
  <2>2. ReadCell("semi")[r] = [r EXCEPT !.text = Append(r.text, "semi"), !.quoted = (r.quoted # ("semi" = "quote"))]
    BY <1>7, <2>1, ReadCellIs
  <2>3. ReadCell("semi")[r].quoted = TRUE
    BY <1>7, <2>2 DEF Reader
  <2> QED
    BY <1>3, <1>5, <1>7, <2>3
<1> QED
  BY <1>1, <1>6, <1>7

-----------------------------------------------------------------------------
(* What the buffer says.                                                   *)

(* Where the text ends, when it is n cells long.                           *)
EndOf(n) == IF n = Size THEN Size - 1 ELSE n

(* From p on there are commands up to e, for sources with text behind them.*)
Sound(b, p, e) ==
  /\ b[e] = "nul"
  /\ \A i \in p .. e - 1: b[i] # "nul" /\ (b[i] \in Source => i + 1 < e /\ b[i + 1] \notin Source)

LEMMA TextCells == TextCell \subseteq Cell /\ "nul" \notin TextCell /\ \A x \in TextCell: x \notin Source
  BY DEF TextCell

LEMMA AddPlaces ==
  ASSUME NEW b \in [Index -> Cell], NEW l \in 0 .. Size, NEW p \in 0 .. l,
         NEW c \in Seq(TextCell), NEW s \in Source, Takes(c, l),
         \A i \in p .. l - 1: b[i] # "nul" /\ (b[i] \in Source => i + 1 < l /\ b[i + 1] \notin Source)
  PROVE  LET w == Written(b, l, c, s)
             n == l + Len(c)
             e == EndOf(LengthAfter(l, c))
         IN  /\ l < n /\ n < e /\ e <= Size - 1 /\ n \in Nat /\ e \in Nat /\ e <= n + 2
             /\ e = StopAfter(c, l) /\ (e = n + 1 \/ (e = n + 2 /\ ~Ended(c)))
             /\ e = n + 1 => Ended(c) \/ LengthAfter(l, c) = Size
             /\ w \in [Index -> Cell]
             /\ \A i \in p .. l - 1: w[i] = b[i]
             /\ w[l] = s
             /\ \A i \in l + 1 .. n: w[i] = c[i - l]
             /\ e = n + 2 => w[n + 1] = "nl"
             /\ Sound(w, p, e)
<1> DEFINE w    == Written(b, l, c, s)
           n    == l + Len(c)
           e    == EndOf(LengthAfter(l, c))
           stop == StopAfter(c, l)
<1>1. Layout(b, l, c, s)
  BY WrittenIs, Zenon
<1>2. /\ Len(c) \in Nat /\ Len(c) >= 1 /\ n \in Nat /\ n < Size - 1
      /\ stop \in Nat /\ n < stop /\ stop <= n + 2 /\ stop <= Size - 1
      /\ w = [i \in Index |-> w[i]]
  BY <1>1 DEF Layout
<1>3. \A i \in Index: /\ i = l => w[i] = s
                      /\ i \in l + 1 .. n => w[i] = c[i - l] /\ c[i - l] \in TextCell
                      /\ i \in n + 1 .. stop - 1 => w[i] = "nl"
                      /\ i = stop => w[i] = "nul"
                      /\ i < l \/ i > stop => w[i] = b[i]
                      /\ \/ i = l \/ i \in l + 1 .. n \/ i \in n + 1 .. stop - 1
                         \/ i = stop \/ i < l \/ i > stop
  BY <1>1 DEF Layout
<1> HIDE DEF w
<1>4. /\ e = stop /\ (e = n + 1 \/ (e = n + 2 /\ ~Ended(c)))
      /\ e = n + 1 => Ended(c) \/ LengthAfter(l, c) = Size
  BY <1>2, SizeAssumption DEF EndOf, LengthAfter, StopAfter
<1> HIDE DEF e, stop
<1>5. l < n /\ n < e /\ e <= Size - 1 /\ n \in Nat /\ e \in Nat /\ e <= n + 2 /\ l \in Nat /\ p \in Nat
  BY <1>2, <1>4
<1>6. w \in [Index -> Cell]
  <2>1. \A i \in Index: w[i] \in Cell
    BY <1>3, CellsApart, TextCells
  <2> QED
    BY <1>2, <2>1
<1>7. Index = 0 .. Size - 1 /\ Size \in Nat
  BY SizeAssumption DEF Index
<1>8. \A i \in p .. l - 1: w[i] = b[i]
  BY <1>3, <1>5, <1>7
<1>9. w[l] = s
  BY <1>3, <1>5, <1>7
<1>10. \A i \in l + 1 .. n: w[i] = c[i - l] /\ c[i - l] \in TextCell
  <2> SUFFICES ASSUME NEW i \in l + 1 .. n PROVE w[i] = c[i - l] /\ c[i - l] \in TextCell
    OBVIOUS
  <2>1. i \in Index
    <3> HIDE DEF n
    <3> QED
      BY <1>5, <1>7
  <2> QED
    BY <1>3, <2>1
<1>11. e = n + 2 => w[n + 1] = "nl"
  <2> HIDE DEF n
  <2> SUFFICES ASSUME e = n + 2 PROVE w[n + 1] = "nl"
    OBVIOUS
  <2>1. n + 1 \in Index /\ n + 1 \in n + 1 .. stop - 1
    BY <1>4, <1>5, <1>7
  <2> QED
    BY <1>3, <2>1
<1>12. w[e] = "nul"
  BY <1>3, <1>4, <1>5, <1>7
<1>13. Sound(w, p, e)
  <2> HIDE DEF n
  <2> SUFFICES ASSUME NEW i \in p .. e - 1
               PROVE  w[i] # "nul" /\ (w[i] \in Source => i + 1 < e /\ w[i + 1] \notin Source)
    BY <1>12 DEF Sound
  <2>1. "nul" \notin Source /\ "nl" \notin Source /\ s \in Source
    BY CellsApart
  <2>2. CASE i < l
    <3>1. i \in p .. l - 1 /\ i \in Int
      BY <1>5, <2>2
    <3>2. w[i] = b[i] /\ w[i] # "nul"
      BY <1>8, <3>1
    <3>3. w[i] \in Source => i + 1 < l /\ b[i + 1] \notin Source
      BY <3>1, <3>2
    <3>4. i + 1 < l => i + 1 < e /\ w[i + 1] = b[i + 1]
      BY <1>5, <1>8, <3>1
    <3> QED
      BY <3>2, <3>3, <3>4
  <2>3. CASE i = l
    <3>1. i + 1 \in l + 1 .. n /\ i + 1 < e
      BY <1>5, <2>3
    <3>2. w[i + 1] \notin Source
      BY <1>10, <3>1, TextCells
    <3>3. w[i] # "nul"
      BY <1>9, <2>1, <2>3
    <3> QED
      BY <3>1, <3>2, <3>3
  <2>4. CASE i \in l + 1 .. n
    BY <1>10, <2>4, TextCells
  <2>5. CASE i = n + 1
    <3>1. e = n + 2
      BY <1>4, <1>5, <2>5
    <3> QED
      BY <1>11, <2>1, <2>5, <3>1
  <2> QED
    BY <1>5, <2>2, <2>3, <2>4, <2>5
<1> QED
  BY <1>4, <1>5, <1>6, <1>8, <1>9, <1>10, <1>11, <1>13 DEF w, e, stop

(* What was left to say, from place p on, and then what c says.            *)
AppendedSays(b, l, p, c, s, t, q) ==
  LET w == Written(b, l, c, s)
      m == LengthAfter(l, c)
  IN  /\ Commands(Cut(w, p, EndOf(m)), t, q) = Then(Commands(Cut(b, p, l), t, q), Commands(c, s, FALSE))
      /\ m < Size => Settled(Cut(w, p, EndOf(m)), t, q)

LEMMA AddSays ==
  ASSUME NEW b \in [Index -> Cell], NEW l \in 0 .. Size, NEW p \in 0 .. l,
         NEW c \in Seq(TextCell), NEW s \in Source, Takes(c, l), Balanced(c),
         \A i \in p .. l - 1: b[i] # "nul" /\ (b[i] \in Source => i + 1 < l /\ b[i + 1] \notin Source),
         NEW t \in Source, NEW q \in BOOLEAN, Settled(Cut(b, p, l), t, q)
  PROVE  AppendedSays(b, l, p, c, s, t, q)
<1> DEFINE w == Written(b, l, c, s)
           m == LengthAfter(l, c)
           n == l + Len(c)
           e == EndOf(m)
<1>1. /\ l < n /\ n < e /\ e <= Size - 1 /\ n \in Nat /\ e \in Nat /\ e <= n + 2
      /\ (e = n + 1 \/ (e = n + 2 /\ ~Ended(c)))
      /\ e = n + 1 => Ended(c) \/ m = Size
      /\ w \in [Index -> Cell]
      /\ \A i \in p .. l - 1: w[i] = b[i]
      /\ w[l] = s
      /\ \A i \in l + 1 .. n: w[i] = c[i - l]
      /\ e = n + 2 => w[n + 1] = "nl"
  BY AddPlaces
<1>2. l \in Nat /\ p \in Nat /\ p <= l /\ Size \in Nat /\ Index = 0 .. Size - 1
  BY SizeAssumption DEF Index
<1>3. c \in Seq(Cell) /\ Len(c) \in Nat /\ c # <<>>
  BY TextCells, SeqMonotonic, LenProperties DEF Takes, ValidText
<1> HIDE DEF w, m, e
<1> PICK a \in Nat: a = l + 1
  BY <1>2
<1> PICK d \in Nat: d = n + 1
  BY <1>1
<1>18. l < a /\ a < d /\ d <= e /\ a = l + 1 /\ d = n + 1 /\ (e = d \/ (e = d + 1 /\ ~Ended(c)))
  BY <1>1, <1>2
<1>4. \A i \in p .. e - 1: w[i] \in Cell
  <2> HIDE DEF n
  <2> QED
    BY <1>1, <1>2
<1>5. \A i \in p .. l - 1: b[i] \in Cell
  <2> HIDE DEF n
  <2> QED
    BY <1>1, <1>2
<1> DEFINE old  == Cut(b, p, l)
           new  == Cut(w, l, e)
           mark == Cut(w, l, a)
           rest == Cut(w, a, e)
<1>6. old \in Seq(Cell) /\ new \in Seq(Cell) /\ mark \in Seq(Cell) /\ rest \in Seq(Cell)
  <2> HIDE DEF n
  <2>1. \A i \in l .. e - 1: w[i] \in Cell
    BY <1>2, <1>4
  <2>2. (\A i \in l .. a - 1: w[i] \in Cell) /\ (\A i \in a .. e - 1: w[i] \in Cell)
    BY <1>1, <1>2, <1>18, <2>1
  <2>3. l <= a /\ a <= e /\ l <= e
    BY <1>1, <1>2, <1>18
  <2>4. old \in Seq(Cell)
    BY <1>2, <1>5, CutIs
  <2>5. new \in Seq(Cell)
    BY <1>1, <1>2, <2>1, <2>3, CutIs
  <2>6. mark \in Seq(Cell)
    BY <1>2, <2>2, <2>3, CutIs
  <2>7. rest \in Seq(Cell)
    BY <1>1, <2>2, <2>3, CutIs
  <2> QED
    BY <2>4, <2>5, <2>6, <2>7
<1>7. Cut(w, p, e) = Then(old, new)
  <2> HIDE DEF n
  <2>1. l <= e
    BY <1>1, <1>2
  <2>4. Joins(w, p, l, e)
    BY <1>1, <1>2, <1>4, <2>1, CutJoins
  <2>2. Cut(w, p, e) = Then(Cut(w, p, l), new)
    BY <2>4 DEF Joins
  <2>3. Cut(w, p, l) = old
    BY <1>1, <1>2, CutSame, SMTT(30)
  <2> QED
    BY <2>2, <2>3
<1>8. new = Then(mark, rest)
  <2> HIDE DEF n
  <2>1. l <= a /\ a <= e
    BY <1>1, <1>2, <1>18
  <2>2. \A i \in l .. e - 1: w[i] \in Cell
    BY <1>2, <1>4
  <2>3. Joins(w, l, a, e)
    BY <1>1, <1>2, <2>1, <2>2, CutJoins
  <2> QED
    BY <2>3 DEF Joins
<1>9. Len(mark) = 1 /\ mark[1] = s
  <2> HIDE DEF n
  <2>1. w[l] \in Cell
    BY <1>1, CellsApart
  <2>2. Len(mark) = 1 /\ mark[1] = w[l]
    BY <1>2, <2>1, CutOne
  <2> QED
    BY <1>1, <2>2
<1>10. Cut(w, a, d) = c
  <2>3. d - a = Len(c)
    BY <1>2, <1>3, <1>18
  <2>4. c = [i \in 1 .. Len(c) |-> c[i]]
    BY <1>3, LenProperties
  <2>2. ASSUME NEW i \in 1 .. Len(c) PROVE w[a + i - 1] = c[i]
    <3>1. a + i - 1 \in l + 1 .. n /\ (a + i - 1) - l = i
      BY <1>2, <1>3, <1>18
    <3> QED
      BY <1>1, <3>1
  <2> HIDE DEF n
  <2> QED
    BY <2>2, <2>3, <2>4 DEF Cut
<1>11. /\ Commands(rest, s, FALSE) = Commands(c, s, FALSE)
       /\ m < Size => Settled(rest, s, FALSE)
  <2>1. CASE e = d
    <3>1. rest = c
      BY <1>10, <2>1
    <3>2. m < Size => Ended(c)
      <4>1. m = Size => ~(m < Size)
        BY <1>2
      <4> QED
        BY <1>1, <1>18, <2>1, <4>1
    <3> QED
      BY <1>3, <3>1, <3>2, EndedSettles
  <2>2. CASE e = d + 1
    <3> DEFINE x == Cut(w, d, e)
    <3> HIDE DEF n
    <3>1. d <= e /\ \A i \in d .. e - 1: w[i] \in Cell
      BY <1>1, <1>2, <1>4, <1>18
    <3>2. e - d = 1 /\ 1 \in 1 .. e - d /\ d + 1 - 1 = n + 1 /\ e = n + 2
      BY <1>1, <1>18, <2>2
    <3>3. x \in Seq(Cell) /\ Len(x) = e - d
      BY <1>1, <3>1, CutIs
    <3>8. \A i \in 1 .. e - d: x[i] = w[d + i - 1]
      BY DEF Cut
    <3>4. Len(x) = 1 /\ x[1] = "nl"
      BY <1>1, <2>2, <3>2, <3>3, <3>8
    <3>5. rest = Then(c, x)
      <4>1. a <= d /\ \A i \in a .. e - 1: w[i] \in Cell
        BY <1>1, <1>2, <1>4, <1>18
      <4>2. Cut(w, a, e) = Then(Cut(w, a, d), x)
        <5>1. Joins(w, a, d, e)
          BY <1>1, <3>1, <4>1, CutJoins
        <5> QED
          BY <5>1 DEF Joins
      <4> QED
        BY <1>10, <4>2
    <3> HIDE DEF x
    <3>6. Commands(Then(c, x), s, FALSE) = Commands(c, s, FALSE)
      BY <1>3, <3>3, <3>4, NewlineSays
    <3>7. Settled(Then(c, x), s, FALSE)
      <4>1. /\ Read(Then(c, x), s, FALSE)[Len(Then(c, x))].text = <<>>
            /\ Read(Then(c, x), s, FALSE)[Len(Then(c, x))].quoted = Read(c, s, FALSE)[Len(c)].quoted
        BY <1>3, <3>3, <3>4, NewlineSays
      <4>2. Len(c) \in 0 .. Len(c)
        BY <1>3
      <4>3. Read(c, s, FALSE)[Len(c)].quoted = (FALSE # Odd(Quotes(c, Len(c))))
        BY <1>3, <4>2, ReadQuoted
      <4>4. ~Read(c, s, FALSE)[Len(c)].quoted
        BY <4>3 DEF Balanced, Odd
      <4> QED
        BY <4>1, <4>4 DEF Settled
    <3> QED
      BY <3>5, <3>6, <3>7
  <2> QED
    BY <1>18, <2>1, <2>2
<1> HIDE DEF old, new, mark, rest, n
<1>12. PICK r \in Reader: r = Read(old, t, q)[Len(old)]
  <2>1. Len(old) \in 0 .. Len(old)
    BY <1>6, LenProperties
  <2>2. Read(old, t, q) \in [0 .. Len(old) -> Reader]
    BY <1>6, ReadIs
  <2> QED
    BY <2>1, <2>2
<1>13. r.text = <<>> /\ ~r.quoted /\ r.src \in Source /\ r.quoted \in BOOLEAN
  BY <1>12 DEF Settled, old, Reader
<1>14. Commands(old, t, q) = r.said
  BY <1>6, <1>12, <1>13, CommandsWhole
<1>15. Follows(old, new, t, q, r)
  <2>1. Ends(old, t, q, r)
    BY <1>12, <1>13 DEF Ends
  <2> QED
    BY <1>6, <2>1, ReadsOn
<1>16. /\ Commands(new, r.src, r.quoted) = Commands(rest, s, r.quoted)
       /\ Settled(new, r.src, r.quoted) = Settled(rest, s, r.quoted)
  <2>1. mark[1] \in Source
    BY <1>9
  <2>2. /\ Commands(Then(mark, rest), r.src, r.quoted) = Commands(rest, mark[1], r.quoted)
        /\ Settled(Then(mark, rest), r.src, r.quoted) = Settled(rest, mark[1], r.quoted)
    BY <1>6, <1>9, <1>13, <2>1, SourceSays
  <2> QED
    BY <1>8, <1>9, <2>2
<1>17. r.quoted = FALSE
  BY <1>13
<1> QED
  BY <1>7, <1>11, <1>14, <1>15, <1>16, <1>17 DEF old, w, m, e, Follows, AppendedSays

(* Where the text begins that is still to be read, and how it is read.     *)
Place    == IF frames = <<>> THEN 0 ELSE Top.pos
Reads    == IF frames = <<>> THEN Engine ELSE Top.src
InQuotes == IF frames = <<>> THEN FALSE ELSE Top.quoted
Live     == IF frames = <<>> THEN len >= 1 ELSE ~Top.leave
Rest     == Cut(buf, Place, EndOf(len))

(* The text ends where cmdbuf_len says, its sources have text behind them, *)
(* and unless the buffer is full it leaves no command and no quote open:   *)
(* what is appended then begins a command of its own.                      *)
Body ==
  /\ Place <= EndOf(len) /\ Sound(buf, Place, EndOf(len))
  /\ len < Size => Settled(Rest, Reads, InQuotes)

QueueInv ==
  /\ IInv /\ Len(frames) <= 1
  /\ Live => Body
  /\ frames # <<>> /\ Top.end => Top.leave

LEMMA EndIs == IInv => EndOf(len) \in Nat /\ EndOf(len) <= Size - 1 /\ EndOf(len) \in Index
                       /\ (len < Size => EndOf(len) = len)
  BY SizeAssumption DEF IInv, TypeOK, EndOf, Index

LEMMA PlaceIs ==
  ASSUME IInv
  PROVE  /\ Place \in Index /\ Place \in Nat /\ Reads \in Source /\ InQuotes \in BOOLEAN
         /\ frames # <<>> => Top \in FrameType
<1>1. Index \subseteq Nat /\ 0 \in Index
  BY SizeAssumption DEF Index
<1>2. CASE frames = <<>>
  BY <1>1, <1>2, SourceAssumption DEF Place, Reads, InQuotes
<1>3. CASE frames # <<>>
  <2>1. Top \in FrameType
    BY <1>3, LenProperties, EmptySeq, ElementOfSeq DEF IInv, TypeOK, Top
  <2> QED
    BY <1>1, <1>3, <2>1 DEF Place, Reads, InQuotes, FrameType
<1> QED
  BY <1>2, <1>3

LEMMA RestType ==
  ASSUME IInv, Place <= EndOf(len)
  PROVE  /\ Rest \in Seq(Cell) /\ Len(Rest) = EndOf(len) - Place
         /\ \A i \in Place .. EndOf(len) - 1: i \in Index /\ buf[i] \in Cell
<1>1. \A i \in Place .. EndOf(len) - 1: i \in Index /\ buf[i] \in Cell
  <2> SUFFICES ASSUME NEW i \in Place .. EndOf(len) - 1 PROVE i \in Index
    BY DEF IInv, TypeOK
  <2>1. Place \in Nat /\ EndOf(len) \in Nat /\ EndOf(len) <= Size - 1 /\ Size \in Nat
    BY EndIs, PlaceIs, SizeAssumption
  <2> QED
    BY <2>1 DEF Index
<1>2. Place \in Nat /\ EndOf(len) \in Nat
  BY EndIs, PlaceIs
<1> QED
  BY <1>1, <1>2, CutIs DEF Rest

LEMMA PendingIs ==
  ASSUME QueueInv
  PROVE  Pending = IF Live THEN Commands(Rest, Reads, InQuotes) ELSE <<>>
<1>1. len \in Nat
  BY DEF QueueInv, IInv, TypeOK
<1>2. CASE ~Live
  <2>1. CASE frames = <<>>
    <3>1. len < 1 /\ ~(len >= 1)
      BY <1>1, <1>2, <2>1 DEF Live
    <3> QED
      BY <1>2, <2>1, <3>1 DEF Pending
  <2>2. CASE frames # <<>>
    <3>1. Top.leave
      BY <1>2, <2>2 DEF Live
    <3> QED
      BY <1>2, <2>2, <3>1 DEF Pending
  <2> QED
    BY <2>1, <2>2
<1>3. CASE Live
  <2>1. Unread(Place) = Rest
    BY <1>3, EndIs, PlaceIs, UnreadIs, SizeAssumption DEF QueueInv, Body, Sound, Rest
  <2>2. CASE frames = <<>>
    <3>1. Pending = Commands(Unread(0), Engine, FALSE)
      BY <1>1, <1>3, <2>2 DEF Pending, Live
    <3> QED
      BY <1>3, <2>1, <2>2, <3>1 DEF Place, Reads, InQuotes
  <2>3. CASE frames # <<>>
    <3>1. Pending = Commands(Unread(Top.pos), Top.src, Top.quoted)
      BY <1>3, <2>3 DEF Pending, Live
    <3> QED
      BY <1>3, <2>1, <2>3, <3>1 DEF Place, Reads, InQuotes
  <2> QED
    BY <2>2, <2>3
<1> QED
  BY <1>2, <1>3

(* Where a scan that has met the end e of a command stands.                *)
LEMMA ScanPlaces ==
  ASSUME QueueInv, Scanning, NEW e \in Index, e >= Start, FirstStop(e)
  PROVE  /\ Top \in FrameType /\ Place = Top.pos /\ Reads = Top.src /\ InQuotes = Top.quoted /\ Live
         /\ Start \in Nat /\ e \in Nat /\ Place <= Start /\ Start <= e /\ e <= EndOf(len) /\ Start < EndOf(len)
         /\ Start = Place => buf[Place] \notin Source /\ CmdSource = Reads
         /\ Start # Place => Start = Place + 1 /\ buf[Place] \in Source /\ CmdSource = buf[Place]
         /\ buf[Start] \notin Source
         /\ CmdSource \in Source /\ Quoted(e) \in BOOLEAN
         /\ buf[e] = "nul" <=> e = EndOf(len)
         /\ ~Top.end
<1>1. frames # <<>> /\ ~Top.leave /\ buf[Top.pos] # "nul"
  BY DEF Scanning
<1>2. Top \in FrameType /\ Place = Top.pos /\ Reads = Top.src /\ InQuotes = Top.quoted /\ Live
  BY <1>1, PlaceIs DEF QueueInv, Place, Reads, InQuotes, Live
<1>3. IInv /\ Body /\ ~Top.end
  BY <1>1, <1>2 DEF QueueInv
<1> DEFINE n == EndOf(len)
<1>4. n \in Nat /\ Place \in Nat /\ e \in Nat /\ n \in Index
  BY <1>3, EndIs, PlaceIs, SizeAssumption DEF Index
<1>5. /\ Place <= n /\ buf[n] = "nul"
      /\ \A i \in Place .. n - 1: buf[i] # "nul" /\ (buf[i] \in Source => i + 1 < n /\ buf[i + 1] \notin Source)
  BY <1>3 DEF Body, Sound
<1> HIDE DEF n
<1>6. Place < n
  BY <1>1, <1>2, <1>4, <1>5
<1>7. CASE buf[Place] \in Source
  <2>1. Start = Place + 1 /\ CmdSource = buf[Place]
    BY <1>2, <1>7 DEF Start, CmdSource
  <2>2. Place + 1 < n /\ buf[Place + 1] \notin Source
    BY <1>4, <1>5, <1>6, <1>7
  <2>3. Start <= n
    BY <1>4, <2>1, <2>2
  <2>4. e <= n
    <3> SUFFICES ASSUME n < e PROVE FALSE
      BY <1>4
    <3>1. n \in Start .. e - 1 /\ Stops(n)
      BY <1>4, <1>5, <2>1, <2>3 DEF Stops
    <3> QED
      BY <3>1 DEF FirstStop
  <2>5. buf[e] = "nul" <=> e = n
    BY <1>4, <1>5, <2>1, <2>4
  <2> QED
    BY <1>2, <1>3, <1>4, <1>7, <2>1, <2>2, <2>4, <2>5 DEF Quoted, FrameType, n
<1>8. CASE buf[Place] \notin Source
  <2>1. Start = Place /\ CmdSource = Reads
    BY <1>2, <1>8 DEF Start, CmdSource
  <2>4. e <= n
    <3> SUFFICES ASSUME n < e PROVE FALSE
      BY <1>4
    <3>1. n \in Start .. e - 1 /\ Stops(n)
      BY <1>4, <1>5, <1>6, <2>1 DEF Stops
    <3> QED
      BY <3>1 DEF FirstStop
  <2>5. buf[e] = "nul" <=> e = n
    BY <1>4, <1>5, <2>1, <2>4
  <2> QED
    BY <1>2, <1>3, <1>4, <1>6, <1>8, <2>1, <2>4, <2>5 DEF Quoted, FrameType, n
<1> QED
  BY <1>7, <1>8

(* The reader follows the scan of a command cell by cell.                  *)
At(k) == [src |-> CmdSource, quoted |-> Quoted(k - 1), text |-> CommandText(k), said |-> <<>>]

LEMMA QuotedIs ==
  ASSUME NEW k
  PROVE  Quoted(k) = (Top.quoted # Odd({i \in Start .. k: buf[i] = "quote"}))
  BY DEF Quoted, Odd

LEMMA QuotedStep ==
  ASSUME Top \in FrameType, NEW k \in Int, Start \in Int, Start <= k
  PROVE  Quoted(k) \in BOOLEAN /\ Quoted(k - 1) \in BOOLEAN
         /\ Quoted(k) = (Quoted(k - 1) # (buf[k] = "quote"))
<1>1. Odd({i \in Start .. k: buf[i] = "quote"}) =
        (Odd({i \in Start .. k - 1: buf[i] = "quote"}) # (buf[k] = "quote"))
  BY OddStep
<1>2. Top.quoted \in BOOLEAN
  BY DEF FrameType
<1>3. Quoted(k) = (Top.quoted # Odd({i \in Start .. k: buf[i] = "quote"}))
      /\ Quoted(k - 1) = (Top.quoted # Odd({i \in Start .. k - 1: buf[i] = "quote"}))
  BY QuotedIs
<1>4. \A a, b, c, d, x \in BOOLEAN: a = (b # x) /\ c = (d # a) => c = ((d # b) # x)
  OBVIOUS
<1>5. Odd({i \in Start .. k: buf[i] = "quote"}) \in BOOLEAN
      /\ Odd({i \in Start .. k - 1: buf[i] = "quote"}) \in BOOLEAN
      /\ (buf[k] = "quote") \in BOOLEAN
  BY DEF Odd
<1>6. Quoted(k) \in BOOLEAN /\ Quoted(k - 1) \in BOOLEAN
  BY DEF Quoted
<1> QED
  BY <1>1, <1>2, <1>3, <1>4, <1>5, <1>6, Zenon

LEMMA ReadCommand ==
  ASSUME QueueInv, Scanning, NEW e \in Index, e >= Start, FirstStop(e), NEW k \in Start .. e
  PROVE  Read(Rest, Reads, InQuotes)[k - Place] = At(k) /\ k - Place \in 0 .. Len(Rest)
<1> DEFINE st == Start
           p  == Place
           n  == EndOf(len)
           f  == Read(Rest, Reads, InQuotes)
           T  == {i \in st .. e: f[i - p] # At(i)}
<1>1. /\ Top \in FrameType /\ p = Top.pos /\ Reads = Top.src /\ InQuotes = Top.quoted
      /\ st \in Nat /\ e \in Nat /\ p <= st /\ st <= e /\ e <= n /\ st < n
      /\ st = p => buf[p] \notin Source /\ CmdSource = Reads
      /\ st # p => st = p + 1 /\ buf[p] \in Source /\ CmdSource = buf[p]
      /\ buf[st] \notin Source
      /\ CmdSource \in Source
  BY ScanPlaces
<1>2. IInv /\ p \in Nat /\ n \in Nat /\ p <= n /\ Reads \in Source /\ InQuotes \in BOOLEAN
  BY <1>1, EndIs, PlaceIs DEF QueueInv
<1>3. /\ Rest \in Seq(Cell) /\ Len(Rest) = n - p
      /\ \A i \in p .. n - 1: i \in Index /\ buf[i] \in Cell
  BY <1>2, RestType
<1>4. /\ f[0] = Begin(Reads, InQuotes)
      /\ \A i \in 1 .. Len(Rest): f[i - 1] \in Reader /\ f[i] = ReadCell(Rest[i])[f[i - 1]]
  BY <1>2, <1>3, ReadIs
<1>5. \A i \in 1 .. n - p: Rest[i] = buf[p + i - 1]
  BY DEF Rest, Cut
<1> HIDE DEF f, p, n, st
<1>6. ASSUME NEW i \in p .. n - 1
      PROVE  f[i - p] \in Reader /\ f[i + 1 - p] = ReadCell(buf[i])[f[i - p]]
  <2>1. PICK j \in 1 .. n - p: j = i + 1 - p /\ j - 1 = i - p /\ p + j - 1 = i
    <3>1. i + 1 - p \in 1 .. n - p /\ (i + 1 - p) - 1 = i - p /\ p + (i + 1 - p) - 1 = i
      BY <1>2
    <3> QED
      BY <3>1
  <2> QED
    BY <1>3, <1>4, <1>5, <2>1
<1>7. f[st - p] = At(st)
  <2>1. {i \in st .. st - 1: buf[i] = "quote"} = {}
    BY <1>1
  <2>2. Quoted(st - 1) = InQuotes
    BY <1>1, <2>1, OddNone, QuotedIs DEF st, FrameType
  <2>3. CommandText(st) = <<>>
    <3>1. st - st = 0
      BY <1>1
    <3> QED
      BY <3>1 DEF CommandText, st
  <2>4. At(st) = Begin(CmdSource, InQuotes)
    BY <2>2, <2>3 DEF At, Begin
  <2>5. CASE st = p
    <3>1. st - p = 0
      BY <1>1, <2>5
    <3> QED
      BY <1>1, <1>4, <2>4, <2>5, <3>1
  <2>6. CASE st # p
    <3>1. st - p = 1 /\ 1 \in 1 .. Len(Rest) /\ 1 - 1 = 0 /\ Rest[1] = buf[p]
      <4>1. st - p = 1 /\ 1 \in 1 .. n - p /\ p + 1 - 1 = p
        BY <1>1, <1>2, <2>6
      <4> QED
        BY <1>3, <1>5, <4>1
    <3>2. f[1] = ReadCell(buf[p])[Begin(Reads, InQuotes)]
      <4>1. f[1] = ReadCell(Rest[1])[f[1 - 1]]
        BY <1>4, <3>1
      <4> QED
        BY <1>4, <3>1, <4>1
    <3>3. Begin(Reads, InQuotes) \in Reader /\ Begin(Reads, InQuotes).text = <<>>
      BY <1>2, BeginType DEF Begin
    <3>4. buf[p] \in Source /\ buf[p] \in Cell
      BY <1>1, <2>6, CellsApart
    <3>5. f[1] = [Begin(Reads, InQuotes) EXCEPT !.src = buf[p]]
      BY <3>2, <3>3, <3>4, ReadCellIs
    <3>6. f[1] = Begin(CmdSource, InQuotes)
      BY <1>1, <2>6, <3>5 DEF Begin
    <3> QED
      BY <2>4, <3>1, <3>6
  <2> QED
    BY <2>5, <2>6
<1>8. T = {}
  <2> SUFFICES ASSUME T # {} PROVE FALSE
    OBVIOUS
  <2>1. T \in SUBSET Nat
    BY <1>1
  <2> HIDE DEF T
  <2>2. PICK i \in T: \A m \in T: i <= m
    BY <2>1, Least, Zenon
  <2>3. i \in st .. e /\ f[i - p] # At(i)
    BY <2>2 DEF T
  <2>4. i # st
    BY <1>7, <2>3
  <2>5. PICK j \in st .. e - 1: i = j + 1
    <3>1. i - 1 \in st .. e - 1 /\ i = (i - 1) + 1
      BY <1>1, <2>3, <2>4
    <3> QED
      BY <3>1
  <2>6. j \in st .. e /\ ~(i <= j) /\ j \in p .. n - 1 /\ j \in Int
    BY <1>1, <1>2, <2>5
  <2>7. f[j - p] = At(j)
    BY <2>2, <2>6 DEF T
  <2>8. PICK r \in Reader: r = At(j)
    BY <1>6, <2>6, <2>7
  <2>9. r.src = CmdSource /\ r.quoted = Quoted(j - 1) /\ r.text = CommandText(j) /\ r.said = <<>>
    BY <2>8 DEF At
  <2>10. f[i - p] = ReadCell(buf[j])[r] /\ buf[j] \in Cell
    <3>1. f[j + 1 - p] = ReadCell(buf[j])[f[j - p]]
      BY <1>6, <2>6
    <3>2. buf[j] \in Cell
      BY <1>3, <2>6
    <3>3. i - p = j + 1 - p
      BY <1>2, <2>5, <2>6
    <3>4. f[i - p] = f[j + 1 - p]
      BY <3>3, Zenon
    <3>5. f[j - p] = r
      BY <2>7, <2>8
    <3> QED
      BY <3>1, <3>2, <3>4, <3>5, Zenon
  <2>11. /\ Quoted(j) \in BOOLEAN /\ Quoted(j - 1) \in BOOLEAN
         /\ Quoted(j) = (Quoted(j - 1) # (buf[j] = "quote"))
    BY <1>1, <2>5, <2>6, QuotedStep DEF st
  <2>12. ~Stops(j)
    BY <2>5 DEF FirstStop, st
  <2>13. buf[j] # "nl" /\ ~(buf[j] = "semi" /\ ~r.quoted)
    BY <2>9, <2>11, <2>12 DEF Stops
  <2>14. ~(buf[j] \in Source /\ r.text = <<>>)
    <3>1. CASE j = st
      BY <1>1, <3>1
    <3>2. CASE j # st
      <4>1. 1 \in 1 .. j - st
        BY <1>1, <2>5, <3>2
      <4>2. DOMAIN CommandText(j) = 1 .. j - st
        BY DEF CommandText, st
      <4>3. CommandText(j) # <<>>
        <5>1. 1 \notin DOMAIN <<>>
          OBVIOUS
        <5> QED
          BY <4>1, <4>2, <5>1, Zenon
      <4> QED
        BY <2>9, <4>3
    <3> QED
      BY <3>1, <3>2
  <2>15. f[i - p] = [r EXCEPT !.text = Append(r.text, buf[j]), !.quoted = (r.quoted # (buf[j] = "quote"))]
    BY <2>10, <2>13, <2>14, ReadCellIs
  <2>16. Append(CommandText(j), buf[j]) = CommandText(j + 1)
    <3>1. CommandText(j) \in Seq(Cell) /\ Len(CommandText(j)) = j - st
      <4>1. r.text \in Seq(Cell)
        BY DEF Reader
      <4>2. DOMAIN CommandText(j) = 1 .. j - st /\ j - st \in Nat
        BY <1>1, <2>5 DEF CommandText, st
      <4> QED
        BY <2>9, <4>1, <4>2, LenProperties
    <3> DEFINE x == Append(CommandText(j), buf[j])
               y == CommandText(j + 1)
    <3>2. /\ x \in Seq(Cell) /\ Len(x) = j - st + 1
          /\ \A m \in 1 .. j - st: x[m] = CommandText(j)[m]
          /\ x[j - st + 1] = buf[j]
      BY <2>10, <3>1, AppendProperties
    <3>3. x = [m \in 1 .. j - st + 1 |-> x[m]]
      BY <3>2, LenProperties
    <3>4. y = [m \in 1 .. (j + 1) - st |-> buf[st + m - 1]]
      <4>1. \A a: CommandText(a) = [m \in 1 .. a - st |-> buf[st + m - 1]]
        BY Zenon DEF CommandText, st
      <4> QED
        BY <4>1, Zenon
    <3>5. \A m \in 1 .. j - st: CommandText(j)[m] = buf[st + m - 1]
      BY DEF CommandText, st
    <3> HIDE DEF x, y
    <3>6. (j + 1) - st = j - st + 1 /\ st + (j - st + 1) - 1 = j
      BY <1>1, <2>6
    <3>7. ASSUME NEW m \in 1 .. j - st + 1 PROVE x[m] = buf[st + m - 1]
      <4>1. CASE m = j - st + 1
        BY <3>2, <3>6, <4>1
      <4>2. CASE m # j - st + 1
        <5>1. m \in 1 .. j - st
          BY <1>1, <2>6, <4>2
        <5> QED
          BY <3>2, <3>5, <5>1
      <4> QED
        BY <4>1, <4>2
    <3>8. x = y
      BY <3>3, <3>4, <3>6, <3>7
    <3> QED
      BY <3>8 DEF x, y
  <2>17. r = [src |-> r.src, quoted |-> r.quoted, text |-> r.text, said |-> r.said]
    BY DEF Reader
  <2>18. f[i - p] = [src |-> CmdSource, quoted |-> Quoted(j), text |-> CommandText(j + 1), said |-> <<>>]
    BY <2>9, <2>11, <2>15, <2>16, <2>17
  <2>19. i - 1 = j
    BY <2>5, <2>6
  <2> QED
    BY <2>3, <2>5, <2>18, <2>19 DEF At
<1>9. k - p \in 0 .. Len(Rest)
  BY <1>1, <1>2, <1>3 DEF st
<1>10. f[k - p] = At(k)
  BY <1>8 DEF st
<1> QED
  BY <1>9, <1>10 DEF f, p

LEMMA TextIs ==
  ASSUME NEW e \in Int, Start \in Int, Start <= e
  PROVE  /\ e = Start => CommandText(e) = <<>>
         /\ e # Start => CommandText(e) # <<>> /\ CommandText(e)[1] = buf[Start]
<1> DEFINE st == Start
<1>1. CommandText(e) = [i \in 1 .. e - st |-> buf[st + i - 1]]
  BY Zenon DEF CommandText
<1>2. st \in Int /\ st <= e
  OBVIOUS
<1> HIDE DEF st
<1>3. CASE e = st
  <2>1. 1 .. e - st = {}
    BY <1>2, <1>3
  <2>2. CommandText(e) = [i \in {} |-> buf[st + i - 1]]
    BY <1>1, <2>1
  <2> QED
    BY <1>3, <2>2 DEF st
<1>4. CASE e # st
  <2>1. 1 \in 1 .. e - st /\ st + 1 - 1 = st
    BY <1>2, <1>4
  <2>2. 1 \in DOMAIN CommandText(e) /\ CommandText(e)[1] = buf[st]
    BY <1>1, <2>1
  <2>3. 1 \notin DOMAIN <<>>
    OBVIOUS
  <2>4. CommandText(e) # <<>>
    BY <2>2, <2>3, Zenon
  <2> QED
    BY <1>4, <2>2, <2>4 DEF st
<1> QED
  BY <1>3, <1>4

(* The command that a scan has read at e, if there is one.                 *)
Ran(e) == IF e = Start THEN <<>> ELSE <<[src |-> CmdSource, text |-> CommandText(e)]>>

LEMMA CloseAt ==
  ASSUME QueueInv, Scanning, NEW e \in Index, e >= Start, FirstStop(e)
  PROVE  /\ At(e) \in Reader /\ Close[At(e)] \in Reader
         /\ Close[At(e)].src = CmdSource /\ Close[At(e)].quoted = Quoted(e - 1)
         /\ Close[At(e)].text = <<>> /\ Close[At(e)].said = Ran(e)
         /\ At(e).text = CommandText(e) /\ At(e).quoted = Quoted(e - 1)
         /\ (e = Start <=> CommandText(e) = <<>>)
         /\ e # Start => CommandText(e)[1] = buf[Start]
<1>1. /\ Top \in FrameType /\ Start \in Nat /\ e \in Nat /\ Start <= e
      /\ CmdSource \in Source
  BY ScanPlaces
<1>2. e \in Start .. e
  BY <1>1
<1>3. Read(Rest, Reads, InQuotes)[e - Place] = At(e) /\ e - Place \in 0 .. Len(Rest)
  BY <1>2, ReadCommand
<1>4. At(e) \in Reader
  <2>1. Rest \in Seq(Cell) /\ Reads \in Source /\ InQuotes \in BOOLEAN
    <3>1. IInv /\ Place <= EndOf(len)
      BY ScanPlaces DEF QueueInv, Body
    <3> QED
      BY <3>1, RestType, PlaceIs
  <2>2. Read(Rest, Reads, InQuotes) \in [0 .. Len(Rest) -> Reader]
    BY <2>1, ReadIs
  <2> QED
    BY <1>3, <2>2
<1>5. /\ At(e).src = CmdSource /\ At(e).quoted = Quoted(e - 1)
      /\ At(e).text = CommandText(e) /\ At(e).said = <<>>
  BY DEF At
<1>6. /\ e = Start => CommandText(e) = <<>>
      /\ e # Start => CommandText(e) # <<>> /\ CommandText(e)[1] = buf[Start]
  BY <1>1, TextIs
<1>7. PICK r \in Reader: r = At(e)
  BY <1>4
<1>8. /\ Close[r] \in Reader /\ Close[r].text = <<>>
      /\ Close[r].src = r.src /\ Close[r].quoted = r.quoted
      /\ r.text = <<>> => Close[r] = r
      /\ r.text # <<>> => Close[r].said = Append(r.said, [src |-> r.src, text |-> r.text])
  BY CloseIs
<1>9. Close[r].said = Ran(e)
  <2>1. CASE e = Start
    BY <1>5, <1>6, <1>7, <1>8, <2>1 DEF Ran
  <2>2. CASE e # Start
    <3>1. Close[r].said = Append(<<>>, [src |-> CmdSource, text |-> CommandText(e)])
      BY <1>5, <1>6, <1>7, <1>8, <2>2
    <3>2. \A x: Append(<<>>, x) = <<x>>
      OBVIOUS
    <3> QED
      BY <2>2, <3>1, <3>2 DEF Ran
  <2> QED
    BY <2>1, <2>2
<1> QED
  BY <1>4, <1>5, <1>6, <1>7, <1>8, <1>9

(* A command that ends before the text does: what is left of the text.     *)
LEMMA ScanSays ==
  ASSUME QueueInv, Scanning, NEW e \in Index, e >= Start, FirstStop(e), buf[e] # "nul"
  PROVE  /\ e + 1 <= EndOf(len)
         /\ Commands(Rest, Reads, InQuotes) =
              Then(Ran(e), Commands(Cut(buf, e + 1, EndOf(len)), CmdSource, Quoted(e)))
         /\ Settled(Rest, Reads, InQuotes) = Settled(Cut(buf, e + 1, EndOf(len)), CmdSource, Quoted(e))
<1> PICK n \in Nat: n = EndOf(len)
  BY EndIs DEF QueueInv
<1> PICK p \in Nat: p = Place
  BY PlaceIs DEF QueueInv
<1> PICK m \in Nat: m = e + 1
  BY ScanPlaces
<1>1. /\ Top \in FrameType /\ Start \in Nat /\ e \in Nat /\ Start <= e /\ p <= Start
      /\ CmdSource \in Source /\ Quoted(e) \in BOOLEAN /\ e <= n /\ e # n
  BY ScanPlaces
<1>2. p <= m /\ m <= n /\ m - p = (e - p) + 1 /\ m - 1 = e
  BY <1>1
<1>3. /\ Reads \in Source /\ InQuotes \in BOOLEAN /\ Rest \in Seq(Cell) /\ Len(Rest) = n - p
      /\ \A i \in p .. n - 1: buf[i] \in Cell
  <2>1. IInv /\ Place <= EndOf(len)
    BY ScanPlaces DEF QueueInv, Body
  <2> QED
    BY <2>1, RestType, PlaceIs
<1>4. Read(Rest, Reads, InQuotes)[e - p] = At(e)
  <2>1. e \in Start .. e
    BY <1>1
  <2> QED
    BY <2>1, ReadCommand
<1>5. Rest[m - p] = buf[e] /\ m - p \in 1 .. Len(Rest)
  <2>1. m - p \in 1 .. n - p /\ p + (m - p) - 1 = e
    BY <1>1, <1>2
  <2>2. \A i \in 1 .. n - p: Rest[i] = buf[p + i - 1]
    BY DEF Rest, Cut
  <2> QED
    BY <1>3, <2>1, <2>2
<1>6. Read(Rest, Reads, InQuotes)[m - p] = ReadCell(buf[e])[At(e)]
  <2>1. (m - p) - 1 = e - p
    BY <1>2
  <2>2. \A i \in 1 .. Len(Rest): Read(Rest, Reads, InQuotes)[i] = ReadCell(Rest[i])[Read(Rest, Reads, InQuotes)[i - 1]]
    BY <1>3, ReadIs
  <2>3. Read(Rest, Reads, InQuotes)[m - p] = ReadCell(Rest[m - p])[Read(Rest, Reads, InQuotes)[(m - p) - 1]]
    BY <1>5, <2>2
  <2> QED
    BY <1>4, <1>5, <2>1, <2>3
<1>7. /\ At(e) \in Reader /\ Close[At(e)] \in Reader
      /\ Close[At(e)].src = CmdSource /\ Close[At(e)].quoted = Quoted(e - 1)
      /\ Close[At(e)].text = <<>> /\ Close[At(e)].said = Ran(e)
      /\ At(e).quoted = Quoted(e - 1)
  BY CloseAt
<1>8. buf[e] # "quote" /\ Quoted(e) = Quoted(e - 1) /\ (buf[e] = "nl" \/ (buf[e] = "semi" /\ ~Quoted(e)))
  <2>1. buf[e] = "nl" \/ (buf[e] = "semi" /\ ~Quoted(e))
    BY DEF FirstStop, Stops
  <2>2. buf[e] # "quote"
    BY <2>1
  <2>3. /\ Quoted(e) \in BOOLEAN /\ Quoted(e - 1) \in BOOLEAN
        /\ Quoted(e) = (Quoted(e - 1) # (buf[e] = "quote"))
    BY <1>1, QuotedStep
  <2> QED
    BY <2>1, <2>2, <2>3
<1>9. ReadCell(buf[e])[At(e)] = Close[At(e)]
  <2>1. PICK r \in Reader, x \in Cell: r = At(e) /\ x = buf[e]
    BY <1>7, <1>8, CellsApart
  <2>2. x = "nl" \/ (x = "semi" /\ ~r.quoted)
    BY <1>7, <1>8, <2>1
  <2>3. ReadCell(x)[r] = Close[r]
    BY <2>2, ReadCellIs
  <2> QED
    BY <2>1, <2>3
<1>10. PICK c \in Seq(Cell), d \in Seq(Cell):
          c = Cut(buf, p, m) /\ d = Cut(buf, m, n) /\ Len(c) = m - p /\ Rest = Then(c, d)
  <2>1. (\A i \in p .. m - 1: buf[i] \in Cell) /\ (\A i \in m .. n - 1: buf[i] \in Cell)
    BY <1>2, <1>3, SMTT(30)
  <2>2. Cut(buf, p, m) \in Seq(Cell) /\ Len(Cut(buf, p, m)) = m - p
    <3>1. \A k \in Nat: p <= k /\ (\A i \in p .. k - 1: buf[i] \in Cell) =>
            Cut(buf, p, k) \in Seq(Cell) /\ Len(Cut(buf, p, k)) = k - p
      BY CutIs
    <3> QED
      BY <1>2, <2>1, <3>1
  <2>3. Cut(buf, m, n) \in Seq(Cell)
    BY <1>2, <2>1, CutIs
  <2>4. Rest = Then(Cut(buf, p, m), Cut(buf, m, n))
    <3>1. Joins(buf, p, m, n)
      BY <1>2, <1>3, CutJoins
    <3> QED
      BY <3>1 DEF Joins, Rest
  <2> QED
    BY <2>2, <2>3, <2>4
<1>11. PICK r \in Reader: r = Close[At(e)]
  BY <1>7
<1>12. r.text = <<>> /\ r.src = CmdSource /\ r.quoted = Quoted(e) /\ r.said = Ran(e)
  BY <1>7, <1>8, <1>11
<1>13. r = Read(c, Reads, InQuotes)[Len(c)]
  <2>1. Len(c) \in 0 .. Len(c)
    BY LenProperties
  <2>2. Read(Then(c, d), Reads, InQuotes)[Len(c)] = Read(c, Reads, InQuotes)[Len(c)]
    BY <1>3, <2>1, ReadFirst DEF Then
  <2> QED
    BY <1>6, <1>9, <1>10, <1>11, <2>2
<1>14. Follows(c, d, Reads, InQuotes, r)
  <2>1. Ends(c, Reads, InQuotes, r)
    BY <1>12, <1>13 DEF Ends
  <2> QED
    BY <1>3, <2>1, ReadsOn
<1> QED
  BY <1>2, <1>10, <1>12, <1>14 DEF Follows

(* A command that ends with the text: the buffer is full.                  *)
LEMMA LastSays ==
  ASSUME QueueInv, Scanning, NEW e \in Index, e >= Start, FirstStop(e), buf[e] = "nul"
  PROVE  /\ len = Size /\ e # Start
         /\ Commands(Rest, Reads, InQuotes) = Ran(e)
<1>1. /\ e = EndOf(len) /\ Start < EndOf(len) /\ Place <= EndOf(len) /\ Live /\ Start \in Nat
      /\ Start <= e /\ e \in Nat
  BY ScanPlaces DEF QueueInv, Body
<1>2. e # Start
  BY <1>1
<1>3. IInv /\ Body
  BY <1>1 DEF QueueInv
<1>4. Rest \in Seq(Cell) /\ Len(Rest) = e - Place
  BY <1>1, <1>3, RestType
<1>5. Read(Rest, Reads, InQuotes)[Len(Rest)] = At(e)
  <2>1. e \in Start .. e
    BY <1>1
  <2> QED
    BY <1>4, <2>1, ReadCommand
<1>6. At(e).text # <<>> /\ Close[At(e)].said = Ran(e)
  BY <1>2, CloseAt
<1>7. ~Settled(Rest, Reads, InQuotes)
  BY <1>5, <1>6 DEF Settled
<1>8. len = Size
  BY <1>3, <1>7, SizeAssumption DEF Body, IInv, TypeOK
<1>9. Commands(Rest, Reads, InQuotes) = Ran(e)
  BY <1>5, <1>6, CommandsRead
<1> QED
  BY <1>2, <1>8, <1>9

(* What the buffer still has to run.                                       *)
Says == IF Live THEN Commands(Rest, Reads, InQuotes) ELSE <<>>

LEMMA PendingSays == QueueInv => Pending = Says
  BY PendingIs DEF Says

LEMMA CommandsType ==
  ASSUME NEW c \in Seq(Cell), NEW s \in Source, NEW q \in BOOLEAN
  PROVE  Commands(c, s, q) \in Seq(Command)
<1>1. Len(c) \in 0 .. Len(c)
  BY LenProperties
<1>2. Read(c, s, q)[Len(c)] \in Reader
  BY <1>1, ReadIs
<1>3. Close[Read(c, s, q)[Len(c)]] \in Reader
  BY <1>2, CloseIs
<1> QED
  BY <1>3, CommandsRead DEF Reader

LEMMA NothingSaid ==
  ASSUME NEW c \in Seq(Cell), Len(c) = 0, NEW s \in Source, NEW q \in BOOLEAN
  PROVE  Commands(c, s, q) = <<>> /\ (~q => Settled(c, s, q))
<1>1. Read(c, s, q)[Len(c)] = Begin(s, q)
  BY ReadIs
<1>2. PICK r \in Reader: r = Begin(s, q)
  BY BeginType
<1>3. r.text = <<>> /\ r.quoted = q /\ r.said = <<>>
  BY <1>2 DEF Begin
<1>4. Commands(c, s, q) = r.said
  BY <1>1, <1>2, <1>3, CommandsWhole
<1> QED
  BY <1>1, <1>2, <1>3, <1>4 DEF Settled

LEMMA ThenNothing ==
  ASSUME NEW s \in Seq(Command)
  PROVE  Then(s, <<>>) = s /\ Then(<<>>, s) = s
  BY ConcatEmptySeq DEF Then

LEMMA LastReplaced ==
  ASSUME NEW s \in Seq(FrameType), s # <<>>, NEW x \in FrameType
  PROVE  LET t == [s EXCEPT ![Len(s)] = x]
         IN  t \in Seq(FrameType) /\ t # <<>> /\ Len(t) = Len(s) /\ t[Len(t)] = x
<1> DEFINE t == [s EXCEPT ![Len(s)] = x]
<1>1. Len(s) \in 1 .. Len(s)
  BY LenProperties, EmptySeq
<1>2. t \in Seq(FrameType) /\ Len(t) = Len(s)
  BY <1>1, ExceptSeq
<1>3. t[Len(s)] = x
  BY <1>1, LenProperties
<1>4. t # <<>>
  BY <1>1, <1>2, EmptySeq
<1> QED
  BY <1>2, <1>3, <1>4

(* No handler calls execute, and texts close their quotes: cmdbuf_frame    *)
(* keeps in_quotes from one command to the next, also over a text's end.   *)
QueueAssumption ==
  /\ Lua = {}
  /\ \A c \in Text: Balanced(c)
  /\ \A l \in 0 .. Size: Balanced(FileText(l))

LEMMA InitQueueInv == Init => QueueInv
<1> SUFFICES ASSUME Init PROVE QueueInv
  OBVIOUS
<1>1. IInv
  BY InitIInv
<1>2. frames = <<>> /\ ~Live
  BY DEF Init, Live
<1>3. Len(frames) <= 1
  BY <1>2
<1> QED
  BY <1>1, <1>2, <1>3 DEF QueueInv

(* A scan that goes on behind e.                                           *)
LEMMA ScanGoesOn ==
  ASSUME QueueInv, Scanning, NEW e \in Index, e >= Start, FirstStop(e),
         frames' = [frames EXCEPT ![Len(frames)] = FrameAfter(e)], IInv'
  PROVE  /\ frames' # <<>> /\ Len(frames') <= 1
         /\ (Top.end)' => (Top.leave)'
         /\ (buf[e] = "nul" => ~Live')
         /\ (buf[e] # "nul" => /\ Live' /\ Place' = e + 1 /\ Reads' = CmdSource
                               /\ InQuotes' = Quoted(e))
<1>1. frames # <<>> /\ frames \in Seq(FrameType) /\ Len(frames) <= 1 /\ IInv
  BY DEF Scanning, QueueInv, IInv, TypeOK
<1>2. FrameAfter(e) \in FrameType
  BY <1>1, FrameAfterType
<1>3. frames' # <<>> /\ Len(frames') = Len(frames) /\ frames'[Len(frames')] = FrameAfter(e)
  BY <1>1, <1>2, LastReplaced
<1>4. Top' = FrameAfter(e)
  BY <1>3 DEF Top
<1>5. ~Top.end /\ Start < EndOf(len) /\ (buf[e] = "nul" <=> e = EndOf(len))
  BY ScanPlaces
<1>6. CASE buf[e] = "nul"
  <2>1. e # Start
    BY <1>6, LastSays
  <2>2. FrameAfter(e).leave = TRUE
    BY <1>6, <2>1 DEF FrameAfter
  <2> QED
    BY <1>1, <1>3, <1>4, <1>6, <2>2 DEF Live
<1>7. CASE buf[e] # "nul"
  <2>1. FrameAfter(e) = [pos |-> e + 1, src |-> CmdSource, quoted |-> Quoted(e), end |-> FALSE, leave |-> FALSE]
    BY <1>5, <1>7 DEF FrameAfter
  <2> QED
    BY <1>1, <1>3, <1>4, <1>7, <2>1 DEF Live, Place, Reads, InQuotes
<1> QED
  BY <1>6, <1>7

LEMMA AddStep ==
  ASSUME QueueInv, IInv', NEW c \in Text, Balanced(c), NEW s \in Source, Add(c, s)
  PROVE  /\ QueueInv'
         /\ Takes(c, len) => Says' = Then(Says, Commands(c, s, FALSE))
         /\ ~Takes(c, len) => Says' = Says
<1>1. frames = <<>> /\ frames' = <<>> /\ Len(frames') <= 1
  BY DEF Add
<1>2. len \in Nat /\ len \in 0 .. Size /\ buf \in [Index -> Cell] /\ Size \in Nat /\ IInv
  BY SizeAssumption DEF QueueInv, IInv, TypeOK
<1>3. /\ Place = 0 /\ Reads = Engine /\ InQuotes = FALSE
      /\ Place' = 0 /\ Reads' = Engine /\ InQuotes' = FALSE
      /\ (Live <=> len >= 1) /\ (Live' <=> len' >= 1)
  BY <1>1 DEF Place, Reads, InQuotes, Live
<1>4. CASE ~Takes(c, len)
  <2>1. buf' = buf /\ len' = len
    BY <1>4 DEF Add, BufAfter, LenAfter
  <2>2. Live' = Live /\ Rest' = Rest /\ (Live => Body')
    <3>1. Rest' = Rest
      BY <1>3, <2>1 DEF Rest
    <3>2. Live' = Live
      BY <1>1, <2>1 DEF Live
    <3>3. Body => Body'
      BY <1>3, <2>1, <3>1 DEF Body
    <3> QED
      BY <3>1, <3>2, <3>3 DEF QueueInv
  <2> QED
    BY <1>1, <1>3, <1>4, <2>2 DEF QueueInv, Says
<1>5. CASE Takes(c, len)
  <2>1. buf' = Written(buf, len, c, s) /\ len' = LengthAfter(len, c)
    BY <1>5 DEF Add, BufAfter, LenAfter
  <2>2. c \in Seq(TextCell)
    BY TextAssumption DEF TextCell
  <2>3. len < Size /\ EndOf(len) = len
    <3>1. Len(c) \in Nat /\ len + Len(c) < Size - 1
      BY <1>5, <2>2, LenProperties DEF Takes, Fits
    <3> QED
      BY <1>2, <3>1 DEF EndOf
  <2>4. /\ \A i \in 0 .. len - 1: buf[i] # "nul" /\ (buf[i] \in Source => i + 1 < len /\ buf[i + 1] \notin Source)
        /\ Settled(Cut(buf, 0, len), Engine, FALSE)
        /\ Says = Commands(Cut(buf, 0, len), Engine, FALSE)
    <3>1. CASE len >= 1
      BY <1>3, <2>3, <3>1 DEF QueueInv, Body, Sound, Rest, Says
    <3>2. CASE len = 0
      <4>1. Cut(buf, 0, len) = <<>>
        <5>1. 1 .. len - 0 = {}
          BY <3>2
        <5>2. Cut(buf, 0, len) = [i \in {} |-> buf[0 + i - 1]]
          BY <5>1 DEF Cut
        <5> QED
          BY <5>2
      <4>2. ~Live /\ 0 .. len - 1 = {}
        BY <1>3, <3>2
      <4>3. PICK x \in Seq(Cell): x = <<>> /\ Len(x) = 0
        <5>1. <<>> \in Seq(Cell) /\ Len(<<>>) = 0
          OBVIOUS
        <5> QED
          BY <5>1, Zenon
      <4>4. Commands(x, Engine, FALSE) = <<>> /\ Settled(x, Engine, FALSE)
        BY <4>3, NothingSaid, SourceAssumption
      <4> QED
        BY <4>1, <4>2, <4>3, <4>4 DEF Says
    <3>3. len >= 1 \/ len = 0
      BY <1>2
    <3> QED
      BY <3>1, <3>2, <3>3, Zenon
  <2>5. 0 \in 0 .. len
    BY <1>2
  <2>6. /\ Commands(Cut(buf', 0, EndOf(len')), Engine, FALSE) =
             Then(Commands(Cut(buf, 0, len), Engine, FALSE), Commands(c, s, FALSE))
        /\ len' < Size => Settled(Cut(buf', 0, EndOf(len')), Engine, FALSE)
    <3>1. AppendedSays(buf, len, 0, c, s, Engine, FALSE)
      BY <1>2, <1>5, <2>2, <2>4, <2>5, AddSays, SourceAssumption
    <3> QED
      BY <2>1, <3>1 DEF AppendedSays
  <2>7. Sound(buf', 0, EndOf(len')) /\ 0 <= EndOf(len') /\ len' >= 1
    <3>1. LET n == len + Len(c)
              f == EndOf(LengthAfter(len, c))
          IN  len < n /\ n < f /\ n \in Nat /\ f \in Nat /\ Sound(Written(buf, len, c, s), 0, f)
      BY <1>2, <1>5, <2>2, <2>4, <2>5, AddPlaces
    <3>2. LengthAfter(len, c) >= 1
      BY <1>2, <3>1 DEF LengthAfter
    <3> QED
      BY <2>1, <3>1, <3>2
  <2>8. Live' /\ Rest' = Cut(buf', 0, EndOf(len'))
    BY <1>3, <2>7 DEF Rest
  <2>9. Body'
    BY <1>3, <2>6, <2>7, <2>8 DEF Body
  <2>10. Says' = Then(Says, Commands(c, s, FALSE))
    BY <1>3, <2>4, <2>6, <2>8 DEF Says
  <2> QED
    BY <1>1, <1>5, <2>8, <2>9, <2>10 DEF QueueInv
<1> QED
  BY <1>4, <1>5

LEMMA CallStep ==
  ASSUME QueueInv, IInv', FrameCall
  PROVE  QueueInv' /\ Says' = Says
<1>1. frames = <<>> /\ len >= 1 /\ frames' = <<NewFrame>> /\ buf' = buf /\ len' = len
  BY DEF FrameCall
<1>2. frames' # <<>> /\ Len(frames') = 1 /\ Top' = NewFrame
  BY <1>1 DEF Top
<1>3. Place' = Place /\ Reads' = Reads /\ InQuotes' = InQuotes /\ Live /\ Live' /\ (Top.end)' = FALSE
  BY <1>1, <1>2 DEF Place, Reads, InQuotes, Live, NewFrame
<1>4. Rest' = Rest
  BY <1>1, <1>3 DEF Rest
<1>5. Body'
  BY <1>1, <1>3, <1>4 DEF QueueInv, Body
<1> QED
  BY <1>2, <1>3, <1>4, <1>5 DEF QueueInv, Says

(* What is left of the text stays as it was, and is read on.               *)
LEMMA RestStays ==
  ASSUME QueueInv, Scanning, NEW e \in Index, e >= Start, FirstStop(e), buf[e] # "nul",
         NEW b \in [Index -> Cell], \A i \in e + 1 .. Size - 1: b[i] = buf[i]
  PROVE  /\ e + 1 <= EndOf(len) /\ e + 1 \in Nat /\ Sound(b, e + 1, EndOf(len))
         /\ len < Size => Settled(Cut(b, e + 1, EndOf(len)), CmdSource, Quoted(e))
         /\ Says = Then(Ran(e), Commands(Cut(b, e + 1, EndOf(len)), CmdSource, Quoted(e)))
         /\ Commands(Cut(b, e + 1, EndOf(len)), CmdSource, Quoted(e)) \in Seq(Command)
<1> PICK n \in Nat: n = EndOf(len) /\ n <= Size - 1
  BY EndIs DEF QueueInv
<1> PICK m \in Nat: m = e + 1
  BY ScanPlaces
<1>1. Live /\ Place \in Nat /\ Place <= e /\ CmdSource \in Source /\ Quoted(e) \in BOOLEAN /\ Size \in Nat /\ e \in Nat
  <2>1. /\ Live /\ Place <= Start /\ Start <= e /\ CmdSource \in Source /\ Quoted(e) \in BOOLEAN
        /\ Start \in Nat /\ e \in Nat
    BY ScanPlaces
  <2>2. Place \in Nat
    BY PlaceIs DEF QueueInv
  <2> QED
    BY <2>1, <2>2, SizeAssumption
<1>2. /\ m <= n
      /\ Commands(Rest, Reads, InQuotes) = Then(Ran(e), Commands(Cut(buf, m, n), CmdSource, Quoted(e)))
      /\ Settled(Rest, Reads, InQuotes) = Settled(Cut(buf, m, n), CmdSource, Quoted(e))
  BY ScanSays
<1>3. /\ buf[n] = "nul"
      /\ \A i \in Place .. n - 1: buf[i] # "nul" /\ (buf[i] \in Source => i + 1 < n /\ buf[i + 1] \notin Source)
      /\ len < Size => Settled(Rest, Reads, InQuotes)
  BY <1>1 DEF QueueInv, Body, Sound
<1>4. \A i \in m .. n: b[i] = buf[i]
  BY <1>1
<1>5. Cut(b, m, n) = Cut(buf, m, n)
  <2>1. \A i \in m .. n - 1: b[i] = buf[i]
    BY <1>4
  <2> QED
    BY <2>1, CutSame
<1>6. Sound(b, m, n)
  <2>1. b[n] = "nul"
    BY <1>2, <1>3, <1>4
  <2>2. ASSUME NEW i \in m .. n - 1
        PROVE  b[i] # "nul" /\ (b[i] \in Source => i + 1 < n /\ b[i + 1] \notin Source)
    <3>1. i \in m .. n /\ i \in Place .. n - 1 /\ (i + 1 < n => i + 1 \in m .. n)
      BY <1>1
    <3> QED
      BY <1>3, <1>4, <3>1
  <2> QED
    BY <2>1, <2>2 DEF Sound
<1>7. Cut(b, m, n) \in Seq(Cell)
  <2>1. \A i \in m .. n - 1: b[i] \in Cell
    BY <1>1 DEF Index
  <2>2. \A k \in Nat: k <= n /\ (\A i \in k .. n - 1: b[i] \in Cell) => Cut(b, k, n) \in Seq(Cell)
    BY CutIs
  <2> QED
    BY <1>2, <2>1, <2>2
<1>8. Commands(Cut(b, m, n), CmdSource, Quoted(e)) \in Seq(Command)
  BY <1>1, <1>7, CommandsType
<1>9. Says = Commands(Rest, Reads, InQuotes)
  BY <1>1 DEF Says
<1> QED
  BY <1>2, <1>3, <1>5, <1>6, <1>8, <1>9

LEMMA SkipStep ==
  ASSUME QueueInv, IInv', Scanning, NEW e \in Index, e >= Start, FirstStop(e), SkipEmpty(e)
  PROVE  QueueInv' /\ Says' = Says
<1>1. /\ e = Start /\ frames' = [frames EXCEPT ![Len(frames)] = FrameAfter(e)]
      /\ buf' = buf /\ len' = len
  BY DEF SkipEmpty
<1>2. buf[e] # "nul"
  BY <1>1, LastSays
<1>3. /\ frames' # <<>> /\ Len(frames') <= 1 /\ ((Top.end)' => (Top.leave)')
      /\ Live' /\ Place' = e + 1 /\ Reads' = CmdSource /\ InQuotes' = Quoted(e)
  BY <1>1, <1>2, ScanGoesOn
<1>4. buf \in [Index -> Cell]
  BY DEF QueueInv, IInv, TypeOK
<1>5. /\ e + 1 <= EndOf(len) /\ e + 1 \in Nat /\ Sound(buf, e + 1, EndOf(len))
      /\ len < Size => Settled(Cut(buf, e + 1, EndOf(len)), CmdSource, Quoted(e))
      /\ Says = Then(Ran(e), Commands(Cut(buf, e + 1, EndOf(len)), CmdSource, Quoted(e)))
      /\ Commands(Cut(buf, e + 1, EndOf(len)), CmdSource, Quoted(e)) \in Seq(Command)
  BY <1>2, <1>4, RestStays
<1>6. Rest' = Cut(buf, e + 1, EndOf(len))
  BY <1>1, <1>3 DEF Rest
<1>7. Body'
  BY <1>1, <1>3, <1>5, <1>6 DEF Body
<1>8. Says' = Commands(Cut(buf, e + 1, EndOf(len)), CmdSource, Quoted(e))
  BY <1>3, <1>6 DEF Says
<1>9. Ran(e) = <<>>
  BY <1>1 DEF Ran
<1>10. Says = Commands(Cut(buf, e + 1, EndOf(len)), CmdSource, Quoted(e))
  BY <1>5, <1>9, ThenNothing
<1> QED
  BY <1>3, <1>7, <1>8, <1>10 DEF QueueInv

(* A command runs; exec may append the file's text.                        *)
LEMMA ExecuteStep ==
  ASSUME QueueInv, IInv', \A l \in 0 .. Size: Balanced(FileText(l)),
         Scanning, NEW e \in Index, e >= Start, FirstStop(e), Execute(e)
  PROVE  /\ QueueInv'
         /\ \E R \in Seq(Command):
              /\ Says = Then(Ran(e), R)
              /\ \/ Says' = R
                 \/ buf[Start] = Exec /\ Says' = Then(R, Commands(FileText(len), Engine, FALSE))
                    /\ FileText(len) # <<>>
<1>1. e # Start /\ frames' = [frames EXCEPT ![Len(frames)] = FrameAfter(e)]
  BY DEF Execute
<1>2. /\ frames' # <<>> /\ Len(frames') <= 1 /\ ((Top.end)' => (Top.leave)')
      /\ (buf[e] = "nul" => ~Live')
      /\ (buf[e] # "nul" => /\ Live' /\ Place' = e + 1 /\ Reads' = CmdSource
                            /\ InQuotes' = Quoted(e))
  BY <1>1, ScanGoesOn
<1>3. CASE buf[e] = "nul"
  <2>1. Says = Ran(e)
    <3>1. Commands(Rest, Reads, InQuotes) = Ran(e)
      BY <1>3, LastSays
    <3>2. Live
      BY ScanPlaces
    <3> QED
      BY <3>1, <3>2 DEF Says
  <2>2. Ran(e) \in Seq(Command)
    <3>1. CmdSource \in Source /\ CommandText(e) \in Seq(Cell)
      BY CommandTextType DEF QueueInv, Scanning
    <3>2. [src |-> CmdSource, text |-> CommandText(e)] \in Command
      BY <3>1 DEF Command
    <3> QED
      BY <1>1, <3>2 DEF Ran
  <2>3. Says = Then(Ran(e), <<>>)
    BY <2>1, <2>2, ThenNothing
  <2>4. Says' = <<>>
    BY <1>2, <1>3 DEF Says
  <2>5. <<>> \in Seq(Command)
    OBVIOUS
  <2>6. QueueInv'
    BY <1>2, <1>3 DEF QueueInv
  <2> QED
    BY <2>3, <2>4, <2>5, <2>6, Zenon
<1>4. CASE buf[e] # "nul"
  <2> DEFINE b == Terminated(e)
             R == Commands(Cut(b, e + 1, EndOf(len)), CmdSource, Quoted(e))
  <2>1. b \in [Index -> Cell]
    BY TerminatedKeeps DEF QueueInv
  <2>2. \A i \in e + 1 .. Size - 1: b[i] = buf[i]
    <3>1. Size \in Nat /\ e \in Nat
      BY SizeAssumption, ScanPlaces
    <3>2. buf \in [Index -> Cell]
      BY DEF QueueInv, IInv, TypeOK
    <3> QED
      BY <3>1, <3>2 DEF Terminated, Index
  <2> HIDE DEF b
  <2>3. /\ e + 1 <= EndOf(len) /\ e + 1 \in Nat /\ Sound(b, e + 1, EndOf(len))
        /\ len < Size => Settled(Cut(b, e + 1, EndOf(len)), CmdSource, Quoted(e))
        /\ Says = Then(Ran(e), R) /\ R \in Seq(Command)
    BY <1>4, <2>1, <2>2, RestStays
  <2>4. Live' /\ Place' = e + 1 /\ Reads' = CmdSource /\ InQuotes' = Quoted(e)
    BY <1>2, <1>4
  <2>5. CASE buf' = b /\ len' = len
    <3>1. Rest' = Cut(b, e + 1, EndOf(len))
      BY <2>4, <2>5 DEF Rest
    <3>2. Body'
      BY <2>3, <2>4, <2>5, <3>1 DEF Body
    <3>3. Says' = R
      BY <2>4, <3>1 DEF Says
    <3>4. QueueInv'
      BY <1>2, <2>4, <3>2 DEF QueueInv
    <3> HIDE DEF R
    <3> QED
      BY <2>3, <3>3, <3>4
  <2>6. CASE ~(buf' = b /\ len' = len)
    <3> DEFINE c == FileText(len)
               w == Written(b, len, c, Engine)
    <3>1. buf[Start] = Exec /\ Takes(c, len) /\ buf' = w /\ len' = LengthAfter(len, c)
      BY <2>6 DEF Execute, BufAfter, LenAfter, b
    <3>2. len \in 0 .. Size /\ len \in Nat /\ Size \in Nat
      BY SizeAssumption DEF QueueInv, IInv, TypeOK
    <3>3. c \in Seq(TextCell) /\ c # <<>> /\ Balanced(c)
      BY <3>1, <3>2, FileTextType DEF Takes, ValidText
    <3>4. len < Size /\ EndOf(len) = len
      <4>1. Len(c) \in Nat /\ len + Len(c) < Size - 1
        BY <3>1, <3>3, LenProperties DEF Takes, Fits
      <4> HIDE DEF c
      <4> QED
        BY <3>2, <4>1 DEF EndOf
    <3>5. PICK p \in 0 .. len: p = e + 1
      BY <2>3, <3>2, <3>4
    <3>6. \A i \in p .. len - 1: b[i] # "nul" /\ (b[i] \in Source => i + 1 < len /\ b[i + 1] \notin Source)
      BY <2>3, <3>4, <3>5 DEF Sound
    <3>7. Settled(Cut(b, p, len), CmdSource, Quoted(e)) /\ R = Commands(Cut(b, p, len), CmdSource, Quoted(e))
      BY <2>3, <3>4, <3>5
    <3>8. CmdSource \in Source /\ Quoted(e) \in BOOLEAN /\ Engine \in Source
      BY ScanPlaces, SourceAssumption
    <3> HIDE DEF c, w, R
    <3>9. LET m == LengthAfter(len, c)
          IN  /\ Commands(Cut(w, p, EndOf(m)), CmdSource, Quoted(e)) =
                   Then(Commands(Cut(b, p, len), CmdSource, Quoted(e)), Commands(c, Engine, FALSE))
              /\ m < Size => Settled(Cut(w, p, EndOf(m)), CmdSource, Quoted(e))
      <4>1. AppendedSays(b, len, p, c, Engine, CmdSource, Quoted(e))
        BY <2>1, <3>1, <3>2, <3>3, <3>6, <3>7, <3>8, AddSays
      <4> QED
        BY <4>1 DEF AppendedSays, w
    <3>10. LET f == EndOf(LengthAfter(len, c))
           IN  len < f /\ f \in Nat /\ Sound(w, p, f)
      <4>1. LET n == len + Len(c)
                f == EndOf(LengthAfter(len, c))
            IN  len < n /\ n < f /\ n \in Nat /\ f \in Nat /\ Sound(Written(b, len, c, Engine), p, f)
        BY <2>1, <3>1, <3>2, <3>3, <3>6, <3>8, AddPlaces
      <4> QED
        BY <3>2, <4>1 DEF w
    <3>11. Place' = p /\ p \in Nat /\ p <= len
      BY <2>4, <3>2, <3>5
    <3>12. Rest' = Cut(w, p, EndOf(len'))
      BY <3>1, <3>11 DEF Rest
    <3>13. Body'
      BY <2>4, <3>1, <3>2, <3>9, <3>10, <3>11, <3>12 DEF Body
    <3>14. Says' = Then(R, Commands(c, Engine, FALSE))
      BY <2>4, <3>1, <3>7, <3>9, <3>12 DEF Says
    <3>15. QueueInv'
      BY <1>2, <2>4, <3>13 DEF QueueInv
    <3> QED
      BY <2>3, <3>1, <3>3, <3>14, <3>15 DEF c
  <2> QED
    BY <2>5, <2>6
<1> QED
  BY <1>3, <1>4

LEMMA ReturnStep ==
  ASSUME QueueInv, IInv', FrameReturn
  PROVE  QueueInv' /\ Says' = <<>> /\ Says = <<>>
<1>1. /\ frames # <<>> /\ (Top.leave \/ buf[Top.pos] = "nul")
      /\ frames' = Front(frames) /\ len' = 0
  BY DEF FrameReturn, Release
<1>2. IInv /\ Len(frames) <= 1 /\ (Live => Body) /\ frames \in Seq(FrameType)
  BY DEF QueueInv, IInv, TypeOK
<1>3. frames' = <<>>
  <2>1. Len(frames) = 1
    <3>1. Len(frames) \in Nat
      BY <1>2, LenProperties
    <3>2. Len(frames) # 0
      BY <1>1, <1>2, EmptySeq
    <3>3. Len(frames) <= 1
      BY <1>2
    <3>4. \A n \in Nat: n # 0 /\ n <= 1 => n = 1
      OBVIOUS
    <3> QED
      BY <3>1, <3>2, <3>3, <3>4, Zenon
  <2>2. SubSeq(frames, 1, 0) \in Seq(FrameType) /\ Len(SubSeq(frames, 1, 0)) = 0
    BY <1>2, <2>1, SubSeqProperties
  <2>3. Front(frames) = SubSeq(frames, 1, 0)
    BY <2>1 DEF Front
  <2> QED
    BY <1>1, <2>2, <2>3, EmptySeq
<1>4. ~Live' /\ Len(frames') <= 1
  BY <1>1, <1>3 DEF Live
<1>5. QueueInv' /\ Says' = <<>>
  BY <1>3, <1>4 DEF QueueInv, Says
<1>6. Says = <<>>
  <2>1. CASE ~Live
    BY <2>1 DEF Says
  <2>2. CASE Live
    <3>1. Place = Top.pos /\ buf[Place] = "nul" /\ Place <= EndOf(len) /\ Sound(buf, Place, EndOf(len))
      BY <1>1, <1>2, <2>2 DEF Live, Place, Body
    <3>2. Place \in Nat /\ EndOf(len) \in Nat /\ Reads \in Source /\ InQuotes \in BOOLEAN
      BY <1>2, PlaceIs, EndIs
    <3>3. Place = EndOf(len)
      BY <3>1, <3>2 DEF Sound
    <3>4. Rest \in Seq(Cell) /\ Len(Rest) = 0
      BY <1>2, <3>1, <3>2, <3>3, RestType
    <3> QED
      BY <2>2, <3>2, <3>4, NothingSaid DEF Says
  <2> QED
    BY <2>1, <2>2
<1> QED
  BY <1>5, <1>6

(* The queue's reading of a text is the buffer's.                          *)
LEMMA QueueCommands ==
  ASSUME NEW c, NEW s, NEW q
  PROVE  Queue!Commands(c, s, q) = Commands(c, s, q)
<1>1. Queue!Cell = Cell
  BY DEF Queue!Cell, Queue!Mark, Cell, Mark
<1>2. Queue!Command = Command
  BY <1>1 DEF Queue!Command, Command
<1>3. Queue!Reader = Reader
  BY <1>1, <1>2 DEF Queue!Reader, Reader
<1>4. Queue!Close = Close
  BY <1>3 DEF Queue!Close, Close
<1>5. \A x: Queue!ReadCell(x) = ReadCell(x)
  BY <1>3, <1>4 DEF Queue!ReadCell, ReadCell
<1> QED
  BY <1>4, <1>5 DEF Queue!Commands, Commands

LEMMA HeadOfThen ==
  ASSUME NEW x \in Command, NEW R \in Seq(Command)
  PROVE  LET s == Then(<<x>>, R) IN s # <<>> /\ Head(s) = x /\ Tail(s) = R
<1> PICK w \in Seq(Command): w = <<x>> /\ Len(w) = 1 /\ w[1] = x
  <2>1. <<x>> \in Seq(Command) /\ Len(<<x>>) = 1 /\ <<x>>[1] = x
    OBVIOUS
  <2> QED
    BY <2>1, Zenon
<1> DEFINE s == w \o R
<1>1. Len(R) \in Nat
  BY LenProperties
<1>2. /\ s \in Seq(Command) /\ Len(s) = 1 + Len(R)
      /\ \A i \in 1 .. 1 + Len(R): s[i] = IF i <= 1 THEN w[i] ELSE R[i - 1]
  BY ConcatProperties
<1> HIDE DEF s
<1>3. s # <<>>
  <2>1. Len(s) # 0 /\ Len(<<>>) = 0
    BY <1>1, <1>2, EmptySeq
  <2> QED
    BY <2>1, Zenon
<1>4. /\ Head(s) = s[1] /\ Tail(s) \in Seq(Command) /\ Len(Tail(s)) = Len(s) - 1
      /\ \A i \in 1 .. Len(s) - 1: Tail(s)[i] = s[i + 1]
  BY <1>2, <1>3, HeadTailProperties
<1>5. Head(s) = x
  BY <1>1, <1>2, <1>4
<1>6. Len(Tail(s)) = Len(R)
  BY <1>1, <1>2, <1>4
<1>7. ASSUME NEW i \in 1 .. Len(R) PROVE Tail(s)[i] = R[i]
  <2>1. i \in 1 .. Len(s) - 1 /\ i + 1 \in 1 .. 1 + Len(R) /\ ~(i + 1 <= 1) /\ (i + 1) - 1 = i
    BY <1>1, <1>2
  <2> QED
    BY <1>2, <1>4, <2>1
<1>8. Tail(s) = R
  BY <1>4, <1>6, <1>7, SeqEqual
<1> QED
  BY <1>3, <1>5, <1>8, Zenon DEF Then, s

LEMMA NextKeepsQueueInv ==
  ASSUME QueueAssumption, QueueInv, IInv', [Next]_vars
  PROVE  QueueInv'
<1>1. ASSUME NEW c \in Text, NEW s \in Source, Add(c, s) PROVE QueueInv'
  BY <1>1, AddStep DEF QueueAssumption
<1>2. CASE FrameCall
  BY <1>2, CallStep
<1>3. ASSUME NEW e \in Index, e >= Start, Step(e) PROVE QueueInv'
  <2>1. Scanning /\ FirstStop(e) /\ (SkipEmpty(e) \/ Execute(e))
    BY <1>3 DEF Step, ExecuteLua, QueueAssumption
  <2> QED
    BY <1>3, <2>1, SkipStep, ExecuteStep DEF QueueAssumption
<1>4. CASE FrameReturn
  BY <1>4, ReturnStep
<1>5. CASE UNCHANGED vars
  BY <1>5 DEF vars, QueueInv, Live, Body, Rest, Place, Reads, InQuotes, Top
<1> QED
  BY <1>1, <1>2, <1>3, <1>4, <1>5 DEF Next, FrameStep

(* Says, as the queue that it is, takes and runs commands one by one.      *)
LEMMA StepRuns ==
  ASSUME QueueAssumption, QueueInv, IInv', Pending = Says, Pending' = Says', [Next]_vars
  PROVE  [Queue!Next]_<<Pending, last>>
<1>1. ASSUME NEW c \in Text, NEW s \in Source, Add(c, s) PROVE [Queue!Next]_<<Pending, last>>
  <2>1. last' = last
    BY <1>1 DEF Add
  <2>2. Balanced(c)
    BY DEF QueueAssumption
  <2>3. CASE Takes(c, len)
    <3>1. Says' = Then(Says, Commands(c, s, FALSE)) /\ "bad" \notin Range(c)
      BY <1>1, <2>2, <2>3, AddStep DEF Takes, ValidText
    <3>2. Pending' = Pending \o Queue!Commands(c, s, FALSE)
      BY <3>1, QueueCommands DEF Then
    <3>3. "bad" \notin Queue!Range(c)
      BY <3>1 DEF Range, Queue!Range
    <3>4. Queue!Post(c, s)
      BY <2>1, <3>2, <3>3 DEF Queue!Post
    <3> QED
      BY <3>4 DEF Queue!Next
  <2>4. CASE ~Takes(c, len)
    <3>1. Says' = Says
      BY <1>1, <2>2, <2>4, AddStep
    <3> QED
      BY <2>1, <3>1
  <2> QED
    BY <2>3, <2>4
<1>2. CASE FrameCall
  <2>1. Says' = Says /\ last' = last
    BY <1>2, CallStep DEF FrameCall
  <2> QED
    BY <2>1
<1>3. ASSUME NEW e \in Index, e >= Start, Scanning, FirstStop(e), SkipEmpty(e)
      PROVE  [Queue!Next]_<<Pending, last>>
  <2>1. Says' = Says /\ last' = last
    BY <1>3, SkipStep DEF SkipEmpty
  <2> QED
    BY <2>1
<1>4. ASSUME NEW e \in Index, e >= Start, Scanning, FirstStop(e), Execute(e)
      PROVE  [Queue!Next]_<<Pending, last>>
  <2> DEFINE cmd == [src |-> CmdSource, text |-> CommandText(e)]
  <2>1. e # Start /\ last' = cmd
    BY <1>4 DEF Execute
  <2>2. PICK R \in Seq(Command):
          /\ Says = Then(Ran(e), R)
          /\ \/ Says' = R
             \/ buf[Start] = Exec /\ Says' = Then(R, Commands(FileText(len), Engine, FALSE))
                /\ FileText(len) # <<>>
    BY <1>4, ExecuteStep DEF QueueAssumption
  <2>3. cmd \in Command /\ CommandText(e) # <<>> /\ CommandText(e)[1] = buf[Start]
    <3>1. CmdSource \in Source /\ CommandText(e) \in Seq(Cell)
      BY <1>4, CommandTextType DEF QueueInv, Scanning
    <3> QED
      BY <1>4, <2>1, <3>1, CloseAt DEF Command
  <2>4. Ran(e) = <<cmd>>
    BY <2>1 DEF Ran
  <2>5. Pending = Then(<<cmd>>, R)
    BY <2>2, <2>4
  <2>6. Head(cmd.text) = buf[Start]
    <3>1. CommandText(e) \in Seq(Cell)
      BY <2>3 DEF Command
    <3>2. Head(CommandText(e)) = CommandText(e)[1]
      BY <2>3, <3>1, HeadTailProperties
    <3> QED
      BY <2>3, <3>2
  <2> HIDE DEF cmd
  <2>7. Pending # <<>> /\ Head(Pending) = cmd /\ Tail(Pending) = R
    <3>1. Then(<<cmd>>, R) # <<>> /\ Head(Then(<<cmd>>, R)) = cmd /\ Tail(Then(<<cmd>>, R)) = R
      BY <2>3, HeadOfThen
    <3> QED
      BY <2>5, <3>1, Zenon
  <2>8. File \in Seq(Cell) /\ Len(File) \in Nat /\ len \in 0 .. Size /\ Engine \in Source
    <3>1. File \in Seq(TextCell)
      BY TextAssumption DEF TextCell
    <3> QED
      BY <3>1, TextCells, SeqMonotonic, LenProperties, SourceAssumption DEF QueueInv, IInv, TypeOK
  <2>9. \A n: Queue!Included(n) = Commands(SubSeq(File, 1, n), Engine, FALSE)
    BY QueueCommands DEF Queue!Included
  <2>10. CASE Says' = R
    <3>1. CASE buf[Start] # Exec
      <4>1. Queue!Run
        BY <2>1, <2>6, <2>7, <2>10, <3>1 DEF Queue!Run
      <4> QED
        BY <4>1 DEF Queue!Next
    <3>2. CASE buf[Start] = Exec
      <4>1. Queue!Included(0) = <<>>
        <5>1. SubSeq(File, 1, 0) \in Seq(Cell) /\ Len(SubSeq(File, 1, 0)) = 0
          BY <2>8, SubSeqProperties
        <5>2. Commands(SubSeq(File, 1, 0), Engine, FALSE) = <<>>
          BY <2>8, <5>1, NothingSaid
        <5> QED
          BY <2>9, <5>2
      <4>2. Then(Tail(Pending), Queue!Included(0)) = R
        BY <2>7, <4>1, ThenNothing
      <4>3. 0 \in 0 .. Len(File)
        BY <2>8
      <4>4. \E n \in 0 .. Len(File): Pending' = Tail(Pending) \o Queue!Included(n)
        BY <2>10, <4>2, <4>3, Zenon DEF Then
      <4>5. Queue!Run
        BY <2>1, <2>6, <2>7, <3>2, <4>4 DEF Queue!Run
      <4> QED
        BY <4>5 DEF Queue!Next
    <3> QED
      BY <3>1, <3>2
  <2>11. CASE buf[Start] = Exec /\ Says' = Then(R, Commands(FileText(len), Engine, FALSE))
             /\ FileText(len) # <<>>
    <3>1. PICK n \in 0 .. Len(File): FileText(len) = SubSeq(File, 1, n)
      <4>1. File # <<>> /\ FileText(len) = SubSeq(File, 1, ReadSize(len) - 1)
        BY <2>11 DEF FileText
      <4>2. Len(File) >= 1
        BY <2>8, <4>1, EmptySeq
      <4>3. ReadSize(len) - 1 \in 0 .. Len(File)
        BY <2>8, <4>2, SizeAssumption DEF ReadSize
      <4> QED
        BY <4>1, <4>3, Zenon
    <3>2. Pending' = Tail(Pending) \o Queue!Included(n)
      BY <2>7, <2>11, <2>9, <3>1, Zenon DEF Then
    <3>3. Queue!Run
      BY <2>1, <2>6, <2>7, <2>11, <3>2, Zenon DEF Queue!Run
    <3> QED
      BY <3>3 DEF Queue!Next
  <2> QED
    BY <2>2, <2>10, <2>11
<1>5. CASE FrameReturn
  <2>1. Says' = Says /\ last' = last
    BY <1>5, ReturnStep DEF FrameReturn
  <2> QED
    BY <2>1
<1>6. CASE UNCHANGED vars
  <2>1. Pending' = Pending /\ last' = last
    BY <1>6 DEF vars, Pending, Unread, Top
  <2> QED
    BY <2>1
<1> QED
  <2>1. ASSUME NEW e \in Index, e >= Start, Step(e) PROVE [Queue!Next]_<<Pending, last>>
    <3>1. Scanning /\ FirstStop(e) /\ (SkipEmpty(e) \/ Execute(e))
      BY <2>1 DEF Step, ExecuteLua, QueueAssumption
    <3> QED
      BY <1>3, <1>4, <2>1, <3>1
  <2> QED
    BY <1>1, <1>2, <1>5, <1>6, <2>1 DEF Next, FrameStep

(* cmdbuf_add, cmdbuf_frame and cmdbuf_exec implement CmdQueue: every      *)
(* command of a text that is accepted runs once, in order, for the source  *)
(* that sent it, also while exec appends to the text that is being read    *)
(* and when the buffer is full to its last cell.                           *)
THEOREM BufferIsQueue == ASSUME QueueAssumption PROVE Spec => QueueSpec
<1>1. Init => QueueInv
  BY InitQueueInv
<1>2. IInv' /\ QueueInv /\ [Next]_vars => QueueInv'
  BY NextKeepsQueueInv
<1>3. Spec => []QueueInv
  BY <1>1, <1>2, Inductive, PTL DEF Spec
<1>4. QueueInv => Pending = Says
  BY PendingSays
<1>5. Init => Queue!Init
  <2> SUFFICES ASSUME Init PROVE Queue!Init
    OBVIOUS
  <2>1. Pending = <<>> /\ last = [src |-> Engine, text |-> <<>>]
    BY DEF Init, Pending
  <2> QED
    BY <2>1 DEF Queue!Init, Queue!Nothing
<1>6. QueueInv /\ IInv' /\ Pending = Says /\ (Pending = Says)' /\ [Next]_vars => [Queue!Next]_<<Pending, last>>
  BY StepRuns
<1> QED
  BY <1>3, <1>4, <1>5, <1>6, Inductive, PTL DEF Spec, QueueSpec, Queue!Spec
=============================================================================
