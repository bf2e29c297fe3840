------------------------------- MODULE CmdBuf -------------------------------
(***************************************************************************)
(* The command buffer (src/src/cmdbuf.c): one block of memory in which     *)
(* cmdbuf_add appends command text and which cmdbuf_frame scans and        *)
(* executes, once a frame.  Key events, the command line, config files and *)
(* game code add to it.                                                    *)
(*                                                                         *)
(* A command runs from the middle of the scan.  It may append to the block *)
(* being scanned (exec), and game code may even scan it again from its     *)
(* start (the Lua function execute): frames is the stack of the scans that *)
(* are under way.                                                          *)
(***************************************************************************)
EXTENDS CmdText

CONSTANTS
  Size,       (* CMDBUF_SIZE.                                               *)
  Text,       (* The texts that are added, sequences of cells.              *)
  File,       (* The text of the file the exec command reads.               *)
  Exec,       (* The word of the exec command.                              *)
  Lua,        (* The words of commands that game code registered.           *)
  Engine,     (* CMD_SRC_ENGINE.                                            *)
  Console,    (* CMD_SRC_CONSOLE.                                           *)
  MaxDepth    (* Bound: scans under way at once.                            *)

ASSUME SizeAssumption == Size \in Nat /\ Size >= 3
ASSUME TextAssumption ==
  /\ \A c \in Text: c \in Seq(Cell \ (Source \cup {"nul"}))
  /\ File \in Seq(Cell \ (Source \cup {"nul"}))
ASSUME SourceAssumption == Engine \in Source /\ Console \in Source
ASSUME DepthAssumption == MaxDepth \in Nat \ {0}

Index == 0 .. Size - 1

VARIABLES
  buf,        (* cmdbuf.                                                    *)
  len,        (* cmdbuf_len.                                                *)
  frames,     (* The calls of cmdbuf_frame, the innermost last.             *)
  last        (* History: the command executed last.                        *)

vars == <<buf, len, frames, last>>

-----------------------------------------------------------------------------
(* cmdbuf_add.                                                             *)

(* Fault: one cell too many is let in.                                     *)
FitsTightly(c, l) == l + Len(c) < Size

Fits(c, l) == l + Len(c) < Size - 1

(* One invalid character refuses the whole text.                           *)
ValidText(c) == c # <<>> /\ "bad" \notin Range(c)

Ended(c) == Last(c) \in {"nl", "semi"}

(* The source, the text, a newline if the text has no end of its own (and  *)
(* there is room for it) and a NUL.                                        *)
Written(b, l, c, s) ==
  LET n == l + Len(c)
      stop == IF Ended(c) \/ n + 2 = Size THEN n + 1 ELSE n + 2
  IN  [i \in Index |->
         CASE i = l -> s
           [] i \in l + 1 .. n -> c[i - l]
           [] i \in n + 1 .. stop - 1 -> "nl"
           [] i = stop -> "nul"
           [] OTHER -> b[i]]

(* Fault: the newline is not counted.                                      *)
ShortLength(l, c) == l + Len(c) + 1

LengthAfter(l, c) == l + Len(c) + 1 + (IF Ended(c) THEN 0 ELSE 1)

Takes(c, l) == ValidText(c) /\ Fits(c, l)
BufAfter(b, l, c, s) == IF Takes(c, l) THEN Written(b, l, c, s) ELSE b
LenAfter(l, c) == IF Takes(c, l) THEN LengthAfter(l, c) ELSE l

(* cmdbuf_add_file reads at most the room that is left, none being no      *)
(* limit, and drops the last character it read.                            *)
ReadSize(l) ==
  IF Size - l - 1 > 0 /\ Size - l - 1 < Len(File) THEN Size - l - 1 ELSE Len(File)
FileText(l) == IF File = <<>> THEN <<>> ELSE SubSeq(File, 1, ReadSize(l) - 1)

-----------------------------------------------------------------------------
Init ==
  /\ buf = [i \in Index |-> "nul"]
  /\ len = 0
  /\ frames = <<>>
  /\ last = [src |-> Engine, text |-> <<>>]

(* Keys, the command line, the quit event of the window system.            *)
Add(c, s) ==
  /\ frames = <<>>
  /\ buf' = BufAfter(buf, len, c, s)
  /\ len' = LenAfter(len, c)
  /\ UNCHANGED <<frames, last>>

NewFrame == [pos |-> 0, src |-> Engine, quoted |-> FALSE, end |-> FALSE, leave |-> FALSE]

(* Once a frame of the engine, and at start.                               *)
FrameCall ==
  /\ frames = <<>>
  /\ len >= 1
  /\ frames' = <<NewFrame>>
  /\ UNCHANGED <<buf, len, last>>

Top == frames[Len(frames)]
Scanning == frames # <<>> /\ ~Top.leave /\ buf[Top.pos] # "nul"

(* Where the next command starts, and the source it runs for.              *)
Start == IF buf[Top.pos] \in Source THEN Top.pos + 1 ELSE Top.pos
CmdSource == IF buf[Top.pos] \in Source THEN buf[Top.pos] ELSE Top.src

(* in_quotes at place e; it is never reset between commands.               *)
Quoted(e) == Top.quoted # (Cardinality({i \in Start .. e: buf[i] = "quote"}) % 2 = 1)

Stops(e) == buf[e] \in {"nul", "nl"} \/ (buf[e] = "semi" /\ ~Quoted(e))
FirstStop(e) == Stops(e) /\ \A i \in Start .. e - 1: ~Stops(i)

CommandText(e) == [i \in 1 .. e - Start |-> buf[Start + i - 1]]

(* Fault: the scan goes on behind the end of the text, too.                *)
FrameAfterEnd(e) ==
  [pos |-> e + 1, src |-> CmdSource, quoted |-> Quoted(e), end |-> FALSE, leave |-> FALSE]

(* The scan goes on behind the terminator.  After a command that ended at  *)
(* the end of the text it does not: what the command appended is dropped.  *)
FrameAfter(e) ==
  LET end   == Top.end \/ buf[e] = "nul"
      leave == end /\ e # Start
  IN  [pos |-> IF leave THEN e ELSE e + 1, src |-> CmdSource, quoted |-> Quoted(e),
       end |-> end, leave |-> leave]

(* An empty command: two terminators, or none, behind a source byte.       *)
SkipEmpty(e) ==
  /\ e = Start
  /\ frames' = [frames EXCEPT ![Len(frames)] = FrameAfter(e)]
  /\ UNCHANGED <<buf, len, last>>

(* cmdbuf_exec: the terminator becomes a NUL, then the command runs.       *)
Terminated(e) == [buf EXCEPT ![e] = "nul"]

Execute(e) ==
  /\ e # Start
  /\ last' = [src |-> CmdSource, text |-> CommandText(e)]
  /\ frames' = [frames EXCEPT ![Len(frames)] = FrameAfter(e)]
  /\ IF buf[Start] = Exec
     THEN /\ buf' = BufAfter(Terminated(e), len, FileText(len), Engine)
          /\ len' = LenAfter(len, FileText(len))
     ELSE buf' = Terminated(e) /\ len' = len

(* A command of the game whose handler calls execute: cmdbuf_add, then     *)
(* cmdbuf_frame from the start of the buffer.                              *)
ExecuteLua(e, c) ==
  /\ e # Start
  /\ buf[Start] \in Lua
  /\ Len(frames) < MaxDepth
  /\ last' = [src |-> CmdSource, text |-> CommandText(e)]
  /\ buf' = BufAfter(Terminated(e), len, c, Console)
  /\ len' = LenAfter(len, c)
  /\ frames' = LET outer == [frames EXCEPT ![Len(frames)] = FrameAfter(e)]
               IN  IF len' < 1 THEN outer ELSE Append(outer, NewFrame)

Step(e) ==
  /\ Scanning
  /\ FirstStop(e)
  /\ \/ SkipEmpty(e)
     \/ Execute(e)
     \/ \E c \in Text: ExecuteLua(e, c)

(* Fault: cmdbuf_len is not reset.                                         *)
KeepLength == len

Release == 0

(* cmdbuf_frame returns: nothing is left, or the last command had no end.  *)
FrameReturn ==
  /\ frames # <<>>
  /\ Top.leave \/ buf[Top.pos] = "nul"
  /\ frames' = Front(frames)
  /\ len' = Release
  /\ UNCHANGED <<buf, last>>

FrameStep == \E e \in Index: e >= Start /\ Step(e)

Next ==
  \/ \E c \in Text, s \in Source: Add(c, s)
  \/ FrameCall
  \/ Scanning /\ FrameStep
  \/ FrameReturn

Spec == Init /\ [][Next]_vars

(* engine_frame is called again and again, and a frame is plain C code.    *)
FairSpec == Spec /\ WF_vars(FrameCall) /\ WF_vars(Scanning /\ FrameStep) /\ WF_vars(FrameReturn)
-----------------------------------------------------------------------------
(* Properties.                                                             *)

FrameType == [pos: Index, src: Source, quoted: BOOLEAN, end: BOOLEAN, leave: BOOLEAN]

(* Every scan, also one that was interrupted by others, stands in the      *)
(* buffer, and the length is one that cmdbuf_add can test.                 *)
TypeOK ==
  /\ buf \in [Index -> Cell]
  /\ len \in 0 .. Size
  /\ frames \in Seq(FrameType)
  /\ last \in [src: Source, text: Seq(Cell)]

(* A scan always meets a NUL inside the buffer, whatever was appended to   *)
(* or written over the text it scans (strlcpy's bound in cmdbuf_add).      *)
ScanStops == buf[Size - 1] = "nul"

(* A source byte has text behind it, so a scan that takes one does not     *)
(* walk over the last cell.                                                *)
SourceBeforeText == \A i \in Index: buf[i] \in Source => i <= Size - 3

(* So no scan leaves the buffer, also one that other scans interrupted.    *)
ScansSafe == TypeOK /\ ScanStops /\ SourceBeforeText

(* The cells from place p on that the scan still sees.                     *)
Unread(p) ==
  LET n == CHOOSE i \in p .. Size - 1: buf[i] = "nul" /\ \A j \in p .. i - 1: buf[j] # "nul"
  IN  [i \in 1 .. n - p |-> buf[p + i - 1]]

Pending ==
  CASE frames = <<>> /\ len < 1 -> <<>>
    [] frames = <<>> /\ len >= 1 -> Commands(Unread(0), Engine, FALSE)
    [] frames # <<>> /\ Top.leave -> <<>>
    [] OTHER -> Commands(Unread(Top.pos), Top.src, Top.quoted)

(* As long as no handler calls execute and the quotes of every text are    *)
(* balanced the buffer is a queue: every accepted command is executed      *)
(* once, in order and for its own source, also one that a file appends     *)
(* while the text in front of it is being executed.                        *)
Queue == INSTANCE CmdQueue WITH queue <- Pending
QueueSpec == Queue!Spec

(* The buffer is empty again after every frame, also when a file executes  *)
(* itself: the overflow test ends that.                                    *)
BufferDrains == (len > 0) ~> (len = 0)
=============================================================================
