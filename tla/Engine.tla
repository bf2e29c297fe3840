------------------------------- MODULE Engine -------------------------------
(***************************************************************************)
(* The life of the process (src/src/engine.c, src/src/sys/sys_unix.c): the *)
(* modules come up in one order and go down in another, the configuration  *)
(* file is read on the way up and written on the way down, and a signal,   *)
(* an alarm or a failing module can start or cut short the way down at any *)
(* point.  The file outlives the process.                                  *)
(*                                                                         *)
(* The signal handler runs on top of the main thread, which never resumes: *)
(* every path of the handler ends in exit.  An action is what happens      *)
(* between two points at which a signal makes a difference: one module     *)
(* initialised or shut down, one line of the file executed or written.     *)
(*                                                                         *)
(* Of the settings only their key or name, their value and the SAVE flag   *)
(* are kept.  The read-only fs_* variables, which no command can set, are  *)
(* left out.  Lines are written in any order; the code's is by key and by  *)
(* name.                                                                   *)
(***************************************************************************)
EXTENDS Integers, Sequences, FiniteSets

CONSTANTS
  Key,        (* Keys that can be bound.                                     *)
  Var,        (* Names of console variables.                                 *)
  Val,        (* Strings that a bind or a variable can have as its value.    *)
  Torn,       (* The values with a quote inside.                             *)
  Listed,     (* The values with a semicolon inside.                         *)
  Long,       (* The values too long for fs_printf's message, if bound, and  *)
              (* for the string of a variable.                               *)
  Stump,      (* What a torn value is cut to: the text before its quote.     *)
  Scraps,     (* What text that has lost its end can be read as.             *)
  Brief,      (* What a variable keeps of a long value.                      *)
  Rest,       (* Rest[v][l]: what the commands behind the semicolon of v     *)
              (* give to line l, NONE if nothing.                            *)
  Beyond,     (* The lines of the keys and the variables that begin with z.  *)
  Owner,      (* Owner[x]: the module whose init registers x, NONE if none.  *)
  Saved,      (* Saved[x]: that module registers x with CVAR_FL_SAVE.        *)
  Default,    (* Default[x]: the value it registers x with.                  *)
  ReadMax,    (* The whole lines of config.cfg that fit in the command       *)
              (* buffer.                                                     *)
  FileMax,    (* Bound: the lines of config.cfg when it is appended to.      *)
  MaxChanges, (* Bound: the commands given in one process.                   *)
  MaxLost,    (* Bound: the lines lost already when a write of a line fails. *)
  NONE        (* No value: a key not bound, a variable not registered.       *)

BootOrder == <<"cvar", "cmd", "cmdbuf", "fs", "keyboard", "mouse", "image",
               "video", "gl", "r", "snd", "g">>

(* Fault: the file system goes down before the variables are saved.        *)
FsEarlyOrder == <<"g", "snd", "r", "gl", "video", "mouse", "keyboard",
                  "image", "fs", "cvar", "cmdbuf", "cmd">>

(* Fault: variables are appended before the file is emptied for the binds. *)
CvarFirstOrder == <<"g", "snd", "r", "gl", "video", "mouse", "cvar", "image",
                    "keyboard", "cmdbuf", "cmd", "fs">>
StopOrder == <<"g", "snd", "r", "gl", "video", "mouse", "keyboard", "image",
               "cvar", "cmdbuf", "cmd", "fs">>

Module  == {BootOrder[i]: i \in DOMAIN BootOrder}
CanFail == {"fs", "video", "gl", "r", "snd", "g"}
Late    == {"mouse", "video", "gl", "r", "snd", "g"}

Value == Val \cup {NONE}

(* The lines of the file, each named by the key or the variable it sets.   *)
Line == ({"bind"} \X Key) \cup ({"seta"} \X Var)

ASSUME ValAssumption ==
  /\ Torn \subseteq Val /\ Listed \subseteq Val /\ Long \subseteq Val /\ Scraps \subseteq Val
  /\ NONE \notin Val
  /\ Stump \in Val \ (Torn \cup Long) /\ Brief \in Val \ Long
ASSUME LineAssumption ==
  Rest \in [Listed -> [Line -> Value]] /\ Beyond \subseteq Line
ASSUME OwnerAssumption ==
  /\ Owner \in [Var -> Late \cup {NONE}]
  /\ Saved \in [Var -> BOOLEAN]
  /\ Default \in [Var -> Val \ (Torn \cup Long)]
ASSUME NoneAssumption == NONE \notin Module
ASSUME BoundAssumption == {ReadMax, FileMax, MaxChanges, MaxLost} \subseteq Nat

VARIABLES
  pc,         (* "boot", "load", "run", "stop", "over".                      *)
  next,       (* The module initialised next, as an index of BootOrder.      *)
  at,         (* The module shut down next, as an index of StopOrder.        *)
  up,         (* The modules whose *_i flag is true.                         *)
  signal,     (* in_signal: the handler has been entered.                    *)
  hung,       (* A shutdown called from the handler waits for a lock that    *)
              (* the interrupted thread holds.                               *)
  quit,       (* engine_quit_flag.                                           *)
  binds,      (* key_binds and key_special_binds.                            *)
  cvars,      (* The value and the SAVE flag of every variable.              *)
  changes,    (* The commands given so far, for MaxChanges.                  *)
  file,       (* Who writes config.cfg: "keyboard", "cvar" or "closed".      *)
  left,       (* Lines still to be written.                                  *)
  read,       (* The lines of the file executed so far.                      *)
  quotes,     (* in_quotes of cmdbuf_frame.                                  *)
  disk,       (* config.cfg, line by line.                                   *)
  promise,    (* History: the settings at the last stop.                     *)
  lost        (* History: the lines that this stop, or reading them back,    *)
              (* has failed to handle.                                       *)

process  == <<next, up>>
settings == <<binds, cvars>>
stopping == <<at, file, left>>
reading  == <<read, quotes>>
history  == <<promise, lost>>
memory   == <<process, settings, stopping, reading, signal, hung, quit, changes>>
vars     == <<pc, memory, disk, history>>

Empty == [bind |-> [k \in Key |-> NONE], var |-> [x \in Var |-> NONE]]
Unregistered == [x \in Var |-> [val |-> NONE, save |-> FALSE]]

(* What the way down is to write.                                          *)
SettingsOf(b, c) ==
  [bind |-> b, var |-> [x \in Var |-> IF c[x].save THEN c[x].val ELSE NONE]]
Settings == SettingsOf(binds, cvars)

Given(f, line) == IF line[1] = "bind" THEN f.bind[line[2]] ELSE f.var[line[2]]

(* cvar_set copies into a string of CVAR_MAX_STR.                          *)
InVar(v) == IF v \in Long THEN Brief ELSE v

(* A line of the file.  One that is not whole has lost its end, and the    *)
(* newline with it, so that the next line is glued to it.                  *)
Piece == [line: Line, val: Val, whole: BOOLEAN]

-----------------------------------------------------------------------------
(* The process's memory when it starts, and when it is gone.               *)

Init ==
  /\ pc = "boot"
  /\ next = 1 /\ at = 1 /\ up = {}
  /\ signal = FALSE /\ hung = FALSE /\ quit = FALSE
  /\ binds = Empty.bind /\ cvars = Unregistered /\ changes = 0
  /\ file = "closed" /\ left = {} /\ read = 0 /\ quotes = FALSE
  /\ disk = <<>> /\ promise = Empty /\ lost = {}

Gone ==
  /\ pc' = "over"
  /\ next' = 1 /\ at' = 1 /\ up' = {}
  /\ signal' = FALSE /\ hung' = FALSE /\ quit' = FALSE
  /\ binds' = Empty.bind /\ cvars' = Unregistered /\ changes' = 0
  /\ file' = "closed" /\ left' = {} /\ read' = 0 /\ quotes' = FALSE

(* Nothing of the settings is still to be had.                             *)
LoseAll == promise' = Empty /\ lost' = Line

-----------------------------------------------------------------------------
(* The way up.                                                             *)

(* cvar_get: a variable that exists keeps its value.                       *)
RegisteredValue(x) == IF cvars[x].val = NONE THEN Default[x] ELSE cvars[x].val

(* Its flags are replaced by the owner's, SAVE set by seta included.       *)
Registered(m) ==
  [x \in Var |-> IF Owner[x] = m
                 THEN [val |-> RegisteredValue(x), save |-> Saved[x]]
                 ELSE cvars[x]]

(* Main reads config.cfg once the keyboard, whose command it needs, is up. *)
ConfigAfter == 6
Loaded == next > ConfigAfter \/ (next = ConfigAfter /\ pc = "boot")

InitModule ==
  /\ pc = "boot" /\ ~signal
  /\ next <= Len(BootOrder)
  /\ up' = up \cup {BootOrder[next]}
  /\ next' = next + 1
  /\ cvars' = Registered(BootOrder[next])
  /\ pc' = IF next' = ConfigAfter THEN "load" ELSE "boot"
  /\ UNCHANGED <<binds, changes, stopping, reading, signal, hung, quit, disk, history>>

(* A line that is read as it was written: it has its end, the line before  *)
(* it too, all of it is in the buffer, and no quote in its value ends the  *)
(* value.                                                                  *)
Clear(d, i) ==
  /\ d[i].whole /\ (i > 1 => d[i - 1].whole)
  /\ i <= ReadMax
  /\ d[i].val \notin Torn

(* Fault: a semicolon ends a command wherever it stands.                   *)
SplitAlways(v) == v \in Listed

(* A semicolon inside quotes ends no command, but where in_quotes has been *)
(* left wrong it does.  The text before it has lost its closing quote, and *)
(* string_tokenize drops it.                                               *)
Split(v) == quotes /\ v \in Listed

(* What the line's own command may be given: of a torn value the text      *)
(* before its quote, and of text glued together some of it, if the command *)
(* is not dropped.                                                         *)
Heard(p, clear) ==
  CASE clear /\ ~Split(p.val) -> {p.val}
    [] clear /\ Split(p.val)  -> {NONE}
    [] ~clear /\ p.whole /\ p.val \in Torn -> {Stump, NONE}
    [] OTHER -> Scraps \cup {NONE}

(* What the commands behind the semicolon may give, all of them or those   *)
(* that the damage leaves.                                                 *)
Nothing == [l \in Line |-> NONE]
Parts(f) ==
  {g \in [Line -> Value]: \A l \in Line: g[l] \in IF f[l] = NONE THEN {NONE} ELSE {f[l], NONE} \cup Scraps}
Behind(p, clear) ==
  CASE p.val \notin Listed -> {Nothing}
    [] p.val \in Listed /\ clear /\ Split(p.val)  -> {Rest[p.val]}
    [] p.val \in Listed /\ clear /\ ~Split(p.val) -> {Nothing}
    [] OTHER -> Parts(Rest[p.val])

(* The setting that a seta of the file makes: a variable that exists keeps *)
(* its flags.                                                              *)
(* Fault: cvar_shutdown writes "set" for "seta".                           *)
NotToSave(x, v) == [val |-> InVar(v), save |-> IF cvars[x].val = NONE THEN FALSE ELSE cvars[x].save]
FromFile(x, v)  == [val |-> InVar(v), save |-> IF cvars[x].val = NONE THEN TRUE ELSE cvars[x].save]

(* The commands behind a semicolon may also be set, or quit.               *)
ExecuteLine ==
  /\ pc = "load" /\ ~signal
  /\ read < Len(disk) /\ read <= ReadMax
  /\ read' = read + 1
  /\ LET p == disk[read + 1]
         clear == Clear(disk, read + 1) IN
       \E v \in Heard(p, clear), g \in Behind(p, clear), saved \in BOOLEAN:
         /\ quotes' \in IF clear THEN {quotes} ELSE BOOLEAN
         /\ quit' \in IF g = Nothing THEN {quit} ELSE {quit, TRUE}
         /\ binds' = [k \in Key |->
              CASE g[<<"bind", k>>] # NONE -> g[<<"bind", k>>]
                [] g[<<"bind", k>>] = NONE /\ p.line = <<"bind", k>> /\ v # NONE -> v
                [] OTHER -> binds[k]]
         /\ cvars' = [x \in Var |->
              CASE g[<<"seta", x>>] # NONE ->
                     [FromFile(x, g[<<"seta", x>>]) EXCEPT !.save = IF cvars[x].val = NONE THEN saved ELSE @]
                [] g[<<"seta", x>>] = NONE /\ p.line = <<"seta", x>> /\ v # NONE -> FromFile(x, v)
                [] OTHER -> cvars[x]]
  /\ UNCHANGED <<pc, process, changes, stopping, signal, hung, disk, history>>

(* The rest of a file that does not fit is not read.                       *)
LoadDone ==
  /\ pc = "load" /\ ~signal
  /\ read = Len(disk) \/ read > ReadMax
  /\ pc' = "boot"
  /\ read' = 0 /\ quotes' = FALSE
  /\ UNCHANGED <<process, settings, changes, stopping, signal, hung, quit, disk, history>>

(* The file is there but cannot be opened, or there is no memory for it:   *)
(* main goes on without it.                                                *)
LoadFails ==
  /\ pc = "load" /\ ~signal
  /\ read = 0 /\ disk # <<>>
  /\ pc' = "boot"
  /\ LoseAll
  /\ UNCHANGED <<memory, disk>>

BootDone ==
  /\ pc = "boot" /\ ~signal
  /\ next > Len(BootOrder)
  /\ pc' = "run"
  /\ UNCHANGED <<memory, disk, history>>

-----------------------------------------------------------------------------
(* The commands that change settings, from autoexec.cfg, the arguments,    *)
(* keys or game code.  g_shutdown is the first of the way down and calls   *)
(* game code once more.                                                    *)

Current == StopOrder[at]
Stops   == pc = "stop" /\ ~hung /\ at <= Len(StopOrder)
Running == pc = "run" /\ ~signal
Leaving == Stops /\ Current = "g" /\ "g" \in up

(* What game code sets on the way down is owed as well.                    *)
Change(b, c) ==
  /\ Running \/ Leaving
  /\ changes < MaxChanges
  /\ changes' = changes + 1
  /\ binds' = b /\ cvars' = c
  /\ promise' = IF Leaving THEN SettingsOf(b, c) ELSE promise
  /\ UNCHANGED <<pc, process, stopping, reading, signal, hung, quit, disk, lost>>

(* The old string is freed first, and there may be no memory for the new.  *)
Bind(k, v) == \E w \in {v, NONE}: Change([binds EXCEPT ![k] = w], cvars)

(* A variable that exists keeps its flags; seta creates one with SAVE.     *)
SetVar(x, v, save) ==
  Change(binds, [cvars EXCEPT ![x] =
                   [val |-> InVar(v), save |-> IF @.val = NONE THEN save ELSE @.save]])

Set(x, v)  == SetVar(x, v, FALSE)
Seta(x, v) == SetVar(x, v, TRUE)

Quit ==
  /\ Running
  /\ quit' = TRUE
  /\ UNCHANGED <<pc, process, settings, changes, stopping, reading, signal, hung, disk, history>>

-----------------------------------------------------------------------------
(* The way down: engine_stop, entered once per process.                    *)

(* What a stop owes.  One that begins when the file has been read owes the *)
(* settings of that moment.  One that finds the keyboard up and the file   *)
(* not yet read will write over what it has not read.                      *)
Owe(c) ==
  IF Loaded THEN promise' = SettingsOf(binds, c) /\ lost' = {}
  ELSE IF "keyboard" \in up THEN LoseAll
  ELSE UNCHANGED history

(* What is being read is given up, and engine_quit_flag is looked at no    *)
(* more.                                                                   *)
StopBegin(c) ==
  /\ pc' = "stop"
  /\ cvars' = c
  /\ read' = 0 /\ quotes' = FALSE /\ quit' = FALSE
  /\ Owe(c)
  /\ UNCHANGED <<process, binds, changes, stopping, hung, disk>>

(* Init fails: some of the module's variables may be registered by then.   *)
InitFails ==
  /\ pc = "boot" /\ ~signal
  /\ next <= Len(BootOrder) /\ BootOrder[next] \in CanFail
  /\ \E c \in {cvars, Registered(BootOrder[next])}: StopBegin(c)
  /\ UNCHANGED signal

(* engine_frame finds the flag.                                            *)
FrameQuits ==
  /\ Running
  /\ quit
  /\ StopBegin(cvars)
  /\ UNCHANGED signal

SavesNow == Current \in {"keyboard", "cvar"} /\ Current \in up

(* The module is done with.                                                *)
StepDown == up' = up \ {Current} /\ at' = at + 1

(* A module that saves nothing, or one that never came up.                 *)
ShutdownModule ==
  /\ Stops
  /\ ~SavesNow
  /\ StepDown
  /\ UNCHANGED <<pc, next, settings, changes, file, left, reading, signal, hung, quit, disk, history>>

(* keyboard_shutdown opens with FS_WRONLY (O_TRUNC), cvar_shutdown with    *)
(* FS_APPEND.  Neither loop reaches the last letter.                       *)
Opened == IF Current = "keyboard" THEN <<>> ELSE disk
ToWrite ==
  {l \in Line \ Beyond: /\ (Current = "keyboard") <=> (l[1] = "bind")
                        /\ Given(Settings, l) # NONE}

SaveOpen ==
  /\ Stops
  /\ SavesNow /\ file = "closed"
  /\ "fs" \in up
  /\ Current = "cvar" => Len(disk) + Cardinality(ToWrite) <= FileMax
  /\ file' = Current
  /\ disk' = Opened
  /\ left' = ToWrite
  /\ UNCHANGED <<pc, process, settings, changes, at, reading, signal, hung, quit, history>>

(* fs_printf cuts a line at the size of its message; a variable's fits.    *)
Printed(l) ==
  [line |-> l, val |-> Given(Settings, l),
   whole |-> l[1] = "seta" \/ Given(Settings, l) \notin Long]

SaveLine(l) ==
  /\ Stops
  /\ file # "closed"
  /\ l \in left
  /\ left' = left \ {l}
  /\ disk' = Append(disk, Printed(l))
  /\ UNCHANGED <<pc, process, settings, changes, at, file, reading, signal, hung, quit, history>>

(* fs_write fails and writes some of the line or none of it; nobody looks. *)
WriteFails(l) ==
  /\ Stops
  /\ file # "closed"
  /\ l \in left
  /\ Cardinality(lost) <= MaxLost
  /\ left' = left \ {l}
  /\ disk' \in {disk, Append(disk, [Printed(l) EXCEPT !.whole = FALSE])}
  /\ lost' = lost \cup {l}
  /\ UNCHANGED <<pc, process, settings, changes, at, file, reading, signal, hung, quit, promise>>

SaveClose ==
  /\ Stops
  /\ file # "closed" /\ left = {}
  /\ file' = "closed"
  /\ StepDown
  /\ UNCHANGED <<pc, next, settings, changes, left, reading, signal, hung, quit, disk, history>>

(* The lines that a module which cannot open the file does not see to: the *)
(* keyboard leaves what the file has, or nothing of it.                    *)
Missed ==
  IF Current = "keyboard"
  THEN {l \in Line: l[1] = "bind" \/ Given(Settings, l) = NONE}
  ELSE ToWrite

(* fs_open fails: no file system yet (fs_init failed), the open refused,   *)
(* or no memory for the file structure, after O_TRUNC has done its work.   *)
SaveFails ==
  /\ Stops
  /\ SavesNow /\ file = "closed"
  /\ StepDown
  /\ disk' \in IF "fs" \in up THEN {disk, Opened} ELSE {disk}
  /\ lost' = IF "fs" \in up THEN lost \cup Missed ELSE lost
  /\ UNCHANGED <<pc, next, settings, changes, file, left, reading, signal, hung, quit, promise>>

StopDone ==
  /\ pc = "stop" /\ ~hung
  /\ at > Len(StopOrder)
  /\ Gone
  /\ UNCHANGED <<disk, history>>

-----------------------------------------------------------------------------
(* Signals, alarms, crashes.                                               *)

(* The process ends in the middle of a stop.                               *)
Cut ==
  /\ Gone
  /\ IF "cvar" \in up THEN LoseAll ELSE UNCHANGED history
  /\ UNCHANGED disk

(* The first signal: engine_stop, which returns at once if it has already  *)
(* been entered; then exit(1).                                             *)
Signal ==
  /\ pc # "over" /\ ~signal
  /\ IF pc = "stop" THEN Cut ELSE StopBegin(cvars) /\ signal' = TRUE

(* Fault: the handler sets no alarm.                                       *)
SecondSignal == signal /\ ~hung

(* Another signal, or the alarm that the first one has set.                *)
SignalAgain == signal

(* The handler, entered again: exit(2).                                    *)
Exit2 == pc = "stop" /\ SignalAgain /\ Cut

(* A shutdown in the handler blocks on what the main thread holds.         *)
Hang ==
  /\ pc = "stop" /\ signal /\ ~hung
  /\ hung' = TRUE
  /\ UNCHANGED <<pc, process, settings, changes, stopping, reading, signal, quit, disk, history>>

(* SIGKILL, a power cut: nothing is saved that was not saved before.       *)
Kill ==
  /\ pc # "over"
  /\ IF pc = "stop" THEN Cut ELSE Gone /\ UNCHANGED <<disk, history>>

(* A new process, with the file the last one left.                         *)
Restart ==
  /\ pc = "over"
  /\ pc' = "boot"
  /\ UNCHANGED <<memory, disk, history>>

-----------------------------------------------------------------------------
(* The steps of the main thread, or, in a stop that a signal began, of the *)
(* handler.                                                                *)
Step ==
  \/ InitModule
  \/ InitFails
  \/ ExecuteLine
  \/ LoadDone
  \/ LoadFails
  \/ BootDone
  \/ FrameQuits
  \/ ShutdownModule
  \/ SaveOpen
  \/ \E l \in left: SaveLine(l)
  \/ \E l \in left: WriteFails(l)
  \/ SaveClose
  \/ SaveFails
  \/ StopDone

Next ==
  \/ Step
  \/ \E k \in Key, v \in Val: Bind(k, v)
  \/ \E x \in Var, v \in Val: Set(x, v)
  \/ \E x \in Var, v \in Val: Seta(x, v)
  \/ Quit
  \/ Signal
  \/ Exit2
  \/ Hang
  \/ Kill
  \/ Restart

(* The main thread runs as long as no signal has stopped it for good, and  *)
(* the system delivers the alarm.  A shutdown in the handler is not owed.  *)
Fairness == WF_vars(~signal /\ Step) /\ WF_vars(Exit2)

Spec     == Init /\ [][Next]_vars
FairSpec == Spec /\ Fairness

-----------------------------------------------------------------------------
(* Properties.                                                             *)

FileType == [bind: [Key -> Value], var: [Var -> Value \ Long]]

TypeOK ==
  /\ pc \in {"boot", "load", "run", "stop", "over"}
  /\ next \in 1 .. Len(BootOrder) + 1 /\ at \in 1 .. Len(StopOrder) + 1
  /\ up \subseteq Module
  /\ signal \in BOOLEAN /\ hung \in BOOLEAN /\ quit \in BOOLEAN
  /\ binds \in [Key -> Value]
  /\ cvars \in [Var -> [val: Value \ Long, save: BOOLEAN]]
  /\ changes \in Nat
  /\ file \in {"closed", "keyboard", "cvar"}
  /\ left \subseteq Line
  /\ read \in Nat
  /\ quotes \in BOOLEAN
  /\ disk \in Seq(Piece)
  /\ promise \in FileType /\ lost \subseteq Line

(* What the running or the shutdown of a module calls.                     *)
Needs(m) ==
  CASE m = "cvar"     -> IF next > 4 THEN {"fs"} ELSE {}
    [] m = "cmdbuf"   -> {"cmd"}
    [] m = "keyboard" -> {"cmd", "cmdbuf", "fs"}
    [] m = "mouse"    -> {"cvar"}
    [] m = "video"    -> {"cmd", "cvar", "keyboard", "mouse"}
    [] m = "gl"       -> {"cmd", "cvar", "video"}
    [] m = "r"        -> {"cmd", "cvar", "fs", "image", "gl"}
    [] m = "snd"      -> {"cmd", "cvar", "fs"}
    [] m = "g"        -> {"cmd", "cmdbuf", "cvar", "fs", "snd", "r", "video"}
    [] OTHER          -> {}

(* A module is up only while everything it calls is up, on the way up, on  *)
(* every way down, from wherever it began: so no shutdown, and no game     *)
(* code called by one, reaches a module already shut down, and both        *)
(* writers of config.cfg find the file system.                             *)
NeedsUp == \A m \in up: Needs(m) \subseteq up

(* The file says of a line what it was given last, or nothing: the last of *)
(* the pieces for that line is that value, whole unless it was too long.   *)
LastFor(d, i, l) == d[i].line = l /\ \A j \in DOMAIN d: j > i => d[j].line # l
Holds(d, l, v) ==
  IF v = NONE THEN \A i \in DOMAIN d: d[i].line # l
  ELSE \E i \in DOMAIN d: /\ LastFor(d, i, l)
                          /\ d[i].val = v
                          /\ d[i].whole <=> l[1] = "seta" \/ v \notin Long

(* After a stop the file says of every line what the stop owed, whichever  *)
(* of the two modules wrote it, but for the lines whose own write or open  *)
(* has failed, those of a stop that was cut short, and those that begin    *)
(* with the last letter.                                                   *)
Written ==
  pc = "over" => \A l \in Line \ (lost \cup Beyond): Holds(disk, l, Given(promise, l))

(* What damage in the file can reach.  A listed value behind a line that   *)
(* is not clear may be split, and what is behind its semicolon obeyed; one *)
(* in a line that is not clear itself too.                                 *)
ClearUpTo(d, i) == \A j \in 1 .. i: Clear(d, j)
Touched(d, l) ==
  \E j \in DOMAIN d: d[j].val \in Listed /\ ~ClearUpTo(d, j) /\ Rest[d[j].val][l] # NONE

(* A line survives if it is clear, is not a listed value behind damage,    *)
(* and is not set by one.  In a file without damage every line survives.   *)
Survives(d, l) ==
  /\ ~Touched(d, l)
  /\ \A i \in DOMAIN d: LastFor(d, i, l) =>
       Clear(d, i) /\ (d[i].val \in Listed => ClearUpTo(d, i))

InForce(l) == IF l[1] = "bind" THEN binds[l[2]] ELSE cvars[l[2]].val

(* The next start has every surviving setting back before the first frame, *)
(* through init functions that register variables the file has set.        *)
RoundTrip ==
  Loaded /\ pc = "boot" =>
    \A l \in Line \ (lost \cup Beyond):
      Survives(disk, l) /\ (l[1] = "seta" => Given(promise, l) # NONE)
      => InForce(l) = Given(promise, l)

(* A start that fails or is interrupted after it has read the file owes    *)
(* again what the last stop owed, but for variables whose owner does not   *)
(* have them saved.                                                        *)
FailedStartKeeps ==
  [][Loaded /\ pc = "boot" /\ pc' = "stop" =>
       \A l \in Line \ (lost \cup Beyond):
         /\ Survives(disk, l)
         /\ l[1] = "seta" => /\ Given(promise, l) # NONE
                             /\ Owner[l[2]] # NONE => Saved[l[2]]
         => Given(promise', l) = Given(promise, l)]_vars

(* Quitting, a failed start and a signal each end the process, even if a   *)
(* shutdown called from the handler hangs.                                 *)
StopEnds == (quit \/ signal \/ pc = "stop") ~> pc = "over"

=============================================================================
