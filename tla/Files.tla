------------------------------- MODULE Files --------------------------------
(***************************************************************************)
(* Search paths and open files (src/src/fs/fs.c).  fs_open tries the paths *)
(* in order: the user's directory of the game, the installed one and, for  *)
(* a game that is not the default one, the same two of the default game.   *)
(* Only the first may be written to.  Each path it tries is one step, as   *)
(* it may leave something behind and go on to the next one.                *)
(*                                                                         *)
(* A file's content is the last thing that was put into it.  Left out:     *)
(* fs_mkdir, fs_unlink and FS_RDWR, which nothing in the engine uses (the  *)
(* screenshot command returns before it does), and permissions.            *)
(***************************************************************************)
EXTENDS Integers, FiniteSets, Shared

CONSTANTS
  FileName,   (* Names.                                                      *)
  Saved,      (* Those that the engine writes: config.cfg.                   *)
  Content,    (* What is in files.                                           *)
  Slot,       (* The file_t that fit in fs_mempool.                          *)
  Desc        (* Descriptors that the system grants the process.             *)

ASSUME FilesAssumption ==
  /\ Saved \subseteq FileName
  /\ Content \cap {"none", "directory", "empty"} = {}

VARIABLES
  paths,      (* How many of the paths are valid: 2 or 4; never changes.     *)
  disk,       (* What a name is in each of the directories.                  *)
  files,      (* The open files: what is known of each, or NONE.             *)
  descs,      (* The descriptors in use.                                     *)
  try,        (* The fs_open under way: name, mode and the next path.        *)
  put         (* History: what the engine last put into a name, or "none".   *)

filesVars == <<paths, disk, files, descs, try, put>>

Mode    == {"rdonly", "wronly", "append"}
Regular == Content \cup {"empty"}
OpenFile == [name: FileName, mode: Mode, path: 1..4, desc: Desc]
NoTry   == [name |-> NONE, mode |-> "rdonly", path |-> 0]

FilesInit ==
  /\ paths \in {2, 4}
  /\ disk \in [1..4 -> [FileName -> Content \cup {"none", "directory"}]]
  /\ files = [s \in Slot |-> NONE] /\ descs = {}
  /\ try = NoTry
  /\ put = [n \in FileName |-> "none"]

-----------------------------------------------------------------------------

(* Fault: the installed directory comes before the user's.                 *)
InstalledFirst(i) == i # 2

(* fs_add_paths: which of the four are read-only.                          *)
ReadOnly(i) == i # 1

Here == disk[try.path][try.name]

(* The loop goes on.                                                       *)
NextPath == try' = [try EXCEPT !.path = @ + 1]

Trying == try # NoTry /\ try.path <= paths

(* fs_open.                                                                *)
Open(n, m) ==
  /\ try = NoTry
  /\ m # "rdonly" => n \in Saved
  /\ try' = [name |-> n, mode |-> m, path |-> 1]
  /\ UNCHANGED <<paths, disk, files, descs, put>>

(* A path that is not to be written to is skipped.                         *)
Skips(i, m) == ReadOnly(i) /\ m # "rdonly"

(* open fails: no such file, a directory to be written, no descriptor.     *)
CannotOpen ==
  \/ Here = "none" /\ try.mode = "rdonly"
  \/ Here = "directory" /\ try.mode # "rdonly"
  \/ descs = Desc

SkipPath ==
  /\ Trying
  /\ Skips(try.path, try.mode) \/ CannotOpen
  /\ NextPath
  /\ UNCHANGED <<paths, disk, files, descs, put>>

(* What open itself does to the file: O_CREAT, O_TRUNC.                    *)
Touched ==
  IF try.mode = "wronly" \/ (try.mode = "append" /\ Here = "none") THEN "empty" ELSE Here

OpenPath(d) ==
  /\ Trying
  /\ ~Skips(try.path, try.mode) /\ ~CannotOpen
  /\ d \in Desc \ descs
  /\ descs' = descs \cup {d}
  /\ disk' = [disk EXCEPT ![try.path][try.name] = Touched]
  /\ put' = IF try.mode = "rdonly" \/ Touched = Here THEN put ELSE [put EXCEPT ![try.name] = Touched]

(* Not a regular file, or no file_t: the descriptor is not closed, and the *)
(* next path is tried.                                                     *)
Full == \A s \in Slot: files[s] # NONE
LeavesOpen(d) ==
  /\ OpenPath(d)
  /\ Here = "directory" \/ Full
  /\ NextPath
  /\ UNCHANGED <<paths, files>>

Opens(d, s) ==
  /\ OpenPath(d)
  /\ Here # "directory" /\ files[s] = NONE
  /\ files' = [files EXCEPT ![s] =
                 [name |-> try.name, mode |-> try.mode, path |-> try.path, desc |-> d]]
  /\ try' = NoTry
  /\ UNCHANGED paths

(* No path is left: fs_open returns NULL.                                  *)
OpenFails ==
  /\ try # NoTry /\ try.path > paths
  /\ try' = NoTry
  /\ UNCHANGED <<paths, disk, files, descs, put>>

(* fs_write.                                                               *)
Write(s, c) ==
  /\ try = NoTry
  /\ files[s] # NONE /\ files[s].mode # "rdonly"
  /\ disk' = [disk EXCEPT ![files[s].path][files[s].name] = c]
  /\ put' = [put EXCEPT ![files[s].name] = c]
  /\ UNCHANGED <<paths, files, descs, try>>

(* fs_close.                                                               *)
CloseFile(s) ==
  /\ try = NoTry /\ files[s] # NONE
  /\ descs' = descs \ {files[s].desc}
  /\ files' = [files EXCEPT ![s] = NONE]
  /\ UNCHANGED <<paths, disk, try, put>>

FilesNext ==
  \/ \E n \in FileName, m \in Mode: Open(n, m)
  \/ SkipPath
  \/ \E d \in Desc: LeavesOpen(d)
  \/ \E d \in Desc, s \in Slot: Opens(d, s)
  \/ OpenFails
  \/ \E s \in Slot, c \in Content: Write(s, c)
  \/ \E s \in Slot: CloseFile(s)

FilesSpec == FilesInit /\ [][FilesNext]_filesVars

-----------------------------------------------------------------------------
(* Properties.                                                             *)

FilesType ==
  /\ paths \in {2, 4}
  /\ disk \in [1..4 -> [FileName -> Regular \cup {"none", "directory"}]]
  /\ files \in [Slot -> OpenFile \cup {NONE}] /\ descs \subseteq Desc
  /\ try \in [name: FileName \cup {NONE}, mode: Mode, path: 0..5]
  /\ put \in [FileName -> Regular \cup {"none"}]

IsOpen(s) == files[s] # NONE

(* What the engine has saved is what it reads: a file opened for reading   *)
(* is the first regular one along the paths, which is what was last put    *)
(* into that name, if anything was; no other path hides it, however many   *)
(* opens in between have failed half-way.                                  *)
ReadsSaved ==
  [][\A s \in Slot: ~IsOpen(s) /\ IsOpen(s)' /\ files'[s].mode = "rdonly" =>
       LET n == files'[s].name IN
         /\ put[n] # "none" => disk[files'[s].path][n] = put[n]
         /\ \A i \in 1..(files'[s].path - 1): disk[i][n] \notin Regular]_filesVars
=============================================================================
