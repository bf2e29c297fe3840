------------------------------- MODULE Tables -------------------------------
(***************************************************************************)
(* The tables of commands and of variables (src/src/cmd.c, src/src/cvar.c) *)
(* and what is kept with a variable: its string, the float made of it, the *)
(* limits of the float, and a callback that passes it on (s_volume's, in   *)
(* src/src/sound/snd.c).  Both tables have a sorted list per first letter. *)
(*                                                                         *)
(* A name may be set by a file or the user before the module that owns it  *)
(* registers it, and is then found and kept.  Names are numbers here, in   *)
(* the order of strcmp.  Left out: names that begin with z, whose list is  *)
(* behind the array; aliases, which no caller gives.                       *)
(***************************************************************************)
EXTENDS Integers, FiniteSets, SequencesExt, Shared

CONSTANTS
  Letter,     (* First letters.                                              *)
  Rest,       (* The rests of names, a set of numbers.                       *)
  MaxNames,   (* MAX_CMDS and MAX_CVARS.                                     *)
  Number,     (* Values, as the floats they are read as.                     *)
  Volume,     (* The name whose limits and callback are followed; the other  *)
              (* variables with limits have no callback.                     *)
  LoLimit, HiLimit    (* Its limits.                                         *)

Names == Letter \X Rest

ASSUME TablesAssumption ==
  /\ Rest \subseteq Nat /\ Number \subseteq Int /\ MaxNames \in Nat
  /\ Volume \in Names
  /\ LoLimit \in Int /\ HiLimit \in Int /\ LoLimit <= HiLimit

VARIABLES
  cmds,       (* The lists of the two tables, one per letter.                *)
  cvars,
  string,     (* Of a variable: the value given,                             *)
  float,      (* what c->f is,                                               *)
  asked,      (* History: the names given to a table that had room,          *)
  given,      (* and the value that was last set, by whoever made a variable *)
              (* or by a command.                                            *)
  sndInit,    (* snd_init: "not called", called but "off", or "up".          *)
  gain        (* What its callback has passed on.                            *)

tablesVars == <<cmds, cvars, string, float, asked, given, sndInit, gain>>

TablesInit ==
  /\ cmds = [l \in Letter |-> <<>>] /\ cvars = [l \in Letter |-> <<>>]
  /\ string = [n \in Names |-> 0] /\ float = [n \in Names |-> 0]
  /\ asked = [cmds |-> {}, vars |-> {}] /\ given = string
  /\ sndInit = "not called" /\ gain = 0

-----------------------------------------------------------------------------
(* The lists.                                                              *)

(* Fault: the new name goes to the end of the list.                        *)
PlacedLast(list, n) == Len(list) + 1

(* cmd_insert, cvar_insert: before the first name that is greater.         *)
Placed(list, n) ==
  LET greater == {i \in DOMAIN list: list[i][2] > n[2]}
  IN  IF greater = {} THEN Len(list) + 1 ELSE Min(greater)

Inserted(table, n) ==
  [table EXCEPT ![n[1]] = InsertAt(@, Placed(@, n), n)]

(* cmd_find, cvar_find: the search gives up at the first greater name.     *)
FoundIn(list, n) ==
  \E i \in DOMAIN list: list[i] = n /\ \A j \in 1..(i - 1): list[j][2] <= n[2]
IsIn(table, n) == FoundIn(table[n[1]], n)

Total(table) == FoldFunction(LAMBDA list, sum: Len(list) + sum, 0, table)
HasRoom(table) == Total(table) < MaxNames

-----------------------------------------------------------------------------
(* Commands.                                                               *)

(* cmd_register, by the engine or by game code: a name that is known, or   *)
(* one too many, is refused and changes nothing.                           *)
RegisterCmd(n) ==
  /\ ~IsIn(cmds, n) /\ HasRoom(cmds)
  /\ cmds' = Inserted(cmds, n)
  /\ asked' = [asked EXCEPT !.cmds = @ \cup {n}]
  /\ UNCHANGED <<cvars, string, float, given, sndInit, gain>>

-----------------------------------------------------------------------------
(* Variables.                                                              *)

AtLeast(v) == IF v < LoLimit THEN LoLimit ELSE v
AtMost(v)  == IF v > HiLimit THEN HiLimit ELSE v

(* cvar_set_min and then cvar_set_max, which set the variable again when   *)
(* its float f is outside.                                                 *)
WithMin(v) == IF v < LoLimit THEN AtLeast(v) ELSE v
WithMax(v, f) == IF f > HiLimit THEN AtMost(AtLeast(v)) ELSE f

(* cvar_set: what c->f becomes; the flags are set when sound has been      *)
(* initialized.                                                            *)
FloatOf(n, v) == IF n = Volume /\ sndInit # "not called" THEN AtMost(AtLeast(v)) ELSE v

(* Fault: the callback of a variable is called before its float is made.   *)
CalledFirst(n) == float[n]

(* The last thing cvar_set does is to call the callback.                   *)
CalledLast(n) == float'[n]

(* set_f for a variable that exists.                                       *)
SetCvar(n, v) ==
  /\ IsIn(cvars, n)
  /\ string' = [string EXCEPT ![n] = v]
  /\ float' = [float EXCEPT ![n] = FloatOf(n, v)]
  /\ given' = [given EXCEPT ![n] = v]
  /\ gain' = IF n = Volume /\ sndInit = "up" THEN CalledLast(n) ELSE gain
  /\ UNCHANGED <<cmds, cvars, asked, sndInit>>

(* Fault: the default of a module replaces what was set before.            *)
Overwritten(n, v) == [string EXCEPT ![n] = v]

(* cvar_get gives its value to a variable there was not, and sets one that *)
(* is there to the string it has.                                          *)
Kept(n, v) == IF IsIn(cvars, n) THEN string ELSE [string EXCEPT ![n] = v]

Gets(n, v) ==
  /\ IsIn(cvars, n) \/ HasRoom(cvars)
  /\ cvars' = IF IsIn(cvars, n) THEN cvars ELSE Inserted(cvars, n)
  /\ asked' = [asked EXCEPT !.vars = @ \cup {n}]
  /\ string' = Kept(n, v)
  /\ given' = IF IsIn(cvars, n) THEN given ELSE [given EXCEPT ![n] = v]
  /\ UNCHANGED cmds

(* cvar_get by set_f for a variable there is not, the volume's too, or by  *)
(* another module for a variable of its own.                               *)
GetCvar(n, v) ==
  /\ n # Volume \/ ~IsIn(cvars, n)
  /\ Gets(n, v)
  /\ float' = [float EXCEPT ![n] = string'[n]]
  /\ UNCHANGED <<sndInit, gain>>

(* snd_init: cvar_get, and cvar_set_min and cvar_set_max make the float    *)
(* again if it is outside.  With no room for its variable it writes        *)
(* through NULL.                                                           *)
SndInit(v, up) ==
  /\ sndInit = "not called"
  /\ Gets(Volume, v)
  /\ float' = [float EXCEPT ![Volume] = WithMax(string'[Volume], WithMin(string'[Volume]))]
  /\ sndInit' = IF up THEN "up" ELSE "off"
  /\ gain' = IF up THEN CalledLast(Volume) ELSE gain

TablesNext ==
  \/ \E n \in Names: RegisterCmd(n)
  \/ \E n \in Names, v \in Number: SetCvar(n, v)
  \/ \E n \in Names, v \in Number: GetCvar(n, v)
  \/ \E v \in Number, up \in BOOLEAN: LoLimit <= v /\ v <= HiLimit /\ SndInit(v, up)

TablesSpec == TablesInit /\ [][TablesNext]_tablesVars

-----------------------------------------------------------------------------
(* Properties.                                                             *)

Lists == [Letter -> Seq(Names)]

TablesType ==
  /\ cmds \in Lists /\ cvars \in Lists
  /\ string \in [Names -> Number \cup {0}] /\ given \in [Names -> Number \cup {0}] /\ float \in [Names -> Int]
  /\ asked \in [{"cmds", "vars"} -> SUBSET Names]
  /\ sndInit \in {"not called", "off", "up"} /\ gain \in Int

Keeps(table, names) ==
  \A n \in Names:
    /\ IsIn(table, n) <=> n \in names
    /\ Cardinality({i \in DOMAIN table[n[1]]: table[n[1]][i] = n}) = (IF n \in names THEN 1 ELSE 0)

(* Every name that was registered is found, for good and once, whatever    *)
(* order names come in: a command typed later reaches its function, and a  *)
(* setting read early is the variable that a module registers later.       *)
FindsAll == Keeps(cmds, asked.cmds) /\ Keeps(cvars, asked.vars)

(* What is heard is the volume as it is now and within its limits, also if *)
(* config.cfg has set it before anybody knew of limits or a callback.      *)
VolumeHeard ==
  sndInit = "up" => gain = float[Volume] /\ gain = AtMost(AtLeast(string[Volume]))

(* A variable has the value that was last set, by a file, by the user or   *)
(* by who made it: a module that registers it later, with a default of its *)
(* own, changes nothing.                                                   *)
SettingsHeld == \A n \in asked.vars: string[n] = given[n]

(* So no name and no setting is lost between those who register and those  *)
(* who set.                                                                *)
TablesKept == TablesType /\ FindsAll /\ SettingsHeld /\ VolumeHeard
=============================================================================
