---------------------------- MODULE EngineProofs ----------------------------
(* Proofs about Engine: the orders of the way up and of the way down, and  *)
(* what config.cfg keeps from one process to the next.                     *)
EXTENDS Engine, TLAPS

(* The places of a module in the two orders.                               *)
BootAt(m) ==
  CASE m = "cvar" -> 1 [] m = "cmd" -> 2 [] m = "cmdbuf" -> 3 [] m = "fs" -> 4
    [] m = "keyboard" -> 5 [] m = "mouse" -> 6 [] m = "image" -> 7 [] m = "video" -> 8
    [] m = "gl" -> 9 [] m = "r" -> 10 [] m = "snd" -> 11 [] m = "g" -> 12
StopAt(m) ==
  CASE m = "g" -> 1 [] m = "snd" -> 2 [] m = "r" -> 3 [] m = "gl" -> 4
    [] m = "video" -> 5 [] m = "mouse" -> 6 [] m = "keyboard" -> 7 [] m = "image" -> 8
    [] m = "cvar" -> 9 [] m = "cmdbuf" -> 10 [] m = "cmd" -> 11 [] m = "fs" -> 12

-----------------------------------------------------------------------------
(* The inductive invariant.                                                *)

(* The modules that are up are those the way up has reached and the way    *)
(* down has not.                                                           *)
UpAsOrdered == \A m \in Module: m \in up <=> BootAt(m) < next /\ at <= StopAt(m)

Phases ==
  /\ pc # "stop" => at = 1 /\ file = "closed"
  /\ pc = "over" => next = 1
  /\ pc = "load" => next = ConfigAfter
  /\ pc \in {"boot", "over"} => read = 0 /\ ~quotes
  /\ pc = "run" => next = 13
  /\ file # "closed" => at <= 12 /\ file = Current /\ file \in up /\ left \subseteq ToWrite

(* Before the file is read there are no settings.                          *)
NothingYet == next < ConfigAfter => binds = Empty.bind /\ cvars = Unregistered

(* The lines that a stop answers for.                                      *)
Kept == Line \ (lost \cup Beyond)

(* The line is as it is going to be: a variable that is not saved is from  *)
(* the moment at which the file is emptied.                                *)
DoneWith(l) ==
  IF l[1] = "bind"
  THEN at > 7 \/ (at = 7 /\ file # "closed" /\ l \notin left)
  ELSE \/ at > 9
       \/ at = 9 /\ file # "closed" /\ l \notin left
       \/ (at \in 8 .. 9 \/ (at = 7 /\ file # "closed")) /\ Given(Settings, l) = NONE

(* How far the file has come to be the promise during a stop.              *)
HalfWritten ==
  \A l \in Kept: /\ Given(promise, l) = Given(Settings, l)
                 /\ DoneWith(l) => Holds(disk, l, Given(promise, l))

AllWritten == \A l \in Kept: Holds(disk, l, Given(promise, l))

OnDisk == IF pc = "stop" /\ next >= ConfigAfter THEN HalfWritten ELSE AllWritten

(* The lines that come back.                                               *)
Coming(l) == Survives(disk, l) /\ (l[1] = "seta" => Given(promise, l) # NONE)

(* How far the promise has come back while the file is being read.         *)
HalfRead ==
  pc = "load" =>
    /\ ClearUpTo(disk, read) => ~quotes
    /\ \A l \in Kept: Coming(l) =>
         /\ (\A i \in DOMAIN disk: LastFor(disk, i, l) => i <= read) =>
              InForce(l) = Given(promise, l)
         /\ l[1] = "seta" /\ InForce(l) # NONE => cvars[l[2]].save

(* What has come back stays until the boot is over, and stays saved.       *)
ReadBack ==
  pc = "boot" /\ next >= ConfigAfter =>
    \A l \in Kept: Coming(l) =>
      /\ InForce(l) = Given(promise, l)
      /\ l[1] = "seta" /\ (Owner[l[2]] # NONE => Saved[l[2]]) => cvars[l[2]].save

IInv == TypeOK /\ UpAsOrdered /\ Phases /\ NothingYet /\ OnDisk /\ HalfRead /\ ReadBack

-----------------------------------------------------------------------------
(* The two orders.                                                         *)

(* What the two orders and the two tables of places say.                   *)
LEMMA Orders ==
  /\ Len(BootOrder) = 12 /\ Len(StopOrder) = 12
  /\ BootOrder[1] = "cvar" /\ BootOrder[2] = "cmd" /\ BootOrder[3] = "cmdbuf"
  /\ BootOrder[4] = "fs" /\ BootOrder[5] = "keyboard" /\ BootOrder[6] = "mouse"
  /\ BootOrder[7] = "image" /\ BootOrder[8] = "video" /\ BootOrder[9] = "gl"
  /\ BootOrder[10] = "r" /\ BootOrder[11] = "snd" /\ BootOrder[12] = "g"
  /\ StopOrder[1] = "g" /\ StopOrder[2] = "snd" /\ StopOrder[3] = "r"
  /\ StopOrder[4] = "gl" /\ StopOrder[5] = "video" /\ StopOrder[6] = "mouse"
  /\ StopOrder[7] = "keyboard" /\ StopOrder[8] = "image" /\ StopOrder[9] = "cvar"
  /\ StopOrder[10] = "cmdbuf" /\ StopOrder[11] = "cmd" /\ StopOrder[12] = "fs"
BY DEF BootOrder, StopOrder

LEMMA Tables ==
  /\ BootAt("cvar") = 1 /\ BootAt("cmd") = 2 /\ BootAt("cmdbuf") = 3
  /\ BootAt("fs") = 4 /\ BootAt("keyboard") = 5 /\ BootAt("mouse") = 6
  /\ BootAt("image") = 7 /\ BootAt("video") = 8 /\ BootAt("gl") = 9
  /\ BootAt("r") = 10 /\ BootAt("snd") = 11 /\ BootAt("g") = 12
  /\ StopAt("g") = 1 /\ StopAt("snd") = 2 /\ StopAt("r") = 3
  /\ StopAt("gl") = 4 /\ StopAt("video") = 5 /\ StopAt("mouse") = 6
  /\ StopAt("keyboard") = 7 /\ StopAt("image") = 8 /\ StopAt("cvar") = 9
  /\ StopAt("cmdbuf") = 10 /\ StopAt("cmd") = 11 /\ StopAt("fs") = 12
BY DEF BootAt, StopAt

LEMMA Modules ==
  /\ Module = {"cvar", "cmd", "cmdbuf", "fs", "keyboard", "mouse", "image", "video",
               "gl", "r", "snd", "g"}
  /\ \A i \in 1 .. 12: BootOrder[i] \in Module /\ StopOrder[i] \in Module
<1>1. DOMAIN BootOrder = 1 .. 12
  BY DEF BootOrder
<1>2. \A i \in 1 .. 12: \/ i = 1 \/ i = 2 \/ i = 3 \/ i = 4 \/ i = 5 \/ i = 6
                       \/ i = 7 \/ i = 8 \/ i = 9 \/ i = 10 \/ i = 11 \/ i = 12
  OBVIOUS
<1>3. Module = {"cvar", "cmd", "cmdbuf", "fs", "keyboard", "mouse", "image", "video",
                "gl", "r", "snd", "g"}
  BY <1>1, <1>2, Orders DEF Module
<1> QED
  BY <1>2, <1>3, Orders

(* Both orders name every module once, at its place.                       *)
LEMMA Places ==
  /\ \A i \in 1 .. 12: BootAt(BootOrder[i]) = i /\ StopAt(StopOrder[i]) = i
  /\ \A m \in Module: BootAt(m) \in 1 .. 12 /\ BootOrder[BootAt(m)] = m
  /\ \A m \in Module: StopAt(m) \in 1 .. 12 /\ StopOrder[StopAt(m)] = m
<1>1. ASSUME NEW i \in 1 .. 12 PROVE BootAt(BootOrder[i]) = i /\ StopAt(StopOrder[i]) = i
  <2>1. \/ i = 1 \/ i = 2 \/ i = 3 \/ i = 4 \/ i = 5 \/ i = 6
        \/ i = 7 \/ i = 8 \/ i = 9 \/ i = 10 \/ i = 11 \/ i = 12
    OBVIOUS
  <2> QED
    BY <2>1, Orders, Tables
<1>2. ASSUME NEW m \in Module
      PROVE  BootAt(m) \in 1 .. 12 /\ BootOrder[BootAt(m)] = m
  BY Modules, Orders, Tables
<1>3. ASSUME NEW m \in Module
      PROVE  StopAt(m) \in 1 .. 12 /\ StopOrder[StopAt(m)] = m
  BY Modules, Orders, Tables
<1> QED
  BY <1>1, <1>2, <1>3

(* No module up to the keyboard registers a variable that is modelled.     *)
LEMMA EarlyOwnsNothing ==
  ASSUME NEW i \in 1 .. 5, NEW x \in Var
  PROVE  Owner[x] # BootOrder[i]
<1>1. i = 1 \/ i = 2 \/ i = 3 \/ i = 4 \/ i = 5
  OBVIOUS
<1>2. BootOrder[i] \notin Late
  BY <1>1, Orders DEF Late
<1>3. BootOrder[i] # NONE
  BY Modules, NoneAssumption
<1> QED
  BY <1>2, <1>3, OwnerAssumption

-----------------------------------------------------------------------------
(* Lines, and what the settings and the registration of variables are.     *)

USE DEF process, settings, stopping, reading, history, memory

CvarsType == [Var -> [val: Value \ Long, save: BOOLEAN]]

LEMMA LineParts ==
  ASSUME NEW l \in Line
  PROVE  \/ l[1] = "bind" /\ l[2] \in Key /\ l = <<"bind", l[2]>> /\ l[1] # "seta"
         \/ l[1] = "seta" /\ l[2] \in Var /\ l = <<"seta", l[2]>> /\ l[1] # "bind"
BY DEF Line

LEMMA LinesMade ==
  /\ \A k \in Key: <<"bind", k>> \in Line /\ <<"bind", k>>[1] = "bind" /\ <<"bind", k>>[2] = k
  /\ \A x \in Var: <<"seta", x>> \in Line /\ <<"seta", x>>[1] = "seta" /\ <<"seta", x>>[2] = x
BY DEF Line

LEMMA EmptyType == Empty \in FileType /\ Empty.bind \in [Key -> Value]
<1>1. NONE \in Value \ Long
  BY ValAssumption DEF Value
<1> QED
  BY <1>1 DEF Empty, FileType

LEMMA UnregisteredType == Unregistered \in CvarsType
<1>1. NONE \in Value \ Long
  BY ValAssumption DEF Value
<1> QED
  BY <1>1 DEF Unregistered, CvarsType

LEMMA SettingsType ==
  ASSUME NEW b \in [Key -> Value], NEW c \in CvarsType
  PROVE  /\ SettingsOf(b, c) \in FileType
         /\ SettingsOf(b, c).bind = b
         /\ \A x \in Var: SettingsOf(b, c).var[x] = IF c[x].save THEN c[x].val ELSE NONE
<1>1. NONE \in Value \ Long
  BY ValAssumption DEF Value
<1> QED
  BY <1>1 DEF SettingsOf, FileType, CvarsType

LEMMA GivenType ==
  ASSUME NEW f \in FileType, NEW l \in Line
  PROVE  Given(f, l) \in Value /\ (l[1] = "seta" => Given(f, l) \notin Long)
BY LineParts DEF Given, FileType

LEMMA InVarType == \A v \in Val: InVar(v) \in Value \ Long /\ InVar(v) # NONE
BY ValAssumption DEF InVar, Value

LEMMA RegisteredType ==
  ASSUME TypeOK, NEW m \in Module
  PROVE  /\ Registered(m) \in CvarsType
         /\ \A x \in Var: /\ Owner[x] # m => Registered(m)[x] = cvars[x]
                          /\ Owner[x] = m => Registered(m)[x].save = Saved[x]
                          /\ cvars[x].val # NONE => Registered(m)[x].val = cvars[x].val
BY OwnerAssumption DEF TypeOK, Registered, RegisteredValue, Value, CvarsType

(* A module of the way up that has failed or is early owns nothing new.    *)
LEMMA EarlyRegistersNothing ==
  ASSUME TypeOK, NEW i \in 1 .. 5, cvars = Unregistered
  PROVE  Registered(BootOrder[i]) = Unregistered
<1>1. \A x \in Var: Owner[x] # BootOrder[i]
  BY EarlyOwnsNothing
<1> QED
  BY <1>1 DEF Registered, Unregistered

-----------------------------------------------------------------------------
(* What a file says of a line.                                             *)

LEMMA HoldsEmpty == \A l \in Line: Holds(<<>>, l, NONE)
BY DEF Holds

(* A piece for another line changes nothing for this one.                  *)
LEMMA AppendOther ==
  ASSUME NEW d \in Seq(Piece), NEW p \in Piece, NEW l \in Line, NEW v \in Value,
         p.line # l, Holds(d, l, v)
  PROVE  Holds(Append(d, p), l, v)
<1> DEFINE e == Append(d, p)
<1>1. /\ DOMAIN d = 1 .. Len(d) /\ DOMAIN e = 1 .. Len(d) + 1 /\ Len(d) \in Nat
      /\ e[Len(d) + 1] = p /\ \A i \in 1 .. Len(d): e[i] = d[i]
  OBVIOUS
<1>2. CASE v = NONE
  BY <1>1, <1>2 DEF Holds
<1>3. CASE v # NONE
  <2>1. PICK i \in DOMAIN d: /\ LastFor(d, i, l) /\ d[i].val = v
                             /\ d[i].whole <=> l[1] = "seta" \/ v \notin Long
    BY <1>3 DEF Holds
  <2>2. i \in DOMAIN e /\ e[i] = d[i] /\ i \in Nat
    BY <1>1, <2>1
  <2>3. LastFor(e, i, l)
    <3>1. e[i].line = l
      BY <2>1, <2>2 DEF LastFor
    <3>2. ASSUME NEW j \in DOMAIN e, j > i PROVE e[j].line # l
      <4>1. CASE j = Len(d) + 1
        BY <1>1, <4>1
      <4>2. CASE j # Len(d) + 1
        <5>1. j \in DOMAIN d /\ e[j] = d[j]
          BY <1>1, <4>2
        <5> QED
          BY <2>1, <3>2, <5>1 DEF LastFor
      <4> QED
        BY <4>1, <4>2
    <3> QED
      BY <3>1, <3>2 DEF LastFor
  <2>4. e[i].val = v /\ (e[i].whole <=> l[1] = "seta" \/ v \notin Long)
    BY <2>1, <2>2
  <2> QED
    BY <1>3, <2>2, <2>3, <2>4 DEF Holds
<1> QED
  BY <1>2, <1>3

LEMMA AppendOwn ==
  ASSUME NEW d \in Seq(Piece), NEW p \in Piece, NEW l \in Line, NEW v \in Val,
         p.line = l, p.val = v, p.whole <=> l[1] = "seta" \/ v \notin Long
  PROVE  Holds(Append(d, p), l, v)
<1> DEFINE e == Append(d, p)
           n == Len(d) + 1
<1>1. n \in Nat /\ DOMAIN e = 1 .. n /\ e[n] = p
  OBVIOUS
<1>2. n \in DOMAIN e /\ LastFor(e, n, l)
  BY <1>1 DEF LastFor
<1>3. v # NONE
  BY ValAssumption
<1>4. e[n].val = v /\ (e[n].whole <=> l[1] = "seta" \/ v \notin Long)
  BY <1>1
<1> HIDE DEF e, n
<1>5. Holds(e, l, v)
  BY <1>2, <1>3, <1>4 DEF Holds
<1> QED
  BY <1>5 DEF e

(* In a file without damage every line survives.                           *)
LEMMA CleanSurvives ==
  ASSUME NEW d \in Seq(Piece), \A i \in DOMAIN d: Clear(d, i), NEW l \in Line
  PROVE  Survives(d, l)
<1>1. \A i \in DOMAIN d: ClearUpTo(d, i)
  BY DEF ClearUpTo
<1> QED
  BY <1>1 DEF Survives, Touched

-----------------------------------------------------------------------------
(* The initial state.                                                      *)

LEMMA InitInv == Init => IInv
<1> SUFFICES ASSUME Init PROVE IInv
  OBVIOUS
<1>1. TypeOK
  <2>1. next \in 1 .. Len(BootOrder) + 1 /\ at \in 1 .. Len(StopOrder) + 1
    BY Orders DEF Init
  <2>2. cvars \in [Var -> [val: Value \ Long, save: BOOLEAN]]
    BY UnregisteredType DEF Init, CvarsType
  <2>3. disk \in Seq(Piece) /\ read \in Nat /\ changes \in Nat
    BY DEF Init
  <2>4. promise \in FileType /\ binds \in [Key -> Value] /\ lost \subseteq Line /\ left \subseteq Line
    BY EmptyType DEF Init
  <2> QED
    BY <2>1, <2>2, <2>3, <2>4 DEF Init, TypeOK
<1>2. UpAsOrdered
  BY Places DEF Init, UpAsOrdered
<1>3. Phases /\ NothingYet /\ HalfRead
  BY DEF Init, Phases, NothingYet, HalfRead, ConfigAfter
<1>4. OnDisk
  <2>1. \A l \in Line: Given(Empty, l) = NONE
    BY LineParts DEF Given, Empty
  <2>2. AllWritten
    BY <2>1, HoldsEmpty DEF Init, AllWritten, Kept
  <2> QED
    BY <2>2 DEF Init, OnDisk
<1>5. ReadBack
  BY DEF Init, ReadBack, ConfigAfter
<1> QED
  BY <1>1, <1>2, <1>3, <1>4, <1>5 DEF IInv

-----------------------------------------------------------------------------
(* The way up keeps the invariant.                                         *)

LEMMA InitModuleKeeps == IInv /\ InitModule => IInv'
<1> SUFFICES ASSUME IInv, InitModule PROVE IInv'
  OBVIOUS
<1> DEFINE m == BootOrder[next]
<1>1. next \in 1 .. 12 /\ m \in Module /\ at = 1 /\ file = "closed" /\ pc = "boot"
  BY Orders, Modules DEF IInv, TypeOK, InitModule, Phases
<1>2. cvars' = Registered(m) /\ cvars' \in CvarsType
  BY <1>1, RegisteredType DEF InitModule, IInv
<1>a. \A x \in Var: Owner[x] # m => cvars'[x] = cvars[x]
  BY <1>1, <1>2, RegisteredType DEF IInv
<1>b. \A x \in Var: Owner[x] = m => cvars'[x].save = Saved[x]
  BY <1>1, <1>2, RegisteredType DEF IInv
<1>c. \A x \in Var: cvars[x].val # NONE => cvars'[x].val = cvars[x].val
  BY <1>1, <1>2, RegisteredType DEF IInv
<1>3. TypeOK'
  BY <1>1, <1>2, Orders DEF IInv, TypeOK, InitModule, CvarsType
<1>4. UpAsOrdered'
  <2> SUFFICES ASSUME NEW n \in Module
               PROVE  n \in up' <=> BootAt(n) < next' /\ at' <= StopAt(n)
    BY DEF UpAsOrdered
  <2>1. n \in up <=> BootAt(n) < next /\ at <= StopAt(n)
    BY DEF IInv, UpAsOrdered
  <2>2. n \in up' <=> n \in up \/ n = m
    BY DEF InitModule
  <2>3. n = m <=> BootAt(n) = next
    BY <1>1, Places
  <2>4. BootAt(n) \in 1 .. 12 /\ StopAt(n) \in 1 .. 12 /\ next' = next + 1 /\ at' = 1
    BY <1>1, Places DEF InitModule
  <2> QED
    BY <1>1, <2>1, <2>2, <2>3, <2>4
<1>5. Phases'
  BY <1>1 DEF IInv, Phases, InitModule, ConfigAfter
<1>6. NothingYet'
  <2> SUFFICES ASSUME next' < 6
               PROVE  binds' = Empty.bind /\ cvars' = Unregistered
    BY DEF NothingYet, ConfigAfter
  <2>1. next \in 1 .. 5
    BY <1>1 DEF InitModule
  <2>2. binds = Empty.bind /\ cvars = Unregistered
    BY <2>1 DEF IInv, NothingYet, ConfigAfter
  <2> QED
    BY <2>1, <2>2, EarlyRegistersNothing DEF InitModule, IInv
<1>7. AllWritten /\ AllWritten' /\ OnDisk'
  BY <1>1 DEF IInv, OnDisk, InitModule, AllWritten, Kept
<1>8. HalfRead'
  <2> SUFFICES ASSUME pc' = "load" PROVE HalfRead'
    BY DEF HalfRead, InitModule
  <2>1. next = 5 /\ read' = 0 /\ ~quotes'
    BY <1>1 DEF IInv, Phases, InitModule, ConfigAfter
  <2>2. binds' = Empty.bind /\ cvars' = Unregistered
    BY <2>1, EarlyRegistersNothing DEF InitModule, IInv, NothingYet, ConfigAfter
  <2>3. \A l \in Line: InForce(l)' = NONE
    BY <2>2, LineParts DEF InForce, Empty, Unregistered
  <2>4. ASSUME NEW l \in Kept', \A i \in DOMAIN disk': LastFor(disk', i, l) => i <= read'
        PROVE  Given(promise', l) = NONE
    <3>1. disk' = disk /\ l \in Line
      BY DEF InitModule, Kept
    <3>2. Holds(disk, l, Given(promise', l))
      BY <1>7, <3>1 DEF AllWritten
    <3>3. \A i \in DOMAIN disk: i > 0
      BY DEF IInv, TypeOK
    <3>4. \A i \in DOMAIN disk: ~LastFor(disk, i, l)
      BY <2>1, <2>4, <3>1, <3>3 DEF IInv, TypeOK
    <3> QED
      BY <3>2, <3>4 DEF Holds
  <2>5. Kept' \subseteq Line
    BY DEF Kept
  <2> QED
    BY <2>1, <2>3, <2>4, <2>5 DEF HalfRead
<1>9. ReadBack'
  <2> SUFFICES ASSUME pc' = "boot", next' >= 6 PROVE ReadBack'
    BY DEF ReadBack, InitModule, ConfigAfter
  <2>1. next >= 6
    BY <1>1 DEF InitModule, ConfigAfter
  <2>2. Owner \in [Var -> Late \cup {NONE}] /\ m # NONE
    BY <1>1, OwnerAssumption, NoneAssumption
  <2>3. binds' = binds /\ promise' = promise /\ disk' = disk /\ lost' = lost /\ Kept' = Kept
    BY DEF InitModule, Kept
  <2> SUFFICES ASSUME NEW l \in Kept, Coming(l)
               PROVE  /\ InForce(l)' = Given(promise, l)
                      /\ l[1] = "seta" /\ (Owner[l[2]] # NONE => Saved[l[2]]) => cvars'[l[2]].save
    BY <2>3 DEF ReadBack, Coming
  <2>4. /\ InForce(l) = Given(promise, l)
        /\ l[1] = "seta" /\ (Owner[l[2]] # NONE => Saved[l[2]]) => cvars[l[2]].save
    BY <1>1, <2>1 DEF IInv, ReadBack, ConfigAfter
  <2>5. CASE l[1] = "bind"
    BY <2>3, <2>4, <2>5 DEF InForce
  <2>6. CASE l[1] = "seta"
    <3> DEFINE x == l[2]
    <3>1. x \in Var /\ l[1] # "bind"
      BY <2>6, LineParts DEF Kept
    <3>2. cvars[x].val = Given(promise, l) /\ Given(promise, l) # NONE
      BY <2>4, <2>6, <3>1 DEF InForce, Coming
    <3>3. cvars'[x].val = cvars[x].val
      BY <1>c, <3>1, <3>2
    <3>4. (Owner[x] # NONE => Saved[x]) => cvars'[x].save
      <4>1. CASE Owner[x] = m
        BY <1>b, <2>2, <3>1, <4>1
      <4>2. CASE Owner[x] # m
        <5>1. cvars'[x] = cvars[x]
          BY <1>a, <3>1, <4>2
        <5> QED
          BY <2>4, <2>6, <5>1
      <4> QED
        BY <4>1, <4>2
    <3> QED
      BY <3>1, <3>2, <3>3, <3>4 DEF InForce
  <2> QED
    BY <2>5, <2>6, LineParts DEF Kept
<1> QED
  BY <1>3, <1>4, <1>5, <1>6, <1>7, <1>8, <1>9 DEF IInv

LEMMA LastIsClear ==
  ASSUME NEW d \in Seq(Piece), NEW n \in DOMAIN d, ClearUpTo(d, n)
  PROVE  Clear(d, n) /\ ClearUpTo(d, n - 1)
BY DEF ClearUpTo

(* What a surviving line is given when its last piece is executed, and that *)
(* no other piece, and no command behind a semicolon, gives it anything.   *)
LEMMA OthersSpareIt ==
  ASSUME NEW d \in Seq(Piece), NEW n \in DOMAIN d, NEW l \in Line, ~Touched(d, l),
         ClearUpTo(d, n) => ~quotes,
         NEW g \in Behind(d[n], Clear(d, n))
  PROVE  g[l] = NONE
<1>1. Nothing[l] = NONE
  BY DEF Nothing
<1>2. CASE d[n].val \notin Listed
  BY <1>1, <1>2 DEF Behind
<1>3. CASE d[n].val \in Listed /\ Clear(d, n) /\ ~Split(d[n].val)
  BY <1>1, <1>3 DEF Behind
<1>4. CASE d[n].val \in Listed /\ Clear(d, n) /\ Split(d[n].val)
  <2>1. g = Rest[d[n].val]
    BY <1>4 DEF Behind
  <2>2. ~ClearUpTo(d, n)
    BY <1>4 DEF Split
  <2> QED
    BY <1>4, <2>1, <2>2 DEF Touched
<1>5. CASE d[n].val \in Listed /\ ~Clear(d, n)
  <2>1. g \in Parts(Rest[d[n].val])
    BY <1>5 DEF Behind
  <2>2. CASE Rest[d[n].val][l] = NONE
    BY <2>1, <2>2 DEF Parts
  <2>3. CASE Rest[d[n].val][l] # NONE
    <3>1. d[n].val \in Listed /\ ~Clear(d, n)
      BY <1>5
    <3>2. ASSUME ClearUpTo(d, n) PROVE FALSE
      BY <3>1, <3>2, LastIsClear
    <3> QED
      BY <2>3, <3>1, <3>2 DEF Touched
  <2> QED
    BY <2>2, <2>3
<1> QED
  BY <1>2, <1>3, <1>4, <1>5

(* The values that the commands of a line may be given.                    *)
LEMMA HeardType ==
  ASSUME NEW p \in Piece, NEW clear \in BOOLEAN
  PROVE  /\ Heard(p, clear) \subseteq Value
         /\ Behind(p, clear) \subseteq [Line -> Value]
<1>1. p.val \in Val /\ NONE \in Value /\ Val \subseteq Value
  BY DEF Piece, Value
<1>2. Heard(p, clear) \subseteq Value
  BY <1>1, ValAssumption DEF Heard, Value
<1>3. Nothing \in [Line -> Value]
  BY <1>1 DEF Nothing
<1>4. \A f: Parts(f) \subseteq [Line -> Value]
  BY DEF Parts
<1>5. p.val \in Listed => Rest[p.val] \in [Line -> Value]
  BY LineAssumption
<1>6. CASE p.val \notin Listed
  BY <1>2, <1>3, <1>6 DEF Behind
<1>7. CASE p.val \in Listed
  <2>1. Parts(Rest[p.val]) \subseteq [Line -> Value] /\ {Rest[p.val]} \subseteq [Line -> Value]
    BY <1>4, <1>5, <1>7
  <2>2. {Nothing} \subseteq [Line -> Value]
    BY <1>3
  <2> QED
    BY <1>2, <1>7, <2>1, <2>2 DEF Behind
<1> QED
  BY <1>2, <1>6, <1>7

LEMMA ExecuteLineKeeps == IInv /\ ExecuteLine => IInv'
<1> SUFFICES ASSUME IInv, ExecuteLine PROVE IInv'
  OBVIOUS
<1> DEFINE n == read + 1
           p == disk[n]
           clear == Clear(disk, n)
<1>1. /\ pc = "load" /\ pc' = pc /\ next = 6 /\ read \in Nat /\ read' = n
      /\ disk \in Seq(Piece) /\ n \in DOMAIN disk /\ p \in Piece /\ n \in 1 .. Len(disk)
      /\ DOMAIN disk = 1 .. Len(disk)
  BY DEF ExecuteLine, IInv, TypeOK, Phases, ConfigAfter
<1>u. UNCHANGED <<pc, process, changes, stopping, signal, hung, disk, history>>
  BY DEF ExecuteLine
<1>2. PICK v \in Heard(p, clear), g \in Behind(p, clear), saved \in BOOLEAN:
         /\ quotes' \in IF clear THEN {quotes} ELSE BOOLEAN
         /\ quit' \in IF g = Nothing THEN {quit} ELSE {quit, TRUE}
         /\ binds' = [k \in Key |->
              CASE g[<<"bind", k>>] # NONE -> g[<<"bind", k>>]
                [] g[<<"bind", k>>] = NONE /\ p.line = <<"bind", k>> /\ v # NONE -> v
                [] OTHER -> binds[k]]
         /\ cvars' = [x \in Var |->
              CASE g[<<"seta", x>>] # NONE ->
                     [FromFile(x, g[<<"seta", x>>]) EXCEPT !.save = IF cvars[x].val = NONE THEN saved ELSE @]
                [] g[<<"seta", x>>] = NONE /\ p.line = <<"seta", x>> /\ v # NONE -> FromFile(x, v)
                [] OTHER -> cvars[x]]
  BY DEF ExecuteLine
<1> HIDE DEF p, clear, n
<1>3. clear \in BOOLEAN /\ v \in Value /\ g \in [Line -> Value]
  <2>1. clear \in BOOLEAN
    BY DEF clear, Clear
  <2> QED
    BY <1>1, <1>2, <2>1, HeardType
<1>4. TypeOK'
  <2>1. binds' \in [Key -> Value]
    <3> SUFFICES ASSUME NEW k \in Key PROVE binds'[k] \in Value
      BY <1>2
    <3>1. binds[k] \in Value /\ g[<<"bind", k>>] \in Value
      BY <1>3, LinesMade DEF IInv, TypeOK
    <3> QED
      BY <1>2, <1>3, <3>1
  <2>2. \A x \in Var, w \in Value: w # NONE => FromFile(x, w) \in [val: Value \ Long, save: BOOLEAN]
    BY InVarType DEF FromFile, Value, IInv, TypeOK
  <2>3. cvars' \in [Var -> [val: Value \ Long, save: BOOLEAN]]
    <3> SUFFICES ASSUME NEW x \in Var PROVE cvars'[x] \in [val: Value \ Long, save: BOOLEAN]
      BY <1>2
    <3>1. cvars[x] \in [val: Value \ Long, save: BOOLEAN] /\ g[<<"seta", x>>] \in Value
      BY <1>3, LinesMade DEF IInv, TypeOK
    <3>2. CASE g[<<"seta", x>>] # NONE
      BY <1>2, <2>2, <3>1, <3>2
    <3>3. CASE g[<<"seta", x>>] = NONE /\ p.line = <<"seta", x>> /\ v # NONE
      BY <1>2, <1>3, <2>2, <3>3
    <3>4. CASE ~(g[<<"seta", x>>] # NONE) /\ ~(g[<<"seta", x>>] = NONE /\ p.line = <<"seta", x>> /\ v # NONE)
      BY <1>2, <3>1, <3>4
    <3> QED
      BY <3>2, <3>3, <3>4
  <2>4. quotes' \in BOOLEAN
    BY <1>2, <1>3 DEF IInv, TypeOK
  <2>5. quit' \in BOOLEAN
    BY <1>2 DEF IInv, TypeOK
  <2>6. read' \in Nat
    BY <1>1 DEF n
  <2> QED
    BY <1>u, <2>1, <2>3, <2>4, <2>5, <2>6 DEF IInv, TypeOK
<1>5. UpAsOrdered' /\ Phases' /\ NothingYet' /\ ReadBack'
  BY <1>1, <1>u DEF IInv, UpAsOrdered, Phases, NothingYet, ReadBack, ConfigAfter
<1>6. OnDisk' /\ AllWritten /\ Kept' = Kept
  BY <1>1, <1>u DEF IInv, OnDisk, AllWritten, Kept
<1>7. ClearUpTo(disk, n) => clear /\ ~quotes
  <2> SUFFICES ASSUME ClearUpTo(disk, n) PROVE clear /\ ~quotes
    OBVIOUS
  <2>1. clear /\ ClearUpTo(disk, n - 1) /\ n - 1 = read
    BY <1>1, LastIsClear DEF clear, n
  <2> QED
    BY <1>1, <2>1 DEF IInv, HalfRead
<1>8. ClearUpTo(disk, n) => ~quotes'
  BY <1>2, <1>7
<1>9. ASSUME NEW l \in Kept, Coming(l)
      PROVE  /\ (\A i \in DOMAIN disk: LastFor(disk, i, l) => i <= n) =>
                   InForce(l)' = Given(promise, l)
             /\ l[1] = "seta" /\ InForce(l)' # NONE => cvars'[l[2]].save
  <2>1. l \in Line /\ Survives(disk, l) /\ ~Touched(disk, l)
    BY <1>9 DEF Kept, Coming, Survives
  <2>2. g[l] = NONE
    BY <1>1, <1>2, <1>7, <2>1, OthersSpareIt DEF clear, p
  <2>3. /\ (\A i \in DOMAIN disk: LastFor(disk, i, l) => i <= read) =>
             InForce(l) = Given(promise, l)
        /\ l[1] = "seta" /\ InForce(l) # NONE => cvars[l[2]].save
    BY <1>1, <1>9 DEF IInv, HalfRead
  <2>4. CASE p.line # l
    <3>1. InForce(l)' = InForce(l) /\ (l[1] = "seta" => cvars'[l[2]] = cvars[l[2]])
      BY <1>2, <2>1, <2>2, <2>4, LineParts DEF InForce
    <3>2. \A i \in DOMAIN disk: LastFor(disk, i, l) /\ i <= n => i <= read
      <4> SUFFICES ASSUME NEW i \in DOMAIN disk, LastFor(disk, i, l), i <= n PROVE i <= read
        OBVIOUS
      <4>1. i # n
        BY <2>4 DEF LastFor, p
      <4> QED
        BY <1>1, <4>1 DEF n
    <3> QED
      BY <2>3, <3>1, <3>2
  <2>5. CASE p.line = l
    <3>1. l[1] = "seta" /\ InForce(l)' # NONE => cvars'[l[2]].save
      <4> SUFFICES ASSUME l[1] = "seta", InForce(l)' # NONE PROVE cvars'[l[2]].save
        OBVIOUS
      <4>1. l[2] \in Var /\ l = <<"seta", l[2]>> /\ l[1] # "bind"
        BY <2>1, LineParts
      <4>2. InForce(l) = cvars[l[2]].val /\ InForce(l)' = cvars'[l[2]].val
        BY <4>1 DEF InForce
      <4>3. CASE v # NONE
        <5>1. cvars'[l[2]] = FromFile(l[2], v)
          BY <1>2, <2>2, <2>5, <4>1, <4>3
        <5> QED
          BY <2>3, <4>1, <4>2, <5>1 DEF FromFile
      <4>4. CASE v = NONE
        <5>1. cvars'[l[2]] = cvars[l[2]]
          BY <1>2, <2>2, <2>5, <4>1, <4>4
        <5> QED
          BY <2>3, <4>1, <4>2, <5>1
      <4> QED
        BY <4>3, <4>4
    <3>2. ASSUME \A i \in DOMAIN disk: LastFor(disk, i, l) => i <= n
          PROVE  InForce(l)' = Given(promise, l)
      <4>1. Holds(disk, l, Given(promise, l))
        BY <1>6, <1>9 DEF AllWritten
      <4>2. Given(promise, l) # NONE
        BY <1>1, <2>5, <4>1 DEF Holds, p
      <4>3. PICK i \in DOMAIN disk: LastFor(disk, i, l) /\ disk[i].val = Given(promise, l)
        BY <4>1, <4>2 DEF Holds
      <4>4. i = n
        <5>1. i <= n
          BY <3>2, <4>3
        <5>2. ~(n > i)
          BY <1>1, <2>5, <4>3 DEF LastFor, p
        <5> QED
          BY <1>1, <5>1, <5>2
      <4>5. p.val = Given(promise, l) /\ clear /\ (p.val \in Listed => ClearUpTo(disk, n))
        BY <1>1, <2>1, <4>3, <4>4 DEF Survives, p, clear
      <4>6. ~Split(p.val)
        BY <1>7, <4>5 DEF Split
      <4>7. v = p.val /\ v # NONE
        BY <1>2, <4>2, <4>5, <4>6 DEF Heard
      <4>8. CASE l[1] = "bind"
        <5>1. l[2] \in Key /\ l = <<"bind", l[2]>>
          BY <2>1, <4>8, LineParts
        <5> QED
          BY <1>2, <2>2, <2>5, <4>5, <4>7, <4>8, <5>1 DEF InForce
      <4>9. CASE l[1] = "seta"
        <5>1. l[2] \in Var /\ l = <<"seta", l[2]>> /\ l[1] # "bind"
          BY <2>1, <4>9, LineParts
        <5>2. cvars'[l[2]] = FromFile(l[2], v)
          BY <1>2, <2>2, <2>5, <4>7, <5>1
        <5>3. v \notin Long
          BY <2>1, <4>5, <4>7, <4>9, GivenType DEF IInv, TypeOK
        <5> QED
          BY <4>5, <4>7, <5>1, <5>2, <5>3 DEF InForce, FromFile, InVar
      <4> QED
        BY <2>1, <4>8, <4>9, LineParts
    <3> QED
      BY <3>1, <3>2
  <2> QED
    BY <2>4, <2>5
<1>10. HalfRead'
  <2>1. \A l \in Kept: Coming(l)' <=> Coming(l)
    BY <1>u DEF Coming
  <2> QED
    BY <1>1, <1>6, <1>8, <1>9, <1>u, <2>1 DEF HalfRead
<1> QED
  BY <1>4, <1>5, <1>6, <1>10 DEF IInv

LEMMA LoadDoneKeeps == IInv /\ LoadDone => IInv'
<1> SUFFICES ASSUME IInv, LoadDone PROVE IInv'
  OBVIOUS
<1>1. TypeOK' /\ UpAsOrdered' /\ Phases' /\ NothingYet' /\ OnDisk' /\ HalfRead'
  BY DEF IInv, LoadDone, TypeOK, UpAsOrdered, Phases, NothingYet, OnDisk, HalfRead, ConfigAfter,
         AllWritten, Kept
<1>2. ReadBack'
  <2>u. UNCHANGED <<process, settings, changes, stopping, signal, hung, quit, disk, history>>
        /\ pc = "load" /\ read \in Nat /\ disk \in Seq(Piece) /\ ReadMax \in Nat
    BY BoundAssumption DEF LoadDone, IInv, TypeOK
  <2> SUFFICES ASSUME NEW l \in Kept, Coming(l)
               PROVE  /\ InForce(l) = Given(promise, l)
                      /\ l[1] = "seta" => cvars[l[2]].save
    BY <2>u DEF ReadBack, Kept, Coming, InForce
  <2>1. \A i \in DOMAIN disk: LastFor(disk, i, l) => i <= read
    <3> SUFFICES ASSUME NEW i \in DOMAIN disk, LastFor(disk, i, l) PROVE i <= read
      OBVIOUS
    <3>1. i \in 1 .. Len(disk)
      BY <2>u
    <3>2. i <= ReadMax
      BY DEF Coming, Survives, Clear
    <3> QED
      BY <2>u, <3>1, <3>2 DEF LoadDone
  <2>2. InForce(l) = Given(promise, l)
    BY <2>u, <2>1 DEF IInv, HalfRead
  <2>3. l[1] = "seta" => InForce(l) # NONE
    BY <2>2 DEF Coming
  <2> QED
    BY <2>u, <2>2, <2>3 DEF IInv, HalfRead
<1> QED
  BY <1>1, <1>2 DEF IInv

LEMMA LoadFailsKeeps == IInv /\ LoadFails => IInv'
<1> SUFFICES ASSUME IInv, LoadFails PROVE IInv'
  OBVIOUS
<1>1. pc = "load" /\ pc' = "boot" /\ next = 6 /\ read = 0 /\ promise' = Empty /\ lost' = Line
  BY DEF IInv, Phases, ConfigAfter, LoadFails, LoseAll
<1>u. UNCHANGED <<memory, disk>>
  BY DEF LoadFails
<1>2. TypeOK'
  BY <1>1, <1>u, EmptyType DEF IInv, TypeOK
<1>3. ~quotes
  BY <1>1 DEF IInv, HalfRead, ClearUpTo
<1>4. Kept' = {}
  BY <1>1 DEF Kept
<1>5. UpAsOrdered' /\ NothingYet'
  BY <1>u DEF IInv, UpAsOrdered, NothingYet
<1>6. Phases'
  BY <1>1, <1>3, <1>u DEF IInv, Phases
<1>7. OnDisk' /\ HalfRead' /\ ReadBack'
  BY <1>1, <1>4 DEF OnDisk, AllWritten, HalfRead, ReadBack
<1> QED
  BY <1>2, <1>5, <1>6, <1>7 DEF IInv

LEMMA BootDoneKeeps == IInv /\ BootDone => IInv'
<1> SUFFICES ASSUME IInv, BootDone PROVE IInv'
  OBVIOUS
<1>1. next = 13 /\ pc = "boot" /\ pc' = "run"
  BY Orders DEF IInv, TypeOK, BootDone
<1>u. UNCHANGED <<memory, disk, history>>
  BY DEF BootDone
<1> QED
  BY <1>1, <1>u DEF IInv, TypeOK, UpAsOrdered, Phases, NothingYet, OnDisk, HalfRead,
              ReadBack, AllWritten, Kept

-----------------------------------------------------------------------------
(* The commands keep the invariant.                                        *)

(* Settings change only while no file is read or written.                  *)
LEMMA CommandTime ==
  ASSUME IInv, Running \/ Leaving
  PROVE  /\ next = 13 /\ at = 1 /\ file = "closed"
         /\ pc \in {"run", "stop"} /\ (Leaving <=> pc = "stop")
<1>1. CASE Running
  BY <1>1 DEF IInv, Running, Leaving, Stops, Phases
<1>2. CASE Leaving
  <2>1. at \in 1 .. 12
    BY <1>2, Orders DEF IInv, TypeOK, Leaving, Stops
  <2>2. at = 1 /\ StopOrder[1] = "g"
    BY <1>2, <2>1, Places, Tables, Orders DEF Leaving, Current
  <2>3. next = 13
    BY <1>2, Modules, Tables, Orders DEF IInv, TypeOK, UpAsOrdered, Leaving
  <2>4. file = "closed"
    BY <2>2 DEF IInv, TypeOK, Phases, Current
  <2> QED
    BY <1>2, <2>2, <2>3, <2>4 DEF Leaving, Stops
<1> QED
  BY <1>1, <1>2

LEMMA ChangeKeeps ==
  ASSUME IInv, NEW b \in [Key -> Value], NEW c \in CvarsType, Change(b, c)
  PROVE  IInv'
<1>1. next = 13 /\ at = 1 /\ file = "closed" /\ pc \in {"run", "stop"} /\ (Leaving <=> pc = "stop")
  BY CommandTime DEF Change
<1>u. /\ UNCHANGED <<pc, process, stopping, reading, signal, hung, quit, disk, lost>>
      /\ binds' = b /\ cvars' = c /\ changes' = changes + 1
      /\ promise' = IF Leaving THEN SettingsOf(b, c) ELSE promise
  BY DEF Change
<1>2. TypeOK'
  BY <1>u, SettingsType DEF IInv, TypeOK, CvarsType
<1>3. UpAsOrdered' /\ NothingYet' /\ HalfRead' /\ ReadBack' /\ Phases'
  BY <1>1, <1>u DEF IInv, UpAsOrdered, NothingYet, HalfRead, ReadBack, Phases, ConfigAfter
<1>4. OnDisk'
  <2>1. CASE pc = "run"
    BY <1>1, <1>u, <2>1 DEF IInv, OnDisk, AllWritten, Kept
  <2>2. CASE pc = "stop"
    <3>1. promise' = Settings'
      BY <1>1, <1>u, <2>2 DEF Settings
    <3>2. at' = 1 /\ next' = 13 /\ pc' = "stop"
      BY <1>1, <1>u, <2>2
    <3>3. \A l: ~DoneWith(l)'
      BY <3>2 DEF DoneWith
    <3> QED
      BY <3>1, <3>2, <3>3 DEF OnDisk, HalfWritten, ConfigAfter, Given
  <2> QED
    BY <1>1, <2>1, <2>2
<1> QED
  BY <1>2, <1>3, <1>4 DEF IInv

LEMMA CommandsKeep ==
  ASSUME IInv, NEW v \in Val
  PROVE  /\ \A k \in Key: Bind(k, v) => IInv'
         /\ \A x \in Var: Set(x, v) \/ Seta(x, v) => IInv'
<1>0. binds \in [Key -> Value] /\ cvars \in CvarsType
  BY DEF IInv, TypeOK, CvarsType
<1>1. ASSUME NEW k \in Key, Bind(k, v) PROVE IInv'
  <2>1. PICK w \in {v, NONE}: Change([binds EXCEPT ![k] = w], cvars)
    BY <1>1 DEF Bind
  <2>2. [binds EXCEPT ![k] = w] \in [Key -> Value]
    BY <1>0 DEF Value
  <2> QED
    BY <1>0, <2>1, <2>2, ChangeKeeps
<1>2. ASSUME NEW x \in Var, NEW s \in BOOLEAN, SetVar(x, v, s) PROVE IInv'
  <2> DEFINE c == [cvars EXCEPT ![x] =
                    [val |-> InVar(v), save |-> IF @.val = NONE THEN s ELSE @.save]]
  <2>1. c \in CvarsType
    BY <1>0, InVarType DEF CvarsType
  <2>2. Change(binds, c)
    BY <1>2 DEF SetVar
  <2> HIDE DEF c
  <2> QED
    BY <1>0, <2>1, <2>2, ChangeKeeps
<1> QED
  BY <1>1, <1>2 DEF Set, Seta

LEMMA QuitKeeps == IInv /\ Quit => IInv'
<1> SUFFICES ASSUME IInv, Quit PROVE IInv'
  OBVIOUS
<1>1. pc = "run" /\ quit' = TRUE
      /\ UNCHANGED <<pc, process, settings, changes, stopping, reading, signal, hung, disk, history>>
  BY DEF Quit, Running
<1> QED
  BY <1>1 DEF IInv, TypeOK, UpAsOrdered, Phases, NothingYet, OnDisk, HalfRead, ReadBack,
              AllWritten, Kept

-----------------------------------------------------------------------------
(* The beginnings of a stop keep the invariant.                            *)

LEMMA StopBeginKeeps ==
  ASSUME IInv, pc \in {"boot", "load", "run"},
         NEW c \in CvarsType,
         next < ConfigAfter => c = Unregistered,
         StopBegin(c),
         signal' \in BOOLEAN
  PROVE  IInv'
<1>1. at = 1 /\ file = "closed"
  BY DEF IInv, Phases
<1>u. /\ UNCHANGED <<process, binds, changes, stopping, hung, disk>>
      /\ pc' = "stop" /\ cvars' = c /\ read' = 0 /\ quotes' = FALSE /\ quit' = FALSE
      /\ Owe(c)
  BY DEF StopBegin
<1>2. TypeOK'
  <2>1. promise' \in FileType /\ lost' \subseteq Line
    BY <1>u, SettingsType, EmptyType DEF IInv, TypeOK, Owe, LoseAll
  <2> QED
    BY <1>u, <2>1 DEF IInv, TypeOK, CvarsType
<1>3. UpAsOrdered' /\ Phases' /\ NothingYet' /\ HalfRead' /\ ReadBack'
  BY <1>1, <1>u DEF IInv, UpAsOrdered, Phases, NothingYet, HalfRead, ReadBack
<1>4. OnDisk'
  <2>1. CASE Loaded
    <3>1. promise' = Settings' /\ at' = 1 /\ file' = "closed"
      BY <1>1, <1>u, <2>1 DEF Owe, Settings
    <3>2. next' >= ConfigAfter
      BY <1>u, <2>1, Orders DEF Loaded, ConfigAfter, IInv, TypeOK
    <3>3. \A l: ~DoneWith(l)'
      BY <3>1 DEF DoneWith
    <3> QED
      BY <1>u, <3>1, <3>2, <3>3 DEF OnDisk, HalfWritten, Given
  <2>2. CASE ~Loaded /\ "keyboard" \in up
    <3>1. Kept' = {}
      BY <1>u, <2>2 DEF Owe, LoseAll, Kept
    <3> QED
      BY <3>1 DEF OnDisk, HalfWritten, AllWritten
  <2>3. CASE ~Loaded /\ "keyboard" \notin up
    <3>1. UNCHANGED history
      BY <1>u, <2>3 DEF Owe
    <3>2. next <= 5 /\ next' = next
      BY <1>1, <1>u, <2>3, Modules, Tables, Orders DEF IInv, UpAsOrdered, TypeOK
    <3>3. AllWritten
      BY DEF IInv, OnDisk
    <3> QED
      BY <1>u, <3>1, <3>2, <3>3, Orders DEF OnDisk, ConfigAfter, IInv, TypeOK, AllWritten, Kept
  <2> QED
    BY <2>1, <2>2, <2>3
<1> QED
  BY <1>2, <1>3, <1>4 DEF IInv

LEMMA InitFailsKeeps == IInv /\ InitFails => IInv'
<1> SUFFICES ASSUME IInv, InitFails PROVE IInv'
  OBVIOUS
<1> DEFINE m == BootOrder[next]
<1>1. PICK c \in {cvars, Registered(m)}: StopBegin(c)
  BY DEF InitFails
<1>2. next \in 1 .. 12 /\ m \in Module
  BY Orders, Modules DEF InitFails, IInv, TypeOK
<1>3. c \in CvarsType
  BY <1>1, <1>2, RegisteredType DEF IInv, TypeOK, CvarsType
<1>4. next < ConfigAfter => c = Unregistered
  BY <1>1, <1>2, EarlyRegistersNothing DEF IInv, NothingYet, ConfigAfter
<1> QED
  BY <1>1, <1>3, <1>4, StopBeginKeeps DEF InitFails, IInv, TypeOK

LEMMA FrameQuitsKeeps == IInv /\ FrameQuits => IInv'
<1> SUFFICES ASSUME IInv, FrameQuits PROVE IInv'
  OBVIOUS
<1>1. cvars \in CvarsType /\ (next < ConfigAfter => cvars = Unregistered)
  BY DEF IInv, TypeOK, NothingYet, CvarsType
<1> QED
  BY <1>1, StopBeginKeeps DEF FrameQuits, Running, IInv, TypeOK

-----------------------------------------------------------------------------
(* The steps of a stop keep the invariant.                                 *)

(* One module fewer is up, the next one's turn has come.                   *)
LEMMA DownStep ==
  ASSUME IInv, at \in 1 .. 12, StepDown, next' = next
  PROVE  UpAsOrdered'
<1> SUFFICES ASSUME NEW n \in Module
             PROVE  n \in up' <=> BootAt(n) < next /\ at + 1 <= StopAt(n)
  BY DEF UpAsOrdered, StepDown
<1>1. n \in up <=> BootAt(n) < next /\ at <= StopAt(n)
  BY DEF IInv, UpAsOrdered
<1>2. n = Current <=> StopAt(n) = at
  BY Places DEF Current
<1>3. StopAt(n) \in 1 .. 12
  BY Places
<1> QED
  BY <1>1, <1>2, <1>3 DEF StepDown

(* The writers of the file and the file system, once the boot has come to  *)
(* the keyboard.                                                           *)
LEMMA WritersUp ==
  ASSUME IInv
  PROVE  /\ next \in 1 .. 13 /\ at \in 1 .. 13
         /\ "keyboard" \in up <=> 5 < next /\ at <= 7
         /\ "cvar" \in up <=> 1 < next /\ at <= 9
         /\ "fs" \in up <=> 4 < next /\ at <= 12
<1>1. next \in 1 .. 13 /\ at \in 1 .. 13
  BY Orders DEF IInv, TypeOK
<1>2. {"keyboard", "cvar", "fs"} \subseteq Module
  BY Modules
<1> QED
  BY <1>1, <1>2, Tables DEF IInv, UpAsOrdered

(* Whose turn it is when the file is open, or is to be opened.             *)
LEMMA SaveTurn ==
  ASSUME IInv, Stops
  PROVE  /\ at \in 1 .. 12
         /\ Current = "keyboard" <=> at = 7
         /\ Current = "cvar" <=> at = 9
         /\ file # "closed" => file = Current /\ SavesNow
<1>1. at \in 1 .. 12
  BY Orders DEF IInv, TypeOK, Stops
<1>2. (Current = "keyboard" <=> at = 7) /\ (Current = "cvar" <=> at = 9)
  BY <1>1, Places, Tables, Modules DEF Current
<1>3. file # "closed" => file = Current /\ SavesNow
  BY <1>1 DEF IInv, TypeOK, Phases, Stops, SavesNow, Current
<1> QED
  BY <1>1, <1>2, <1>3

(* A stop that has begun before there were settings has nothing to write.  *)
LEMMA NothingToWrite ==
  ASSUME IInv, next < ConfigAfter
  PROVE  ToWrite = {}
<1>1. \A l \in Line: Given(Settings, l) = NONE
  BY LineParts DEF IInv, NothingYet, Given, Settings, SettingsOf, Empty, Unregistered
<1> QED
  BY <1>1 DEF ToWrite

LEMMA ShutdownModuleKeeps == IInv /\ ShutdownModule => IInv'
<1> SUFFICES ASSUME IInv, ShutdownModule PROVE IInv'
  OBVIOUS
<1>1. /\ at \in 1 .. 12 /\ file = "closed" /\ pc = "stop" /\ StepDown /\ at' = at + 1
  BY SaveTurn DEF ShutdownModule, Stops, StepDown
<1>u. UNCHANGED <<pc, next, settings, changes, file, left, reading, signal, hung, quit, disk, history>>
      /\ up' \subseteq up
  BY DEF ShutdownModule, StepDown
<1>2. 5 < next => at # 7 /\ at # 9
  BY <1>1, SaveTurn, WritersUp DEF ShutdownModule, SavesNow
<1>3. TypeOK'
  BY <1>1, <1>u, Orders DEF IInv, TypeOK
<1>4. UpAsOrdered'
  BY <1>1, <1>u, DownStep
<1>5. Phases' /\ NothingYet' /\ HalfRead' /\ ReadBack'
  BY <1>1, <1>u DEF IInv, Phases, NothingYet, HalfRead, ReadBack
<1>6. OnDisk'
  <2>1. Settings' = Settings /\ Kept' = Kept
    BY <1>u DEF Settings, Kept
  <2>2. CASE next >= 6
    <3>1. HalfWritten
      BY <1>1, <2>2 DEF IInv, OnDisk, ConfigAfter
    <3>2. \A l: DoneWith(l)' => DoneWith(l)
      BY <1>1, <1>2, <1>u, <2>1, <2>2, WritersUp DEF DoneWith
    <3> QED
      BY <1>1, <1>u, <2>1, <2>2, <3>1, <3>2 DEF OnDisk, HalfWritten, ConfigAfter
  <2>3. CASE next < 6
    BY <1>1, <1>u, <2>1, <2>3, WritersUp DEF IInv, OnDisk, AllWritten, ConfigAfter
  <2> QED
    BY <2>2, <2>3, WritersUp
<1> QED
  BY <1>3, <1>4, <1>5, <1>6 DEF IInv

LEMMA SaveOpenKeeps == IInv /\ SaveOpen => IInv'
<1> SUFFICES ASSUME IInv, SaveOpen PROVE IInv'
  OBVIOUS
<1>1. pc = "stop" /\ file = "closed" /\ Current \in up /\ at \in 1 .. 12 /\ SavesNow
  BY SaveTurn DEF SaveOpen, Stops, SavesNow
<1>u. /\ UNCHANGED <<pc, process, settings, changes, at, reading, signal, hung, quit, history>>
      /\ file' = Current /\ disk' = Opened /\ left' = ToWrite
  BY DEF SaveOpen
<1>2. Settings' = Settings /\ Kept' = Kept /\ Current' = Current /\ ToWrite' = ToWrite
  BY <1>u DEF Settings, Kept, Current, ToWrite, StopOrder
<1>3. TypeOK'
  <2>1. left' \subseteq Line /\ file' \in {"closed", "keyboard", "cvar"}
    BY <1>1, <1>u DEF ToWrite, SavesNow
  <2>2. disk' \in Seq(Piece)
    BY <1>u DEF Opened, IInv, TypeOK
  <2> QED
    BY <1>u, <2>1, <2>2 DEF IInv, TypeOK
<1>4. UpAsOrdered' /\ NothingYet' /\ HalfRead' /\ ReadBack'
  BY <1>1, <1>u DEF IInv, UpAsOrdered, NothingYet, HalfRead, ReadBack
<1>5. Phases'
  BY <1>1, <1>2, <1>u DEF IInv, Phases
<1>6. OnDisk'
  <2>1. CASE next < 6
    <3>1. Current = "cvar"
      BY <1>1, <2>1, SaveTurn, WritersUp DEF SavesNow
    <3>2. disk' = disk
      BY <1>u, <3>1 DEF Opened
    <3> QED
      BY <1>1, <1>2, <1>u, <2>1, <3>2, WritersUp DEF IInv, OnDisk, AllWritten, ConfigAfter
  <2>2. CASE next >= 6
    <3> SUFFICES ASSUME NEW l \in Kept
                 PROVE  /\ Given(promise, l) = Given(Settings, l)
                        /\ DoneWith(l)' => Holds(disk', l, Given(promise, l))
      BY <1>1, <1>2, <1>u, <2>2 DEF OnDisk, HalfWritten, ConfigAfter
    <3>1. /\ Given(promise, l) = Given(Settings, l)
          /\ DoneWith(l) => Holds(disk, l, Given(promise, l))
      BY <1>1, <2>2 DEF IInv, OnDisk, HalfWritten, ConfigAfter
    <3>2. l \in Line /\ l \notin Beyond
      BY DEF Kept
    <3> SUFFICES ASSUME DoneWith(l)' PROVE Holds(disk', l, Given(promise, l))
      BY <3>1
    <3>3. CASE Current = "keyboard"
      <4>1. at = 7 /\ disk' = <<>>
        BY <1>1, <1>u, <3>3, SaveTurn DEF SaveOpen, Opened
      <4>2. Given(Settings, l) = NONE
        BY <1>2, <1>u, <3>2, <3>3, <4>1, LineParts DEF DoneWith, ToWrite
      <4> QED
        BY <3>1, <3>2, <4>1, <4>2, HoldsEmpty
    <3>4. CASE Current = "cvar"
      <4>1. at = 9 /\ disk' = disk
        BY <1>1, <1>u, <3>4, SaveTurn DEF SaveOpen, Opened
      <4>2. DoneWith(l)
        BY <1>1, <1>2, <1>u, <3>2, <3>4, <4>1, LineParts DEF DoneWith, ToWrite
      <4> QED
        BY <3>1, <4>1, <4>2
    <3> QED
      BY <1>1, <3>3, <3>4 DEF SavesNow
  <2> QED
    BY <2>1, <2>2, WritersUp
<1> QED
  BY <1>3, <1>4, <1>5, <1>6 DEF IInv

(* What a step of the writing of one line does to that line and to the     *)
(* others.                                                                 *)
LEMMA WritingTime ==
  ASSUME IInv, Stops, file # "closed", NEW l \in left
  PROVE  /\ pc = "stop" /\ at \in {7, 9} /\ next >= 6 /\ l \in ToWrite /\ l \in Line \ Beyond
         /\ (l[1] = "bind") <=> (at = 7)
         /\ Printed(l) \in Piece /\ Printed(l).line = l /\ Printed(l).val = Given(Settings, l)
         /\ Given(Settings, l) \in Val
         /\ Printed(l).whole <=> l[1] = "seta" \/ Given(Settings, l) \notin Long
<1>1. pc = "stop" /\ file = Current /\ SavesNow /\ at \in 1 .. 12 /\ l \in ToWrite
  BY SaveTurn DEF IInv, Phases, Stops
<1>2. next >= 6
  BY <1>1, NothingToWrite, WritersUp DEF ConfigAfter
<1>3. at \in {7, 9} /\ (Current = "keyboard" <=> at = 7)
  BY <1>1, SaveTurn DEF SavesNow
<1>4. l \in Line \ Beyond /\ Given(Settings, l) # NONE /\ (l[1] = "bind" <=> at = 7)
  BY <1>1, <1>3 DEF ToWrite
<1>5. Given(Settings, l) \in Val
  BY <1>4, SettingsType, GivenType DEF IInv, TypeOK, Settings, Value, CvarsType
<1>6. Printed(l) \in Piece
  BY <1>4, <1>5 DEF Printed, Piece
<1> QED
  BY <1>1, <1>2, <1>3, <1>4, <1>5, <1>6 DEF Printed

LEMMA SaveLineKeeps ==
  ASSUME IInv, NEW l \in left, SaveLine(l)
  PROVE  IInv'
<1>1. /\ pc = "stop" /\ at \in {7, 9} /\ next >= 6 /\ l \in Line
      /\ Printed(l) \in Piece /\ Printed(l).line = l /\ Printed(l).val = Given(Settings, l)
      /\ Given(Settings, l) \in Val
      /\ Printed(l).whole <=> l[1] = "seta" \/ Given(Settings, l) \notin Long
  BY WritingTime DEF SaveLine
<1>u. /\ UNCHANGED <<pc, process, settings, changes, at, file, reading, signal, hung, quit, history>>
      /\ left' = left \ {l} /\ disk' = Append(disk, Printed(l))
  BY DEF SaveLine
<1>2. Settings' = Settings /\ Kept' = Kept /\ Current' = Current /\ ToWrite' = ToWrite
  BY <1>u DEF Settings, Kept, Current, ToWrite, StopOrder
<1>3. disk \in Seq(Piece) /\ disk' \in Seq(Piece)
  BY <1>1, <1>u DEF IInv, TypeOK
<1>4. TypeOK'
  BY <1>3, <1>u DEF IInv, TypeOK
<1>5. UpAsOrdered' /\ NothingYet' /\ HalfRead' /\ ReadBack'
  BY <1>1, <1>u DEF IInv, UpAsOrdered, NothingYet, HalfRead, ReadBack
<1>6. Phases'
  BY <1>1, <1>2, <1>u DEF IInv, Phases
<1>7. ASSUME NEW k \in Kept
      PROVE  /\ Given(promise, k) = Given(Settings, k)
             /\ DoneWith(k)' => Holds(disk', k, Given(promise, k))
  <2>1. /\ Given(promise, k) = Given(Settings, k)
        /\ DoneWith(k) => Holds(disk, k, Given(promise, k))
    BY <1>1, <1>7 DEF IInv, OnDisk, HalfWritten, ConfigAfter
  <2> SUFFICES ASSUME DoneWith(k)' PROVE Holds(disk', k, Given(promise, k))
    BY <2>1
  <2>2. CASE k = l
    BY <1>1, <1>3, <1>u, <2>1, <2>2, AppendOwn
  <2>3. CASE k # l
    <3>1. DoneWith(k)
      BY <1>1, <1>2, <1>u, <2>3 DEF DoneWith
    <3>2. Given(promise, k) \in Value /\ k \in Line
      BY GivenType DEF IInv, TypeOK, Kept
    <3> QED
      BY <1>1, <1>3, <1>u, <2>1, <2>3, <3>1, <3>2, AppendOther
  <2> QED
    BY <2>2, <2>3
<1>8. OnDisk'
  BY <1>1, <1>2, <1>7, <1>u DEF OnDisk, HalfWritten, ConfigAfter
<1> QED
  BY <1>4, <1>5, <1>6, <1>8 DEF IInv

LEMMA WriteFailsKeeps ==
  ASSUME IInv, NEW l \in left, WriteFails(l)
  PROVE  IInv'
<1> DEFINE p == [Printed(l) EXCEPT !.whole = FALSE]
<1>0. /\ pc = "stop" /\ at \in {7, 9} /\ next >= 6 /\ l \in Line
      /\ Printed(l) \in Piece /\ Printed(l).line = l
  BY WritingTime DEF WriteFails
<1>1. pc = "stop" /\ at \in {7, 9} /\ next >= 6 /\ l \in Line /\ p \in Piece /\ p.line = l
  BY <1>0 DEF Piece
<1>u. /\ UNCHANGED <<pc, process, settings, changes, at, file, reading, signal, hung, quit, promise>>
      /\ left' = left \ {l} /\ lost' = lost \cup {l} /\ disk' \in {disk, Append(disk, p)}
  BY DEF WriteFails
<1> HIDE DEF p
<1>2. Settings' = Settings /\ Current' = Current /\ ToWrite' = ToWrite
      /\ \A k \in Kept': k \in Kept /\ k # l
  BY <1>u DEF Settings, Kept, Current, ToWrite, StopOrder
<1>3. disk \in Seq(Piece) /\ disk' \in Seq(Piece)
  BY <1>1, <1>u DEF IInv, TypeOK
<1>4. TypeOK'
  BY <1>1, <1>3, <1>u DEF IInv, TypeOK
<1>5. UpAsOrdered' /\ NothingYet' /\ HalfRead' /\ ReadBack'
  BY <1>1, <1>u DEF IInv, UpAsOrdered, NothingYet, HalfRead, ReadBack
<1>6. Phases'
  BY <1>1, <1>2, <1>u DEF IInv, Phases
<1>7. ASSUME NEW k \in Kept'
      PROVE  /\ Given(promise, k) = Given(Settings, k)
             /\ DoneWith(k)' => Holds(disk', k, Given(promise, k))
  <2>1. /\ Given(promise, k) = Given(Settings, k)
        /\ DoneWith(k) => Holds(disk, k, Given(promise, k))
    BY <1>1, <1>2, <1>7 DEF IInv, OnDisk, HalfWritten, ConfigAfter
  <2> SUFFICES ASSUME DoneWith(k)' PROVE Holds(disk', k, Given(promise, k))
    BY <2>1
  <2>2. k # l /\ DoneWith(k)
    BY <1>1, <1>2, <1>7, <1>u DEF DoneWith
  <2>3. Given(promise, k) \in Value /\ k \in Line
    BY <1>2, <1>7, GivenType DEF IInv, TypeOK, Kept
  <2> QED
    BY <1>1, <1>3, <1>u, <2>1, <2>2, <2>3, AppendOther
<1>8. OnDisk'
  BY <1>1, <1>2, <1>7, <1>u DEF OnDisk, HalfWritten, ConfigAfter
<1> QED
  BY <1>4, <1>5, <1>6, <1>8 DEF IInv

LEMMA SaveCloseKeeps == IInv /\ SaveClose => IInv'
<1> SUFFICES ASSUME IInv, SaveClose PROVE IInv'
  OBVIOUS
<1>1. /\ pc = "stop" /\ file # "closed" /\ left = {} /\ SavesNow /\ at \in 1 .. 12
      /\ StepDown /\ at' = at + 1
  BY SaveTurn DEF SaveClose, Stops, StepDown
<1>u. /\ UNCHANGED <<pc, next, settings, changes, left, reading, signal, hung, quit, disk, history>>
      /\ file' = "closed" /\ up' \subseteq up
  BY DEF SaveClose, StepDown
<1>2. at \in {7, 9}
  BY <1>1, SaveTurn DEF SavesNow, SaveClose
<1>3. TypeOK'
  BY <1>1, <1>u, Orders DEF IInv, TypeOK
<1>4. UpAsOrdered'
  BY <1>1, <1>u, DownStep
<1>5. Phases' /\ NothingYet' /\ HalfRead' /\ ReadBack'
  BY <1>1, <1>u DEF IInv, Phases, NothingYet, HalfRead, ReadBack
<1>6. OnDisk'
  <2>1. Settings' = Settings /\ Kept' = Kept
    BY <1>u DEF Settings, Kept
  <2>2. CASE next >= 6
    <3>1. HalfWritten
      BY <1>1, <2>2 DEF IInv, OnDisk, ConfigAfter
    <3>2. \A l: DoneWith(l)' => DoneWith(l)
      BY <1>1, <1>2, <1>u, <2>1 DEF DoneWith
    <3> QED
      BY <1>1, <1>u, <2>1, <2>2, <3>1, <3>2 DEF OnDisk, HalfWritten, ConfigAfter
  <2>3. CASE next < 6
    BY <1>1, <1>u, <2>1, <2>3, WritersUp DEF IInv, OnDisk, AllWritten, ConfigAfter
  <2> QED
    BY <2>2, <2>3, WritersUp
<1> QED
  BY <1>3, <1>4, <1>5, <1>6 DEF IInv

LEMMA SaveFailsKeeps == IInv /\ SaveFails => IInv'
<1> SUFFICES ASSUME IInv, SaveFails PROVE IInv'
  OBVIOUS
<1>1. /\ pc = "stop" /\ file = "closed" /\ SavesNow /\ at \in 1 .. 12
      /\ StepDown /\ at' = at + 1
  BY SaveTurn DEF SaveFails, Stops, StepDown
<1>u. /\ UNCHANGED <<pc, next, settings, changes, file, left, reading, signal, hung, quit, promise>>
      /\ disk' \in (IF "fs" \in up THEN {disk, Opened} ELSE {disk})
      /\ lost' = IF "fs" \in up THEN lost \cup Missed ELSE lost
  BY DEF SaveFails
<1>2. Settings' = Settings /\ Kept' \subseteq Kept
  BY <1>u DEF Settings, Kept
<1>3. TypeOK'
  <2>1. Missed \subseteq Line /\ Opened \in Seq(Piece)
    BY DEF Missed, ToWrite, Opened, IInv, TypeOK
  <2>2. disk' \in Seq(Piece) /\ lost' \subseteq Line
    BY <1>u, <2>1 DEF IInv, TypeOK
  <2>3. at' \in 1 .. Len(StopOrder) + 1 /\ up' \subseteq Module
    BY <1>1, Orders DEF IInv, TypeOK, StepDown
  <2> QED
    BY <1>u, <2>2, <2>3 DEF IInv, TypeOK
<1>4. UpAsOrdered'
  BY <1>1, <1>u, DownStep
<1>5. Phases' /\ NothingYet' /\ HalfRead' /\ ReadBack'
  BY <1>1, <1>u DEF IInv, Phases, NothingYet, HalfRead, ReadBack
<1>6. OnDisk'
  <2>1. CASE next < 6
    <3>1. Current = "cvar"
      BY <1>1, <2>1, SaveTurn, WritersUp DEF SavesNow
    <3>2. disk' = disk
      BY <1>u, <3>1 DEF Opened
    <3> QED
      BY <1>1, <1>2, <1>u, <2>1, <3>2, WritersUp DEF IInv, OnDisk, AllWritten, ConfigAfter
  <2>2. CASE next >= 6
    <3>1. "fs" \in up
      BY <1>1, <2>2, WritersUp
    <3> SUFFICES ASSUME NEW l \in Kept'
                 PROVE  /\ Given(promise, l) = Given(Settings, l)
                        /\ DoneWith(l)' => Holds(disk', l, Given(promise, l))
      BY <1>1, <1>2, <1>u, <2>2 DEF OnDisk, HalfWritten, ConfigAfter
    <3>2. l \in Kept /\ l \in Line /\ l \notin Missed /\ l \notin Beyond
      BY <1>2, <1>u, <3>1 DEF Kept
    <3>3. /\ Given(promise, l) = Given(Settings, l)
          /\ DoneWith(l) => Holds(disk, l, Given(promise, l))
      BY <1>1, <2>2, <3>2 DEF IInv, OnDisk, HalfWritten, ConfigAfter
    <3>4. CASE Current = "keyboard"
      <4>1. at = 7 /\ at' = 8
        BY <1>1, <3>4, SaveTurn DEF SaveFails
      <4>2. l[1] # "bind" /\ Given(Settings, l) # NONE
        BY <3>2, <3>4 DEF Missed
      <4> QED
        BY <1>2, <3>3, <4>1, <4>2 DEF DoneWith
    <3>5. CASE Current = "cvar"
      <4>1. at = 9 /\ at' = 10 /\ Current # "keyboard" /\ disk' = disk
        BY <1>1, <1>u, <3>5, SaveTurn DEF SaveFails, Opened
      <4>2. DoneWith(l)
        BY <3>2, <4>1, LineParts DEF DoneWith, Missed, ToWrite
      <4> QED
        BY <3>3, <4>1, <4>2
    <3> QED
      BY <1>1, <3>4, <3>5 DEF SavesNow
  <2> QED
    BY <2>1, <2>2, WritersUp
<1> QED
  BY <1>3, <1>4, <1>5, <1>6 DEF IInv

(* The process is gone, with what it owed on disk or nothing kept.         *)
LEMMA GoneKeeps ==
  ASSUME IInv, Gone, AllWritten \/ Kept' = {}, disk' = disk,
         (UNCHANGED history) \/ LoseAll
  PROVE  IInv'
<1>1. TypeOK'
  <2>1. next' \in 1 .. Len(BootOrder) + 1 /\ at' \in 1 .. Len(StopOrder) + 1
    BY Orders DEF Gone
  <2>2. cvars' \in [Var -> [val: Value \ Long, save: BOOLEAN]] /\ binds' \in [Key -> Value]
    BY UnregisteredType, EmptyType DEF Gone, CvarsType
  <2>3. promise' \in FileType /\ lost' \subseteq Line
    BY EmptyType DEF LoseAll, IInv, TypeOK
  <2>4. disk' \in Seq(Piece)
    BY DEF IInv, TypeOK
  <2> QED
    BY <2>1, <2>2, <2>3, <2>4 DEF Gone, TypeOK
<1>2. UpAsOrdered'
  BY Places DEF Gone, UpAsOrdered
<1>3. Phases' /\ NothingYet' /\ HalfRead' /\ ReadBack'
  BY DEF Gone, Phases, NothingYet, HalfRead, ReadBack, ConfigAfter
<1>4. OnDisk'
  <2>1. CASE UNCHANGED history
    BY <2>1 DEF Gone, OnDisk, AllWritten, Kept
  <2>2. CASE LoseAll
    BY <2>2 DEF Gone, OnDisk, AllWritten, Kept, LoseAll
  <2> QED
    BY <2>1, <2>2
<1> QED
  BY <1>1, <1>2, <1>3, <1>4 DEF IInv

(* Once the variables are saved, or before there is anything to save, the  *)
(* file is as it is owed.                                                  *)
LEMMA WrittenAtLast ==
  ASSUME IInv, pc # "stop" \/ at > 9 \/ next < ConfigAfter
  PROVE  AllWritten
<1>1. CASE pc = "stop" /\ next >= ConfigAfter
  <2>1. at > 9 /\ HalfWritten
    BY <1>1, WritersUp DEF IInv, OnDisk, ConfigAfter
  <2>2. \A l: DoneWith(l)
    BY <2>1, WritersUp DEF DoneWith
  <2> QED
    BY <2>1, <2>2 DEF HalfWritten, AllWritten
<1>2. CASE ~(pc = "stop" /\ next >= ConfigAfter)
  BY <1>2 DEF IInv, OnDisk
<1> QED
  BY <1>1, <1>2

LEMMA StopDoneKeeps == IInv /\ StopDone => IInv'
<1> SUFFICES ASSUME IInv, StopDone PROVE IInv'
  OBVIOUS
<1>1. at > 9
  BY Orders, WritersUp DEF StopDone
<1> QED
  BY <1>1, WrittenAtLast, GoneKeeps DEF StopDone

-----------------------------------------------------------------------------
(* Signals, crashes and restarts keep the invariant.                       *)

LEMMA CutKeeps ==
  ASSUME IInv, pc = "stop", Cut
  PROVE  IInv'
<1>1. CASE "cvar" \in up
  BY <1>1, GoneKeeps DEF Cut, LoseAll, Kept
<1>2. CASE "cvar" \notin up
  <2>1. next < ConfigAfter \/ at > 9
    BY <1>2, WritersUp DEF ConfigAfter
  <2> QED
    BY <1>2, <2>1, WrittenAtLast, GoneKeeps DEF Cut
<1> QED
  BY <1>1, <1>2

LEMMA SignalKeeps == IInv /\ Signal => IInv'
<1> SUFFICES ASSUME IInv, Signal PROVE IInv'
  OBVIOUS
<1>1. CASE pc = "stop"
  BY <1>1, CutKeeps DEF Signal
<1>2. CASE pc # "stop"
  <2>1. pc \in {"boot", "load", "run"}
    BY <1>2 DEF Signal, IInv, TypeOK
  <2>2. cvars \in CvarsType /\ (next < ConfigAfter => cvars = Unregistered)
    BY DEF IInv, TypeOK, NothingYet, CvarsType
  <2> QED
    BY <1>2, <2>1, <2>2, StopBeginKeeps DEF Signal
<1> QED
  BY <1>1, <1>2

LEMMA Exit2Keeps == IInv /\ Exit2 => IInv'
BY CutKeeps DEF Exit2

LEMMA HangKeeps == IInv /\ Hang => IInv'
<1> SUFFICES ASSUME IInv, Hang PROVE IInv'
  OBVIOUS
<1>u. /\ UNCHANGED <<pc, process, settings, changes, stopping, reading, signal, quit, disk, history>>
      /\ hung' = TRUE
  BY DEF Hang
<1>1. Settings' = Settings /\ Kept' = Kept /\ Current' = Current /\ ToWrite' = ToWrite
  BY <1>u DEF Settings, Kept, Current, ToWrite, StopOrder
<1>2. \A l: (DoneWith(l)' <=> DoneWith(l)) /\ (InForce(l)' = InForce(l)) /\ (Coming(l)' <=> Coming(l))
  BY <1>u, <1>1 DEF DoneWith, InForce, Coming
<1>3. TypeOK' /\ UpAsOrdered' /\ NothingYet'
  BY <1>u DEF IInv, TypeOK, UpAsOrdered, NothingYet
<1>4. Phases'
  BY <1>u, <1>1 DEF IInv, Phases
<1>5. OnDisk' /\ HalfRead' /\ ReadBack'
  BY <1>u, <1>1, <1>2 DEF IInv, OnDisk, HalfWritten, AllWritten, HalfRead, ReadBack
<1> QED
  BY <1>3, <1>4, <1>5 DEF IInv

LEMMA KillKeeps == IInv /\ Kill => IInv'
<1> SUFFICES ASSUME IInv, Kill PROVE IInv'
  OBVIOUS
<1>1. CASE pc = "stop"
  BY <1>1, CutKeeps DEF Kill
<1>2. CASE pc # "stop"
  BY <1>2, WrittenAtLast, GoneKeeps DEF Kill
<1> QED
  BY <1>1, <1>2

LEMMA RestartKeeps == IInv /\ Restart => IInv'
<1> SUFFICES ASSUME IInv, Restart PROVE IInv'
  OBVIOUS
<1>1. pc = "over" /\ pc' = "boot" /\ UNCHANGED <<memory, disk, history>> /\ next = 1
  BY DEF Restart, IInv, Phases
<1>2. TypeOK' /\ UpAsOrdered' /\ NothingYet' /\ HalfRead' /\ ReadBack'
  BY <1>1 DEF IInv, TypeOK, UpAsOrdered, NothingYet, HalfRead, ReadBack, ConfigAfter
<1>3. OnDisk'
  BY <1>1 DEF IInv, OnDisk, AllWritten, Kept
<1>4. Phases'
  BY <1>1 DEF IInv, Phases
<1> QED
  BY <1>2, <1>3, <1>4 DEF IInv

-----------------------------------------------------------------------------
(* The theorems.                                                           *)

LEMMA StutterKeeps == IInv /\ UNCHANGED vars => IInv'
<1> SUFFICES ASSUME IInv, UNCHANGED vars PROVE IInv'
  OBVIOUS
<1>u. UNCHANGED <<pc, memory, disk, history>>
  BY DEF vars
<1>1. Settings' = Settings /\ Kept' = Kept /\ Current' = Current /\ ToWrite' = ToWrite
  BY <1>u DEF Settings, Kept, Current, ToWrite, StopOrder
<1>2. \A l: (DoneWith(l)' <=> DoneWith(l)) /\ (InForce(l)' = InForce(l)) /\ (Coming(l)' <=> Coming(l))
  BY <1>u, <1>1 DEF DoneWith, InForce, Coming
<1>3. TypeOK' /\ UpAsOrdered' /\ NothingYet'
  BY <1>u DEF IInv, TypeOK, UpAsOrdered, NothingYet
<1>4. Phases'
  BY <1>u, <1>1 DEF IInv, Phases
<1>5. OnDisk' /\ HalfRead' /\ ReadBack'
  BY <1>u, <1>1, <1>2 DEF IInv, OnDisk, HalfWritten, AllWritten, HalfRead, ReadBack
<1> QED
  BY <1>3, <1>4, <1>5 DEF IInv

LEMMA NextKeepsIInv == IInv /\ [Next]_vars => IInv'
<1> SUFFICES ASSUME IInv, [Next]_vars PROVE IInv'
  OBVIOUS
<1>1. CASE Step
  BY <1>1, InitModuleKeeps, InitFailsKeeps, ExecuteLineKeeps, LoadDoneKeeps, LoadFailsKeeps,
     BootDoneKeeps, FrameQuitsKeeps, ShutdownModuleKeeps, SaveOpenKeeps, SaveLineKeeps,
     WriteFailsKeeps, SaveCloseKeeps, SaveFailsKeeps, StopDoneKeeps DEF Step
<1>2. CASE \E k \in Key, v \in Val: Bind(k, v)
  BY <1>2, CommandsKeep
<1>3. CASE \E x \in Var, v \in Val: Set(x, v) \/ Seta(x, v)
  BY <1>3, CommandsKeep
<1>4. CASE Quit \/ Signal \/ Exit2 \/ Hang \/ Kill \/ Restart
  BY <1>4, QuitKeeps, SignalKeeps, Exit2Keeps, HangKeeps, KillKeeps, RestartKeeps
<1>5. CASE UNCHANGED vars
  BY <1>5, StutterKeeps
<1> QED
  BY <1>1, <1>2, <1>3, <1>4, <1>5 DEF Next

(* The invariant that the theorems below rest on.                          *)
THEOREM Inductive == Spec => []IInv
<1>1. Init => IInv
  BY InitInv
<1>2. IInv /\ [Next]_vars => IInv'
  BY NextKeepsIInv
<1> QED
  BY <1>1, <1>2, PTL DEF Spec

(* Every variable of the life of the process keeps its type.               *)
THEOREM TypeCorrect == Spec => []TypeOK
<1>1. IInv => TypeOK
  BY DEF IInv
<1> QED
  BY <1>1, Inductive, PTL

(* On every way up and down, wherever it began, a module is up only while  *)
(* everything it calls is: the orders of engine_start and engine_stop.     *)
THEOREM OrderSafe == Spec => []NeedsUp
<1>1. IInv => NeedsUp
  <2> SUFFICES ASSUME IInv, NEW m \in up, NEW n \in Needs(m) PROVE n \in up
    BY DEF NeedsUp
  <2>1. next \in 1 .. 13 /\ at \in 1 .. 13
    BY WritersUp
  <2>2. m \in Module
    BY DEF IInv, TypeOK
  <2>3. BootAt(m) < next /\ at <= StopAt(m)
    BY <2>2 DEF IInv, UpAsOrdered
  <2>4. n \in Module /\ BootAt(n) < next /\ at <= StopAt(n)
    BY <2>1, <2>2, <2>3, Modules, Tables DEF Needs
  <2> QED
    BY <2>4 DEF IInv, UpAsOrdered
<1> QED
  BY <1>1, Inductive, PTL

(* Of every line whose own write or open has not failed, and that a loop   *)
(* reaches, config.cfg says what the last stop owed, through cut lines,    *)
(* failing writes and failing opens of the others.                         *)
THEOREM StopWrites == Spec => []Written
<1>1. IInv => Written
  BY DEF IInv, OnDisk, AllWritten, Written, Kept
<1> QED
  BY <1>1, Inductive, PTL

(* The next start reads back every such setting that the damage in the     *)
(* file, if there is any, does not reach.                                  *)
THEOREM SettingsSurvive == Spec => []RoundTrip
<1>1. IInv => RoundTrip
  <2> SUFFICES ASSUME IInv, Loaded, pc = "boot" PROVE RoundTrip
    BY DEF RoundTrip
  <2>1. next >= ConfigAfter
    BY Orders DEF IInv, TypeOK, Loaded, ConfigAfter
  <2> QED
    BY <2>1 DEF IInv, ReadBack, RoundTrip, Coming, Kept
<1> QED
  BY <1>1, Inductive, PTL

(* A variable that came back is still saved, and has its value, when a     *)
(* start fails or is interrupted, whether or not the failing init had      *)
(* registered it.                                                          *)
LEMMA StillSaved ==
  ASSUME IInv, pc = "boot", next >= ConfigAfter,
         NEW m \in Module, NEW c \in {cvars, Registered(m)},
         NEW l \in Kept, Coming(l), l[1] = "seta", Owner[l[2]] # NONE => Saved[l[2]]
  PROVE  c[l[2]].save /\ c[l[2]].val = Given(promise, l)
<1> DEFINE x == l[2]
<1>1. x \in Var /\ l[1] # "bind"
  BY LineParts DEF Kept
<1>2. cvars[x].val = Given(promise, l) /\ cvars[x].save /\ Given(promise, l) # NONE
  BY <1>1 DEF IInv, ReadBack, InForce, Coming
<1>3. Owner[x] = m => Owner[x] # NONE
  BY NoneAssumption
<1>4. Registered(m)[x].save /\ Registered(m)[x].val = Given(promise, l)
  BY <1>1, <1>2, <1>3, RegisteredType DEF IInv
<1> QED
  BY <1>2, <1>4

(* A start that fails after it has read the file owes again every such     *)
(* bind and saved variable; whether it manages to write it is StopWrites.  *)
THEOREM FailedStartSafe == Spec => FailedStartKeeps
<1> DEFINE Keeps ==
      Loaded /\ pc = "boot" /\ pc' = "stop" =>
        \A l \in Line \ (lost \cup Beyond):
          /\ Survives(disk, l)
          /\ l[1] = "seta" => /\ Given(promise, l) # NONE
                              /\ Owner[l[2]] # NONE => Saved[l[2]]
          => Given(promise', l) = Given(promise, l)
<1>1. IInv /\ [Next]_vars => Keeps
  <2> SUFFICES ASSUME IInv, [Next]_vars, Loaded, pc = "boot", pc' = "stop",
                      NEW l \in Kept, Coming(l),
                      l[1] = "seta" => (Owner[l[2]] # NONE => Saved[l[2]])
               PROVE  Given(promise', l) = Given(promise, l)
    BY DEF Coming, Kept
  <2>1. InitFails \/ Signal
    BY DEF Next, Step, vars, InitModule, ExecuteLine, LoadDone, LoadFails, BootDone, FrameQuits,
           ShutdownModule, SaveOpen, SaveLine, WriteFails, SaveClose, SaveFails, StopDone, Stops,
           Running, Leaving, Bind, SetVar, Set, Seta, Change, Quit, Exit2, Hang, Kill, Gone, Cut,
           Restart
  <2>2. PICK m \in Module: \E c \in {cvars, Registered(m)}: StopBegin(c)
    <3>1. CASE InitFails
      <4>1. BootOrder[next] \in Module
        BY <3>1, Modules, Orders DEF InitFails, IInv, TypeOK
      <4> QED
        BY <3>1, <4>1 DEF InitFails
    <3>2. CASE Signal
      BY <3>2, Modules DEF Signal
    <3> QED
      BY <2>1, <3>1, <3>2
  <2> PICK c \in {cvars, Registered(m)}: StopBegin(c)
    BY <2>2
  <2>3. next >= ConfigAfter
    BY Orders DEF IInv, TypeOK, Loaded, ConfigAfter
  <2>4. c \in CvarsType
    BY RegisteredType DEF IInv, TypeOK, CvarsType
  <2>5. promise' = SettingsOf(binds, c)
    BY DEF StopBegin, Owe
  <2>6. /\ promise'.bind = binds
        /\ \A x \in Var: promise'.var[x] = IF c[x].save THEN c[x].val ELSE NONE
    BY <2>4, <2>5, SettingsType DEF IInv, TypeOK
  <2>7. InForce(l) = Given(promise, l)
    BY <2>3 DEF IInv, ReadBack
  <2>8. CASE l[1] = "bind"
    BY <2>6, <2>7, <2>8 DEF InForce, Given
  <2>9. CASE l[1] = "seta"
    <3>1. l[2] \in Var /\ l[1] # "bind"
      BY <2>9, LineParts DEF Kept
    <3>2. c[l[2]].save /\ c[l[2]].val = Given(promise, l)
      BY <2>3, <2>9, StillSaved
    <3> QED
      BY <2>6, <3>1, <3>2 DEF Given
  <2> QED
    BY <2>8, <2>9, LineParts DEF Kept
<1>2. Keeps => [Keeps]_vars
  OBVIOUS
<1> QED
  BY <1>1, Inductive, PTL DEF Spec, FailedStartKeeps
=============================================================================
