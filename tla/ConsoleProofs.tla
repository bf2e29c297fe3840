--------------------------- MODULE ConsoleProofs ----------------------------
(* Proofs about the window, the keys, the calls into Lua, the files, the   *)
(* memory pools, the tables of commands and variables and the words of a   *)
(* line, for any modes of the screen, any keys, any number of values left  *)
(* on the stack, any names and contents of files, any pools, blocks, sizes *)
(* and limits, any names in a table, and any text and room for its words.  *)
EXTENDS Window, Input, LuaStack, Pools, Files, Tables, Tokens, ListsProofs,
        FiniteSetTheorems, FunctionTheorems, SequenceTheorems, TLAPS

-----------------------------------------------------------------------------
(* The window and the pointer (Window).                                    *)

(* Before a window is there the pointer is where it began, and nobody has  *)
(* toggled anything.                                                       *)
NotYet == session = "off" => cursor = <<0, 0>> /\ ~grab /\ ~grabSDL /\ ~shrunk

(* The parts of PointerKept.                                               *)
GrabKnown     == session = "on" => grab = grabSDL /\ (full /\ ~nograb => grab)
PointerInside == session = "on" /\ ~shrunk => cursor[1] <= extent[1] /\ cursor[2] <= extent[2]
KilledBy      == session = "killed" => custom[2] = 0 /\ rmode = <<>>

WindowInv == WindowType /\ GrabKnown /\ PointerInside /\ KilledBy /\ NotYet

LEMMA SideNat == Side \subseteq Nat /\ 0 \in Side
  BY WindowAssumption

(* A length of 0 is chosen only where the driver has no list of modes, and *)
(* only if it is the custom one; then no mode is saved.                    *)
LEMMA ChosenSize ==
  ASSUME WindowType, NEW modes \in ModeList
  PROVE  /\ Chosen(modes) \in Extents
         /\ Chosen(modes)[2] = 0 => custom[2] = 0 /\ ModeSaved(modes) = <<>>
         /\ ModeSaved(modes) \in {<<>>, <<0>>, <<1>>}
<1> DEFINE S == (Side \ {0}) \X (Side \ {0})
<1>1. modes \in Seq(S)
  BY WindowAssumption
<1>2. custom \in Extents /\ rmode \in {<<>>, <<0>>, <<1>>}
  BY DEF WindowType
<1>3. CASE modes = <<>>
  <2>1. Chosen(modes) = custom
    BY <1>3 DEF Chosen
  <2>2. ModeSaved(modes) = <<>>
    BY <1>3 DEF ModeSaved
  <2> QED
    BY <1>2, <2>1, <2>2
<1>4. CASE modes # <<>>
  <2>1. \A i \in DOMAIN modes: modes[i] \in Side \X Side /\ modes[i][1] # 0 /\ modes[i][2] # 0
    BY <1>1
  <2>2. 1 \in DOMAIN modes
    BY <1>1, <1>4
  <2>3. CASE rmode # <<>> /\ rmode[1] + 1 \in DOMAIN modes
    <3>1. Chosen(modes) \in Side \X Side /\ Chosen(modes)[2] # 0
      BY <1>4, <2>1, <2>2, <2>3 DEF Chosen
    <3> QED
      BY <1>2, <1>4, <2>3, <3>1 DEF Extents, ModeSaved
  <2>4. CASE ~(rmode # <<>> /\ rmode[1] + 1 \in DOMAIN modes)
    <3>1. Chosen(modes) = IF 0 \in {custom[1], custom[2]} THEN modes[1] ELSE custom
      BY <1>4, <2>4 DEF Chosen
    <3>2. Chosen(modes) \in Side \X Side /\ Chosen(modes)[2] # 0
      BY <1>2, <2>1, <2>2, <3>1 DEF Extents
    <3> QED
      BY <1>2, <1>4, <3>2 DEF Extents, ModeSaved
  <2> QED
    BY <2>3, <2>4
<1> QED
  BY <1>3, <1>4

LEMMA ClampWithin ==
  ASSUME NEW x \in Int, NEW last \in Nat
  PROVE  Clamp(x, last) \in 0 .. last
BY DEF Clamp

LEMMA WindowInductive == WindowInv /\ [WindowNext]_windowVars => WindowInv'
<1> SUFFICES ASSUME WindowInv, [WindowNext]_windowVars
             PROVE  WindowInv'
  OBVIOUS
<1> USE DEF settings
<1>0. WindowType /\ GrabKnown /\ PointerInside /\ KilledBy /\ NotYet
  BY DEF WindowInv
<1>1. ASSUME NEW modes \in ModeList, VideoInit(modes) PROVE WindowInv'
  <2>1. /\ Chosen(modes) \in Extents
        /\ Chosen(modes)[2] = 0 => custom[2] = 0 /\ ModeSaved(modes) = <<>>
        /\ ModeSaved(modes) \in {<<>>, <<0>>, <<1>>}
    BY <1>0, ChosenSize
  <2>2. CASE ModeSet(Chosen(modes), rfull)
    <3>1. extent' = Chosen(modes) /\ surf' = TRUE /\ UNCHANGED <<custom, rfull, nograb, focus, cursor, shrunk>>
          /\ rmode' = ModeSaved(modes) /\ session = "off"
      BY <1>1, <2>2 DEF VideoInit, ModeSet
    <3>2. /\ session' \in {"on", "killed"} /\ (session' = "killed" <=> Chosen(modes)[2] = 0)
          /\ full' = IF session' = "on" THEN rfull ELSE full
      BY <2>2 DEF ModeSet
    <3>3. \/ UNCHANGED <<grab, grabSDL>> /\ (nograb \/ session' = "killed")
          \/ grab' = TRUE /\ grabSDL' = TRUE
      <4>1. IF session' = "on" THEN GrabToggle(rfull) ELSE UNCHANGED <<grab, grabSDL>>
        <5>1. session' # "failed"
          BY <3>2
        <5> QED
          BY <1>1, <5>1, Zenon DEF VideoInit
      <4>2. ~grab
        BY <1>0, <3>1 DEF NotYet
      <4>3. CASE session' = "on" /\ ~nograb
        BY <4>1, <4>2, <4>3, Zenon DEF GrabToggle, GrabOn
      <4>4. CASE session' = "on" /\ nograb
        BY <4>1, <4>4, Zenon DEF GrabToggle
      <4>5. CASE session' = "killed"
        <5>1. session' # "on"
          BY <4>5
        <5> QED
          BY <4>1, <4>5, <5>1, Zenon
      <4> QED
        BY <3>2, <4>3, <4>4, <4>5, Zenon
    <3>4. grab' \in BOOLEAN /\ grabSDL' \in BOOLEAN /\ full' \in BOOLEAN
      BY <1>0, <3>2, <3>3 DEF WindowType
    <3>5. WindowType'
      BY <1>0, <2>1, <3>1, <3>2, <3>4 DEF WindowType
    <3>6. GrabKnown'
      <4>1. grab = FALSE /\ grabSDL = FALSE /\ nograb' = nograb
        BY <1>0, <3>1 DEF NotYet, WindowType
      <4>2. grab' = grabSDL'
        BY <3>3, <4>1
      <4>3. session' = "on" => nograb' \/ grab'
        <5>1. session' = "on" => session' # "killed"
          OBVIOUS
        <5> QED
          BY <3>3, <4>1, <5>1, Zenon
      <4> QED
        BY <4>2, <4>3, Zenon DEF GrabKnown
    <3>7. PointerInside' /\ KilledBy' /\ NotYet'
      <4>1. extent'[1] \in Nat /\ extent'[2] \in Nat
        BY <2>1, <3>1, SideNat DEF Extents
      <4> QED
        BY <1>0, <2>1, <3>1, <3>2, <4>1 DEF PointerInside, KilledBy, NotYet
    <3> QED
      BY <3>5, <3>6, <3>7 DEF WindowInv
  <2>3. CASE ModeRefused
    BY <1>0, <1>1, <2>1, <2>3
    DEF VideoInit, ModeRefused, ModeSet, WindowInv, WindowType, GrabKnown, PointerInside, KilledBy, NotYet
  <2> QED
    BY <1>1, <2>2, <2>3 DEF VideoInit
<1>2. CASE VideoNone
  BY <1>0, <1>2 DEF VideoNone, WindowInv, WindowType, GrabKnown, PointerInside, KilledBy, NotYet
<1>3. CASE Fullscreen
  <2>1. WindowType' /\ PointerInside' /\ KilledBy' /\ NotYet'
    BY <1>0, <1>3 DEF Fullscreen, InFrame, WindowType, PointerInside, KilledBy, NotYet, GrabToggle, GrabOn
  <2>2. GrabKnown'
    BY <1>0, <1>3 DEF Fullscreen, InFrame, WindowType, GrabKnown, GrabToggle, GrabOn
  <2> QED
    BY <2>1, <2>2 DEF WindowInv
<1>4. CASE Ungrab
  BY <1>0, <1>4
  DEF Ungrab, InFrame, GrabToggle, GrabOn, WindowInv, WindowType, GrabKnown, PointerInside, KilledBy, NotYet
<1>5. ASSUME NEW bump \in BOOLEAN, ActiveEvent(bump) PROVE WindowInv'
  BY <1>0, <1>5 DEF ActiveEvent, InFrame, WindowInv, WindowType, GrabKnown, PointerInside, KilledBy, NotYet
<1>6. ASSUME NEW wh \in Extents, Resize(wh) PROVE WindowInv'
  <2>1. UNCHANGED <<settings, grab, grabSDL, focus, cursor, full>> /\ session = "on" /\ session' = "on"
    BY <1>6 DEF Resize, InFrame, ModeSet, ModeRefused
  <2>2. surf' \in BOOLEAN /\ shrunk' \in BOOLEAN /\ extent' \in Extents
    BY <1>0, <1>6 DEF Resize, ModeSet, ModeRefused, WindowType
  <2>3. ~shrunk' => ~shrunk /\ extent' = extent
    BY <1>6 DEF Resize, ModeSet, ModeRefused
  <2> QED
    BY <1>0, <2>1, <2>2, <2>3 DEF WindowInv, WindowType, GrabKnown, PointerInside, KilledBy, NotYet
<1>7. ASSUME NEW dx \in {-1, 0, 1}, NEW dy \in {-1, 0, 1}, MouseEvent(dx, dy) PROVE WindowInv'
  <2>1. extent[1] \in Nat /\ extent[2] \in Nat
    BY <1>0, SideNat DEF WindowType, Extents
  <2>2. /\ Clamp(cursor[1] + dx, extent[1]) \in 0 .. extent[1]
        /\ Clamp(cursor[2] - dy, extent[2]) \in 0 .. extent[2]
    <3>1. cursor[1] + dx \in Int /\ cursor[2] - dy \in Int
      BY <1>0 DEF WindowType
    <3> QED
      BY <2>1, <3>1, ClampWithin
  <2>3. UNCHANGED <<settings, session, extent, surf, full, grab, grabSDL, focus>> /\ session = "on"
    BY <1>7 DEF MouseEvent, InFrame
  <2>4. \/ UNCHANGED <<cursor, shrunk>>
        \/ /\ cursor' = <<Clamp(cursor[1] + dx, extent[1]), Clamp(cursor[2] - dy, extent[2])>>
           /\ shrunk' = FALSE
    BY <1>7 DEF MouseEvent
  <2>5. CASE UNCHANGED <<cursor, shrunk>>
    BY <1>0, <2>3, <2>5 DEF WindowInv, WindowType, GrabKnown, PointerInside, KilledBy, NotYet
  <2>6. CASE /\ cursor' = <<Clamp(cursor[1] + dx, extent[1]), Clamp(cursor[2] - dy, extent[2])>>
             /\ shrunk' = FALSE
    <3> DEFINE x == Clamp(cursor[1] + dx, extent[1])
               y == Clamp(cursor[2] - dy, extent[2])
    <3> HIDE DEF x, y
    <3>a. x \in Nat /\ y \in Nat /\ x <= extent[1] /\ y <= extent[2] /\ cursor' = <<x, y>>
      BY <2>1, <2>2, <2>6 DEF x, y
    <3>1. cursor' \in Nat \X Nat /\ cursor'[1] <= extent[1] /\ cursor'[2] <= extent[2]
      BY <3>a
    <3> QED
      BY <1>0, <2>3, <2>6, <3>1 DEF WindowInv, WindowType, GrabKnown, PointerInside, KilledBy, NotYet
  <2> QED
    BY <2>4, <2>5, <2>6
<1>8. CASE UNCHANGED windowVars
  BY <1>0, <1>8 DEF windowVars, WindowInv, WindowType, GrabKnown, PointerInside, KilledBy, NotYet
<1> QED
  BY <1>1, <1>2, <1>3, <1>4, <1>5, <1>6, <1>7, <1>8 DEF WindowNext

(* However full screen, the grab, the window's size and the focus change   *)
(* (video_sdl.c, mouse.c): the engine knows whether the pointer is         *)
(* confined, it is in full screen, and its position is in the window.      *)
THEOREM PointerStays == WindowSpec => []PointerKept
<1>1. ASSUME WindowInit PROVE WindowInv
  <2>1. WindowType
    BY <1>1, SideNat DEF WindowInit, WindowType, Extents
  <2> QED
    BY <1>1, <2>1 DEF WindowInit, WindowInv, GrabKnown, PointerInside, KilledBy, NotYet
<1>2. WindowInv => PointerKept
  BY DEF WindowInv, PointerKept, GrabKnown, PointerInside, KilledBy
<1> QED
  BY <1>1, <1>2, WindowInductive, PTL DEF WindowSpec

-----------------------------------------------------------------------------
(* The keys (Input).                                                       *)

Event == [type: {"key", "active"}, key: Key \cup {NONE}, mod: BOOLEAN, down: BOOLEAN]

IsUp(e, k)   == e.type = "key" /\ e.key = k /\ ~e.down
IsDown(e, k) == e.type = "key" /\ e.key = k /\ e.down
UpAfter(k, i) == \E j \in DOMAIN events: j > i /\ IsUp(events[j], k)

(* What SDL has queued of a key ends with its key-up unless it is down.    *)
QueueTrue == \A k \in Key: \A i \in DOMAIN events: IsDown(events[i], k) => k \in down \/ UpAfter(k, i)

(* A text that its key is not bound to any more is excused.                *)
BoundAnew == \A k \in Key: heard[k] \ Bound(k) \subseteq excused[k]

(* So is every text when the window has been left; and a text that is not  *)
(* excused has its key down, or the key-up is on its way.                  *)
LeftAlone == ~grabbed => \A k \in Key: heard[k] \subseteq excused[k]
OnItsWay  == \A k \in Key: heard[k] \subseteq excused[k] \/ k \in down \/ UpAfter(k, 0)

Polled == frame = "run" => events = <<>>

InputInv == InputType /\ QueueTrue /\ BoundAnew /\ LeftAlone /\ OnItsWay /\ Polled

(* SDL adds events behind those there are: for a key that is not down any  *)
(* more one of them is its key-up, and for one that has not been down none *)
(* is a key-down.                                                          *)
LEMMA Enqueued ==
  ASSUME InputInv, NEW new \in Seq(Event), Enqueue(new), down' \subseteq Key, alt' \in BOOLEAN,
         \A k \in down \ down': \E j \in DOMAIN new: IsUp(new[j], k),
         \A k \in Key, i \in DOMAIN new: IsDown(new[i], k) => k \in down'
  PROVE  InputInv'
<1>1. events \in Seq(Event)
  BY DEF InputInv, InputType, Event
<1>2. /\ events' = events \o new /\ frame # "run"
      /\ UNCHANGED <<frame, grabbed, binds, heard, excused>>
  BY DEF Enqueue
<1>3. /\ events' \in Seq(Event) /\ Len(events') = Len(events) + Len(new)
      /\ \A i \in 1 .. Len(events): events'[i] = events[i]
      /\ \A i \in 1 .. Len(new): events'[Len(events) + i] = new[i]
      /\ \A i \in 1 .. Len(events'): i > Len(events) =>
           i - Len(events) \in 1 .. Len(new) /\ events'[i] = new[i - Len(events)]
  BY <1>1, <1>2, ConcatProperties
<1>4. Len(events) \in Nat /\ Len(new) \in Nat /\ DOMAIN events = 1 .. Len(events)
      /\ DOMAIN new = 1 .. Len(new) /\ DOMAIN events' = 1 .. Len(events')
  BY <1>1, <1>3, LenProperties
<1>5. ASSUME NEW k \in Key, NEW i \in 0 .. Len(events), UpAfter(k, i) PROVE UpAfter(k, i)'
  BY <1>3, <1>4, <1>5 DEF UpAfter
<1>6. ASSUME NEW k \in down \ down', NEW i \in 0 .. Len(events) PROVE UpAfter(k, i)'
  <2>1. PICK j \in DOMAIN new: IsUp(new[j], k)
    OBVIOUS
  <2>2. Len(events) + j \in DOMAIN events' /\ Len(events) + j > i /\ IsUp(events'[Len(events) + j], k)
    BY <1>3, <1>4, <2>1
  <2> QED
    BY <2>2 DEF UpAfter
<1>7. QueueTrue'
  <2> SUFFICES ASSUME NEW k \in Key, NEW i \in DOMAIN events', IsDown(events'[i], k), k \notin down'
               PROVE  UpAfter(k, i)'
    BY DEF QueueTrue
  <2>1. i <= Len(events) /\ i \in DOMAIN events /\ events'[i] = events[i] /\ i \in 0 .. Len(events)
    BY <1>3, <1>4
  <2> QED
    BY <1>5, <1>6, <2>1 DEF InputInv, QueueTrue
<1>8. OnItsWay'
  <2> SUFFICES ASSUME NEW k \in Key, ~(heard[k] \subseteq excused[k]), k \notin down'
               PROVE  UpAfter(k, 0)'
    BY <1>2 DEF OnItsWay
  <2> QED
    BY <1>4, <1>5, <1>6 DEF InputInv, OnItsWay
<1>9. InputType'
  BY <1>2, <1>3 DEF InputInv, InputType, Event
<1>10. BoundAnew' /\ LeftAlone' /\ Polled'
  BY <1>2 DEF InputInv, BoundAnew, LeftAlone, Polled, Bound
<1> QED
  BY <1>7, <1>8, <1>9, <1>10 DEF InputInv

LEMMA PollKeeps == InputInv /\ Poll => InputInv'
<1> SUFFICES ASSUME InputInv, Poll
             PROVE  InputInv'
  OBVIOUS
<1> DEFINE e == Head(events)
<1>1. events \in Seq(Event) /\ events # <<>> /\ events' = Tail(events)
      /\ UNCHANGED <<down, alt, frame, binds>> /\ frame = "poll"
  BY DEF InputInv, InputType, Event, Poll
<1>2. /\ e \in Event /\ e = events[1] /\ events' \in Seq(Event)
      /\ Len(events) \in Nat \ {0} /\ Len(events') = Len(events) - 1
      /\ \A i \in 1 .. Len(events'): events'[i] = events[i + 1]
      /\ DOMAIN events = 1 .. Len(events) /\ DOMAIN events' = 1 .. Len(events')
  BY <1>1, HeadTailProperties, LenProperties
<1>3. ASSUME NEW k \in Key, NEW i \in 1 .. Len(events), UpAfter(k, i) PROVE UpAfter(k, i - 1)'
  <2>1. PICK j \in DOMAIN events: j > i /\ IsUp(events[j], k)
    BY <1>3 DEF UpAfter
  <2>2. j - 1 \in DOMAIN events' /\ j - 1 > i - 1 /\ events'[j - 1] = events[j]
    BY <1>2, <2>1
  <2> QED
    BY <2>1, <2>2 DEF UpAfter
<1>4. QueueTrue'
  <2> SUFFICES ASSUME NEW k \in Key, NEW i \in DOMAIN events', IsDown(events'[i], k), k \notin down'
               PROVE  UpAfter(k, i)'
    BY DEF QueueTrue
  <2>1. i + 1 \in DOMAIN events /\ i + 1 \in 1 .. Len(events) /\ IsDown(events[i + 1], k) /\ (i + 1) - 1 = i
    BY <1>2
  <2>2. UpAfter(k, i + 1)
    BY <1>1, <2>1 DEF InputInv, QueueTrue
  <2> QED
    BY <1>3, <2>1, <2>2
(* The key-up of another key is still on its way.                          *)
<1>5. ASSUME NEW k \in Key, UpAfter(k, 0), ~IsUp(e, k) PROVE UpAfter(k, 0)'
  <2>1. PICK j \in DOMAIN events: IsUp(events[j], k)
    BY <1>5 DEF UpAfter
  <2>2. j \in 1 .. Len(events) /\ j # 1
    BY <1>2, <1>5, <2>1
  <2>3. j - 1 \in DOMAIN events' /\ j - 1 > 0 /\ events'[j - 1] = events[j]
    BY <1>2, <2>2
  <2> QED
    BY <2>1, <2>3 DEF UpAfter
<1>6. CASE e.type # "key"
  <2>1. grabbed' = e.down /\ UNCHANGED heard /\ excused' = IF grabbed' THEN excused ELSE heard
    BY <1>6 DEF Poll
  <2>2. grabbed' \in BOOLEAN
    BY <1>2, <2>1 DEF Event
  <2>3. InputType'
    BY <1>1, <1>2, <2>1, <2>2 DEF InputInv, InputType, Event
  <2>4. BoundAnew'
    BY <1>1, <2>1, <2>2 DEF InputInv, BoundAnew, Bound
  <2>5. LeftAlone'
    BY <2>1, <2>2 DEF LeftAlone
  <2>6. OnItsWay'
    <3>1. \A k \in Key: ~IsUp(e, k)
      BY <1>6 DEF IsUp
    <3> QED
      BY <1>1, <1>5, <2>1, <2>2, <3>1 DEF InputInv, OnItsWay
  <2> QED
    BY <1>1, <1>4, <2>3, <2>4, <2>5, <2>6 DEF InputInv, Polled
<1>7. CASE e.type = "key" /\ (~grabbed \/ Taken(e))
  <2>1. UNCHANGED <<grabbed, heard, excused>>
    BY <1>7 DEF Poll, KeyPolled
  <2>2. InputType' /\ BoundAnew' /\ LeftAlone'
    BY <1>1, <1>2, <2>1 DEF InputInv, InputType, Event, BoundAnew, Bound, LeftAlone
  <2>3. OnItsWay'
    <3> SUFFICES ASSUME NEW k \in Key, ~(heard[k] \subseteq excused[k]), k \notin down
                 PROVE  UpAfter(k, 0)'
      BY <1>1, <2>1 DEF OnItsWay
    <3>1. grabbed
      BY DEF InputInv, LeftAlone
    <3>2. ~IsUp(e, k)
      BY <1>7, <3>1 DEF Taken, IsUp
    <3> QED
      BY <1>5, <3>2 DEF InputInv, OnItsWay
  <2> QED
    BY <1>1, <1>4, <2>2, <2>3 DEF InputInv, Polled
<1>8. CASE e.type = "key" /\ grabbed /\ ~Taken(e) /\ TextAdded(e)
  <2> DEFINE q == e.key
  <2>1. /\ UNCHANGED grabbed
        /\ heard' = [heard EXCEPT ![q] = IF e.down THEN @ \cup Bound(q) ELSE @ \ Bound(q)]
        /\ excused' = [excused EXCEPT ![q] = @ \ Bound(q)]
    BY <1>8 DEF Poll, TextAdded
  <2>2. \A k \in Key: Bound(k) \subseteq Binding /\ Bound(k)' = Bound(k)
    BY <1>1 DEF InputInv, InputType, Bound
  <2>3. /\ heard' \in [Key -> SUBSET Binding] /\ excused' \in [Key -> SUBSET Binding]
        /\ \A k \in Key: k # q => heard'[k] = heard[k] /\ excused'[k] = excused[k]
        /\ q \in Key => excused'[q] = excused[q] \ Bound(q)
        /\ q \in Key /\ e.down => heard'[q] = heard[q] \cup Bound(q)
        /\ q \in Key /\ ~e.down => heard'[q] = heard[q] \ Bound(q)
    BY <2>1, <2>2 DEF InputInv, InputType
  <2>4. InputType'
    BY <1>1, <1>2, <2>1, <2>3 DEF InputInv, InputType, Event
  <2>5. BoundAnew'
    <3> SUFFICES ASSUME NEW k \in Key PROVE heard'[k] \ Bound(k) \subseteq excused'[k]
      BY <2>2 DEF BoundAnew
    <3>1. heard[k] \ Bound(k) \subseteq excused[k]
      BY DEF InputInv, BoundAnew
    <3> HIDE DEF q
    <3> QED
      BY <2>3, <3>1
  <2>6. LeftAlone'
    BY <1>8, <2>1 DEF LeftAlone
  <2>7. OnItsWay'
    <3> SUFFICES ASSUME NEW k \in Key, ~(heard'[k] \subseteq excused'[k]), k \notin down
                 PROVE  UpAfter(k, 0)'
      BY <1>1 DEF OnItsWay
    <3>1. CASE k # q
      <4>1. ~IsUp(e, k) /\ heard'[k] = heard[k] /\ excused'[k] = excused[k]
        BY <2>3, <3>1 DEF IsUp
      <4> QED
        BY <1>5, <4>1 DEF InputInv, OnItsWay
    <3>2. CASE k = q /\ e.down
      <4>1. IsDown(events[1], k) /\ 1 \in DOMAIN events
        BY <1>2, <1>8, <3>2 DEF IsDown
      <4>2. UpAfter(k, 1) /\ 1 \in 1 .. Len(events)
        BY <1>2, <4>1 DEF InputInv, QueueTrue
      <4> QED
        BY <1>3, <4>2
    <3>3. CASE k = q /\ ~e.down
      <4>1. heard[k] \ Bound(k) \subseteq excused[k]
        BY DEF InputInv, BoundAnew
      <4> QED
        BY <2>3, <3>3, <4>1
    <3> QED
      BY <3>1, <3>2, <3>3
  <2> QED
    BY <1>1, <1>4, <2>4, <2>5, <2>6, <2>7 DEF InputInv, Polled
<1>9. CASE e.type = "key" /\ grabbed /\ ~Taken(e) /\ Overflows(e)
  <2> DEFINE q == e.key
  <2>1. /\ UNCHANGED <<grabbed, heard>> /\ Bound(q) # {}
        /\ excused' = IF e.down THEN excused ELSE [excused EXCEPT ![q] = @ \cup (heard[q] \cap Bound(q))]
    BY <1>9 DEF Poll, Overflows
  <2>2. \A k \in Key: Bound(k) \subseteq Binding /\ Bound(k)' = Bound(k)
    BY <1>1 DEF InputInv, InputType, Bound
  <2>3. /\ excused' \in [Key -> SUBSET Binding]
        /\ \A k \in Key: excused[k] \subseteq excused'[k]
        /\ q \in Key /\ ~e.down => heard[q] \cap Bound(q) \subseteq excused'[q]
    BY <2>1, <2>2 DEF InputInv, InputType
  <2>4. InputType'
    BY <1>1, <1>2, <2>1, <2>3 DEF InputInv, InputType, Event
  <2>5. BoundAnew'
    BY <2>1, <2>2, <2>3 DEF InputInv, BoundAnew
  <2>6. LeftAlone'
    BY <1>9, <2>1 DEF LeftAlone
  <2>7. OnItsWay'
    <3> SUFFICES ASSUME NEW k \in Key, ~(heard'[k] \subseteq excused'[k]), k \notin down
                 PROVE  UpAfter(k, 0)'
      BY <1>1 DEF OnItsWay
    <3>0. ~(heard[k] \subseteq excused[k])
      BY <2>1, <2>3
    <3>1. CASE k # q
      <4>1. ~IsUp(e, k)
        BY <3>1 DEF IsUp
      <4> QED
        BY <1>5, <3>0, <4>1 DEF InputInv, OnItsWay
    <3>2. CASE k = q /\ e.down
      <4>1. IsDown(events[1], k) /\ 1 \in DOMAIN events
        BY <1>2, <1>9, <3>2 DEF IsDown
      <4>2. UpAfter(k, 1) /\ 1 \in 1 .. Len(events)
        BY <1>2, <4>1 DEF InputInv, QueueTrue
      <4> QED
        BY <1>3, <4>2
    <3>3. CASE k = q /\ ~e.down
      <4>1. heard[k] \ Bound(k) \subseteq excused[k]
        BY DEF InputInv, BoundAnew
      <4> QED
        BY <2>1, <2>3, <3>3, <4>1
    <3> QED
      BY <3>1, <3>2, <3>3
  <2> QED
    BY <1>1, <1>4, <2>4, <2>5, <2>6, <2>7 DEF InputInv, Polled
<1>10. e.type = "key" => ~grabbed \/ Taken(e) \/ TextAdded(e) \/ Overflows(e)
  BY DEF Poll, KeyPolled
<1> QED
  BY <1>6, <1>7, <1>8, <1>9, <1>10

(* The key-ups that SDL makes when the window loses the focus.             *)
LEMMA ReleasedAll ==
  ASSUME InputInv, NEW order \in Releases
  PROVE  LET new == <<Active(FALSE)>> \o [i \in DOMAIN order |-> KeyEvent(order[i], FALSE)]
         IN  /\ new \in Seq(Event)
             /\ \A k \in down: \E j \in DOMAIN new: IsUp(new[j], k)
             /\ \A i \in DOMAIN new: ~(new[i].type = "key" /\ new[i].down)
<1> DEFINE n == Cardinality(down)
           ups == [i \in DOMAIN order |-> KeyEvent(order[i], FALSE)]
           new == <<Active(FALSE)>> \o ups
<1>1. down \subseteq Key /\ alt \in BOOLEAN
  BY DEF InputInv, InputType
<1>2. n \in Nat
  BY <1>1, InputAssumption, FS_Subset, FS_CardinalityType
<1> HIDE DEF n
<1>3. order \in [1 .. n -> down] /\ \A k \in down: \E i \in DOMAIN order: order[i] = k
  BY DEF Releases, n
<1>4. ups \in [1 .. n -> Event] /\ \A i \in 1 .. n: ups[i] = KeyEvent(order[i], FALSE)
  BY <1>1, <1>3 DEF KeyEvent, Event
<1> HIDE DEF ups
<1>5. ups \in Seq(Event) /\ Len(ups) = n
  BY <1>2, <1>4
<1>6. <<Active(FALSE)>> \in Seq(Event) /\ Len(<<Active(FALSE)>>) = 1
  BY DEF Active, Event
<1>7. /\ new \in Seq(Event) /\ Len(new) = 1 + n /\ new[1] = Active(FALSE)
      /\ \A i \in 1 .. n: new[1 + i] = ups[i]
  <2> DEFINE one == <<Active(FALSE)>>
  <2>1. one[1] = Active(FALSE)
    OBVIOUS
  <2> HIDE DEF one
  <2>2. one \in Seq(Event) /\ Len(one) = 1
    BY <1>6 DEF one
  <2>3. /\ one \o ups \in Seq(Event) /\ Len(one \o ups) = 1 + n
        /\ \A i \in 1 .. 1: (one \o ups)[i] = one[i]
        /\ \A i \in 1 .. n: (one \o ups)[1 + i] = ups[i]
    <3>0. /\ one \o ups \in Seq(Event) /\ Len(one \o ups) = Len(one) + Len(ups)
          /\ \A i \in 1 .. Len(one) + Len(ups):
               (one \o ups)[i] = IF i <= Len(one) THEN one[i] ELSE ups[i - Len(one)]
      BY <1>5, <2>2, ConcatProperties, Zenon
    <3>1. /\ one \o ups \in Seq(Event) /\ Len(one \o ups) = 1 + n
          /\ \A i \in 1 .. 1 + n: (one \o ups)[i] = IF i <= 1 THEN one[i] ELSE ups[i - 1]
      BY <1>5, <2>2, <3>0, Zenon
    <3>2. ASSUME NEW i \in 1 .. n PROVE (one \o ups)[1 + i] = ups[i]
      <4>1. 1 + i \in 1 .. 1 + n /\ ~(1 + i <= 1) /\ (1 + i) - 1 = i
        BY <1>2
      <4> QED
        BY <3>1, <4>1
    <3> QED
      BY <1>2, <3>1, <3>2
  <2>4. new = one \o ups
    BY DEF one
  <2> HIDE DEF new
  <2>5. (one \o ups)[1] = one[1]
    <3>1. 1 \in 1 .. 1
      OBVIOUS
    <3> QED
      BY <2>3, <3>1, Zenon
  <2> QED
    BY <2>1, <2>3, <2>4, <2>5, Zenon
<1>8. DOMAIN new = 1 .. n + 1
  BY <1>2, <1>7, LenProperties
<1> HIDE DEF new
<1>9. ASSUME NEW k \in down PROVE \E j \in DOMAIN new: IsUp(new[j], k)
  <2>1. PICK i \in 1 .. n: order[i] = k
    BY <1>3
  <2>2. i + 1 \in DOMAIN new /\ i + 1 = 1 + i
    BY <1>2, <1>8
  <2>3. new[i + 1] = KeyEvent(k, FALSE)
    BY <1>4, <1>7, <2>1, <2>2
  <2> QED
    BY <2>2, <2>3 DEF IsUp, KeyEvent
<1>10. ASSUME NEW i \in DOMAIN new PROVE ~(new[i].type = "key" /\ new[i].down)
  <2>1. CASE i = 1
    BY <1>7, <2>1 DEF Active
  <2>2. CASE i # 1
    <3>1. i - 1 \in 1 .. n /\ i = 1 + (i - 1)
      BY <1>2, <1>8, <2>2
    <3>2. new[i] = KeyEvent(order[i - 1], FALSE)
      BY <1>4, <1>7, <3>1
    <3> QED
      BY <3>2 DEF KeyEvent
  <2> QED
    BY <2>1, <2>2
<1> QED
  BY <1>7, <1>9, <1>10 DEF new, ups

LEMMA InputInductive == InputInv /\ [InputNext]_inputVars => InputInv'
<1> SUFFICES ASSUME InputInv, [InputNext]_inputVars
             PROVE  InputInv'
  OBVIOUS
<1>0. down \subseteq Key /\ alt \in BOOLEAN
  BY DEF InputInv, InputType
<1>1. ASSUME NEW k \in Key, KeyDown(k) PROVE InputInv'
  <2> DEFINE new == <<KeyEvent(k, TRUE)>>
  <2>1. new \in Seq(Event) /\ Len(new) = 1 /\ new[1] = KeyEvent(k, TRUE) /\ DOMAIN new = {1}
    BY <1>0 DEF KeyEvent, Event
  <2>2. Enqueue(new) /\ down' = down \cup {k} /\ alt' = alt
    BY <1>1 DEF KeyDown
  <2> HIDE DEF new
  <2>3. \A j \in Key, i \in DOMAIN new: IsDown(new[i], j) => j \in down'
    BY <2>1, <2>2 DEF IsDown, KeyEvent
  <2> QED
    BY <1>0, <2>1, <2>2, <2>3, Enqueued
<1>2. ASSUME NEW k \in Key, KeyUp(k) PROVE InputInv'
  <2> DEFINE new == <<KeyEvent(k, FALSE)>>
  <2>1. new \in Seq(Event) /\ Len(new) = 1 /\ new[1] = KeyEvent(k, FALSE) /\ DOMAIN new = {1}
    BY <1>0 DEF KeyEvent, Event
  <2>2. Enqueue(new) /\ down' = down \ {k} /\ alt' = alt
    BY <1>2 DEF KeyUp
  <2> HIDE DEF new
  <2>3. /\ \A j \in down \ down': \E i \in DOMAIN new: IsUp(new[i], j)
        /\ \A j \in Key, i \in DOMAIN new: ~IsDown(new[i], j)
    BY <2>1, <2>2 DEF IsUp, IsDown, KeyEvent
  <2> QED
    BY <1>0, <2>1, <2>2, <2>3, Enqueued
<1>3. CASE Alt
  <2>1. Enqueue(<<>>) /\ down' = down /\ alt' \in BOOLEAN /\ <<>> \in Seq(Event) /\ DOMAIN <<>> = {}
    BY <1>3 DEF Alt
  <2> QED
    BY <1>0, <2>1, Enqueued
<1>4. ASSUME NEW bump \in BOOLEAN, Activate(bump) PROVE InputInv'
  <2> DEFINE new == <<Active(bump)>>
  <2>1. new \in Seq(Event) /\ new[1] = Active(bump) /\ DOMAIN new = {1}
    BY DEF Active, Event
  <2>2. Enqueue(new) /\ down' = down /\ alt' = alt
    BY <1>4 DEF Activate
  <2> HIDE DEF new
  <2>3. \A j \in Key, i \in DOMAIN new: ~IsDown(new[i], j)
    BY <2>1 DEF IsDown, Active
  <2> QED
    BY <1>0, <2>1, <2>2, <2>3, Enqueued
<1>5. CASE LoseFocus
  <2>1. PICK order \in Releases:
          Enqueue(<<Active(FALSE)>> \o [i \in DOMAIN order |-> KeyEvent(order[i], FALSE)])
    BY <1>5 DEF LoseFocus
  <2> DEFINE new == <<Active(FALSE)>> \o [i \in DOMAIN order |-> KeyEvent(order[i], FALSE)]
  <2>2. /\ new \in Seq(Event)
        /\ \A k \in down: \E j \in DOMAIN new: IsUp(new[j], k)
        /\ \A i \in DOMAIN new: ~(new[i].type = "key" /\ new[i].down)
    BY ReleasedAll
  <2>3. Enqueue(new) /\ down' = {} /\ alt' = alt
    BY <1>5, <2>1 DEF LoseFocus
  <2> HIDE DEF new
  <2>4. \A k \in Key, i \in DOMAIN new: ~IsDown(new[i], k)
    BY <2>2 DEF IsDown
  <2> QED
    BY <1>0, <2>2, <2>3, <2>4, Enqueued
<1>6. CASE BeginPoll
  BY <1>6 DEF BeginPoll, InputInv, InputType, QueueTrue, BoundAnew, LeftAlone, OnItsWay, Polled, UpAfter, Bound
<1>7. CASE Poll
  BY <1>7, PollKeeps
<1>8. CASE PollDone
  BY <1>8 DEF PollDone, InputInv, InputType, QueueTrue, BoundAnew, LeftAlone, OnItsWay, Polled, UpAfter, Bound
<1>9. ASSUME NEW k \in Key, NEW t \in Binding, BindKey(k, t) PROVE InputInv'
  <2>1. /\ frame = "run" /\ binds' = [binds EXCEPT ![k] = t]
        /\ excused' = [excused EXCEPT ![k] = @ \cup (heard[k] \ {t})]
        /\ UNCHANGED <<down, alt, events, frame, grabbed, heard>>
    BY <1>9 DEF BindKey
  <2>2. /\ InputType' /\ \A j \in Key: excused[j] \subseteq excused'[j]
        /\ heard[k] \ {t} \subseteq excused'[k] /\ binds'[k] = t
        /\ \A j \in Key \ {k}: binds'[j] = binds[j]
    BY <2>1 DEF InputInv, InputType
  <2>3. t # NONE
    BY InputAssumption
  <2>4. BoundAnew'
    BY <2>1, <2>2, <2>3 DEF InputInv, BoundAnew, Bound
  <2>5. QueueTrue' /\ LeftAlone' /\ OnItsWay' /\ Polled'
    BY <2>1, <2>2 DEF InputInv, QueueTrue, LeftAlone, OnItsWay, Polled, UpAfter
  <2> QED
    BY <2>2, <2>4, <2>5 DEF InputInv
<1>10. CASE RunDone
  BY <1>10 DEF RunDone, InputInv, InputType, QueueTrue, BoundAnew, LeftAlone, OnItsWay, Polled, UpAfter, Bound
<1>11. CASE UNCHANGED inputVars
  BY <1>11 DEF inputVars, InputInv, InputType, QueueTrue, BoundAnew, LeftAlone, OnItsWay, Polled, UpAfter, Bound
<1> QED
  BY <1>1, <1>2, <1>3, <1>4, <1>5, <1>6, <1>7, <1>8, <1>9, <1>10, <1>11 DEF InputNext

(* In whatever order keys, focus and bindings change between two frames    *)
(* (keyboard.c, video_sdl.c): when commands run, none goes on believing    *)
(* that a key is pressed that has been released, unless it is excused.     *)
THEOREM NoKeyStaysPressed == InputSpec => []KeysReleased
<1>1. ASSUME InputInit PROVE InputInv
  <2>1. InputType
    <3>1. <<>> \in Seq([type: {"key", "active"}, key: Key \cup {NONE}, mod: BOOLEAN, down: BOOLEAN])
      OBVIOUS
    <3>2. down \subseteq Key /\ frame \in {"wait", "poll", "run"}
      BY <1>1 DEF InputInit
    <3>3. alt \in BOOLEAN
      BY <1>1 DEF InputInit
    <3>4. grabbed \in BOOLEAN
      BY <1>1 DEF InputInit
    <3>5. binds \in [Key -> Binding \cup {NONE}]
      BY <1>1 DEF InputInit
    <3>6. heard \in [Key -> SUBSET Binding] /\ excused \in [Key -> SUBSET Binding]
      BY <1>1 DEF InputInit
    <3> QED
      BY <1>1, <3>1, <3>2, <3>3, <3>4, <3>5, <3>6 DEF InputInit, InputType
  <2>2. QueueTrue /\ LeftAlone /\ OnItsWay /\ Polled
    BY <1>1 DEF InputInit, QueueTrue, LeftAlone, OnItsWay, Polled
  <2>3. BoundAnew
    BY <1>1 DEF InputInit, BoundAnew
  <2> QED
    BY <2>1, <2>2, <2>3 DEF InputInv
<1>2. InputInv => KeysReleased
  BY DEF InputInv, KeysReleased, Polled, OnItsWay, UpAfter
<1> QED
  BY <1>1, <1>2, InputInductive, PTL DEF InputSpec

-----------------------------------------------------------------------------
(* The calls into Lua (LuaStack).                                          *)

Frame == [top: -2..(MaxLeft + 7), cell: [Cells -> Value],
          call: [site: Site \cup {"none"}, args: 0..4, base: -1..(MaxLeft + 3)]]

(* How many values a site passes, and the lowest place its function may    *)
(* have been at.                                                           *)
Passed(site) == CASE site = "main" -> 0 [] site = "think" -> 1 [] OTHER -> 4
Lowest(site) == IF site = "mouse" THEN 0 ELSE 1
Above(site)  == IF Handled(site) THEN 1 ELSE 0
Highest(site) == CASE site \in {"touch", "think"} -> MaxLeft + 2
                   [] site = "main" -> 1 [] OTHER -> MaxLeft + 1

(* A frame that a call is under way from has the function where the call   *)
(* found it, or above it with the handler in its place; the others have    *)
(* room for the next call.                                                 *)
FrameRight(f) ==
  /\ f \in Frame
  /\ f.call = Idle => f.top <= MaxLeft
  /\ f.call # Idle =>
       /\ f.call.site \in Site /\ f.call.args = Passed(f.call.site)
       /\ f.call.base \in Lowest(f.call.site) .. Highest(f.call.site)
       /\ f.top = f.call.base + f.call.args + Above(f.call.site)

AllRight(s) == s \in Seq(Frame) /\ s # <<>> /\ \A i \in DOMAIN s: FrameRight(s[i])

Framed == AllRight(stack)
Up     == gUp \in BOOLEAN
Heard  == missed \subseteq {"cmd"} /\ said \in Value \cup {NONE}
          /\ answer \in Value \cup {NONE} /\ (said # NONE => answer = said)
Told   == Up /\ Heard

StackInv == Framed /\ Told

LEMMA RoomForResults ==
  ASSUME NEW a \in Nat, NEW n \in Nat, NEW b \in Nat, NEW m \in Nat,
         a <= b + 1, n <= 2, b <= m + 2
  PROVE  a + n <= m + 8
  OBVIOUS

LEMMA LeftNat == MaxLeft \in Nat /\ MaxLeft >= 1
  BY LuaStackAssumption

LEMMA FrameParts ==
  ASSUME NEW f \in Frame
  PROVE  /\ f = [top |-> f.top, cell |-> f.cell, call |-> f.call]
         /\ f.top \in Int /\ f.top >= -2 /\ f.top <= MaxLeft + 7 /\ f.cell \in [Cells -> Value]
  BY LeftNat DEF Frame

(* Pushing onto a frame that no call is under way from.                    *)
LEMMA PushesAll ==
  ASSUME NEW f \in Frame, f.top >= -1, f.top <= MaxLeft, NEW vs \in Seq(Value), Len(vs) <= 6
  PROVE  LET g == PushAll(f, vs)
         IN  /\ g \in Frame /\ g.top = f.top + Len(vs) /\ g.call = f.call
             /\ \A i \in 1 .. Len(vs): f.top + i \in Cells => g.cell[f.top + i] = vs[i]
<1> DEFINE c == [k \in Cells |-> IF k - f.top \in DOMAIN vs THEN vs[k - f.top] ELSE f.cell[k]]
           g == PushAll(f, vs)
<1>1. g = [f EXCEPT !.top = f.top + Len(vs), !.cell = c]
  BY DEF PushAll
<1>2. c \in [Cells -> Value]
  <2>1. \A i \in DOMAIN vs: vs[i] \in Value
    OBVIOUS
  <2>2. f.cell \in [Cells -> Value]
    BY DEF Frame
  <2> QED
    BY <2>1, <2>2
<1>3. ASSUME NEW i \in 1 .. Len(vs), f.top + i \in Cells PROVE c[f.top + i] = vs[i]
  <2>1. f.top \in Int /\ i \in Int /\ (f.top + i) - f.top = i /\ i \in DOMAIN vs
    BY FrameParts
  <2> QED
    BY <1>3, <2>1
<1> HIDE DEF c
<1>4. g.top = f.top + Len(vs) /\ g.cell = c /\ g.call = f.call
  BY <1>1 DEF Frame
<1>5. f.top + Len(vs) \in -2 .. MaxLeft + 7
  BY FrameParts, LeftNat
<1>6. g \in Frame
  BY <1>1, <1>2, <1>5 DEF Frame
<1> HIDE DEF g
<1> QED
  BY <1>3, <1>4, <1>6 DEF g

(* g_lua_call puts the handler where the function was, and the function    *)
(* and its arguments above it.                                             *)
LEMMA Handling ==
  ASSUME NEW f \in Frame, NEW args \in 0..4, f.top <= MaxLeft + 6, f.top - args >= 1
  PROVE  LET g == LuaInsert(Push(f, "traceback"), f.top - args)
         IN  /\ g \in Frame /\ g.top = f.top + 1 /\ g.call = f.call
             /\ g.cell[g.top - args] = f.cell[f.top - args]
<1> DEFINE p == f.top - args
           h == Push(f, "traceback")
           c == [k \in Cells |-> CASE k = p /\ p <= h.top -> h.cell[h.top]
                                   [] p < k /\ k <= h.top + 1 -> h.cell[k - 1]
                                   [] OTHER -> h.cell[k]]
           g == LuaInsert(h, p)
<1>1. f.top \in Nat /\ f.top <= MaxLeft + 6 /\ p \in Nat \ {0} /\ p <= f.top /\ f.cell \in [Cells -> Value]
  BY FrameParts
<1>2. h.top = f.top + 1 /\ h.call = f.call /\ h.cell = [f.cell EXCEPT ![f.top + 1] = "traceback"]
  BY DEF Push, Frame
<1>3. f.top + 1 \in -2 .. MaxLeft + 7 /\ "traceback" \in Value
  BY <1>1, LeftNat DEF Value
<1>4. h \in Frame
  BY <1>1, <1>3 DEF Push, Frame
<1>5. g = [h EXCEPT !.cell = c]
  BY <1>1 DEF LuaInsert, Address
<1>6. h.cell \in [Cells -> Value] /\ h.top \in Cells /\ h.top = f.top + 1
  <2>1. f.top + 1 \in Cells
    BY <1>1, LeftNat DEF Cells
  <2> HIDE DEF h
  <2> QED
    BY <1>1, <1>2, <1>3, <2>1
<1> HIDE DEF h
<1>7. c \in [Cells -> Value]
  <2> SUFFICES ASSUME NEW k \in Cells PROVE c[k] \in Value
    OBVIOUS
  <2>1. CASE k = p /\ p <= h.top
    <3>1. ~(p < k) /\ k \in Int
      BY <1>1, <2>1 DEF Cells
    <3> QED
      BY <1>6, <2>1, <3>1
  <2>2. CASE p < k /\ k <= h.top + 1
    <3>1. k - 1 \in Cells /\ ~(k = p)
      BY <1>1, <2>2, LeftNat DEF Cells
    <3> QED
      BY <1>6, <2>2, <3>1
  <2>3. CASE ~(k = p /\ p <= h.top) /\ ~(p < k /\ k <= h.top + 1)
    BY <1>6, <2>3
  <2> QED
    BY <2>1, <2>2, <2>3
<1>8. g.top = h.top /\ g.cell = c /\ g.call = h.call /\ g \in Frame
  <2> HIDE DEF c
  <2> QED
    BY <1>4, <1>5, <1>7 DEF Frame
<1>9. c[p + 1] = f.cell[p]
  <2>1. p + 1 \in Cells /\ p < p + 1 /\ p + 1 <= h.top + 1 /\ ~(p + 1 = p) /\ (p + 1) - 1 = p
        /\ p \in Cells /\ p # f.top + 1
    BY <1>1, <1>2, LeftNat DEF Cells
  <2>2. c[p + 1] = h.cell[p]
    BY <2>1
  <2> QED
    BY <1>1, <1>2, <2>1, <2>2
<1>10. g.top - args = p + 1
  BY <1>1, <1>2, <1>8
<1> HIDE DEF g, c
<1> QED
  BY <1>1, <1>2, <1>8, <1>9, <1>10 DEF g, h

LEMMA Pops ==
  ASSUME NEW f \in Frame, NEW n \in 0..2, f.top - n >= -2
  PROVE  /\ Pop(f, n) \in Frame /\ Pop(f, n).top = f.top - n
         /\ Pop(f, n).cell = f.cell /\ Pop(f, n).call = f.call
<1>1. f.top - n \in -2..(MaxLeft + 7)
  BY FrameParts, LeftNat
<1> QED
  BY <1>1 DEF Pop, Frame

LEMMA Removes ==
  ASSUME NEW f \in Frame, NEW i \in Nat, f.top >= i, i > 0
  PROVE  LET g == LuaRemove(f, i)
         IN  /\ g \in Frame /\ g.top = f.top - 1 /\ g.call = f.call
             /\ \A k \in Cells: k >= f.top => g.cell[k] = f.cell[k]
<1> DEFINE c == [k \in Cells |-> IF i <= k /\ k < f.top THEN f.cell[k + 1] ELSE f.cell[k]]
           g == LuaRemove(f, i)
<1>1. f.top \in Nat /\ f.top <= MaxLeft + 7 /\ f.cell \in [Cells -> Value]
  BY FrameParts
<1>2. g = [f EXCEPT !.top = f.top - 1, !.cell = c]
  BY DEF LuaRemove, Address
<1>3. c \in [Cells -> Value]
  <2>1. ASSUME NEW k \in Cells, i <= k, k < f.top PROVE k + 1 \in Cells
    BY <1>1, <2>1, LeftNat DEF Cells
  <2> QED
    BY <1>1, <2>1
<1>4. \A k \in Cells: k >= f.top => c[k] = f.cell[k]
  BY <1>1, LeftNat DEF Cells
<1>5. f.top - 1 \in -2..(MaxLeft + 7)
  BY <1>1, LeftNat
<1> HIDE DEF c
<1>6. g \in Frame /\ g.top = f.top - 1 /\ g.call = f.call /\ g.cell = c
  BY <1>2, <1>3, <1>5 DEF Frame
<1> HIDE DEF g
<1> QED
  BY <1>4, <1>6 DEF g

LEMMA IdleTyped == Idle \in [site: Site \cup {"none"}, args: 0..4, base: -1..(MaxLeft + 3)]
  BY LeftNat DEF Idle

(* What a call leaves begins where its function was.                       *)
LEMMA PcallLeaves ==
  ASSUME NEW f \in Frame, NEW args \in 0..4, f.top >= args, NEW vs \in Seq(Value),
         f.top - args + Len(vs) <= MaxLeft + 8
  PROVE  LET left == AfterPcall(f, args, vs)
         IN  /\ left \in Frame /\ left.top = f.top - args + Len(vs) - 1 /\ left.call = Idle
             /\ Len(vs) = 1 => left.cell[f.top - args] = vs[1]
<1> DEFINE at == f.top - args
           c == [k \in Cells |-> IF k < at THEN f.cell[k]
                                 ELSE IF k < at + Len(vs) THEN vs[k - at + 1] ELSE "junk"]
           left == AfterPcall(f, args, vs)
<1>1. f.top \in Nat /\ f.top <= MaxLeft + 7 /\ f.cell \in [Cells -> Value] /\ at \in Nat /\ Len(vs) \in Nat
  BY FrameParts
<1>2. left = [f EXCEPT !.top = at + Len(vs) - 1, !.call = Idle, !.cell = c]
  BY DEF AfterPcall
<1>3. c \in [Cells -> Value]
  <2>1. "junk" \in Value
    BY DEF Value
  <2>2. ASSUME NEW k \in Cells, ~(k < at), k < at + Len(vs) PROVE vs[k - at + 1] \in Value
    <3>1. k \in Int
      BY LeftNat DEF Cells
    <3>2. k - at + 1 \in 1 .. Len(vs)
      BY <1>1, <2>2, <3>1, SMTT(30)
    <3> QED
      BY <3>2
  <2> QED
    BY <1>1, <2>1, <2>2
<1>4. at + Len(vs) - 1 \in -2..(MaxLeft + 7)
  <2>1. at + Len(vs) <= MaxLeft + 8
    OBVIOUS
  <2> HIDE DEF at, c, left
  <2> QED
    BY <1>1, <2>1, LeftNat
<1>5. Len(vs) = 1 => c[at] = vs[1]
  <2>1. at \in Cells /\ ~(at < at) /\ at - at + 1 = 1
    BY <1>1, LeftNat DEF Cells
  <2> QED
    BY <1>1, <2>1
<1> HIDE DEF c, at
<1>6. left \in Frame /\ left.top = at + Len(vs) - 1 /\ left.call = Idle /\ left.cell = c
  BY <1>2, <1>3, <1>4, IdleTyped DEF Frame
<1> HIDE DEF left
<1> QED
  BY <1>5, <1>6 DEF left, at

LEMMA UpToTwo ==
  ASSUME NEW n \in Nat, n = 0 \/ n = 1 \/ n <= 2
  PROVE  n <= 2
  OBVIOUS

(* g_lua_call or g_call_func after lua_pcall, and what the site does.      *)
LEMMA Finishes ==
  ASSUME NEW f \in Frame, NEW site \in Site, NEW args \in 0..4, NEW base \in Int,
         f.call = [site |-> site, args |-> args, base |-> base],
         Lowest(site) <= base, base <= Highest(site),
         f.top - args = base + Above(site), NEW vs \in Seq(Value), NEW failed \in BOOLEAN,
         failed => Len(vs) = 1, site = "touch" => Len(vs) = 1, site = "main" => Len(vs) <= 2,
         ~failed /\ site \notin {"touch", "main"} => Len(vs) = 0,
         failed /\ site = "mouse" => f.top - args <= MaxLeft
  PROVE  LET left == AfterPcall(f, args, vs)
             g == IF Handled(site) THEN After(left, f.call, failed) ELSE left
         IN  /\ FrameRight(Pop(g, Popped(site))) /\ Pop(g, Popped(site)).call = Idle
             /\ site = "touch" => Read(g) \in Value
             /\ site = "touch" /\ ~failed => Read(g) = vs[1]
<1> DEFINE at == f.top - args
           left == AfterPcall(f, args, vs)
           g == IF Handled(site) THEN After(left, f.call, failed) ELSE left
           CallOver == /\ FrameRight(Pop(g, Popped(site))) /\ Pop(g, Popped(site)).call = Idle
                       /\ site = "touch" => Read(g) \in Value
                       /\ site = "touch" /\ ~failed => Read(g) = vs[1]
<1>1. f.top \in Int /\ f.top <= MaxLeft + 7 /\ f.cell \in [Cells -> Value]
  BY FrameParts
<1>2. Len(vs) \in Nat /\ Len(vs) <= 2
  <2>1. failed \/ site = "touch" => Len(vs) = 1
    BY Zenon
  <2>2. ~(failed \/ site = "touch" \/ site = "main") => Len(vs) = 0
    BY Zenon
  <2>3. Len(vs) = 0 \/ Len(vs) = 1 \/ Len(vs) <= 2
    BY <2>1, <2>2, Zenon
  <2>4. Len(vs) \in Nat
    OBVIOUS
  <2> QED
    BY <2>3, <2>4, UpToTwo, Zenon
<1>9. /\ failed => Len(vs) = 1
      /\ site = "touch" => Len(vs) = 1
      /\ ~failed /\ site \notin {"touch", "main"} => Len(vs) = 0
  BY Zenon
<1>3. base \in Nat /\ base <= MaxLeft + 2
  BY LeftNat DEF Lowest, Highest
<1>4. at \in Nat /\ at <= base + 1 /\ f.top >= args /\ at + Len(vs) <= MaxLeft + 8
  <2>1. Above(site) \in 0..1
    BY DEF Above
  <2>2. at \in Nat /\ at <= base + 1
    BY <1>1, <1>3, <2>1
  <2>3. f.top >= args
    BY <1>1, <2>2
  <2>4. at + Len(vs) <= MaxLeft + 8
    BY <1>2, <1>3, <2>2, LeftNat, RoomForResults, Zenon
  <2> QED
    BY <2>2, <2>3, <2>4, Zenon
<1>5. /\ left \in Frame /\ left.top = at + Len(vs) - 1 /\ left.call = Idle
      /\ Len(vs) = 1 => left.cell[at] = vs[1]
  BY <1>4, PcallLeaves
<1>6. at = base + Above(site) /\ (failed /\ site = "mouse" => at <= MaxLeft)
  OBVIOUS
<1> HIDE DEF left, at
<1>7. ASSUME site = "mouse" PROVE CallOver
  <2>1. g = left /\ Popped(site) = 0 /\ at = base /\ base <= MaxLeft + 1
    BY <1>3, <1>6, <1>7 DEF Handled, Popped, Above, Highest
  <2>2. left.top <= MaxLeft /\ left.top >= -1
    <3>1. CASE failed
      <4>1. Len(vs) = 1 /\ at <= MaxLeft
        BY <1>6, <1>7, <1>9, <3>1, Zenon
      <4> QED
        BY <1>3, <1>5, <2>1, <4>1
    <3>2. CASE ~failed
      <4>1. Len(vs) = 0
        BY <1>7, <1>9, <3>2, Zenon
      <4> QED
        BY <1>3, <1>5, <2>1, <4>1, LeftNat
    <3> QED
      BY <3>1, <3>2
  <2>3. Pop(left, 0) \in Frame /\ Pop(left, 0).top = left.top /\ Pop(left, 0).call = Idle
    <3>1. left.top - 0 >= -2 /\ left.top - 0 = left.top
      BY <1>5, <2>2, FrameParts
    <3> QED
      BY <1>5, <3>1, Pops
  <2>4. FrameRight(Pop(left, 0))
    BY <2>2, <2>3 DEF FrameRight
  <2> QED
    <3>1. site # "touch"
      BY <1>7
    <3>2. Pop(g, Popped(site)) = Pop(left, 0)
      BY <2>1
    <3> QED
      BY <2>3, <2>4, <3>1, <3>2, Zenon
<1>8. ASSUME site # "mouse" PROVE CallOver
  <2>1. Handled(site) /\ at = base + 1 /\ base >= 1 /\ base <= Highest(site)
    BY <1>3, <1>6, <1>8 DEF Handled, Above, Lowest
  <2> DEFINE h == IF failed THEN Pop(left, 1) ELSE left
  <2>2. h \in Frame /\ h.call = Idle /\ h.cell = left.cell
        /\ (failed => h.top = base) /\ (~failed => h.top = base + Len(vs))
    <3>1. CASE failed
      <4>0. Len(vs) = 1
        BY <1>9, <3>1, Zenon
      <4>1. left.top = base + 1 /\ left.top - 1 = base
        BY <1>3, <1>5, <2>1, <4>0
      <4>2. h = Pop(left, 1) /\ left.top - 1 >= -2
        BY <1>3, <3>1, <4>1
      <4>3. h.top = left.top - 1 /\ h \in Frame /\ h.cell = left.cell /\ h.call = left.call
        BY <1>5, <4>2, Pops
      <4> QED
        BY <1>5, <3>1, <4>1, <4>3
    <3>2. CASE ~failed
      <4>1. h = left /\ left.top = base + Len(vs)
        BY <1>2, <1>3, <1>5, <2>1, <3>2
      <4> QED
        BY <1>5, <3>2, <4>1
    <3> QED
      BY <3>1, <3>2
  <2>3. g = LuaRemove(h, base)
    <3>1. f.call.base = base
      OBVIOUS
    <3> QED
      BY <2>1, <3>1 DEF After
  <2> HIDE DEF h
  <2>4. h.top \in Int /\ h.top >= base /\ base > 0
    BY <1>2, <1>3, <2>1, <2>2
  <2>5. /\ g \in Frame /\ g.top = h.top - 1 /\ g.call = Idle
        /\ \A k \in Cells: k >= h.top => g.cell[k] = h.cell[k]
    BY <1>3, <2>2, <2>3, <2>4, Removes
  <2> HIDE DEF g
  <2> DEFINE n == Popped(site)
  <2>6. n \in 0..2 /\ g.top - n >= -2 /\ g.top - n <= MaxLeft
    <3>0. h.top = base \/ h.top = base + Len(vs)
      BY <2>2, Zenon
    <3>1. CASE site = "touch"
      <4>0. Len(vs) = 1
        BY <1>9, <3>1, Zenon
      <4>1. n = 2 /\ base <= MaxLeft + 2 /\ h.top <= base + 1
        BY <1>3, <3>0, <3>1, <4>0 DEF Popped
      <4> QED
        BY <1>3, <2>4, <2>5, <4>1, LeftNat
    <3>2. CASE site = "main"
      <4>1. n = 1 /\ base <= 1 /\ h.top <= base + 2
        BY <1>2, <1>3, <2>1, <3>0, <3>2 DEF Popped, Highest
      <4> QED
        BY <1>3, <2>4, <2>5, <4>1, LeftNat
    <3>3. CASE site = "think" \/ site = "cmd"
      <4>0. h.top = base \/ Len(vs) = 0
        BY <1>9, <2>2, <3>3, Zenon
      <4>1. n = 1 /\ base <= MaxLeft + 2 /\ h.top = base
        BY <1>3, <3>0, <3>3, <4>0 DEF Popped
      <4> QED
        BY <1>3, <2>4, <2>5, <4>1, LeftNat
    <3> QED
      BY <1>8, <3>1, <3>2, <3>3 DEF Site
  <2> HIDE DEF n
  <2>7. Pop(g, n) \in Frame /\ Pop(g, n).top <= MaxLeft /\ Pop(g, n).call = Idle
    BY <2>5, <2>6, Pops
  <2>8. FrameRight(Pop(g, n))
    BY <2>7 DEF FrameRight
  <2>9. ASSUME site = "touch" PROVE Read(g) \in Value /\ (~failed => Read(g) = vs[1])
    <3>1. Read(g) = g.cell[g.top + 1 + 0]
      BY DEF Read, Address
    <3>0. Len(vs) = 1 /\ (h.top = base \/ h.top = base + Len(vs))
      BY <1>9, <2>2, <2>9, Zenon
    <3>2. g.top + 1 + 0 = h.top /\ h.top \in Cells
      BY <1>3, <2>4, <2>5, <3>0, LeftNat DEF Cells
    <3>3. Read(g) = left.cell[h.top]
      BY <2>2, <2>4, <2>5, <3>1, <3>2
    <3>4. left.cell \in [Cells -> Value]
      BY <1>5, FrameParts
    <3>5. ASSUME ~failed PROVE Read(g) = vs[1]
      <4>1. h.top = base + Len(vs)
        BY <2>2, <3>5, Zenon
      <4>2. h.top = at /\ left.cell[at] = vs[1]
        BY <1>5, <2>1, <3>0, <4>1
      <4> QED
        BY <3>3, <4>2
    <3> QED
      BY <3>2, <3>3, <3>4, <3>5
  <2>10. n = Popped(site)
    BY DEF n
  <2> QED
    BY <2>7, <2>8, <2>9, <2>10, Zenon
<1> QED
  BY <1>7, <1>8, Zenon DEF left

(* g_lua_call and g_call_func until lua_pcall.                             *)
LEMMA CallsIt ==
  ASSUME NEW f \in Frame, NEW site \in Site, NEW args, args = Passed(site),
         Lowest(site) <= f.top - args, f.top - args <= Highest(site),
         f.top <= MaxLeft + 6, f.cell[f.top - args] = site
  PROVE  LET g == Called(f, site, args)
         IN  FrameRight(g) /\ g.call # Idle /\ g.cell[g.top - args] = site
<1> DEFINE base == f.top - args
           h == LuaInsert(Push(f, "traceback"), base)
           g == Called(f, site, args)
           call == [site |-> site, args |-> args, base |-> base]
<1>1. args \in 0..4 /\ f.top \in Int /\ f.cell \in [Cells -> Value]
  BY FrameParts DEF Passed
<1>2. base \in Int /\ base >= 0 /\ base <= MaxLeft + 2
      /\ Lowest(site) <= base /\ base <= Highest(site) /\ f.top = base + args
  BY <1>1, LeftNat DEF Lowest, Highest
<1> DEFINE k == IF Handled(site) THEN h ELSE f
<1>3. k \in Frame /\ k.top = f.top + Above(site) /\ k.cell[k.top - args] = site
  <2>1. CASE Handled(site)
    <3>1. base >= 1
      BY <1>2, <2>1 DEF Handled, Lowest
    <3>2. h \in Frame /\ h.top = f.top + 1 /\ h.cell[h.top - args] = f.cell[f.top - args]
      BY <1>1, <3>1, Handling
    <3> HIDE DEF h
    <3> QED
      BY <2>1, <3>2 DEF Above
  <2>2. CASE ~Handled(site)
    <3>1. k = f /\ Above(site) = 0 /\ f.top = f.top + 0
      BY <1>1, <2>2 DEF Above
    <3> QED
      BY <3>1
  <2> QED
    BY <2>1, <2>2
<1>4. g = [k EXCEPT !.call = call]
  BY DEF Called
<1> HIDE DEF k, h
<1>5. call \in [site: Site \cup {"none"}, args: 0..4, base: -1..(MaxLeft + 3)]
  BY <1>1, <1>2, LeftNat
<1>6. g \in Frame /\ g.top = k.top /\ g.cell = k.cell /\ g.call = call
  BY <1>3, <1>4, <1>5 DEF Frame
<1>7. call # Idle
  BY DEF Idle, Site
<1>8. g.top = base + args + Above(site)
  <2>1. Above(site) \in Int
    BY DEF Above
  <2> QED
    BY <1>1, <1>2, <1>3, <1>6, <2>1
<1>9. base \in Lowest(site) .. Highest(site)
  <2>1. Lowest(site) \in Int /\ Highest(site) \in Int
    BY LeftNat DEF Lowest, Highest
  <2> QED
    BY <1>2, <2>1
<1> HIDE DEF g, base
<1>10. FrameRight(g)
  BY <1>6, <1>7, <1>8, <1>9 DEF FrameRight
<1> QED
  BY <1>3, <1>6, <1>7, <1>10 DEF g

(* A call of a command from a frame of which a value too much was taken:   *)
(* what is called is an argument, and the error takes another away.        *)
LEMMA MissesIt ==
  ASSUME NEW f \in Frame, f.top = 4, f.cell[1] = "arg"
  PROVE  LET g == Called(f, "cmd", 4)
             left == Pop(After(AfterPcall(g, 4, <<"message">>), g.call, TRUE), 1)
         IN  g.cell[g.top - 4] = "arg" /\ FrameRight(left) /\ left.call = Idle
<1> DEFINE h == Push(f, "traceback")
           g == Called(f, "cmd", 4)
           e == AfterPcall(g, 4, <<"message">>)
           p == Pop(e, 1)
           r == LuaRemove(p, 0)
<1>1. f.cell \in [Cells -> Value] /\ 1 \in Cells /\ 5 \in Cells /\ "traceback" \in Value /\ "message" \in Value
  BY FrameParts, LeftNat DEF Cells, Value
<1>2. h \in Frame /\ h.top = 5 /\ h.cell[1] = "arg"
  <2>1. 5 \in -2..(MaxLeft + 7) /\ f.top + 1 = 5
    BY LeftNat
  <2>2. h = [f EXCEPT !.top = 5, !.cell = [f.cell EXCEPT ![5] = "traceback"]]
    BY <2>1 DEF Push
  <2>3. [f.cell EXCEPT ![5] = "traceback"] \in [Cells -> Value]
        /\ [f.cell EXCEPT ![5] = "traceback"][1] = "arg"
    BY <1>1
  <2> QED
    BY <2>1, <2>2, <2>3 DEF Frame
<1>3. LuaInsert(h, 0) \in Frame /\ LuaInsert(h, 0).top = 5 /\ LuaInsert(h, 0).cell[1] = "arg"
  <2> DEFINE c == [k \in Cells |-> CASE k = 6 /\ 6 <= h.top -> h.cell[h.top]
                                     [] 6 < k /\ k <= h.top + 1 -> h.cell[k - 1]
                                     [] OTHER -> h.cell[k]]
  <2>1. LuaInsert(h, 0) = [h EXCEPT !.cell = c]
    BY <1>2 DEF LuaInsert, Address
  <2>2. \A k \in Cells: ~(k = 6 /\ 6 <= h.top) /\ ~(6 < k /\ k <= h.top + 1)
    BY <1>2 DEF Cells
  <2>3. \A k \in Cells: c[k] = h.cell[k]
    BY <2>2
  <2>4. c \in [Cells -> Value] /\ c[1] = "arg"
    BY <1>1, <1>2, <2>3, FrameParts
  <2> HIDE DEF c, h
  <2> QED
    BY <1>2, <2>1, <2>4 DEF Frame
<1> HIDE DEF h
<1>4. g \in Frame /\ g.top = 5 /\ g.cell[1] = "arg" /\ g.call = [site |-> "cmd", args |-> 4, base |-> 0]
  <2>1. g = [LuaInsert(h, 0) EXCEPT !.call = [site |-> "cmd", args |-> 4, base |-> 0]]
    BY DEF Called, Handled, h
  <2>2. [site |-> "cmd", args |-> 4, base |-> 0] \in
          [site: Site \cup {"none"}, args: 0..4, base: -1..(MaxLeft + 3)]
    BY LeftNat DEF Site
  <2> QED
    BY <1>3, <2>1, <2>2 DEF Frame
<1> HIDE DEF g
<1>5. e \in Frame /\ e.top = 1 /\ e.call = Idle
  <2>1. <<"message">> \in Seq(Value) /\ Len(<<"message">>) = 1
    BY <1>1
  <2>2. g.top >= 4 /\ g.top - 4 + Len(<<"message">>) <= MaxLeft + 8 /\ g.top - 4 + Len(<<"message">>) - 1 = 1
    BY <1>4, <2>1, LeftNat
  <2> QED
    <3>1. 4 \in 0..4
      OBVIOUS
    <3>2. e \in Frame /\ e.top = g.top - 4 + Len(<<"message">>) - 1 /\ e.call = Idle
      BY <1>4, <2>1, <2>2, <3>1, PcallLeaves, Zenon
    <3> QED
      BY <2>2, <3>2
<1> HIDE DEF e
<1>6. p \in Frame /\ p.top = 0 /\ p.call = Idle
  BY <1>5, Pops
<1> HIDE DEF p
<1>7. r \in Frame /\ r.top = -1 /\ r.call = Idle
  <2> DEFINE c == [k \in Cells |-> IF 1 <= k /\ k < p.top THEN p.cell[k + 1] ELSE p.cell[k]]
  <2>1. r = [p EXCEPT !.top = -1, !.cell = c]
    BY <1>6 DEF LuaRemove, Address
  <2>2. \A k \in Cells: ~(1 <= k /\ k < p.top)
    BY <1>6 DEF Cells
  <2>3. c \in [Cells -> Value]
    BY <1>6, <2>2, FrameParts
  <2> HIDE DEF c
  <2>4. -1 \in -2..(MaxLeft + 7)
    BY LeftNat
  <2> QED
    BY <1>6, <2>1, <2>3, <2>4 DEF Frame
<1>8. After(e, g.call, TRUE) = r
  BY <1>4 DEF After, p
<1> HIDE DEF r
<1>9. Pop(r, 1) \in Frame /\ Pop(r, 1).top = -2 /\ Pop(r, 1).call = Idle
  BY <1>7, Pops
<1>10. FrameRight(Pop(r, 1))
  BY <1>9, LeftNat DEF FrameRight
<1>11. g.top - 4 = 1
  BY <1>4
<1> QED
  BY <1>4, <1>8, <1>9, <1>10, <1>11 DEF g, e

(* The frame that runs is replaced, one is added, the last one goes.       *)
LEMMA LastRight ==
  ASSUME NEW s, AllRight(s)
  PROVE  FrameRight(Last(s)) /\ Last(s) \in Frame
<1>1. Len(s) \in DOMAIN s /\ Last(s) = s[Len(s)]
  BY DEF AllRight, Last
<1> QED
  BY <1>1 DEF AllRight

LEMMA FrontRight ==
  ASSUME NEW s, AllRight(s)
  PROVE  /\ Front(s) \in Seq(Frame) /\ \A i \in DOMAIN Front(s): FrameRight(Front(s)[i])
         /\ Len(s) > 1 => Front(s) # <<>>
<1>1. s \in Seq(Frame) /\ Len(s) \in Nat /\ Len(s) >= 1 /\ Front(s) = SubSeq(s, 1, Len(s) - 1)
  BY DEF AllRight, Front
<1>2. \A i \in 1 .. Len(s) - 1: s[i] \in Frame /\ FrameRight(s[i])
  BY <1>1 DEF AllRight
<1>3. /\ Front(s) \in Seq(Frame) /\ Len(Front(s)) = Len(s) - 1
      /\ \A i \in 1 .. Len(s) - 1: Front(s)[i] = s[i]
  <2> DEFINE n == Len(s) - 1
  <2>1. 1 \in Int /\ n \in Int /\ n >= 0 /\ n = n - 1 + 1
    BY <1>1
  <2>2. /\ SubSeq(s, 1, n) \in Seq(Frame)
        /\ Len(SubSeq(s, 1, n)) = IF 1 <= n THEN n - 1 + 1 ELSE 0
        /\ \A i \in 1 .. n - 1 + 1: SubSeq(s, 1, n)[i] = s[1 + i - 1]
    <3>1. \A i \in 1 .. n: s[i] \in Frame
      BY <1>2
    <3> HIDE DEF n
    <3> QED
      BY <2>1, <3>1, SubSeqProperties
  <2>3. \A i \in 1 .. n: 1 + i - 1 = i
    BY <2>1
  <2>4. Len(SubSeq(s, 1, n)) = n /\ 1 .. n - 1 + 1 = 1 .. n
    BY <2>1, <2>2
  <2>5. Front(s) = SubSeq(s, 1, n)
    BY <1>1
  <2> HIDE DEF n
  <2>6. \A i \in 1 .. n: Front(s)[i] = s[i]
    BY <2>2, <2>3, <2>4, <2>5
  <2> QED
    BY <2>2, <2>4, <2>5, <2>6 DEF n
<1>4. DOMAIN Front(s) = 1 .. Len(s) - 1
  BY <1>3
<1>5. ASSUME Len(s) > 1 PROVE Front(s) # <<>>
  <2>1. 1 \in DOMAIN Front(s)
    BY <1>1, <1>4, <1>5
  <2> QED
    BY <2>1
<1> QED
  BY <1>2, <1>3, <1>4, <1>5

LEMMA AppendRight ==
  ASSUME NEW s \in Seq(Frame), \A i \in DOMAIN s: FrameRight(s[i]), NEW g, FrameRight(g)
  PROVE  AllRight(Append(s, g))
<1>1. g \in Frame
  BY DEF FrameRight
<1>2. Append(s, g) \in Seq(Frame) /\ Append(s, g) # <<>> /\ Len(Append(s, g)) = Len(s) + 1
      /\ Append(s, g)[Len(s) + 1] = g /\ \A i \in 1 .. Len(s): Append(s, g)[i] = s[i]
  BY <1>1
<1> QED
  BY <1>2 DEF AllRight

LEMMA ReplaceRight ==
  ASSUME NEW s, AllRight(s), NEW g, FrameRight(g)
  PROVE  AllRight(Append(Front(s), g))
  BY FrontRight, AppendRight

LEMMA BeginsRight ==
  ASSUME Framed, Told, NEW f \in Frame, NEW site \in Site, NEW args, args = Passed(site),
         Lowest(site) <= f.top - args, f.top - args <= Highest(site),
         f.top <= MaxLeft + 6, f.cell[f.top - args] = site,
         Begin(f, site, args)
  PROVE  Framed' /\ Told'
<1> DEFINE g == Called(f, site, args)
<1>1. FrameRight(g) /\ g.cell[g.top - args] = site
  BY CallsIt
<1> HIDE DEF g
<1>2. missed' = missed /\ stack' = Append(Front(stack), g) /\ UNCHANGED <<gUp, said, answer>>
  BY <1>1 DEF Begin, Replace, g
<1>3. Framed'
  BY <1>1, <1>2, ReplaceRight DEF Framed
<1> QED
  BY <1>2, <1>3 DEF Told, Up, Heard

LEMMA BeginsCmd ==
  ASSUME Framed, Told, NEW f \in Frame, f.top = 4, f.cell[1] = "arg", Begin(f, "cmd", 4)
  PROVE  Framed' /\ Told'
<1> DEFINE g == Called(f, "cmd", 4)
           left == Pop(After(AfterPcall(g, 4, <<"message">>), g.call, TRUE), 1)
<1>1. FrameRight(left) /\ g.cell[g.top - 4] = "arg"
  BY MissesIt
<1>2. "arg" \notin Site /\ Popped("cmd") = 1
  BY DEF Site, Popped
<1> HIDE DEF g
<1>3. missed' = missed \cup {"cmd"} /\ stack' = Append(Front(stack), left) /\ UNCHANGED <<gUp, said, answer>>
  BY <1>1, <1>2 DEF Begin, Replace, g, Site
<1> HIDE DEF left
<1>4. Framed'
  BY <1>1, <1>3, ReplaceRight DEF Framed
<1> QED
  BY <1>3, <1>4 DEF Told, Up, Heard

LEMMA MainRight ==
  ASSUME Framed, Told, Main
  PROVE  Framed' /\ Told'
<1> DEFINE t == Current
           f == Push(t, "main")
<1>1. t \in Frame /\ t.top = 0 /\ Begin(f, "main", 0)
  BY LastRight DEF Main, Framed, Current
<1> HIDE DEF t
<1>2. f \in Frame /\ f.top = 1 /\ f.cell[1] = "main"
  <2>1. f = [t EXCEPT !.top = 1, !.cell = [t.cell EXCEPT ![1] = "main"]]
    BY <1>1 DEF Push
  <2>2. [t.cell EXCEPT ![1] = "main"] \in [Cells -> Value] /\ [t.cell EXCEPT ![1] = "main"][1] = "main"
    BY <1>1, FrameParts, LeftNat DEF Cells, Value, Site
  <2>3. 1 \in -2..(MaxLeft + 7)
    BY LeftNat
  <2> QED
    BY <1>1, <2>1, <2>2, <2>3 DEF Frame
<1> HIDE DEF f
<1>3. "main" \in Site /\ 0 = Passed("main") /\ Lowest("main") <= f.top - 0 /\ f.top - 0 <= Highest("main")
      /\ f.top <= MaxLeft + 6 /\ f.cell[f.top - 0] = "main"
  BY <1>2, LeftNat DEF Site, Passed, Lowest, Highest
<1> QED
  BY <1>1, <1>2, <1>3, BeginsRight

(* The frame a call may begin from.                                        *)
LEMMA ReadyFrame ==
  ASSUME Framed, Ready
  PROVE  Current \in Frame /\ Current.top \in Int /\ Current.top >= -1 /\ Current.top <= MaxLeft
         /\ Current.call = Idle
BY LastRight, FrameParts DEF Ready, Framed, Current, FrameRight

LEMMA Pushed ==
  ASSUME Framed, Ready, NEW vs \in Seq(Value), NEW n \in 1..6, Len(vs) = n
  PROVE  LET f == PushAll(Current, vs)
         IN  /\ f \in Frame /\ f.top = Current.top + n
             /\ \A i \in 1 .. n: f.cell[Current.top + i] = vs[i]
<1> DEFINE t == Current
           f == PushAll(t, vs)
<1>1. t \in Frame /\ t.top \in Int /\ t.top >= -1 /\ t.top <= MaxLeft
  BY ReadyFrame
<1> HIDE DEF t
<1>2. f \in Frame /\ f.top = t.top + Len(vs)
      /\ \A i \in 1 .. Len(vs): t.top + i \in Cells => f.cell[t.top + i] = vs[i]
  <2>1. Len(vs) <= 6
    OBVIOUS
  <2> QED
    BY <1>1, <2>1, PushesAll
<1> HIDE DEF f
<1>3. \A i \in 1 .. n: t.top + i \in Cells
  BY <1>1, LeftNat DEF Cells
<1>4. \A i \in 1 .. n: f.cell[t.top + i] = vs[i]
  BY <1>2, <1>3
<1> QED
  BY <1>2, <1>4 DEF f, t

LEMMA MouseRight ==
  ASSUME Framed, Told, Mouse
  PROVE  Framed' /\ Told'
<1> DEFINE t == Current
           vs == <<"mouse", "arg", "arg", "arg", "arg">>
           f == PushAll(t, vs)
<1>1. t \in Frame /\ t.top \in Int /\ t.top >= -1 /\ t.top <= MaxLeft /\ Ready /\ Begin(f, "mouse", 4)
  BY ReadyFrame DEF Mouse, ByFrame
<1> HIDE DEF t
<1>2. vs \in Seq(Value) /\ Len(vs) = 5 /\ vs[1] = "mouse" /\ 1 \in 1 .. Len(vs)
  BY DEF Value, Site
<1> HIDE DEF vs
<1>3. f \in Frame /\ f.top = t.top + 5 /\ \A i \in 1 .. 5: f.cell[t.top + i] = vs[i]
  BY <1>1, <1>2, Pushed DEF t
<1>4. f.top - 4 = t.top + 1
  BY <1>1, <1>3
<1> HIDE DEF f
<1>5. "mouse" \in Site /\ 4 = Passed("mouse") /\ Lowest("mouse") <= f.top - 4 /\ f.top - 4 <= Highest("mouse")
      /\ f.top <= MaxLeft + 6
  BY <1>1, <1>3, LeftNat DEF Site, Passed, Lowest, Highest
<1>6. f.cell[f.top - 4] = "mouse"
  BY <1>2, <1>3, <1>4
<1> QED
  BY <1>1, <1>3, <1>5, <1>6, BeginsRight

LEMMA TouchRight ==
  ASSUME Framed, Told, NEW other \in {"ent", "nil"}, Touch(other)
  PROVE  Framed' /\ Told'
<1> DEFINE t == Current
           vs == <<"data", "touch", "ent", other, "arg", "arg">>
           f == PushAll(t, vs)
<1>1. t \in Frame /\ t.top \in Int /\ t.top >= -1 /\ t.top <= MaxLeft /\ Ready /\ Begin(f, "touch", 4)
  BY ReadyFrame DEF Touch, ByFrame
<1> HIDE DEF t
<1>2. vs \in Seq(Value) /\ Len(vs) = 6 /\ vs[2] = "touch" /\ 2 \in 1 .. Len(vs)
  BY DEF Value, Site
<1> HIDE DEF vs
<1>3. f \in Frame /\ f.top = t.top + 6 /\ \A i \in 1 .. 6: f.cell[t.top + i] = vs[i]
  BY <1>1, <1>2, Pushed DEF t
<1>4. f.top - 4 = t.top + 2
  BY <1>1, <1>3
<1> HIDE DEF f
<1>5. "touch" \in Site /\ 4 = Passed("touch") /\ Lowest("touch") <= f.top - 4 /\ f.top - 4 <= Highest("touch")
      /\ f.top <= MaxLeft + 6
  BY <1>1, <1>3, LeftNat DEF Site, Passed, Lowest, Highest
<1>6. f.cell[f.top - 4] = "touch"
  BY <1>2, <1>3, <1>4
<1> QED
  BY <1>1, <1>3, <1>5, <1>6, BeginsRight

LEMMA ThinkRight ==
  ASSUME Framed, Told, Think
  PROVE  Framed' /\ Told'
<1> DEFINE t == Current
           vs == <<"data", "think", "ent">>
           f == PushAll(t, vs)
<1>1. t \in Frame /\ t.top \in Int /\ t.top >= -1 /\ t.top <= MaxLeft /\ Ready /\ Begin(f, "think", 1)
  BY ReadyFrame DEF Think, ByFrame
<1> HIDE DEF t
<1>2. vs \in Seq(Value) /\ Len(vs) = 3 /\ vs[2] = "think" /\ 2 \in 1 .. Len(vs)
  BY DEF Value, Site
<1> HIDE DEF vs
<1>3. f \in Frame /\ f.top = t.top + 3 /\ \A i \in 1 .. 3: f.cell[t.top + i] = vs[i]
  BY <1>1, <1>2, Pushed DEF t
<1>4. f.top - 1 = t.top + 2
  BY <1>1, <1>3
<1> HIDE DEF f
<1>5. "think" \in Site /\ 1 = Passed("think") /\ Lowest("think") <= f.top - 1 /\ f.top - 1 <= Highest("think")
      /\ f.top <= MaxLeft + 6
  BY <1>1, <1>3, LeftNat DEF Site, Passed, Lowest, Highest
<1>6. f.cell[f.top - 1] = "think"
  BY <1>2, <1>3, <1>4
<1> QED
  BY <1>1, <1>3, <1>5, <1>6, BeginsRight

LEMMA CmdRight ==
  ASSUME Framed, Told, CallCmd
  PROVE  Framed' /\ Told'
<1> DEFINE t == Current
           vs == <<"cmd", "arg", "arg", "arg", "arg">>
           f == PushAll(t, vs)
<1>1. t \in Frame /\ t.top \in Int /\ t.top >= -1 /\ t.top <= MaxLeft /\ Ready /\ Begin(f, "cmd", 4)
  BY ReadyFrame DEF CallCmd
<1> HIDE DEF t
<1>2. vs \in Seq(Value) /\ Len(vs) = 5 /\ vs[1] = "cmd" /\ vs[2] = "arg" /\ 1 \in 1 .. Len(vs) /\ 2 \in 1 .. Len(vs)
  BY DEF Value, Site
<1> HIDE DEF vs
<1>3. f \in Frame /\ f.top = t.top + 5 /\ \A i \in 1 .. 5: f.cell[t.top + i] = vs[i]
  BY <1>1, <1>2, Pushed DEF t
<1>4. f.top - 4 = t.top + 1
  BY <1>1, <1>3
<1> HIDE DEF f
<1>5. CASE t.top >= 0
  <2>1. "cmd" \in Site /\ 4 = Passed("cmd") /\ Lowest("cmd") <= f.top - 4 /\ f.top - 4 <= Highest("cmd")
        /\ f.top <= MaxLeft + 6
    BY <1>1, <1>3, <1>5, LeftNat DEF Site, Passed, Lowest, Highest
  <2>2. f.cell[f.top - 4] = "cmd"
    BY <1>2, <1>3, <1>4
  <2> QED
    BY <1>1, <1>3, <2>1, <2>2, BeginsRight
<1>6. CASE t.top = -1
  <2>1. f.top = 4 /\ t.top + 2 = 1
    BY <1>3, <1>6
  <2>2. f.cell[t.top + 2] = vs[2]
    BY <1>2, <1>3, <1>4
  <2>3. f.cell[1] = "arg"
    BY <1>2, <2>1, <2>2
  <2> QED
    BY <1>1, <1>3, <2>1, <2>3, BeginsCmd
<1> QED
  BY <1>1, <1>5, <1>6

(* The frame a call is under way from.                                     *)
LEMMA CallingFrame ==
  ASSUME Framed, InLua
  PROVE  /\ Current \in Frame /\ Current.call.site \in Site /\ Current.call.args \in 0..4
         /\ Current.call.base \in Int
         /\ Current.call = [site |-> Current.call.site, args |-> Current.call.args,
                            base |-> Current.call.base]
         /\ Lowest(Current.call.site) <= Current.call.base
         /\ Current.call.base <= Highest(Current.call.site)
         /\ Current.top - Current.call.args = Current.call.base + Above(Current.call.site)
<1> DEFINE f == Current
           call == f.call
<1>1. FrameRight(f) /\ f \in Frame /\ call # Idle
  BY LastRight DEF Framed, Current, InLua
<1> HIDE DEF f
<1>2. call \in [site: Site \cup {"none"}, args: 0..4, base: -1..(MaxLeft + 3)] /\ f.top \in Int
  BY <1>1, FrameParts DEF Frame
<1>3. /\ call.site \in Site /\ call.base \in Lowest(call.site) .. Highest(call.site)
      /\ f.top = call.base + call.args + Above(call.site)
  BY <1>1 DEF FrameRight
<1> HIDE DEF call
<1>4. call.args \in 0..4 /\ call.base \in Int
      /\ call = [site |-> call.site, args |-> call.args, base |-> call.base]
  BY <1>2, LeftNat
<1>5. Lowest(call.site) \in Int /\ Highest(call.site) \in Int /\ Above(call.site) \in Int
  BY LeftNat DEF Lowest, Highest, Above
<1>6. Lowest(call.site) <= call.base /\ call.base <= Highest(call.site)
  BY <1>3, <1>4, <1>5
<1>7. f.top - call.args = call.base + Above(call.site)
  BY <1>2, <1>3, <1>4, <1>5
<1> QED
  BY <1>1, <1>3, <1>4, <1>6, <1>7 DEF f, call

(* An answer is read from the cell that the function's result was left in. *)
LEMMA FinishRight ==
  ASSUME Framed, Told, InLua, NEW vs \in Seq(Value), NEW failed \in BOOLEAN, Finish(vs, failed),
         failed => Len(vs) = 1, Current.call.site = "touch" => Len(vs) = 1,
         Current.call.site = "main" => Len(vs) <= 2,
         ~failed /\ Current.call.site \notin {"touch", "main"} => Len(vs) = 0,
         failed /\ Current.call.site = "mouse" => Current.top - Current.call.args <= MaxLeft
  PROVE  Framed' /\ Told'
<1> DEFINE f == Current
           site == f.call.site
           args == f.call.args
           left == AfterPcall(f, args, vs)
           g == IF Handled(site) THEN After(left, f.call, failed) ELSE left
<1>1. /\ FrameRight(Pop(g, Popped(site)))
      /\ site = "touch" => Read(g) \in Value
      /\ site = "touch" /\ ~failed => Read(g) = vs[1]
  BY CallingFrame, Finishes
<1>2. /\ stack' = Append(Front(stack), Pop(g, Popped(site)))
      /\ gUp' = (gUp \/ site = "main")
      /\ said' = (IF site # "touch" THEN said ELSE IF failed THEN NONE ELSE vs[1])
      /\ answer' = (IF site # "touch" THEN answer ELSE Read(g))
      /\ missed' = missed
  BY DEF Finish, Replace
<1>3. site = "touch" => vs[1] \in Value
  <2>1. \A i \in 1 .. Len(vs): vs[i] \in Value
    OBVIOUS
  <2>2. Len(vs) = 1 => 1 \in 1 .. Len(vs)
    OBVIOUS
  <2> QED
    BY <2>1, <2>2, Zenon
<1> HIDE DEF g, left, args, site, f
<1>4. Framed'
  BY <1>1, <1>2, ReplaceRight DEF Framed
<1>5. Up'
  BY <1>2, Zenon DEF Up
<1>8. Heard
  BY DEF Told
<1>6. ASSUME site = "touch" PROVE Heard'
  <2>1. answer' = Read(g) /\ Read(g) \in Value
    BY <1>1, <1>2, <1>6, Zenon
  <2>2. said' = NONE \/ (said' \in Value /\ said' = answer')
    <3>1. CASE failed
      BY <1>2, <1>6, <3>1, Zenon
    <3>2. CASE ~failed
      <4>1. said' = vs[1] /\ Read(g) = vs[1]
        BY <1>1, <1>2, <1>6, <3>2, Zenon
      <4> QED
        BY <2>1, <4>1
    <3> QED
      BY <3>1, <3>2
  <2>3. said' \in Value \cup {NONE} /\ answer' \in Value \cup {NONE} /\ (said' # NONE => answer' = said')
    BY <2>1, <2>2
  <2> QED
    BY <1>2, <1>8, <2>3 DEF Heard
<1>7. ASSUME site # "touch" PROVE Heard'
  <2>1. said' = said /\ answer' = answer
    BY <1>2, <1>7, Zenon
  <2> QED
    BY <1>2, <1>8, <2>1 DEF Heard
<1> QED
  BY <1>4, <1>5, <1>6, <1>7, Zenon DEF Told

LEMMA ReturnRight ==
  ASSUME Framed, Told, Return
  PROVE  Framed' /\ Told'
<1> DEFINE site == Current.call.site
<1>0. InLua
  BY DEF Return
<1>1. PICK vs \in Results(site): Finish(vs, FALSE)
  BY DEF Return
<1>2. vs \in Seq(Value) /\ (site = "touch" => Len(vs) = 1) /\ (site = "main" => Len(vs) <= 2)
      /\ (site \notin {"touch", "main"} => Len(vs) = 0)
  <2>1. CASE site = "touch"
    BY <1>1, <2>1 DEF Results, Value
  <2>2. CASE site = "main"
    <3>1. PICK n \in MainReturns: vs = [i \in 1..n |-> "arg"]
      BY <1>1, <2>2 DEF Results
    <3>2. n \in 0..2 /\ "arg" \in Value
      BY LuaStackAssumption DEF Value
    <3> QED
      BY <2>2, <3>1, <3>2
  <2>3. CASE site \notin {"touch", "main"}
    <3>1. Results(site) = {<<>>}
      BY <2>3 DEF Results
    <3>2. vs = <<>>
      BY <1>1, <3>1
    <3> QED
      BY <2>3, <3>2
  <2> QED
    BY <2>1, <2>2, <2>3
<1> QED
  BY <1>0, <1>1, <1>2, FinishRight

LEMMA FailRight ==
  ASSUME Framed, Told, Fail
  PROVE  Framed' /\ Told'
<1>1. /\ InLua /\ Finish(<<"message">>, TRUE)
      /\ Current.call.site = "mouse" => Current.top - Current.call.args <= MaxLeft
  BY DEF Fail, Handled
<1>2. <<"message">> \in Seq(Value) /\ Len(<<"message">>) = 1 /\ 1 <= 2
  BY DEF Value
<1> QED
  BY <1>1, <1>2, FinishRight

(* The frame of a C function with what it was called with.                 *)
LEMMA FreshRight ==
  ASSUME NEW args \in Seq(Value), Len(args) <= 1
  PROVE  FrameRight(Fresh(args))
<1> DEFINE f == Fresh(args)
           c == [i \in Cells |-> IF i \in DOMAIN args THEN args[i] ELSE "junk"]
<1>1. f = [top |-> Len(args), call |-> Idle, cell |-> c]
  BY DEF Fresh
<1>2. c \in [Cells -> Value]
  <2>1. \A i \in DOMAIN args: args[i] \in Value
    OBVIOUS
  <2>2. "junk" \in Value
    BY DEF Value
  <2> QED
    BY <2>1, <2>2
<1>3. Len(args) \in -2..(MaxLeft + 7) /\ Len(args) <= MaxLeft
  BY LeftNat
<1> HIDE DEF c
<1>4. f \in Frame /\ f.call = Idle /\ f.top <= MaxLeft
  BY <1>1, <1>2, <1>3, IdleTyped DEF Frame
<1> QED
  BY <1>4 DEF FrameRight

LEMMA NoThinkRight ==
  ASSUME Framed, Told, NoThink
  PROVE  Framed' /\ Told'
<1> DEFINE t == Current
           vs == <<"data", "nil">>
           f == PushAll(t, vs)
           g == Pop(f, 1)
<1>1. t \in Frame /\ t.top \in Int /\ t.top >= -1 /\ t.top < MaxLeft /\ t.call = Idle /\ Ready
      /\ stack' = Append(Front(stack), g) /\ UNCHANGED <<gUp, missed, said, answer>>
  BY ReadyFrame DEF NoThink, ByFrame, Replace
<1> HIDE DEF t
<1>2. vs \in Seq(Value) /\ Len(vs) = 2
  BY DEF Value
<1> HIDE DEF vs
<1>3. f \in Frame /\ f.top = t.top + 2 /\ f.call = Idle
  <2>1. Len(vs) <= 6 /\ t.top <= MaxLeft
    BY <1>1, <1>2, LeftNat
  <2>2. t \in Frame /\ t.top >= -1 /\ t.top <= MaxLeft /\ vs \in Seq(Value) /\ Len(vs) <= 6
    BY <1>1, <1>2, <2>1
  <2>3. PushAll(t, vs) \in Frame /\ PushAll(t, vs).top = t.top + Len(vs) /\ PushAll(t, vs).call = t.call
    BY <2>2, PushesAll, Zenon
  <2> QED
    BY <1>1, <1>2, <2>3
<1> HIDE DEF f
<1>4. g \in Frame /\ g.top = f.top - 1 /\ g.call = Idle
  BY <1>1, <1>3, Pops
<1> HIDE DEF g
<1>5. FrameRight(g)
  BY <1>1, <1>3, <1>4, LeftNat DEF FrameRight
<1>6. Framed'
  BY <1>1, <1>5, ReplaceRight DEF Framed
<1> QED
  BY <1>1, <1>6 DEF Told, Up, Heard

LEMMA StackStart == StackInit => StackInv
<1> SUFFICES ASSUME StackInit PROVE StackInv
  OBVIOUS
<1>1. FrameRight(Fresh(<<>>)) /\ Fresh(<<>>) \in Frame
  <2>1. <<>> \in Seq(Value) /\ Len(<<>>) <= 1
    OBVIOUS
  <2>2. FrameRight(Fresh(<<>>))
    BY <2>1, FreshRight
  <2> QED
    BY <2>2 DEF FrameRight
<1>2. Framed
  BY <1>1 DEF StackInit, Framed, AllRight
<1>3. Told
  BY DEF StackInit, Told, Up, Heard
<1> QED
  BY <1>2, <1>3 DEF StackInv

LEMMA StackKept == StackInv /\ [StackNext]_stackVars => StackInv'
<1> SUFFICES ASSUME Framed, Told, [StackNext]_stackVars PROVE Framed' /\ Told'
  BY DEF StackInv
<1>1. CASE LuaExecute
  <2>1. <<"arg">> \in Seq(Value) /\ Len(<<"arg">>) <= 1
    BY DEF Value
  <2>2. FrameRight(Fresh(<<"arg">>))
    BY <2>1, FreshRight
  <2>3. Framed'
    BY <1>1, <2>2, AppendRight DEF LuaExecute, Framed, AllRight
  <2> QED
    BY <1>1, <2>3 DEF LuaExecute, Told, Up, Heard
<1>2. CASE LuaExecuted
  <2>1. Framed'
    BY <1>2, FrontRight DEF LuaExecuted, Framed, AllRight
  <2> QED
    BY <1>2, <2>1 DEF LuaExecuted, Told, Up, Heard
<1>3. CASE UNCHANGED stackVars
  BY <1>3 DEF stackVars, Framed, Told, Up, Heard
<1>4. CASE Underflow
  BY <1>3, <1>4 DEF Underflow
<1> QED
  BY <1>1, <1>2, <1>3, <1>4, MainRight, MouseRight, TouchRight, ThinkRight, NoThinkRight,
     CmdRight, ReturnRight, FailRight DEF StackNext

LEMMA StackInductive == StackSpec => []StackInv
  BY StackStart, StackKept, PTL DEF StackSpec

(* Whatever calls have left on the stack or taken from it, thinks, touches *)
(* and mouse events call the functions they fetched, and a touch is        *)
(* answered as its function answered.                                      *)
THEOREM CallsStayRight == StackSpec => []CallsRight
<1>1. StackInv => CallsRight
  <2> SUFFICES ASSUME Framed, Told PROVE CallsRight
    BY DEF StackInv
  <2>1. stack \in Seq(Frame)
    BY DEF Framed, AllRight
  <2>2. {"cmd"} \subseteq Site
    BY DEF Site
  <2> QED
    BY <2>1, <2>2, Zenon DEF CallsRight, StackType, Told, Up, Heard, Frame
<1> QED
  BY <1>1, StackInductive, PTL

-----------------------------------------------------------------------------
(* The files: the inductive invariant (Files).                             *)

(* Only the first path is written to, and what is put is there.            *)
PutThere ==
  /\ \A n \in FileName: put[n] # "none" => disk[1][n] = put[n]
  /\ \A s \in Slot: files[s] # NONE /\ files[s].mode # "rdonly" => files[s].path = 1

(* The fs_open under way.                                                  *)
Tried == try = NoTry \/ (try.name \in FileName /\ try.path \in 1..5)

(* It has left no file behind on its way that it could have opened, unless *)
(* it cannot open any more: there is no descriptor or no file_t.           *)
PassedBy ==
  try # NoTry /\ try.mode = "rdonly" =>
    descs = Desc \/ Full \/ \A i \in 1..(try.path - 1): disk[i][try.name] \notin Regular

FilesInv == FilesType /\ PutThere /\ Tried /\ PassedBy

ReadsRight ==
  \A s \in Slot: ~IsOpen(s) /\ IsOpen(s)' /\ files'[s].mode = "rdonly" =>
    LET n == files'[s].name IN
      /\ put[n] # "none" => disk[files'[s].path][n] = put[n]
      /\ \A i \in 1..(files'[s].path - 1): disk[i][n] \notin Regular

LEMMA FilesStart == FilesInit => FilesInv
<1> SUFFICES ASSUME FilesInit PROVE FilesInv
  OBVIOUS
<1>1. FilesType
  BY DEF FilesInit, FilesType, NoTry, Mode, Regular
<1>2. PutThere /\ Tried /\ PassedBy
  BY DEF FilesInit, PutThere, Tried, PassedBy
<1> QED
  BY <1>1, <1>2 DEF FilesInv

(* A path that is left changes no file.                                    *)
LEMMA NextPathKeeps ==
  ASSUME FilesInv, Trying, NextPath, UNCHANGED <<paths, files>>, descs' \subseteq Desc, descs \subseteq descs',
         disk' = disk, put' = put,
         try.mode = "rdonly" => descs = Desc \/ Full \/ disk[try.path][try.name] \notin Regular
  PROVE  FilesInv'
<1>1. FilesType /\ PutThere /\ PassedBy /\ try.name \in FileName /\ try.path \in 1..4 /\ try.mode \in Mode
  BY DEF FilesInv, FilesType, Tried, Trying
<1>2. try' = [name |-> try.name, mode |-> try.mode, path |-> try.path + 1]
  BY DEF FilesInv, FilesType, NextPath
<1>3. FilesType'
  BY <1>1, <1>2 DEF FilesType
<1>4. PutThere'
  BY <1>1 DEF PutThere
<1>5. Tried'
  BY <1>1, <1>2 DEF Tried
<1>6. ASSUME try.mode = "rdonly" PROVE descs' = Desc \/ Full' \/ \A i \in 1..try.path: disk[i][try.name] \notin Regular
  <2>1. descs = Desc \/ Full \/ \A i \in 1..(try.path - 1): disk[i][try.name] \notin Regular
    BY <1>1, <1>6 DEF PassedBy, Trying
  <2>2. CASE descs = Desc
    BY <2>2
  <2>3. CASE Full
    BY <2>3 DEF Full
  <2>4. CASE ~Full /\ descs # Desc
    <3>1. \A i \in 1..try.path: i = try.path \/ i \in 1..(try.path - 1)
      BY <1>1
    <3> QED
      BY <1>6, <2>1, <2>4, <3>1
  <2> QED
    BY <2>2, <2>3, <2>4
<1>7. PassedBy'
  <2>1. try'.path - 1 = try.path /\ try'.mode = try.mode /\ try'.name = try.name
    BY <1>1, <1>2
  <2> QED
    BY <1>6, <2>1 DEF PassedBy
<1> QED
  BY <1>3, <1>4, <1>5, <1>7 DEF FilesInv

(* What open itself does: a file is created or cut in the first path only, *)
(* and nothing is when it is opened to be read.                            *)
LEMMA OpenTouches ==
  ASSUME FilesInv, NEW d, OpenPath(d)
  PROVE  /\ FilesType /\ try.name \in FileName /\ try.path \in 1..4 /\ try.mode \in Mode
         /\ disk' \in [1..4 -> [FileName -> Regular \cup {"none", "directory"}]]
         /\ put' \in [FileName -> Regular \cup {"none"}]
         /\ d \in Desc /\ descs' = descs \cup {d} /\ descs # Desc
         /\ try.mode # "rdonly" => try.path = 1
         /\ try.mode = "rdonly" => disk' = disk /\ put' = put
         /\ \A n \in FileName: put'[n] # "none" => disk'[1][n] = put'[n]
<1>1. Trying /\ ~Skips(try.path, try.mode) /\ ~CannotOpen /\ d \in Desc \ descs /\ descs' = descs \cup {d}
  BY DEF OpenPath
<1>2. FilesType /\ PutThere /\ try.name \in FileName /\ try.path \in 1..4 /\ try.mode \in Mode
  BY <1>1 DEF FilesInv, FilesType, Tried, Trying
<1>3. try.mode # "rdonly" => try.path = 1
  BY <1>1 DEF Skips, ReadOnly
<1>4. disk \in [1..4 -> [FileName -> Regular \cup {"none", "directory"}]] /\ put \in [FileName -> Regular \cup {"none"}]
  BY <1>2 DEF FilesType
<1>5. Here \in Regular \cup {"none", "directory"}
  BY <1>2, <1>4 DEF Here
<1>6. Touched \in Regular \cup {"none", "directory"} /\ (try.mode = "rdonly" => Touched = Here)
  BY <1>5 DEF Touched, Regular
<1>7. Touched # Here => Touched = "empty"
  BY DEF Touched
<1>8. disk' = [disk EXCEPT ![try.path][try.name] = Touched]
  BY DEF OpenPath
<1>9. put' = IF try.mode = "rdonly" \/ Touched = Here THEN put ELSE [put EXCEPT ![try.name] = Touched]
  BY DEF OpenPath
<1>10. disk' \in [1..4 -> [FileName -> Regular \cup {"none", "directory"}]]
  <2>1. [disk[try.path] EXCEPT ![try.name] = Touched] \in [FileName -> Regular \cup {"none", "directory"}]
    BY <1>2, <1>4, <1>6
  <2> QED
    BY <1>2, <1>4, <1>8, <2>1
<1>11. put' \in [FileName -> Regular \cup {"none"}]
  BY <1>2, <1>4, <1>7, <1>9 DEF Regular
<1>12. Touched = Here => disk' = disk
  <2>1. ASSUME Touched = Here PROVE [disk[try.path] EXCEPT ![try.name] = Touched] = disk[try.path]
    BY <1>2, <1>4, <2>1 DEF Here
  <2>2. disk' = [disk EXCEPT ![try.path] = [disk[try.path] EXCEPT ![try.name] = Touched]]
    BY <1>8
  <2> QED
    BY <1>2, <1>4, <2>1, <2>2
<1>13. ASSUME NEW n \in FileName, put'[n] # "none" PROVE disk'[1][n] = put'[n]
  <2>1. CASE try.mode = "rdonly" \/ Touched = Here
    BY <1>2, <1>6, <1>9, <1>12, <1>13, <2>1 DEF PutThere
  <2>2. CASE try.mode # "rdonly" /\ Touched # Here
    <3>1. try.path = 1 /\ put' = [put EXCEPT ![try.name] = Touched]
      BY <1>3, <1>9, <2>2
    <3>2. disk'[1] = [disk[1] EXCEPT ![try.name] = Touched] /\ disk[1] \in [FileName -> Regular \cup {"none", "directory"}]
      BY <1>4, <1>8, <3>1
    <3> QED
      BY <1>2, <1>4, <1>13, <3>1, <3>2 DEF PutThere
  <2> QED
    BY <2>1, <2>2
<1> QED
  BY <1>1, <1>2, <1>3, <1>6, <1>9, <1>10, <1>11, <1>12, <1>13

LEMMA SkipPathKeeps ==
  ASSUME FilesInv, SkipPath
  PROVE  FilesInv'
<1>1. Trying /\ NextPath /\ UNCHANGED <<paths, disk, files, descs, put>> /\ (Skips(try.path, try.mode) \/ CannotOpen)
  BY DEF SkipPath
<1>2. try.mode = "rdonly" => descs = Desc \/ disk[try.path][try.name] \notin Regular
  BY <1>1, FilesAssumption DEF Skips, CannotOpen, Here, Regular
<1>3. descs \subseteq Desc
  BY DEF FilesInv, FilesType
<1> QED
  BY <1>1, <1>2, <1>3, NextPathKeeps

LEMMA LeavesOpenKeeps ==
  ASSUME FilesInv, NEW d \in Desc, LeavesOpen(d)
  PROVE  FilesInv'
<1>1. OpenPath(d) /\ NextPath /\ UNCHANGED <<paths, files>> /\ (Here = "directory" \/ Full)
  BY DEF LeavesOpen
<1>2. /\ FilesType /\ try.name \in FileName /\ try.path \in 1..4 /\ try.mode \in Mode
      /\ disk' \in [1..4 -> [FileName -> Regular \cup {"none", "directory"}]]
      /\ put' \in [FileName -> Regular \cup {"none"}]
      /\ d \in Desc /\ descs' = descs \cup {d} /\ descs # Desc
      /\ try.mode # "rdonly" => try.path = 1
      /\ try.mode = "rdonly" => disk' = disk /\ put' = put
      /\ \A n \in FileName: put'[n] # "none" => disk'[1][n] = put'[n]
  BY <1>1, OpenTouches
<1>3. CASE try.mode = "rdonly"
  <2>1. disk[try.path][try.name] \notin Regular \/ Full
    BY <1>1, FilesAssumption DEF Here, Regular
  <2>2. Trying
    BY <1>1 DEF OpenPath
  <2>3. descs' \subseteq Desc /\ descs \subseteq descs'
    BY <1>2 DEF FilesType
  <2> QED
    BY <1>1, <1>2, <1>3, <2>1, <2>2, <2>3, NextPathKeeps
<1>4. CASE try.mode # "rdonly"
  <2>1. try' = [name |-> try.name, mode |-> try.mode, path |-> try.path + 1]
    BY <1>1, <1>2 DEF FilesType, NextPath
  <2>2. FilesType'
    BY <1>1, <1>2, <2>1 DEF FilesType
  <2>3. PutThere'
    BY <1>1, <1>2 DEF FilesInv, PutThere
  <2>4. Tried' /\ PassedBy'
    BY <1>2, <1>4, <2>1 DEF Tried, PassedBy
  <2> QED
    BY <2>2, <2>3, <2>4 DEF FilesInv
<1> QED
  BY <1>3, <1>4

LEMMA OpensKeeps ==
  ASSUME FilesInv, NEW d \in Desc, NEW s \in Slot, Opens(d, s)
  PROVE  FilesInv' /\ ReadsRight
<1> DEFINE o == [name |-> try.name, mode |-> try.mode, path |-> try.path, desc |-> d]
<1>1. OpenPath(d) /\ Here # "directory" /\ files[s] = NONE /\ files' = [files EXCEPT ![s] = o]
      /\ try' = NoTry /\ paths' = paths
  BY DEF Opens
<1>2. /\ FilesType /\ try.name \in FileName /\ try.path \in 1..4 /\ try.mode \in Mode
      /\ disk' \in [1..4 -> [FileName -> Regular \cup {"none", "directory"}]]
      /\ put' \in [FileName -> Regular \cup {"none"}]
      /\ d \in Desc /\ descs' = descs \cup {d} /\ descs # Desc
      /\ try.mode # "rdonly" => try.path = 1
      /\ try.mode = "rdonly" => disk' = disk /\ put' = put
      /\ \A n \in FileName: put'[n] # "none" => disk'[1][n] = put'[n]
  BY <1>1, OpenTouches
<1>3. o \in OpenFile /\ o.mode = try.mode /\ o.name = try.name /\ o.path = try.path
  BY <1>2 DEF OpenFile
<1> HIDE DEF o
<1>4. NoTry \in [name: FileName \cup {NONE}, mode: Mode, path: 0..5]
  BY DEF NoTry, Mode
<1>5. FilesType'
  BY <1>1, <1>2, <1>3, <1>4 DEF FilesType
<1>6. PutThere'
  BY <1>1, <1>2, <1>3 DEF FilesInv, PutThere, FilesType
<1>7. Tried' /\ PassedBy'
  BY <1>1 DEF Tried, PassedBy
<1>8. ReadsRight
  <2> SUFFICES ASSUME NEW t \in Slot, ~IsOpen(t), IsOpen(t)', files'[t].mode = "rdonly"
               PROVE  /\ put[files'[t].name] # "none" => disk[files'[t].path][files'[t].name] = put[files'[t].name]
                      /\ \A i \in 1..(files'[t].path - 1): disk[i][files'[t].name] \notin Regular
    BY DEF ReadsRight
  <2>1. t = s /\ files'[t] = o
    BY <1>1, <1>2 DEF IsOpen, FilesType
  <2>2. try.mode = "rdonly" /\ ~Full /\ try # NoTry
    BY <1>1, <1>3, <2>1 DEF Full, OpenPath, Trying
  <2>3. \A i \in 1..(try.path - 1): disk[i][try.name] \notin Regular
    BY <1>2, <2>2 DEF FilesInv, PassedBy
  <2>4. ASSUME put[try.name] # "none" PROVE disk[try.path][try.name] = put[try.name]
    <3>1. put[try.name] \in Regular /\ disk[1][try.name] = put[try.name]
      BY <1>2, <2>4 DEF FilesInv, PutThere, FilesType
    <3>2. try.path = 1
      BY <1>2, <2>3, <3>1
    <3> QED
      BY <3>1, <3>2
  <2> QED
    BY <1>3, <2>1, <2>3, <2>4
<1> QED
  BY <1>5, <1>6, <1>7, <1>8 DEF FilesInv

LEMMA WriteKeeps ==
  ASSUME FilesInv, NEW s \in Slot, NEW c \in Content, Write(s, c)
  PROVE  FilesInv'
<1> DEFINE n == files[s].name
<1>1. /\ try = NoTry /\ files[s] # NONE /\ files[s].mode # "rdonly"
      /\ disk' = [disk EXCEPT ![files[s].path][n] = c] /\ put' = [put EXCEPT ![n] = c]
      /\ UNCHANGED <<paths, files, descs, try>>
  BY DEF Write
<1>2. FilesType /\ PutThere
  BY DEF FilesInv
<1>3. files[s].path = 1 /\ n \in FileName
  BY <1>1, <1>2 DEF PutThere, FilesType, OpenFile
<1> HIDE DEF n
<1>4. disk[1] \in [FileName -> Regular \cup {"none", "directory"}] /\ c \in Regular
  BY <1>2 DEF FilesType, Regular
<1>5. disk' = [disk EXCEPT ![1] = [disk[1] EXCEPT ![n] = c]]
  BY <1>1, <1>3
<1>6. [disk[1] EXCEPT ![n] = c] \in [FileName -> Regular \cup {"none", "directory"}]
  BY <1>3, <1>4
<1>7. disk' \in [1..4 -> [FileName -> Regular \cup {"none", "directory"}]] /\ disk'[1] = [disk[1] EXCEPT ![n] = c]
  BY <1>2, <1>5, <1>6 DEF FilesType
<1>8. put' \in [FileName -> Regular \cup {"none"}]
  BY <1>1, <1>2, <1>4 DEF FilesType
<1>9. FilesType'
  BY <1>1, <1>2, <1>7, <1>8 DEF FilesType
<1>10. PutThere'
  BY <1>1, <1>2, <1>3, <1>4, <1>7 DEF PutThere, FilesType
<1>11. Tried' /\ PassedBy'
  BY <1>1 DEF Tried, PassedBy
<1> QED
  BY <1>9, <1>10, <1>11 DEF FilesInv

LEMMA FilesKeep == FilesInv /\ [FilesNext]_filesVars => FilesInv' /\ ReadsRight
<1> SUFFICES ASSUME FilesInv, [FilesNext]_filesVars PROVE FilesInv' /\ ReadsRight
  OBVIOUS
<1>1. files' = files => ReadsRight
  BY DEF ReadsRight, IsOpen
<1>2. ASSUME NEW n \in FileName, NEW m \in Mode, Open(n, m) PROVE FilesInv' /\ ReadsRight
  <2>1. try' = [name |-> n, mode |-> m, path |-> 1] /\ UNCHANGED <<paths, disk, files, descs, put>>
    BY <1>2 DEF Open
  <2>2. FilesType' /\ PutThere' /\ Tried'
    BY <2>1 DEF FilesInv, FilesType, PutThere, Tried
  <2>3. PassedBy'
    BY <2>1 DEF PassedBy
  <2> QED
    BY <1>1, <2>1, <2>2, <2>3 DEF FilesInv
<1>3. CASE SkipPath
  BY <1>1, <1>3, SkipPathKeeps DEF SkipPath
<1>4. ASSUME NEW d \in Desc, LeavesOpen(d) PROVE FilesInv' /\ ReadsRight
  BY <1>1, <1>4, LeavesOpenKeeps DEF LeavesOpen
<1>5. ASSUME NEW d \in Desc, NEW s \in Slot, Opens(d, s) PROVE FilesInv' /\ ReadsRight
  BY <1>5, OpensKeeps
<1>6. CASE OpenFails
  <2>1. try' = NoTry /\ UNCHANGED <<paths, disk, files, descs, put>>
    BY <1>6 DEF OpenFails
  <2>2. NoTry \in [name: FileName \cup {NONE}, mode: Mode, path: 0..5]
    BY DEF NoTry, Mode
  <2> QED
    BY <1>1, <2>1, <2>2 DEF FilesInv, FilesType, PutThere, Tried, PassedBy
<1>7. ASSUME NEW s \in Slot, NEW c \in Content, Write(s, c) PROVE FilesInv' /\ ReadsRight
  BY <1>1, <1>7, WriteKeeps DEF Write
<1>8. ASSUME NEW s \in Slot, CloseFile(s) PROVE FilesInv' /\ ReadsRight
  <2>1. /\ try = NoTry /\ descs' = descs \ {files[s].desc} /\ files' = [files EXCEPT ![s] = NONE]
        /\ UNCHANGED <<paths, disk, try, put>>
    BY <1>8 DEF CloseFile
  <2>2. FilesType' /\ PutThere'
    BY <2>1 DEF FilesInv, FilesType, PutThere
  <2>3. Tried' /\ PassedBy'
    BY <2>1 DEF FilesInv, Tried, PassedBy
  <2>4. ReadsRight
    BY <2>1 DEF ReadsRight, IsOpen, FilesInv, FilesType
  <2> QED
    BY <2>2, <2>3, <2>4 DEF FilesInv
<1>9. CASE UNCHANGED filesVars
  <2>1. UNCHANGED <<paths, disk, files, descs, try, put>>
    BY <1>9 DEF filesVars
  <2> QED
    BY <1>1, <2>1 DEF FilesInv, FilesType, PutThere, Tried, PassedBy, Full
<1> QED
  BY <1>2, <1>3, <1>4, <1>5, <1>6, <1>7, <1>8, <1>9 DEF FilesNext

(* ReadsSaved: fs_open returns, to be read, the file that was last written *)
(* under the name, whatever opens have failed half-way, for any files,     *)
(* descriptors and file_t (fs_open, fs_write).                             *)
THEOREM SavedIsRead == FilesSpec => ReadsSaved
<1>1. FilesInv /\ [FilesNext]_filesVars => [ReadsRight]_filesVars
  BY FilesKeep
<1>2. FilesInv /\ [FilesNext]_filesVars => FilesInv'
  BY FilesKeep
<1> QED
  BY <1>1, <1>2, FilesStart, PTL DEF FilesSpec, ReadsSaved, ReadsRight

-----------------------------------------------------------------------------
(* Chains of pointers.  The library's induction theorems cannot be used    *)
(* with the provers there are; that a set of numbers has a least element,  *)
(* and a set of finite sets a minimal one, can.                            *)

(* The nodes s[1], ..., s[n] are a list, doubly linked.                    *)
Links(n, s, head, nx, pv) ==
  /\ head = IF n = 0 THEN NONE ELSE s[1]
  /\ \A k \in 1..n: nx[s[k]] = IF k < n THEN s[k + 1] ELSE NONE
  /\ \A k \in 1..n: pv[s[k]] = IF k > 1 THEN s[k - 1] ELSE NONE
  /\ \A j, k \in 1..n: s[j] = s[k] => j = k

(* A loop along it reaches them all.                                       *)
LEMMA Reaches ==
  ASSUME NEW all, IsFiniteSet(all), NONE \notin all,
         NEW n \in Nat, NEW s \in [1..n -> all], NEW head, NEW nx, NEW pv, Links(n, s, head, nx, pv)
  PROVE  Reached(head, nx, all) = {s[k]: k \in 1..n}
<1> DEFINE c == Cardinality(all)
           g == [i \in 1..c |-> IF i <= n THEN s[i] ELSE NONE]
           Step(f) == [i \in 1..c |-> IF i = 1 THEN head ELSE IF f[i - 1] = NONE THEN NONE ELSE nx[f[i - 1]]]
           nth == CHOOSE f: f = Step(f)
<1>1. c \in Nat /\ n <= c
  <2>1. s \in Injection(1..n, all)
    BY DEF Links, Injection, IsInjective
  <2>2. Cardinality(1..n) <= Cardinality(all)
    BY <2>1, FS_Injection
  <2>3. Cardinality(1..n) = n
    BY FS_Interval
  <2> QED
    BY <2>2, <2>3, FS_CardinalityType
<1> HIDE DEF c
<1>2. ASSUME NEW i \in 1..c PROVE g[i] = Step(g)[i]
  <2>1. CASE i = 1
    BY <1>1, <2>1 DEF Links
  <2>2. CASE i # 1
    <3>1. i - 1 \in 1..c /\ (i <= n <=> i - 1 < n) /\ i - 1 + 1 = i
      BY <1>1, <2>2
    <3>2. CASE i - 1 <= n
      <4>1. i - 1 \in 1..n /\ g[i - 1] = s[i - 1] /\ s[i - 1] # NONE
        BY <3>1, <3>2
      <4>2. nx[s[i - 1]] = IF i - 1 < n THEN s[i] ELSE NONE
        BY <3>1, <4>1 DEF Links
      <4> QED
        BY <2>2, <3>1, <4>1, <4>2
    <3>3. CASE ~(i - 1 <= n)
      BY <1>1, <2>2, <3>1, <3>3
    <3> QED
      BY <3>2, <3>3
  <2> QED
    BY <2>1, <2>2
<1>3. g = Step(g)
  BY <1>2
<1>4. nth = Step(nth)
  BY <1>3
<1>5. \A i \in 1..c: nth[i] = g[i]
  <2> DEFINE T == {i \in 1..c: nth[i] # g[i]}
  <2> SUFFICES ASSUME T # {} PROVE FALSE
    OBVIOUS
  <2>1. T \in SUBSET Nat
    BY <1>1
  <2>2. PICK i \in T: \A m \in T: i <= m
    BY <2>1, Least, Zenon
  <2>3. i \in 1..c /\ nth[i] # g[i]
    BY <2>2
  <2>4. nth[i] = Step(nth)[i] /\ g[i] = Step(g)[i]
    BY <1>3, <1>4
  <2> HIDE DEF nth, g
  <2>5. i # 1
    BY <2>3, <2>4
  <2>6. i - 1 \in 1..c /\ i - 1 \notin T
    BY <1>1, <2>2, <2>3, <2>5
  <2>7. nth[i - 1] = g[i - 1]
    BY <2>6, SMTT(30)
  <2> QED
    BY <2>3, <2>4, <2>7
<1>6. DOMAIN nth = 1..c
  BY <1>4
<1>7. Reached(head, nx, all) = IF head = NONE THEN {} ELSE {nth[i]: i \in DOMAIN nth} \ {NONE}
  BY DEF Reached, c
<1> HIDE DEF nth
<1>8. {nth[i]: i \in DOMAIN nth} = {g[i]: i \in 1..c}
  BY <1>5, <1>6
<1>9. CASE n = 0
  BY <1>7, <1>9 DEF Links
<1>10. CASE n # 0
  <2>1. head # NONE
    BY <1>10 DEF Links
  <2>2. {g[i]: i \in 1..c} \ {NONE} = {s[k]: k \in 1..n}
    BY <1>1
  <2> QED
    BY <1>7, <1>8, <2>1, <2>2
<1> QED
  BY <1>9, <1>10

-----------------------------------------------------------------------------
(* Sums.  The sum of natural numbers b over a set is the size of a set of  *)
(* pairs.                                                                  *)

Pile(b, S) == {p \in S \X Nat: p[2] \in 1..b[p[1]]}
Weight(b, S) == Cardinality(Pile(b, S))

LEMMA PileOne ==
  ASSUME NEW b, NEW x, b[x] \in Nat
  PROVE  IsFiniteSet(Pile(b, {x})) /\ Weight(b, {x}) = b[x]
<1> DEFINE f == [k \in 1..b[x] |-> <<x, k>>]
<1>1. \A p \in Pile(b, {x}): p[2] \in 1..b[x] /\ p = <<x, p[2]>>
  BY DEF Pile
<1>2. \A k \in 1..b[x]: <<x, k>> \in Pile(b, {x})
  BY DEF Pile
<1>3. f \in Bijection(1..b[x], Pile(b, {x}))
  <2>1. f \in [1..b[x] -> Pile(b, {x})]
    BY <1>2
  <2>2. \A p \in Pile(b, {x}): \E k \in 1..b[x]: f[k] = p
    BY <1>1
  <2>3. \A j, k \in 1..b[x]: f[j] = f[k] => j = k
    OBVIOUS
  <2> QED
    BY <2>1, <2>2, <2>3 DEF Bijection, Injection, Surjection, IsInjective
<1>4. ExistsBijection(1..b[x], Pile(b, {x}))
  BY <1>3 DEF ExistsBijection
<1> QED
  BY <1>4, FS_CountingElements, FS_NatBijection DEF Weight

LEMMA PileFinite ==
  ASSUME NEW b, NEW S, IsFiniteSet(S), \A x \in S: b[x] \in Nat
  PROVE  IsFiniteSet(Pile(b, S)) /\ Weight(b, S) \in Nat
<1> DEFINE U == {Pile(b, {x}): x \in S}
           f == [x \in S |-> Pile(b, {x})]
<1>1. f \in Surjection(S, U)
  BY DEF Surjection
<1>2. IsFiniteSet(U)
  BY <1>1, FS_Surjection
<1>3. \A T \in U: IsFiniteSet(T)
  BY PileOne
<1>4. Pile(b, S) = UNION U
  BY DEF Pile
<1>5. IsFiniteSet(Pile(b, S))
  BY <1>2, <1>3, <1>4, FS_UNION
<1> QED
  BY <1>5, FS_CardinalityType DEF Weight

LEMMA WeightNone == \A b: Weight(b, {}) = 0
<1>1. \A b: Pile(b, {}) = {}
  BY DEF Pile
<1> QED
  BY <1>1, FS_EmptySet DEF Weight

LEMMA WeightAdds ==
  ASSUME NEW b, NEW S, IsFiniteSet(S), \A x \in S: b[x] \in Nat, NEW x, x \notin S, b[x] \in Nat
  PROVE  Weight(b, S \cup {x}) = Weight(b, S) + b[x]
<1>1. Pile(b, S \cup {x}) = Pile(b, S) \cup Pile(b, {x}) /\ Pile(b, S) \cap Pile(b, {x}) = {}
  BY DEF Pile
<1>2. IsFiniteSet(Pile(b, S)) /\ IsFiniteSet(Pile(b, {x})) /\ Weight(b, {x}) = b[x] /\ Weight(b, S) \in Nat
  BY PileFinite, PileOne
<1>3. Cardinality(Pile(b, S) \cup Pile(b, {x}))
      = Cardinality(Pile(b, S)) + Cardinality(Pile(b, {x})) - Cardinality(Pile(b, S) \cap Pile(b, {x}))
  BY <1>2, FS_Union
<1>4. Cardinality(Pile(b, S) \cap Pile(b, {x})) = 0
  BY <1>1, FS_EmptySet
<1>5. Cardinality(Pile(b, S \cup {x})) = Cardinality(Pile(b, S)) + b[x] - 0
  BY <1>1, <1>2, <1>3, <1>4 DEF Weight
<1> QED
  BY <1>2, <1>5 DEF Weight

LEMMA WeightDrops ==
  ASSUME NEW b, NEW S, IsFiniteSet(S), \A x \in S: b[x] \in Nat, NEW x \in S
  PROVE  Weight(b, S \ {x}) = Weight(b, S) - b[x] /\ Weight(b, S \ {x}) \in Nat
<1> DEFINE T == S \ {x}
<1>1. IsFiniteSet(T) /\ x \notin T /\ T \cup {x} = S /\ (\A y \in T: b[y] \in Nat) /\ b[x] \in Nat
  BY FS_Subset
<1> HIDE DEF T
<1>2. Weight(b, S) = Weight(b, T) + b[x] /\ Weight(b, T) \in Nat
  BY <1>1, WeightAdds, PileFinite
<1> QED
  BY <1>1, <1>2 DEF T

LEMMA WeightSame ==
  ASSUME NEW a, NEW b, NEW S, \A x \in S: a[x] = b[x]
  PROVE  Weight(a, S) = Weight(b, S)
<1>1. Pile(a, S) = Pile(b, S)
  BY DEF Pile
<1> QED
  BY <1>1 DEF Weight

(* A set of finite sets has a minimal one.                                 *)
LEMMA Smallest ==
  ASSUME NEW S, IsFiniteSet(S), NEW T \in SUBSET SUBSET S, T # {}
  PROVE  \E s \in T: \A t \in T: t \subseteq s => t = s
<1> DEFINE R == StrictSubsetOrdering(S)
<1>1. IsWellFoundedOn(R, SUBSET S)
  BY FS_StrictSubsetOrderingWellFounded, FS_FiniteSubsetsOfFinite
<1>2. \A s, t \in SUBSET S: t \subseteq s /\ t # s => <<t, s>> \in R
  BY DEF StrictSubsetOrdering
<1> HIDE DEF R
<1>3. \E s \in T: \A t \in T: ~(<<t, s>> \in R)
  BY <1>1, WFMin
<1> QED
  BY <1>2, <1>3

LEMMA SumIsWeight ==
  ASSUME NEW b, NEW S, IsFiniteSet(S), \A x \in S: b[x] \in Nat
  PROVE  AsHeap!MapThenSumSet(LAMBDA a: b[a], S) = Weight(b, S)
<1> DEFINE One(s) == CHOOSE x \in s: TRUE
           Step(f) == [s \in SUBSET S |-> IF s = {} THEN 0 ELSE b[One(s)] + f[s \ {One(s)}]]
           iter == CHOOSE f: f = Step(f)
           g == [s \in SUBSET S |-> Weight(b, s)]
<1>1. \A s \in SUBSET S: s # {} => One(s) \in s /\ s \ {One(s)} \in SUBSET S
  OBVIOUS
<1>2. AsHeap!MapThenSumSet(LAMBDA a: b[a], S) = iter[S]
  BY DEF AsHeap!MapThenSumSet, AsHeap!MapThenFoldSet
<1> HIDE DEF One
<1>3. ASSUME NEW s \in SUBSET S PROVE g[s] = Step(g)[s]
  <2>1. CASE s = {}
    BY <2>1, WeightNone
  <2>2. CASE s # {}
    <3>1. IsFiniteSet(s) /\ One(s) \in s /\ s \ {One(s)} \in SUBSET S
      BY <1>1, <2>2, FS_Subset
    <3>2. Weight(b, s \ {One(s)}) = Weight(b, s) - b[One(s)] /\ b[One(s)] \in Nat /\ Weight(b, s) \in Nat
      BY <3>1, WeightDrops, PileFinite
    <3> QED
      BY <2>2, <3>1, <3>2
  <2> QED
    BY <2>1, <2>2
<1>4. g = Step(g)
  BY <1>3
<1>5. iter = Step(iter)
  BY <1>4
<1>6. iter[S] = g[S]
  <2> DEFINE T == {s \in SUBSET S: iter[s] # g[s]}
  <2> SUFFICES ASSUME T # {} PROVE FALSE
    <3>1. T # {} \/ T = {}
      OBVIOUS
    <3>2. S \in SUBSET S
      OBVIOUS
    <3> HIDE DEF iter, g
    <3> QED
      BY <3>1, <3>2
  <2>0. T \in SUBSET SUBSET S
    OBVIOUS
  <2> HIDE DEF T
  <2>1. PICK s \in T: \A t \in T: t \subseteq s => t = s
    BY <2>0, Smallest
  <2> USE DEF T
  <2>2. s \in SUBSET S /\ iter[s] # g[s] /\ iter[s] = Step(iter)[s] /\ g[s] = Step(g)[s]
    BY <1>4, <1>5, <2>1
  <2> HIDE DEF iter, g
  <2>3. s # {}
    BY <2>2
  <2>4. One(s) \in s /\ s \ {One(s)} \in SUBSET S /\ s \ {One(s)} \notin T
    BY <1>1, <2>1, <2>2, <2>3
  <2>5. iter[s \ {One(s)}] = g[s \ {One(s)}]
    BY <2>4
  <2> QED
    BY <2>2, <2>3, <2>5
<1> QED
  BY <1>2, <1>6

-----------------------------------------------------------------------------
(* Doubly linked lists, by what is in them.                                *)

IsList(head, nx, pv, all, S) ==
  \E n \in Nat: \E s \in [1..n -> all]: Links(n, s, head, nx, pv) /\ S = {s[k]: k \in 1..n}

LEMMA ListReached ==
  ASSUME NEW all, IsFiniteSet(all), NONE \notin all, NEW head, NEW nx, NEW pv, NEW S,
         IsList(head, nx, pv, all, S)
  PROVE  Reached(head, nx, all) = S /\ S \subseteq all /\ IsFiniteSet(S)
<1>0. PICK n \in Nat: \E s \in [1..n -> all]: Links(n, s, head, nx, pv) /\ S = {s[k]: k \in 1..n}
  BY DEF IsList
<1>1. PICK s \in [1..n -> all]: Links(n, s, head, nx, pv) /\ S = {s[k]: k \in 1..n}
  BY <1>0
<1>2. Reached(head, nx, all) = S
  BY <1>1, Reaches
<1>3. S \subseteq all
  BY <1>1
<1> QED
  BY <1>2, <1>3, FS_Subset

LEMMA ListNone ==
  ASSUME NEW all, NEW nx, NEW pv
  PROVE  IsList(NONE, nx, pv, all, {})
<1> DEFINE s == [k \in 1..0 |-> NONE]
<1>1. s \in [1..0 -> all] /\ {s[k]: k \in 1..0} = {} /\ Links(0, s, NONE, nx, pv)
  BY DEF Links
<1> QED
  BY <1>1 DEF IsList

(* Pointers of a node lead to nodes, and the first has none before it.     *)
LEMMA ListEnds ==
  ASSUME NEW all, NONE \notin all, NEW head, NEW nx, NEW pv, NEW S, IsList(head, nx, pv, all, S)
  PROVE  /\ head = NONE <=> S = {}
         /\ head \in S \cup {NONE}
         /\ head # NONE => pv[head] = NONE
         /\ \A b \in S: /\ nx[b] \in S \cup {NONE} /\ pv[b] \in S \cup {NONE}
                        /\ pv[b] = NONE <=> b = head
                        /\ nx[b] # b /\ pv[b] # b
<1>0. PICK n \in Nat: \E s \in [1..n -> all]: Links(n, s, head, nx, pv) /\ S = {s[k]: k \in 1..n}
  BY DEF IsList
<1>1. PICK s \in [1..n -> all]: Links(n, s, head, nx, pv) /\ S = {s[k]: k \in 1..n}
  BY <1>0
<1>2. head = NONE <=> S = {}
  BY <1>1 DEF Links
<1>3. head \in S \cup {NONE} /\ (head # NONE => pv[head] = NONE)
  BY <1>1 DEF Links
<1>4. ASSUME NEW b \in S
      PROVE  /\ nx[b] \in S \cup {NONE} /\ pv[b] \in S \cup {NONE}
             /\ pv[b] = NONE <=> b = head
             /\ nx[b] # b /\ pv[b] # b
  <2>1. PICK k \in 1..n: b = s[k]
    BY <1>1
  <2>2. nx[b] = (IF k < n THEN s[k + 1] ELSE NONE) /\ pv[b] = (IF k > 1 THEN s[k - 1] ELSE NONE)
    BY <1>1, <2>1 DEF Links
  <2>3. k < n => k + 1 \in 1..n /\ s[k + 1] \in S /\ s[k + 1] # b
    BY <1>1, <2>1 DEF Links
  <2>4. k > 1 => k - 1 \in 1..n /\ s[k - 1] \in S /\ s[k - 1] # b /\ s[k - 1] # NONE
    BY <1>1, <2>1 DEF Links
  <2>5. head = s[1] /\ 1 \in 1..n /\ (s[k] = s[1] <=> k = 1)
    BY <1>1, <2>1 DEF Links
  <2>6. b # NONE
    BY <2>1
  <2> QED
    BY <2>1, <2>2, <2>3, <2>4, <2>5, <2>6
<1> QED
  BY <1>2, <1>3, <1>4

LEMMA ListSame ==
  ASSUME NEW all, NEW head, NEW nx, NEW pv, NEW S, IsList(head, nx, pv, all, S),
         NEW mx, NEW qv, \A b \in S: mx[b] = nx[b] /\ qv[b] = pv[b]
  PROVE  IsList(head, mx, qv, all, S)
<1>0. PICK n \in Nat: \E s \in [1..n -> all]: Links(n, s, head, nx, pv) /\ S = {s[k]: k \in 1..n}
  BY DEF IsList
<1>1. PICK s \in [1..n -> all]: Links(n, s, head, nx, pv) /\ S = {s[k]: k \in 1..n}
  BY <1>0
<1>2. \A k \in 1..n: mx[s[k]] = nx[s[k]] /\ qv[s[k]] = pv[s[k]]
  BY <1>1
<1>3. Links(n, s, head, mx, qv)
  BY <1>1, <1>2 DEF Links
<1> QED
  BY <1>1, <1>3 DEF IsList

(* A node is added before the first.                                       *)
LEMMA ListAdds ==
  ASSUME NEW all, NONE \notin all, NEW head, NEW nx, NEW pv, NEW S, IsList(head, nx, pv, all, S),
         NEW b \in all, b \notin S, NEW mx, NEW qv,
         mx[b] = head /\ qv[b] = NONE, head # NONE => qv[head] = b,
         \A x \in S: mx[x] = nx[x] /\ (x # head => qv[x] = pv[x])
  PROVE  IsList(b, mx, qv, all, S \cup {b})
<1>0. PICK n \in Nat: \E s \in [1..n -> all]: Links(n, s, head, nx, pv) /\ S = {s[k]: k \in 1..n}
  BY DEF IsList
<1>1. PICK s \in [1..n -> all]: Links(n, s, head, nx, pv) /\ S = {s[k]: k \in 1..n}
  BY <1>0
<1> DEFINE t == [k \in 1..n + 1 |-> IF k = 1 THEN b ELSE s[k - 1]]
<1>2. t \in [1..n + 1 -> all] /\ n + 1 \in Nat
  OBVIOUS
<1>3. t[1] = b /\ \A k \in 1..n: k + 1 \in 1..n + 1 /\ t[k + 1] = s[k]
  OBVIOUS
<1>4. \A k \in 1..n + 1: k = 1 \/ (k - 1 \in 1..n /\ t[k] = s[k - 1])
  OBVIOUS
<1> HIDE DEF t
<1>5. {t[k]: k \in 1..n + 1} = S \cup {b}
  <2>1. \A k \in 1..n + 1: t[k] \in S \cup {b}
    BY <1>1, <1>3, <1>4
  <2>2. \A x \in S: \E k \in 1..n + 1: t[k] = x
    BY <1>1, <1>3
  <2>3. 1 \in 1..n + 1
    OBVIOUS
  <2> QED
    BY <1>3, <2>1, <2>2, <2>3
<1>6. \A k \in 1..n: s[k] # b /\ s[k] \in S
  BY <1>1
<1>7. head = IF n = 0 THEN NONE ELSE s[1]
  BY <1>1 DEF Links
<1>8. ASSUME NEW k \in 1..n + 1 PROVE mx[t[k]] = IF k < n + 1 THEN t[k + 1] ELSE NONE
  <2>1. CASE k = 1
    BY <1>3, <1>7, <2>1
  <2>2. CASE k # 1
    <3>1. k - 1 \in 1..n /\ t[k] = s[k - 1] /\ k - 1 + 1 = k
      BY <1>4, <2>2
    <3>2. mx[t[k]] = IF k - 1 < n THEN s[k] ELSE NONE
      BY <1>1, <1>6, <3>1 DEF Links
    <3>3. k < n + 1 => k \in 1..n /\ t[k + 1] = s[k]
      BY <1>3
    <3> QED
      BY <3>1, <3>2, <3>3
  <2> QED
    BY <2>1, <2>2
<1>9. ASSUME NEW k \in 1..n + 1 PROVE qv[t[k]] = IF k > 1 THEN t[k - 1] ELSE NONE
  <2>1. CASE k = 1
    BY <1>3, <2>1
  <2>2. CASE k = 2
    <3>1. 1 \in 1..n /\ t[k] = s[1] /\ head = s[1] /\ s[1] # NONE
      BY <1>3, <1>4, <1>7, <2>2
    <3> QED
      BY <1>3, <2>2, <3>1
  <2>3. CASE k > 2
    <3>1. k - 1 \in 1..n /\ k - 2 \in 1..n /\ t[k] = s[k - 1] /\ k - 2 + 1 = k - 1
      BY <1>4, <2>3
    <3>2. t[k - 1] = s[k - 2]
      BY <1>3, <3>1
    <3>3. s[k - 1] # head
      BY <1>1, <1>7, <2>3, <3>1 DEF Links
    <3>4. qv[s[k - 1]] = pv[s[k - 1]] /\ pv[s[k - 1]] = s[k - 2]
      BY <1>1, <1>6, <2>3, <3>1, <3>3 DEF Links
    <3> QED
      BY <2>3, <3>1, <3>2, <3>4
  <2> QED
    BY <2>1, <2>2, <2>3
<1>10. \A j, k \in 1..n + 1: t[j] = t[k] => j = k
  <2> SUFFICES ASSUME NEW j \in 1..n + 1, NEW k \in 1..n + 1, t[j] = t[k] PROVE j = k
    OBVIOUS
  <2>1. (j = 1 <=> t[j] = b) /\ (k = 1 <=> t[k] = b)
    BY <1>3, <1>4, <1>6
  <2>2. CASE j # 1 /\ k # 1
    BY <1>1, <1>4, <2>2 DEF Links
  <2> QED
    BY <2>1, <2>2
<1>11. Links(n + 1, t, b, mx, qv)
  BY <1>3, <1>8, <1>9, <1>10 DEF Links
<1> QED
  BY <1>2, <1>5, <1>11 DEF IsList

(* A node b is taken out: its neighbours are told of each other.           *)
Around(b, nx, pv, S, mx, qv) ==
  \A x \in S \ {b}: /\ mx[x] = IF x = pv[b] THEN nx[b] ELSE nx[x]
                    /\ qv[x] = IF x = nx[b] THEN pv[b] ELSE pv[x]

LEMMA ListDrops ==
  ASSUME NEW all, NONE \notin all, NEW head, NEW nx, NEW pv, NEW S, IsList(head, nx, pv, all, S),
         NEW b \in S, NEW mx, NEW qv, Around(b, nx, pv, S, mx, qv),
         NEW h, h = IF pv[b] = NONE THEN nx[b] ELSE head
  PROVE  IsList(h, mx, qv, all, S \ {b})
<1>0. PICK n \in Nat: \E s \in [1..n -> all]: Links(n, s, head, nx, pv) /\ S = {s[k]: k \in 1..n}
  BY DEF IsList
<1>1. PICK s \in [1..n -> all]: Links(n, s, head, nx, pv) /\ S = {s[k]: k \in 1..n}
  BY <1>0
<1>2. PICK m \in 1..n: b = s[m]
  BY <1>1
<1> DEFINE t == [k \in 1..n - 1 |-> IF k < m THEN s[k] ELSE s[k + 1]]
<1>3. t \in [1..n - 1 -> all] /\ n - 1 \in Nat
  OBVIOUS
<1>4. \A k \in 1..n - 1: (k < m => t[k] = s[k]) /\ (k >= m => t[k] = s[k + 1])
  OBVIOUS
<1> HIDE DEF t
<1>5. nx[b] = (IF m < n THEN s[m + 1] ELSE NONE) /\ pv[b] = IF m > 1 THEN s[m - 1] ELSE NONE
  BY <1>1, <1>2 DEF Links
<1>6. \A k \in 1..n: s[k] \in all /\ s[k] \in S /\ s[k] # NONE /\ (s[k] = b <=> k = m)
  BY <1>1, <1>2 DEF Links
<1>7. \A k \in 1..n: (s[k] = pv[b] <=> k = m - 1) /\ (s[k] = nx[b] <=> k = m + 1)
  <2> SUFFICES ASSUME NEW k \in 1..n PROVE (s[k] = pv[b] <=> k = m - 1) /\ (s[k] = nx[b] <=> k = m + 1)
    OBVIOUS
  <2>1. m > 1 => m - 1 \in 1..n /\ (s[k] = s[m - 1] <=> k = m - 1)
    BY <1>1 DEF Links
  <2>2. m < n => m + 1 \in 1..n /\ (s[k] = s[m + 1] <=> k = m + 1)
    BY <1>1 DEF Links
  <2> QED
    BY <1>5, <1>6, <2>1, <2>2
<1>8. \A k \in 1..n: k # m => /\ mx[s[k]] = IF k = m - 1 THEN nx[b] ELSE nx[s[k]]
                              /\ qv[s[k]] = IF k = m + 1 THEN pv[b] ELSE pv[s[k]]
  <2>1. \A x \in S \ {b}: /\ mx[x] = IF x = pv[b] THEN nx[b] ELSE nx[x]
                          /\ qv[x] = IF x = nx[b] THEN pv[b] ELSE pv[x]
    BY DEF Around
  <2> QED
    BY <1>6, <1>7, <2>1
<1>9. \A k \in 1..n: /\ nx[s[k]] = IF k < n THEN s[k + 1] ELSE NONE
                     /\ pv[s[k]] = IF k > 1 THEN s[k - 1] ELSE NONE
  BY <1>1 DEF Links
<1>10. {t[k]: k \in 1..n - 1} = S \ {b}
  <2>1. ASSUME NEW k \in 1..n - 1 PROVE t[k] \in S \ {b}
    <3>1. CASE k < m
      BY <1>4, <1>6, <3>1
    <3>2. CASE k >= m
      <4>1. k + 1 \in 1..n /\ k + 1 # m
        BY <3>2
      <4> QED
        BY <1>4, <1>6, <3>2, <4>1
    <3> QED
      BY <3>1, <3>2
  <2>2. ASSUME NEW x \in S \ {b} PROVE \E k \in 1..n - 1: t[k] = x
    <3>1. PICK k \in 1..n: s[k] = x
      BY <1>1
    <3>2. k # m
      BY <1>6, <3>1
    <3>3. CASE k < m
      <4>1. k \in 1..n - 1 /\ t[k] = x
        BY <1>4, <3>1, <3>3
      <4> QED
        BY <4>1
    <3>4. CASE k > m
      <4>1. k - 1 \in 1..n - 1 /\ k - 1 >= m /\ k - 1 + 1 = k
        BY <3>4
      <4>2. t[k - 1] = x
        BY <1>4, <3>1, <4>1
      <4> QED
        BY <4>1, <4>2
    <3> QED
      BY <3>2, <3>3, <3>4
  <2> QED
    BY <2>1, <2>2
<1>11. ASSUME NEW k \in 1..n - 1 PROVE mx[t[k]] = IF k < n - 1 THEN t[k + 1] ELSE NONE
  <2>1. CASE k < m - 1
    <3>1. k \in 1..n /\ k + 1 \in 1..n - 1 /\ k < n - 1 /\ k < n /\ k # m
      BY <2>1
    <3> QED
      BY <1>4, <1>8, <1>9, <2>1, <3>1
  <2>2. CASE k = m - 1
    <3>1. k \in 1..n /\ k # m /\ t[k] = s[k] /\ mx[s[k]] = nx[b]
      BY <1>4, <1>8, <2>2
    <3>2. m < n => m \in 1..n - 1 /\ t[m] = s[m + 1]
      BY <1>4
    <3> QED
      BY <1>5, <2>2, <3>1, <3>2
  <2>3. CASE k >= m
    <3>1. k + 1 \in 1..n /\ k + 1 # m /\ k + 1 # m - 1 /\ t[k] = s[k + 1]
      BY <1>4, <2>3
    <3>2. mx[s[k + 1]] = IF k + 1 < n THEN s[k + 1 + 1] ELSE NONE
      BY <1>8, <1>9, <3>1
    <3>3. k < n - 1 => k + 1 \in 1..n - 1 /\ t[k + 1] = s[k + 1 + 1]
      BY <1>4, <2>3
    <3> QED
      BY <3>1, <3>2, <3>3
  <2> QED
    BY <2>1, <2>2, <2>3
<1>12. ASSUME NEW k \in 1..n - 1 PROVE qv[t[k]] = IF k > 1 THEN t[k - 1] ELSE NONE
  <2>1. CASE k < m
    <3>1. k \in 1..n /\ k # m /\ k # m + 1 /\ t[k] = s[k]
      BY <1>4, <2>1
    <3>2. qv[s[k]] = IF k > 1 THEN s[k - 1] ELSE NONE
      BY <1>8, <1>9, <3>1
    <3>3. k > 1 => k - 1 \in 1..n - 1 /\ t[k - 1] = s[k - 1]
      BY <1>4, <2>1
    <3> QED
      BY <3>1, <3>2, <3>3
  <2>2. CASE k = m
    <3>1. k + 1 \in 1..n /\ t[k] = s[k + 1] /\ qv[s[k + 1]] = pv[b]
      BY <1>4, <1>8, <2>2
    <3>2. m > 1 => m - 1 \in 1..n - 1 /\ t[m - 1] = s[m - 1]
      BY <1>4
    <3> QED
      BY <1>5, <2>2, <3>1, <3>2
  <2>3. CASE k > m
    <3>1. k + 1 \in 1..n /\ k + 1 # m /\ k + 1 # m + 1 /\ t[k] = s[k + 1] /\ k + 1 > 1 /\ k + 1 - 1 = k
      BY <1>4, <2>3
    <3>2. qv[s[k + 1]] = s[k]
      BY <1>8, <1>9, <3>1
    <3>3. k > 1 /\ k - 1 \in 1..n - 1 /\ k - 1 >= m /\ k - 1 + 1 = k
      BY <2>3
    <3>4. t[k - 1] = s[k]
      BY <1>4, <3>3
    <3> QED
      BY <3>1, <3>2, <3>3, <3>4
  <2> QED
    BY <2>1, <2>2, <2>3
<1>13. \A j, k \in 1..n - 1: t[j] = t[k] => j = k
  <2>1. \A j, k \in 1..n: s[j] = s[k] => j = k
    BY <1>1 DEF Links
  <2>2. \A k \in 1..n - 1: \E i \in 1..n: t[k] = s[i] /\ i = IF k < m THEN k ELSE k + 1
    BY <1>4
  <2> QED
    BY <2>1, <2>2
<1>14. h = IF n - 1 = 0 THEN NONE ELSE t[1]
  <2>1. head = s[1] /\ 1 \in 1..n
    BY <1>1 DEF Links
  <2>2. CASE m = 1
    <3>1. h = IF n > 1 THEN s[2] ELSE NONE
      BY <1>5, <2>2
    <3>2. n > 1 => 1 \in 1..n - 1 /\ t[1] = s[2]
      BY <1>4, <2>2
    <3> QED
      BY <3>1, <3>2
  <2>3. CASE m > 1
    <3>1. m - 1 \in 1..n /\ s[m - 1] # NONE
      BY <1>6, <2>3
    <3>2. 1 \in 1..n - 1 /\ t[1] = s[1]
      BY <1>4, <2>3
    <3> QED
      BY <1>5, <2>1, <2>3, <3>1, <3>2
  <2> QED
    BY <2>2, <2>3
<1>15. Links(n - 1, t, h, mx, qv)
  BY <1>11, <1>12, <1>13, <1>14 DEF Links
<1> QED
  BY <1>3, <1>10, <1>15 DEF IsList

-----------------------------------------------------------------------------
(* The pools: the inductive invariant (Pools).                             *)

(* A block in the list of a pool is known to be of it, so it is in no      *)
(* other's, and the size of a pool is that of the blocks in its list.      *)
Filled(p) ==
  /\ IsList(allocs[p], next, prev, Block, Blocks(p))
  /\ sizeMax[p] \in Limit /\ size[p] = Weight(length, Blocks(p))
  /\ \A b \in Blocks(p): b \in live /\ sen1[b] /\ owner[b] = p
PoolsInv ==
  /\ PoolsType
  /\ IsList(pools, pnext, pprev, Pool, PoolList)
  /\ \A p \in PoolList: Filled(p)
  /\ dying \in PoolList \cup {NONE}

USE DEF poolList, blockList

LEMMA PoolsFacts ==
  /\ NONE \notin Pool /\ NONE \notin Block /\ NONE \notin Limit /\ IsFiniteSet(Pool) /\ IsFiniteSet(Block)
  /\ Bytes \cup {0} \subseteq Nat
  BY PoolsAssumption

LEMMA Found ==
  ASSUME PoolsInv
  PROVE  /\ PoolList \subseteq Pool
         /\ \A p \in PoolList: Blocks(p) \subseteq Block /\ IsFiniteSet(Blocks(p))
         /\ \A p \in PoolList: \A b \in Blocks(p): owner[b] = p /\ length[b] \in Nat /\ b \in live
<1>1. PoolList \subseteq Pool
  BY PoolsFacts, ListReached DEF PoolsInv
<1>2. ASSUME NEW p \in PoolList PROVE Blocks(p) \subseteq Block /\ IsFiniteSet(Blocks(p))
  BY PoolsFacts, ListReached DEF PoolsInv, Filled
<1>3. ASSUME NEW p \in PoolList, NEW b \in Blocks(p) PROVE owner[b] = p /\ length[b] \in Nat /\ b \in live
  BY <1>2, PoolsFacts DEF PoolsInv, PoolsType, Filled
<1> QED
  BY <1>1, <1>2, <1>3

LEMMA PoolsStart == PoolsInit => PoolsInv
<1> SUFFICES ASSUME PoolsInit PROVE PoolsInv
  OBVIOUS
<1>1. PoolsType
  BY PoolsFacts DEF PoolsInit, PoolsType
<1>2. IsList(pools, pnext, pprev, Pool, {})
  BY ListNone DEF PoolsInit
<1>3. PoolList = {}
  BY <1>2, PoolsFacts, ListReached DEF PoolList
<1> QED
  BY <1>1, <1>2, <1>3 DEF PoolsInv, PoolsInit

(* A list that no pointer in it changes stays as it was.                   *)
LEMMA BlocksStay ==
  ASSUME PoolsInv, NEW q \in PoolList, allocs'[q] = allocs[q],
         \A x \in Blocks(q): next'[x] = next[x] /\ prev'[x] = prev[x]
  PROVE  Blocks(q)' = Blocks(q) /\ IsList(allocs'[q], next', prev', Block, Blocks(q)')
<1>1. IsList(allocs[q], next, prev, Block, Blocks(q))
  BY DEF PoolsInv, Filled
<1>2. IsList(allocs'[q], next', prev', Block, Blocks(q))
  BY <1>1, ListSame
<1>3. Blocks(q)' = Blocks(q)
  BY <1>2, PoolsFacts, ListReached DEF Blocks
<1> QED
  BY <1>2, <1>3

LEMMA FilledStays ==
  ASSUME PoolsInv, NEW q \in PoolList, Blocks(q)' = Blocks(q),
         IsList(allocs'[q], next', prev', Block, Blocks(q)'),
         sizeMax'[q] = sizeMax[q], size'[q] = size[q],
         \A x \in Blocks(q): /\ x \in live' /\ sen1'[x] = sen1[x] /\ owner'[x] = owner[x]
                             /\ length'[x] = length[x]
  PROVE  Filled(q)'
<1>1. Filled(q)
  BY DEF PoolsInv
<1>2. Weight(length', Blocks(q)) = Weight(length, Blocks(q))
  BY WeightSame
<1> QED
  BY <1>1, <1>2 DEF Filled

LEMMA AllocPoolKeeps ==
  ASSUME PoolsInv, NEW p \in Pool, NEW l \in Limit, AllocPool(p, l)
  PROVE  /\ PoolsInv' /\ PoolList' = PoolList \cup {p} /\ p \notin PoolList /\ Blocks(p)' = {}
         /\ \A q \in PoolList: Blocks(q)' = Blocks(q)
<1>1. /\ dying = NONE /\ p \notin PoolList /\ pools' = p
      /\ pprev' = Through([pprev EXCEPT ![p] = NONE], pools, p)
      /\ pnext' = [pnext EXCEPT ![p] = pools]
      /\ sizeMax' = [sizeMax EXCEPT ![p] = l] /\ size' = [size EXCEPT ![p] = 0]
      /\ allocs' = [allocs EXCEPT ![p] = NONE]
      /\ UNCHANGED <<next, prev, sen1, owner, length, live, dying>>
  BY DEF AllocPool
<1>2. PoolsType /\ IsList(pools, pnext, pprev, Pool, PoolList) /\ PoolList \subseteq Pool
  BY Found DEF PoolsInv
<1>3. pools \in PoolList \cup {NONE} /\ pools # p
  BY <1>1, <1>2, PoolsFacts, ListEnds
<1>4. PoolsType'
  BY <1>1, <1>2, PoolsFacts DEF PoolsType, Through
<1>5. /\ pnext'[p] = pools /\ pprev'[p] = NONE /\ (pools # NONE => pprev'[pools] = p)
      /\ \A x \in PoolList: pnext'[x] = pnext[x] /\ (x # pools => pprev'[x] = pprev[x])
  <2>1. pnext \in [Pool -> Pool \cup {NONE}] /\ pprev \in [Pool -> Pool \cup {NONE}] /\ PoolList \subseteq Pool
    BY <1>2 DEF PoolsType
  <2>2. CASE pools = NONE
    <3>1. pprev' = [pprev EXCEPT ![p] = NONE]
      BY <1>1, <2>2 DEF Through
    <3> QED
      BY <1>1, <2>1, <2>2, <3>1
  <2>3. CASE pools # NONE
    <3>1. pprev' = [[pprev EXCEPT ![p] = NONE] EXCEPT ![pools] = p] /\ pools \in Pool
      BY <1>1, <1>3, <2>1, <2>3 DEF Through
    <3> QED
      BY <1>1, <1>3, <2>1, <2>3, <3>1
  <2> QED
    BY <2>2, <2>3
<1>6. IsList(pools', pnext', pprev', Pool, PoolList \cup {p})
  <2>1. IsList(pools, pnext, pprev, Pool, PoolList) /\ NONE \notin Pool /\ p \notin PoolList
    BY <1>1, <1>2, PoolsFacts
  <2>2. pnext'[p] = pools /\ pprev'[p] = NONE
    BY <1>5
  <2>3. pools # NONE => pprev'[pools] = p
    BY <1>5
  <2>4. \A x \in PoolList: pnext'[x] = pnext[x] /\ (x # pools => pprev'[x] = pprev[x])
    BY <1>5
  <2>5. IsList(p, pnext', pprev', Pool, PoolList \cup {p})
    BY <2>1, <2>2, <2>3, <2>4, ListAdds
  <2> QED
    BY <1>1, <2>5
<1>7. PoolList' = PoolList \cup {p}
  BY <1>6, PoolsFacts, ListReached DEF PoolList
<1>8. ASSUME NEW q \in PoolList PROVE Blocks(q)' = Blocks(q) /\ Filled(q)'
  <2>1. allocs'[q] = allocs[q] /\ sizeMax'[q] = sizeMax[q] /\ size'[q] = size[q] /\ q # p
    BY <1>1, <1>2 DEF PoolsType
  <2>2. Blocks(q)' = Blocks(q) /\ IsList(allocs'[q], next', prev', Block, Blocks(q)')
    BY <1>1, <2>1, BlocksStay
  <2> QED
    BY <1>1, <2>1, <2>2, Found, FilledStays
<1>9. Blocks(p)' = {} /\ Filled(p)'
  <2>1. allocs'[p] = NONE /\ sizeMax'[p] = l /\ size'[p] = 0
    BY <1>1, <1>2 DEF PoolsType
  <2>2. IsList(allocs'[p], next', prev', Block, {})
    BY <2>1, ListNone
  <2>3. Blocks(p)' = {}
    BY <2>2, PoolsFacts, ListReached DEF Blocks
  <2> QED
    BY <2>1, <2>2, <2>3, WeightNone DEF Filled
<1> QED
  BY <1>1, <1>4, <1>6, <1>7, <1>8, <1>9 DEF PoolsInv

LEMMA AllocKeeps ==
  ASSUME PoolsInv, NEW p \in Pool, NEW b \in Block, NEW n \in Bytes, Alloc(p, b, n)
  PROVE  /\ PoolsInv' /\ p \in PoolList /\ PoolList' = PoolList /\ sizeMax' = sizeMax
         /\ Blocks(p)' = Blocks(p) \cup {b} /\ (\A q \in PoolList: b \notin Blocks(q))
         /\ \A q \in PoolList \ {p}: Blocks(q)' = Blocks(q)
         /\ sizeMax[p] = 0 \/ size[p] + n <= sizeMax[p]
<1>1. /\ dying = NONE /\ p \in PoolList /\ b \notin live
      /\ sizeMax[p] = 0 \/ size[p] + n <= sizeMax[p]
      /\ size' = [size EXCEPT ![p] = size[p] + n]
      /\ sen1' = [sen1 EXCEPT ![b] = TRUE] /\ owner' = [owner EXCEPT ![b] = p]
      /\ length' = [length EXCEPT ![b] = n] /\ live' = live \cup {b}
      /\ allocs' = [allocs EXCEPT ![p] = b] /\ next' = [next EXCEPT ![b] = allocs[p]]
      /\ prev' = Through([prev EXCEPT ![b] = NONE], allocs[p], b)
      /\ UNCHANGED <<pools, pnext, pprev, sizeMax, dying>>
  BY DEF Alloc, LinkBlock
<1>2. PoolsType /\ n \in Nat /\ NONE \notin Block /\ Filled(p)
  BY <1>1, PoolsFacts DEF PoolsInv
<1>3. \A q \in PoolList: b \notin Blocks(q) /\ Blocks(q) \subseteq Block
  BY <1>1, Found
<1>4. IsList(allocs[p], next, prev, Block, Blocks(p))
  BY <1>2 DEF Filled
<1>5. allocs[p] \in Blocks(p) \cup {NONE} /\ allocs[p] # b
  BY <1>1, <1>2, <1>3, <1>4, ListEnds
<1>6. \A x \in Block: x # b => next'[x] = next[x]
  BY <1>1, <1>2 DEF PoolsType
<1>7. /\ next'[b] = allocs[p] /\ prev'[b] = NONE /\ (allocs[p] # NONE => prev'[allocs[p]] = b)
      /\ \A x \in Block: x # b /\ x # allocs[p] => prev'[x] = prev[x]
      /\ prev' \in [Block -> Block \cup {NONE}] /\ next' \in [Block -> Block \cup {NONE}]
  <2>1. next \in [Block -> Block \cup {NONE}] /\ prev \in [Block -> Block \cup {NONE}]
        /\ allocs[p] \in Block \cup {NONE}
    BY <1>2 DEF PoolsType
  <2>2. CASE allocs[p] = NONE
    <3>1. prev' = [prev EXCEPT ![b] = NONE]
      BY <1>1, <2>2 DEF Through
    <3> QED
      BY <1>1, <2>1, <2>2, <3>1
  <2>3. CASE allocs[p] # NONE
    <3>1. prev' = [[prev EXCEPT ![b] = NONE] EXCEPT ![allocs[p]] = b] /\ allocs[p] \in Block
      BY <1>1, <2>1, <2>3 DEF Through
    <3> QED
      BY <1>1, <1>5, <2>1, <2>3, <3>1
  <2> QED
    BY <2>2, <2>3
<1>8. PoolsType'
  <2>1. size' \in [Pool -> Nat] /\ length' \in [Block -> Bytes \cup {0}]
    BY <1>1, <1>2 DEF PoolsType
  <2> QED
    BY <1>1, <1>2, <1>7, <2>1 DEF PoolsType
<1>9. PoolList' = PoolList /\ IsList(pools', pnext', pprev', Pool, PoolList')
  BY <1>1 DEF PoolsInv, PoolList
<1>10. IsList(allocs'[p], next', prev', Block, Blocks(p) \cup {b})
  <2>1. allocs'[p] = b
    BY <1>1, <1>2 DEF PoolsType
  <2>2. \A x \in Blocks(p): next'[x] = next[x] /\ (x # allocs[p] => prev'[x] = prev[x])
    <3>1. \A x \in Blocks(p): x \in Block /\ x # b
      BY <1>1, <1>2, <1>3
    <3>2. \A x \in Blocks(p): next'[x] = next[x]
      BY <1>6, <3>1
    <3> QED
      BY <1>7, <3>1, <3>2, Zenon
  <2>3. next'[b] = allocs[p] /\ prev'[b] = NONE
    BY <1>7
  <2>4. allocs[p] # NONE => prev'[allocs[p]] = b
    BY <1>7
  <2>5. b \notin Blocks(p) /\ NONE \notin Block
    BY <1>1, <1>2, <1>3
  <2>6. IsList(b, next', prev', Block, Blocks(p) \cup {b})
    BY <1>4, <2>2, <2>3, <2>4, <2>5, ListAdds
  <2> QED
    BY <2>1, <2>6
<1>11. Blocks(p)' = Blocks(p) \cup {b}
  BY <1>10, PoolsFacts, ListReached DEF Blocks
<1>12. Filled(p)'
  <2>1. sizeMax'[p] \in Limit /\ size'[p] = size[p] + n /\ size[p] = Weight(length, Blocks(p))
    BY <1>1, <1>2 DEF PoolsType, Filled
  <2>2. IsFiniteSet(Blocks(p)) /\ (\A x \in Blocks(p): length[x] \in Nat /\ length'[x] = length[x]) /\ length'[b] = n
    BY <1>1, <1>2, <1>3, Found DEF PoolsType
  <2>6. b \notin Blocks(p) /\ length'[b] \in Nat /\ (\A x \in Blocks(p): length'[x] \in Nat)
    BY <1>1, <1>2, <1>3, <2>2
  <2>7. Weight(length', Blocks(p) \cup {b}) = Weight(length', Blocks(p)) + length'[b]
    BY <2>2, <2>6, WeightAdds
  <2>3. Weight(length', Blocks(p) \cup {b}) = Weight(length', Blocks(p)) + n
    BY <2>2, <2>7
  <2>4. Weight(length', Blocks(p)) = Weight(length, Blocks(p))
    BY <2>2, WeightSame
  <2>5. \A x \in Blocks(p) \cup {b}: x \in live' /\ sen1'[x] /\ owner'[x] = p
    BY <1>1, <1>2, <1>3 DEF Filled, PoolsType
  <2> QED
    BY <1>10, <1>11, <2>1, <2>3, <2>4, <2>5 DEF Filled
<1>13. ASSUME NEW q \in PoolList, q # p PROVE Blocks(q)' = Blocks(q) /\ Filled(q)'
  <2>1. allocs'[q] = allocs[q] /\ sizeMax'[q] = sizeMax[q] /\ size'[q] = size[q]
    BY <1>1, <1>2, <1>13, Found DEF PoolsType
  <2>2. allocs[p] \notin Blocks(q)
    <3>1. CASE allocs[p] = NONE
      BY <1>2, <1>3, <3>1
    <3>2. CASE allocs[p] # NONE
      BY <1>1, <1>5, <1>13, <3>2, Found
    <3> QED
      BY <3>1, <3>2
  <2>3. \A x \in Blocks(q): next'[x] = next[x] /\ prev'[x] = prev[x]
    BY <1>3, <1>6, <1>7, <2>2
  <2>4. Blocks(q)' = Blocks(q) /\ IsList(allocs'[q], next', prev', Block, Blocks(q)')
    BY <2>1, <2>3, BlocksStay
  <2>5. \A x \in Blocks(q): /\ x \in live' /\ sen1'[x] = sen1[x] /\ owner'[x] = owner[x]
                            /\ length'[x] = length[x]
    BY <1>1, <1>2, <1>3, Found DEF PoolsType
  <2> QED
    BY <2>1, <2>4, <2>5, FilledStays
<1>14. PoolsInv'
  BY <1>1, <1>8, <1>9, <1>12, <1>13 DEF PoolsInv
<1> QED
  BY <1>1, <1>3, <1>9, <1>11, <1>13, <1>14

(* What freeing a block leaves, whatever is then read where its header was.*)
LEMMA FreeKeeps ==
  ASSUME PoolsInv, NEW p \in PoolList, NEW b \in Blocks(p), FreeBlock(b),
         UNCHANGED <<pools, pnext, pprev, sizeMax, dying>>
  PROVE  /\ PoolsInv' /\ PoolList' = PoolList /\ Blocks(p)' = Blocks(p) \ {b}
         /\ \A q \in PoolList \ {p}: Blocks(q)' = Blocks(q) /\ b \notin Blocks(q)
         /\ \A x \in Block \ {b}: length'[x] = length[x]
<1>1. owner[b] = p /\ p \in Pool /\ b \in Block /\ length[b] \in Nat
  BY Found
<1>2. PICK kept \in BOOLEAN:
        /\ allocs' = IF prev[b] = NONE THEN [allocs EXCEPT ![p] = next[b]] ELSE allocs
        /\ prev' = [Through(prev, next[b], prev[b]) EXCEPT ![b] = NONE]
        /\ next' = [Through(next, prev[b], next[b]) EXCEPT ![b] = NONE]
        /\ size' = [size EXCEPT ![p] = size[p] - length[b]]
        /\ live' = live \ {b}
        /\ sen1' = [sen1 EXCEPT ![b] = kept]
        /\ owner' = IF kept THEN owner ELSE [owner EXCEPT ![b] = NONE]
        /\ length' = IF kept THEN length ELSE [length EXCEPT ![b] = 0]
  BY <1>1 DEF FreeBlock
<1>3. PoolsType /\ Filled(p) /\ NONE \notin Block /\ (\A q \in PoolList: Blocks(q) \subseteq Block)
  BY PoolsFacts, Found DEF PoolsInv
<1>4. IsList(allocs[p], next, prev, Block, Blocks(p))
  BY <1>3 DEF Filled
<1>5. /\ next[b] \in Blocks(p) \cup {NONE} /\ prev[b] \in Blocks(p) \cup {NONE}
      /\ next[b] # b /\ prev[b] # b /\ (prev[b] = NONE <=> b = allocs[p])
  BY <1>3, <1>4, ListEnds
<1>6. /\ next' \in [Block -> Block \cup {NONE}]
      /\ \A x \in Block \ {b}: next'[x] = IF x = prev[b] THEN next[b] ELSE next[x]
  <2>1. next \in [Block -> Block \cup {NONE}]
    BY <1>3 DEF PoolsType
  <2>2. CASE prev[b] = NONE
    <3>1. next' = [next EXCEPT ![b] = NONE]
      BY <1>2, <2>2 DEF Through
    <3> QED
      BY <1>1, <1>3, <2>1, <2>2, <3>1
  <2>3. CASE prev[b] # NONE
    <3>1. next' = [[next EXCEPT ![prev[b]] = next[b]] EXCEPT ![b] = NONE] /\ prev[b] \in Block
      BY <1>2, <1>3, <1>5, <2>3 DEF Through
    <3> QED
      BY <1>1, <1>3, <2>1, <2>3, <3>1
  <2> QED
    BY <2>2, <2>3
<1>7. /\ prev' \in [Block -> Block \cup {NONE}]
      /\ \A x \in Block \ {b}: prev'[x] = IF x = next[b] THEN prev[b] ELSE prev[x]
  <2>1. prev \in [Block -> Block \cup {NONE}]
    BY <1>3 DEF PoolsType
  <2>2. CASE next[b] = NONE
    <3>1. prev' = [prev EXCEPT ![b] = NONE]
      BY <1>2, <2>2 DEF Through
    <3> QED
      BY <1>1, <1>3, <2>1, <2>2, <3>1
  <2>3. CASE next[b] # NONE
    <3>1. prev' = [[prev EXCEPT ![next[b]] = prev[b]] EXCEPT ![b] = NONE] /\ next[b] \in Block
      BY <1>2, <1>3, <1>5, <2>3 DEF Through
    <3> QED
      BY <1>1, <1>3, <2>1, <2>3, <3>1
  <2> QED
    BY <2>2, <2>3
<1>8. /\ allocs' \in [Pool -> Block \cup {NONE}]
      /\ allocs'[p] = (IF prev[b] = NONE THEN next[b] ELSE allocs[p])
      /\ \A q \in PoolList \ {p}: allocs'[q] = allocs[q] /\ size'[q] = size[q]
  <2>1. allocs \in [Pool -> Block \cup {NONE}] /\ size \in [Pool -> Nat] /\ next[b] \in Block \cup {NONE} /\ PoolList \subseteq Pool
    BY <1>1, <1>3, Found DEF PoolsType
  <2>2. CASE prev[b] = NONE
    BY <1>1, <1>2, <2>1, <2>2
  <2>3. CASE prev[b] # NONE
    BY <1>1, <1>2, <2>1, <2>3
  <2> QED
    BY <2>2, <2>3
<1>9. /\ length' \in [Block -> Bytes \cup {0}] /\ owner' \in [Block -> Pool \cup {NONE}]
      /\ \A x \in Block \ {b}: length'[x] = length[x] /\ owner'[x] = owner[x] /\ sen1'[x] = sen1[x]
  <2>1. CASE kept
    BY <1>1, <1>2, <1>3, <2>1 DEF PoolsType
  <2>2. CASE ~kept
    BY <1>1, <1>2, <1>3, <2>2 DEF PoolsType
  <2> QED
    BY <2>1, <2>2
<1>10. /\ Weight(length, Blocks(p) \ {b}) = size[p] - length[b]
       /\ Weight(length, Blocks(p) \ {b}) \in Nat
  BY <1>3, Found, WeightDrops DEF Filled
<1>11. size' \in [Pool -> Nat] /\ size'[p] = Weight(length, Blocks(p) \ {b})
  BY <1>1, <1>2, <1>3, <1>10 DEF PoolsType
<1>12. PoolsType'
  BY <1>2, <1>3, <1>6, <1>7, <1>8, <1>9, <1>11 DEF PoolsType
<1>13. PoolList' = PoolList /\ IsList(pools', pnext', pprev', Pool, PoolList')
  BY DEF PoolsInv, PoolList
<1>14. IsList(allocs'[p], next', prev', Block, Blocks(p) \ {b})
  <2>1. Around(b, next, prev, Blocks(p), next', prev')
    <3>1. \A x \in Blocks(p) \ {b}: /\ next'[x] = IF x = prev[b] THEN next[b] ELSE next[x]
                                    /\ prev'[x] = IF x = next[b] THEN prev[b] ELSE prev[x]
      BY <1>3, <1>6, <1>7
    <3> QED
      BY <3>1 DEF Around
  <2>2. NONE \notin Block /\ allocs'[p] = IF prev[b] = NONE THEN next[b] ELSE allocs[p]
    BY <1>3, <1>8
  <2> QED
    BY <1>4, <2>1, <2>2, ListDrops, ZenonT(40)
<1>15. Blocks(p)' = Blocks(p) \ {b}
  BY <1>14, PoolsFacts, ListReached DEF Blocks
<1>16. Filled(p)'
  <2>1. \A x \in Blocks(p) \ {b}: x \in live' /\ sen1'[x] /\ owner'[x] = p /\ length'[x] = length[x]
    BY <1>2, <1>3, <1>9 DEF Filled
  <2>2. Weight(length', Blocks(p) \ {b}) = Weight(length, Blocks(p) \ {b})
    BY <2>1, WeightSame
  <2>3. sizeMax'[p] \in Limit
    BY <1>3 DEF Filled
  <2> QED
    BY <1>11, <1>14, <1>15, <2>1, <2>2, <2>3 DEF Filled
<1>17. ASSUME NEW q \in PoolList, q # p PROVE Blocks(q)' = Blocks(q) /\ Filled(q)' /\ b \notin Blocks(q)
  <2>1. \A x \in Blocks(q): x \notin Blocks(p) /\ x \in Block /\ x \in live /\ x # NONE
    BY <1>17, <1>3, Found
  <2>2. \A x \in Blocks(q): x # b /\ x # next[b] /\ x # prev[b]
    BY <1>5, <2>1
  <2>3. \A x \in Blocks(q): next'[x] = next[x] /\ prev'[x] = prev[x]
    BY <1>6, <1>7, <2>1, <2>2
  <2>4. allocs'[q] = allocs[q] /\ size'[q] = size[q] /\ sizeMax'[q] = sizeMax[q]
    BY <1>8, <1>17
  <2>5. Blocks(q)' = Blocks(q) /\ IsList(allocs'[q], next', prev', Block, Blocks(q)')
    BY <2>3, <2>4, BlocksStay
  <2>6. \A x \in Blocks(q): /\ x \in live' /\ sen1'[x] = sen1[x] /\ owner'[x] = owner[x]
                            /\ length'[x] = length[x]
    BY <1>2, <1>9, <2>1, <2>2
  <2> QED
    BY <2>2, <2>4, <2>5, <2>6, FilledStays
<1>18. PoolsInv'
  BY <1>12, <1>13, <1>16, <1>17 DEF PoolsInv
<1> QED
  BY <1>9, <1>13, <1>15, <1>17, <1>18

LEMMA UnlinkKeeps ==
  ASSUME PoolsInv, UnlinkPool
  PROVE  /\ PoolsInv' /\ dying \in PoolList /\ PoolList' = PoolList \ {dying} /\ Blocks(dying) = {}
         /\ sizeMax' = sizeMax /\ length' = length
         /\ \A q \in PoolList: Blocks(q)' = Blocks(q)
<1> DEFINE p == dying
<1>1. /\ p # NONE /\ allocs[p] = NONE
      /\ pools' = IF pprev[p] = NONE THEN pnext[p] ELSE pools
      /\ pprev' = Through(pprev, pnext[p], pprev[p])
      /\ pnext' = Through(pnext, pprev[p], pnext[p])
      /\ dying' = NONE
      /\ UNCHANGED <<allocs, next, prev, sizeMax, size, sen1, owner, length, live>>
  BY DEF UnlinkPool
<1>2. p \in PoolList /\ PoolsType /\ NONE \notin Pool /\ PoolList \subseteq Pool
      /\ IsList(pools, pnext, pprev, Pool, PoolList)
  BY <1>1, PoolsFacts, Found DEF PoolsInv
<1> HIDE DEF p
<1>3. pnext[p] \in PoolList \cup {NONE} /\ pprev[p] \in PoolList \cup {NONE}
  BY <1>2, ListEnds
<1>4. /\ pnext' \in [Pool -> Pool \cup {NONE}]
      /\ \A x \in Pool: pnext'[x] = IF x = pprev[p] THEN pnext[p] ELSE pnext[x]
  <2>1. pnext \in [Pool -> Pool \cup {NONE}]
    BY <1>2 DEF PoolsType
  <2>2. CASE pprev[p] = NONE
    BY <1>1, <1>2, <2>1, <2>2 DEF Through
  <2>3. CASE pprev[p] # NONE
    BY <1>1, <1>2, <1>3, <2>1, <2>3 DEF Through
  <2> QED
    BY <2>2, <2>3
<1>5. /\ pprev' \in [Pool -> Pool \cup {NONE}]
      /\ \A x \in Pool: pprev'[x] = IF x = pnext[p] THEN pprev[p] ELSE pprev[x]
  <2>1. pprev \in [Pool -> Pool \cup {NONE}]
    BY <1>2 DEF PoolsType
  <2>2. CASE pnext[p] = NONE
    BY <1>1, <1>2, <2>1, <2>2 DEF Through
  <2>3. CASE pnext[p] # NONE
    BY <1>1, <1>2, <1>3, <2>1, <2>3 DEF Through
  <2> QED
    BY <2>2, <2>3
<1>6. PoolsType'
  BY <1>1, <1>2, <1>3, <1>4, <1>5 DEF PoolsType
<1>7. IsList(pools', pnext', pprev', Pool, PoolList \ {p})
  <2>1. \A x \in PoolList \ {p}: /\ pnext'[x] = IF x = pprev[p] THEN pnext[p] ELSE pnext[x]
                                 /\ pprev'[x] = IF x = pnext[p] THEN pprev[p] ELSE pprev[x]
    BY <1>2, <1>4, <1>5
  <2>2. Around(p, pnext, pprev, PoolList, pnext', pprev')
    BY <2>1 DEF Around
  <2>3. pools' = IF pprev[p] = NONE THEN pnext[p] ELSE pools
    BY <1>1
  <2>4. p \in PoolList /\ NONE \notin Pool /\ IsList(pools, pnext, pprev, Pool, PoolList)
    BY <1>2
  <2> QED
    BY <2>2, <2>3, <2>4, ListDrops
<1>8. PoolList' = PoolList \ {p}
  BY <1>7, PoolsFacts, ListReached DEF PoolList
<1>9. ASSUME NEW q \in PoolList PROVE Blocks(q)' = Blocks(q) /\ Filled(q)'
  <2>1. Blocks(q)' = Blocks(q) /\ IsList(allocs'[q], next', prev', Block, Blocks(q)')
    BY <1>1, BlocksStay
  <2> QED
    BY <1>1, <2>1, Found, FilledStays
<1>10. Blocks(p) = {}
  <2>1. IsList(allocs[p], next, prev, Block, Blocks(p))
    BY <1>2 DEF PoolsInv, Filled
  <2> QED
    BY <1>1, <2>1, PoolsFacts, ListEnds
<1>11. PoolsInv'
  BY <1>1, <1>6, <1>7, <1>8, <1>9 DEF PoolsInv
<1> QED
  BY <1>1, <1>2, <1>8, <1>9, <1>10, <1>11 DEF p

LEMMA QuietKeeps ==
  ASSUME PoolsInv, UNCHANGED <<poolList, blockList, sizeMax, size, sen1, owner, length, live>>,
         dying' \in PoolList \cup {NONE}
  PROVE  PoolsInv' /\ PoolList' = PoolList /\ \A q \in PoolList: Blocks(q)' = Blocks(q)
<1>1. PoolList' = PoolList /\ PoolsType'
  <2>1. dying' \in Pool \cup {NONE}
    BY Found
  <2> QED
    BY <2>1 DEF PoolList, PoolsInv, PoolsType
<1>2. ASSUME NEW q \in PoolList PROVE Blocks(q)' = Blocks(q) /\ Filled(q)'
  <2>1. Blocks(q)' = Blocks(q) /\ IsList(allocs'[q], next', prev', Block, Blocks(q)')
    BY BlocksStay
  <2> QED
    BY <2>1, Found, FilledStays
<1> QED
  BY <1>1, <1>2 DEF PoolsInv

-----------------------------------------------------------------------------
(* The pools implement the heap.                                           *)

RoomOf   == [p \in Pool |-> IF p \in PoolList THEN sizeMax[p] ELSE NONE]
HeldBy == [b \in Block |-> IF InPool(b) = {} THEN NONE ELSE CHOOSE p \in InPool(b): TRUE]
SizeHeld  == [b \in Block |-> IF InPool(b) = {} THEN 0 ELSE length[b]]

(* What a block is to the heap, by the list it is in.                      *)
Maps ==
  /\ \A p \in Pool: RoomOf[p] = IF p \in PoolList THEN sizeMax[p] ELSE NONE
  /\ \A p \in PoolList: \A b \in Blocks(p): b \in Block /\ HeldBy[b] = p /\ SizeHeld[b] = length[b]
  /\ \A b \in Block: (\A p \in PoolList: b \notin Blocks(p)) => HeldBy[b] = NONE /\ SizeHeld[b] = 0
LEMMA Mapped == PoolsInv => Maps
<1> SUFFICES ASSUME PoolsInv PROVE Maps
  OBVIOUS
<1>1. ASSUME NEW p \in PoolList, NEW b \in Blocks(p) PROVE b \in Block /\ HeldBy[b] = p /\ SizeHeld[b] = length[b]
  <2>1. b \in Block /\ \A q \in PoolList: b \in Blocks(q) => q = p
    BY Found
  <2>2. InPool(b) = {p}
    BY <2>1 DEF InPool
  <2> QED
    BY <2>1, <2>2 DEF HeldBy, SizeHeld
<1>2. ASSUME NEW b \in Block, \A p \in PoolList: b \notin Blocks(p) PROVE HeldBy[b] = NONE /\ SizeHeld[b] = 0
  <2>1. InPool(b) = {}
    BY <1>2 DEF InPool
  <2> QED
    BY <2>1 DEF HeldBy, SizeHeld
<1> QED
  BY <1>1, <1>2 DEF Maps, RoomOf

LEMMA Allocates ==
  ASSUME PoolsInv, Maps, Maps', NEW p \in Pool, NEW b \in Block, NEW n \in Bytes, Alloc(p, b, n)
  PROVE  AsHeap!Allocate(p, b, n)
<1>1. /\ p \in PoolList /\ PoolList' = PoolList /\ sizeMax' = sizeMax
      /\ Blocks(p)' = Blocks(p) \cup {b} /\ (\A q \in PoolList: b \notin Blocks(q))
      /\ \A q \in PoolList \ {p}: Blocks(q)' = Blocks(q)
      /\ sizeMax[p] = 0 \/ size[p] + n <= sizeMax[p]
  BY AllocKeeps
<1>2. RoomOf[p] = sizeMax[p] /\ RoomOf[p] # NONE
  BY <1>1, PoolsFacts DEF Maps, PoolsInv, Filled
<1>3. HeldBy[b] = NONE
  BY <1>1 DEF Maps
<1>4. {a \in Block: HeldBy[a] = p} = Blocks(p)
  BY <1>1, PoolsFacts, Found DEF Maps
<1>5. \A a \in Blocks(p): SizeHeld[a] = length[a] /\ SizeHeld[a] \in Nat
  BY <1>1, Found DEF Maps
<1>6. AsHeap!MapThenSumSet(LAMBDA a: SizeHeld[a], Blocks(p)) = Weight(SizeHeld, Blocks(p))
  BY <1>1, <1>5, Found, SumIsWeight
<1>7. Weight(SizeHeld, Blocks(p)) = size[p]
  BY <1>1, <1>5, WeightSame DEF PoolsInv, Filled
<1>8. RoomOf' = RoomOf
  BY <1>1 DEF RoomOf
<1>9. length' = [length EXCEPT ![b] = n]
  BY DEF Alloc
<1>10. HeldBy' = [HeldBy EXCEPT ![b] = p] /\ SizeHeld' = [SizeHeld EXCEPT ![b] = n]
  <2>1. ASSUME NEW x \in Block, x # b PROVE HeldBy'[x] = HeldBy[x] /\ SizeHeld'[x] = SizeHeld[x]
    <3>1. length'[x] = length[x]
      BY <1>9, <2>1 DEF PoolsInv, PoolsType
    <3>2. CASE \E q \in PoolList: x \in Blocks(q)
      <4>1. PICK q \in PoolList: x \in Blocks(q)
        BY <3>2
      <4>2. q \in PoolList' /\ x \in Blocks(q)'
        BY <1>1, <4>1
      <4> QED
        BY <3>1, <4>1, <4>2 DEF Maps
    <3>3. CASE \A q \in PoolList: x \notin Blocks(q)
      <4>1. \A q \in PoolList': x \notin Blocks(q)'
        BY <1>1, <2>1, <3>3
      <4> QED
        BY <3>3, <4>1 DEF Maps
    <3> QED
      BY <3>2, <3>3
  <2>2. HeldBy'[b] = p /\ SizeHeld'[b] = n
    <3>1. p \in PoolList' /\ b \in Blocks(p)' /\ length'[b] = n
      BY <1>1, <1>9 DEF PoolsInv, PoolsType
    <3> QED
      BY <3>1 DEF Maps
  <2>3. /\ HeldBy = [x \in Block |-> HeldBy[x]] /\ HeldBy' = [x \in Block |-> HeldBy'[x]]
        /\ SizeHeld = [x \in Block |-> SizeHeld[x]] /\ SizeHeld' = [x \in Block |-> SizeHeld'[x]]
    BY DEF HeldBy, SizeHeld
  <2> QED
    BY <2>1, <2>2, <2>3
<1>11. RoomOf[p] = 0 \/ AsHeap!MapThenSumSet(LAMBDA a: SizeHeld[a], {a \in Block: HeldBy[a] = p}) + n <= RoomOf[p]
  BY <1>1, <1>2, <1>4, <1>6, <1>7
<1> QED
  BY <1>2, <1>3, <1>8, <1>10, <1>11 DEF AsHeap!Allocate, AsHeap!Of, RoomOf, HeldBy, SizeHeld

LEMMA FreesBlock ==
  ASSUME PoolsInv, Maps, Maps', NEW p \in PoolList, NEW b \in Blocks(p), FreeBlock(b),
         UNCHANGED <<pools, pnext, pprev, sizeMax, dying>>
  PROVE  AsHeap!Release(b)
<1>1. /\ PoolList' = PoolList /\ Blocks(p)' = Blocks(p) \ {b}
      /\ \A q \in PoolList \ {p}: Blocks(q)' = Blocks(q) /\ b \notin Blocks(q)
      /\ \A x \in Block \ {b}: length'[x] = length[x]
  BY FreeKeeps
<1>2. HeldBy[b] = p /\ b \in Block /\ HeldBy[b] # NONE
  BY PoolsFacts, Found DEF Maps
<1>3. RoomOf' = RoomOf
  BY <1>1 DEF RoomOf
<1>4. HeldBy' = [HeldBy EXCEPT ![b] = NONE] /\ SizeHeld' = [SizeHeld EXCEPT ![b] = 0]
  <2>1. ASSUME NEW x \in Block, x # b PROVE HeldBy'[x] = HeldBy[x] /\ SizeHeld'[x] = SizeHeld[x]
    <3>1. length'[x] = length[x]
      BY <1>1, <2>1
    <3>2. CASE \E q \in PoolList: x \in Blocks(q)
      <4>1. PICK q \in PoolList: x \in Blocks(q)
        BY <3>2
      <4>2. q \in PoolList' /\ x \in Blocks(q)'
        BY <1>1, <2>1, <4>1
      <4> QED
        BY <3>1, <4>1, <4>2 DEF Maps
    <3>3. CASE \A q \in PoolList: x \notin Blocks(q)
      <4>1. \A q \in PoolList': x \notin Blocks(q)'
        BY <1>1, <3>3
      <4> QED
        BY <3>3, <4>1 DEF Maps
    <3> QED
      BY <3>2, <3>3
  <2>2. HeldBy'[b] = NONE /\ SizeHeld'[b] = 0
    <3>1. \A q \in PoolList': b \notin Blocks(q)'
      BY <1>1
    <3> QED
      BY <1>2, <3>1 DEF Maps
  <2>3. /\ HeldBy = [x \in Block |-> HeldBy[x]] /\ HeldBy' = [x \in Block |-> HeldBy'[x]]
        /\ SizeHeld = [x \in Block |-> SizeHeld[x]] /\ SizeHeld' = [x \in Block |-> SizeHeld'[x]]
    BY DEF HeldBy, SizeHeld
  <2> QED
    BY <2>1, <2>2, <2>3
<1> QED
  BY <1>2, <1>3, <1>4 DEF AsHeap!Release, RoomOf, HeldBy, SizeHeld

(* Blocks stay where they are.                                             *)
LEMMA HeldStays ==
  ASSUME Maps, Maps', length' = length,
         \A b \in Block: \A q \in Pool: q \in PoolList /\ b \in Blocks(q) <=> q \in PoolList' /\ b \in Blocks(q)',
         PoolList \subseteq Pool, PoolList' \subseteq Pool
  PROVE  HeldBy' = HeldBy /\ SizeHeld' = SizeHeld
<1>1. ASSUME NEW x \in Block PROVE HeldBy'[x] = HeldBy[x] /\ SizeHeld'[x] = SizeHeld[x]
  <2>1. CASE \E q \in PoolList: x \in Blocks(q)
    <3>1. PICK q \in PoolList: x \in Blocks(q)
      BY <2>1
    <3>2. q \in PoolList' /\ x \in Blocks(q)'
      BY <3>1
    <3> QED
      BY <3>1, <3>2 DEF Maps
  <2>2. CASE \A q \in PoolList: x \notin Blocks(q)
    <3>1. \A q \in PoolList': x \notin Blocks(q)'
      BY <2>2
    <3> QED
      BY <2>2, <3>1 DEF Maps
  <2> QED
    BY <2>1, <2>2
<1>2. /\ HeldBy = [x \in Block |-> HeldBy[x]] /\ HeldBy' = [x \in Block |-> HeldBy'[x]]
      /\ SizeHeld = [x \in Block |-> SizeHeld[x]] /\ SizeHeld' = [x \in Block |-> SizeHeld'[x]]
  BY DEF HeldBy, SizeHeld
<1> QED
  BY <1>1, <1>2

LEMMA Creates ==
  ASSUME PoolsInv, Maps, Maps', NEW p \in Pool, NEW l \in Limit, AllocPool(p, l)
  PROVE  AsHeap!Create(p, l)
<1>1. /\ PoolList' = PoolList \cup {p} /\ p \notin PoolList /\ Blocks(p)' = {} /\ PoolList \subseteq Pool
      /\ \A q \in PoolList: Blocks(q)' = Blocks(q)
  BY AllocPoolKeeps, Found
<1>2. sizeMax' = [sizeMax EXCEPT ![p] = l] /\ length' = length
  BY DEF AllocPool
<1>3. RoomOf[p] = NONE
  BY <1>1 DEF Maps
<1>4. RoomOf' = [RoomOf EXCEPT ![p] = l]
  <2>1. sizeMax \in [Pool -> Limit \cup {0}]
    BY DEF PoolsInv, PoolsType
  <2>2. \A q \in Pool: RoomOf'[q] = IF q = p THEN l ELSE RoomOf[q]
    BY <1>1, <1>2, <2>1 DEF Maps
  <2>3. RoomOf = [q \in Pool |-> RoomOf[q]] /\ RoomOf' = [q \in Pool |-> RoomOf'[q]]
    BY DEF RoomOf
  <2> QED
    BY <2>2, <2>3
<1>5. HeldBy' = HeldBy /\ SizeHeld' = SizeHeld
  BY <1>1, <1>2, HeldStays
<1> QED
  BY <1>3, <1>4, <1>5 DEF AsHeap!Create, RoomOf, HeldBy, SizeHeld

LEMMA Destroys ==
  ASSUME PoolsInv, Maps, Maps', UnlinkPool, NEW p, p = dying
  PROVE  p \in Pool /\ AsHeap!Destroy(p)
<1>1. /\ p \in PoolList /\ PoolList' = PoolList \ {p} /\ Blocks(p) = {} /\ PoolList \subseteq Pool
      /\ sizeMax' = sizeMax /\ length' = length
      /\ \A q \in PoolList: Blocks(q)' = Blocks(q)
  BY UnlinkKeeps, Found
<1>2. RoomOf[p] # NONE /\ p \in Pool
  BY <1>1, PoolsFacts DEF Maps, PoolsInv, Filled
<1>3. {a \in Block: HeldBy[a] = p} = {}
  <2>1. ASSUME NEW a \in Block, HeldBy[a] = p PROVE FALSE
    <3>1. CASE \E q \in PoolList: a \in Blocks(q)
      BY <1>1, <2>1, <3>1 DEF Maps
    <3>2. CASE \A q \in PoolList: a \notin Blocks(q)
      BY <1>2, <2>1, <3>2, PoolsFacts DEF Maps
    <3> QED
      BY <3>1, <3>2
  <2> QED
    BY <2>1
<1>4. RoomOf' = [RoomOf EXCEPT ![p] = NONE]
  <2>1. \A q \in Pool: RoomOf'[q] = IF q = p THEN NONE ELSE RoomOf[q]
    BY <1>1, <1>2 DEF Maps
  <2>2. RoomOf = [q \in Pool |-> RoomOf[q]] /\ RoomOf' = [q \in Pool |-> RoomOf'[q]]
    BY DEF RoomOf
  <2> QED
    BY <2>1, <2>2
<1>5. HeldBy' = HeldBy /\ SizeHeld' = SizeHeld
  BY <1>1, <1>2, HeldStays
<1>6. AsHeap!Destroy(p)
  BY <1>2, <1>3, <1>4, <1>5 DEF AsHeap!Destroy, AsHeap!Of, RoomOf, HeldBy, SizeHeld
<1> QED
  BY <1>2, <1>6

LEMMA Freed ==
  ASSUME PoolsInv, FreeFirst
  PROVE  dying \in PoolList /\ allocs[dying] \in Blocks(dying)
<1>1. dying \in PoolList /\ allocs[dying] # NONE
  BY DEF FreeFirst, PoolsInv
<1>2. IsList(allocs[dying], next, prev, Block, Blocks(dying))
  BY <1>1 DEF PoolsInv, Filled
<1> QED
  BY <1>1, <1>2, PoolsFacts, ListEnds

LEMMA PoolsKeep == PoolsInv /\ [PoolsNext]_poolsVars => PoolsInv'
<1> SUFFICES ASSUME PoolsInv, [PoolsNext]_poolsVars PROVE PoolsInv'
  OBVIOUS
<1>1. ASSUME NEW p \in Pool, NEW l \in Limit, AllocPool(p, l) PROVE PoolsInv'
  BY <1>1, AllocPoolKeeps
<1>2. ASSUME NEW p \in Pool, NEW b \in Block, NEW n \in Bytes, Alloc(p, b, n) PROVE PoolsInv'
  BY <1>2, AllocKeeps
<1>3. ASSUME NEW b \in Block, MemFree(b) PROVE PoolsInv'
  <2>1. owner[b] \in PoolList /\ b \in Blocks(owner[b]) /\ FreeBlock(b) /\ UNCHANGED <<pools, pnext, pprev, sizeMax, dying>>
    BY <1>3 DEF MemFree, Searched
  <2> QED
    BY <2>1, FreeKeeps
<1>4. ASSUME NEW p \in Pool, FreePool(p) PROVE PoolsInv'
  BY <1>4, QuietKeeps DEF FreePool
<1>5. CASE FreeFirst
  <2>1. dying \in PoolList /\ allocs[dying] \in Blocks(dying)
    BY <1>5, Freed
  <2>2. FreeBlock(allocs[dying]) /\ UNCHANGED <<pools, pnext, pprev, sizeMax, dying>>
    BY <1>5 DEF FreeFirst
  <2> QED
    BY <2>1, <2>2, FreeKeeps
<1>6. CASE UnlinkPool
  BY <1>6, UnlinkKeeps
<1>7. CASE UNCHANGED poolsVars
  <2>1. dying' \in PoolList \cup {NONE}
    BY <1>7 DEF poolsVars, PoolsInv
  <2> QED
    BY <1>7, <2>1, QuietKeeps DEF poolsVars
<1> QED
  BY <1>1, <1>2, <1>3, <1>4, <1>5, <1>6, <1>7 DEF PoolsNext

LEMMA StepsOfHeap ==
  PoolsInv /\ Maps /\ Maps' /\ [PoolsNext]_poolsVars => [AsHeap!HeapNext]_(AsHeap!heapVars)
<1> SUFFICES ASSUME PoolsInv, Maps, Maps', [PoolsNext]_poolsVars
             PROVE  [AsHeap!HeapNext]_(AsHeap!heapVars)
  OBVIOUS
<1>0. ASSUME UNCHANGED <<poolList, blockList, sizeMax, size, sen1, owner, length, live>>,
             dying' \in PoolList \cup {NONE}
      PROVE  UNCHANGED AsHeap!heapVars
  <2>1. PoolList' = PoolList /\ (\A q \in PoolList: Blocks(q)' = Blocks(q)) /\ PoolList \subseteq Pool
    BY <1>0, QuietKeeps, Found
  <2>2. HeldBy' = HeldBy /\ SizeHeld' = SizeHeld
    BY <1>0, <2>1, HeldStays
  <2>3. RoomOf' = RoomOf
    BY <1>0, <2>1 DEF RoomOf
  <2> QED
    BY <2>2, <2>3 DEF AsHeap!heapVars, RoomOf, HeldBy, SizeHeld
<1>1. ASSUME NEW p \in Pool, NEW l \in Limit, AllocPool(p, l) PROVE AsHeap!HeapNext
  BY <1>1, Creates DEF AsHeap!HeapNext
<1>2. ASSUME NEW p \in Pool, NEW b \in Block, NEW n \in Bytes, Alloc(p, b, n) PROVE AsHeap!HeapNext
  BY <1>2, Allocates DEF AsHeap!HeapNext
<1>3. ASSUME NEW b \in Block, MemFree(b) PROVE AsHeap!HeapNext
  <2>1. owner[b] \in PoolList /\ b \in Blocks(owner[b]) /\ FreeBlock(b) /\ UNCHANGED <<pools, pnext, pprev, sizeMax, dying>>
    BY <1>3 DEF MemFree, Searched
  <2>2. AsHeap!Release(b)
    BY <2>1, FreesBlock
  <2> QED
    BY <2>2 DEF AsHeap!HeapNext
<1>4. ASSUME NEW p \in Pool, FreePool(p) PROVE UNCHANGED AsHeap!heapVars
  BY <1>0, <1>4 DEF FreePool
<1>5. CASE FreeFirst
  <2>1. dying \in PoolList /\ allocs[dying] \in Blocks(dying) /\ allocs[dying] \in Block
    BY <1>5, Freed, Found
  <2>2. PICK p \in PoolList, b \in Block: b \in Blocks(p) /\ p = dying /\ b = allocs[dying]
    BY <2>1
  <2>3. FreeBlock(b) /\ UNCHANGED <<pools, pnext, pprev, sizeMax, dying>>
    BY <1>5, <2>2 DEF FreeFirst
  <2>4. AsHeap!Release(b)
    BY <2>2, <2>3, FreesBlock
  <2>5. AsHeap!HeapNext
    BY <2>4 DEF AsHeap!HeapNext
  <2> QED
    BY <2>5
<1>6. CASE UnlinkPool
  <2>0. PICK p: p = dying
    OBVIOUS
  <2>1. p \in Pool /\ AsHeap!Destroy(p)
    BY <1>6, <2>0, Destroys
  <2>2. AsHeap!HeapNext
    BY <2>1 DEF AsHeap!HeapNext
  <2> QED
    BY <2>2
<1>7. CASE UNCHANGED poolsVars
  <2>1. dying' \in PoolList \cup {NONE}
    BY <1>7 DEF poolsVars, PoolsInv
  <2> QED
    BY <1>0, <1>7, <2>1 DEF poolsVars
<1> QED
  BY <1>1, <1>2, <1>3, <1>4, <1>5, <1>6, <1>7 DEF PoolsNext

(* IsHeap: every step of the pools is a step of the heap or none of it: a  *)
(* block is in one list from mem_alloc to mem_free, whatever is freed      *)
(* twice, and a pool never hands out more than its limit.                  *)
THEOREM PoolsAreHeap == PoolsSpec => IsHeap
<1>1. PoolsInit => AsHeap!HeapInit
  <2> SUFFICES ASSUME PoolsInit PROVE AsHeap!HeapInit
    OBVIOUS
  <2>1. IsList(pools, pnext, pprev, Pool, {})
    BY ListNone DEF PoolsInit
  <2>2. PoolList = {}
    BY <2>1, PoolsFacts, ListReached DEF PoolList
  <2>3. \A b \in Block: InPool(b) = {}
    BY <2>2 DEF InPool
  <2>4. RoomOf = [p \in Pool |-> NONE] /\ HeldBy = [b \in Block |-> NONE] /\ SizeHeld = [b \in Block |-> 0]
    BY <2>2, <2>3 DEF RoomOf, HeldBy, SizeHeld
  <2> QED
    BY <2>4 DEF AsHeap!HeapInit, RoomOf, HeldBy, SizeHeld
<1> QED
  BY <1>1, PoolsStart, PoolsKeep, StepsOfHeap, Mapped, PTL DEF PoolsSpec, IsHeap, AsHeap!HeapSpec

-----------------------------------------------------------------------------
(* The tables of commands and variables (Tables).                          *)

(* A list holds names of its letter, each rest greater than the one before *)
(* it; and what is in the table are the names asked for.                   *)
NamesRise(list, l) ==
  /\ \A i \in DOMAIN list: list[i][1] = l
  /\ \A i, j \in DOMAIN list: i < j => list[i][2] < list[j][2]
Lettered(table) == \A l \in Letter: NamesRise(table[l], l)
HoldsNames(table, names) ==
  \A n \in Names: n \in names <=> \E i \in DOMAIN table[n[1]]: table[n[1]][i] = n

(* The parts of TablesKept that steps keep.                                *)
VolumeKnown == sndInit # "not called" => Volume \in asked.vars
GainKnown ==
  sndInit = "up" => gain = float[Volume]
FloatKnown ==
  sndInit # "not called" => float[Volume] = AtMost(AtLeast(string[Volume]))
SettingKnown == given = string

TablesInv ==
  /\ TablesType
  /\ Lettered(cmds) /\ HoldsNames(cmds, asked.cmds)
  /\ Lettered(cvars) /\ HoldsNames(cvars, asked.vars)
  /\ VolumeKnown /\ GainKnown /\ FloatKnown /\ SettingKnown

(* InsertAt puts e at place i and moves what was there and behind.         *)
LEMMA InsertAtMoves ==
  ASSUME NEW S, NEW s \in Seq(S), NEW i \in 1 .. Len(s) + 1, NEW e \in S
  PROVE  /\ InsertAt(s, i, e) \in Seq(S)
         /\ Len(InsertAt(s, i, e)) = Len(s) + 1
         /\ \A j \in 1 .. Len(s) + 1:
              InsertAt(s, i, e)[j] = IF j < i THEN s[j] ELSE IF j = i THEN e ELSE s[j - 1]
<1> DEFINE front == SubSeq(s, 1, i - 1)
           back  == SubSeq(s, i, Len(s))
<1>1. Len(s) \in Nat
  BY LenProperties
<1>2. /\ front \in Seq(S) /\ Len(front) = i - 1
      /\ \A j \in 1 .. i - 1: front[j] = s[j]
  BY <1>1, SubSeqProperties
<1>3. /\ back \in Seq(S) /\ Len(back) = Len(s) - i + 1
      /\ \A j \in 1 .. Len(s) - i + 1: back[j] = s[j + i - 1]
  <2>1. CASE i <= Len(s)
    BY <1>1, <2>1, SubSeqProperties
  <2>2. CASE i = Len(s) + 1
    BY <1>1, <2>2, SubSeqProperties
  <2> QED
    BY <1>1, <2>1, <2>2
<1>4. /\ <<e>> \in Seq(S) /\ Len(<<e>>) = 1 /\ <<e>>[1] = e
  OBVIOUS
<1>5. /\ front \o <<e>> \in Seq(S)
      /\ Len(front \o <<e>>) = i
      /\ \A j \in 1 .. i: (front \o <<e>>)[j] = IF j < i THEN s[j] ELSE e
  BY <1>1, <1>2, <1>4, ConcatProperties
<1> HIDE DEF front, back
<1> DEFINE left == front \o <<e>>
<1> HIDE DEF left
<1>6. /\ left \in Seq(S) /\ Len(left) = i
      /\ \A j \in 1 .. i: left[j] = IF j < i THEN s[j] ELSE e
  BY <1>5 DEF left
<1>7. /\ left \o back \in Seq(S)
      /\ Len(left \o back) = Len(left) + Len(back)
      /\ \A j \in 1 .. Len(left) + Len(back):
           (left \o back)[j] = IF j <= Len(left) THEN left[j] ELSE back[j - Len(left)]
  BY <1>3, <1>6, ConcatProperties
<1>8. ASSUME NEW j \in 1 .. Len(s) + 1
      PROVE  (left \o back)[j] = IF j < i THEN s[j] ELSE IF j = i THEN e ELSE s[j - 1]
  BY <1>1, <1>3, <1>6, <1>7
<1>9. InsertAt(s, i, e) = left \o back
  BY DEF InsertAt, left, front, back
<1> QED
  BY <1>1, <1>3, <1>6, <1>7, <1>8, <1>9

(* The same, in one word.                                                  *)
MovedAt(S, s, i, e, t) ==
  /\ t \in Seq(S)
  /\ Len(t) = Len(s) + 1
  /\ \A j \in 1 .. Len(s) + 1: t[j] = IF j < i THEN s[j] ELSE IF j = i THEN e ELSE s[j - 1]

LEMMA InsertAtIsMoved ==
  ASSUME NEW S, NEW s \in Seq(S), NEW i \in 1 .. Len(s) + 1, NEW e \in S
  PROVE  MovedAt(S, s, i, e, InsertAt(s, i, e))
BY InsertAtMoves DEF MovedAt

LEMMA InProduct ==
  ASSUME NEW A, NEW B, NEW n \in A \X B
  PROVE  n[1] \in A /\ n[2] \in B /\ n = <<n[1], n[2]>>
OBVIOUS

LEMMA NamesTyped ==
  \A n \in Names: n[1] \in Letter /\ n[2] \in Nat /\ n = <<n[1], n[2]>>
<1> SUFFICES ASSUME NEW n \in Names PROVE n[1] \in Letter /\ n[2] \in Nat /\ n = <<n[1], n[2]>>
  OBVIOUS
<1>1. n[1] \in Letter /\ n[2] \in Rest /\ n = <<n[1], n[2]>>
  BY InProduct DEF Names
<1>2. Rest \subseteq Nat
  BY TablesAssumption DEF TablesAssumption
<1> QED
  BY <1>1, <1>2

LEMMA ListOfNames ==
  ASSUME NEW list \in Seq(Names)
  PROVE  /\ DOMAIN list = 1 .. Len(list) /\ Len(list) \in Nat
         /\ \A i \in DOMAIN list: list[i] \in Names /\ list[i][2] \in Nat
<1>1. DOMAIN list = 1 .. Len(list) /\ Len(list) \in Nat
  BY LenProperties
<1>2. \A i \in DOMAIN list: list[i] \in Names
  BY ElementOfSeq, <1>1
<1> QED
  BY <1>1, <1>2, NamesTyped

(* Where a name is put: what is in front of it is not greater, what is     *)
(* behind is.                                                              *)
LEMMA PlacedBefore ==
  ASSUME NEW list \in Seq(Names), NEW n \in Names, NEW l, NamesRise(list, l)
  PROVE  /\ Placed(list, n) \in 1 .. Len(list) + 1
         /\ \A i \in DOMAIN list: IF i < Placed(list, n) THEN list[i][2] <= n[2]
                                  ELSE list[i][2] > n[2]
<1> DEFINE greater == {i \in DOMAIN list: list[i][2] > n[2]}
<1>1. DOMAIN list = 1 .. Len(list) /\ Len(list) \in Nat
  BY LenProperties
<1>2. n[2] \in Nat /\ \A i \in DOMAIN list: list[i][2] \in Nat
  BY NamesTyped, ListOfNames
<1>3. CASE greater = {}
  BY <1>1, <1>2, <1>3 DEF Placed
<1>4. CASE greater # {}
  <2>0. greater \in SUBSET Nat
    BY <1>1
  <2>1. PICK m \in greater: \A k \in greater: m <= k
    BY <1>4, <2>0, Least, Zenon
  <2>2. Placed(list, n) = Min(greater)
    BY <1>4 DEF Placed
  <2>3. Min(greater) \in greater /\ \A k \in greater: Min(greater) <= k
    BY <2>1 DEF Min
  <2> DEFINE p == Min(greater)
  <2> HIDE DEF p
  <2>4. p \in DOMAIN list /\ list[p][2] > n[2] /\ \A k \in DOMAIN list: list[k][2] > n[2] => p <= k
    BY <2>3 DEF p
  <2>5. \A i \in DOMAIN list: i > p => list[i][2] > list[p][2]
    BY <2>4 DEF NamesRise
  <2>6. ASSUME NEW i \in DOMAIN list
        PROVE  IF i < p THEN list[i][2] <= n[2] ELSE list[i][2] > n[2]
    BY <1>1, <1>2, <2>4, <2>5, <2>6
  <2> QED
    BY <1>1, <2>2, <2>4, <2>6 DEF p
<1> QED
  BY <1>3, <1>4

(* A name that is in a table is found, and one that is not is not.         *)
LEMMA FoundIfHeld ==
  ASSUME NEW table \in Lists, Lettered(table), NEW n \in Names
  PROVE  IsIn(table, n) <=> \E i \in DOMAIN table[n[1]]: table[n[1]][i] = n
<1> DEFINE list == table[n[1]]
<1>1. n[1] \in Letter /\ list \in Seq(Names) /\ NamesRise(list, n[1])
  BY DEF Names, Lists, Lettered
<1>2. DOMAIN list = 1 .. Len(list) /\ Len(list) \in Nat
  BY <1>1, LenProperties
<1>3. \A i \in DOMAIN list: list[i][2] \in Nat
  BY <1>1, ListOfNames
<1>4. ASSUME NEW i \in DOMAIN list, list[i] = n
      PROVE  \A j \in 1 .. i - 1: list[j][2] <= n[2]
  <2> SUFFICES ASSUME NEW j \in 1 .. i - 1 PROVE list[j][2] <= n[2]
    OBVIOUS
  <2>1. j \in DOMAIN list /\ j < i
    BY <1>2, <1>4
  <2>2. list[j][2] < list[i][2]
    BY <1>1, <1>4, <2>1 DEF NamesRise
  <2> QED
    BY <1>3, <1>4, <2>1, <2>2
<1> QED
  BY <1>4 DEF IsIn, FoundIn

(* A new name is added to the names that a table has, and to no others.    *)
LEMMA InsertedAdds ==
  ASSUME NEW table \in Lists, Lettered(table), NEW names, HoldsNames(table, names),
         NEW n \in Names, ~IsIn(table, n)
  PROVE  /\ Inserted(table, n) \in Lists
         /\ Lettered(Inserted(table, n))
         /\ HoldsNames(Inserted(table, n), names \cup {n})
<1> DEFINE list == table[n[1]]
           p == Placed(list, n)
           new == InsertAt(list, p, n)
<1>1. n[1] \in Letter /\ list \in Seq(Names) /\ NamesRise(list, n[1]) /\ n[2] \in Nat
  BY NamesTyped DEF Lists, Lettered
<1>2. DOMAIN list = 1 .. Len(list) /\ Len(list) \in Nat
  BY <1>1, LenProperties
<1>3. \A i \in DOMAIN list: list[i] \in Names /\ list[i][2] \in Nat /\ list[i][1] = n[1] /\ list[i] # n
  <2>1. \A i \in DOMAIN list: list[i] # n
    BY FoundIfHeld
  <2>2. \A i \in DOMAIN list: list[i] \in Names /\ list[i][2] \in Nat
    BY <1>1, ListOfNames
  <2> QED
    BY <1>1, <2>1, <2>2 DEF NamesRise
<1>4. \A i \in DOMAIN list: list[i][2] # n[2]
  BY <1>3, NamesTyped
<1>5. /\ p \in 1 .. Len(list) + 1
      /\ \A i \in DOMAIN list: IF i < p THEN list[i][2] <= n[2] ELSE list[i][2] > n[2]
  BY <1>1, PlacedBefore
<1> HIDE DEF p
<1>6. /\ new \in Seq(Names)
      /\ Len(new) = Len(list) + 1
      /\ \A j \in 1 .. Len(list) + 1:
           new[j] = IF j < p THEN list[j] ELSE IF j = p THEN n ELSE list[j - 1]
  <2>1. list \in Seq(Names) /\ p \in 1 .. Len(list) + 1 /\ n \in Names
    BY <1>1, <1>5
  <2>2. MovedAt(Names, list, p, n, InsertAt(list, p, n))
    <3> HIDE DEF list
    <3> QED
      BY <2>1, InsertAtIsMoved, Zenon
  <2> QED
    BY <2>2 DEF MovedAt, new
<1> HIDE DEF new
<1>7. Inserted(table, n) = [table EXCEPT ![n[1]] = new]
  BY DEF Inserted, new, p
<1> HIDE DEF list
<1>8. DOMAIN new = 1 .. Len(list) + 1
  BY <1>6, LenProperties
<1>9. NamesRise(new, n[1])
  <2>1. ASSUME NEW i \in DOMAIN new PROVE new[i][1] = n[1]
    <3>1. CASE i < p
      BY <1>2, <1>3, <1>5, <1>6, <1>8, <3>1
    <3>2. CASE i = p
      BY <1>6, <1>8, <3>2
    <3>3. CASE i > p
      <4>1. new[i] = list[i - 1] /\ i - 1 \in DOMAIN list
        BY <1>2, <1>5, <1>6, <1>8, <3>3
      <4> QED
        BY <1>3, <4>1
    <3> QED
      BY <1>5, <1>8, <3>1, <3>2, <3>3
  <2>2. ASSUME NEW i \in DOMAIN new, NEW j \in DOMAIN new, i < j
        PROVE  new[i][2] < new[j][2]
    <3>1. CASE j < p
      BY <1>1, <1>2, <1>5, <1>6, <1>8, <2>2, <3>1 DEF NamesRise
    <3>2. CASE j = p
      <4>1. new[i] = list[i] /\ new[j] = n /\ i \in DOMAIN list
        BY <1>2, <1>5, <1>6, <1>8, <2>2, <3>2
      <4> QED
        BY <1>1, <1>3, <1>4, <1>5, <2>2, <3>2, <4>1
    <3>3. CASE j > p /\ i = p
      <4>1. new[i] = n /\ new[j] = list[j - 1] /\ j - 1 \in DOMAIN list /\ j - 1 >= p
        BY <1>2, <1>5, <1>6, <1>8, <2>2, <3>3
      <4> QED
        BY <1>1, <1>2, <1>3, <1>5, <4>1
    <3>4. CASE j > p /\ i < p
      <4>1. new[i] = list[i] /\ new[j] = list[j - 1] /\ j - 1 \in DOMAIN list /\ i \in DOMAIN list /\ i < j - 1
        BY <1>2, <1>5, <1>6, <1>8, <2>2, <3>4
      <4> QED
        BY <1>1, <4>1 DEF NamesRise
    <3>5. CASE j > p /\ i > p
      <4>1. new[i] = list[i - 1] /\ new[j] = list[j - 1] /\ j - 1 \in DOMAIN list /\ i - 1 \in DOMAIN list /\ i - 1 < j - 1
        BY <1>2, <1>5, <1>6, <1>8, <2>2, <3>5
      <4> QED
        BY <1>1, <4>1 DEF NamesRise
    <3> QED
      BY <1>5, <1>8, <3>1, <3>2, <3>3, <3>4, <3>5
  <2> QED
    BY <2>1, <2>2 DEF NamesRise
<1>10. ASSUME NEW m \in Names
       PROVE  (\E j \in DOMAIN new: new[j] = m) <=> (m = n \/ \E i \in DOMAIN list: list[i] = m)
  <2>1. ASSUME NEW j \in DOMAIN new, new[j] = m
        PROVE  m = n \/ \E i \in DOMAIN list: list[i] = m
    <3>1. CASE j < p
      BY <1>2, <1>5, <1>6, <1>8, <2>1, <3>1
    <3>2. CASE j = p
      BY <1>6, <1>8, <2>1, <3>2
    <3>3. CASE j > p
      <4>1. new[j] = list[j - 1] /\ j - 1 \in DOMAIN list
        BY <1>2, <1>5, <1>6, <1>8, <2>1, <3>3
      <4> QED
        BY <2>1, <4>1
    <3> QED
      BY <1>5, <1>8, <3>1, <3>2, <3>3
  <2>2. new[p] = n /\ p \in DOMAIN new
    BY <1>2, <1>5, <1>6, <1>8
  <2>3. ASSUME NEW i \in DOMAIN list, list[i] = m
        PROVE  \E j \in DOMAIN new: new[j] = m
    <3>1. CASE i < p
      <4>1. i \in DOMAIN new /\ new[i] = list[i]
        BY <1>2, <1>5, <1>6, <1>8, <3>1
      <4> QED
        BY <2>3, <4>1
    <3>2. CASE i >= p
      <4>1. i + 1 \in DOMAIN new /\ new[i + 1] = list[i]
        BY <1>2, <1>5, <1>6, <1>8, <3>2
      <4> QED
        BY <2>3, <4>1
    <3> QED
      BY <1>2, <1>5, <3>1, <3>2
  <2> QED
    BY <2>1, <2>2, <2>3
<1>11. Inserted(table, n) \in Lists
  BY <1>1, <1>6, <1>7 DEF Lists
<1>12. Lettered(Inserted(table, n))
  BY <1>1, <1>7, <1>9 DEF Lettered, Lists
<1>13. HoldsNames(Inserted(table, n), names \cup {n})
  <2> SUFFICES ASSUME NEW m \in Names
               PROVE  m \in names \cup {n} <=>
                        \E i \in DOMAIN Inserted(table, n)[m[1]]: Inserted(table, n)[m[1]][i] = m
    BY DEF HoldsNames
  <2>1. m[1] \in Letter
    BY DEF Names
  <2>2. m \in names <=> \E i \in DOMAIN table[m[1]]: table[m[1]][i] = m
    BY DEF HoldsNames
  <2>3. CASE m[1] = n[1]
    BY <1>1, <1>7, <1>10, <2>2, <2>3 DEF Lists, list
  <2>4. CASE m[1] # n[1]
    BY <1>7, <2>1, <2>2, <2>4 DEF Lists
  <2> QED
    BY <2>3, <2>4
<1> QED
  BY <1>11, <1>12, <1>13

(* What is held is found, once.                                            *)
LEMMA HeldIsKept ==
  ASSUME NEW table \in Lists, Lettered(table), NEW names, HoldsNames(table, names)
  PROVE  Keeps(table, names)
<1> SUFFICES ASSUME NEW n \in Names
             PROVE  /\ IsIn(table, n) <=> n \in names
                    /\ Cardinality({i \in DOMAIN table[n[1]]: table[n[1]][i] = n})
                         = (IF n \in names THEN 1 ELSE 0)
  BY DEF Keeps
<1> DEFINE at == {i \in DOMAIN table[n[1]]: table[n[1]][i] = n}
<1>1. n \in names <=> at # {}
  BY DEF HoldsNames
<1>2. IsIn(table, n) <=> n \in names
  BY <1>1, FoundIfHeld
<1>3. CASE at = {}
  BY <1>1, <1>2, <1>3, FS_EmptySet
<1>4. CASE at # {}
  <2>1. PICK i \in at: TRUE
    BY <1>4
  <2>2. n[1] \in Letter /\ table[n[1]] \in Seq(Names) /\ NamesRise(table[n[1]], n[1])
    BY DEF Names, Lists, Lettered
  <2>3. DOMAIN table[n[1]] = 1 .. Len(table[n[1]])
    BY <2>2, LenProperties
  <2>4. n[2] \in Nat
    BY NamesTyped
  <2>5. ASSUME NEW j \in at PROVE j = i
    BY <2>1, <2>2, <2>3, <2>4, <2>5 DEF NamesRise
  <2>6. at = {i}
    BY <2>1, <2>5
  <2> QED
    BY <1>1, <1>2, <2>6, FS_Singleton
<1> QED
  BY <1>3, <1>4

-----------------------------------------------------------------------------
LEMMA TablesStart == TablesInit => TablesInv
<1> SUFFICES ASSUME TablesInit PROVE TablesInv
  OBVIOUS
<1>0. /\ <<>> \in Seq(Names)
      /\ \A i: i \notin DOMAIN <<>>
      /\ \A l \in Letter: cmds[l] = <<>> /\ cvars[l] = <<>>
      /\ cmds = [l \in Letter |-> <<>>] /\ cvars = [l \in Letter |-> <<>>]
  <2>1. Len(<<>>) = 0 /\ <<>> \in Seq(Names)
    OBVIOUS
  <2>2. DOMAIN <<>> = 1 .. 0
    BY <2>1, LenProperties
  <2>3. cmds = [l \in Letter |-> <<>>] /\ cvars = [l \in Letter |-> <<>>]
    BY DEF TablesInit
  <2>4. \A l \in Letter: cmds[l] = <<>> /\ cvars[l] = <<>>
    BY <2>3, Zenon
  <2>5. \A i: i \notin DOMAIN <<>>
    BY <2>2
  <2> QED
    BY <2>1, <2>3, <2>4, <2>5
<1>1. TablesType
  <2>1. cmds \in Lists /\ cvars \in Lists
    BY <1>0 DEF Lists
  <2>2. /\ string \in [Names -> Number \cup {0}] /\ float \in [Names -> Int] /\ gain \in Int
        /\ given \in [Names -> Number \cup {0}]
    <3>1. string = [n \in Names |-> 0] /\ float = [n \in Names |-> 0] /\ gain = 0 /\ given = string
      BY DEF TablesInit
    <3> QED
      BY <3>1
  <2>3. asked \in [{"cmds", "vars"} -> SUBSET Names] /\ sndInit \in {"not called", "off", "up"}
    <3>1. asked = [cmds |-> {}, vars |-> {}]
      BY DEF TablesInit
    <3>2. asked \in [{"cmds", "vars"} -> SUBSET Names]
      BY <3>1
    <3> QED
      BY <3>2 DEF TablesInit
  <2> QED
    BY <2>1, <2>2, <2>3 DEF TablesType
<1>2. Lettered(cmds) /\ Lettered(cvars)
  BY <1>0 DEF Lettered, NamesRise
<1>3. HoldsNames(cmds, asked.cmds) /\ HoldsNames(cvars, asked.vars)
  <2>1. asked.cmds = {} /\ asked.vars = {}
    BY DEF TablesInit
  <2> QED
    BY <1>0, <2>1, NamesTyped DEF HoldsNames
<1> QED
  BY <1>1, <1>2, <1>3 DEF TablesInit, TablesInv, VolumeKnown, GainKnown, FloatKnown, SettingKnown

LEMMA GetsAdds ==
  ASSUME TablesInv, NEW n \in Names, NEW v \in Number, Gets(n, v)
  PROVE  /\ cvars' \in Lists /\ Lettered(cvars') /\ HoldsNames(cvars', asked.vars \cup {n}) /\ cmds' = cmds
         /\ asked' \in [{"cmds", "vars"} -> SUBSET Names] /\ asked'.vars = asked.vars \cup {n}
         /\ asked'.cmds = asked.cmds
         /\ string' \in [Names -> Number \cup {0}] /\ given' = string'
         /\ \A m \in Names: m # n => string'[m] = string[m]
<1> USE DEF TablesInv
<1>1. /\ cmds \in Lists /\ cvars \in Lists /\ asked \in [{"cmds", "vars"} -> SUBSET Names]
      /\ string \in [Names -> Number \cup {0}] /\ given = string
  BY DEF TablesType, SettingKnown
<1>2. cvars' \in Lists /\ Lettered(cvars') /\ HoldsNames(cvars', asked.vars \cup {n})
  <2>1. CASE IsIn(cvars, n)
    <3>1. n \in asked.vars
      <4>1. \E i \in DOMAIN cvars[n[1]]: cvars[n[1]][i] = n
        BY <1>1, <2>1, FoundIfHeld
      <4> QED
        BY <1>1, <4>1 DEF HoldsNames
    <3>2. asked.vars \cup {n} = asked.vars /\ cvars' = cvars
      BY <2>1, <3>1 DEF Gets
    <3> QED
      BY <1>1, <3>2
  <2>2. CASE ~IsIn(cvars, n)
    BY <1>1, <2>2, InsertedAdds DEF Gets
  <2> QED
    BY <2>1, <2>2
<1>3. asked' \in [{"cmds", "vars"} -> SUBSET Names] /\ asked'.vars = asked.vars \cup {n} /\ asked'.cmds = asked.cmds
  BY <1>1 DEF Gets
<1>4. /\ string' \in [Names -> Number \cup {0}] /\ given' = string'
      /\ \A m \in Names: m # n => string'[m] = string[m]
  BY <1>1 DEF Gets, Kept
<1> QED
  BY <1>2, <1>3, <1>4 DEF Gets

LEMMA TablesStep == TablesInv /\ [TablesNext]_tablesVars => TablesInv'
<1> SUFFICES ASSUME TablesInv, [TablesNext]_tablesVars PROVE TablesInv'
  OBVIOUS
<1> USE DEF TablesInv
<1>1. /\ cmds \in Lists /\ cvars \in Lists /\ asked \in [{"cmds", "vars"} -> SUBSET Names]
      /\ string \in [Names -> Number \cup {0}] /\ float \in [Names -> Int] /\ gain \in Int
      /\ sndInit \in {"not called", "off", "up"} /\ given = string
  BY DEF TablesType, SettingKnown
<1>2. Volume \in Names /\ LoLimit \in Int /\ HiLimit \in Int /\ LoLimit <= HiLimit /\ Number \subseteq Int
  BY TablesAssumption DEF TablesAssumption
<1>3. \A v \in Int: AtMost(AtLeast(v)) \in Int
  BY <1>2 DEF AtMost, AtLeast
<1>4. ASSUME NEW n \in Names, RegisterCmd(n) PROVE TablesInv'
  <2>1. /\ cmds' \in Lists /\ Lettered(cmds') /\ HoldsNames(cmds', asked.cmds \cup {n})
    BY <1>1, <1>4, InsertedAdds DEF RegisterCmd
  <2>2. asked' \in [{"cmds", "vars"} -> SUBSET Names] /\ asked'.cmds = asked.cmds \cup {n} /\ asked'.vars = asked.vars
    BY <1>1, <1>4 DEF RegisterCmd
  <2>3. UNCHANGED <<cvars, string, float, given, sndInit, gain>>
    BY <1>4 DEF RegisterCmd
  <2> QED
    BY <1>1, <2>1, <2>2, <2>3 DEF TablesType, VolumeKnown, GainKnown, FloatKnown, SettingKnown
<1>5. ASSUME NEW n \in Names, NEW v \in Number, SetCvar(n, v) PROVE TablesInv'
  <2>1. UNCHANGED <<cmds, cvars, asked, sndInit>>
    BY <1>5 DEF SetCvar
  <2>2. FloatOf(n, v) \in Int
    BY <1>2, <1>3 DEF FloatOf
  <2>3. /\ string' \in [Names -> Number \cup {0}] /\ string'[n] = v
        /\ \A m \in Names: m # n => string'[m] = string[m] /\ float'[m] = float[m]
        /\ float' \in [Names -> Int] /\ float'[n] = FloatOf(n, v)
    BY <1>1, <1>5, <2>2 DEF SetCvar
  <2>4. gain' = (IF n = Volume /\ sndInit = "up" THEN float'[n] ELSE gain) /\ given' = string'
    BY <1>1, <1>5 DEF SetCvar, CalledLast
  <2>5. gain' \in Int
    BY <1>1, <2>3, <2>4
  <2>6. CASE n = Volume
    BY <1>1, <2>1, <2>3, <2>4, <2>5, <2>6 DEF TablesType, VolumeKnown, GainKnown, FloatKnown, SettingKnown, FloatOf
  <2>7. CASE n # Volume
    <3>1. string'[Volume] = string[Volume] /\ float'[Volume] = float[Volume] /\ gain' = gain
      BY <1>2, <2>3, <2>4, <2>7
    <3> QED
      BY <1>1, <2>1, <2>3, <2>4, <2>5, <3>1 DEF TablesType, VolumeKnown, GainKnown, FloatKnown, SettingKnown
  <2> QED
    BY <2>6, <2>7
<1>6. ASSUME NEW n \in Names, NEW v \in Number, GetCvar(n, v) PROVE TablesInv'
  <2>1. UNCHANGED <<cmds, sndInit, gain>>
    BY <1>6 DEF GetCvar, Gets
  <2>2. /\ cvars' \in Lists /\ Lettered(cvars') /\ HoldsNames(cvars', asked.vars \cup {n})
        /\ asked' \in [{"cmds", "vars"} -> SUBSET Names] /\ asked'.vars = asked.vars \cup {n}
        /\ asked'.cmds = asked.cmds
        /\ string' \in [Names -> Number \cup {0}] /\ given' = string'
        /\ \A m \in Names: m # n => string'[m] = string[m]
    BY <1>6, GetsAdds DEF GetCvar
  <2>3. string'[n] \in Int
    <3>1. string'[n] \in Number \cup {0}
      BY <2>2
    <3> QED
      BY <1>2, <3>1
  <2>4. float' \in [Names -> Int] /\ \A m \in Names: m # n => float'[m] = float[m]
    BY <1>1, <1>6, <2>3 DEF GetCvar
  <2>5. sndInit # "not called" => n # Volume
    <3>1. n = Volume => n \notin asked.vars
      BY <1>1, <1>6, FoundIfHeld DEF GetCvar, HoldsNames
    <3> QED
      BY <3>1 DEF VolumeKnown
  <2>6. sndInit # "not called" => string'[Volume] = string[Volume] /\ float'[Volume] = float[Volume]
    BY <1>2, <2>2, <2>4, <2>5
  <2> QED
    BY <1>1, <2>1, <2>2, <2>4, <2>6 DEF TablesType, VolumeKnown, GainKnown, FloatKnown, SettingKnown
<1>7. ASSUME NEW v \in Number, NEW up \in BOOLEAN, SndInit(v, up) PROVE TablesInv'
  <2>1. UNCHANGED cmds
    BY <1>7 DEF SndInit, Gets
  <2>2. /\ cvars' \in Lists /\ Lettered(cvars') /\ HoldsNames(cvars', asked.vars \cup {Volume})
        /\ asked' \in [{"cmds", "vars"} -> SUBSET Names] /\ asked'.vars = asked.vars \cup {Volume}
        /\ asked'.cmds = asked.cmds
        /\ string' \in [Names -> Number \cup {0}] /\ given' = string'
    BY <1>2, <1>7, GetsAdds DEF SndInit
  <2>5. string'[Volume] \in Int
    <3>1. string'[Volume] \in Number \cup {0}
      BY <1>2, <2>2
    <3>2. \A x \in Number: x \in Int
      BY <1>2
    <3> QED
      BY <3>1, <3>2
  <2>6. WithMax(string'[Volume], WithMin(string'[Volume])) = AtMost(AtLeast(string'[Volume]))
    BY <1>2, <2>5 DEF WithMax, WithMin, AtMost, AtLeast
  <2>7. float' \in [Names -> Int] /\ float'[Volume] = AtMost(AtLeast(string'[Volume]))
    BY <1>1, <1>2, <1>3, <1>7, <2>5, <2>6 DEF SndInit
  <2>8. sndInit' = (IF up THEN "up" ELSE "off") /\ gain' = (IF up THEN float'[Volume] ELSE gain)
    BY <1>7 DEF SndInit, CalledLast
  <2>9. gain' \in Int
    BY <1>1, <1>2, <2>7, <2>8
  <2> QED
    BY <1>1, <1>2, <2>1, <2>2, <2>7, <2>8, <2>9 DEF TablesType, VolumeKnown, GainKnown, FloatKnown, SettingKnown
<1>8. CASE UNCHANGED tablesVars
  BY <1>8 DEF tablesVars, TablesType, VolumeKnown, GainKnown, FloatKnown, SettingKnown
<1> QED
  BY <1>4, <1>5, <1>6, <1>7, <1>8 DEF TablesNext

(* Every name that was registered is found, for good and once, a variable  *)
(* has the value that was last set whoever registers it later, and the     *)
(* volume that is heard is that value within its limits (cmd_insert,       *)
(* cvar_get, cvar_set, snd_init), for any names and values.                *)
THEOREM TablesStayKept == TablesSpec => []TablesKept
<1>1. TablesInv => TablesKept
  <2> SUFFICES ASSUME TablesInv PROVE TablesKept
    OBVIOUS
  <2>1. Keeps(cmds, asked.cmds) /\ Keeps(cvars, asked.vars)
    BY HeldIsKept DEF TablesInv, TablesType
  <2> QED
    BY <2>1 DEF TablesInv, TablesKept, FindsAll, VolumeHeard, GainKnown, FloatKnown, SettingsHeld, SettingKnown
<1> QED
  BY <1>1, TablesStart, TablesStep, PTL DEF TablesSpec

-----------------------------------------------------------------------------
(* Commands taken apart (Tokens).                                          *)

(* A text has its characters, and nothing behind them.                     *)
LEMMA AtIs ==
  ASSUME text \in Seq(Char), NEW p \in Nat \ {0}
  PROVE  /\ At(p) \in Char \cup {"nul"}
         /\ At(p) = "nul" <=> p > Len(text)
         /\ p <= Len(text) => At(p) = text[p]
<1>0. "nul" \notin Char
  BY DEF Char
<1>1. Len(text) \in Nat /\ "nul" \notin Char
  BY <1>0
<1>2. ASSUME p <= Len(text) PROVE text[p] \in Char
  <2>1. p \in 1 .. Len(text)
    BY <1>1, <1>2
  <2> QED
    BY <2>1
<1> QED
  BY <1>1, <1>2 DEF At

IsFirst(C, p, q) ==
  /\ q \in p .. Len(text) + 1
  /\ At(q) \in C \cup {"nul"}
  /\ \A r \in p .. q - 1: At(r) \notin C

LEMMA FirstOnly ==
  ASSUME text \in Seq(Char), NEW C, NEW p \in Nat \ {0}, NEW q, IsFirst(C, p, q)
  PROVE  FirstOf(C, p) = q
<1> DEFINE T == {k \in p .. Len(text) + 1: At(k) \in C \cup {"nul"} /\ \A r \in p .. k - 1: At(r) \notin C}
<1>1. Len(text) \in Nat
  OBVIOUS
<1>2. q \in T
  BY DEF IsFirst
<1>3. ASSUME NEW j \in T, NEW k \in T, j < k PROVE FALSE
  <2>1. j \in Nat \ {0} /\ k \in Nat /\ k <= Len(text) + 1 /\ j \in p .. k - 1
    BY <1>1, <1>3
  <2>2. At(j) = "nul"
    BY <1>3, <2>1
  <2> QED
    BY <1>1, <1>3, <2>1, <2>2, AtIs
<1>4. \A k \in T: k = q
  <2>1. ASSUME NEW k \in T PROVE k = q
    <3>1. k \in Int /\ q \in Int
      BY <1>1, <1>2
    <3> QED
      BY <1>2, <1>3, <3>1
  <2> QED
    BY <2>1
<1>5. (CHOOSE k \in p .. Len(text) + 1: At(k) \in C \cup {"nul"} /\ \A r \in p .. k - 1: At(r) \notin C) = q
  BY <1>2, <1>4
<1> QED
  BY <1>5 DEF FirstOf

LEMMA FirstIs ==
  ASSUME text \in Seq(Char), NEW C, NEW p \in Places
  PROVE  IsFirst(C, p, FirstOf(C, p))
<1> DEFINE T == {k \in p .. Len(text) + 1: At(k) \in C \cup {"nul"}}
<1>1. Len(text) \in Nat /\ p \in Nat \ {0} /\ p <= Len(text) + 1
  BY DEF Places
<1>2. At(Len(text) + 1) = "nul"
  BY <1>1, AtIs
<1>3. Len(text) + 1 \in T /\ T \in SUBSET Nat
  BY <1>1, <1>2
<1>4. PICK q \in T: \A k \in T: q <= k
  <2>1. T # {}
    BY <1>3
  <2> QED
    BY <1>3, <2>1, Least
<1>5. \A r \in p .. q - 1: At(r) \notin C
  <2>1. ASSUME NEW r \in p .. q - 1, At(r) \in C PROVE FALSE
    <3>1. r \in p .. Len(text) + 1 /\ q > r
      BY <1>1, <1>3, <1>4
    <3> QED
      BY <1>3, <1>4, <2>1, <3>1
  <2> QED
    BY <2>1
<1>6. IsFirst(C, p, q)
  BY <1>4, <1>5 DEF IsFirst
<1> QED
  BY <1>1, <1>6, FirstOnly

LEMMA FirstPlace ==
  ASSUME text \in Seq(Char), NEW C, NEW p \in Places
  PROVE  FirstOf(C, p) \in Places /\ FirstOf(C, p) >= p /\ At(FirstOf(C, p)) \in C \cup {"nul"}
<1>1. Len(text) \in Nat /\ p \in Nat \ {0}
  BY DEF Places
<1> QED
  BY <1>1, FirstIs DEF IsFirst, Places

LEMMA AheadPlace ==
  ASSUME text \in Seq(Char), place \in Places
  PROVE  Ahead \in Places
BY FirstPlace DEF Ahead

(* Where parse_token stands once it has stepped over n comments.           *)
PastComments(p) == IF Commented(p) THEN FirstOf(Char \ White, FirstOf({"cr"}, p)) ELSE p

LEMMA PastCommentsPlace ==
  ASSUME text \in Seq(Char), NEW p \in Places
  PROVE  PastComments(p) \in Places
<1>1. FirstOf({"cr"}, p) \in Places
  BY FirstPlace
<1>2. FirstOf(Char \ White, FirstOf({"cr"}, p)) \in Places
  BY <1>1, FirstPlace
<1> QED
  BY <1>2 DEF PastComments

StepsOver(f, n) == f \in [0 .. n -> Places] /\ f[0] = Ahead /\ \A i \in 1 .. n: f[i] = PastComments(f[i - 1])

LEMMA StepsOverAll ==
  ASSUME text \in Seq(Char), place \in Places, NEW n \in Nat
  PROVE  \E f: StepsOver(f, n)
<1> DEFINE T == {m \in Nat: ~ \E f: StepsOver(f, m)}
<1>1. CASE T = {}
  BY <1>1
<1>2. CASE T # {}
  <2>1. PICK m \in T: \A k \in T: m <= k
    BY <1>2, Least
  <2>2. Ahead \in Places
    BY AheadPlace
  <2>3. StepsOver([i \in 0 .. 0 |-> Ahead], 0)
    BY <2>2 DEF StepsOver
  <2>4. m \in Nat /\ m # 0 /\ m - 1 \in Nat /\ ~(m <= m - 1)
    <3>1. m # 0
      BY <2>1, <2>3
    <3> QED
      BY <2>1, <3>1
  <2>5. PICK f: StepsOver(f, m - 1)
    BY <2>1, <2>4
  <2> DEFINE g == [i \in 0 .. m |-> IF i = m THEN PastComments(f[m - 1]) ELSE f[i]]
  <2>6. f \in [0 .. m - 1 -> Places] /\ f[0] = Ahead /\ \A i \in 1 .. m - 1: f[i] = PastComments(f[i - 1])
    BY <2>5 DEF StepsOver
  <2>7. PastComments(f[m - 1]) \in Places
    BY <2>4, <2>6, PastCommentsPlace
  <2>8. g \in [0 .. m -> Places]
    BY <2>4, <2>6, <2>7
  <2>9. g[0] = Ahead
    BY <2>4, <2>6
  <2>10. ASSUME NEW i \in 1 .. m PROVE g[i] = PastComments(g[i - 1])
    <3>1. i \in 0 .. m /\ i - 1 \in 0 .. m /\ i - 1 # m
      BY <2>4
    <3>2. g[i - 1] = f[i - 1] /\ g[i] = IF i = m THEN PastComments(f[m - 1]) ELSE f[i]
      BY <3>1
    <3>3. i # m => i \in 1 .. m - 1
      BY <2>4
    <3> QED
      BY <2>6, <3>2, <3>3
  <2>11. StepsOver(g, m)
    BY <2>8, <2>9, <2>10 DEF StepsOver
  <2> QED
    BY <2>1, <2>11
<1> QED
  BY <1>1, <1>2

(* Wherever the pointer stands, a token begins at a place of the text, at  *)
(* once where there is no comment, and behind the only one there is.       *)
LEMMA BeginsAt ==
  ASSUME text \in Seq(Char), place \in Places
  PROVE  /\ Begins \in Places /\ (~Commented(Ahead) => Begins = Ahead)
         /\ Len(text) >= 1 /\ ~Commented(PastComments(Ahead)) => Begins = PastComments(Ahead)
<1> DEFINE N == Len(text)
           Step(f) == [n \in 0 .. N |-> IF n = 0 THEN Ahead ELSE PastComments(f[n - 1])]
           from == CHOOSE f: f = Step(f)
<1>1. N \in Nat
  OBVIOUS
<1>2. PICK f: StepsOver(f, N)
  BY <1>1, StepsOverAll
<1>3. f \in [0 .. N -> Places] /\ f[0] = Ahead /\ \A i \in 1 .. N: f[i] = PastComments(f[i - 1])
  BY <1>2 DEF StepsOver
<1>4. f = Step(f)
  <2>1. \A n \in 0 .. N: f[n] = Step(f)[n]
    BY <1>1, <1>3
  <2> QED
    BY <1>3, <2>1
<1>5. from = Step(from)
  BY <1>4
<1> HIDE DEF from
<1>6. from[0] = Ahead /\ \A i \in 1 .. N: from[i] = PastComments(from[i - 1])
  <2>1. from[0] = Step(from)[0] /\ \A i \in 1 .. N: from[i] = Step(from)[i]
    BY <1>5
  <2>2. Step(from)[0] = Ahead
    BY <1>1
  <2>3. ASSUME NEW i \in 1 .. N PROVE Step(from)[i] = PastComments(from[i - 1])
    <3>1. i \in 0 .. N /\ i # 0
      BY <1>1
    <3> QED
      BY <3>1
  <2> QED
    BY <2>1, <2>2, <2>3
<1>7. Ahead \in Places
  BY AheadPlace
<1>8. \A n \in 0 .. N: from[n] \in Places /\ (~Commented(Ahead) => from[n] = Ahead)
  <2> DEFINE T == {n \in 0 .. N: ~(from[n] \in Places /\ (~Commented(Ahead) => from[n] = Ahead))}
  <2>1. CASE T = {}
    BY <2>1
  <2>2. CASE T # {}
    <3>1. T \in SUBSET Nat
      BY <1>1
    <3>2. PICK m \in T: \A k \in T: m <= k
      BY <2>2, <3>1, Least
    <3>3. m # 0
      BY <1>6, <1>7, <3>2
    <3>4. m \in 1 .. N /\ m - 1 \in 0 .. N /\ ~(m <= m - 1)
      BY <1>1, <3>2, <3>3
    <3>5. from[m - 1] \in Places /\ (~Commented(Ahead) => from[m - 1] = Ahead)
      BY <3>2, <3>4
    <3>6. from[m] = PastComments(from[m - 1])
      BY <1>6, <3>4
    <3>7. from[m] \in Places
      BY <3>5, <3>6, PastCommentsPlace
    <3>8. ~Commented(Ahead) => from[m] = Ahead
      BY <3>5, <3>6 DEF PastComments
    <3> QED
      BY <3>2, <3>7, <3>8
  <2> QED
    BY <2>1, <2>2
<1>9. Begins = from[N]
  BY DEF Begins, PastComments, from
<1>10. ASSUME ~Commented(PastComments(Ahead)) PROVE \A n \in 1 .. N: from[n] = PastComments(Ahead)
  <2> DEFINE T == {n \in 1 .. N: from[n] # PastComments(Ahead)}
  <2>1. CASE T = {}
    BY <2>1
  <2>2. CASE T # {}
    <3>1. T \in SUBSET Nat
      BY <1>1
    <3>2. PICK m \in T: \A k \in T: m <= k
      BY <2>2, <3>1, Least
    <3>3. m \in 1 .. N /\ from[m] = PastComments(from[m - 1])
      BY <1>6, <3>2
    <3>4. m # 1
      BY <1>6, <3>2, <3>3
    <3>5. m - 1 \in 1 .. N /\ ~(m <= m - 1)
      BY <1>1, <3>3, <3>4
    <3>6. from[m - 1] = PastComments(Ahead)
      BY <3>2, <3>5
    <3>7. from[m] = PastComments(Ahead)
      BY <1>10, <3>3, <3>6 DEF PastComments
    <3> QED
      BY <3>2, <3>7
  <2> QED
    BY <2>1, <2>2
<1>11. Len(text) >= 1 /\ ~Commented(PastComments(Ahead)) => Begins = PastComments(Ahead)
  BY <1>1, <1>9, <1>10
<1> QED
  BY <1>1, <1>8, <1>9, <1>11

(* What is in the buffer: a cell for each letter of a token and its NUL.   *)
Short(ws) == ws \in Seq(Seq(Char)) /\ \A n \in 1 .. Len(ws): Len(ws[n]) < TokLen

LEMMA CellsFinite ==
  ASSUME NEW ws, Short(ws)
  PROVE  IsFiniteSet(BufferCells(ws))
<1>1. TokLen \in Nat /\ ws \in Seq(Seq(Char)) /\ Len(ws) \in Nat /\ DOMAIN ws = 1 .. Len(ws)
  BY TokensAssumption DEF TokensAssumption, Short
<1>2. IsFiniteSet(1 .. Len(ws)) /\ IsFiniteSet(0 .. TokLen)
  BY <1>1, FS_Interval
<1>3. IsFiniteSet((1 .. Len(ws)) \X (0 .. TokLen))
  BY <1>2, FS_Product
<1>4. BufferCells(ws) \in SUBSET ((1 .. Len(ws)) \X (0 .. TokLen))
  <2>1. ASSUME NEW z \in BufferCells(ws) PROVE z \in (1 .. Len(ws)) \X (0 .. TokLen)
    <3>1. PICK n \in 1 .. Len(ws): \E j \in 0 .. Len(ws[n]): z = <<n, j>>
      BY <1>1, <2>1 DEF BufferCells
    <3>2. ws[n] \in Seq(Char) /\ Len(ws[n]) < TokLen
      BY <1>1 DEF Short
    <3>3. Len(ws[n]) \in Nat
      BY <3>2
    <3>4. 0 .. Len(ws[n]) \subseteq 0 .. TokLen
      BY <1>1, <3>2, <3>3
    <3> QED
      BY <3>1, <3>4
  <2> QED
    BY <2>1
<1> QED
  BY <1>3, <1>4, FS_Subset

LEMMA SizeEmpty ==
  SizeOf(<<>>) = 0
<1>1. BufferCells(<<>>) = {}
  BY DEF BufferCells
<1> QED
  BY <1>1, FS_EmptySet DEF SizeOf

LEMMA SizeAppend ==
  ASSUME NEW ws, Short(ws), NEW w \in Seq(Char)
  PROVE  SizeOf(Append(ws, w)) = SizeOf(ws) + Len(w) + 1
<1> DEFINE m == Len(ws) + 1
           new == {m} \X (0 .. Len(w))
<1>1. ws \in Seq(Seq(Char)) /\ Len(ws) \in Nat /\ Len(w) \in Nat /\ DOMAIN ws = 1 .. Len(ws) /\ m \in Nat
  BY DEF Short
<1>2. DOMAIN Append(ws, w) = 1 .. m /\ Append(ws, w)[m] = w /\ \A n \in 1 .. Len(ws): Append(ws, w)[n] = ws[n]
  BY <1>1, AppendProperties
<1>3. BufferCells(Append(ws, w)) = BufferCells(ws) \cup new
  <2>1. ASSUME NEW z PROVE z \in BufferCells(Append(ws, w)) <=> z \in BufferCells(ws) \/ z \in new
    <3>1. z \in BufferCells(Append(ws, w)) <=> \E n \in 1 .. m: \E j \in 0 .. Len(Append(ws, w)[n]): z = <<n, j>>
      BY <1>2 DEF BufferCells
    <3>2. z \in BufferCells(ws) <=> \E n \in 1 .. Len(ws): \E j \in 0 .. Len(ws[n]): z = <<n, j>>
      BY <1>1 DEF BufferCells
    <3>3. z \in new <=> \E j \in 0 .. Len(w): z = <<m, j>>
      OBVIOUS
    <3>4. 1 .. m = (1 .. Len(ws)) \cup {m}
      BY <1>1
    <3> QED
      BY <1>2, <3>1, <3>2, <3>3, <3>4
  <2> QED
    BY <2>1
<1>4. BufferCells(ws) \cap new = {}
  <2>1. ASSUME NEW z \in BufferCells(ws) PROVE z \notin new
    <3>1. PICK n \in 1 .. Len(ws): \E j \in 0 .. Len(ws[n]): z = <<n, j>>
      BY <1>1, <2>1 DEF BufferCells
    <3>2. n # m
      BY <1>1
    <3> QED
      BY <3>1, <3>2
  <2> QED
    BY <2>1
<1>5. IsFiniteSet(new) /\ Cardinality(new) = Len(w) + 1
  <2>1. IsFiniteSet({m}) /\ Cardinality({m}) = 1
    BY FS_Singleton
  <2>2. IsFiniteSet(0 .. Len(w)) /\ Cardinality(0 .. Len(w)) = Len(w) + 1
    BY <1>1, FS_Interval
  <2>3. IsFiniteSet(new) /\ Cardinality(new) = 1 * (Len(w) + 1)
    BY <2>1, <2>2, FS_Product
  <2> QED
    BY <1>1, <2>3
<1> HIDE DEF new
<1>6. IsFiniteSet(BufferCells(ws))
  BY CellsFinite
<1>7. Cardinality(BufferCells(ws) \cup new) = Cardinality(BufferCells(ws)) + Cardinality(new) - Cardinality(BufferCells(ws) \cap new)
  BY <1>5, <1>6, FS_Union
<1>8. Cardinality(BufferCells(ws) \cap new) = 0
  BY <1>4, FS_EmptySet
<1>9. Cardinality(BufferCells(ws)) \in Nat
  BY <1>6, FS_CardinalityType
<1> QED
  BY <1>1, <1>3, <1>5, <1>7, <1>8, <1>9 DEF SizeOf

(* The first n words.                                                      *)
LEMMA FirstWords ==
  ASSUME NEW S, NEW ws \in Seq(S), NEW n \in 0 .. Len(ws)
  PROVE  /\ SubSeq(ws, 1, n) \in Seq(S) /\ Len(SubSeq(ws, 1, n)) = n
         /\ \A k \in 1 .. n: SubSeq(ws, 1, n)[k] = ws[k]
<1>1. Len(ws) \in Nat /\ n \in Nat /\ n <= Len(ws) /\ 1 \in Int
  OBVIOUS
<1>2. \A k \in 1 .. n: ws[k] \in S
  BY <1>1
<1>3. /\ SubSeq(ws, 1, n) \in Seq(S)
      /\ Len(SubSeq(ws, 1, n)) = IF 1 <= n THEN n - 1 + 1 ELSE 0
      /\ \A k \in 1 .. n - 1 + 1: SubSeq(ws, 1, n)[k] = ws[1 + k - 1]
  BY <1>1, <1>2, SubSeqProperties
<1>4. \A k \in 1 .. n: k \in 1 .. n - 1 + 1 /\ 1 + k - 1 = k
  BY <1>1
<1> QED
  BY <1>1, <1>3, <1>4

LEMMA FirstShort ==
  ASSUME NEW ws, Short(ws), NEW n \in 0 .. Len(ws)
  PROVE  Short(SubSeq(ws, 1, n))
<1>1. ws \in Seq(Seq(Char)) /\ \A k \in 1 .. n: k \in 1 .. Len(ws)
  BY DEF Short
<1>2. /\ SubSeq(ws, 1, n) \in Seq(Seq(Char)) /\ Len(SubSeq(ws, 1, n)) = n
      /\ \A k \in 1 .. n: SubSeq(ws, 1, n)[k] = ws[k]
  BY <1>1, FirstWords
<1> QED
  BY <1>1, <1>2 DEF Short

LEMMA NextWord ==
  ASSUME NEW S, NEW ws \in Seq(S), NEW n \in 0 .. Len(ws), n < Len(ws)
  PROVE  Append(SubSeq(ws, 1, n), ws[n + 1]) = SubSeq(ws, 1, n + 1)
<1>1. Len(ws) \in Nat /\ n \in Nat /\ n + 1 \in 0 .. Len(ws) /\ n + 1 \in 1 .. Len(ws)
  OBVIOUS
<1>2. /\ SubSeq(ws, 1, n) \in Seq(S) /\ Len(SubSeq(ws, 1, n)) = n
      /\ \A k \in 1 .. n: SubSeq(ws, 1, n)[k] = ws[k]
  BY FirstWords
<1>3. /\ SubSeq(ws, 1, n + 1) \in Seq(S) /\ Len(SubSeq(ws, 1, n + 1)) = n + 1
      /\ \A k \in 1 .. n + 1: SubSeq(ws, 1, n + 1)[k] = ws[k]
  BY <1>1, FirstWords
<1>4. ws[n + 1] \in S
  BY <1>1
<1>5. /\ Append(SubSeq(ws, 1, n), ws[n + 1]) \in Seq(S)
      /\ Len(Append(SubSeq(ws, 1, n), ws[n + 1])) = n + 1
      /\ \A k \in 1 .. n: Append(SubSeq(ws, 1, n), ws[n + 1])[k] = SubSeq(ws, 1, n)[k]
      /\ Append(SubSeq(ws, 1, n), ws[n + 1])[n + 1] = ws[n + 1]
  BY <1>2, <1>4, AppendProperties
<1>6. \A k \in 1 .. n + 1: Append(SubSeq(ws, 1, n), ws[n + 1])[k] = SubSeq(ws, 1, n + 1)[k]
  <2>1. \A k \in 1 .. n + 1: k \in 1 .. n \/ k = n + 1
    BY <1>1
  <2> QED
    BY <1>2, <1>3, <1>5, <2>1
<1> QED
  BY <1>3, <1>5, <1>6, SeqEqual

LEMMA SizeGrows ==
  ASSUME NEW ws, Short(ws), NEW n \in 0 .. Len(ws), NEW m \in 0 .. Len(ws), n <= m
  PROVE  SizeOf(SubSeq(ws, 1, n)) <= SizeOf(SubSeq(ws, 1, m))
<1>1. ws \in Seq(Seq(Char)) /\ \A k \in 1 .. n: k \in 1 .. m
  BY DEF Short
<1>2. /\ DOMAIN SubSeq(ws, 1, n) = 1 .. n /\ \A k \in 1 .. n: SubSeq(ws, 1, n)[k] = ws[k]
      /\ DOMAIN SubSeq(ws, 1, m) = 1 .. m /\ \A k \in 1 .. m: SubSeq(ws, 1, m)[k] = ws[k]
  BY <1>1, FirstWords
<1>3. BufferCells(SubSeq(ws, 1, n)) \in SUBSET BufferCells(SubSeq(ws, 1, m))
  <2>1. ASSUME NEW z \in BufferCells(SubSeq(ws, 1, n)) PROVE z \in BufferCells(SubSeq(ws, 1, m))
    <3>1. PICK k \in 1 .. n: \E j \in 0 .. Len(ws[k]): z = <<k, j>>
      BY <1>2, <2>1 DEF BufferCells
    <3>2. k \in 1 .. m /\ SubSeq(ws, 1, m)[k] = ws[k]
      BY <1>1, <1>2
    <3> QED
      BY <1>2, <3>1, <3>2 DEF BufferCells
  <2> QED
    BY <2>1
<1>4. IsFiniteSet(BufferCells(SubSeq(ws, 1, m)))
  BY FirstShort, CellsFinite
<1> QED
  BY <1>3, <1>4, FS_Subset DEF SizeOf

(* A word as it is written: in quotes, with no quote in it, or bare.       *)
InMarks(a, v) ==
  /\ Len(a) = Len(v) + 2 /\ a[1] = "quote" /\ a[Len(v) + 2] = "quote"
  /\ \A i \in 1 .. Len(v): v[i] # "quote" /\ a[i + 1] = v[i]

Unmarked(a, v) ==
  /\ a = v /\ Len(v) >= 1 /\ a[1] # "quote"
  /\ \A i \in 1 .. Len(a): a[i] \notin White
  /\ Len(a) >= 2 => ~(a[1] = "/" /\ a[2] = "/")

Wordy(a, v) == a \in Seq(Char) /\ v \in Seq(Char) /\ (InMarks(a, v) \/ Unmarked(a, v))

LEMMA MarkedIs ==
  ASSUME NEW v \in Seq(Char \ {"quote"})
  PROVE  Wordy(<<"quote">> \o v \o <<"quote">>, v)
<1> DEFINE w == <<"quote">> \o v \o <<"quote">>
<1>1. <<"quote">> \in Seq(Char) /\ v \in Seq(Char) /\ Len(v) \in Nat
  <2>1. "quote" \in Char
    BY DEF Char
  <2>2. \A i \in 1 .. Len(v): v[i] \in Char \ {"quote"}
    OBVIOUS
  <2> QED
    BY <2>1, <2>2
<1>2. /\ <<"quote">> \o v \in Seq(Char) /\ Len(<<"quote">> \o v) = 1 + Len(v)
      /\ \A i \in 1 .. 1 + Len(v): (<<"quote">> \o v)[i] = IF i <= 1 THEN <<"quote">>[i] ELSE v[i - 1]
  BY <1>1, ConcatProperties
<1>3. /\ w \in Seq(Char) /\ Len(w) = 1 + Len(v) + 1
      /\ \A i \in 1 .. 1 + Len(v) + 1:
           w[i] = IF i <= 1 + Len(v) THEN (<<"quote">> \o v)[i] ELSE <<"quote">>[i - (1 + Len(v))]
  BY <1>1, <1>2, ConcatProperties
<1> HIDE DEF w
<1>4. w[1] = "quote"
  <2>1. 1 \in 1 .. 1 + Len(v) + 1 /\ 1 \in 1 .. 1 + Len(v) /\ 1 <= 1 + Len(v)
    BY <1>1
  <2> QED
    BY <1>2, <1>3, <2>1
<1>5. w[Len(v) + 2] = "quote"
  <2>1. Len(v) + 2 \in 1 .. 1 + Len(v) + 1 /\ ~(Len(v) + 2 <= 1 + Len(v)) /\ Len(v) + 2 - (1 + Len(v)) = 1
    BY <1>1
  <2> QED
    BY <1>3, <2>1
<1>6. ASSUME NEW i \in 1 .. Len(v) PROVE v[i] # "quote" /\ w[i + 1] = v[i]
  <2>1. /\ i + 1 \in 1 .. 1 + Len(v) + 1 /\ i + 1 <= 1 + Len(v) /\ i + 1 \in 1 .. 1 + Len(v)
        /\ ~(i + 1 <= 1) /\ i + 1 - 1 = i
    BY <1>1
  <2>2. w[i + 1] = (<<"quote">> \o v)[i + 1] /\ (<<"quote">> \o v)[i + 1] = v[i + 1 - 1]
    BY <1>2, <1>3, <2>1
  <2>3. v[i] \in Char \ {"quote"}
    OBVIOUS
  <2> QED
    BY <2>1, <2>2, <2>3
<1>7. Len(w) = Len(v) + 2
  BY <1>1, <1>3
<1>8. InMarks(w, v)
  BY <1>4, <1>5, <1>6, <1>7 DEF InMarks
<1> QED
  BY <1>1, <1>3, <1>8 DEF Wordy, w

LEMMA BareIs ==
  ASSUME NEW w \in Bare
  PROVE  Wordy(w, w)
<1>1. PICK n \in 0 .. 2: w \in [1 .. n -> Char \ White]
  BY DEF Bare, TextsOf
<1>2. w # <<>> /\ w[1] # "quote" /\ w # <<"/", "/">>
  BY DEF Bare
<1>3. w \in Seq(Char \ White) /\ Len(w) = n
  BY <1>1
<1>4. n # 0
  BY <1>1, <1>2, <1>3
<1>5. \A i \in 1 .. Len(w): w[i] \in Char /\ w[i] \notin White
  BY <1>1, <1>3
<1>6. w \in Seq(Char)
  BY <1>3, <1>5
<1>7. ASSUME Len(w) >= 2, w[1] = "/", w[2] = "/" PROVE FALSE
  <2>1. n = 2
    BY <1>1, <1>3, <1>7
  <2>2. Len(<<"/", "/">>) = 2 /\ Len(w) = 2 /\ \A i \in 1 .. 2: w[i] = <<"/", "/">>[i]
    BY <1>3, <1>7, <2>1
  <2>3. <<"/", "/">> \in Seq(Char) /\ w \in Seq(Char)
    <3>1. "/" \in Char
      BY DEF Char
    <3> QED
      BY <1>6, <3>1
  <2>4. w = <<"/", "/">>
    BY <2>2, <2>3, SeqEqual
  <2> QED
    BY <1>2, <2>4
<1>8. Unmarked(w, w)
  BY <1>2, <1>3, <1>4, <1>5, <1>7 DEF Unmarked
<1> QED
  BY <1>6, <1>8 DEF Wordy

LEMMA WordIs ==
  ASSUME NEW w \in Word
  PROVE  Wordy(w.as, w.to)
<1>1. CASE \E v \in Bare: w = [as |-> v, to |-> v]
  BY <1>1, BareIs
<1>2. CASE \E v \in Enclosed: w = [as |-> <<"quote">> \o v \o <<"quote">>, to |-> v]
  <2>1. PICK v \in Enclosed: w = [as |-> <<"quote">> \o v \o <<"quote">>, to |-> v]
    BY <1>2
  <2>2. v \in Seq(Char \ {"quote"})
    <3>1. CASE v \in TextsOf({"a", "blank", "/"}, 1)
      <4>1. PICK n \in 0 .. 1: v \in [1 .. n -> {"a", "blank", "/"}]
        BY <3>1 DEF TextsOf
      <4>2. {"a", "blank", "/"} \subseteq Char \ {"quote"}
        BY DEF Char
      <4>3. v \in [1 .. n -> Char \ {"quote"}]
        BY <4>1, <4>2
      <4> QED
        BY <4>3
    <3>2. CASE v = <<"/", "/">>
      <4>1. "/" \in Char \ {"quote"}
        BY DEF Char
      <4> QED
        BY <3>2, <4>1
    <3>3. CASE v = <<"cr", "a">>
      <4>1. "cr" \in Char \ {"quote"} /\ "a" \in Char \ {"quote"}
        BY DEF Char
      <4> QED
        BY <3>3, <4>1
    <3> QED
      BY <3>1, <3>2, <3>3 DEF Enclosed
  <2> QED
    BY <2>1, <2>2, MarkedIs
<1> QED
  BY <1>1, <1>2 DEF Word

LEMMA BriefIs ==
  ASSUME NEW w \in Brief
  PROVE  Wordy(w.as, w.to)
<1>1. CASE w = [as |-> <<"a">>, to |-> <<"a">>]
  <2>1. "a" \in Char /\ "a" \notin White
    BY DEF Char, White
  <2>2. <<"a">> \in Seq(Char) /\ Len(<<"a">>) = 1 /\ <<"a">>[1] = "a"
    BY <2>1
  <2>3. Unmarked(w.as, w.to)
    BY <1>1, <2>1, <2>2 DEF Unmarked
  <2> QED
    BY <1>1, <2>2, <2>3 DEF Wordy
<1>2. CASE w = [as |-> <<"quote", "quote">>, to |-> <<>>]
  <2>1. "quote" \in Char
    BY DEF Char
  <2>2. <<"quote", "quote">> \in Seq(Char) /\ Len(<<"quote", "quote">>) = 2 /\ <<>> \in Seq(Char)
    BY <2>1
  <2>3. InMarks(w.as, w.to)
    BY <1>2 DEF InMarks
  <2> QED
    BY <1>2, <2>2, <2>3 DEF Wordy
<1> QED
  BY <1>1, <1>2 DEF Brief

Spaces(t, lo, hi) == \A p \in lo .. hi: t[p] = "blank"

(* From one end to the other there are spaces and then w.                  *)
Lies(t, w, lo, hi) ==
  \E b \in lo .. hi:
    /\ b + Len(w) = hi
    /\ Spaces(t, lo, b - 1)
    /\ \A i \in 1 .. Len(w): t[b + i - 1] = w[i]

(* The text t begins with the words ws, written as in A and ending in      *)
(* front of E.                                                             *)
Spelled(t, ws, A, E) ==
  /\ t \in Seq(Char) /\ ws \in Seq(Seq(Char))
  /\ E \in [0 .. Len(ws) -> 1 .. Len(t) + 1] /\ E[0] = 1
  /\ \A k \in 1 .. Len(ws): Wordy(A[k], ws[k]) /\ Lies(t, A[k], E[k - 1], E[k])
  /\ \A k \in 1 .. Len(ws) - 1: E[k] \in 1 .. Len(t) /\ t[E[k]] = "blank"

(* Behind them there are spaces, and then the end of the line.             *)
Ended(t, e) ==
  \E q \in e .. Len(t) + 1: (q <= Len(t) => t[q] = "cr") /\ Spaces(t, e, q - 1)

(* Or there are spaces, and what makes the command be dropped: a quote     *)
(* that is not closed, a comment to the end of it, a word that is too long.*)
UnclosedAt(t, q) == t[q] = "quote" /\ \A r \in q + 1 .. Len(t): t[r] # "quote"
CommentAt(t, q) ==
  /\ q + 1 <= Len(t) /\ t[q] = "/" /\ t[q + 1] = "/"
  /\ \E c \in q .. Len(t) + 1:
       /\ c <= Len(t) => t[c] = "cr"
       /\ \A r \in q .. c - 1: t[r] # "cr"
       /\ \A r \in c .. Len(t): t[r] \in White
TooLongAt(t, q) ==
  /\ q + TokLen - 1 <= Len(t) /\ t[q] \notin {"quote", "/"}
  /\ \A r \in q .. q + TokLen - 1: t[r] \notin White
Spoilt(t, e) ==
  \E q \in e + 1 .. Len(t):
    /\ Spaces(t, e, q - 1)
    /\ UnclosedAt(t, q) \/ CommentAt(t, q) \/ TooLongAt(t, q)
Closed(t, e, spoilt) == IF spoilt THEN Spoilt(t, e) ELSE Ended(t, e)

LEMMA LiesLonger ==
  ASSUME NEW t \in Seq(Char), NEW s \in Seq(Char), NEW w \in Seq(Char),
         NEW lo \in 1 .. Len(t) + 1, NEW hi \in 1 .. Len(t) + 1, Lies(t, w, lo, hi)
  PROVE  Lies(t \o s, w, lo, hi)
<1>1. Len(t) \in Nat /\ Len(w) \in Nat /\ lo \in Nat \ {0} /\ hi \in Nat /\ hi <= Len(t) + 1
  OBVIOUS
<1>2. \A i \in 1 .. Len(t): (t \o s)[i] = t[i]
  <2>1. \A i \in 1 .. Len(t) + Len(s): (t \o s)[i] = IF i <= Len(t) THEN t[i] ELSE s[i - Len(t)]
    BY ConcatProperties
  <2>2. Len(s) \in Nat
    OBVIOUS
  <2>3. \A i \in 1 .. Len(t): i \in 1 .. Len(t) + Len(s) /\ i <= Len(t)
    BY <1>1, <2>2
  <2> QED
    BY <2>1, <2>3
<1>3. PICK b \in lo .. hi:
        /\ b + Len(w) = hi
        /\ Spaces(t, lo, b - 1)
        /\ \A i \in 1 .. Len(w): t[b + i - 1] = w[i]
  BY DEF Lies
<1>4. ASSUME NEW p \in lo .. b - 1 PROVE (t \o s)[p] = "blank"
  <2>1. b \in Nat /\ b <= Len(t) + 1
    BY <1>1, <1>3
  <2>2. p \in 1 .. Len(t)
    BY <1>1, <2>1
  <2>3. t[p] = "blank"
    BY <1>3 DEF Spaces
  <2> QED
    BY <1>2, <2>2, <2>3
<1>5. ASSUME NEW i \in 1 .. Len(w) PROVE (t \o s)[b + i - 1] = w[i]
  <2>1. b \in Nat \ {0} /\ b + Len(w) = hi
    BY <1>1, <1>3
  <2>2. b + i - 1 \in 1 .. Len(t)
    BY <1>1, <2>1
  <2> QED
    BY <1>2, <1>3, <2>2
<1>6. Spaces(t \o s, lo, b - 1)
  BY <1>4 DEF Spaces
<1> QED
  BY <1>3, <1>5, <1>6 DEF Lies

(* A word written at the end of a text, behind spaces.                     *)
LEMMA LiesLast ==
  ASSUME NEW t \in Seq(Char), NEW w \in Seq(Char), NEW lo \in 1 .. Len(t) + 1,
         Spaces(t, lo, Len(t))
  PROVE  Lies(t \o w, w, lo, Len(t \o w) + 1)
<1>1. Len(t) \in Nat /\ Len(w) \in Nat /\ lo \in Nat \ {0} /\ lo <= Len(t) + 1
  OBVIOUS
<1>2. /\ Len(t \o w) = Len(t) + Len(w)
      /\ \A i \in 1 .. Len(t) + Len(w): (t \o w)[i] = IF i <= Len(t) THEN t[i] ELSE w[i - Len(t)]
  BY ConcatProperties
<1>3. Len(t) + 1 \in lo .. Len(t) + Len(w) + 1
  BY <1>1
<1>4. Spaces(t \o w, lo, Len(t) + 1 - 1)
  <2>1. ASSUME NEW p \in lo .. Len(t) PROVE (t \o w)[p] = "blank"
    <3>1. p \in 1 .. Len(t) + Len(w) /\ p <= Len(t)
      BY <1>1
    <3>2. t[p] = "blank"
      BY DEF Spaces
    <3> QED
      BY <1>2, <3>1, <3>2
  <2>2. Len(t) + 1 - 1 = Len(t)
    BY <1>1
  <2>3. Spaces(t \o w, lo, Len(t))
    BY <2>1 DEF Spaces
  <2> QED
    BY <2>2, <2>3
<1>5. ASSUME NEW i \in 1 .. Len(w) PROVE (t \o w)[Len(t) + 1 + i - 1] = w[i]
  <2>1. /\ Len(t) + 1 + i - 1 \in 1 .. Len(t) + Len(w) /\ ~(Len(t) + 1 + i - 1 <= Len(t))
        /\ Len(t) + 1 + i - 1 - Len(t) = i
    BY <1>1
  <2> QED
    BY <1>2, <2>1
<1>6. Len(t) + 1 + Len(w) = Len(t) + Len(w) + 1
  BY <1>1
<1>7. Lies(t \o w, w, lo, Len(t) + Len(w) + 1)
  BY <1>3, <1>4, <1>5, <1>6 DEF Lies
<1>8. Len(t \o w) + 1 = Len(t) + Len(w) + 1
  BY <1>2
<1> QED
  BY <1>7, <1>8, Zenon

Ends(t, ws) == \E A, E: Spelled(t, ws, A, E) /\ E[Len(ws)] = Len(t) + 1

(* The first word of a line.                                               *)
LEMMA EndsFirst ==
  ASSUME NEW t \in Seq(Char), Spaces(t, 1, Len(t)), NEW w, NEW v, Wordy(w, v)
  PROVE  Ends(t \o w, <<v>>)
<1> DEFINE A == [k \in 1 .. 1 |-> w]
           E == [k \in 0 .. 1 |-> IF k = 0 THEN 1 ELSE Len(t \o w) + 1]
<1>1. w \in Seq(Char) /\ v \in Seq(Char)
  BY DEF Wordy
<1>2. <<v>> \in Seq(Seq(Char)) /\ Len(<<v>>) = 1 /\ <<v>>[1] = v
  BY <1>1
<1>3. t \o w \in Seq(Char) /\ Len(t \o w) \in Nat
  <2>1. t \o w \in Seq(Char)
    BY <1>1, ConcatProperties
  <2> QED
    BY <2>1, LenProperties
<1>4. Lies(t \o w, w, 1, Len(t \o w) + 1)
  <2>1. 1 \in 1 .. Len(t) + 1
    <3>1. Len(t) \in Nat
      BY LenProperties
    <3> QED
      BY <3>1
  <2> QED
    BY <1>1, <2>1, LiesLast
<1>5. E[0] = 1 /\ E[1] = Len(t \o w) + 1 /\ A[1] = w
  <2>1. 0 \in 0 .. 1 /\ 1 \in 0 .. 1 /\ 1 \in 1 .. 1 /\ 1 # 0
    OBVIOUS
  <2> QED
    BY <2>1, Zenon
<1>6. E \in [0 .. 1 -> 1 .. Len(t \o w) + 1]
  <2>1. 1 \in 1 .. Len(t \o w) + 1 /\ Len(t \o w) + 1 \in 1 .. Len(t \o w) + 1
    BY <1>3
  <2> QED
    BY <2>1
<1> HIDE DEF A, E
<1>7. ASSUME NEW k \in 1 .. Len(<<v>>)
      PROVE  Wordy(A[k], <<v>>[k]) /\ Lies(t \o w, A[k], E[k - 1], E[k])
  <2>1. k = 1 /\ k - 1 = 0
    BY <1>2
  <2>2. Wordy(A[k], <<v>>[k])
    BY <1>2, <1>5, <2>1
  <2>3. Lies(t \o w, A[k], E[k - 1], E[k])
    BY <1>4, <1>5, <2>1
  <2> QED
    BY <2>2, <2>3
<1>8. \A k \in 1 .. Len(<<v>>) - 1: FALSE
  BY <1>2
<1>9. E \in [0 .. Len(<<v>>) -> 1 .. Len(t \o w) + 1]
  BY <1>2, <1>6
<1>10. Spelled(t \o w, <<v>>, A, E)
  BY <1>2, <1>3, <1>5, <1>7, <1>8, <1>9 DEF Spelled
<1>11. E[Len(<<v>>)] = Len(t \o w) + 1
  BY <1>2, <1>5
<1> QED
  BY <1>10, <1>11 DEF Ends

(* And the next one.                                                       *)
LEMMA SpaceIs ==
  <<"blank">> \in Seq(Char) /\ Len(<<"blank">>) = 1 /\ <<"blank">>[1] = "blank"
<1>1. "blank" \in Char
  BY DEF Char
<1> QED
  BY <1>1

LEMMA SpaceBehind ==
  ASSUME NEW t \in Seq(Char)
  PROVE  /\ t \o <<"blank">> \in Seq(Char) /\ Len(t \o <<"blank">>) = Len(t) + 1
         /\ (t \o <<"blank">>)[Len(t) + 1] = "blank"
         /\ \A i \in 1 .. Len(t): (t \o <<"blank">>)[i] = t[i]
         /\ Spaces(t \o <<"blank">>, Len(t) + 1, Len(t) + 1)
<1>1. Len(t) \in Nat
  BY LenProperties
<1>2. /\ t \o <<"blank">> \in Seq(Char) /\ Len(t \o <<"blank">>) = Len(t) + Len(<<"blank">>)
      /\ \A i \in 1 .. Len(t) + Len(<<"blank">>): (t \o <<"blank">>)[i] = IF i <= Len(t) THEN t[i] ELSE <<"blank">>[i - Len(t)]
  BY SpaceIs, ConcatProperties
<1>3. \A i \in 1 .. Len(t) + 1: (t \o <<"blank">>)[i] = IF i <= Len(t) THEN t[i] ELSE <<"blank">>[i - Len(t)]
  BY <1>2, SpaceIs
<1>4. (t \o <<"blank">>)[Len(t) + 1] = "blank"
  <2>1. Len(t) + 1 \in 1 .. Len(t) + 1 /\ ~(Len(t) + 1 <= Len(t)) /\ Len(t) + 1 - Len(t) = 1
    BY <1>1
  <2> QED
    BY <1>3, <2>1, SpaceIs
<1>5. \A i \in 1 .. Len(t): (t \o <<"blank">>)[i] = t[i]
  <2>1. \A i \in 1 .. Len(t): i \in 1 .. Len(t) + 1 /\ i <= Len(t)
    BY <1>1
  <2> QED
    BY <1>3, <2>1
<1>6. Spaces(t \o <<"blank">>, Len(t) + 1, Len(t) + 1)
  <2>1. \A p \in Len(t) + 1 .. Len(t) + 1: p = Len(t) + 1
    BY <1>1
  <2> QED
    BY <1>4, <2>1 DEF Spaces
<1>7. Len(t \o <<"blank">>) = Len(t) + 1
  BY <1>2, SpaceIs
<1> QED
  BY <1>2, <1>4, <1>5, <1>6, <1>7

Begun(t, u) == \A i \in 1 .. Len(t): u[i] = t[i]

LEMMA WordBehind ==
  ASSUME NEW t \in Seq(Char), NEW w \in Seq(Char), NEW u, u = t \o <<"blank">> \o w
  PROVE  /\ u \in Seq(Char) /\ Len(u) \in Nat /\ Len(t) + 1 <= Len(u)
         /\ u[Len(t) + 1] = "blank" /\ Begun(t, u)
         /\ Lies(u, w, Len(t) + 1, Len(u) + 1)
<1>1. Len(t) \in Nat /\ Len(w) \in Nat
  BY LenProperties
<1>2. PICK s \in Seq(Char): s = t \o <<"blank">>
  BY SpaceBehind
<1>3. Len(s) = Len(t) + 1 /\ s[Len(t) + 1] = "blank" /\ \A i \in 1 .. Len(t): s[i] = t[i]
  BY <1>2, SpaceBehind
<1>4. Spaces(s, Len(t) + 1, Len(s))
  BY <1>2, <1>3, SpaceBehind
<1>5. /\ s \o w \in Seq(Char) /\ Len(s \o w) = Len(s) + Len(w)
      /\ \A i \in 1 .. Len(s) + Len(w): (s \o w)[i] = IF i <= Len(s) THEN s[i] ELSE w[i - Len(s)]
  BY ConcatProperties
<1>6. u = s \o w
  BY <1>2
<1>7. /\ u \in Seq(Char) /\ Len(u) = Len(t) + 1 + Len(w)
      /\ \A i \in 1 .. Len(t) + 1 + Len(w): u[i] = IF i <= Len(t) + 1 THEN s[i] ELSE w[i - (Len(t) + 1)]
  BY <1>3, <1>5, <1>6
<1>8. u[Len(t) + 1] = "blank"
  <2>1. Len(t) + 1 \in 1 .. Len(t) + 1 + Len(w) /\ Len(t) + 1 <= Len(t) + 1
    BY <1>1
  <2> QED
    BY <1>3, <1>7, <2>1
<1>9. \A i \in 1 .. Len(t): u[i] = t[i]
  <2>1. \A i \in 1 .. Len(t): i \in 1 .. Len(t) + 1 + Len(w) /\ i <= Len(t) + 1
    BY <1>1
  <2> QED
    BY <1>3, <1>7, <2>1
<1>10. Lies(u, w, Len(t) + 1, Len(u) + 1)
  <2>1. Len(t) + 1 \in 1 .. Len(s) + 1
    BY <1>1, <1>3
  <2>2. Lies(s \o w, w, Len(t) + 1, Len(s \o w) + 1)
    BY <1>2, <1>4, <2>1, LiesLast
  <2> QED
    BY <1>6, <2>2
<1> QED
  BY <1>1, <1>7, <1>8, <1>9, <1>10 DEF Begun

LEMMA LiesBehind ==
  ASSUME NEW t \in Seq(Char), NEW w \in Seq(Char), NEW u, u = t \o <<"blank">> \o w, NEW v \in Seq(Char),
         NEW lo \in 1 .. Len(t) + 1, NEW hi \in 1 .. Len(t) + 1, Lies(t, v, lo, hi)
  PROVE  Lies(u, v, lo, hi)
<1>1. Len(t) \in Nat
  BY LenProperties
<1>2. PICK s \in Seq(Char): s = t \o <<"blank">>
  BY SpaceBehind
<1>3. Len(s) = Len(t) + 1
  BY <1>2, SpaceBehind
<1>4. Lies(s, v, lo, hi)
  BY <1>2, SpaceIs, LiesLonger
<1>5. lo \in 1 .. Len(s) + 1 /\ hi \in 1 .. Len(s) + 1
  BY <1>1, <1>3
<1>6. Lies(s \o w, v, lo, hi)
  BY <1>2, <1>4, <1>5, LiesLonger
<1> QED
  BY <1>2, <1>6

LEMMA EndsNext ==
  ASSUME NEW t, NEW ws, Len(ws) \in Nat \ {0}, Ends(t, ws), NEW w, NEW v, Wordy(w, v)
  PROVE  Ends(t \o <<"blank">> \o w, Append(ws, v))
<1>1. PICK A, E: Spelled(t, ws, A, E) /\ E[Len(ws)] = Len(t) + 1
  BY DEF Ends
<1>2. PICK n \in Nat \ {0}: n = Len(ws)
  OBVIOUS
<1>3. /\ t \in Seq(Char) /\ ws \in Seq(Seq(Char))
      /\ E \in [0 .. n -> 1 .. Len(t) + 1] /\ E[0] = 1
      /\ \A k \in 1 .. n: Wordy(A[k], ws[k]) /\ Lies(t, A[k], E[k - 1], E[k])
      /\ \A k \in 1 .. n - 1: E[k] \in 1 .. Len(t) /\ t[E[k]] = "blank"
  BY <1>1, <1>2 DEF Spelled
<1>4. w \in Seq(Char) /\ v \in Seq(Char)
  BY DEF Wordy
<1>5. PICK u: u = t \o <<"blank">> \o w
  OBVIOUS
<1>6. u \in Seq(Char) /\ Len(u) \in Nat /\ Len(t) + 1 <= Len(u)
  BY <1>3, <1>4, <1>5, WordBehind
<1>7. u[Len(t) + 1] = "blank" /\ \A i \in 1 .. Len(t): u[i] = t[i]
  <2>1. u[Len(t) + 1] = "blank" /\ Begun(t, u)
    BY <1>3, <1>4, <1>5, WordBehind
  <2> QED
    BY <2>1 DEF Begun
<1>8. Lies(u, w, Len(t) + 1, Len(u) + 1)
  BY <1>3, <1>4, <1>5, WordBehind
<1>9. Len(t) \in Nat
  BY <1>3, LenProperties
<1>10. E[n] = Len(t) + 1
  BY <1>1, <1>2
<1>11. /\ Append(ws, v) \in Seq(Seq(Char)) /\ Len(Append(ws, v)) = n + 1
       /\ \A k \in 1 .. n: Append(ws, v)[k] = ws[k]
       /\ Append(ws, v)[n + 1] = v
  BY <1>2, <1>3, <1>4, AppendProperties
<1> DEFINE B == [k \in 1 .. n + 1 |-> IF k <= n THEN A[k] ELSE w]
           F == [k \in 0 .. n + 1 |-> IF k <= n THEN E[k] ELSE Len(u) + 1]
<1>12. \A k \in 0 .. n: F[k] = E[k]
  <2>1. \A k \in 0 .. n: k \in 0 .. n + 1 /\ k <= n
    BY <1>2
  <2> QED
    BY <2>1
<1>13. F[n + 1] = Len(u) + 1 /\ B[n + 1] = w
  <2>1. n + 1 \in 0 .. n + 1 /\ n + 1 \in 1 .. n + 1 /\ ~(n + 1 <= n)
    BY <1>2
  <2> QED
    BY <2>1
<1>14. \A k \in 1 .. n: B[k] = A[k]
  <2>1. \A k \in 1 .. n: k \in 1 .. n + 1 /\ k <= n
    BY <1>2
  <2> QED
    BY <2>1
<1>15. F \in [0 .. n + 1 -> 1 .. Len(u) + 1]
  <2>1. Len(u) + 1 \in 1 .. Len(u) + 1 /\ \A e \in 1 .. Len(t) + 1: e \in 1 .. Len(u) + 1
    BY <1>6, <1>9
  <2>2. \A k \in 0 .. n + 1: k <= n => k \in 0 .. n
    BY <1>2
  <2>3. \A k \in 0 .. n: E[k] \in 1 .. Len(u) + 1
    BY <1>3, <2>1
  <2> QED
    BY <2>1, <2>2, <2>3
<1> HIDE DEF F, B
<1>17. ASSUME NEW k \in 1 .. n
       PROVE  Wordy(B[k], Append(ws, v)[k]) /\ Lies(u, B[k], F[k - 1], F[k])
  <2>1. k - 1 \in 0 .. n /\ k \in 0 .. n
    BY <1>2
  <2>2. Wordy(A[k], ws[k]) /\ Lies(t, A[k], E[k - 1], E[k])
    BY <1>3
  <2>3. A[k] \in Seq(Char)
    BY <2>2 DEF Wordy
  <2>4. E[k - 1] \in 1 .. Len(t) + 1 /\ E[k] \in 1 .. Len(t) + 1
    BY <1>3, <2>1
  <2>5. Lies(u, A[k], E[k - 1], E[k])
    BY <1>3, <1>4, <1>5, <2>2, <2>3, <2>4, LiesBehind
  <2>6. F[k - 1] = E[k - 1] /\ F[k] = E[k] /\ B[k] = A[k] /\ Append(ws, v)[k] = ws[k]
    BY <1>11, <1>12, <1>14, <2>1
  <2> QED
    BY <2>2, <2>5, <2>6
<1>19. ASSUME NEW k \in 1 .. n + 1
       PROVE  Wordy(B[k], Append(ws, v)[k]) /\ Lies(u, B[k], F[k - 1], F[k])
  <2>1. k \in 1 .. n \/ k = n + 1
    BY <1>2
  <2>2. CASE k \in 1 .. n
    BY <1>17, <2>2
  <2>3. CASE k = n + 1
    <3>1. k - 1 = n /\ n \in 0 .. n
      BY <1>2, <2>3
    <3>2. F[k - 1] = Len(t) + 1
      BY <1>10, <1>12, <3>1
    <3>3. F[k] = Len(u) + 1 /\ B[k] = w /\ Append(ws, v)[k] = v
      BY <1>11, <1>13, <2>3
    <3> QED
      BY <1>8, <3>2, <3>3
  <2> QED
    BY <2>1, <2>2, <2>3
<1>20. ASSUME NEW k \in 1 .. n + 1 - 1 PROVE F[k] \in 1 .. Len(u) /\ u[F[k]] = "blank"
  <2>1. k \in 0 .. n /\ (k = n \/ k \in 1 .. n - 1) /\ k \in 1 .. n /\ n \in 0 .. n
    BY <1>2
  <2>2. F[k] = E[k] /\ E[k] \in 1 .. Len(t) + 1
    BY <1>3, <1>12, <2>1
  <2>3. CASE k = n
    <3>1. Len(t) + 1 \in 1 .. Len(u)
      BY <1>6, <1>9
    <3> QED
      BY <1>7, <1>10, <2>2, <2>3, <3>1
  <2>4. CASE k \in 1 .. n - 1
    <3>1. t[E[k]] = "blank"
      BY <1>3, <2>4
    <3>2. E[k] \in 1 .. Len(t) /\ E[k] \in 1 .. Len(u)
      BY <1>3, <1>6, <1>9, <2>4
    <3> QED
      BY <1>7, <2>2, <3>1, <3>2
  <2> QED
    BY <2>1, <2>3, <2>4
<1>21. F[0] = 1
  <2>1. 0 \in 0 .. n
    BY <1>2
  <2> QED
    BY <1>3, <1>12, <2>1
<1>22. Spelled(u, Append(ws, v), B, F)
  <2>1. F \in [0 .. Len(Append(ws, v)) -> 1 .. Len(u) + 1]
    BY <1>11, <1>15
  <2>2. \A k \in 1 .. Len(Append(ws, v)): Wordy(B[k], Append(ws, v)[k]) /\ Lies(u, B[k], F[k - 1], F[k])
    BY <1>11, <1>19
  <2>3. \A k \in 1 .. Len(Append(ws, v)) - 1: F[k] \in 1 .. Len(u) /\ u[F[k]] = "blank"
    BY <1>11, <1>20
  <2> QED
    BY <1>6, <1>11, <1>21, <2>1, <2>2, <2>3 DEF Spelled
<1>23. F[Len(Append(ws, v))] = Len(u) + 1
  BY <1>11, <1>13
<1> QED
  BY <1>5, <1>22, <1>23 DEF Ends

Written(t, ws, spoilt) == \E A, E: Spelled(t, ws, A, E) /\ Closed(t, E[Len(ws)], spoilt)

(* What stands behind the words.                                           *)
LEMMA AfterIs ==
  ASSUME NEW t \in Seq(Char), NEW e \in Trailing
  PROVE  e \in Seq(Char) /\ Ended(t \o e, Len(t) + 1)
<1>1. "blank" \in Char /\ "cr" \in Char /\ "a" \in Char
  BY DEF Char
<1>2. Len(t) \in Nat
  BY LenProperties
<1>3. CASE e = <<>>
  <2>1. e \in Seq(Char) /\ t \o e = t
    BY <1>3, ConcatEmptySeq
  <2>2. Len(t) + 1 \in Len(t) + 1 .. Len(t) + 1 /\ ~(Len(t) + 1 <= Len(t))
    BY <1>2
  <2>3. Spaces(t, Len(t) + 1, Len(t) + 1 - 1)
    BY <1>2 DEF Spaces
  <2>4. Ended(t, Len(t) + 1)
    BY <2>2, <2>3 DEF Ended
  <2> QED
    BY <2>1, <2>4
<1>4. CASE e = <<"blank">>
  <2>1. PICK u: u = t \o e
    OBVIOUS
  <2>2. e \in Seq(Char) /\ u \in Seq(Char) /\ Len(u) = Len(t) + 1 /\ Spaces(u, Len(t) + 1, Len(t) + 1)
    BY <1>4, <2>1, SpaceIs, SpaceBehind
  <2>3. Len(t) + 2 \in Len(t) + 1 .. Len(u) + 1 /\ ~(Len(t) + 2 <= Len(u)) /\ Len(t) + 2 - 1 = Len(t) + 1
    BY <1>2, <2>2
  <2>4. Ended(u, Len(t) + 1)
    BY <2>2, <2>3 DEF Ended
  <2> QED
    BY <2>1, <2>2, <2>4
<1>5. CASE e \in {<<"cr">>, <<"cr", "a">>}
  <2>1. e \in Seq(Char) /\ Len(e) \in Nat \ {0} /\ e[1] = "cr"
    <3>1. CASE e = <<"cr">>
      BY <1>1, <3>1
    <3>2. CASE e = <<"cr", "a">>
      BY <1>1, <3>2
    <3> QED
      BY <1>5, <3>1, <3>2
  <2>2. PICK u: u = t \o e
    OBVIOUS
  <2>3. /\ Len(u) = Len(t) + Len(e)
        /\ \A i \in 1 .. Len(t) + Len(e): u[i] = IF i <= Len(t) THEN t[i] ELSE e[i - Len(t)]
    BY <2>1, <2>2, ConcatProperties
  <2>4. /\ Len(t) + 1 \in 1 .. Len(t) + Len(e) /\ ~(Len(t) + 1 <= Len(t)) /\ Len(t) + 1 - Len(t) = 1
        /\ Len(t) + 1 \in Len(t) + 1 .. Len(t) + Len(e) + 1
    BY <1>2, <2>1
  <2>5. u[Len(t) + 1] = "cr" /\ Len(t) + 1 \in Len(t) + 1 .. Len(u) + 1
    BY <2>1, <2>3, <2>4
  <2>6. Spaces(u, Len(t) + 1, Len(t) + 1 - 1)
    BY <1>2 DEF Spaces
  <2>7. Ended(u, Len(t) + 1)
    BY <2>5, <2>6 DEF Ended
  <2> QED
    BY <2>1, <2>2, <2>7
<1> QED
  BY <1>3, <1>4, <1>5 DEF Trailing

(* And what spoils it.                                                     *)
LEMMA SpoilsLater ==
  ASSUME NEW t \in Seq(Char), NEW e \in Seq(Char), Spoilt(e, 1)
  PROVE  Spoilt(t \o e, Len(t) + 1)
<1>1. PICK u: u = t \o e
  OBVIOUS
<1>2. PICK n \in Nat: n = Len(t)
  BY LenProperties
<1>3. PICK m \in Nat: m = Len(e)
  BY LenProperties
<1>4. /\ Len(u) = n + m
      /\ \A i \in 1 .. n + m: u[i] = IF i <= n THEN t[i] ELSE e[i - n]
  BY <1>1, <1>2, <1>3, ConcatProperties
<1>5. \A i \in 1 .. m: u[n + i] = e[i]
  <2>1. \A i \in 1 .. m: n + i \in 1 .. n + m /\ ~(n + i <= n) /\ n + i - n = i
    OBVIOUS
  <2> QED
    BY <1>4, <2>1
<1>6. PICK q \in 2 .. m: Spaces(e, 1, q - 1) /\ (UnclosedAt(e, q) \/ CommentAt(e, q) \/ TooLongAt(e, q))
  BY <1>3 DEF Spoilt
<1>7. \A r \in n + 1 .. n + m: r - n \in 1 .. m /\ u[r] = e[r - n]
  <2>1. \A r \in n + 1 .. n + m: r - n \in 1 .. m /\ n + (r - n) = r
    OBVIOUS
  <2> QED
    BY <1>5, <2>1
<1>8. n + q \in n + 2 .. n + m /\ u[n + q] = e[q]
  BY <1>5
<1>9. Spaces(u, n + 1, n + q - 1)
  <2>1. ASSUME NEW r \in n + 1 .. n + q - 1 PROVE u[r] = "blank"
    <3>1. r \in n + 1 .. n + m /\ r - n \in 1 .. q - 1
      OBVIOUS
    <3> QED
      BY <1>6, <1>7, <3>1 DEF Spaces
  <2> QED
    BY <2>1 DEF Spaces
<1>10. ASSUME UnclosedAt(e, q) PROVE UnclosedAt(u, n + q)
  <2>1. ASSUME NEW r \in n + q + 1 .. n + m PROVE u[r] # "quote"
    <3>1. r \in n + 1 .. n + m /\ r - n \in q + 1 .. m
      OBVIOUS
    <3> QED
      BY <1>3, <1>7, <1>10, <3>1 DEF UnclosedAt
  <2> QED
    BY <1>4, <1>8, <1>10, <2>1 DEF UnclosedAt
<1>11. ASSUME CommentAt(e, q) PROVE CommentAt(u, n + q)
  <2>1. PICK c \in q .. m + 1:
          /\ c <= m => e[c] = "cr"
          /\ \A r \in q .. c - 1: e[r] # "cr"
          /\ \A r \in c .. m: e[r] \in White
    BY <1>3, <1>11 DEF CommentAt
  <2>2. q + 1 <= m /\ e[q] = "/" /\ e[q + 1] = "/"
    BY <1>3, <1>11 DEF CommentAt
  <2>3. n + q + 1 <= n + m /\ u[n + q + 1] = "/"
    <3>1. q + 1 \in 1 .. m /\ n + q + 1 = n + (q + 1)
      BY <2>2
    <3>2. u[n + (q + 1)] = e[q + 1]
      BY <1>5, <3>1
    <3> QED
      BY <2>2, <3>1, <3>2
  <2>4. n + c \in n + q .. n + m + 1 /\ (n + c <= n + m => u[n + c] = "cr")
    <3>1. n + c <= n + m => c \in 1 .. m
      OBVIOUS
    <3> QED
      BY <1>5, <2>1, <3>1
  <2>5. ASSUME NEW r \in n + q .. n + c - 1 PROVE u[r] # "cr"
    <3>1. r \in n + 1 .. n + m /\ r - n \in q .. c - 1
      OBVIOUS
    <3> QED
      BY <1>7, <2>1, <3>1
  <2>6. ASSUME NEW r \in n + c .. n + m PROVE u[r] \in White
    <3>1. r \in n + 1 .. n + m /\ r - n \in c .. m
      OBVIOUS
    <3> QED
      BY <1>7, <2>1, <3>1
  <2>7. Len(u) = n + m /\ Len(u) + 1 = n + m + 1
    BY <1>4
  <2>8. n + q + 1 <= Len(u) /\ u[n + q] = "/" /\ u[n + q + 1] = "/"
    BY <1>8, <2>2, <2>3, <2>7
  <2>9. \E d \in n + q .. n + m + 1:
          /\ d <= n + m => u[d] = "cr"
          /\ \A r \in n + q .. d - 1: u[r] # "cr"
          /\ \A r \in d .. n + m: u[r] \in White
    <3>1. PICK d \in Int: d = n + c
      OBVIOUS
    <3>2. \A r \in n + q .. d - 1: u[r] # "cr"
      BY <2>5, <3>1
    <3>3. \A r \in d .. n + m: u[r] \in White
      BY <2>6, <3>1
    <3>4. d \in n + q .. n + m + 1 /\ (d <= n + m => u[d] = "cr")
      BY <2>4, <3>1
    <3> QED
      BY <3>2, <3>3, <3>4
  <2> QED
    BY <2>7, <2>8, <2>9 DEF CommentAt
<1>12. ASSUME TooLongAt(e, q) PROVE TooLongAt(u, n + q)
  <2>0. TokLen \in Nat \ {0}
    BY TokensAssumption DEF TokensAssumption
  <2>1. q + TokLen - 1 <= m /\ e[q] \notin {"quote", "/"} /\ \A r \in q .. q + TokLen - 1: e[r] \notin White
    BY <1>3, <1>12 DEF TooLongAt
  <2>2. ASSUME NEW r \in n + q .. n + q + TokLen - 1 PROVE u[r] \notin White
    <3>1. r \in n + 1 .. n + m /\ r - n \in q .. q + TokLen - 1
      BY <2>0, <2>1
    <3> QED
      BY <1>7, <2>1, <3>1
  <2>3. n + q + TokLen - 1 <= n + m
    BY <2>0, <2>1
  <2> QED
    BY <1>4, <1>8, <2>1, <2>2, <2>3 DEF TooLongAt
<1>13. UnclosedAt(u, n + q) \/ CommentAt(u, n + q) \/ TooLongAt(u, n + q)
  <2>1. CASE UnclosedAt(e, q)
    BY <1>10, <2>1
  <2>2. CASE CommentAt(e, q)
    BY <1>11, <2>2
  <2>3. CASE TooLongAt(e, q)
    BY <1>12, <2>3
  <2> QED
    BY <1>6, <2>1, <2>2, <2>3
<1>14. n + q \in n + 1 + 1 .. Len(u)
  BY <1>4
<1>15. Spoilt(u, n + 1)
  BY <1>9, <1>13, <1>14 DEF Spoilt
<1> QED
  BY <1>1, <1>2, <1>15

LEMMA SpoilsIs ==
  ASSUME NEW t \in Seq(Char), NEW e \in Spoiling
  PROVE  e \in Seq(Char) /\ Spoilt(t \o e, Len(t) + 1)
<1>1. "blank" \in Char /\ "cr" \in Char /\ "a" \in Char /\ "/" \in Char /\ "quote" \in Char
  BY DEF Char
<1>2. White = {"blank", "cr", "nul"}
  BY DEF White
<1>3. CASE e = <<"blank", "/", "/">>
  <2>1. e \in Seq(Char) /\ Len(e) = 3 /\ e[1] = "blank" /\ e[2] = "/" /\ e[3] = "/"
    BY <1>1, <1>3
  <2>2. Spaces(e, 1, 2 - 1)
    BY <2>1 DEF Spaces
  <2>3. CommentAt(e, 2)
    <3>1. \A r \in 2 .. 4 - 1: r = 2 \/ r = 3
      OBVIOUS
    <3>2. \A r \in 2 .. 4 - 1: e[r] # "cr"
      BY <2>1, <3>1
    <3> QED
      BY <2>1, <3>2 DEF CommentAt
  <2>4. Spoilt(e, 1)
    BY <2>1, <2>2, <2>3 DEF Spoilt
  <2> QED
    BY <2>1, <2>4, SpoilsLater
<1>4. CASE e = <<"blank", "/", "/", "a">>
  <2>1. e \in Seq(Char) /\ Len(e) = 4 /\ e[1] = "blank" /\ e[2] = "/" /\ e[3] = "/" /\ e[4] = "a"
    BY <1>1, <1>4
  <2>2. Spaces(e, 1, 2 - 1)
    BY <2>1 DEF Spaces
  <2>3. CommentAt(e, 2)
    <3>1. \A r \in 2 .. 5 - 1: r = 2 \/ r = 3 \/ r = 4
      OBVIOUS
    <3>2. \A r \in 2 .. 5 - 1: e[r] # "cr"
      BY <2>1, <3>1
    <3> QED
      BY <2>1, <3>2 DEF CommentAt
  <2>4. Spoilt(e, 1)
    BY <2>1, <2>2, <2>3 DEF Spoilt
  <2> QED
    BY <2>1, <2>4, SpoilsLater
<1>5. CASE e = <<"blank", "blank", "/", "/", "quote", "blank", "cr">>
  <2>1. /\ e \in Seq(Char) /\ Len(e) = 7 /\ e[1] = "blank" /\ e[2] = "blank" /\ e[3] = "/" /\ e[4] = "/"
        /\ e[5] = "quote" /\ e[6] = "blank" /\ e[7] = "cr"
    BY <1>1, <1>5
  <2>2. Spaces(e, 1, 3 - 1)
    <3>1. \A p \in 1 .. 3 - 1: p = 1 \/ p = 2
      OBVIOUS
    <3> QED
      BY <2>1, <3>1 DEF Spaces
  <2>3. CommentAt(e, 3)
    <3>1. \A r \in 3 .. 7 - 1: r = 3 \/ r = 4 \/ r = 5 \/ r = 6
      OBVIOUS
    <3>2. \A r \in 3 .. 7 - 1: e[r] # "cr"
      BY <2>1, <3>1
    <3>3. \A r \in 7 .. 7: e[r] \in White
      BY <1>2, <2>1
    <3>4. 3 + 1 <= Len(e) /\ 7 \in 3 .. Len(e) + 1 /\ e[3 + 1] = "/"
      BY <2>1
    <3> QED
      BY <2>1, <3>2, <3>3, <3>4 DEF CommentAt
  <2>4. Spoilt(e, 1)
    BY <2>1, <2>2, <2>3 DEF Spoilt
  <2> QED
    BY <2>1, <2>4, SpoilsLater
<1>6. CASE e = <<"blank", "quote">>
  <2>1. e \in Seq(Char) /\ Len(e) = 2 /\ e[1] = "blank" /\ e[2] = "quote"
    BY <1>1, <1>6
  <2>2. Spaces(e, 1, 2 - 1)
    BY <2>1 DEF Spaces
  <2>3. UnclosedAt(e, 2)
    BY <2>1 DEF UnclosedAt
  <2>4. Spoilt(e, 1)
    BY <2>1, <2>2, <2>3 DEF Spoilt
  <2> QED
    BY <2>1, <2>4, SpoilsLater
<1>7. CASE e = <<"blank", "quote", "a", "cr", "a">>
  <2>1. /\ e \in Seq(Char) /\ Len(e) = 5 /\ e[1] = "blank" /\ e[2] = "quote" /\ e[3] = "a" /\ e[4] = "cr"
        /\ e[5] = "a"
    BY <1>1, <1>7
  <2>2. Spaces(e, 1, 2 - 1)
    BY <2>1 DEF Spaces
  <2>3. UnclosedAt(e, 2)
    <3>1. \A r \in 2 + 1 .. 5: r = 3 \/ r = 4 \/ r = 5
      OBVIOUS
    <3> QED
      BY <2>1, <3>1 DEF UnclosedAt
  <2>4. Spoilt(e, 1)
    BY <2>1, <2>2, <2>3 DEF Spoilt
  <2> QED
    BY <2>1, <2>4, SpoilsLater
<1>8. CASE e = <<"blank">> \o [i \in 1 .. TokLen |-> "a"]
  <2>0. TokLen \in Nat \ {0}
    BY TokensAssumption DEF TokensAssumption
  <2> DEFINE w == [i \in 1 .. TokLen |-> "a"]
  <2>1. w \in Seq(Char) /\ Len(w) = TokLen /\ \A i \in 1 .. TokLen: w[i] = "a"
    BY <1>1, <2>0
  <2> HIDE DEF w
  <2>2. <<"blank">> \in Seq(Char) /\ Len(<<"blank">>) = 1 /\ <<"blank">>[1] = "blank"
    BY <1>1
  <2>3. /\ <<"blank">> \o w \in Seq(Char) /\ Len(<<"blank">> \o w) = 1 + TokLen
        /\ \A i \in 1 .. 1 + TokLen: (<<"blank">> \o w)[i] = IF i <= 1 THEN <<"blank">>[i] ELSE w[i - 1]
    BY <2>1, <2>2, ConcatProperties
  <2>4. e = <<"blank">> \o w
    BY <1>8 DEF w
  <2>5. /\ e \in Seq(Char) /\ Len(e) = 1 + TokLen
        /\ \A i \in 1 .. 1 + TokLen: e[i] = IF i <= 1 THEN <<"blank">>[i] ELSE w[i - 1]
    BY <2>3, <2>4
  <2>6. e[1] = "blank" /\ \A r \in 2 .. 1 + TokLen: e[r] = "a"
    <3>1. 1 \in 1 .. 1 + TokLen
      BY <2>0
    <3>2. e[1] = "blank"
      BY <2>2, <2>5, <3>1
    <3>3. ASSUME NEW r \in 2 .. 1 + TokLen PROVE e[r] = "a"
      <4>1. r \in 1 .. 1 + TokLen /\ ~(r <= 1) /\ r - 1 \in 1 .. TokLen
        BY <2>0
      <4> QED
        BY <2>1, <2>5, <4>1
    <3> QED
      BY <3>2, <3>3
  <2>7. Spaces(e, 1, 2 - 1)
    BY <2>6 DEF Spaces
  <2>8. TooLongAt(e, 2)
    <3>1. 2 + TokLen - 1 = 1 + TokLen /\ 2 \in 2 .. 1 + TokLen
      BY <2>0
    <3>2. "a" \notin White
      BY <1>2
    <3> QED
      BY <2>5, <2>6, <3>1, <3>2 DEF TooLongAt
  <2>9. 2 \in 1 + 1 .. Len(e)
    BY <2>0, <2>5
  <2>10. Spoilt(e, 1)
    BY <2>7, <2>8, <2>9 DEF Spoilt
  <2> QED
    BY <2>5, <2>10, SpoilsLater
<1> QED
  BY <1>3, <1>4, <1>5, <1>6, <1>7, <1>8 DEF Spoiling, Comment, Unclosed, TooLong

LEMMA EndsLine ==
  ASSUME NEW t, NEW ws, Ends(t, ws), NEW spoilt \in BOOLEAN, NEW e, e \in IF spoilt THEN Spoiling ELSE Trailing
  PROVE  Written(t \o e, ws, spoilt)
<1>1. PICK A, E: Spelled(t, ws, A, E) /\ E[Len(ws)] = Len(t) + 1
  BY DEF Ends
<1>2. /\ t \in Seq(Char) /\ ws \in Seq(Seq(Char))
      /\ E \in [0 .. Len(ws) -> 1 .. Len(t) + 1] /\ E[0] = 1
      /\ \A k \in 1 .. Len(ws): Wordy(A[k], ws[k]) /\ Lies(t, A[k], E[k - 1], E[k])
      /\ \A k \in 1 .. Len(ws) - 1: E[k] \in 1 .. Len(t) /\ t[E[k]] = "blank"
  BY <1>1 DEF Spelled
<1>3. PICK n \in Nat: n = Len(ws)
  BY <1>2, LenProperties
<1>4. Len(t) \in Nat
  BY <1>2, LenProperties
<1>5. e \in Seq(Char) /\ Closed(t \o e, Len(t) + 1, spoilt)
  <2>1. CASE spoilt
    <3>1. e \in Spoiling
      BY <2>1
    <3> QED
      BY <1>2, <2>1, <3>1, SpoilsIs DEF Closed
  <2>2. CASE ~spoilt
    <3>1. e \in Trailing
      BY <2>2
    <3> QED
      BY <1>2, <2>2, <3>1, AfterIs DEF Closed
  <2> QED
    BY <2>1, <2>2
<1>6. PICK u: u = t \o e
  OBVIOUS
<1>7. /\ u \in Seq(Char) /\ Len(u) = Len(t) + Len(e)
      /\ \A i \in 1 .. Len(t) + Len(e): u[i] = IF i <= Len(t) THEN t[i] ELSE e[i - Len(t)]
  BY <1>2, <1>5, <1>6, ConcatProperties
<1>8. Len(e) \in Nat
  BY <1>5, LenProperties
<1>9. \A i \in 1 .. Len(t): u[i] = t[i] /\ i \in 1 .. Len(u)
  <2>1. \A i \in 1 .. Len(t): i \in 1 .. Len(t) + Len(e) /\ i <= Len(t)
    BY <1>4, <1>8
  <2> QED
    BY <1>7, <2>1
<1>10. \A k \in 0 .. n: E[k] \in 1 .. Len(t) + 1 /\ E[k] \in 1 .. Len(u) + 1
  <2>1. \A i \in 1 .. Len(t) + 1: i \in 1 .. Len(u) + 1
    BY <1>4, <1>7, <1>8
  <2> QED
    BY <1>2, <1>3, <2>1
<1>11. E \in [0 .. n -> 1 .. Len(u) + 1]
  BY <1>2, <1>3, <1>10
<1>12. ASSUME NEW k \in 1 .. n PROVE Wordy(A[k], ws[k]) /\ Lies(u, A[k], E[k - 1], E[k])
  <2>1. k - 1 \in 0 .. n /\ k \in 0 .. n
    BY <1>3
  <2>2. Wordy(A[k], ws[k]) /\ Lies(t, A[k], E[k - 1], E[k])
    BY <1>2, <1>3
  <2>3. A[k] \in Seq(Char)
    BY <2>2 DEF Wordy
  <2>4. E[k - 1] \in 1 .. Len(t) + 1 /\ E[k] \in 1 .. Len(t) + 1
    BY <1>10, <2>1
  <2>5. Lies(u, A[k], E[k - 1], E[k])
    BY <1>2, <1>5, <1>6, <2>2, <2>3, <2>4, LiesLonger
  <2> QED
    BY <2>2, <2>5
<1>13. ASSUME NEW k \in 1 .. n - 1 PROVE E[k] \in 1 .. Len(u) /\ u[E[k]] = "blank"
  <2>1. E[k] \in 1 .. Len(t) /\ t[E[k]] = "blank"
    BY <1>2, <1>3
  <2> QED
    BY <1>9, <2>1
<1>14. Spelled(u, ws, A, E)
  BY <1>2, <1>3, <1>7, <1>11, <1>12, <1>13 DEF Spelled
<1>15. Closed(u, E[Len(ws)], spoilt)
  BY <1>1, <1>5, <1>6
<1> QED
  BY <1>6, <1>14, <1>15 DEF Written

LEMMA BeforeIs ==
  ASSUME NEW b \in Leading
  PROVE  b \in Seq(Char) /\ Spaces(b, 1, Len(b))
<1>1. CASE b = <<>>
  <2>1. b \in Seq(Char) /\ Len(b) = 0
    BY <1>1
  <2> QED
    BY <2>1 DEF Spaces
<1>2. CASE b = <<"blank">>
  <2>1. b \in Seq(Char) /\ Len(b) = 1 /\ b[1] = "blank"
    BY <1>2, SpaceIs
  <2>2. \A p \in 1 .. Len(b): p = 1
    BY <2>1
  <2> QED
    BY <2>1, <2>2 DEF Spaces
<1> QED
  BY <1>1, <1>2 DEF Leading

LEMMA FirstEnds ==
  ASSUME NEW B \in SUBSET Leading, NEW W, \A w \in W: Wordy(w.as, w.to), NEW l \in FirstWord(B, W)
  PROVE  Ends(l.text, l.words) /\ Len(l.words) \in Nat \ {0}
<1>1. PICK b \in B, w \in W: l = [text |-> b \o w.as, words |-> <<w.to>>]
  BY DEF FirstWord
<1>2. b \in Seq(Char) /\ Spaces(b, 1, Len(b))
  BY BeforeIs
<1>3. Ends(b \o w.as, <<w.to>>)
  BY <1>2, EndsFirst
<1> QED
  BY <1>1, <1>3

LEMMA ThenEnds ==
  ASSUME NEW L, \A l \in L: Ends(l.text, l.words) /\ Len(l.words) \in Nat \ {0},
         NEW W, \A w \in W: Wordy(w.as, w.to), NEW l \in ThenWord(L, W)
  PROVE  Ends(l.text, l.words) /\ Len(l.words) \in Nat \ {0}
<1>1. PICK k \in L, w \in W: l = With(k, w)
  BY DEF ThenWord
<1>2. Ends(k.text, k.words) /\ Len(k.words) \in Nat \ {0} /\ Wordy(w.as, w.to)
  OBVIOUS
<1>3. Ends(k.text \o <<"blank">> \o w.as, Append(k.words, w.to))
  BY <1>2, EndsNext
<1>4. k.words \in Seq(Seq(Char)) /\ w.to \in Seq(Char)
  BY <1>2 DEF Ends, Spelled, Wordy
<1>5. Len(Append(k.words, w.to)) = Len(k.words) + 1
  BY <1>4, AppendProperties
<1>6. Len(l.words) \in Nat \ {0}
  BY <1>1, <1>2, <1>5 DEF With
<1>7. Ends(l.text, l.words)
  BY <1>1, <1>3 DEF With
<1> QED
  BY <1>6, <1>7

(* Every line is written as it says.                                       *)
LEMMA LinesWritten ==
  ASSUME NEW l \in Lines
  PROVE  Written(l.text, l.words, l.spoilt) /\ l.spoilt \in BOOLEAN
<1>1. \A w \in Word: Wordy(w.as, w.to)
  BY WordIs
<1>2. \A w \in Brief: Wordy(w.as, w.to)
  BY BriefIs
<1>3. \A k \in OneWord: Ends(k.text, k.words) /\ Len(k.words) \in Nat \ {0}
  BY <1>1, FirstEnds DEF OneWord
<1>4. \A k \in ThenWord(OneWord, Word): Ends(k.text, k.words) /\ Len(k.words) \in Nat \ {0}
  BY <1>1, <1>3, ThenEnds
<1> DEFINE One == FirstWord({<<>>}, Brief)
           Two == ThenWord(One, Brief)
           Three == ThenWord(Two, Brief)
<1>5. \A k \in One: Ends(k.text, k.words) /\ Len(k.words) \in Nat \ {0}
  <2>1. {<<>>} \in SUBSET Leading
    BY DEF Leading
  <2> QED
    BY <1>2, <2>1, FirstEnds
<1> HIDE DEF One
<1>6. \A k \in Two: Ends(k.text, k.words) /\ Len(k.words) \in Nat \ {0}
  BY <1>2, <1>5, ThenEnds
<1> HIDE DEF Two
<1>7. \A k \in Three: Ends(k.text, k.words) /\ Len(k.words) \in Nat \ {0}
  BY <1>2, <1>6, ThenEnds
<1> HIDE DEF Three
<1>8. \A k \in ThenWord(Three, Brief): Ends(k.text, k.words)
  BY <1>2, <1>7, ThenEnds
<1>9. FourWords = ThenWord(Three, Brief)
  BY DEF FourWords, Three, Two, One
<1> DEFINE All == OneWord \cup ThenWord(OneWord, Word) \cup FourWords
<1>10. \A k \in All: Ends(k.text, k.words)
  BY <1>3, <1>4, <1>8, <1>9
<1>11. CASE l \in LinesOf(OneWord \cup ThenWord(OneWord, Word) \cup FourWords, Trailing, FALSE)
  <2>1. PICK k \in All, e \in Trailing: l = [text |-> k.text \o e, words |-> k.words, spoilt |-> FALSE]
    BY <1>11 DEF LinesOf
  <2>2. Written(k.text \o e, k.words, FALSE)
    BY <1>10, <2>1, EndsLine
  <2> QED
    BY <2>1, <2>2
<1>12. CASE l \in LinesOf(OneWord \cup FourWords, Spoiling, TRUE)
  <2>1. PICK k \in All, e \in Spoiling: l = [text |-> k.text \o e, words |-> k.words, spoilt |-> TRUE]
    BY <1>12 DEF LinesOf
  <2>2. Written(k.text \o e, k.words, TRUE)
    BY <1>10, <2>1, EndsLine
  <2> QED
    BY <2>1, <2>2
<1> QED
  BY <1>11, <1>12 DEF Lines

(* The tokenizer stands in front of a word with blanks before it.          *)
Facing(b, w, lo, hi) ==
  /\ text \in Seq(Char) /\ w \in Seq(Char) /\ place = lo
  /\ lo \in 1 .. Len(text) + 1 /\ hi \in 1 .. Len(text) + 1 /\ b \in lo .. hi /\ b + Len(w) = hi /\ Len(w) \in Nat \ {0}
  /\ At(hi) \in White
  /\ Spaces(text, lo, b - 1)
  /\ \A i \in 1 .. Len(w): text[b + i - 1] = w[i]

LEMMA FacingNumbers ==
  ASSUME NEW b, NEW w, NEW lo, NEW hi, Facing(b, w, lo, hi)
  PROVE  /\ Len(text) \in Nat /\ lo \in Nat \ {0} /\ b \in Nat \ {0} /\ hi \in Nat \ {0} /\ Len(w) \in Nat \ {0}
         /\ lo <= b /\ b < hi /\ hi <= Len(text) + 1 /\ b + Len(w) = hi
         /\ place = lo /\ place \in Places /\ text \in Seq(Char)
<1>1. text \in Seq(Char) /\ Len(w) \in Nat \ {0}
  BY DEF Facing
<1>2. Len(text) \in Nat
  BY <1>1, LenProperties
<1>3. lo \in 1 .. Len(text) + 1 /\ hi \in 1 .. Len(text) + 1 /\ b \in lo .. hi /\ b + Len(w) = hi /\ place = lo
  BY DEF Facing
<1> QED
  BY <1>1, <1>2, <1>3 DEF Places

LEMMA FacingLetters ==
  ASSUME NEW b, NEW w, NEW lo, NEW hi, Facing(b, w, lo, hi), NEW i \in 1 .. Len(w)
  PROVE  At(b + i - 1) = w[i]
<1>1. b + i - 1 \in Nat \ {0} /\ b + i - 1 <= Len(text)
  BY FacingNumbers
<1>2. At(b + i - 1) = text[b + i - 1]
  BY <1>1, FacingNumbers, AtIs
<1> QED
  BY <1>2 DEF Facing

LEMMA FacingBlank ==
  ASSUME NEW b, NEW w, NEW lo, NEW hi, Facing(b, w, lo, hi), NEW r \in lo .. b - 1
  PROVE  At(r) = "blank"
<1>1. r \in Nat \ {0} /\ r <= Len(text)
  BY FacingNumbers
<1>2. At(r) = text[r]
  BY <1>1, FacingNumbers, AtIs
<1> QED
  BY <1>2 DEF Facing, Spaces

LEMMA FacingAhead ==
  ASSUME NEW b, NEW w, NEW lo, NEW hi, Facing(b, w, lo, hi), NEW v, Wordy(w, v)
  PROVE  Ahead = b /\ At(b) = w[1] /\ At(b) \notin White /\ At(b) # "blank"
<1>1. At(b) = w[1]
  <2>1. 1 \in 1 .. Len(w) /\ b + 1 - 1 = b
    BY FacingNumbers
  <2> QED
    BY <2>1, FacingLetters
<1>2. w[1] \notin White
  <2>1. CASE InMarks(w, v)
    BY <2>1 DEF InMarks, White
  <2>2. CASE Unmarked(w, v)
    <3>1. 1 \in 1 .. Len(w)
      BY FacingNumbers
    <3> QED
      BY <2>2, <3>1 DEF Unmarked
  <2> QED
    BY <2>1, <2>2 DEF Wordy
<1>3. w[1] \in Char
  <2>1. 1 \in 1 .. Len(w) /\ w \in Seq(Char)
    BY FacingNumbers DEF Facing
  <2> QED
    BY <2>1
<1>4. At(b) # "blank"
  BY <1>1, <1>2 DEF White
<1>5. IsFirst(Char \ {"blank"}, lo, b)
  <2>1. b \in lo .. Len(text) + 1
    BY FacingNumbers
  <2>2. \A r \in lo .. b - 1: At(r) \notin Char \ {"blank"}
    BY FacingBlank
  <2>3. At(b) \in (Char \ {"blank"}) \cup {"nul"}
    BY <1>1, <1>3, <1>4
  <2> QED
    BY <2>1, <2>2, <2>3 DEF IsFirst
<1>6. Ahead = b
  <2>1. FirstOf(Char \ {"blank"}, lo) = b
    BY <1>5, FacingNumbers, FirstOnly
  <2> QED
    BY <2>1, FacingNumbers DEF Ahead
<1> QED
  BY <1>1, <1>2, <1>4, <1>6

LEMMA FacingBegins ==
  ASSUME NEW b, NEW w, NEW lo, NEW hi, Facing(b, w, lo, hi), NEW v, Wordy(w, v)
  PROVE  Begins = b
<1>1. Ahead = b /\ At(b) = w[1]
  BY FacingAhead
<1>2. ASSUME Commented(b) PROVE FALSE
  <2>1. w[1] = "/" /\ At(b + 1) = "/"
    BY <1>1, <1>2 DEF Commented
  <2>2. Unmarked(w, v)
    BY <2>1 DEF Wordy, InMarks
  <2>3. CASE Len(w) >= 2
    <3>1. 2 \in 1 .. Len(w) /\ b + 2 - 1 = b + 1
      BY <2>3, FacingNumbers
    <3>2. w[2] = "/"
      BY <2>1, <3>1, FacingLetters
    <3> QED
      BY <2>1, <2>2, <2>3, <3>2 DEF Unmarked
  <2>4. CASE Len(w) = 1
    <3>1. b + 1 = hi
      BY <2>4, FacingNumbers
    <3>2. At(hi) \in White
      BY DEF Facing
    <3> QED
      BY <2>1, <3>1, <3>2 DEF White
  <2>5. Len(w) \in Nat \ {0}
    BY FacingNumbers
  <2>6. PICK m \in Nat \ {0}: m = Len(w)
    BY <2>5
  <2>7. m = 1 \/ m >= 2
    OBVIOUS
  <2> QED
    BY <2>3, <2>4, <2>6, <2>7
<1>3. text \in Seq(Char) /\ place \in Places
  BY FacingNumbers
<1>4. ~Commented(Ahead)
  BY <1>1, <1>2
<1>5. Begins = Ahead
  BY <1>3, <1>4, BeginsAt
<1> QED
  BY <1>1, <1>5

LEMMA FacingEnd ==
  ASSUME NEW b, NEW w, NEW lo, NEW hi, Facing(b, w, lo, hi), NEW v, Wordy(w, v)
  PROVE  /\ At(b) = "quote" => InMarks(w, v) /\ Closing = hi - 1 /\ InQuotes /\ TokenEnd = hi - 1
         /\ At(b) # "quote" => Unmarked(w, v) /\ TokenEnd = hi
<1>1. Begins = b /\ At(b) = w[1]
  BY FacingBegins, FacingAhead
<1>2. CASE InMarks(w, v)
  <2>1. /\ Len(w) = Len(v) + 2 /\ w[1] = "quote" /\ w[Len(v) + 2] = "quote"
        /\ \A i \in 1 .. Len(v): v[i] # "quote" /\ w[i + 1] = v[i]
    BY <1>2 DEF InMarks
  <2>2. Len(v) \in Nat
    <3>1. v \in Seq(Char)
      BY DEF Wordy
    <3> QED
      BY <3>1, LenProperties
  <2>3. At(hi - 1) = "quote"
    <3>1. Len(v) + 2 \in 1 .. Len(w) /\ b + (Len(v) + 2) - 1 = hi - 1
      BY <2>1, <2>2, FacingNumbers
    <3> QED
      BY <2>1, <3>1, FacingLetters
  <2>4. ASSUME NEW r \in b + 1 .. hi - 1 - 1 PROVE At(r) # "quote"
    <3>1. PICK i \in 1 .. Len(v): r = b + i
      <4>1. r - b \in 1 .. Len(v) /\ r = b + (r - b)
        BY <2>1, <2>2, FacingNumbers, SMTT(30)
      <4> QED
        BY <4>1
    <3>2. i + 1 \in 1 .. Len(w) /\ b + (i + 1) - 1 = r
      BY <2>1, <2>2, <3>1, FacingNumbers
    <3> QED
      BY <2>1, <3>2, FacingLetters
  <2>5. IsFirst({"quote"}, b + 1, hi - 1)
    <3>1. hi - 1 \in b + 1 .. Len(text) + 1
      BY <2>1, <2>2, FacingNumbers
    <3> QED
      BY <2>3, <2>4, <3>1 DEF IsFirst
  <2>6. b + 1 \in Nat \ {0} /\ text \in Seq(Char)
    BY FacingNumbers
  <2>7. FirstOf({"quote"}, b + 1) = hi - 1
    BY <2>5, <2>6, FirstOnly
  <2> QED
    BY <1>1, <1>2, <2>1, <2>3, <2>7 DEF Closing, InQuotes, TokenEnd
<1>3. CASE Unmarked(w, v)
  <2>1. w[1] # "quote" /\ \A i \in 1 .. Len(w): w[i] \notin White
    BY <1>3 DEF Unmarked
  <2>2. ASSUME NEW r \in b .. hi - 1 PROVE At(r) \notin White
    <3>1. PICK i \in 1 .. Len(w): r = b + i - 1
      <4>1. r - b + 1 \in 1 .. Len(w) /\ r = b + (r - b + 1) - 1
        BY FacingNumbers
      <4> QED
        BY <4>1
    <3> QED
      BY <2>1, <3>1, FacingLetters
  <2>3. IsFirst(White, b, hi)
    <3>1. hi \in b .. Len(text) + 1
      BY FacingNumbers
    <3>2. At(hi) \in White
      BY DEF Facing
    <3> QED
      BY <2>2, <3>1, <3>2 DEF IsFirst
  <2>4. FirstOf(White, b) = hi
    BY <2>3, FacingNumbers, FirstOnly
  <2> QED
    BY <1>1, <1>3, <2>1, <2>4 DEF TokenEnd
<1> QED
  BY <1>2, <1>3 DEF Wordy

(* It takes that word, and stops behind it.                                *)
LEMMA FacingToken ==
  ASSUME NEW b, NEW w, NEW lo, NEW hi, Facing(b, w, lo, hi), NEW v, Wordy(w, v)
  PROVE  Token = v /\ AfterToken = hi
<1>1. Begins = b
  BY FacingBegins
<1>2. v \in Seq(Char) /\ w \in Seq(Char)
  BY DEF Wordy
<1>3. Len(v) \in Nat
  BY <1>2, LenProperties
<1>4. \A i \in 1 .. Len(text): text[i] \in Char
  BY FacingNumbers
<1>5. CASE At(b) = "quote"
  <2>1. InMarks(w, v) /\ TokenEnd = hi - 1
    BY <1>5, FacingEnd
  <2>2. Len(w) = Len(v) + 2 /\ \A i \in 1 .. Len(v): w[i + 1] = v[i]
    BY <2>1 DEF InMarks
  <2>3. \A i \in b + 1 .. hi - 1 - 1: text[i] \in Char
    <3>1. \A i \in b + 1 .. hi - 1 - 1: i \in 1 .. Len(text)
      BY FacingNumbers
    <3> QED
      BY <1>4, <3>1
  <2>4. /\ SubSeq(text, b + 1, hi - 1 - 1) \in Seq(Char)
        /\ Len(SubSeq(text, b + 1, hi - 1 - 1)) =
             IF b + 1 <= hi - 1 - 1 THEN hi - 1 - 1 - (b + 1) + 1 ELSE 0
        /\ \A i \in 1 .. hi - 1 - 1 - (b + 1) + 1:
             SubSeq(text, b + 1, hi - 1 - 1)[i] = text[b + 1 + i - 1]
    <3>1. b + 1 \in Int /\ hi - 1 - 1 \in Int
      BY FacingNumbers
    <3> QED
      BY <2>3, <3>1, SubSeqProperties
  <2>5. Len(SubSeq(text, b + 1, hi - 1 - 1)) = Len(v)
    <3>1. hi = b + Len(v) + 2 /\ b \in Nat /\ hi \in Nat
      BY <1>3, <2>2, FacingNumbers
    <3>2. (IF b + 1 <= hi - 1 - 1 THEN hi - 1 - 1 - (b + 1) + 1 ELSE 0) = Len(v)
      BY <1>3, <3>1
    <3> QED
      BY <2>4, <3>2
  <2>6. ASSUME NEW i \in 1 .. Len(v) PROVE SubSeq(text, b + 1, hi - 1 - 1)[i] = v[i]
    <3>1. i \in 1 .. hi - 1 - 1 - (b + 1) + 1 /\ b + 1 + i - 1 = b + (i + 1) - 1 /\ i + 1 \in 1 .. Len(w)
      BY <1>3, <2>2, FacingNumbers, SMTT(30)
    <3>2. text[b + (i + 1) - 1] = w[i + 1]
      BY <3>1 DEF Facing
    <3> QED
      BY <2>2, <2>4, <3>1, <3>2
  <2>7. SubSeq(text, b + 1, hi - 1 - 1) = v
    BY <1>2, <2>4, <2>5, <2>6, SeqEqual
  <2>8. Token = v
    BY <1>1, <1>5, <2>1, <2>7 DEF Token
  <2>9. AfterToken = hi
    <3>1. AfterToken = hi - 1 + 1
      BY <1>1, <1>5, <2>1 DEF AfterToken
    <3> QED
      BY <3>1, FacingNumbers
  <2> QED
    BY <2>8, <2>9
<1>6. CASE At(b) # "quote"
  <2>1. Unmarked(w, v) /\ TokenEnd = hi
    BY <1>6, FacingEnd
  <2>2. w = v
    BY <2>1 DEF Unmarked
  <2>3. \A i \in b .. hi - 1: text[i] \in Char
    <3>1. \A i \in b .. hi - 1: i \in 1 .. Len(text)
      BY FacingNumbers
    <3> QED
      BY <1>4, <3>1
  <2>4. /\ SubSeq(text, b, hi - 1) \in Seq(Char)
        /\ Len(SubSeq(text, b, hi - 1)) = IF b <= hi - 1 THEN hi - 1 - b + 1 ELSE 0
        /\ \A i \in 1 .. hi - 1 - b + 1: SubSeq(text, b, hi - 1)[i] = text[b + i - 1]
    <3>1. b \in Int /\ hi - 1 \in Int
      BY FacingNumbers
    <3> QED
      BY <2>3, <3>1, SubSeqProperties
  <2>5. Len(SubSeq(text, b, hi - 1)) = Len(w)
    BY <2>4, FacingNumbers, SMTT(30)
  <2>6. ASSUME NEW i \in 1 .. Len(w) PROVE SubSeq(text, b, hi - 1)[i] = w[i]
    <3>1. i \in 1 .. hi - 1 - b + 1
      BY FacingNumbers
    <3>2. text[b + i - 1] = w[i]
      BY DEF Facing
    <3> QED
      BY <2>4, <3>1, <3>2
  <2>7. SubSeq(text, b, hi - 1) = w
    BY <1>2, <2>4, <2>5, <2>6, SeqEqual
  <2> QED
    BY <1>1, <1>6, <2>1, <2>2, <2>7 DEF Token, AfterToken
<1> QED
  BY <1>5, <1>6

LEMMA FacingParses ==
  ASSUME NEW b, NEW w, NEW lo, NEW hi, Facing(b, w, lo, hi), NEW v, Wordy(w, v), Len(v) < TokLen
  PROVE  At(Ahead) \notin {"cr", "nul"} /\ ~Refused
<1>1. Ahead = b /\ Begins = b /\ At(b) \notin White /\ Token = v
  BY FacingAhead, FacingBegins, FacingToken
<1>2. At(Ahead) \notin {"cr", "nul"} /\ At(Begins) # "nul"
  BY <1>1 DEF White
<1>3. At(Begins) = "quote" => InQuotes
  BY <1>1, FacingEnd
<1>4. ~(Len(Token) >= TokLen)
  <2>1. Len(v) \in Nat /\ TokLen \in Nat
    <3>1. v \in Seq(Char)
      BY DEF Wordy
    <3> QED
      BY <3>1, LenProperties, TokensAssumption DEF TokensAssumption
  <2> QED
    BY <1>1, <2>1
<1> QED
  BY <1>2, <1>3, <1>4 DEF Refused

(* The tokenizer stands in front of what spoils the line.                  *)
LEMMA SpoiltRefuses ==
  ASSUME text \in Seq(Char), place \in Places, Spoilt(text, place)
  PROVE  At(Ahead) \notin {"cr", "nul"} /\ Refused
<1>1. PICK n \in Nat: n = Len(text)
  BY LenProperties
<1>2. PICK q \in place + 1 .. n:
        Spaces(text, place, q - 1) /\ (UnclosedAt(text, q) \/ CommentAt(text, q) \/ TooLongAt(text, q))
  BY <1>1 DEF Spoilt
<1>3. place \in Nat \ {0} /\ q \in Nat \ {0} /\ place <= q /\ q <= n /\ q \in Places /\ q + 1 \in Places /\ n + 1 \in Places
  BY <1>1, <1>2 DEF Places
<1>4. At(q) = text[q] /\ At(n + 1) = "nul"
  BY <1>1, <1>3, AtIs
<1>5. ASSUME NEW r \in 1 .. n PROVE At(r) = text[r] /\ text[r] \in Char /\ At(r) # "nul"
  BY <1>1, AtIs DEF Char
<1>6. text[q] \in {"quote", "/"} \/ text[q] \notin White
  <2>0. TokLen \in Nat \ {0}
    BY TokensAssumption DEF TokensAssumption
  <2>1. q \in q .. q + TokLen - 1
    BY <1>3, <2>0
  <2> QED
    BY <1>2, <2>1 DEF UnclosedAt, CommentAt, TooLongAt
<1>7. text[q] \notin White /\ text[q] \in Char
  BY <1>3, <1>5, <1>6 DEF White
<1>8. IsFirst(Char \ {"blank"}, place, q)
  <2>1. ASSUME NEW r \in place .. q - 1 PROVE At(r) = "blank"
    <3>1. r \in 1 .. n
      BY <1>3
    <3> QED
      BY <1>2, <1>5, <3>1 DEF Spaces
  <2>2. q \in place .. Len(text) + 1
    BY <1>1, <1>3
  <2>3. At(q) \in (Char \ {"blank"}) \cup {"nul"}
    BY <1>4, <1>7 DEF White
  <2> QED
    BY <2>1, <2>2, <2>3 DEF IsFirst
<1>9. Ahead = q
  BY <1>3, <1>8, FirstOnly DEF Ahead
<1>10. At(Ahead) \notin {"cr", "nul"}
  BY <1>4, <1>7, <1>9 DEF White
<1>11. ASSUME text[q] # "/" PROVE Begins = q
  <2>1. ~Commented(Ahead)
    BY <1>4, <1>9, <1>11 DEF Commented
  <2> QED
    BY <1>9, <2>1, BeginsAt
<1>12. CASE UnclosedAt(text, q)
  <2>1. text[q] = "quote" /\ Begins = q /\ At(Begins) = "quote"
    BY <1>4, <1>11, <1>12 DEF UnclosedAt
  <2>2. IsFirst({"quote"}, q + 1, Closing)
    BY <1>3, <2>1, FirstIs DEF Closing
  <2>3. Closing \in q + 1 .. n + 1
    BY <1>1, <2>2 DEF IsFirst
  <2>4. At(Closing) # "quote"
    <3>1. CASE Closing = n + 1
      BY <1>4, <3>1
    <3>2. CASE Closing # n + 1
      <4>1. Closing \in q + 1 .. n /\ Closing \in 1 .. n
        BY <1>3, <2>3, <3>2
      <4> QED
        BY <1>1, <1>5, <1>12, <4>1 DEF UnclosedAt
    <3> QED
      BY <3>1, <3>2
  <2>5. ~InQuotes
    BY <2>4 DEF InQuotes
  <2> QED
    BY <1>10, <2>1, <2>5 DEF Refused
<1>13. CASE CommentAt(text, q)
  <2>1. text[q] = "/" /\ q + 1 \in 1 .. n /\ text[q + 1] = "/"
    BY <1>1, <1>3, <1>13 DEF CommentAt
  <2>2. Commented(q)
    BY <1>4, <1>5, <2>1 DEF Commented
  <2>3. PICK c \in q .. n + 1:
          /\ c <= n => text[c] = "cr"
          /\ \A r \in q .. c - 1: text[r] # "cr"
          /\ \A r \in c .. n: text[r] \in White
    BY <1>1, <1>13 DEF CommentAt
  <2>4. c \in Nat \ {0} /\ c \in Places
    BY <1>1, <1>3, <2>3 DEF Places
  <2>5. IsFirst({"cr"}, q, c)
    <3>1. At(c) \in {"cr", "nul"}
      <4>1. CASE c = n + 1
        BY <1>4, <4>1
      <4>2. CASE c # n + 1
        <5>1. c \in 1 .. n
          BY <1>3, <2>3, <4>2
        <5> QED
          BY <1>5, <2>3, <5>1
      <4> QED
        BY <4>1, <4>2
    <3>2. ASSUME NEW r \in q .. c - 1 PROVE At(r) # "cr"
      <4>1. r \in 1 .. n
        BY <1>3, <2>3
      <4> QED
        BY <1>5, <2>3, <4>1
    <3> QED
      BY <1>1, <2>3, <3>1, <3>2 DEF IsFirst
  <2>6. FirstOf({"cr"}, q) = c
    BY <1>3, <2>5, FirstOnly
  <2>7. IsFirst(Char \ White, c, n + 1)
    <3>1. ASSUME NEW r \in c .. n + 1 - 1 PROVE At(r) \notin Char \ White
      <4>1. r \in 1 .. n /\ r \in c .. n
        BY <2>4
      <4> QED
        BY <1>5, <2>3, <4>1
    <3>2. n + 1 \in c .. Len(text) + 1
      BY <1>1, <2>3
    <3> QED
      BY <1>4, <3>1, <3>2 DEF IsFirst
  <2>8. FirstOf(Char \ White, c) = n + 1
    BY <2>4, <2>7, FirstOnly
  <2>9. PastComments(Ahead) = n + 1
    BY <1>9, <2>2, <2>6, <2>8 DEF PastComments
  <2>10. ~Commented(n + 1)
    BY <1>4 DEF Commented
  <2>11. Begins = n + 1
    <3>1. Len(text) >= 1
      BY <1>1, <1>3
    <3> QED
      BY <2>9, <2>10, <3>1, BeginsAt
  <2> QED
    BY <1>4, <1>10, <2>11 DEF Refused
<1>14. CASE TooLongAt(text, q)
  <2>0. TokLen \in Nat \ {0}
    BY TokensAssumption DEF TokensAssumption
  <2>1. text[q] \notin {"quote", "/"} /\ q + TokLen - 1 <= n /\ \A r \in q .. q + TokLen - 1: text[r] \notin White
    BY <1>1, <1>14 DEF TooLongAt
  <2>2. Begins = q /\ At(Begins) # "quote"
    BY <1>4, <1>11, <2>1
  <2>3. IsFirst(White, q, TokenEnd)
    BY <1>3, <2>2, FirstIs DEF TokenEnd
  <2>4. TokenEnd \in q .. n + 1 /\ At(TokenEnd) \in White
    BY <1>1, <2>3 DEF IsFirst, White
  <2>5. TokenEnd >= q + TokLen
    <3>1. ASSUME TokenEnd < q + TokLen PROVE FALSE
      <4>1. TokenEnd \in q .. q + TokLen - 1 /\ TokenEnd \in 1 .. n
        BY <1>3, <2>0, <2>1, <2>4, <3>1
      <4> QED
        BY <1>5, <2>1, <2>4, <4>1
    <3> QED
      BY <1>3, <2>0, <2>4, <3>1
  <2>6. \A i \in q .. TokenEnd - 1: text[i] \in Char
    <3>1. \A i \in q .. TokenEnd - 1: i \in 1 .. n
      BY <1>3, <2>4
    <3> QED
      BY <1>5, <3>1
  <2>7. Len(SubSeq(text, q, TokenEnd - 1)) = IF q <= TokenEnd - 1 THEN TokenEnd - 1 - q + 1 ELSE 0
    <3>1. q \in Int /\ TokenEnd - 1 \in Int
      BY <1>3, <2>4
    <3> QED
      BY <2>6, <3>1, SubSeqProperties
  <2>8. Len(SubSeq(text, q, TokenEnd - 1)) >= TokLen
    BY <1>3, <2>0, <2>4, <2>5, <2>7
  <2>9. Token = SubSeq(text, q, TokenEnd - 1)
    BY <2>2 DEF Token
  <2> QED
    BY <1>10, <2>8, <2>9 DEF Refused
<1> QED
  BY <1>2, <1>12, <1>13, <1>14

TokensType ==
  /\ text \in Seq(Char) /\ place \in Places
  /\ Short(argv) /\ filled \in Nat /\ result \in Int

Counted ==
  /\ filled = SizeOf(argv) /\ filled <= TokLen /\ Len(argv) <= MaxTokens
  /\ result \in {-1, 0, Len(argv)}

Done(l) ==
  /\ argv = SubSeq(l.words, 1, Most(l.words))
  /\ result = IF l.spoilt /\ Most(l.words) \in {Len(l.words), MaxTokens} THEN 0 ELSE Most(l.words)

(* Behind the word k of a line, with the words so far or those that the    *)
(* tokens are numbered for.                                                *)
Within(k) == IF k <= MaxTokens THEN k ELSE MaxTokens
StandsBehind(ws, spoilt, A, E, k) ==
  /\ Spelled(text, ws, A, E) /\ Closed(text, E[Len(ws)], spoilt)
  /\ k \in 0 .. Len(ws) /\ place = E[k] /\ argv = SubSeq(ws, 1, Within(k))
Doing(l) == \E A, E, k: StandsBehind(l.words, l.spoilt, A, E, k)

Followed == \A l \in Lines: l.text = text /\ Short(l.words) => IF result = -1 THEN Doing(l) ELSE Done(l)

TokensInv == TokensType /\ Counted /\ Followed

LEMMA TokensNumbers == MaxText \in Nat /\ MaxTokens \in Nat \ {0} /\ TokLen \in Nat \ {0}
BY TokensAssumption DEF TokensAssumption

(* A token that is not refused is one of the text's.                       *)
LEMMA TokenIs ==
  ASSUME text \in Seq(Char), place \in Places, ~Refused
  PROVE  Token \in Seq(Char) /\ Len(Token) \in Nat /\ Len(Token) < TokLen /\ AfterToken \in Places
<1>1. /\ At(Begins) # "nul" /\ (At(Begins) = "quote" => At(Closing) = "quote") /\ ~(Len(Token) >= TokLen)
  BY DEF Refused, InQuotes
<1>2. Begins \in Places /\ Len(text) \in Nat
  BY BeginsAt, LenProperties
<1>3. Begins \in 1 .. Len(text)
  <2>1. Begins \in Nat \ {0} /\ Begins <= Len(text) + 1
    BY <1>2 DEF Places
  <2>2. ~(Begins > Len(text))
    BY <1>1, <2>1, AtIs
  <2> QED
    BY <1>2, <2>1, <2>2
<1>4. \A i \in 1 .. Len(text): text[i] \in Char
  OBVIOUS
<1>5. ASSUME NEW lo \in 1 .. Len(text) + 1, NEW hi \in 1 .. Len(text) + 1
      PROVE  SubSeq(text, lo, hi - 1) \in Seq(Char)
  <2>1. lo \in Int /\ hi - 1 \in Int /\ \A i \in lo .. hi - 1: i \in 1 .. Len(text)
    BY <1>2
  <2>2. \A i \in lo .. hi - 1: text[i] \in Char
    BY <1>4, <2>1
  <2> QED
    BY <2>1, <2>2, SubSeqProperties
<1>6. ASSUME At(Begins) = "quote" PROVE Token \in Seq(Char) /\ AfterToken \in Places
  <2>1. Begins + 1 \in Places /\ Begins + 1 \in 1 .. Len(text) + 1
    BY <1>2, <1>3 DEF Places
  <2>2. Closing \in Places
    BY <2>1, FirstPlace DEF Closing
  <2>3. Closing \in Nat \ {0} /\ Closing <= Len(text) + 1
    BY <1>2, <2>2 DEF Places
  <2>4. ~(Closing > Len(text))
    <3>1. At(Closing) = "quote"
      BY <1>1, <1>6
    <3> QED
      BY <2>3, <3>1, AtIs
  <2>5. Closing \in 1 .. Len(text) + 1 /\ Closing + 1 \in Places
    BY <1>2, <2>3, <2>4 DEF Places
  <2>6. TokenEnd = Closing
    BY <1>6 DEF TokenEnd
  <2>7. Token = SubSeq(text, Begins + 1, Closing - 1)
    BY <1>6, <2>6 DEF Token
  <2>8. AfterToken = Closing + 1
    BY <1>6, <2>6 DEF AfterToken
  <2>9. SubSeq(text, Begins + 1, Closing - 1) \in Seq(Char)
    BY <1>5, <2>1, <2>5
  <2>10. Token \in Seq(Char)
    BY <2>7, <2>9
  <2>11. AfterToken \in Places
    BY <2>5, <2>8
  <2> QED
    BY <2>10, <2>11
<1>7. ASSUME At(Begins) # "quote" PROVE Token \in Seq(Char) /\ AfterToken \in Places
  <2>1. TokenEnd = FirstOf(White, Begins)
    BY <1>7 DEF TokenEnd
  <2>2. TokenEnd \in Places
    BY <1>2, <2>1, FirstPlace
  <2>3. TokenEnd \in 1 .. Len(text) + 1 /\ Begins \in 1 .. Len(text) + 1
    BY <1>2, <2>2 DEF Places
  <2>4. Token = SubSeq(text, Begins, TokenEnd - 1)
    BY <1>7 DEF Token
  <2>5. AfterToken = TokenEnd
    BY <1>7 DEF AfterToken
  <2>6. SubSeq(text, Begins, TokenEnd - 1) \in Seq(Char)
    BY <1>5, <2>3
  <2>7. Token \in Seq(Char)
    BY <2>4, <2>6
  <2>8. AfterToken \in Places
    BY <2>2, <2>5
  <2> QED
    BY <2>7, <2>8
<1>8. Token \in Seq(Char) /\ AfterToken \in Places
  BY <1>6, <1>7
<1>9. Len(Token) \in Nat
  BY <1>8, LenProperties
<1> QED
  BY <1>1, <1>8, <1>9, TokensNumbers

LEMMA MostIs ==
  ASSUME NEW ws, NEW m, m \in Held(ws), Len(ws) \in Nat, \A j \in Held(ws): j <= m
  PROVE  Most(ws) = m
<1>1. \A j \in Held(ws): j \in Int
  BY DEF Held
<1>2. ASSUME NEW j \in Held(ws), \A k \in Held(ws): k <= j PROVE j = m
  <2>1. m <= j /\ j <= m /\ j \in Int /\ m \in Int
    BY <1>1, <1>2
  <2> QED
    BY <2>1
<1> QED
  BY <1>2 DEF Most

LEMMA HeldIs ==
  ASSUME NEW ws, NEW n
  PROVE  n \in Held(ws) <=> n \in 0 .. Len(ws) /\ n <= MaxTokens /\ SizeOf(SubSeq(ws, 1, n)) <= TokLen
BY DEF Held

(* Behind a word that is not the last, the tokenizer stands in front of    *)
(* the next one.                                                           *)
LEMMA BehindNext ==
  ASSUME TokensType, NEW ws, NEW spoilt, NEW A, NEW E, NEW k,
         StandsBehind(ws, spoilt, A, E, k), k < Len(ws)
  PROVE  /\ k + 1 \in 1 .. Len(ws) /\ Wordy(A[k + 1], ws[k + 1])
         /\ \E b: Facing(b, A[k + 1], E[k], E[k + 1])
<1>1. /\ text \in Seq(Char) /\ ws \in Seq(Seq(Char))
      /\ E \in [0 .. Len(ws) -> 1 .. Len(text) + 1]
      /\ \A i \in 1 .. Len(ws): Wordy(A[i], ws[i]) /\ Lies(text, A[i], E[i - 1], E[i])
      /\ \A i \in 1 .. Len(ws) - 1: E[i] \in 1 .. Len(text) /\ text[E[i]] = "blank"
      /\ Closed(text, E[Len(ws)], spoilt) /\ k \in 0 .. Len(ws) /\ place = E[k]
  BY DEF StandsBehind, Spelled
<1>2. PICK n \in Nat: n = Len(ws)
  BY <1>1, LenProperties
<1>3. Len(text) \in Nat
  BY <1>1, LenProperties
<1>4. k \in 0 .. n /\ k + 1 \in 1 .. n /\ k + 1 \in 0 .. n /\ k + 1 - 1 = k
  BY <1>1, <1>2
<1>5. Wordy(A[k + 1], ws[k + 1]) /\ Lies(text, A[k + 1], E[k], E[k + 1])
  <2>1. Wordy(A[k + 1], ws[k + 1]) /\ Lies(text, A[k + 1], E[k + 1 - 1], E[k + 1])
    BY <1>1, <1>2, <1>4
  <2> QED
    BY <1>4, <2>1
<1>6. E[k] \in 1 .. Len(text) + 1 /\ E[k + 1] \in 1 .. Len(text) + 1
  BY <1>1, <1>2, <1>4
<1>7. A[k + 1] \in Seq(Char) /\ Len(A[k + 1]) \in Nat \ {0}
  <2>1. A[k + 1] \in Seq(Char) /\ ws[k + 1] \in Seq(Char)
    BY <1>5 DEF Wordy
  <2>2. Len(A[k + 1]) \in Nat /\ Len(ws[k + 1]) \in Nat
    BY <2>1, LenProperties
  <2>3. CASE InMarks(A[k + 1], ws[k + 1])
    BY <2>1, <2>2, <2>3 DEF InMarks
  <2>4. CASE Unmarked(A[k + 1], ws[k + 1])
    BY <2>1, <2>2, <2>4 DEF Unmarked
  <2> QED
    BY <1>5, <2>3, <2>4 DEF Wordy
<1>8. At(E[k + 1]) \in White
  <2>1. PICK e \in 1 .. Len(text) + 1: e = E[k + 1]
    BY <1>6
  <2>2. e \in Nat \ {0} /\ e <= Len(text) + 1
    BY <1>3
  <2>3. CASE k + 1 < n
    <3>1. k + 1 \in 1 .. n - 1
      BY <1>4, <2>3
    <3>2. e \in 1 .. Len(text) /\ text[e] = "blank"
      BY <1>1, <1>2, <2>1, <3>1
    <3>3. At(e) = "blank"
      BY <1>1, <1>3, <2>2, <3>2, AtIs
    <3> QED
      BY <2>1, <3>3 DEF White
  <2>4. CASE k + 1 = n
    <3>0. Closed(text, e, spoilt)
      BY <1>1, <1>2, <2>1, <2>4
    <3>s. CASE Spoilt(text, e)
      <4>1. PICK q \in e + 1 .. Len(text): Spaces(text, e, q - 1)
        BY <3>s DEF Spoilt
      <4>2. e \in e .. q - 1 /\ e <= Len(text)
        BY <1>3, <2>2, <4>1
      <4>3. text[e] = "blank"
        BY <4>1, <4>2 DEF Spaces
      <4>4. At(e) = "blank"
        BY <1>1, <2>2, <4>2, <4>3, AtIs
      <4> QED
        BY <2>1, <4>4 DEF White
    <3>e. CASE Ended(text, e)
      <4>2. PICK q \in e .. Len(text) + 1: (q <= Len(text) => text[q] = "cr") /\ Spaces(text, e, q - 1)
        BY <3>e DEF Ended
      <4>3. CASE q = e
        <5>1. e <= Len(text) => At(e) = "cr"
          BY <1>1, <2>2, <4>2, <4>3, AtIs
        <5>2. ~(e <= Len(text)) => At(e) = "nul"
          BY <1>1, <1>3, <2>2, AtIs
        <5> QED
          BY <2>1, <5>1, <5>2 DEF White
      <4>4. CASE q # e
        <5>1. e \in e .. q - 1 /\ e <= Len(text)
          BY <1>3, <2>2, <4>2, <4>4
        <5>2. text[e] = "blank"
          BY <4>2, <5>1 DEF Spaces
        <5>3. At(e) = "blank"
          BY <1>1, <2>2, <5>1, <5>2, AtIs
        <5> QED
          BY <2>1, <5>3 DEF White
      <4> QED
        BY <4>3, <4>4
    <3> QED
      BY <3>0, <3>s, <3>e DEF Closed
  <2> QED
    BY <1>4, <2>3, <2>4
<1>9. PICK b \in E[k] .. E[k + 1]:
        /\ b + Len(A[k + 1]) = E[k + 1] /\ Spaces(text, E[k], b - 1)
        /\ \A i \in 1 .. Len(A[k + 1]): text[b + i - 1] = A[k + 1][i]
  BY <1>5 DEF Lies
<1>10. Facing(b, A[k + 1], E[k], E[k + 1])
  BY <1>1, <1>6, <1>7, <1>8, <1>9 DEF Facing
<1> QED
  BY <1>2, <1>4, <1>5, <1>10

(* Behind the last one it sees the end of the line, or what spoils it.     *)
LEMMA BehindSpoilt ==
  ASSUME TokensType, NEW ws, NEW spoilt, NEW A, NEW E, NEW k,
         StandsBehind(ws, spoilt, A, E, k), k = Len(ws), spoilt
  PROVE  At(Ahead) \notin {"cr", "nul"} /\ Refused
<1>1. text \in Seq(Char) /\ place \in Places /\ Spoilt(text, place)
  BY DEF StandsBehind, TokensType, Closed
<1> QED
  BY <1>1, SpoiltRefuses

LEMMA BehindLast ==
  ASSUME TokensType, NEW ws, NEW spoilt, NEW A, NEW E, NEW k,
         StandsBehind(ws, spoilt, A, E, k), k = Len(ws), ~spoilt
  PROVE  At(Ahead) \in {"cr", "nul"}
<1>1. text \in Seq(Char) /\ place \in Places /\ Ended(text, place)
  BY DEF StandsBehind, TokensType, Closed
<1>2. Len(text) \in Nat
  BY <1>1, LenProperties
<1>3. PICK q \in place .. Len(text) + 1: (q <= Len(text) => text[q] = "cr") /\ Spaces(text, place, q - 1)
  BY <1>1 DEF Ended
<1>4. place \in Nat \ {0} /\ q \in Nat \ {0} /\ q <= Len(text) + 1
  BY <1>1, <1>2, <1>3 DEF Places
<1>5. At(q) \in {"cr", "nul"}
  <2>1. q <= Len(text) => At(q) = "cr"
    BY <1>1, <1>3, <1>4, AtIs
  <2>2. ~(q <= Len(text)) => At(q) = "nul"
    BY <1>1, <1>2, <1>4, AtIs
  <2> QED
    BY <2>1, <2>2
<1>6. ASSUME NEW r \in place .. q - 1 PROVE At(r) = "blank"
  <2>1. r \in Nat \ {0} /\ r <= Len(text)
    BY <1>2, <1>4
  <2>2. text[r] = "blank"
    BY <1>3 DEF Spaces
  <2> QED
    BY <1>1, <2>1, <2>2, AtIs
<1>7. IsFirst(Char \ {"blank"}, place, q)
  <2>1. "cr" \in Char
    BY DEF Char
  <2>2. \A r \in place .. q - 1: At(r) \notin Char \ {"blank"}
    BY <1>6
  <2>3. At(q) \in (Char \ {"blank"}) \cup {"nul"}
    BY <1>5, <2>1
  <2> QED
    BY <1>3, <2>2, <2>3 DEF IsFirst
<1>8. Ahead = q
  BY <1>1, <1>4, <1>7, FirstOnly DEF Ahead
<1> QED
  BY <1>5, <1>8

LEMMA BehindCount ==
  ASSUME TokensType, NEW ws, Short(ws), NEW spoilt, NEW A, NEW E, NEW k,
         StandsBehind(ws, spoilt, A, E, k)
  PROVE  /\ Len(ws) \in Nat /\ k \in 0 .. Len(ws) /\ Within(k) \in 0 .. Len(ws) /\ Within(k) <= k
         /\ Within(k) <= MaxTokens /\ argv = SubSeq(ws, 1, Within(k)) /\ Len(argv) = Within(k)
<1>1. ws \in Seq(Seq(Char)) /\ k \in 0 .. Len(ws) /\ argv = SubSeq(ws, 1, Within(k))
  BY DEF StandsBehind, Short
<1>2. Len(ws) \in Nat
  BY <1>1, LenProperties
<1>3. Within(k) \in 0 .. Len(ws) /\ Within(k) <= k /\ Within(k) <= MaxTokens
  BY <1>1, <1>2, TokensNumbers DEF Within
<1>4. Len(argv) = Within(k)
  BY <1>1, <1>3, FirstWords
<1> QED
  BY <1>1, <1>2, <1>3, <1>4

(* Once it has seen all the words it has as many as there is room for.     *)
LEMMA MostAtEnd ==
  ASSUME TokensType, Counted, NEW ws, Short(ws), NEW spoilt, NEW A, NEW E, NEW k,
         StandsBehind(ws, spoilt, A, E, k), k = Len(ws)
  PROVE  Most(ws) = Within(k) /\ Within(k) \in {Len(ws), MaxTokens}
<1>1. /\ Len(ws) \in Nat /\ k \in 0 .. Len(ws) /\ Within(k) \in 0 .. Len(ws) /\ Within(k) <= MaxTokens
      /\ argv = SubSeq(ws, 1, Within(k)) /\ Len(argv) = Within(k)
  BY BehindCount
<1>2. SizeOf(SubSeq(ws, 1, Within(k))) <= TokLen
  BY <1>1 DEF Counted
<1>3. Within(k) \in Held(ws)
  BY <1>1, <1>2, HeldIs
<1>4. ASSUME NEW j \in Held(ws) PROVE j <= Within(k)
  <2>1. j \in 0 .. Len(ws) /\ j <= MaxTokens
    BY HeldIs
  <2> QED
    BY <1>1, <2>1, TokensNumbers DEF Within
<1>5. Most(ws) = Within(k)
  BY <1>1, <1>3, <1>4, MostIs
<1> QED
  BY <1>5 DEF Within

(* What a step does for one line.                                          *)
LEMMA NextWordIs ==
  ASSUME TokensType, NEW l, Short(l.words), NEW A, NEW E, NEW k,
         StandsBehind(l.words, l.spoilt, A, E, k), k < Len(l.words)
  PROVE  /\ At(Ahead) \notin {"cr", "nul"} /\ k + 1 \in 1 .. Len(l.words) /\ ~Refused
         /\ Token = l.words[k + 1] /\ AfterToken = E[k + 1]
<1>5. k + 1 \in 1 .. Len(l.words) /\ Wordy(A[k + 1], l.words[k + 1])
  BY BehindNext
<1>6. PICK b: Facing(b, A[k + 1], E[k], E[k + 1])
  BY BehindNext
<1>7. Len(l.words[k + 1]) < TokLen
  BY <1>5 DEF Short
<1>8. At(Ahead) \notin {"cr", "nul"} /\ ~Refused
  BY <1>5, <1>6, <1>7, FacingParses
<1>9. Token = l.words[k + 1] /\ AfterToken = E[k + 1]
  BY <1>5, <1>6, FacingToken
<1> QED
  BY <1>5, <1>8, <1>9

LEMMA EndsDone ==
  ASSUME TokensType, Counted, NEW l, Short(l.words), l.spoilt \in BOOLEAN, NEW A, NEW E, NEW k,
         StandsBehind(l.words, l.spoilt, A, E, k), LineEnds
  PROVE  Done(l)'
<1>1. /\ Len(l.words) \in Nat /\ k \in 0 .. Len(l.words) /\ Within(k) \in 0 .. Len(l.words)
      /\ argv = SubSeq(l.words, 1, Within(k)) /\ Len(argv) = Within(k)
  BY BehindCount
<1>2. At(Ahead) \in {"cr", "nul"}
  BY DEF LineEnds
<1>3. k = Len(l.words)
  <2>1. ~(k < Len(l.words))
    BY <1>2, NextWordIs
  <2> QED
    BY <1>1, <2>1
<1>4. ~l.spoilt
  BY <1>2, <1>3, BehindSpoilt
<1>5. Most(l.words) = Within(k)
  BY <1>3, MostAtEnd
<1>6. result' = Most(l.words) /\ argv' = SubSeq(l.words, 1, Most(l.words))
  BY <1>1, <1>5 DEF LineEnds
<1>7. (IF l.spoilt /\ Most(l.words) \in {Len(l.words), MaxTokens} THEN 0 ELSE Most(l.words)) = Most(l.words)
  BY <1>4
<1> QED
  BY <1>6, <1>7 DEF Done, Most, Held, SizeOf, BufferCells

LEMMA FailsDone ==
  ASSUME TokensType, Counted, NEW l, Short(l.words), l.spoilt \in BOOLEAN, NEW A, NEW E, NEW k,
         StandsBehind(l.words, l.spoilt, A, E, k), ParseFails
  PROVE  Done(l)'
<1>1. /\ Len(l.words) \in Nat /\ k \in 0 .. Len(l.words) /\ argv = SubSeq(l.words, 1, Within(k))
  BY BehindCount
<1>2. At(Ahead) \notin {"cr", "nul"} /\ Refused /\ result' = 0 /\ argv' = argv
  BY DEF ParseFails, Parses
<1>3. k = Len(l.words)
  <2>1. ~(k < Len(l.words))
    BY <1>2, NextWordIs
  <2> QED
    BY <1>1, <2>1
<1>4. l.spoilt
  BY <1>2, <1>3, BehindLast
<1>5. Most(l.words) = Within(k) /\ Within(k) \in {Len(l.words), MaxTokens}
  BY <1>3, MostAtEnd
<1>6. argv' = SubSeq(l.words, 1, Most(l.words)) /\ result' = 0 /\ Most(l.words) \in {Len(l.words), MaxTokens}
  BY <1>1, <1>2, <1>5
<1> QED
  BY <1>4, <1>6 DEF Done, Most, Held, SizeOf, BufferCells

LEMMA TakesWord ==
  ASSUME TokensType, Counted, NEW l, Short(l.words), l.spoilt \in BOOLEAN, NEW A, NEW E, NEW k,
         StandsBehind(l.words, l.spoilt, A, E, k), TakeToken
  PROVE  IF result' = -1 THEN StandsBehind(l.words, l.spoilt, A, E, k + 1)' ELSE Done(l)'
<1> DEFINE ws == l.words
<1>0. Short(ws) /\ StandsBehind(ws, l.spoilt, A, E, k) /\ ws \in Seq(Seq(Char))
  BY DEF Short
<1>1. /\ Len(ws) \in Nat /\ k \in 0 .. Len(ws) /\ Within(k) \in 0 .. Len(ws) /\ Within(k) <= k
      /\ Within(k) <= MaxTokens /\ argv = SubSeq(ws, 1, Within(k)) /\ Len(argv) = Within(k)
  BY BehindCount
<1>2. k < Len(ws) /\ k + 1 \in 1 .. Len(ws) /\ Token = ws[k + 1] /\ AfterToken = E[k + 1]
  <2>1. ~Refused /\ At(Ahead) \notin {"cr", "nul"}
    BY DEF TakeToken, Parses
  <2>2. k # Len(ws)
    BY <2>1, BehindSpoilt, BehindLast
  <2>3. k < Len(ws)
    BY <1>1, <2>2
  <2> QED
    BY <2>3, NextWordIs
<1> HIDE DEF ws
<1>3. result = -1 /\ place' = AfterToken /\ text' = text
  BY DEF TakeToken, Parses
<1>4. k + 1 \in 0 .. Len(ws) /\ k \in Nat
  BY <1>1, <1>2
<1>5. ASSUME argv' = SubSeq(ws, 1, Within(k + 1)) PROVE StandsBehind(ws, l.spoilt, A, E, k + 1)'
  <2>1. Spelled(text, ws, A, E) /\ Closed(text, E[Len(ws)], l.spoilt)
    BY <1>0 DEF StandsBehind
  <2>2. Spelled(text', ws, A, E) /\ Closed(text', E[Len(ws)], l.spoilt)
    BY <1>3, <2>1
  <2>3. k + 1 \in 0 .. Len(ws) /\ place' = E[k + 1] /\ argv' = SubSeq(ws, 1, Within(k + 1))
    BY <1>2, <1>3, <1>4, <1>5
  <2> QED
    BY <2>2, <2>3 DEF StandsBehind
<1>6. CASE Len(argv) >= MaxTokens
  <2>1. argv' = argv /\ result' = result
    BY <1>6 DEF TakeToken
  <2>2. Within(k + 1) = Within(k)
    BY <1>1, <1>4, <1>6, TokensNumbers DEF Within
  <2> QED
    BY <1>1, <1>3, <1>5, <2>1, <2>2 DEF ws
<1>7. CASE ~(Len(argv) >= MaxTokens) /\ Room
  <2>1. argv' = Append(argv, Token) /\ result' = result
    BY <1>7 DEF TakeToken
  <2>2. Within(k) = k /\ Within(k + 1) = k + 1
    BY <1>1, <1>4, <1>7, TokensNumbers DEF Within
  <2>3. Append(SubSeq(ws, 1, k), ws[k + 1]) = SubSeq(ws, 1, k + 1)
    BY <1>0, <1>1, <1>2, NextWord
  <2> QED
    BY <1>1, <1>2, <1>3, <1>5, <2>1, <2>2, <2>3 DEF ws
<1>8. CASE ~(Len(argv) >= MaxTokens) /\ ~Room
  <2>1. argv' = argv /\ result' = Len(argv)
    BY <1>8 DEF TakeToken
  <2>2. Within(k) = k
    BY <1>1, <1>4, <1>8, TokensNumbers DEF Within
  <2>3. result' = k /\ argv' = SubSeq(ws, 1, k) /\ result' # -1
    BY <1>1, <1>4, <2>1, <2>2
  <2>4. SizeOf(SubSeq(ws, 1, k)) = filled /\ filled <= TokLen /\ filled \in Nat
    BY <1>1, <2>2 DEF Counted, TokensType
  <2>5. SizeOf(SubSeq(ws, 1, k + 1)) = filled + Len(ws[k + 1]) + 1
    <3>1. Append(SubSeq(ws, 1, k), ws[k + 1]) = SubSeq(ws, 1, k + 1)
      BY <1>0, <1>1, <1>2, NextWord
    <3>2. Short(SubSeq(ws, 1, k))
      BY <1>0, <1>1, FirstShort
    <3>3. ws[k + 1] \in Seq(Char)
      BY <1>0, <1>2
    <3>4. SizeOf(Append(SubSeq(ws, 1, k), ws[k + 1])) = SizeOf(SubSeq(ws, 1, k)) + Len(ws[k + 1]) + 1
      BY <3>2, <3>3, SizeAppend
    <3> QED
      BY <2>4, <3>1, <3>4
  <2>6. ~(filled + Len(ws[k + 1]) + 1 <= TokLen)
    BY <1>2, <1>8 DEF Room
  <2>7. Most(ws) = k
    <3>1. k \in Held(ws)
      BY <1>1, <2>2, <2>4, HeldIs
    <3>2. ASSUME NEW j \in Held(ws) PROVE j <= k
      <4>1. j \in 0 .. Len(ws) /\ SizeOf(SubSeq(ws, 1, j)) <= TokLen
        BY HeldIs
      <4>2. ASSUME ~(j <= k) PROVE FALSE
        <5>1. k + 1 <= j
          BY <1>4, <4>1, <4>2
        <5>2. SizeOf(SubSeq(ws, 1, k + 1)) <= SizeOf(SubSeq(ws, 1, j))
          BY <1>0, <1>4, <4>1, <5>1, SizeGrows
        <5>3. Len(ws[k + 1]) \in Nat
          <6>1. ws[k + 1] \in Seq(Char)
            BY <1>0, <1>2
          <6> QED
            BY <6>1, LenProperties
        <5>4. SizeOf(SubSeq(ws, 1, j)) \in Nat
          <6>1. Short(SubSeq(ws, 1, j))
            BY <1>0, <4>1, FirstShort
          <6> QED
            BY <6>1, CellsFinite, FS_CardinalityType DEF SizeOf
        <5> QED
          BY <2>4, <2>5, <2>6, <4>1, <5>2, <5>3, <5>4, TokensNumbers
      <4> QED
        BY <4>2
    <3> QED
      BY <1>1, <3>1, <3>2, MostIs
  <2>8. Done(l)'
    <3>1. k # Len(ws) /\ k # MaxTokens
      BY <1>1, <1>2, <1>8, <2>2, TokensNumbers
    <3>2. result' = Most(ws) /\ argv' = SubSeq(ws, 1, Most(ws)) /\ Most(ws) \notin {Len(ws), MaxTokens}
      BY <2>3, <2>7, <3>1
    <3>3. (IF l.spoilt /\ Most(ws) \in {Len(ws), MaxTokens} THEN 0 ELSE Most(ws)) = Most(ws)
      BY <3>2
    <3> QED
      BY <3>2, <3>3 DEF Done, ws, Most, Held, SizeOf, BufferCells
  <2> QED
    BY <2>3, <2>8
<1> QED
  BY <1>6, <1>7, <1>8

LEMMA TokensStart == TokensInit => TokensInv
<1> SUFFICES ASSUME TokensInit PROVE TokensInv
  OBVIOUS
<1>1. /\ text \in {l.text: l \in Lines} \cup TextsOf(Char, MaxText)
      /\ place = 1 /\ argv = <<>> /\ filled = 0 /\ result = -1
  BY DEF TokensInit
<1>2. text \in Seq(Char)
  <2>1. CASE text \in {l.text: l \in Lines}
    <3>1. PICK l \in Lines: text = l.text
      BY <2>1
    <3> QED
      BY <3>1, LinesWritten DEF Written, Spelled
  <2>2. CASE text \in TextsOf(Char, MaxText)
    <3>1. PICK n \in 0 .. MaxText: text \in [1 .. n -> Char]
      BY <2>2 DEF TextsOf
    <3>2. n \in Nat
      BY TokensNumbers
    <3> QED
      BY <3>1, <3>2
  <2> QED
    BY <1>1, <2>1, <2>2
<1>3. Len(text) \in Nat
  BY <1>2, LenProperties
<1>4. argv \in Seq(Seq(Char)) /\ Len(argv) = 0
  BY <1>1
<1>5. Short(argv)
  BY <1>4 DEF Short
<1>6. TokensType
  BY <1>1, <1>2, <1>3, <1>5 DEF TokensType, Places
<1>7. Counted
  BY <1>1, <1>4, SizeEmpty, TokensNumbers DEF Counted
<1>8. ASSUME NEW l \in Lines, l.text = text, Short(l.words) PROVE Doing(l)
  <2>1. PICK A, E: Spelled(text, l.words, A, E) /\ Closed(text, E[Len(l.words)], l.spoilt)
    BY <1>8, LinesWritten DEF Written
  <2>2. E[0] = 1 /\ l.words \in Seq(Seq(Char))
    BY <2>1 DEF Spelled
  <2>3. Len(l.words) \in Nat /\ 0 \in 0 .. Len(l.words)
    BY <2>2, LenProperties
  <2>4. Within(0) = 0
    BY TokensNumbers DEF Within
  <2>5. SubSeq(l.words, 1, 0) = <<>>
    BY SubSeqEmpty
  <2>6. StandsBehind(l.words, l.spoilt, A, E, 0)
    BY <1>1, <2>1, <2>2, <2>3, <2>4, <2>5 DEF StandsBehind
  <2> QED
    BY <2>6 DEF Doing
<1>9. Followed
  BY <1>1, <1>8 DEF Followed
<1> QED
  BY <1>6, <1>7, <1>9 DEF TokensInv

LEMMA TokensCount == TokensInv /\ TokensNext => TokensType' /\ Counted'
<1> SUFFICES ASSUME TokensInv, TokensNext PROVE TokensType' /\ Counted'
  OBVIOUS
<1>1. TokensType /\ Counted
  BY DEF TokensInv
<1>2. Short(argv) /\ argv \in Seq(Seq(Char)) /\ Len(argv) \in Nat
  <2>1. Short(argv) /\ argv \in Seq(Seq(Char))
    BY <1>1 DEF TokensType, Short
  <2> QED
    BY <2>1, LenProperties
<1>3. text' = text
  BY DEF TokensNext, LineEnds, ParseFails, TakeToken, tokensVars
<1>4. Places' = Places /\ text' \in Seq(Char)
  BY <1>1, <1>3 DEF Places, TokensType
<1>5. CASE argv' = argv /\ filled' = filled /\ place' \in Places /\ result' \in {-1, 0, Len(argv)}
  <2>1. result' \in Int
    BY <1>2, <1>5
  <2>2. Short(argv')
    BY <1>2, <1>5
  <2>3. TokensType'
    BY <1>1, <1>4, <1>5, <2>1, <2>2 DEF TokensType, Short
  <2>4. Counted'
    BY <1>1, <1>5 DEF Counted, SizeOf, BufferCells
  <2> QED
    BY <2>3, <2>4
<1>6. CASE LineEnds
  BY <1>1, <1>5, <1>6 DEF LineEnds, TokensType
<1>7. CASE ParseFails
  BY <1>1, <1>5, <1>7 DEF ParseFails, TokensType
<1>8. CASE TakeToken
  <2>1. Token \in Seq(Char) /\ Len(Token) \in Nat /\ Len(Token) < TokLen /\ AfterToken \in Places
    BY <1>1, <1>8, TokenIs DEF TokensType, TakeToken
  <2>2. place' \in Places /\ result = -1
    BY <1>8, <2>1 DEF TakeToken, Parses
  <2>3. CASE Len(argv) >= MaxTokens
    BY <1>5, <1>8, <2>2, <2>3 DEF TakeToken
  <2>4. CASE ~(Len(argv) >= MaxTokens) /\ ~Room
    BY <1>5, <1>8, <2>2, <2>4 DEF TakeToken
  <2>5. CASE ~(Len(argv) >= MaxTokens) /\ Room
    <3>1. argv' = Append(argv, Token) /\ filled' = filled + Len(Token) + 1 /\ result' = result
      BY <1>8, <2>5 DEF TakeToken
    <3>2. /\ Append(argv, Token) \in Seq(Seq(Char)) /\ Len(Append(argv, Token)) = Len(argv) + 1
          /\ \A i \in 1 .. Len(argv): Append(argv, Token)[i] = argv[i]
          /\ Append(argv, Token)[Len(argv) + 1] = Token
      BY <1>2, <2>1, AppendProperties
    <3>3. Short(Append(argv, Token))
      <4>1. ASSUME NEW i \in 1 .. Len(argv) + 1 PROVE Len(Append(argv, Token)[i]) < TokLen
        <5>1. i \in 1 .. Len(argv) \/ i = Len(argv) + 1
          BY <1>2
        <5>2. CASE i \in 1 .. Len(argv)
          BY <1>2, <3>2, <5>2 DEF Short
        <5>3. CASE i = Len(argv) + 1
          BY <2>1, <3>2, <5>3
        <5> QED
          BY <5>1, <5>2, <5>3
      <4> QED
        BY <3>2, <4>1 DEF Short
    <3>4. SizeOf(Append(argv, Token)) = SizeOf(argv) + Len(Token) + 1
      BY <1>2, <2>1, SizeAppend
    <3>5. TokensType'
      <4>1. Short(argv')
        BY <3>1, <3>3
      <4>2. filled' \in Nat /\ result' \in Int
        BY <1>1, <2>1, <3>1 DEF TokensType
      <4> QED
        BY <1>4, <2>2, <4>1, <4>2 DEF TokensType, Short
    <3>6. Counted'
      <4>1. SizeOf(argv') = filled'
        BY <1>1, <3>1, <3>4 DEF Counted
      <4>2. filled' <= TokLen
        BY <2>5, <3>1 DEF Room
      <4>3. Len(argv') <= MaxTokens
        BY <1>2, <2>5, <3>1, <3>2, TokensNumbers
      <4>4. result' = -1
        BY <2>2, <3>1
      <4> QED
        BY <4>1, <4>2, <4>3, <4>4 DEF Counted, SizeOf, BufferCells
    <3> QED
      BY <3>5, <3>6
  <2> QED
    BY <2>3, <2>4, <2>5
<1>9. CASE UNCHANGED tokensVars
  BY <1>1, <1>5, <1>9 DEF tokensVars, TokensType, Counted
<1> QED
  BY <1>6, <1>7, <1>8, <1>9 DEF TokensNext

LEMMA TokensFollow == TokensInv /\ TokensNext => Followed'
<1> SUFFICES ASSUME TokensInv, TokensNext, NEW l \in Lines, l.text = text', Short(l.words)
             PROVE  IF result' = -1 THEN Doing(l)' ELSE Done(l)'
  BY DEF Followed, Short
<1>1. TokensType /\ Counted /\ Followed
  BY DEF TokensInv
<1>2. l.text = text
  BY DEF TokensNext, LineEnds, ParseFails, TakeToken, tokensVars
<1>s. l.spoilt \in BOOLEAN
  BY LinesWritten
<1>3. IF result = -1 THEN Doing(l) ELSE Done(l)
  BY <1>1, <1>2 DEF Followed
<1>4. CASE result # -1
  <2>1. result' = result /\ argv' = argv
    BY <1>4 DEF TokensNext, LineEnds, ParseFails, TakeToken, Parses, tokensVars
  <2> QED
    BY <1>3, <1>4, <2>1 DEF Done, Most, Held, SizeOf, BufferCells
<1>5. CASE result = -1
  <2>1. PICK A, E, k: StandsBehind(l.words, l.spoilt, A, E, k)
    BY <1>3, <1>5 DEF Doing
  <2>2. CASE LineEnds
    <3>1. Done(l)'
      BY <1>1, <1>s, <2>1, <2>2, EndsDone
    <3>2. Len(argv) \in Nat
      BY <1>1, <2>1, BehindCount
    <3>3. result' # -1
      BY <2>2, <3>2 DEF LineEnds
    <3> QED
      BY <3>1, <3>3
  <2>3. CASE ParseFails
    <3>1. Done(l)'
      BY <1>1, <1>s, <2>1, <2>3, FailsDone
    <3>2. result' # -1
      BY <2>3 DEF ParseFails
    <3> QED
      BY <3>1, <3>2
  <2>4. CASE TakeToken
    <3>1. IF result' = -1 THEN StandsBehind(l.words, l.spoilt, A, E, k + 1)' ELSE Done(l)'
      BY <1>1, <1>s, <2>1, <2>4, TakesWord
    <3> QED
      BY <3>1 DEF Doing
  <2> QED
    BY <1>5, <2>2, <2>3, <2>4 DEF TokensNext
<1> QED
  BY <1>4, <1>5

LEMMA TokensRightly == TokensInv => TokensRight
<1> SUFFICES ASSUME TokensInv PROVE TokensRight
  OBVIOUS
<1>1. TokensType /\ Counted /\ Followed
  BY DEF TokensInv
<1>2. ASSUME result # -1, NEW l \in {k \in Lines: k.text = text}, \A i \in DOMAIN l.words: Len(l.words[i]) < TokLen
      PROVE  Done(l)
  <2>1. l.words \in Seq(Seq(Char))
    BY LinesWritten DEF Written, Spelled
  <2>2. DOMAIN l.words = 1 .. Len(l.words)
    BY <2>1, LenProperties
  <2>3. Short(l.words)
    BY <1>2, <2>1, <2>2 DEF Short
  <2> QED
    BY <1>1, <1>2, <2>3 DEF Followed
<1> QED
  BY <1>1, <1>2 DEF TokensRight, Counted, Done

(* The tokens fill the buffer one behind the other whatever the text is,   *)
(* and a line of words becomes those words, as many as there is room for;  *)
(* with a comment, an open quote or a word too long behind them it becomes *)
(* nothing, unless the room was used up before (TokensRight).              *)
THEOREM WordsAreTokens == TokensSpec => []TokensRight
<1>1. TokensInit => TokensInv
  BY TokensStart
<1>2. TokensInv /\ [TokensNext]_tokensVars => TokensInv'
  <2> SUFFICES ASSUME TokensInv, [TokensNext]_tokensVars PROVE TokensInv'
    OBVIOUS
  <2>1. TokensNext \/ UNCHANGED tokensVars
    OBVIOUS
  <2>2. CASE TokensNext
    BY <2>2, TokensCount, TokensFollow DEF TokensInv
  <2>3. CASE UNCHANGED tokensVars
    <3>1. CASE result = -1
      BY <2>3, <3>1 DEF TokensInv, tokensVars, TokensType, Counted, Followed, Places, Doing, Done, StandsBehind, Most, Held
    <3>2. CASE result # -1
      <4>1. TokensNext
        BY <2>3, <3>2 DEF TokensNext
      <4> QED
        BY <2>2, <4>1
    <3> QED
      BY <3>1, <3>2
  <2> QED
    BY <2>1, <2>2, <2>3
<1>3. TokensInv => TokensRight
  BY TokensRightly
<1> QED
  BY <1>1, <1>2, <1>3, PTL DEF TokensSpec

-----------------------------------------------------------------------------
(* Types.                                                                  *)

(* The pools and their blocks keep their types, whatever fails or is freed *)
(* twice (mem.c).                                                          *)
THEOREM PoolsTyped == PoolsSpec => []PoolsType
<1>1. PoolsInv => PoolsType
  BY DEF PoolsInv
<1> QED
  BY <1>1, PoolsStart, PoolsKeep, PTL DEF PoolsSpec

(* So do the open files and their descriptors, whatever open fails half-   *)
(* way (fs.c).                                                             *)
THEOREM FilesTyped == FilesSpec => []FilesType
<1>1. FilesInv => FilesType
  BY DEF FilesInv
<1>2. FilesInv /\ [FilesNext]_filesVars => FilesInv'
  BY FilesKeep
<1> QED
  BY <1>1, <1>2, FilesStart, PTL DEF FilesSpec
=============================================================================
