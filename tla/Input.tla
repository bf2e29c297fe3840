------------------------------- MODULE Input --------------------------------
(***************************************************************************)
(* Keys (src/src/video/video_sdl.c, src/src/input/keyboard.c).  SDL queues *)
(* what the user does; video_frame takes all events from the queue; each   *)
(* may add the text bound to a key to the command buffer, as pressed or as *)
(* released; the commands run when the queue is empty, and may bind keys.  *)
(*                                                                         *)
(* A text counts as heard from its key-down on, until its key-up; a game   *)
(* moves as long as that.  Left out: the mouse and what toggling full      *)
(* screen and the grab do, which is nothing to the keys.                   *)
(***************************************************************************)
EXTENDS Integers, Sequences, FiniteSets, Shared

CONSTANTS
  Key,        (* Keys that can be bound.                                     *)
  ENTER,      (* Two of them that the engine uses itself, or none.           *)
  BACKQUOTE,
  Binding,    (* What keys are bound to.                                     *)
  MaxEvents   (* Bound: events queued in one frame.                          *)

ASSUME InputAssumption ==
  NONE \notin Binding /\ MaxEvents \in Nat /\ IsFiniteSet(Key)

VARIABLES
  down,       (* The keys that SDL knows to be down.                         *)
  alt,        (* ALT is down.                                                *)
  events,     (* The queue.                                                  *)
  frame,      (* "wait" for the next frame, "poll" the queue, "run" commands.*)
  grabbed,    (* input_grabbed.                                              *)
  binds,      (* key_binds and key_special_binds in one.                     *)
  heard,      (* The texts of a key that commands believe to be pressed.     *)
  excused     (* History: those whose key-up is known to be lost.            *)

inputVars == <<down, alt, events, frame, grabbed, binds, heard, excused>>

InputInit ==
  /\ down = {} /\ alt = FALSE /\ events = <<>>
  /\ frame = "wait" /\ grabbed = TRUE
  /\ binds = [k \in Key |-> NONE]
  /\ heard = [k \in Key |-> {}] /\ excused = [k \in Key |-> {}]

KeyEvent(k, pressed) == [type |-> "key", key |-> k, mod |-> alt, down |-> pressed]
Active(gain)         == [type |-> "active", key |-> NONE, mod |-> FALSE, down |-> gain]

-----------------------------------------------------------------------------
(* SDL.                                                                    *)

Enqueue(new) ==
  /\ frame # "run" /\ Len(events) + Len(new) <= MaxEvents
  /\ events' = events \o new
  /\ UNCHANGED <<frame, grabbed, binds, heard, excused>>

(* Also the repeats of a key that is down.                                 *)
KeyDown(k) == Enqueue(<<KeyEvent(k, TRUE)>>) /\ down' = down \cup {k} /\ UNCHANGED alt
KeyUp(k) == k \in down /\ Enqueue(<<KeyEvent(k, FALSE)>>) /\ down' = down \ {k} /\ UNCHANGED alt
Alt == Enqueue(<<>>) /\ alt' = ~alt /\ UNCHANGED down

(* The window is shown, hidden or gets the focus.                          *)
Activate(gain) == Enqueue(<<Active(gain)>>) /\ UNCHANGED <<down, alt>>

(* It loses the focus: SDL releases the keys, after saying so.             *)
Releases == {s \in [1..Cardinality(down) -> down]: \A k \in down: \E i \in DOMAIN s: s[i] = k}
LoseFocus ==
  /\ \E order \in Releases:
       Enqueue(<<Active(FALSE)>> \o [i \in DOMAIN order |-> KeyEvent(order[i], FALSE)])
  /\ down' = {}
  /\ UNCHANGED alt

-----------------------------------------------------------------------------
(* The engine.                                                             *)

(* video_frame begins.                                                     *)
BeginPoll ==
  /\ frame = "wait" /\ frame' = "poll"
  /\ UNCHANGED <<down, alt, events, grabbed, binds, heard, excused>>

(* Fault: key_event does not ask whether a key of its own goes down.       *)
TakenUp(e) == (e.key = ENTER /\ e.mod) \/ e.key = BACKQUOTE

(* Keys that key_event keeps to itself.                                    *)
Taken(e) == e.down /\ ((e.key = ENTER /\ e.mod) \/ e.key = BACKQUOTE)

(* cmdbuf_add of the text a key is bound to.                               *)
Bound(k) == {binds[k]} \ {NONE}
TextAdded(e) ==
  /\ heard' = [heard EXCEPT ![e.key] = IF e.down THEN @ \cup Bound(e.key) ELSE @ \ Bound(e.key)]
  /\ excused' = [excused EXCEPT ![e.key] = @ \ Bound(e.key)]

(* The command buffer has no room for it.                                  *)
Overflows(e) ==
  /\ Bound(e.key) # {}
  /\ excused' = IF e.down THEN excused ELSE [excused EXCEPT ![e.key] = @ \cup (heard[e.key] \cap Bound(e.key))]
  /\ UNCHANGED heard

(* key_event, called if input_grabbed.                                     *)
KeyPolled(e) ==
  IF ~grabbed \/ Taken(e) THEN UNCHANGED <<heard, excused>>
  ELSE TextAdded(e) \/ Overflows(e)

Poll ==
  /\ frame = "poll" /\ events # <<>>
  /\ events' = Tail(events)
  /\ IF Head(events).type = "key"
     THEN KeyPolled(Head(events)) /\ UNCHANGED grabbed
     ELSE /\ grabbed' = Head(events).down
          /\ excused' = IF grabbed' THEN excused ELSE heard
          /\ UNCHANGED heard
  /\ UNCHANGED <<down, alt, frame, binds>>

PollDone ==
  /\ frame = "poll" /\ events = <<>>
  /\ frame' = "run"
  /\ UNCHANGED <<down, alt, events, grabbed, binds, heard, excused>>

(* bind_f; what the key was bound to will not hear of its release.         *)
BindKey(k, t) ==
  /\ frame = "run"
  /\ binds' = [binds EXCEPT ![k] = t]
  /\ excused' = [excused EXCEPT ![k] = @ \cup (heard[k] \ {t})]
  /\ UNCHANGED <<down, alt, events, frame, grabbed, heard>>

RunDone ==
  /\ frame = "run" /\ frame' = "wait"
  /\ UNCHANGED <<down, alt, events, grabbed, binds, heard, excused>>

InputNext ==
  \/ \E k \in Key: KeyDown(k)
  \/ \E k \in Key: KeyUp(k)
  \/ Alt
  \/ \E gain \in BOOLEAN: Activate(gain)
  \/ LoseFocus
  \/ BeginPoll
  \/ Poll
  \/ PollDone
  \/ \E k \in Key, t \in Binding: BindKey(k, t)
  \/ RunDone

InputSpec == InputInit /\ [][InputNext]_inputVars

-----------------------------------------------------------------------------
(* Properties.                                                             *)

InputType ==
  /\ down \subseteq Key /\ alt \in BOOLEAN
  /\ events \in Seq([type: {"key", "active"}, key: Key \cup {NONE}, mod: BOOLEAN, down: BOOLEAN])
  /\ frame \in {"wait", "poll", "run"} /\ grabbed \in BOOLEAN
  /\ binds \in [Key -> Binding \cup {NONE}]
  /\ heard \in [Key -> SUBSET Binding] /\ excused \in [Key -> SUBSET Binding]

(* When commands run, whatever believes that its key is pressed is right,  *)
(* unless the window was left, the key was bound anew or there was no room *)
(* for the text in the meantime, also for keys that go down alone and up   *)
(* with ALT, or are repeated.                                              *)
KeysReleased ==
  /\ InputType
  /\ frame = "run" => \A k \in Key: heard[k] \subseteq excused[k] \/ k \in down

=============================================================================
