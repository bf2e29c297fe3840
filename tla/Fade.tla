-------------------------------- MODULE Fade --------------------------------
(***************************************************************************)
(* The fade of an entity (src/src/game/g_render_fade.c): its alpha goes    *)
(* from what it was to alpha_end within length, by g_real_time (g_main.c), *)
(* and at the end the entity is made to think, once.  The clock may be set *)
(* back, g_speed may change, fields may be assigned while a fade runs, and *)
(* time passes between the two readings of one draw.                       *)
(*                                                                         *)
(* Whole numbers, quotients are rounded down; the clock counts from        *)
(* g_start_time.                                                           *)
(***************************************************************************)
EXTENDS Integers

CONSTANTS
  MaxClock,   (* Bound: the clock.                                           *)
  Speeds,     (* The values of g_speed.                                      *)
  Alphas,     (* The values game code assigns to alpha and alpha_end,        *)
  Lengths,    (* and to length.                                              *)
  MaxAlpha    (* Bound: what an alpha may come to, either way.               *)

ASSUME FadeAssumption ==
  /\ MaxClock \in Nat /\ Speeds \subseteq Nat \ {0} /\ Lengths \subseteq Int
  /\ Alphas \subseteq Int /\ MaxAlpha \in Nat

VARIABLES
  clock,      (* sys_get_time() - g_start_time.                              *)
  speed,      (* g_speed.                                                    *)
  plugged,    (* The renderer of the entity is fade.                         *)
  alpha, alphaEnd, length,                  (* The fields,                   *)
  alphaStart, timeStart, finished, visible, (* done and ent->render_valid.   *)
  thinks,     (* History: how often this fade has made the entity think.     *)
  steady      (* History: nothing has been changed since the fade began from *)
              (* the alpha it had, at the time it was.                       *)

fadeFields == <<plugged, alpha, alphaEnd, length, alphaStart, timeStart, finished, visible>>
fadeVars   == <<clock, speed, fadeFields, thinks, steady>>

FadeInit ==
  /\ clock = 0 /\ speed \in Speeds
  /\ plugged = FALSE /\ alpha = 0 /\ alphaEnd = 0 /\ length = 0
  /\ alphaStart = 0 /\ timeStart = 0 /\ finished = FALSE /\ visible = FALSE
  /\ thinks = 0 /\ steady = FALSE

-----------------------------------------------------------------------------
(* Time.                                                                   *)

RealTime(t) == t * speed

(* sys_get_time adds the difference whether it is positive or not.         *)
SetClock(t) ==
  /\ clock' = t
  /\ steady' = (steady /\ t >= clock)
  /\ UNCHANGED <<speed, fadeFields, thinks>>

SetSpeed(s) ==
  /\ s # speed
  /\ speed' = s /\ steady' = FALSE
  /\ UNCHANGED <<clock, fadeFields, thinks>>

-----------------------------------------------------------------------------
(* Fields.                                                                 *)

(* render = fade: the fields come from __data, and both callbacks run.     *)
PlugFade(a, e, l) ==
  /\ ~plugged /\ plugged' = TRUE
  /\ alpha' = a /\ alphaEnd' = e /\ length' = l
  /\ alphaStart' = a /\ timeStart' = RealTime(clock)
  /\ visible' = (l > 0) /\ finished' = FALSE
  /\ thinks' = 0 /\ steady' = TRUE
  /\ UNCHANGED <<clock, speed>>

UnplugFade ==
  /\ plugged /\ plugged' = FALSE
  /\ alpha' = 0 /\ alphaEnd' = 0 /\ length' = 0
  /\ alphaStart' = 0 /\ timeStart' = 0 /\ finished' = FALSE /\ visible' = FALSE
  /\ thinks' = 0 /\ steady' = FALSE
  /\ UNCHANGED <<clock, speed>>

AssignAlpha(a) ==
  /\ plugged
  /\ alpha' = a /\ steady' = (steady /\ a = alpha)
  /\ UNCHANGED <<clock, speed, plugged, alphaEnd, length, alphaStart, timeStart, finished, visible, thinks>>

(* The time goes on from where it was.                                     *)
AssignAlphaEnd(e) ==
  /\ plugged
  /\ alphaEnd' = e /\ alphaStart' = alpha /\ finished' = FALSE
  /\ thinks' = 0 /\ steady' = (timeStart = RealTime(clock))
  /\ UNCHANGED <<clock, speed, plugged, alpha, length, timeStart, visible>>

(* And the alpha from where it was when alpha_end was assigned.            *)
AssignLength(l) ==
  /\ plugged
  /\ length' = l /\ timeStart' = RealTime(clock) /\ visible' = (l > 0) /\ finished' = FALSE
  /\ thinks' = 0 /\ steady' = (alphaStart = alpha)
  /\ UNCHANGED <<clock, speed, plugged, alpha, alphaEnd, alphaStart>>

-----------------------------------------------------------------------------
(* ent_render_fade_draw.                                                   *)

Over == timeStart + length < RealTime(clock)

(* The second reading is of time t.                                        *)
Faded(t) == alphaStart + ((RealTime(t) - timeStart) * (alphaEnd - alphaStart)) \div length

(* Fault: the fade is not marked as done.                                  *)
EndFadeUndone ==
  /\ visible /\ ~finished /\ Over
  /\ alpha' = alphaEnd /\ thinks' = thinks + 1
  /\ UNCHANGED <<clock, speed, plugged, alphaEnd, length, alphaStart, timeStart, finished, visible, steady>>

EndFade ==
  /\ visible /\ ~finished /\ Over
  /\ finished' = TRUE /\ alpha' = alphaEnd
  /\ thinks' = thinks + 1
  /\ UNCHANGED <<clock, speed, plugged, alphaEnd, length, alphaStart, timeStart, visible, steady>>

GoOn(t) ==
  /\ visible /\ ~finished /\ ~Over
  /\ Faded(t) \in -MaxAlpha .. MaxAlpha
  /\ alpha' = Faded(t) /\ clock' = t
  /\ UNCHANGED <<speed, plugged, alphaEnd, length, alphaStart, timeStart, finished, visible, thinks, steady>>

FadeNext ==
  \/ \E t \in 0 .. MaxClock: SetClock(t)
  \/ \E s \in Speeds: SetSpeed(s)
  \/ \E a \in Alphas, e \in Alphas, l \in Lengths: PlugFade(a, e, l)
  \/ UnplugFade
  \/ \E a \in Alphas: AssignAlpha(a)
  \/ \E e \in Alphas: AssignAlphaEnd(e)
  \/ \E l \in Lengths: AssignLength(l)
  \/ EndFade
  \/ \E t \in {clock, clock + 1}: t <= MaxClock /\ GoOn(t)

FadeSpec == FadeInit /\ [][FadeNext]_fadeVars

-----------------------------------------------------------------------------
(* Properties.                                                             *)

(* How far alpha may go in the time between the two readings.              *)
Lower(x, y) == IF x < y THEN x ELSE y
Upper(x, y) == IF x < y THEN y ELSE x
Slack == (speed * (Upper(alphaStart, alphaEnd) - Lower(alphaStart, alphaEnd))) \div length + 1

(* However the fields, the clock and the speed are changed, a fade that is *)
(* done has made its entity think once, one that is not has not yet, and   *)
(* what is not drawn never ends.  As long as nothing is changed while it   *)
(* runs, its alpha stays between the two ends, but for the time between    *)
(* two readings of the clock, and it does not end early or elsewhere.      *)
FadeKept ==
  /\ thinks = (IF finished THEN 1 ELSE 0)
  /\ visible = (plugged /\ length > 0)
  /\ ~visible => ~finished
  /\ steady /\ visible =>
       /\ alpha >= Lower(alphaStart, alphaEnd) - Slack
       /\ alpha <= Upper(alphaStart, alphaEnd) + Slack
       /\ finished => alpha = alphaEnd /\ Over
=============================================================================
