------------------------------- MODULE Window -------------------------------
(***************************************************************************)
(* The window, the grab and the pointer (src/src/video/video_sdl.c,        *)
(* src/src/input/mouse.c).  A size is chosen once, from saved settings and *)
(* what the video driver offers; then SDL's events change the window and   *)
(* move a pointer that is the engine's own, as long as the window has the  *)
(* real one.                                                               *)
(*                                                                         *)
(* Lengths are a few units; a motion, times m_sens, is one unit.           *)
(***************************************************************************)
EXTENDS Integers, Sequences

CONSTANTS
  Side,       (* Lengths, 0 among them.                                      *)
  ModeList    (* Lists of modes a driver may offer; the empty one: any mode. *)

ASSUME WindowAssumption ==
  /\ Side \subseteq Nat /\ 0 \in Side
  /\ ModeList \subseteq Seq((Side \ {0}) \X (Side \ {0}))

VARIABLES
  session,    (* "off", "on", "failed", or "killed" by a division by 0.      *)
  rmode,      (* r_mode: <<>> for "c", or <<its number>>.                    *)
  custom,     (* r_custom_width and r_custom_height.                         *)
  rfull,      (* r_fullscreen.                                               *)
  nograb,     (* Started with -nograb.                                       *)
  extent,     (* video_width and video_height.                               *)
  surf,       (* There is a surface.                                         *)
  full,       (* video_fullscreen,                                           *)
  grab,       (* video_grabbed,                                              *)
  grabSDL,    (* and whether SDL does confine the pointer.                   *)
  focus,      (* input_grabbed.                                              *)
  cursor,     (* cursor_x and cursor_y; what g_mouse_event is told.          *)
  shrunk      (* History: the window has got another size since the pointer  *)
              (* was last moved.                                             *)

settings   == <<rmode, custom, rfull, nograb>>
windowVars == <<session, settings, extent, surf, full, grab, grabSDL, focus, cursor, shrunk>>

Extents == Side \X Side

WindowInit ==
  /\ session = "off"
  /\ rmode \in {<<>>, <<0>>, <<1>>} /\ custom \in Extents
  /\ rfull \in BOOLEAN /\ nograb \in BOOLEAN
  /\ extent = <<0, 0>> /\ surf = FALSE /\ full = FALSE
  /\ grab = FALSE /\ grabSDL = FALSE /\ focus = TRUE
  /\ cursor = <<0, 0>> /\ shrunk = FALSE

-----------------------------------------------------------------------------
(* video_set_mode, when SDL sets the mode and when it does not.            *)

ModeSet(size, f) ==
  /\ surf' = TRUE /\ extent' = size
  /\ IF size[2] = 0
     THEN session' = "killed" /\ UNCHANGED full
     ELSE session' = "on" /\ full' = f
ModeRefused == surf' = FALSE /\ UNCHANGED <<extent, full>>

(* video_grab_toggle once video_fullscreen is f.                           *)
GrabOn(f) == ~grab \/ f
GrabToggle(f) ==
  IF nograb THEN UNCHANGED <<grab, grabSDL>> ELSE grab' = GrabOn(f) /\ grabSDL' = GrabOn(f)

-----------------------------------------------------------------------------
(* video_init.                                                             *)

(* The size to begin with.  The number of a mode is asked for only of      *)
(* drivers with a list, and so is the way out of a length of 0.            *)
Chosen(modes) ==
  LET w == IF rmode # <<>> /\ rmode[1] + 1 \in DOMAIN modes THEN modes[rmode[1] + 1] ELSE custom
  IN  IF modes # <<>> /\ 0 \in {w[1], w[2]} THEN modes[1] ELSE w

ModeSaved(modes) ==
  CASE modes = <<>>                                  -> <<>>
    [] modes # <<>> /\ 0 \in {custom[1], custom[2]}
         /\ (rmode = <<>> \/ rmode[1] + 1 \notin DOMAIN modes) -> <<0>>
    [] OTHER                                         -> rmode

VideoInit(modes) ==
  /\ session = "off"
  /\ rmode' = ModeSaved(modes)
  /\ \/ ModeSet(Chosen(modes), rfull) /\ IF session' = "on" THEN GrabToggle(rfull)
                                         ELSE UNCHANGED <<grab, grabSDL>>
     \/ ModeRefused /\ session' = "failed" /\ UNCHANGED <<grab, grabSDL>>
  /\ UNCHANGED <<custom, rfull, nograb, focus, cursor, shrunk>>

(* The driver has no mode at all.                                          *)
VideoNone ==
  /\ session = "off" /\ session' = "failed"
  /\ UNCHANGED <<settings, extent, surf, full, grab, grabSDL, focus, cursor, shrunk>>

-----------------------------------------------------------------------------
(* Events of video_frame.                                                  *)

InFrame == session = "on" /\ UNCHANGED settings

(* Fault: leaving the grab to the player.                                  *)
FullscreenAlone ==
  /\ InFrame /\ focus
  /\ full' = ~full
  /\ UNCHANGED <<session, extent, surf, grab, grabSDL, focus, cursor, shrunk>>

(* video_fullscreen_toggle, from ALT and ENTER; SDL may not do it.         *)
Fullscreen ==
  /\ InFrame /\ focus
  /\ full' = ~full
  /\ IF full' /\ ~grab THEN GrabToggle(full') ELSE UNCHANGED <<grab, grabSDL>>
  /\ UNCHANGED <<session, extent, surf, focus, cursor, shrunk>>

(* The backquote.                                                          *)
Ungrab ==
  /\ InFrame /\ focus
  /\ GrabToggle(full)
  /\ UNCHANGED <<session, extent, surf, full, focus, cursor, shrunk>>

ActiveEvent(gain) ==
  /\ InFrame
  /\ focus' = gain
  /\ UNCHANGED <<session, extent, surf, full, grab, grabSDL, cursor, shrunk>>

(* SDL reports no length of 0.                                             *)
Resize(size) ==
  /\ InFrame /\ size[1] # 0 /\ size[2] # 0
  /\ \/ ModeSet(size, full) /\ shrunk' = (shrunk \/ size # extent)
     \/ ModeRefused /\ UNCHANGED <<session, shrunk>>
  /\ UNCHANGED <<grab, grabSDL, focus, cursor>>

(* mouse_event.                                                            *)
Clamp(x, last) == IF x < 0 THEN 0 ELSE IF x > last THEN last ELSE x
Moves(dx, dy) == grab /\ (dx # 0 \/ dy # 0)

MouseEvent(dx, dy) ==
  /\ InFrame /\ focus
  /\ IF Moves(dx, dy)
     THEN /\ cursor' = <<Clamp(cursor[1] + dx, extent[1]), Clamp(cursor[2] - dy, extent[2])>>
          /\ shrunk' = FALSE
     ELSE UNCHANGED <<cursor, shrunk>>
  /\ UNCHANGED <<session, extent, surf, full, grab, grabSDL, focus>>

WindowNext ==
  \/ \E modes \in ModeList: VideoInit(modes)
  \/ VideoNone
  \/ Fullscreen
  \/ Ungrab
  \/ \E gain \in BOOLEAN: ActiveEvent(gain)
  \/ \E size \in Extents: Resize(size)
  \/ \E dx, dy \in {-1, 0, 1}: MouseEvent(dx, dy)
  \/ session \in {"failed", "killed"} /\ UNCHANGED windowVars

WindowSpec == WindowInit /\ [][WindowNext]_windowVars

-----------------------------------------------------------------------------
(* Properties.                                                             *)

WindowType ==
  /\ session \in {"off", "on", "failed", "killed"}
  /\ rmode \in {<<>>, <<0>>, <<1>>} /\ custom \in Extents /\ extent \in Extents
  /\ rfull \in BOOLEAN /\ nograb \in BOOLEAN /\ surf \in BOOLEAN /\ full \in BOOLEAN
  /\ grab \in BOOLEAN /\ grabSDL \in BOOLEAN /\ focus \in BOOLEAN /\ shrunk \in BOOLEAN
  /\ cursor \in Nat \X Nat

(* The engine knows whether the pointer is confined; in full screen, where *)
(* nobody could reach another window, it is, unless -nograb was given,     *)
(* however full screen and the grab are toggled, from whatever setting.    *)
(* The position game code is told is in the window, unless that has got    *)
(* another size since the pointer moved; and the engine is killed only by  *)
(* a custom height of 0 where the driver has no list of modes.             *)
PointerKept ==
  /\ WindowType
  /\ session = "on" => /\ grab = grabSDL
                       /\ (full /\ ~nograb => grab)
                       /\ (~shrunk => cursor[1] <= extent[1] /\ cursor[2] <= extent[2])
  /\ session = "killed" => custom[2] = 0 /\ rmode = <<>>
=============================================================================
