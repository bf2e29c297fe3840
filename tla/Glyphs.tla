------------------------------- MODULE Glyphs -------------------------------
(***************************************************************************)
(* Where the characters of a line font are (src/src/render/r_sprite.c,     *)
(* r_linefont.c, r_texture.c).  A line font is a sprite that was loaded    *)
(* with search_minimal: its one texture's picture is searched for its      *)
(* frames, columns with something in them between columns without.  The    *)
(* caches of sprites and textures do not know of it: a sprite that is      *)
(* there is taken as it is, and so is a texture, of which no picture is    *)
(* kept then.                                                              *)
(*                                                                         *)
(* One sprite of one line, entities that use it and fonts that use it.     *)
(* Left out: heights, which are the picture's; a sprite of one frame,      *)
(* which another search is for; and loads that fail.                       *)
(***************************************************************************)
EXTENDS Integers, FiniteSets, Shared

CONSTANTS
  Wide,       (* The picture's columns, 0 .. Wide - 1.                       *)
  MaxGlyphs   (* Bound: frames of the sprite.                                *)

ASSUME GlyphsAssumption ==
  /\ Wide \in Nat /\ MaxGlyphs \in Nat \ {0, 1}
  /\ \A n \in 2 .. MaxGlyphs: NONE \notin [0 .. n - 1 -> (-1 .. Wide) \X (0 .. Wide)]

VARIABLES
  filled,     (* The columns of the picture that are not empty.              *)
  count,      (* num, the frames that the sprite's file says it has.         *)
  elsewhere,  (* Another sprite, a line or a circle holds the texture.       *)
  users,      (* Entities that hold the sprite,                              *)
  fonts,      (* and fonts that do: 0 or 1.                                  *)
  coords,     (* frames_coords, the left and right of each; NONE if NULL.    *)
  col,        (* In the search: i,                                           *)
  frame,      (* n, -1 outside,                                              *)
  open,       (* and whether it is in a frame.                               *)
  shown,      (* What has just been drawn: by whom, which frame, from where. *)
  fallen,     (* Memory that is not there has been read.                     *)
  first       (* History: who has loaded the sprite: "user", "font", "late"  *)
              (* for a font after somebody had loaded its texture; or "no".  *)

search     == <<col, frame, open>>
glyphsVars == <<filled, count, elsewhere, users, fonts, coords, search, shown, fallen, first>>

Column == 0 .. Wide - 1
Frame  == 0 .. count - 1
InCache == users + fonts > 0
Resting == frame = -1 /\ ~fallen
Nothing == <<>>

GlyphsInit ==
  /\ filled \in SUBSET Column /\ count \in 2 .. MaxGlyphs
  /\ elsewhere = FALSE /\ users = 0 /\ fonts = 0
  /\ coords = NONE /\ col = 0 /\ frame = -1 /\ open = FALSE
  /\ shown = Nothing /\ fallen = FALSE /\ first = "no"

-----------------------------------------------------------------------------
(* The caches.                                                             *)

Elsewhere ==
  /\ Resting
  /\ elsewhere' = ~elsewhere /\ shown' = Nothing
  /\ UNCHANGED <<filled, count, users, fonts, coords, search, fallen, first>>

(* r_sprite_load without search_minimal, r_sprite_unload.                  *)
UserLoads ==
  /\ Resting /\ users = 0
  /\ users' = 1 /\ shown' = Nothing
  /\ IF InCache THEN UNCHANGED <<coords, first>> ELSE coords' = NONE /\ first' = "user"
  /\ UNCHANGED <<filled, count, elsewhere, fonts, search, fallen>>

FirstAfter(n) == IF n = 0 THEN "no" ELSE first

UserDrops ==
  /\ Resting /\ users = 1
  /\ users' = 0 /\ first' = FirstAfter(fonts) /\ shown' = Nothing
  /\ UNCHANGED <<filled, count, elsewhere, fonts, coords, search, fallen>>

FontDrops ==
  /\ Resting /\ fonts = 1
  /\ fonts' = 0 /\ first' = FirstAfter(users) /\ shown' = Nothing
  /\ UNCHANGED <<filled, count, elsewhere, users, coords, search, fallen>>

(* r_linefont_load: of a sprite that is there,                             *)
FontTakes ==
  /\ Resting /\ fonts = 0 /\ InCache
  /\ fonts' = 1 /\ shown' = Nothing
  /\ UNCHANGED <<filled, count, elsewhere, users, coords, search, fallen, first>>

(* of one that is not: the texture's picture is read and searched;         *)
FontLoads ==
  /\ Resting /\ fonts = 0 /\ ~InCache /\ ~elsewhere
  /\ fonts' = 1 /\ first' = "font" /\ shown' = Nothing
  /\ coords' = [n \in Frame |-> <<0, 0>>]
  /\ frame' = 0 /\ col' = 0 /\ open' = FALSE
  /\ UNCHANGED <<filled, count, elsewhere, users, fallen>>

(* or of one that is not, while its texture is: r_texture_load leaves the  *)
(* picture as it is, uninitialized, and all that can be said is that the   *)
(* search ends, if it does, with something.                                *)
FontLoadsLate ==
  /\ Resting /\ fonts = 0 /\ ~InCache /\ elsewhere
  /\ fonts' = 1 /\ first' = "late" /\ shown' = Nothing
  /\ coords' \in {[n \in Frame |-> <<0, 0>>], [n \in Frame |-> <<-1, Wide>>]}
  /\ fallen' \in BOOLEAN
  /\ UNCHANGED <<filled, count, elsewhere, users, search>>

-----------------------------------------------------------------------------
(* r_sprite_search_minimal, one column a step.                             *)

Look == frame \in Frame /\ col \in Column
Kept == UNCHANGED <<filled, count, elsewhere, users, fonts, shown, fallen, first>>

SkipColumn ==
  /\ Look /\ (open <=> col \in filled)
  /\ col' = col + 1
  /\ Kept /\ UNCHANGED <<coords, frame, open>>

(* It begins one column before the first that is not empty;                *)
OpenFrame ==
  /\ Look /\ ~open /\ col \in filled
  /\ coords' = [coords EXCEPT ![frame][1] = col - 1]
  /\ open' = TRUE /\ col' = col + 1
  /\ Kept /\ UNCHANGED frame

(* Fault: the next frame is looked for from the beginning.                 *)
FromStart == 0

Onward == col

(* and ends with the first empty one, where the next one is looked for.    *)
CloseFrame ==
  /\ Look /\ open /\ col \notin filled
  /\ coords' = [coords EXCEPT ![frame][2] = col]
  /\ open' = FALSE /\ frame' = frame + 1 /\ col' = Onward
  /\ Kept

(* The picture ends.                                                       *)
NoMore ==
  /\ frame \in Frame /\ col = Wide
  /\ frame' = frame + 1 /\ open' = FALSE
  /\ Kept /\ UNCHANGED <<coords, col>>

SearchEnds ==
  /\ frame = count
  /\ frame' = -1 /\ col' = 0
  /\ Kept /\ UNCHANGED <<coords, open>>

-----------------------------------------------------------------------------
(* Drawing.                                                                *)

(* r_linefont_draw, r_linefont_get_text_window: coords of a character.     *)
DrawGlyph(n) ==
  /\ Resting /\ fonts = 1 /\ n \in Frame
  /\ IF coords = NONE THEN fallen' = TRUE /\ shown' = Nothing
     ELSE shown' = <<"font", n, coords[n]>> /\ UNCHANGED fallen
  /\ UNCHANGED <<filled, count, elsewhere, users, fonts, coords, search, first>>

(* r_sprite_draw: an equal part of the texture, unless there are coords.   *)
DrawFrame(n) ==
  /\ Resting /\ users = 1 /\ n \in Frame
  /\ shown' = <<"user", n, IF coords = NONE THEN "part" ELSE coords[n]>>
  /\ UNCHANGED <<filled, count, elsewhere, users, fonts, coords, search, fallen, first>>

GlyphsNext ==
  \/ Elsewhere
  \/ UserLoads
  \/ UserDrops
  \/ FontDrops
  \/ FontTakes
  \/ FontLoads
  \/ FontLoadsLate
  \/ SkipColumn
  \/ OpenFrame
  \/ CloseFrame
  \/ NoMore
  \/ SearchEnds
  \/ \E n \in 0 .. MaxGlyphs: DrawGlyph(n)
  \/ \E n \in 0 .. MaxGlyphs: DrawFrame(n)
  \/ fallen /\ UNCHANGED glyphsVars

GlyphsSpec == GlyphsInit /\ [][GlyphsNext]_glyphsVars

-----------------------------------------------------------------------------
(* Properties.                                                             *)

(* The characters in the picture, columns from and to, with empty columns  *)
(* on both sides.                                                          *)
Characters ==
  {r \in Column \X Column:
     r[1] <= r[2] /\ (r[1] .. r[2]) \subseteq filled /\ r[1] - 1 \notin filled /\ r[2] + 1 \notin filled}
Place(r) == Cardinality({q \in Characters: q[2] < r[1]})

(* A character of a font is shown as it stands in the picture, with an     *)
(* empty column before it, if an empty column ends it; nothing is drawn    *)
(* for one that is not there, and the frames of a sprite are equal parts   *)
(* of its texture.  All this as long as a sprite that a font uses was      *)
(* loaded by a font, one that an entity uses by an entity, and its texture *)
(* by nobody before: through any loads, drops and loads again.             *)
GlyphsShown ==
  /\ coords # NONE => DOMAIN coords = Frame
  /\ fallen => first \in {"user", "late"}
  /\ shown # Nothing /\ first = shown[1] =>
       IF first = "user" THEN shown[3] = "part"
       ELSE \/ \E r \in Characters: Place(r) = shown[2] /\ r[2] + 1 \in Column
                                     /\ shown[3] = <<r[1] - 1, r[2] + 1>>
            \/ \E r \in Characters: Place(r) = shown[2] /\ r[2] + 1 = Wide
                                     /\ shown[3] = <<r[1] - 1, 0>>
            \/ Cardinality(Characters) <= shown[2] /\ shown[3] = <<0, 0>>
=============================================================================
