----------------------------- MODULE MCGraphics -----------------------------
(* Small instances of modules that share no variable, side by side: the    *)
(* initial states choose the one that moves.  Sprites: two sprites that    *)
(* share a texture, one of them with the same texture twice.               *)
EXTENDS Sprites, Drawing, Beams, Fields, Glyphs, Texels, Fade, TLC

CONSTANTS n1, n2, t1, t2

VARIABLE part

Parts == {"sprites", "drawing", "beams", "fields", "glyphs", "texels", "fade"}

GraphicsInit ==
  /\ part \in Parts
  /\ SpritesInit /\ FieldsInit
  /\ DrawingInit
  /\ part # "drawing" => driver = "fresh"
  /\ BeamsInit
  /\ part # "beams" => origin = 0
  /\ GlyphsInit
  /\ part # "glyphs" => filled = {} /\ count = 2
  /\ TexelsInit
  /\ part # "texels" => wide = 1 /\ high = 1 /\ noscale /\ npot
  /\ FadeInit
  /\ part # "fade" => speed = 1

GraphicsNext ==
  /\ UNCHANGED part
  /\ \/ part = "sprites" /\ SpritesNext
        /\ UNCHANGED <<drawingVars, beamsVars, fieldsVars, glyphsVars, texelsVars, fadeVars>>
     \/ part = "drawing" /\ DrawingNext
        /\ UNCHANGED <<spritesVars, beamsVars, fieldsVars, glyphsVars, texelsVars, fadeVars>>
     \/ part = "beams" /\ BeamsNext
        /\ UNCHANGED <<spritesVars, drawingVars, fieldsVars, glyphsVars, texelsVars, fadeVars>>
     \/ part = "fields" /\ FieldsNext
        /\ UNCHANGED <<spritesVars, drawingVars, beamsVars, glyphsVars, texelsVars, fadeVars>>
     \/ part = "glyphs" /\ GlyphsNext
        /\ UNCHANGED <<spritesVars, drawingVars, beamsVars, fieldsVars, texelsVars, fadeVars>>
     \/ part = "texels" /\ TexelsNext
        /\ UNCHANGED <<spritesVars, drawingVars, beamsVars, fieldsVars, glyphsVars, fadeVars>>
     \/ part = "fade" /\ FadeNext
        /\ UNCHANGED <<spritesVars, drawingVars, beamsVars, fieldsVars, glyphsVars, texelsVars>>

GraphicsSpec ==
  GraphicsInit /\
  [][GraphicsNext]_<<spritesVars, drawingVars, beamsVars, fieldsVars, glyphsVars, texelsVars, fadeVars, part>>

MCFrames == n1 :> <<t1>> @@ n2 :> <<t1, t2, t1>>

(* Line and scissor, which both have a width, and one common field.        *)
Scalars(n, d, w) == [name |-> n, covers |-> <<n>>, default |-> d, whole |-> w]
MCTable ==
  "common"  :> <<Scalars("alpha", 2, FALSE)>> @@
  "line"    :> <<Scalars("width", 2, FALSE),
                 [name |-> "finish", covers |-> <<"finish_x">>, default |-> 0, whole |-> FALSE],
                 Scalars("finish_x", 0, FALSE)>> @@
  "scissor" :> <<Scalars("width", 0, TRUE)>>
MCGiven ==
  "alpha" :> {<<"n", 0>>, <<"n", 2>>} @@ "width" :> {<<"n", 0>>, <<"n", 1>>, <<"n", 2>>, WORD} @@
  "finish" :> {<<"v", 0>>, <<"v", 2>>} @@ "finish_x" :> {<<"n", 0>>, <<"n", 2>>}

Symmetry == Permutations(Ent) \cup Permutations(Slot)

(* What a renderer is given is what it draws: the fields assigned to it,   *)
(* whatever renderers there were before (g_render.c), and of a picture the *)
(* characters found in it (r_sprite.c, r_linefont.c) and all of it as it   *)
(* was put into its texture (gl_texture.c, image.c).                       *)
GivenKept == FieldsKept /\ GlyphsShown /\ TextureShowsPicture
=============================================================================
