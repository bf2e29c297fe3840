------------------------------ MODULE Drawing -------------------------------
(***************************************************************************)
(* What a frame puts on the screen (src/src/render/r_main.c, src/src/gl/,  *)
(* src/src/game/g_entity.c and the draw functions of the renderers).  The  *)
(* engine keeps copies of OpenGL's state, to leave out calls that change   *)
(* nothing; a frame is right as long as the copies are.                    *)
(*                                                                         *)
(* An entity has a texture of its own as a text has: it is deleted and     *)
(* made anew whenever the text changes.  Textures that are shared come and *)
(* go through the same two functions.  Left out: geometry, whether a       *)
(* texture is filtered, and the flags that no frame changes.               *)
(***************************************************************************)
EXTENDS Integers, Sequences, FiniteSets, Shared

CONSTANTS
  Image,      (* Pictures that a texture can hold.                           *)
  BLANK,      (* The picture of a texture without one.                       *)
  MaxName,    (* Bound: names of textures, 1 .. MaxName.                     *)
  Colour      (* Colours; 0 is the one that gl_reset_helpers sets.           *)

ASSUME DrawingAssumption ==
  MaxName \in Nat /\ Image \cap {BLANK, NONE} = {} /\ BLANK # NONE /\ 0 \in Colour

VARIABLES
  driver,     (* glGenTextures "reuses" names of deleted textures, or not.   *)
  pixels,     (* The picture of each texture, 0 the default one; or NONE.    *)
  retired,    (* Names not to be handed out again.                           *)
  bound,      (* The texture bound in OpenGL.                                *)
  cachedTex,  (* texture: the engine's copy of it.                           *)
  ink,        (* The colour in OpenGL.                                       *)
  cachedInk,  (* color_r and so on: the engine's copy.                       *)
  window,     (* Whose rectangle drawing is clipped by, or NONE.             *)
  kind,       (* What draws the entity.                                      *)
  gltex,      (* Its texture, 0 if it has none.                              *)
  pic,        (* The picture it was last given.                              *)
  tint,       (* color and alpha.                                            *)
  drawing,    (* A frame is being drawn.                                     *)
  order,      (* The entities drawn in it so far.                            *)
  quad,       (* What the entity has left on the screen in this frame.       *)
  cleared,    (* The whole screen has been cleared before.                   *)
  mixed,      (* History: a new texture got the name the engine took for     *)
              (* bound, and was not bound.                                   *)
  spilt       (* History: a frame has ended clipped.                         *)

gl         == <<bound, cachedTex>>
inks       == <<ink, cachedInk>>
things     == <<kind, gltex, pic, tint>>
screen     == <<drawing, order, quad, cleared>>
excuses    == <<mixed, spilt>>
drawingVars == <<driver, pixels, retired, gl, inks, window, things, screen, excuses>>

TexName == 1 .. MaxName
Kinds   == {"none", "text", "fade", "scissor", "disabler"}
NoQuad  == [pic |-> NONE, ink |-> 0, clip |-> NONE]

DrawingInit ==
  /\ driver \in {"fresh", "reuses"}
  /\ pixels = [n \in TexName \cup {0} |-> IF n = 0 THEN BLANK ELSE NONE]
  /\ retired = {}
  /\ bound = 0 /\ cachedTex = 0
  /\ ink = 0 /\ cachedInk = 0
  /\ window = NONE
  /\ kind = [e \in Ent |-> "none"] /\ gltex = [e \in Ent |-> 0]
  /\ pic = [e \in Ent |-> NONE] /\ tint = [e \in Ent |-> 0]
  /\ drawing = FALSE /\ order = <<>>
  /\ quad = [e \in Ent |-> NoQuad] /\ cleared = TRUE
  /\ mixed = FALSE /\ spilt = FALSE

-----------------------------------------------------------------------------
(* The copies.                                                             *)

(* Fault: the copy is not kept up.                                         *)
BindUncopied(n) == cachedTex' = cachedTex /\ bound' = IF cachedTex = n THEN bound ELSE n

(* eglBindTexture.                                                         *)
Bind(n) == cachedTex' = n /\ bound' = IF cachedTex = n THEN bound ELSE n

(* eglColor4.                                                              *)
SetInk(c) == cachedInk' = c /\ ink' = IF cachedInk = c THEN ink ELSE c

(* The names glGenTextures may hand out once those in gone are deleted.    *)
FreeNames(gone) == {n \in TexName: (pixels[n] = NONE \/ n \in gone) /\ n \notin retired \cup
                      (IF driver = "fresh" THEN gone ELSE {})}

(* gl_texture_delete: OpenGL unbinds it, the engine's copy stays.          *)
Deleted(n) == IF n = 0 THEN {} ELSE {n}
BoundAfter(n) == IF n # 0 /\ bound = n THEN 0 ELSE bound
RetiredAfter(n) == IF driver = "fresh" THEN retired \cup Deleted(n) ELSE retired
PixelsAfter(n) == [m \in DOMAIN pixels |-> IF m \in Deleted(n) THEN NONE ELSE pixels[m]]

-----------------------------------------------------------------------------
(* Between frames.                                                         *)

Idle(e) == ~drawing /\ UNCHANGED <<driver, inks, window, screen, spilt>> /\ e \in Ent

DeleteTexture(e) ==
  /\ pixels' = PixelsAfter(gltex[e])
  /\ retired' = RetiredAfter(gltex[e])
  /\ bound' = BoundAfter(gltex[e])
  /\ gltex' = [gltex EXCEPT ![e] = 0]
  /\ UNCHANGED <<cachedTex, mixed>>

(* ent.render = k, whatever it was: unset deletes what a text has.         *)
SetKind(e, k) ==
  /\ Idle(e) /\ kind[e] # k
  /\ kind' = [kind EXCEPT ![e] = k]
  /\ pic' = [pic EXCEPT ![e] = NONE]
  /\ DeleteTexture(e)
  /\ UNCHANGED tint

SetTint(e, c) ==
  /\ Idle(e)
  /\ tint' = [tint EXCEPT ![e] = c]
  /\ UNCHANGED <<pixels, retired, gl, kind, gltex, pic, mixed>>

(* ent.text = nil, or a text that makes no picture or no texture.          *)
Erase(e) ==
  /\ Idle(e) /\ kind[e] = "text"
  /\ pic' = [pic EXCEPT ![e] = NONE]
  /\ DeleteTexture(e)
  /\ UNCHANGED <<kind, tint>>

(* ent.text = something: text_redraw_callback deletes the old texture and  *)
(* gl_texture_create makes the new one, binds it and loads the picture     *)
(* into what is bound.                                                     *)
Redraw(e, p) ==
  /\ Idle(e) /\ kind[e] = "text"
  /\ \E n \in FreeNames(Deleted(gltex[e])):
       /\ bound' = IF cachedTex = n THEN BoundAfter(gltex[e]) ELSE n
       /\ cachedTex' = n
       /\ pixels' = [[PixelsAfter(gltex[e]) EXCEPT ![n] = BLANK] EXCEPT ![bound'] = p]
       /\ gltex' = [gltex EXCEPT ![e] = n]
       /\ mixed' = (mixed \/ bound' # n)
  /\ retired' = RetiredAfter(gltex[e])
  /\ pic' = [pic EXCEPT ![e] = p]
  /\ UNCHANGED <<kind, tint>>

-----------------------------------------------------------------------------
(* A frame.                                                                *)

(* r_frame up to g_draw: gl_clear, which the rectangle clips as it clips   *)
(* everything, and gl_switch_2d with its white, any colour but 0.          *)
FrameBegins ==
  /\ ~drawing
  /\ drawing' = TRUE
  /\ cleared' = (window = NONE)
  /\ \E white \in Colour \ {0}: SetInk(white)
  /\ UNCHANGED <<driver, pixels, retired, gl, window, things, order, quad, excuses>>

Drawn == {order[j]: j \in DOMAIN order}

DrawNext(e) ==
  /\ drawing /\ e \notin Drawn
  /\ order' = Append(order, e)
  /\ UNCHANGED <<driver, pixels, retired, things, drawing, cleared, excuses>>

(* render_valid is FALSE, or the text has a font but no texture.           *)
Skip(e) ==
  /\ DrawNext(e)
  /\ \/ kind[e] \in {"none", "text"} /\ UNCHANGED inks
     \/ kind[e] = "text" /\ SetInk(tint[e])
  /\ gltex[e] = 0
  /\ UNCHANGED <<gl, window, quad>>

(* g_render_entity with ent_render_text_draw or ent_render_fade_draw.      *)
DrawQuad(e) ==
  /\ DrawNext(e)
  /\ kind[e] = "fade" \/ (kind[e] = "text" /\ gltex[e] # 0)
  /\ SetInk(tint[e])
  /\ Bind(gltex[e])
  /\ quad' = [quad EXCEPT ![e] = [pic |-> pixels[bound'], ink |-> ink', clip |-> window]]
  /\ UNCHANGED window

(* ent_render_scissor_draw.                                                *)
Rectangle(e) == IF kind[e] = "scissor" THEN e ELSE NONE

DrawScissor(e) ==
  /\ DrawNext(e)
  /\ kind[e] \in {"scissor", "disabler"}
  /\ SetInk(tint[e])
  /\ window' = Rectangle(e)
  /\ UNCHANGED <<gl, quad>>

FrameEnds ==
  /\ drawing /\ Drawn = Ent
  /\ drawing' = FALSE /\ order' = <<>>
  /\ quad' = [e \in Ent |-> NoQuad] /\ cleared' = TRUE
  /\ spilt' = (spilt \/ window # NONE)
  /\ UNCHANGED <<driver, pixels, retired, gl, inks, window, things, mixed>>

DrawingNext ==
  \/ \E e \in Ent, k \in Kinds: SetKind(e, k)
  \/ \E e \in Ent, c \in Colour: SetTint(e, c)
  \/ \E e \in Ent: Erase(e)
  \/ \E e \in Ent, p \in Image: Redraw(e, p)
  \/ FrameBegins
  \/ \E e \in Ent: Skip(e)
  \/ \E e \in Ent: DrawQuad(e)
  \/ \E e \in Ent: DrawScissor(e)
  \/ FrameEnds

DrawingSpec == DrawingInit /\ [][DrawingNext]_drawingVars

-----------------------------------------------------------------------------
(* Properties.                                                             *)

DrawingType ==
  /\ driver \in {"fresh", "reuses"}
  /\ pixels \in [TexName \cup {0} -> Image \cup {BLANK, NONE}]
  /\ retired \subseteq TexName /\ bound \in TexName \cup {0} /\ cachedTex \in TexName \cup {0}
  /\ ink \in Colour /\ cachedInk \in Colour /\ window \in Ent \cup {NONE}
  /\ kind \in [Ent -> Kinds] /\ gltex \in [Ent -> TexName \cup {0}]
  /\ pic \in [Ent -> Image \cup {NONE}] /\ tint \in [Ent -> Colour]
  /\ drawing \in BOOLEAN /\ Drawn \subseteq Ent /\ cleared \in BOOLEAN
  /\ \A e \in Ent: quad[e].pic \in Image \cup {BLANK, NONE} /\ quad[e].ink \in Colour
  /\ mixed \in BOOLEAN /\ spilt \in BOOLEAN

(* The last rectangle set before the entity in this frame.                 *)
Before(e) == {j \in DOMAIN order: kind[order[j]] \in {"scissor", "disabler"} /\
                \E k \in DOMAIN order: k > j /\ order[k] = e}
Clip(e) ==
  IF \E j \in Before(e): kind[order[j]] = "scissor" /\ \A k \in Before(e): k <= j
  THEN order[CHOOSE j \in Before(e): \A k \in Before(e): k <= j]
  ELSE NONE

(* What an entity leaves on the screen, and nothing else decides: not what *)
(* was drawn or deleted before, in this frame or an earlier one.           *)
Wanted(e) ==
  CASE kind[e] = "fade"                  -> [pic |-> BLANK, ink |-> tint[e], clip |-> Clip(e)]
    [] kind[e] = "text" /\ gltex[e] # 0  -> [pic |-> pic[e], ink |-> tint[e], clip |-> Clip(e)]
    [] OTHER                             -> NoQuad

(* A frame shows each entity drawn in it as game code has made it, on a    *)
(* clean screen, as long as no earlier one ended clipped and no texture    *)
(* was made under the name the engine took for bound; which it is not when *)
(* every name is handed out once.                                          *)
FrameShowsEntities ==
  /\ DrawingType
  /\ drawing /\ (driver = "fresh" \/ ~mixed) => \A e \in Drawn:
       IF spilt THEN [quad[e] EXCEPT !.clip = Wanted(e).clip] = Wanted(e)
       ELSE cleared /\ quad[e] = Wanted(e)
=============================================================================
