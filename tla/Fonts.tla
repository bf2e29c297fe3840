------------------------------- MODULE Fonts --------------------------------
(***************************************************************************)
(* Fonts, and the entities that show text (src/src/render/r_font_sdl.c,    *)
(* r_linefont.c, src/src/game/g_render_text.c, g_render_text2.c).  Two     *)
(* caches that count references: TrueType fonts, keyed by name and point   *)
(* size, and line fonts, keyed by the sprite that has the characters and   *)
(* the list of them.  The renderer "text" draws a string into a texture    *)
(* with the first, "text2" draws sprites with the second.                  *)
(*                                                                         *)
(* Setting a field of an entity runs the callbacks of the renderer, one    *)
(* here and many when the renderer itself is set; todo is what is left of  *)
(* them.  A field has one value here: where the code keeps it, in the      *)
(* render data or in __data, follows from the renderer, and switching      *)
(* copies it.  What differs is the memory that the two strings point to.   *)
(*                                                                         *)
(* Left out: where text is placed, r_sprite_load (module Sprites) but for  *)
(* its failure, and memory allocations that fail.                          *)
(***************************************************************************)
EXTENDS Integers, Sequences, FiniteSets, Shared

CONSTANTS
  Addr,       (* Addresses a font of either kind can be allocated at.        *)
  FontName,   (* Names of fonts and of sprites.                              *)
  PtSize,     (* Point sizes, from 1 up.                                     *)
  Chars,      (* Lists of characters.                                        *)
  Games,      (* Kinds of game code: the renderers it uses, and whether it   *)
              (* is tidy: gives a line font its text first and never takes   *)
              (* it away.                                                    *)
  MaxLost     (* Bound: references to one font that nobody will drop.        *)

ASSUME FontsAssumption ==
  /\ IsFiniteSet(Ent) /\ IsFiniteSet(Addr) /\ NONE \notin Addr /\ NONE \notin Ent
  /\ Games \subseteq [kinds: SUBSET {"text", "text2"}, tidy: BOOLEAN]
  /\ PtSize \subseteq Nat \ {0} /\ MaxLost \in Nat
  /\ JUNK \notin FontName \cup Chars \cup PtSize /\ NONE \notin FontName \cup Chars
  /\ JUNK # NONE /\ NONE \notin {"text", "text2"}

VARIABLES
  ref,        (* The ref of every listed font; 0: not listed.                *)
  key,        (* What a listed font was loaded as.                           *)
  kind,       (* The renderer of an entity: "text", "text2" or NONE.         *)
  field,      (* Its fields name, size, chars and whether there is a text.   *)
  at,         (* What the strings name and chars point to, if anything that  *)
              (* is there: "data" (__data), "lua" (the argument of the call  *)
              (* under way), "own" (the font of the entity).                 *)
  valid,      (* render_valid.                                               *)
  font,       (* r->font.  NONE also for a pointer that is not read again.   *)
  tex,        (* r->gltex is a texture.                                      *)
  textures,   (* The number of textures made for text.                       *)
  todo,       (* What is left of the operation under way.                    *)
  who,        (* The entity operated on.                                     *)
  game        (* The game code, one of Games; it never changes.              *)

cached    == <<ref, key>>
rendered  == <<valid, font, tex, textures>>
fontsVars == <<cached, rendered, kind, field, at, todo, who, game>>

Kind  == {"text", "text2"}
Field == [name: FontName \cup {JUNK, NONE}, size: PtSize \cup {0},
          chars: Chars \cup {JUNK, NONE}, text: BOOLEAN]
Blank == [name |-> NONE, size |-> 0, chars |-> NONE, text |-> FALSE]
NoKey == [kind |-> NONE, name |-> NONE, with |-> NONE]
Keys  == [kind: {"text"}, name: FontName, with: PtSize]
           \cup [kind: {"text2"}, name: FontName, with: Chars \cup {JUNK}]

FontsInit ==
  /\ ref = [f \in Addr |-> 0] /\ key = [f \in Addr |-> NoKey]
  /\ kind = [e \in Ent |-> NONE] /\ field = [e \in Ent |-> Blank]
  /\ at = [e \in Ent |-> [name |-> "data", chars |-> "data"]]
  /\ valid = [e \in Ent |-> FALSE] /\ font = [e \in Ent |-> NONE]
  /\ tex = [e \in Ent |-> FALSE] /\ textures = 0
  /\ todo = <<>> /\ who = NONE
  /\ game \in Games

-----------------------------------------------------------------------------
(* The caches.                                                             *)

(* sglib_font_t_find_member and the loop after it, when r are the counts.  *)
Find(r, k) == {f \in Addr: r[f] > 0 /\ key[f] = k}

(* Fault: a font found is returned without another reference.              *)
FoundUncounted(r, f) == IF r[f] = 0 THEN [r EXCEPT ![f] = 1] ELSE r

(* A font found is counted once more, a new one once.                      *)
Counted(r, f) == [r EXCEPT ![f] = @ + 1]

(* Fault: the last reference but one frees the font.                       *)
DroppedEarly(r, f) == [r EXCEPT ![f] = IF @ <= 2 THEN 0 ELSE @ - 1]

(* r_font_unload and r_linefont_unload.                                    *)
Dropped(r, f) == [r EXCEPT ![f] = @ - 1]

(* The lists after a font k has been looked for from counts r, found or    *)
(* loaded from its file, at f.                                             *)
Loaded(r, k, f) ==
  /\ IF Find(r, k) # {} THEN f \in Find(r, k) ELSE r[f] = 0 /\ k.name \in FontName
  /\ ref' = Counted(r, f)
  /\ key' = [a \in Addr |-> IF a = f THEN k ELSE IF r[a] = 0 THEN NoKey ELSE key[a]]

(* It has not been found, and its file is missing or cannot be read.       *)
NotLoaded(r, k) ==
  /\ Find(r, k) = {}
  /\ ref' = r
  /\ key' = [a \in Addr |-> IF r[a] = 0 THEN NoKey ELSE key[a]]

-----------------------------------------------------------------------------
(* Operations of game code.                                                *)

Idle == todo = <<>>

Forgotten(text) == IF text = NONE THEN NONE ELSE JUNK

(* A call runs callbacks; when it is over, the string it was given may be  *)
(* collected, though r->fontname or r->chars still points to it.           *)
Run(e, callbacks) == who' = e /\ todo' = callbacks \o <<"return">>

Return ==
  /\ todo = <<"return">>
  /\ field' = [field EXCEPT ![who].name = IF at[who].name = "lua" THEN Forgotten(@) ELSE @,
                            ![who].chars = IF at[who].chars = "lua" THEN Forgotten(@) ELSE @]
  /\ at' = [at EXCEPT ![who] = [s \in {"name", "chars"} |-> IF @[s] = "lua" THEN "data" ELSE @[s]]]
  /\ todo' = <<>> /\ who' = NONE
  /\ UNCHANGED <<cached, rendered, kind, game>>

(* What may be read through a string: JUNK stands for memory that is gone. *)
Read(text, all) == IF text = JUNK THEN {JUNK} \cup all ELSE {text}

(* References that nobody will drop are made by loading a line font for an *)
(* entity without a text, whose pointer is then overwritten.               *)
Holders(f) == {e \in Ent: kind[e] # NONE /\ font[e] = f}
Bounded(e, k) ==
  \/ k # "text2" \/ field[e].text
  \/ \A f \in Addr: ref[f] - Cardinality(Holders(f)) < MaxLost

(* ent.font = n.                                                           *)
SetFont(e, n) ==
  /\ Idle /\ Bounded(e, kind[e])
  /\ field' = [field EXCEPT ![e].name = n]
  /\ at' = [at EXCEPT ![e].name = IF kind[e] = NONE THEN "data" ELSE "lua"]
  /\ Run(e, IF kind[e] = NONE THEN <<>> ELSE <<"font">>)
  /\ UNCHANGED <<cached, rendered, kind, game>>

(* ent.ptsize = s, a field of "text" only.                                 *)
SetSize(e, s) ==
  /\ Idle
  /\ field' = [field EXCEPT ![e].size = s]
  /\ Run(e, IF kind[e] = "text" THEN <<"font">> ELSE <<>>)
  /\ UNCHANGED <<cached, rendered, kind, at, game>>

(* ent.chars = c, a field of "text2" only.                                 *)
SetChars(e, c) ==
  /\ Idle /\ Bounded(e, kind[e])
  /\ field' = [field EXCEPT ![e].chars = c]
  /\ at' = [at EXCEPT ![e].chars = IF kind[e] = "text2" THEN "lua" ELSE "data"]
  /\ Run(e, IF kind[e] = "text2" THEN <<"font">> ELSE <<>>)
  /\ UNCHANGED <<cached, rendered, kind, game>>

(* ent.text = a string or nil, which the engine copies.                    *)
SetText(e, t) ==
  /\ Idle
  /\ game.tidy => t \/ kind[e] # "text2"
  /\ field' = [field EXCEPT ![e].text = t]
  /\ Run(e, CASE kind[e] = "text" -> <<"redraw">> [] kind[e] = "text2" -> <<"align">> [] OTHER -> <<>>)
  /\ UNCHANGED <<cached, rendered, kind, at, game>>

(* ent.align = anything; "text" only places its texture.                   *)
SetAlign(e) ==
  /\ Idle /\ kind[e] = "text2"
  /\ Run(e, <<"align">>)
  /\ UNCHANGED <<cached, rendered, kind, field, at, game>>

(* ent.render = k: g_fields_push reads the fields of the old renderer.     *)
SetRender(e, k) ==
  /\ Idle /\ Bounded(e, k)
  /\ game.tidy => field[e].text \/ k # "text2"
  /\ IF kind[e] = NONE THEN UNCHANGED field
     ELSE \E n \in Read(field[e].name, FontName), c \in Read(field[e].chars, Chars):
            field' = [field EXCEPT ![e].name = n, ![e].chars = IF kind[e] = "text2" THEN c ELSE @]
  /\ at' = [at EXCEPT ![e] = [name |-> "data", chars |-> "data"]]
  /\ Run(e, (IF kind[e] = NONE THEN <<>> ELSE <<"unset">>) \o (IF k = NONE THEN <<>> ELSE <<k>>))
  /\ UNCHANGED <<cached, rendered, kind, game>>

(* g_entity_mem_free: a removed entity; one spawned later takes its place. *)
Free(e) ==
  /\ Idle
  /\ field' = [field EXCEPT ![e] = Blank]
  /\ at' = [at EXCEPT ![e] = [name |-> "data", chars |-> "data"]]
  /\ Run(e, IF kind[e] = NONE THEN <<>> ELSE <<"unset">>)
  /\ UNCHANGED <<cached, rendered, kind, game>>

-----------------------------------------------------------------------------
(* The steps of an operation.                                              *)

Called(callback, k) == ~Idle /\ Head(todo) = callback /\ kind[who] = k
Continue == todo' = Tail(todo) /\ UNCHANGED who

(* What g_render_mem_free and a callback leave of the text of an entity.   *)
Blanked(e) ==
  /\ valid' = [valid EXCEPT ![e] = FALSE]
  /\ font' = [font EXCEPT ![e] = NONE]
  /\ tex' = [tex EXCEPT ![e] = FALSE]
  /\ textures' = textures - (IF tex[e] THEN 1 ELSE 0)

Unlisted(f) ==
  /\ ref' = Dropped(ref, f)
  /\ key' = IF ref'[f] = 0 THEN [key EXCEPT ![f] = NoKey] ELSE key

(* Fault: a texture is deleted whether there is one or not.                *)
RedrawnBlind(e, done) ==
  /\ tex' = [tex EXCEPT ![e] = field[e].text /\ done]
  /\ textures' = textures - 1 + (IF tex'[e] THEN 1 ELSE 0)

(* text_redraw_callback of a valid entity; drawing may fail.               *)
Redrawn(e, done) ==
  /\ tex' = [tex EXCEPT ![e] = field[e].text /\ done]
  /\ textures' = textures - (IF tex[e] THEN 1 ELSE 0) + (IF tex'[e] THEN 1 ELSE 0)

Redraw ==
  /\ Called("redraw", "text")
  /\ IF valid[who] THEN \E done \in BOOLEAN: Redrawn(who, done) ELSE UNCHANGED <<tex, textures>>
  /\ Continue
  /\ UNCHANGED <<cached, kind, field, at, valid, font, game>>

(* text_set_font_callback of a valid entity, which only unloads: it sets   *)
(* fontname to NULL before it reads it.                                    *)
TextUnload ==
  /\ Called("font", "text") /\ valid[who]
  /\ Unlisted(font[who])
  /\ Blanked(who)
  /\ field' = [field EXCEPT ![who].name = NONE]
  /\ at' = [at EXCEPT ![who].name = "data"]
  /\ Continue
  /\ UNCHANGED <<kind, game>>

(* And of one that is not valid.                                           *)
TextNothing ==
  /\ Called("font", "text") /\ ~valid[who]
  /\ field[who].name = NONE \/ field[who].size = 0
  /\ Continue
  /\ UNCHANGED <<cached, rendered, kind, field, at, game>>

TextFont(n) == [kind |-> "text", name |-> n, with |-> field[who].size]

TextLoad ==
  /\ Called("font", "text") /\ ~valid[who]
  /\ field[who].name # NONE /\ field[who].size > 0
  /\ \E n \in Read(field[who].name, FontName), f \in Addr, done \in BOOLEAN:
       /\ Loaded(ref, TextFont(n), f)
       /\ font' = [font EXCEPT ![who] = f]
       /\ valid' = [valid EXCEPT ![who] = TRUE]
       /\ field' = [field EXCEPT ![who].name = n]
       /\ at' = [at EXCEPT ![who].name = "own"]
       /\ Redrawn(who, done)
  /\ Continue
  /\ UNCHANGED <<kind, game>>

TextMissing ==
  /\ Called("font", "text") /\ ~valid[who]
  /\ field[who].name # NONE /\ field[who].size > 0
  /\ \E n \in Read(field[who].name, FontName): NotLoaded(ref, TextFont(n))
  /\ Continue
  /\ UNCHANGED <<rendered, kind, field, at, game>>

(* TTF_OpenFontRW fails and, being told to, closes the file; the error     *)
(* path closes it again, and SGLIB asserts that it is listed.              *)
TextBroken ==
  /\ Called("font", "text") /\ ~valid[who]
  /\ field[who].name # NONE /\ field[who].size > 0
  /\ \E n \in Read(field[who].name, FontName) \cap FontName: Find(ref, TextFont(n)) = {}
  /\ todo' = <<"aborted">>
  /\ UNCHANGED <<cached, rendered, kind, field, at, who, game>>

(* text2_set_align_callback.                                               *)
Align ==
  /\ Called("align", "text2")
  /\ valid' = [valid EXCEPT ![who] = @ \/ (font[who] # NONE /\ field[who].text)]
  /\ Continue
  /\ UNCHANGED <<cached, font, tex, textures, kind, field, at, game>>

(* The font that text2_set_font_callback unloads first.                    *)
HeldFont == IF valid[who] THEN {font[who]} ELSE {}
LeftRef == [f \in Addr |-> IF f \in HeldFont THEN ref[f] - 1 ELSE ref[f]]

(* The strings as text2_set_font_callback then finds them: what was inside *)
(* the font is gone with it, the name unless another font has the sprite.  *)
SpriteLeft == \E f \in Addr: LeftRef[f] > 0 /\ key[f].kind = "text2" /\ key[f].name = field[who].name
Left2 ==
  [field[who] EXCEPT
     !.name  = IF at[who].name = "own" /\ HeldFont # {} /\ ~SpriteLeft THEN JUNK ELSE @,
     !.chars = IF at[who].chars = "own" /\ \E f \in HeldFont: LeftRef[f] = 0 THEN JUNK ELSE @]
Name2  == Read(Left2.name, FontName)
Chars2 == Read(Left2.chars, Chars)

LineFont(n, c) == [kind |-> "text2", name |-> n, with |-> c]
Text2Named == field[who].name # NONE /\ field[who].chars # NONE

Text2Load ==
  /\ Called("font", "text2") /\ Text2Named
  /\ \E n \in Name2, c \in Chars2, f \in Addr:
       /\ Loaded(LeftRef, LineFont(n, c), f)
       /\ font' = [font EXCEPT ![who] = f]
       /\ field' = [field EXCEPT ![who].name = n, ![who].chars = c]
  /\ valid' = [valid EXCEPT ![who] = field[who].text]
  /\ at' = [at EXCEPT ![who] = [name |-> "own", chars |-> "own"]]
  /\ Continue
  /\ UNCHANGED <<tex, textures, kind, game>>

(* The pointer is NULL only if there was something to unload; no string is *)
(* kept for the entity any more.                                           *)
Unkept(s) == HeldFont # {} /\ at[who][s] = "own"

Text2Failed ==
  /\ Called("font", "text2")
  /\ IF Text2Named
     THEN \E n \in Name2, c \in Chars2: NotLoaded(LeftRef, LineFont(n, c))
     ELSE ref' = LeftRef /\ key' = [f \in Addr |-> IF LeftRef[f] = 0 THEN NoKey ELSE key[f]]
  /\ font' = [font EXCEPT ![who] = IF valid[who] THEN NONE ELSE @]
  /\ valid' = [valid EXCEPT ![who] = FALSE]
  /\ field' = [field EXCEPT ![who].name = IF Unkept("name") THEN JUNK ELSE @,
                            ![who].chars = IF Unkept("chars") THEN JUNK ELSE @]
  /\ at' = [at EXCEPT ![who] = [s \in {"name", "chars"} |-> IF Unkept(s) THEN "data" ELSE @[s]]]
  /\ Continue
  /\ UNCHANGED <<tex, textures, kind, game>>

(* ent_render_text_unset, ent_render_text2_unset, g_render_mem_free.       *)
Unset ==
  /\ ~Idle /\ Head(todo) = "unset"
  /\ IF valid[who] THEN Unlisted(font[who]) ELSE UNCHANGED cached
  /\ Blanked(who)
  /\ kind' = [kind EXCEPT ![who] = NONE]
  /\ Continue
  /\ UNCHANGED <<field, at, game>>

(* The callbacks of the fields, in their order in the table.               *)
Callbacks(k) ==
  IF k = "text" THEN <<"font", "font", "redraw">> ELSE <<"align", "font", "font", "align">>

(* render_set_callback, from the new render data on.                       *)
Plugged ==
  /\ ~Idle /\ Head(todo) \in Kind
  /\ kind' = [kind EXCEPT ![who] = Head(todo)]
  /\ todo' = Callbacks(Head(todo)) \o Tail(todo)
  /\ UNCHANGED <<cached, rendered, field, at, who, game>>

FontsAborted == todo = <<"aborted">> /\ UNCHANGED fontsVars

Call(e) ==
  \/ \E n \in FontName \cup {NONE}: SetFont(e, n)
  \/ "text" \in game.kinds /\ \E s \in PtSize \cup {0}: SetSize(e, s)
  \/ "text2" \in game.kinds /\ \E c \in Chars \cup {NONE}: SetChars(e, c)
  \/ \E t \in BOOLEAN: SetText(e, t)
  \/ SetAlign(e)
  \/ \E k \in game.kinds \cup {NONE}: SetRender(e, k)
  \/ Free(e)

FontsNext ==
  \/ \E e \in Ent: Call(e)
  \/ TextUnload
  \/ TextNothing
  \/ TextLoad
  \/ TextMissing
  \/ TextBroken
  \/ Redraw
  \/ Align
  \/ Text2Load
  \/ Text2Failed
  \/ Unset
  \/ Plugged
  \/ Return
  \/ FontsAborted

FontsSpec == FontsInit /\ [][FontsNext]_fontsVars

-----------------------------------------------------------------------------
(* Properties.                                                             *)

FontsType ==
  /\ ref \in [Addr -> Nat] /\ key \in [Addr -> Keys \cup {NoKey}]
  /\ kind \in [Ent -> Kind \cup {NONE}] /\ field \in [Ent -> Field]
  /\ at \in [Ent -> [{"name", "chars"} -> {"data", "lua", "own"}]]
  /\ valid \in [Ent -> BOOLEAN] /\ font \in [Ent -> Addr \cup {NONE}]
  /\ tex \in [Ent -> BOOLEAN] /\ textures \in Nat
  /\ who \in Ent \cup {NONE} /\ game \in Games
  /\ todo \in Seq({"font", "redraw", "align", "unset", "return", "aborted"} \cup Kind)

(* g_render_entity calls draw for a valid entity: its font is listed and   *)
(* of its renderer's kind, as the text window of text2 and the texture of  *)
(* text need it, and tidy game code never has it draw a text that is NULL. *)
DrawsLoaded ==
  Idle => \A e \in Ent: valid[e] =>
    /\ kind[e] # NONE /\ font[e] # NONE
    /\ ref[font[e]] > 0 /\ key[font[e]].kind = kind[e]
    /\ game.tidy /\ kind[e] = "text2" => field[e].text

ReferencesHeld ==
  \A f \in Addr:
    /\ ref[f] >= Cardinality(Holders(f))
    /\ game.tidy \/ key[f].kind # "text2" => ref[f] = Cardinality(Holders(f))

TexturesShown ==
  /\ textures = Cardinality({e \in Ent: tex[e]})
  /\ \A e \in Ent: tex[e] => kind[e] = "text" /\ valid[e]

(* A font is listed at least as long as an entity points to it, so that    *)
(* what is drawn is there; a font of "text" has exactly the references     *)
(* that entities hold, and a line font too unless game code gives it its   *)
(* text late or takes it away: then some are never dropped.  And each      *)
(* texture made for text belongs to one entity that shows it: none is left *)
(* behind when a text, a font or a renderer is changed.                    *)
FontsOwned == ReferencesHeld /\ TexturesShown

(* So text is drawn from a font that is there, and fonts and textures go   *)
(* when the last text that needs them does.                                *)
FontsKept == FontsType /\ FontsOwned /\ DrawsLoaded

=============================================================================
