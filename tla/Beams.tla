------------------------------- MODULE Beams --------------------------------
(***************************************************************************)
(* An entity drawn as a line or a circle (src/src/game/g_render_line.c,    *)
(* g_render_circle.c, g_render.c).  It holds a texture of the cache, which *)
(* others hold too, and keeps the geometry that the callbacks of its       *)
(* fields and, when a line has moved, the draw function compute.           *)
(*                                                                         *)
(* A length is 0 or not; a line from its origin to its finish has one when *)
(* the two differ.  A field has one value, wherever the code keeps it (the *)
(* render data or __data).                                                 *)
(***************************************************************************)
EXTENDS Integers, Shared

CONSTANTS
  Strip,      (* Textures.                                                   *)
  MaxOthers   (* Bound: other holders of a texture.                          *)

ASSUME BeamsAssumption ==
  /\ MaxOthers \in Nat
  /\ {NONE, JUNK} \cap Strip = {} /\ JUNK # NONE /\ NONE \notin {"line", "circle"}

VARIABLES
  plugin,     (* The renderer: "line", "circle" or NONE for any other.       *)
  tname,      (* texture, the field: what r->name points to.                 *)
  rvalid,     (* render_valid.                                               *)
  strip,      (* r->texture.                                                 *)
  width,      (* The fields width,                                           *)
  finish,     (* finish                                                      *)
  radius,     (* and radius.                                                 *)
  origin,     (* ent->origin.                                                *)
  start,      (* r->start: the origin that draw last computed it for.        *)
  draw,       (* r->draw.                                                    *)
  shape,      (* What the vertices were computed from, NONE if from nothing. *)
  tref,       (* The ref of each texture.                                    *)
  others,     (* How many hold it besides this entity.                       *)
  seen,       (* What the entity has just drawn, <<NONE>> if nothing; <<>>     *)
              (* after anything else.                                        *)
  late,       (* History: the texture has come after the geometry.           *)
  reckoned    (* History: the origin the geometry was in fact computed for.  *)

fields    == <<tname, width, finish, radius>>
holding   == <<rvalid, strip, tref>>
geometry  == <<start, draw, shape>>
beamsVars == <<plugin, fields, holding, geometry, origin, others, seen, late, reckoned>>

Length == {0, 1}

BeamsInit ==
  /\ plugin = NONE /\ tname = NONE
  /\ rvalid = FALSE /\ strip = NONE
  /\ width = 1 /\ finish = 0 /\ radius = 1
  /\ origin \in Length
  /\ start = 0 /\ draw = FALSE /\ shape = NONE
  /\ others = [t \in Strip |-> 0] /\ tref = others
  /\ seen = <<>> /\ late = FALSE /\ reckoned = 0

-----------------------------------------------------------------------------
(* The texture.                                                            *)

(* r_texture_unload of what is held, if anything is.                       *)
RefsWithout == IF rvalid THEN [tref EXCEPT ![strip] = @ - 1] ELSE tref

(* Fault: the old texture stays held.                                      *)
LoadsOver(n) ==
  \/ n \in Strip /\ strip' = n /\ rvalid' = TRUE /\ tref' = [tref EXCEPT ![n] = @ + 1]
  \/ strip' = NONE /\ rvalid' = FALSE /\ tref' = tref

(* unload, then r_texture_load, which may fail, and will if there is no    *)
(* such file.                                                              *)
Loads(n) ==
  \/ n \in Strip /\ strip' = n /\ rvalid' = TRUE /\ tref' = [RefsWithout EXCEPT ![n] = @ + 1]
  \/ strip' = NONE /\ rvalid' = FALSE /\ tref' = RefsWithout

-----------------------------------------------------------------------------
(* The geometry.                                                           *)

Extent(f, r, o) == IF plugin' = "line" THEN (IF f = o THEN 0 ELSE 1) ELSE r
Shape(w, f, r, o) ==
  IF plugin' = "line" THEN [width |-> w, finish |-> f, origin |-> o, strip |-> strip']
  ELSE [width |-> w, radius |-> r]

(* line_recalculate and circle_recalculate, of the values as they are      *)
(* after the assignment: a line without a texture leaves all as it was.    *)
Recalculate(w, f, r, o) ==
  IF plugin' = "line" /\ ~rvalid'
  THEN UNCHANGED <<draw, shape, late, reckoned>>
  ELSE /\ IF w = 0 \/ Extent(f, r, o) = 0
          THEN draw' = FALSE /\ UNCHANGED shape
          ELSE draw' = TRUE /\ shape' = Shape(w, f, r, o)
       /\ late' = FALSE /\ reckoned' = o

-----------------------------------------------------------------------------
(* Game code.                                                              *)

(* ent.texture = n.  No name keeps the old texture; a new one does not     *)
(* compute the geometry again.                                             *)
SetTexture(n) ==
  /\ tname' = n
  /\ IF plugin = NONE \/ n = NONE
     THEN UNCHANGED <<holding, late>>
     ELSE Loads(n) /\ late' = TRUE
  /\ seen' = <<>>
  /\ UNCHANGED <<plugin, width, finish, radius, geometry, origin, others, reckoned>>

SetWidth(w) ==
  /\ width' = w
  /\ UNCHANGED <<plugin, holding>>
  /\ IF plugin = NONE THEN UNCHANGED <<draw, shape, late, reckoned>>
     ELSE Recalculate(w, finish, radius, origin)
  /\ seen' = <<>>
  /\ UNCHANGED <<tname, finish, radius, origin, start, others>>

(* Also finish_x and finish_y.                                             *)
SetFinish(f) ==
  /\ finish' = f
  /\ UNCHANGED <<plugin, holding>>
  /\ IF plugin # "line" THEN UNCHANGED <<draw, shape, late, reckoned>>
     ELSE Recalculate(width, f, radius, origin)
  /\ seen' = <<>>
  /\ UNCHANGED <<tname, width, radius, origin, start, others>>

SetRadius(r) ==
  /\ radius' = r
  /\ UNCHANGED <<plugin, holding>>
  /\ IF plugin # "circle" THEN UNCHANGED <<draw, shape, late, reckoned>>
     ELSE Recalculate(width, finish, r, origin)
  /\ seen' = <<>>
  /\ UNCHANGED <<tname, width, finish, origin, start, others>>

Move(o) ==
  /\ origin' = o /\ seen' = <<>>
  /\ UNCHANGED <<plugin, fields, holding, geometry, others, late, reckoned>>

(* ent.render = p, or the entity is removed.  The fields of the old plugin *)
(* are kept, the name by what it points to now: a string that may be gone, *)
(* and its memory another's.  The data of the new one is zero before the   *)
(* callbacks run, texture's first.                                         *)
SetPlugin(p) ==
  /\ plugin' = p
  /\ tname' \in IF plugin # NONE /\ tname # NONE THEN Strip \cup {JUNK} ELSE {tname}
  /\ IF p = NONE \/ tname' = NONE
     THEN rvalid' = FALSE /\ strip' = NONE /\ tref' = RefsWithout
     ELSE Loads(tname')
  /\ start' = 0
  /\ LET seeable == rvalid' \/ p = "circle"
         drawn == width = 1 /\ Extent(finish, radius, origin) = 1
     IN  /\ draw' = (p # NONE /\ seeable /\ drawn)
         /\ shape' = IF draw' THEN Shape(width, finish, radius, origin) ELSE NONE
  /\ seen' = <<>> /\ late' = FALSE /\ reckoned' = origin
  /\ UNCHANGED <<width, finish, radius, origin, others>>

(* Another entity's sprite, line or circle.                                *)
OtherTakes(t) ==
  /\ others[t] < MaxOthers
  /\ others' = [others EXCEPT ![t] = @ + 1] /\ tref' = [tref EXCEPT ![t] = @ + 1]
  /\ seen' = <<>>
  /\ UNCHANGED <<plugin, fields, rvalid, strip, geometry, origin, late, reckoned>>

OtherDrops(t) ==
  /\ others[t] > 0
  /\ others' = [others EXCEPT ![t] = @ - 1] /\ tref' = [tref EXCEPT ![t] = @ - 1]
  /\ seen' = <<>>
  /\ UNCHANGED <<plugin, fields, rvalid, strip, geometry, origin, late, reckoned>>

-----------------------------------------------------------------------------
(* A frame.                                                                *)

(* Fault: the line is not computed again when it is drawn.                 *)
NeverMoved == FALSE

(* start is not the origin any more.                                       *)
Moved == plugin = "line" /\ start # origin

DrawBeam ==
  /\ rvalid
  /\ UNCHANGED <<plugin, fields, holding, origin, others>>
  /\ IF Moved
     THEN start' = origin /\ Recalculate(width, finish, radius, origin)
     ELSE UNCHANGED <<geometry, late, reckoned>>
  /\ seen' = IF draw' THEN <<strip, shape'>> ELSE <<NONE>>

BeamsNext ==
  \/ \E n \in Strip \cup {NONE, JUNK}: SetTexture(n)
  \/ \E w \in Length: SetWidth(w)
  \/ \E f \in Length: SetFinish(f)
  \/ \E r \in Length: SetRadius(r)
  \/ \E o \in Length: Move(o)
  \/ \E p \in {"line", "circle", NONE}: SetPlugin(p)
  \/ \E t \in Strip: OtherTakes(t)
  \/ \E t \in Strip: OtherDrops(t)
  \/ DrawBeam

BeamsSpec == BeamsInit /\ [][BeamsNext]_beamsVars

-----------------------------------------------------------------------------
(* Properties.                                                             *)

BeamsType ==
  /\ plugin \in {"line", "circle", NONE} /\ tname \in Strip \cup {NONE, JUNK}
  /\ rvalid \in BOOLEAN /\ strip \in Strip \cup {NONE}
  /\ {width, finish, radius, origin, start, reckoned} \subseteq Length
  /\ draw \in BOOLEAN /\ late \in BOOLEAN
  /\ tref \in [Strip -> Nat] /\ others \in [Strip -> 0 .. MaxOthers]

(* The entity counts once in the ref of the texture it holds and in no     *)
(* other, through loads that fail, renderers that change and names that    *)
(* are gone: nobody's texture is deleted while it is drawn, nor kept.      *)
BeamRefs == \A t \in Strip: tref[t] = others[t] + IF rvalid /\ strip = t THEN 1 ELSE 0

(* A line or circle is drawn as its fields and its origin are when it is   *)
(* drawn, and not drawn when it has no extent; but for a line whose        *)
(* texture came later, which waits for a field to be set or a move, and    *)
(* one computed elsewhere that is back where draw last computed it.        *)
BeamCurrent ==
  seen # <<>> /\ ~(plugin = "line" /\ (late \/ (start = origin /\ reckoned # origin))) =>
    seen = IF width = 0 \/ (plugin = "line" /\ finish = origin) \/ (plugin = "circle" /\ radius = 0)
           THEN <<NONE>>
           ELSE <<strip, IF plugin = "line"
                         THEN [width |-> width, finish |-> finish, origin |-> origin, strip |-> strip]
                         ELSE [width |-> width, radius |-> radius]>>

(* So the strips of lines and circles are those, and are as long, as their *)
(* fields say.                                                             *)
BeamKept == BeamsType /\ BeamRefs /\ BeamCurrent
=============================================================================
