------------------------------ MODULE Sprites ------------------------------
(***************************************************************************)
(* The cached sprites and textures, and the entities that show them        *)
(* (src/src/render/r_sprite.c, r_texture.c, src/src/game/g_render_sprite.c,*)
(* g_render.c).  A texture is shared by the sprites that have it as a      *)
(* frame, a sprite by the entities that show it; both count references.    *)
(*                                                                         *)
(* The program is single-threaded, and an operation of game code is        *)
(* several steps here, one per reference taken or dropped, so that a load  *)
(* that fails half-way is seen half-way.                                   *)
(*                                                                         *)
(* An entity's r->name is a pointer into memory it does not own: a Lua     *)
(* string, or the name inside the sprite it shows.  What a read through it *)
(* finds when that memory is gone is left open: the old text or JUNK.      *)
(*                                                                         *)
(* Of a sprite file only its textures count; a line or grid sprite has one *)
(* of them.  Linefonts, which share these caches, are left out, and with   *)
(* them the search_minimal argument that only they set.                    *)
(***************************************************************************)
EXTENDS Integers, Sequences, FiniteSets, Shared

CONSTANTS
  Slot,       (* Addresses a sprite can be allocated at.                     *)
  Name,       (* Names of sprites.                                           *)
  Tex,        (* Names of textures.                                          *)
  Frames,     (* Frames[n]: the textures that the file of sprite n names.    *)
  MaxFrames,  (* MAX_FRAMES, 64 in the code.                                 *)
  LUA         (* In owner: a Lua string.                                     *)

ASSUME FramesAssumption ==
  /\ MaxFrames \in Nat
  /\ Frames \in [Name -> Seq(Tex) \ {<<>>}]
  /\ \A n \in Name: Len(Frames[n]) <= MaxFrames
ASSUME FiniteAssumption == IsFiniteSet(Ent) /\ IsFiniteSet(Slot)
ASSUME JunkAssumption   == JUNK \notin Name /\ NONE \notin Name /\ JUNK # NONE
ASSUME NoneAssumption   == LUA \notin Slot /\ NONE \notin Slot /\ NONE \notin Ent

VARIABLES
  refs,       (* The ref of every listed texture; 0: not listed.             *)
  sref,       (* The ref of every listed sprite; 0: not listed.              *)
  sname,      (* The name inside the struct at a slot.                       *)
  sframes,    (* The textures of that struct.                                *)
  life,       (* An entity is "none", "live" or "doomed" (remove_entities).  *)
  data,       (* __data.sprite: the text kept while the plugin is not set.   *)
  plug,       (* The entity's renderer is the sprite plugin.                 *)
  valid,      (* render_valid.                                               *)
  shows,      (* r->sprite, as long as render_valid is true.                 *)
  name,       (* The text r->name had when it was set.                       *)
  owner,      (* The memory r->name points into: LUA or a slot.              *)
  step,       (* What comes next: "idle", "drop", "after", "frames",         *)
              (* "unwind", "callback".                                       *)
  who,        (* The entity operated on, NONE between operations.            *)
  then,       (* What follows the unload: "name", "plug", "none", "free".    *)
  todo,       (* Reload callbacks still to be run.                           *)
  spr,        (* The struct being filled or taken apart, not listed, or NONE.*)
  i,          (* The counter of the loop over its frames.                    *)
  wanted,     (* History: the name game code has last set.                   *)
  misread     (* History: a name has been read that was not the one set.     *)

cache   == <<refs, sref, sname, sframes>>
render  == <<plug, valid, shows, name, owner>>
task    == <<who, then, todo>>
struct  == <<spr, i>>
history == <<wanted, misread>>
spritesVars == <<cache, life, data, render, step, task, struct, history>>

Text  == Name \cup {JUNK, NONE}
Owner == Slot \cup {LUA}

SpritesInit ==
  /\ refs = [t \in Tex |-> 0]
  /\ sref = [s \in Slot |-> 0]
  /\ sname = [s \in Slot |-> NONE]
  /\ sframes = [s \in Slot |-> <<>>]
  /\ life = [e \in Ent |-> "none"]
  /\ data = [e \in Ent |-> NONE]
  /\ plug = [e \in Ent |-> FALSE]
  /\ valid = [e \in Ent |-> FALSE]
  /\ shows = [e \in Ent |-> NONE]
  /\ name = [e \in Ent |-> NONE]
  /\ owner = [e \in Ent |-> LUA]
  /\ step = "idle" /\ who = NONE /\ then = "none" /\ todo = 0
  /\ spr = NONE /\ i = 0
  /\ wanted = [e \in Ent |-> NONE]
  /\ misread = FALSE

-----------------------------------------------------------------------------
(* References.                                                             *)

Listed == {s \in Slot: sref[s] > 0}

(* Fault: the place for the name is taken for a member.                    *)
FindPlace(n) == Listed

(* sglib_r_sprite_t_find_member, which compares names only.                *)
Find(n) == {s \in Listed: sname[s] = n}

(* r_texture_load and r_texture_unload: the first reference loads the      *)
(* texture, the last one dropped deletes it.                               *)
Take(t) == refs' = [refs EXCEPT ![t] = @ + 1]
Drop(t) == refs' = [refs EXCEPT ![t] = @ - 1]

(* What is read through r->name.                                           *)
Reads(e) ==
  IF name[e] = NONE THEN {NONE}
  ELSE IF owner[e] = LUA THEN {name[e]}
  ELSE IF sref[owner[e]] > 0 THEN {sname[owner[e]]}
  ELSE {name[e], JUNK}

(* Once the callback that set it is over, a Lua string may be collected.   *)
LateReads(e) ==
  IF owner[e] = LUA /\ name[e] # NONE THEN {name[e], JUNK} ELSE Reads(e)

(* Fault: the last reference but one frees the sprite.                     *)
LastButOne(s) == sref[s] <= 2

(* --ref > 0 keeps it.                                                     *)
LastRef(s) == sref[s] = 1

(* render_valid says that r->sprite is held.                               *)
Holds(e) == valid[e]

(* r_sprite_unload of what the entity shows, if it shows anything.         *)
Unload(e) ==
  /\ valid' = [valid EXCEPT ![e] = FALSE]
  /\ shows' = [shows EXCEPT ![e] = NONE]
  /\ IF ~Holds(e)
     THEN step' = "after" /\ UNCHANGED <<sref, struct>>
     ELSE IF LastRef(shows[e])
     THEN /\ sref' = [sref EXCEPT ![shows[e]] = 0]
          /\ spr' = shows[e]
          /\ i' = 1
          /\ step' = "drop"
     ELSE /\ sref' = [sref EXCEPT ![shows[e]] = @ - 1]
          /\ UNCHANGED struct
          /\ step' = "after"

-----------------------------------------------------------------------------
(* Operations of game code and of the frame.                               *)

Spawn(e) ==
  /\ step = "idle" /\ life[e] = "none"
  /\ life' = [life EXCEPT ![e] = "live"]
  /\ data' = [data EXCEPT ![e] = NONE]
  /\ wanted' = [wanted EXCEPT ![e] = NONE]
  /\ UNCHANGED <<cache, render, step, task, struct, misread>>

(* ent.sprite = n, n possibly nil.  Without the plugin the field is not    *)
(* known and goes into __data.                                             *)
SetSprite(e, n) ==
  /\ step = "idle" /\ life[e] = "live"
  /\ wanted' = [wanted EXCEPT ![e] = n]
  /\ IF plug[e]
     THEN /\ name' = [name EXCEPT ![e] = n]
          /\ owner' = [owner EXCEPT ![e] = LUA]
          /\ who' = e /\ todo' = 1 /\ step' = "callback"
          /\ UNCHANGED data
     ELSE data' = [data EXCEPT ![e] = n] /\ UNCHANGED <<name, owner, who, todo, step>>
  /\ UNCHANGED <<cache, life, plug, valid, shows, then, struct, misread>>

(* ent.ui = true or false: sprite_reload_callback once more, by r->name.   *)
SetUi(e) ==
  /\ step = "idle" /\ life[e] = "live" /\ plug[e]
  /\ \E n \in LateReads(e):
       /\ name' = [name EXCEPT ![e] = n]
       /\ misread' = (misread \/ n # name[e])
  /\ who' = e /\ todo' = 1 /\ step' = "callback"
  /\ UNCHANGED <<cache, life, data, plug, valid, shows, owner, then, struct, wanted>>

(* ent.render = g_render_sprite, or anything else: the fields of the old   *)
(* plugin go into __data and its data is freed.                            *)
SetRender(e, on) ==
  /\ step = "idle" /\ life[e] = "live"
  /\ IF plug[e]
     THEN \E n \in LateReads(e):
            /\ data' = [data EXCEPT ![e] = n]
            /\ misread' = (misread \/ n # name[e])
     ELSE UNCHANGED <<data, misread>>
  /\ who' = e /\ then' = IF on THEN "plug" ELSE "none"
  /\ Unload(e)
  /\ UNCHANGED <<refs, sname, sframes, life, plug, name, owner, todo, wanted>>

(* ent_remove, or g_entity_shutdown for every entity that is left.         *)
Remove(e) ==
  /\ step = "idle" /\ life[e] = "live"
  /\ life' = [life EXCEPT ![e] = "doomed"]
  /\ UNCHANGED <<cache, data, render, step, task, struct, history>>

(* g_entity_mem_free, at the next frame.                                   *)
Free(e) ==
  /\ step = "idle" /\ life[e] = "doomed"
  /\ who' = e /\ then' = "free"
  /\ Unload(e)
  /\ UNCHANGED <<refs, sname, sframes, life, data, plug, name, owner, todo, history>>

-----------------------------------------------------------------------------
(* The steps of an operation.                                              *)

(* r_sprite_unload: the textures of a sprite that is gone.                 *)
DropFrame ==
  /\ step = "drop" /\ i <= Len(sframes[spr])
  /\ Drop(sframes[spr][i])
  /\ i' = i + 1
  /\ UNCHANGED <<sref, sname, sframes, life, data, render, step, task, spr, history>>

(* mem_free of the struct.                                                 *)
FreeStruct ==
  /\ sname' = [sname EXCEPT ![spr] = NONE]
  /\ sframes' = [sframes EXCEPT ![spr] = <<>>]
  /\ spr' = NONE /\ i' = 0

Dropped ==
  /\ step = "drop" /\ i > Len(sframes[spr])
  /\ FreeStruct
  /\ step' = "after"
  /\ UNCHANGED <<refs, sref, life, data, render, task, history>>

OperationDone == step' = "idle" /\ who' = NONE /\ then' = "none"

(* New render data, its fields from __data, then the callbacks of the      *)
(* fields: sprite and ui both reload.                                      *)
Plug ==
  /\ step = "after" /\ then = "plug"
  /\ plug' = [plug EXCEPT ![who] = TRUE]
  /\ name' = [name EXCEPT ![who] = data[who]]
  /\ owner' = [owner EXCEPT ![who] = LUA]
  /\ todo' = 2 /\ step' = "callback"
  /\ UNCHANGED <<cache, life, data, valid, shows, who, then, struct, history>>

Unplug ==
  /\ step = "after" /\ then \in {"none", "free"}
  /\ plug' = [plug EXCEPT ![who] = FALSE]
  /\ name' = [name EXCEPT ![who] = NONE]
  /\ owner' = [owner EXCEPT ![who] = LUA]
  /\ life' = IF then = "free" THEN [life EXCEPT ![who] = "none"] ELSE life
  /\ OperationDone
  /\ UNCHANGED <<cache, data, valid, shows, todo, struct, history>>

(* sprite_reload_callback, from its start.                                 *)
Callback ==
  /\ step = "callback" /\ todo > 0
  /\ todo' = todo - 1
  /\ then' = "name"
  /\ Unload(who)
  /\ UNCHANGED <<refs, sname, sframes, life, data, plug, name, owner, who, history>>

CallbacksDone ==
  /\ step = "callback" /\ todo = 0
  /\ OperationDone
  /\ UNCHANGED <<cache, life, data, render, todo, struct, history>>

(* The entity shows a sprite, and names it by the name inside it.          *)
Show(s, n) ==
  /\ valid' = [valid EXCEPT ![who] = TRUE]
  /\ shows' = [shows EXCEPT ![who] = s]
  /\ name' = [name EXCEPT ![who] = n]
  /\ owner' = [owner EXCEPT ![who] = s]

(* Fault: a sprite found is returned without another reference.            *)
FoundUncounted(s) == sref' = sref
Found(s) == sref' = [sref EXCEPT ![s] = @ + 1]

(* r_sprite_load: no name, a sprite already loaded, no such file.          *)
LoadNothing ==
  /\ step = "after" /\ then = "name"
  /\ NONE \in Reads(who)
  /\ step' = "callback"
  /\ UNCHANGED <<cache, life, data, render, task, struct, history>>

LoadCached ==
  /\ step = "after" /\ then = "name"
  /\ \E n \in Reads(who) \ {NONE}, s \in Slot:
       /\ s \in Find(n)
       /\ Found(s)
       /\ Show(s, n)
       /\ misread' = (misread \/ n # name[who])
  /\ step' = "callback"
  /\ UNCHANGED <<refs, sname, sframes, life, data, plug, task, struct, wanted>>

LoadMissing ==
  /\ step = "after" /\ then = "name"
  /\ \E n \in Reads(who) \ {NONE}:
       /\ Find(n) = {}
       /\ misread' = (misread \/ n # name[who])
  /\ step' = "callback"
  /\ UNCHANGED <<cache, life, data, render, task, struct, wanted>>

LoadFile ==
  /\ step = "after" /\ then = "name"
  /\ \E n \in Reads(who) \cap Name, s \in Slot \ Listed:
       /\ Find(n) = {}
       /\ spr' = s
       /\ sframes' = [sframes EXCEPT ![s] = Frames[n]]
  /\ i' = 0
  /\ step' = "frames"
  /\ UNCHANGED <<refs, sref, sname, life, data, render, task, history>>

LoadFrame ==
  /\ step = "frames" /\ i < Len(sframes[spr])
  /\ Take(sframes[spr][i + 1])
  /\ i' = i + 1
  /\ UNCHANGED <<sref, sname, sframes, life, data, render, step, task, spr, history>>

(* Fault: the frame that failed is unloaded as well.                       *)
FailedToo == i + 1
LoadedFrames == i

(* A texture fails to load, or there is no memory for the sprite.          *)
LoadFails ==
  /\ step = "frames" /\ i < Len(sframes[spr])
  /\ i' = LoadedFrames
  /\ step' = "unwind"
  /\ UNCHANGED <<cache, life, data, render, task, spr, history>>

Unwind ==
  /\ step = "unwind" /\ i > 0
  /\ Drop(sframes[spr][i])
  /\ i' = i - 1
  /\ UNCHANGED <<sref, sname, sframes, life, data, render, step, task, spr, history>>

Unwound ==
  /\ step = "unwind" /\ i = 0
  /\ FreeStruct
  /\ step' = "callback"
  /\ UNCHANGED <<refs, sref, life, data, render, task, history>>

(* The name is read again to be copied into the new sprite.                *)
LoadDone ==
  /\ step = "frames" /\ i = Len(sframes[spr])
  /\ sref' = [sref EXCEPT ![spr] = 1]
  /\ \E n \in Reads(who):
       /\ sname' = [sname EXCEPT ![spr] = n]
       /\ Show(spr, n)
       /\ misread' = (misread \/ n # name[who])
  /\ spr' = NONE /\ i' = 0
  /\ step' = "callback"
  /\ UNCHANGED <<refs, sframes, life, data, plug, task, wanted>>

Reload ==
  \/ Callback
  \/ CallbacksDone
  \/ LoadNothing
  \/ LoadCached
  \/ LoadMissing
  \/ LoadFile
  \/ LoadFrame
  \/ LoadFails
  \/ Unwind
  \/ Unwound
  \/ LoadDone

SpritesNext ==
  \/ \E e \in Ent: Spawn(e)
  \/ \E e \in Ent, n \in Name \cup {NONE}: SetSprite(e, n)
  \/ \E e \in Ent: SetUi(e)
  \/ \E e \in Ent, on \in BOOLEAN: SetRender(e, on)
  \/ \E e \in Ent: Remove(e)
  \/ \E e \in Ent: Free(e)
  \/ DropFrame
  \/ Dropped
  \/ Plug
  \/ Unplug
  \/ Reload

SpritesSpec == SpritesInit /\ [][SpritesNext]_spritesVars

-----------------------------------------------------------------------------
(* Properties.                                                             *)

SpritesType ==
  /\ refs \in [Tex -> Nat] /\ sref \in [Slot -> Nat]
  /\ sname \in [Slot -> Text] /\ sframes \in [Slot -> Seq(Tex)]
  /\ life \in [Ent -> {"none", "live", "doomed"}]
  /\ data \in [Ent -> Text]
  /\ plug \in [Ent -> BOOLEAN] /\ valid \in [Ent -> BOOLEAN]
  /\ shows \in [Ent -> Slot \cup {NONE}]
  /\ name \in [Ent -> Text] /\ owner \in [Ent -> Owner]
  /\ step \in {"idle", "drop", "after", "frames", "unwind", "callback"}
  /\ who \in Ent \cup {NONE} /\ then \in {"name", "plug", "none", "free"} /\ todo \in 0 .. 2
  /\ spr \in Slot \cup {NONE} /\ i \in Nat
  /\ wanted \in [Ent -> Name \cup {NONE}] /\ misread \in BOOLEAN

Working == step \in {"drop", "frames", "unwind"}

(* The frames that have taken a reference and not dropped it.              *)
InLoop == IF step = "drop" THEN i .. Len(sframes[spr]) ELSE 1 .. i
Taken == {f \in Slot \X (1 .. MaxFrames):
            IF Working /\ f[1] = spr THEN f[2] \in InLoop
            ELSE f[1] \in Listed /\ f[2] \in DOMAIN sframes[f[1]]}
Uses(t) == {f \in Taken: sframes[f[1]][f[2]] = t}

(* A texture's ref is the number of frames that name it, in listed sprites *)
(* and in the one being filled or taken apart, whatever fails in between:  *)
(* it is not deleted while a sprite still draws it, nor kept for nothing.  *)
TextureRefs == \A t \in Tex: refs[t] = Cardinality(Uses(t))

(* A sprite's ref is the number of entities that show it.                  *)
Shown(s) == {e \in Ent: valid[e] /\ shows[e] = s}
SpriteRefs == \A s \in Slot: sref[s] = Cardinality(Shown(s))

(* Both caches count exactly.                                              *)
CountsExact == TextureRefs /\ SpriteRefs

(* g_render_entity draws from memory that is there: between operations, a  *)
(* sprite that an entity shows is listed, and so are its textures.         *)
DrawSafe ==
  step = "idle" =>
    \A e \in Ent: valid[e] =>
      /\ plug[e] /\ shows[e] \in Listed
      /\ \A j \in DOMAIN sframes[shows[e]]: refs[sframes[shows[e]][j]] > 0

(* No sprite is loaded twice under one name, but for names that were junk. *)
NamesUnique ==
  \A s, u \in Listed: sname[s] = sname[u] /\ sname[s] # JUNK => s = u

(* As long as no freed name has been misread, an entity that shows         *)
(* anything shows what game code has last asked for.                       *)
ShowsWanted ==
  step = "idle" /\ ~misread =>
    \A e \in Ent: valid[e] =>
      wanted[e] # NONE /\ sname[shows[e]] = wanted[e] /\ sframes[shows[e]] = Frames[wanted[e]]

(* When the last entity is freed nothing is left: r_shutdown, which comes  *)
(* after g_shutdown, finds both caches empty.                              *)
NothingLeft ==
  (\A e \in Ent: life[e] = "none") => Listed = {} /\ \A t \in Tex: refs[t] = 0

=============================================================================
