------------------------------- MODULE Sounds -------------------------------
(***************************************************************************)
(* Sounds, and the entities that play them (src/src/sound/snd.c,           *)
(* src/src/game/g_render_sound.c).  A loaded sound is a struct and an      *)
(* OpenAL buffer; an entity with the renderer "sound" has a source that    *)
(* plays it.  No callback calls another, so each operation is one step.    *)
(*                                                                         *)
(* Left out: the decoders, the listener, streaming (a FIXME in the code),  *)
(* and the OpenAL buffer that a load leaves behind when it fails after     *)
(* alGenBuffers.                                                           *)
(***************************************************************************)
EXTENDS FiniteSets, Shared

CONSTANTS
  Sound,      (* Addresses a sound can be allocated at.                      *)
  Source      (* OpenAL sources; NONE is source 0, which means none.         *)

ASSUME SoundsAssumption == NONE \notin Sound /\ NONE \notin Source

VARIABLES
  snd_i,      (* OpenAL is up; FALSE with -nosound.  Never changes here.     *)
  loaded,     (* The sounds allocated in snd_mempool, each with its buffer.  *)
  sounds,     (* The list of sounds, in no order.                            *)
  sources,    (* The sources generated and not deleted.                      *)
  buffer,     (* AL_BUFFER of a source.                                      *)
  looping,    (* AL_LOOPING of a source.                                     *)
  playing,    (* The sources that play.                                      *)
  plugged,    (* The renderer of an entity is "sound".                       *)
  named,      (* Its field sound is not nil.                                 *)
  loop,       (* Its field loop.                                             *)
  ready,      (* render_valid.                                               *)
  sound,      (* r->sound, while render_valid is true.                       *)
  source      (* r->source, while render_valid is true.                      *)

openal     == <<sources, buffer, looping, playing>>
player     == <<ready, sound, source>>
soundsVars == <<snd_i, loaded, sounds, openal, player, plugged, named, loop>>

SoundsInit ==
  /\ snd_i \in BOOLEAN
  /\ loaded = {} /\ sounds = {}
  /\ sources = {} /\ playing = {}
  /\ buffer = [s \in Source |-> NONE] /\ looping = [s \in Source |-> FALSE]
  /\ plugged = [e \in Ent |-> FALSE]
  /\ named = [e \in Ent |-> FALSE] /\ loop = [e \in Ent |-> FALSE]
  /\ ready = [e \in Ent |-> FALSE]
  /\ sound = [e \in Ent |-> NONE] /\ source = [e \in Ent |-> NONE]

-----------------------------------------------------------------------------

(* What snd_unload frees of a sound: one that is not in the list, nothing. *)
Freed(s) == {s} \cap sounds

(* snd_load puts the list behind the new sound, and not the sound into it. *)
Linked(s) == sounds

(* snd_delete_source of what the entity plays.                             *)
OldSource(e) == IF ready[e] THEN {source[e]} ELSE {}
OldSound(e)  == IF ready[e] THEN Freed(sound[e]) ELSE {}

(* The entity has nothing to play any more.                                *)
Silent(e) ==
  /\ loaded' = loaded \ OldSound(e)
  /\ sounds' = sounds \ OldSound(e)
  /\ sources' = sources \ OldSource(e)
  /\ playing' = playing \ OldSource(e)
  /\ buffer' = [t \in Source |-> IF t \in OldSource(e) THEN NONE ELSE buffer[t]]
  /\ looping' = [t \in Source |-> looping[t] /\ t \notin OldSource(e)]
  /\ ready' = [ready EXCEPT ![e] = FALSE]
  /\ sound' = [sound EXCEPT ![e] = NONE]
  /\ source' = [source EXCEPT ![e] = NONE]

(* Fault: snd_load is not told that the sound loops.                       *)
NeverAsked(asked, garbage) == garbage

(* sound.looping on the stack of snd_load is set if the flag is given, and *)
(* whatever was there before if not.                                       *)
LoopsAsLoaded(asked, garbage) == asked \/ garbage

(* snd_load and snd_create_source at sound s and source t; OpenAL may have *)
(* no source left, and then the entity plays source 0.                     *)
Loads(e, s, t, garbage) ==
  /\ snd_i /\ s \notin loaded
  /\ t \in (Source \ sources) \cup {NONE}
  /\ loaded' = (loaded \ OldSound(e)) \cup {s}
  /\ sounds' = Linked(s) \ OldSound(e)
  /\ sources' = (sources \ OldSource(e)) \cup ({t} \ {NONE})
  /\ playing' = playing \ OldSource(e)
  /\ buffer' = [u \in Source |-> IF u = t THEN s ELSE IF u \in OldSource(e) THEN NONE ELSE buffer[u]]
  /\ looping' = [u \in Source |->
       IF u = t THEN LoopsAsLoaded(loop[e], garbage) ELSE looping[u] /\ u \notin OldSource(e)]
  /\ ready' = [ready EXCEPT ![e] = TRUE]
  /\ sound' = [sound EXCEPT ![e] = s]
  /\ source' = [source EXCEPT ![e] = t]

(* sound_reload_callback, for a name or for nil; a load may fail.          *)
Reloaded(e) ==
  \/ Silent(e)
  \/ named'[e] /\ \E s \in Sound, t \in Source \cup {NONE}, garbage \in BOOLEAN: Loads(e, s, t, garbage)

(* ent.sound = a name or nil.                                              *)
SetSound(e, n) ==
  /\ named' = [named EXCEPT ![e] = n]
  /\ IF plugged[e] THEN Reloaded(e) ELSE UNCHANGED <<loaded, sounds, openal, player>>
  /\ UNCHANGED <<snd_i, plugged, loop>>

(* ent.loop = b: sound_loop_callback.                                      *)
SetLoop(e, b) ==
  /\ loop' = [loop EXCEPT ![e] = b]
  /\ looping' = [t \in Source |-> IF ready[e] /\ t = source[e] THEN b ELSE looping[t]]
  /\ UNCHANGED <<snd_i, loaded, sounds, sources, buffer, playing, player, plugged, named>>

(* ent.play = anything: sound_play_callback, from the start if it plays.   *)
Play(e) ==
  /\ plugged[e] /\ ready[e]
  /\ playing' = playing \cup ({source[e]} \ {NONE})
  /\ UNCHANGED <<snd_i, loaded, sounds, sources, buffer, looping, player, plugged, named, loop>>

(* OpenAL comes to the end of a sound.                                     *)
Ends(t) ==
  /\ t \in playing /\ ~looping[t]
  /\ playing' = playing \ {t}
  /\ UNCHANGED <<snd_i, loaded, sounds, sources, buffer, looping, player, plugged, named, loop>>

(* ent.render = g_render_sound: what was plugged in is freed, and the      *)
(* callbacks run: loop and play find nothing yet, sound loads.             *)
PlugIn(e) ==
  /\ ~plugged[e]
  /\ plugged' = [plugged EXCEPT ![e] = TRUE]
  /\ named' = named
  /\ Reloaded(e)
  /\ UNCHANGED <<snd_i, loop>>

(* ent_render_sound_unset.                                                 *)
Unplugged(e) == Silent(e)

(* ent.render = anything else, with the fields kept in __data.             *)
PlugOut(e) ==
  /\ plugged[e]
  /\ plugged' = [plugged EXCEPT ![e] = FALSE]
  /\ Unplugged(e)
  /\ UNCHANGED <<snd_i, named, loop>>

(* g_entity_mem_free; an entity spawned later takes its place.             *)
Gone(e) ==
  /\ plugged' = [plugged EXCEPT ![e] = FALSE]
  /\ named' = [named EXCEPT ![e] = FALSE]
  /\ loop' = [loop EXCEPT ![e] = FALSE]
  /\ Unplugged(e)
  /\ UNCHANGED snd_i

SoundsNext ==
  \/ \E e \in Ent, n \in BOOLEAN: SetSound(e, n)
  \/ \E e \in Ent, b \in BOOLEAN: SetLoop(e, b)
  \/ \E e \in Ent: Play(e)
  \/ \E t \in Source: Ends(t)
  \/ \E e \in Ent: PlugIn(e)
  \/ \E e \in Ent: PlugOut(e)
  \/ \E e \in Ent: Gone(e)

SoundsSpec == SoundsInit /\ [][SoundsNext]_soundsVars

-----------------------------------------------------------------------------

SoundsType ==
  /\ snd_i \in BOOLEAN
  /\ loaded \subseteq Sound /\ sounds \subseteq loaded
  /\ sources \subseteq Source /\ playing \subseteq sources
  /\ buffer \in [Source -> Sound \cup {NONE}] /\ looping \in [Source -> BOOLEAN]
  /\ plugged \in [Ent -> BOOLEAN] /\ named \in [Ent -> BOOLEAN] /\ loop \in [Ent -> BOOLEAN]
  /\ ready \in [Ent -> BOOLEAN]
  /\ sound \in [Ent -> Sound \cup {NONE}] /\ source \in [Ent -> Source \cup {NONE}]

(* Every source belongs to one entity that can play it, and is deleted     *)
(* with it; its buffer is the entity's sound, still loaded; and it loops   *)
(* if the entity's field says so, which a load, a change of the field and  *)
(* a change of the renderer must all see to.  The converse does not hold.  *)
SourcesOwned ==
  /\ SoundsType
  /\ \A t \in sources: Cardinality({e \in Ent: ready[e] /\ source[e] = t}) = 1
  /\ \A e \in Ent: ready[e] =>
       /\ plugged[e] /\ sound[e] \in loaded
       /\ source[e] # NONE =>
            /\ source[e] \in sources /\ buffer[source[e]] = sound[e]
            /\ loop[e] => looping[source[e]]

=============================================================================
