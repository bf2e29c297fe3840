-------------------------- MODULE ResourcesProofs ---------------------------
(* Proofs about what is loaded: who owns a source of sound, what a load    *)
(* that fails gives back, and who refers to a font, for any sounds,        *)
(* sources, files, fonts and entities.                                     *)
EXTENDS Sounds, Decoders, Fonts, FiniteSetTheorems, SequenceTheorems, TLAPS

-----------------------------------------------------------------------------
(* The sources (Sounds).                                                   *)

SoundsKinds ==
  /\ loaded \subseteq Sound /\ sounds \subseteq loaded
  /\ sources \subseteq Source /\ playing \subseteq sources
  /\ buffer \in [Source -> Sound \cup {NONE}]
  /\ sound \in [Ent -> Sound \cup {NONE}] /\ source \in [Ent -> Source \cup {NONE}]
Loops   == looping \in [Source -> BOOLEAN]
Wants   == loop \in [Ent -> BOOLEAN]
Plugs   == plugged \in [Ent -> BOOLEAN]
Names   == named \in [Ent -> BOOLEAN]
Readies == ready \in [Ent -> BOOLEAN]
Up      == snd_i \in BOOLEAN

(* What an entity plays is there, and plays what it should.                *)
PlaysOwn(e) ==
  ready[e] =>
    /\ plugged[e] /\ sound[e] \in loaded
    /\ source[e] # NONE =>
         source[e] \in sources /\ buffer[source[e]] = sound[e] /\ (loop[e] => looping[source[e]])

(* No two entities play with one source, nor one sound, which to free for  *)
(* the one would take from the other.                                      *)
Apart(e, f) ==
  ready[e] /\ ready[f] /\ e # f => sound[e] # sound[f] /\ (source[e] # source[f] \/ source[e] = NONE)

HasOwner(t) == \E e \in Ent: ready[e] /\ source[e] = t

Owners ==
  /\ \A e \in Ent: PlaysOwn(e)
  /\ \A e, f \in Ent: Apart(e, f)
  /\ \A t \in sources: HasOwner(t)

SoundsInv == SoundsKinds /\ Loops /\ Wants /\ Plugs /\ Names /\ Readies /\ Up /\ Owners

(* What entity e had is all that goes.                                     *)
LEMMA OldsOwn ==
  ASSUME SoundsKinds, Readies, Owners, NEW e \in Ent
  PROVE  /\ OldSound(e) \subseteq {sound[e]} /\ OldSource(e) \subseteq {source[e]}
         /\ ready[e] => OldSource(e) = {source[e]}
         /\ ~ready[e] => OldSource(e) = {} /\ OldSound(e) = {}
         /\ \A f \in Ent: ready[f] /\ f # e => sound[f] \notin OldSound(e)
                                           /\ (source[f] # NONE => source[f] \notin OldSource(e))
<1>1. /\ OldSound(e) \subseteq {sound[e]} /\ OldSource(e) \subseteq {source[e]}
      /\ ready[e] => OldSource(e) = {source[e]}
      /\ ~ready[e] => OldSource(e) = {} /\ OldSound(e) = {}
  BY DEF OldSound, OldSource, Freed
<1>2. ASSUME NEW f \in Ent, ready[f], f # e
      PROVE  sound[f] \notin OldSound(e) /\ (source[f] # NONE => source[f] \notin OldSource(e))
  <2>1. CASE ready[e]
    <3>1. sound[f] # sound[e] /\ (source[f] # source[e] \/ source[f] = NONE)
      BY <1>2, <2>1 DEF Owners, Apart
    <3> QED
      BY <1>1, <3>1
  <2>2. CASE ~ready[e]
    BY <1>1, <2>2
  <2> QED
    BY <2>1, <2>2
<1> QED
  BY <1>1, <1>2

(* The fields of the others are as they were.                              *)
OthersSame(e) ==
  \A f \in Ent \ {e}: (plugged[f] => plugged'[f]) /\ (loop'[f] => loop[f])

LEMMA SilentKeeps ==
  ASSUME SoundsInv, NEW e \in Ent, Silent(e), OthersSame(e)
  PROVE  SoundsKinds' /\ Loops' /\ Readies' /\ Owners'
<1>0. SoundsKinds /\ Loops /\ Readies /\ Owners
  BY DEF SoundsInv
<1>1. SoundsKinds'
  BY <1>0 DEF Silent, SoundsKinds, OldSound, Freed, OldSource
<1>2. Loops'
  <2>1. looping' = [t \in Source |-> looping[t] /\ t \notin OldSource(e)]
    BY DEF Silent
  <2>2. \A t \in Source: (looping[t] /\ t \notin OldSource(e)) \in BOOLEAN
    BY Zenon
  <2> QED
    BY <2>1, <2>2, Zenon DEF Loops
<1>3. ready' = [ready EXCEPT ![e] = FALSE]
  BY DEF Silent
<1>4. Readies'
  BY <1>0, <1>3 DEF Readies
<1>5. \A f \in Ent: ready'[f] => f # e /\ ready[f]
  BY <1>0, <1>3 DEF Readies
<1>6. \A f \in Ent: f # e => sound'[f] = sound[f] /\ source'[f] = source[f]
  BY <1>0 DEF Silent, SoundsKinds
<1>7. ASSUME NEW f \in Ent, ready'[f] PROVE PlaysOwn(f)'
  <2>1. f # e /\ ready[f]
    BY <1>5, <1>7
  <2>2. PlaysOwn(f) /\ sound'[f] = sound[f] /\ source'[f] = source[f]
    BY <1>0, <1>6, <2>1 DEF Owners
  <2>3. sound[f] \notin OldSound(e) /\ (source[f] # NONE => source[f] \notin OldSource(e))
    BY <1>0, <2>1, OldsOwn
  <2>4. plugged'[f] /\ (loop'[f] => loop[f])
    BY <2>1, <2>2 DEF OthersSame, PlaysOwn
  <2>5. sound'[f] \in loaded'
    BY <2>1, <2>2, <2>3 DEF Silent, PlaysOwn
  <2>6. ASSUME source'[f] # NONE
        PROVE  source'[f] \in sources' /\ buffer'[source'[f]] = sound'[f] /\ (loop'[f] => looping'[source'[f]])
    <3> DEFINE t == source[f]
    <3>1. t \in sources /\ buffer[t] = sound[f] /\ (loop[f] => looping[t]) /\ t \notin OldSource(e) /\ t \in Source
      BY <1>0, <2>1, <2>2, <2>3, <2>6 DEF PlaysOwn, SoundsKinds
    <3>2. t \in sources' /\ buffer'[t] = buffer[t]
      BY <3>1 DEF Silent
    <3>3. looping'[t] <=> looping[t]
      BY <3>1 DEF Silent
    <3> QED
      BY <2>2, <2>4, <3>1, <3>2, <3>3
  <2> QED
    BY <2>4, <2>5, <2>6 DEF PlaysOwn
<1>8. ASSUME NEW f \in Ent, NEW g \in Ent PROVE Apart(f, g)'
  BY <1>0, <1>5, <1>6 DEF Owners, Apart
<1>9. ASSUME NEW t \in sources' PROVE HasOwner(t)'
  <2>1. t \in sources /\ t \notin OldSource(e)
    BY DEF Silent
  <2>2. PICK f \in Ent: ready[f] /\ source[f] = t
    BY <1>0, <2>1 DEF Owners, HasOwner
  <2>3. f # e
    BY <1>0, <2>1, <2>2, OldsOwn
  <2>4. ready'[f] /\ source'[f] = t
    BY <1>0, <1>3, <1>6, <2>2, <2>3 DEF Readies
  <2> QED
    BY <2>4 DEF HasOwner
<1> QED
  BY <1>1, <1>2, <1>4, <1>7, <1>8, <1>9 DEF Owners, PlaysOwn

LEMMA LoadsKeeps ==
  ASSUME SoundsInv, NEW e \in Ent, NEW s \in Sound, NEW t \in Source \cup {NONE}, NEW garbage \in BOOLEAN,
         Loads(e, s, t, garbage), OthersSame(e), plugged'[e], loop'[e] <=> loop[e]
  PROVE  SoundsKinds' /\ Loops' /\ Readies' /\ Owners'
<1>0. SoundsKinds /\ Loops /\ Readies /\ Owners
  BY DEF SoundsInv
<1>a. s \notin loaded /\ s # NONE /\ (t = NONE \/ (t \in Source /\ t \notin sources))
  BY SoundsAssumption DEF Loads
<1>1. SoundsKinds'
  BY <1>0, <1>a DEF Loads, Linked, SoundsKinds, OldSound, Freed, OldSource
<1>2. Loops'
  <2>1. looping' = [u \in Source |->
          IF u = t THEN LoopsAsLoaded(loop[e], garbage) ELSE looping[u] /\ u \notin OldSource(e)]
    BY DEF Loads
  <2>2. \A u \in Source: (looping[u] /\ u \notin OldSource(e)) \in BOOLEAN
    BY Zenon
  <2>3. LoopsAsLoaded(loop[e], garbage) \in BOOLEAN
    BY Zenon DEF LoopsAsLoaded
  <2> QED
    BY <2>1, <2>2, <2>3, Zenon DEF Loops
<1>3. ready' = [ready EXCEPT ![e] = TRUE] /\ sound'[e] = s /\ source'[e] = t
  BY <1>0 DEF Loads, SoundsKinds
<1>4. Readies'
  BY <1>0, <1>3 DEF Readies
<1>5. \A f \in Ent: f # e => (ready'[f] <=> ready[f])
  BY <1>0, <1>3 DEF Readies
<1>6. \A f \in Ent: f # e => sound'[f] = sound[f] /\ source'[f] = source[f]
  BY <1>0 DEF Loads, SoundsKinds
<1>7. ASSUME NEW f \in Ent, f # e, ready'[f] PROVE PlaysOwn(f)'
  <2>1. ready[f]
    BY <1>5, <1>7
  <2>2. PlaysOwn(f) /\ sound'[f] = sound[f] /\ source'[f] = source[f]
    BY <1>0, <1>6, <1>7 DEF Owners
  <2>3. sound[f] \notin OldSound(e) /\ (source[f] # NONE => source[f] \notin OldSource(e))
    BY <1>0, <1>7, <2>1, OldsOwn
  <2>4. plugged'[f] /\ (loop'[f] => loop[f])
    BY <1>7, <2>1, <2>2 DEF OthersSame, PlaysOwn
  <2>5. sound'[f] \in loaded'
    BY <2>1, <2>2, <2>3 DEF Loads, PlaysOwn
  <2>6. ASSUME source'[f] # NONE
        PROVE  source'[f] \in sources' /\ buffer'[source'[f]] = sound'[f] /\ (loop'[f] => looping'[source'[f]])
    <3> DEFINE u == source[f]
    <3>1. u \in sources /\ buffer[u] = sound[f] /\ (loop[f] => looping[u]) /\ u \notin OldSource(e)
          /\ u \in Source /\ u # t
      BY <1>0, <1>a, <2>1, <2>2, <2>3, <2>6 DEF PlaysOwn, SoundsKinds
    <3>2. u \in sources' /\ buffer'[u] = buffer[u]
      BY <3>1 DEF Loads
    <3>3. looping'[u] <=> looping[u]
      BY <3>1 DEF Loads
    <3> QED
      BY <2>2, <2>4, <3>1, <3>2, <3>3
  <2> QED
    BY <2>4, <2>5, <2>6 DEF PlaysOwn
<1>8. PlaysOwn(e)'
  <2>1. sound'[e] \in loaded'
    BY <1>3 DEF Loads
  <2>2. ASSUME t # NONE
        PROVE  t \in sources' /\ buffer'[t] = s /\ (loop'[e] => looping'[t])
    <3>1. t \in Source
      BY <2>2
    <3>2. t \in sources' /\ buffer'[t] = s
      BY <2>2, <3>1 DEF Loads
    <3>3. looping'[t] <=> (loop[e] \/ garbage)
      BY <3>1 DEF Loads, LoopsAsLoaded
    <3> QED
      BY <3>2, <3>3
  <2> QED
    BY <1>3, <2>1, <2>2 DEF PlaysOwn
<1>9. ASSUME NEW f \in Ent, f # e, ready[f]
      PROVE  sound[f] # s /\ (source[f] # t \/ t = NONE)
  <2>1. sound[f] \in loaded /\ (source[f] # NONE => source[f] \in sources)
    BY <1>0, <1>9 DEF Owners, PlaysOwn
  <2> QED
    BY <1>a, <2>1
<1>10. ASSUME NEW f \in Ent, NEW g \in Ent PROVE Apart(f, g)'
  <2>1. CASE f # e /\ g # e
    BY <1>0, <1>5, <1>6, <2>1 DEF Owners, Apart
  <2>2. CASE f = e /\ g # e
    BY <1>3, <1>5, <1>6, <1>9, <2>2 DEF Apart
  <2>3. CASE f # e /\ g = e
    BY <1>3, <1>5, <1>6, <1>9, <2>3 DEF Apart
  <2>4. CASE f = e /\ g = e
    BY <2>4 DEF Apart
  <2> QED
    BY <2>1, <2>2, <2>3, <2>4
<1>11. ASSUME NEW u \in sources' PROVE HasOwner(u)'
  <2>1. ready'[e]
    BY <1>0, <1>3 DEF Readies
  <2>2. CASE u = t
    BY <1>3, <2>1, <2>2 DEF HasOwner
  <2>3. CASE u # t
    <3>1. u \in sources /\ u \notin OldSource(e)
      BY <2>3 DEF Loads
    <3>2. PICK f \in Ent: ready[f] /\ source[f] = u
      BY <1>0, <3>1 DEF Owners, HasOwner
    <3>3. f # e
      BY <1>0, <3>1, <3>2, OldsOwn
    <3>4. ready'[f] /\ source'[f] = u
      BY <1>5, <1>6, <3>2, <3>3
    <3> QED
      BY <3>4 DEF HasOwner
  <2> QED
    BY <2>2, <2>3
<1> QED
  BY <1>1, <1>2, <1>4, <1>7, <1>8, <1>10, <1>11 DEF Owners, PlaysOwn

LEMMA SoundsStart == SoundsInit => SoundsInv
  BY DEF SoundsInit, SoundsInv, SoundsKinds, Loops, Wants, Plugs, Names, Readies, Up, Owners,
         PlaysOwn, Apart, HasOwner

(* The callback of a name or of nil.                                       *)
LEMMA ReloadKeeps ==
  ASSUME SoundsInv, NEW e \in Ent, Reloaded(e), OthersSame(e), plugged'[e], loop'[e] <=> loop[e]
  PROVE  SoundsKinds' /\ Loops' /\ Readies' /\ Owners'
BY SilentKeeps, LoadsKeeps DEF Reloaded

LEMMA SameKeeps ==
  ASSUME SoundsInv, UNCHANGED <<loaded, sounds, openal, player, loop, plugged>>
  PROVE  SoundsKinds' /\ Loops' /\ Readies' /\ Owners'
<1> USE DEF openal, player
<1>1. SoundsKinds' /\ Loops' /\ Readies'
  BY DEF SoundsInv, SoundsKinds, Loops, Readies
<1>2. Owners'
  BY DEF SoundsInv, Owners, PlaysOwn, Apart, HasOwner
<1> QED
  BY <1>1, <1>2

LEMMA SoundsKept == SoundsInv /\ [SoundsNext]_soundsVars => SoundsInv'
<1> SUFFICES ASSUME SoundsInv, [SoundsNext]_soundsVars PROVE SoundsInv'
  OBVIOUS
<1>0. SoundsKinds /\ Loops /\ Wants /\ Plugs /\ Names /\ Readies /\ Up /\ Owners
  BY DEF SoundsInv
<1> DEFINE Kept == SoundsKinds' /\ Loops' /\ Readies' /\ Owners'
           Rest == Wants' /\ Plugs' /\ Names' /\ Up'
<1>1. ASSUME NEW e \in Ent, NEW n \in BOOLEAN, SetSound(e, n) PROVE Kept /\ Rest
  <2>1. Rest
    BY <1>0, <1>1 DEF SetSound, Wants, Plugs, Names, Up
  <2>2. UNCHANGED <<plugged, loop>> /\ OthersSame(e)
    BY <1>1 DEF SetSound, OthersSame
  <2>3. CASE plugged[e]
    <3>1. Reloaded(e)
      BY <1>1, <2>3 DEF SetSound
    <3> QED
      BY <2>1, <2>2, <2>3, <3>1, ReloadKeeps
  <2>4. CASE ~plugged[e]
    <3>1. UNCHANGED <<loaded, sounds, openal, player>>
      BY <1>1, <2>4 DEF SetSound
    <3> QED
      BY <2>1, <2>2, <3>1, SameKeeps
  <2> QED
    BY <2>3, <2>4
<1>2. ASSUME NEW e \in Ent, NEW b \in BOOLEAN, SetLoop(e, b) PROVE Kept /\ Rest
  <2>1. Rest
    BY <1>0, <1>2 DEF SetLoop, Wants, Plugs, Names, Up
  <2>2. SoundsKinds' /\ Readies'
    BY <1>0, <1>2 DEF SetLoop, SoundsKinds, Readies, player
  <2>3. looping' = [t \in Source |-> IF ready[e] /\ t = source[e] THEN b ELSE looping[t]]
    BY <1>2 DEF SetLoop
  <2>4. Loops'
    BY <1>0, <2>3 DEF Loops
  <2>5. UNCHANGED <<loaded, sources, buffer, ready, sound, source, plugged>>
    BY <1>2 DEF SetLoop, player
  <2>6. ASSUME NEW f \in Ent PROVE PlaysOwn(f)'
    <3>0. PlaysOwn(f) /\ (source[f] # NONE => source[f] \in Source)
      BY <1>0 DEF Owners, SoundsKinds
    <3>1. CASE f = e
      <4>1. loop'[e] <=> b
        BY <1>0, <1>2 DEF SetLoop, Wants
      <4>2. ready[e] /\ source[e] \in Source => (looping'[source[e]] <=> b)
        BY <2>3
      <4> QED
        BY <2>5, <3>0, <3>1, <4>1, <4>2 DEF PlaysOwn
    <3>2. CASE f # e
      <4>1. loop'[f] <=> loop[f]
        BY <1>0, <1>2, <3>2 DEF SetLoop, Wants
      <4>2. ready[e] /\ ready[f] => source[f] # source[e] \/ source[f] = NONE
        BY <1>0, <3>2 DEF Owners, Apart
      <4>3. ready[f] /\ source[f] # NONE => (looping'[source[f]] <=> looping[source[f]])
        BY <2>3, <3>0, <4>2
      <4> QED
        BY <2>5, <3>0, <4>1, <4>3 DEF PlaysOwn
    <3> QED
      BY <3>1, <3>2
  <2>7. (\A f, g \in Ent: Apart(f, g)') /\ \A t \in sources': HasOwner(t)'
    BY <1>0, <2>5 DEF Owners, Apart, HasOwner
  <2> QED
    BY <2>1, <2>2, <2>4, <2>6, <2>7 DEF Owners
<1>3. ASSUME UNCHANGED <<snd_i, loaded, sounds, sources, buffer, looping, player, plugged, named, loop>>,
             playing' \subseteq sources
      PROVE  Kept /\ Rest
  <2>1. Rest
    BY <1>0, <1>3 DEF Wants, Plugs, Names, Up
  <2>2. SoundsKinds' /\ Loops' /\ Readies'
    BY <1>0, <1>3 DEF SoundsKinds, Loops, Readies, player
  <2>3. Owners'
    BY <1>0, <1>3 DEF Owners, PlaysOwn, Apart, HasOwner, player
  <2> QED
    BY <2>1, <2>2, <2>3
<1>4. ASSUME NEW e \in Ent, Play(e) PROVE Kept /\ Rest
  <2>1. ready[e] /\ playing' = playing \cup ({source[e]} \ {NONE})
    BY <1>4 DEF Play
  <2>2. source[e] # NONE => source[e] \in sources
    BY <1>0, <2>1 DEF Owners, PlaysOwn
  <2>3. playing' \subseteq sources
    BY <1>0, <2>1, <2>2 DEF SoundsKinds
  <2> QED
    BY <1>3, <1>4, <2>3 DEF Play
<1>5. ASSUME NEW t \in Source, Ends(t) PROVE Kept /\ Rest
  BY <1>0, <1>3, <1>5 DEF Ends, SoundsKinds
<1>6. ASSUME NEW e \in Ent, PlugIn(e) PROVE Kept /\ Rest
  <2>1. Rest
    BY <1>0, <1>6 DEF PlugIn, Wants, Plugs, Names, Up
  <2>2. Reloaded(e) /\ OthersSame(e) /\ plugged'[e] /\ (loop'[e] <=> loop[e])
    BY <1>0, <1>6 DEF PlugIn, OthersSame, Plugs
  <2> QED
    BY <2>1, <2>2, ReloadKeeps
<1>7. ASSUME NEW e \in Ent, PlugOut(e) PROVE Kept /\ Rest
  <2>1. Rest
    BY <1>0, <1>7 DEF PlugOut, Wants, Plugs, Names, Up
  <2>2. Silent(e) /\ OthersSame(e)
    BY <1>0, <1>7 DEF PlugOut, Unplugged, OthersSame, Plugs
  <2> QED
    BY <2>1, <2>2, SilentKeeps
<1>8. ASSUME NEW e \in Ent, Gone(e) PROVE Kept /\ Rest
  <2>1. Rest
    BY <1>0, <1>8 DEF Gone, Wants, Plugs, Names, Up
  <2>2. Silent(e) /\ OthersSame(e)
    BY <1>0, <1>8 DEF Gone, Unplugged, OthersSame, Plugs, Wants
  <2> QED
    BY <2>1, <2>2, SilentKeeps
<1>9. ASSUME UNCHANGED soundsVars PROVE Kept /\ Rest
  <2>1. Rest
    BY <1>0, <1>9 DEF soundsVars, Wants, Plugs, Names, Up
  <2>2. UNCHANGED <<loaded, sounds, openal, player, loop, plugged>>
    BY <1>9 DEF soundsVars
  <2>3. Kept
    BY <2>2, SameKeeps
  <2> QED
    BY <2>1, <2>3, Zenon
<1>10. Kept /\ Rest
  <2> HIDE DEF Kept, Rest
  <2> QED
    BY <1>1, <1>2, <1>4, <1>5, <1>6, <1>7, <1>8, <1>9, Zenon DEF SoundsNext
<1> QED
  BY <1>10, Zenon DEF SoundsInv

(* Every source belongs to one entity that can play it, plays the sound of *)
(* that entity, which is loaded, and loops if its field says so.           *)
THEOREM SourcesStayOwned == SoundsSpec => []SourcesOwned
<1>1. SoundsInv => SourcesOwned
  <2> SUFFICES ASSUME SoundsInv PROVE SourcesOwned
    OBVIOUS
  <2>1. SoundsType
    BY DEF SoundsType, SoundsInv, SoundsKinds, Loops, Wants, Plugs, Names, Readies, Up
  <2>2. ASSUME NEW t \in sources
        PROVE  Cardinality({e \in Ent: ready[e] /\ source[e] = t}) = 1
    <3>1. PICK e \in Ent: ready[e] /\ source[e] = t
      BY DEF SoundsInv, Owners, HasOwner
    <3>2. t # NONE
      BY SoundsAssumption DEF SoundsInv, SoundsKinds
    <3>3. {f \in Ent: ready[f] /\ source[f] = t} = {e}
      BY <3>1, <3>2 DEF SoundsInv, Owners, Apart
    <3> QED
      BY <3>3, FS_Singleton
  <2> QED
    BY <2>1, <2>2 DEF SourcesOwned, SoundsInv, Owners, PlaysOwn
<1> QED
  BY <1>1, SoundsStart, SoundsKept, PTL DEF SoundsSpec

-----------------------------------------------------------------------------
(* The loads (Decoders).                                                   *)

(* Whether r is held before step s of job j.                               *)
Holds(j, s, r) ==
  \/ r = "file" /\ j \in Image \cup Stream
  \/ r = "decoder" /\ j \in (Image \cup Stream) \ {"wav"} /\ s # "decoder"
  \/ r = "data" /\ j \in Image \cup Stream /\ s = "rows"
  \/ r = "data" /\ j \notin Image \cup Stream /\ s \in {"copy", "gl", "fill"}
  \/ r = "copy" /\ j = "minimal" /\ s # "copy"
  \/ r = "gl" /\ s \in {"fill", "struct", "search"}
  \/ r = "struct" /\ s = "search"

Callers == {"texture", "minimal", "sound"}
Own(c) == IF c = "sound" THEN Stream ELSE Image

MayLose ==
  {<<"flac", "decoder", "file">>, <<"flac", "rows", "file">>, <<"ogg", "open", "file">>,
   <<"sound", "fill", "gl">>, <<"sound", "struct", "gl">>,
   <<"minimal", "gl", "copy">>, <<"minimal", "struct", "copy">>}
  \cup Image \X {"rows"} \X {"data"}
MayRepeat ==
  {<<"texture", "struct", "data">>, <<"minimal", "struct", "data">>, <<"sound", "tried", "data">>}

(* What step s of job j does when it succeeds, the steps being listed with *)
(* what they give back, and when it fails.                                 *)
GoesOn(j, s, next, back) ==
  back \subseteq Resource /\ \A r \in Resource:
    /\ r \in back => Holds(j, s, r)
    /\ Holds(j, next, r) <=> (Holds(j, s, r) \/ r = s) /\ r \notin back
LastStep(j, s, back) ==
  back \subseteq Resource /\ \A r \in Resource:
    /\ r \in back => Holds(j, s, r)
    /\ LET left == (Holds(j, s, r) \/ r = s) /\ r \notin back
       IN  IF j \in Callers THEN left <=> r \in {"gl", "struct"}
           ELSE (r = "data" => left) /\ (left /\ r # "data" => <<j, s, r>> \in MayLose)
Fails(j, s, back) ==
  back \subseteq Resource /\ \A r \in Resource:
    /\ Holds(j, s, r) /\ r \notin back => <<j, s, r>> \in MayLose
    /\ r \in back /\ ~Holds(j, s, r) => <<j, s, r>> \in MayRepeat

(* The steps of the jobs as they follow upon each other.                   *)
Back(j, s) == IF s \in DOMAIN Plan[j].ok THEN Plan[j].ok[s] ELSE {}

JobRight(j) ==
  LET p == Plan[j] n == Len(p.steps)
  IN  /\ n \in Nat /\ n >= 1
      /\ \A k \in 1 .. n - 1: GoesOn(j, p.steps[k], p.steps[k + 1], Back(j, p.steps[k]))
      /\ LastStep(j, p.steps[n], Back(j, p.steps[n]))
      /\ \A s \in DOMAIN p.bad: \A back \in p.bad[s]: Fails(j, s, back)

LEMMA WavRight == JobRight("wav")
<1> DEFINE j == "wav"
<1>1. /\ GoesOn(j, "header", "data", {}) /\ GoesOn(j, "data", "rows", {})
  BY DEF GoesOn, Holds, Image, Stream, Resource
<1>2. LastStep(j, "rows", {"file"})
  BY DEF LastStep, Holds, Image, Stream, Resource, Callers, MayLose
<1>3. /\ Fails(j, "header", {"file"}) /\ Fails(j, "data", {"file"})
      /\ Fails(j, "rows", {"file", "data"})
  BY DEF Fails, Holds, Image, Stream, Resource, MayLose, MayRepeat
<1>4. /\ Plan[j].steps = <<"header", "data", "rows">>
      /\ Plan[j].ok = [rows |-> {"file"}]
      /\ Plan[j].bad = [header |-> {{"file"}}, data |-> {{"file"}}, rows |-> {{"file", "data"}}]
  BY DEF Plan, Wav
<1> HIDE DEF j
<1>5. Back(j, "header") = {} /\ Back(j, "data") = {} /\ Back(j, "rows") = {"file"}
  BY <1>4 DEF Back
<1>6. Len(Plan[j].steps) = 3 /\ Plan[j].steps[1] = "header" /\ Plan[j].steps[2] = "data" /\ Plan[j].steps[3] = "rows"
  BY <1>4
<1>7. ASSUME NEW k \in 1 .. Len(Plan[j].steps) - 1
      PROVE  GoesOn(j, Plan[j].steps[k], Plan[j].steps[k + 1], Back(j, Plan[j].steps[k]))
  <2>1. (k = 1 /\ k + 1 = 2) \/ (k = 2 /\ k + 1 = 3)
    BY <1>6
  <2> QED
    BY <1>1, <1>5, <1>6, <2>1
<1>8. LastStep(j, Plan[j].steps[3], Back(j, Plan[j].steps[3]))
  BY <1>2, <1>5, <1>6
<1>9. ASSUME NEW s \in DOMAIN Plan[j].bad, NEW back \in Plan[j].bad[s] PROVE Fails(j, s, back)
  <2>1. s \in {"header", "data", "rows"}
    BY <1>4
  <2>2. Plan[j].bad["header"] = {{"file"}} /\ Plan[j].bad["data"] = {{"file"}} /\ Plan[j].bad["rows"] = {{"file", "data"}}
    BY <1>4
  <2> QED
    BY <1>3, <1>9, <2>1, <2>2
<1> QED
  BY <1>6, <1>7, <1>8, <1>9 DEF JobRight, j

LEMMA OggRight == JobRight("ogg")
<1> DEFINE j == "ogg"
<1>1. /\ GoesOn(j, "decoder", "open", {}) /\ GoesOn(j, "open", "header", {})
      /\ GoesOn(j, "header", "data", {}) /\ GoesOn(j, "data", "rows", {})
  BY DEF GoesOn, Holds, Image, Stream, Resource
<1>2. LastStep(j, "rows", {"file", "decoder"})
  BY DEF LastStep, Holds, Image, Stream, Resource, Callers, MayLose
<1>3. /\ Fails(j, "decoder", {"file"}) /\ Fails(j, "open", {"decoder"})
      /\ Fails(j, "header", {"file", "decoder"}) /\ Fails(j, "data", {"file", "decoder"})
  BY DEF Fails, Holds, Image, Stream, Resource, MayLose, MayRepeat
<1>4. /\ Plan[j].steps = <<"decoder", "open", "header", "data", "rows">>
      /\ Plan[j].ok = [rows |-> {"file", "decoder"}]
      /\ Plan[j].bad = [decoder |-> {{"file"}}, open |-> {{"decoder"}}, header |-> {{"file", "decoder"}}, data |-> {{"file", "decoder"}}]
  BY DEF Plan, Ogg
<1> HIDE DEF j
<1>5. Back(j, "decoder") = {} /\ Back(j, "open") = {} /\ Back(j, "header") = {} /\ Back(j, "data") = {} /\ Back(j, "rows") = {"file", "decoder"}
  BY <1>4 DEF Back
<1>6. Len(Plan[j].steps) = 5 /\ Plan[j].steps[1] = "decoder" /\ Plan[j].steps[2] = "open" /\ Plan[j].steps[3] = "header" /\ Plan[j].steps[4] = "data" /\ Plan[j].steps[5] = "rows"
  BY <1>4
<1>7. ASSUME NEW k \in 1 .. Len(Plan[j].steps) - 1
      PROVE  GoesOn(j, Plan[j].steps[k], Plan[j].steps[k + 1], Back(j, Plan[j].steps[k]))
  <2>1. (k = 1 /\ k + 1 = 2) \/ (k = 2 /\ k + 1 = 3) \/ (k = 3 /\ k + 1 = 4) \/ (k = 4 /\ k + 1 = 5)
    BY <1>6
  <2> QED
    BY <1>1, <1>5, <1>6, <2>1
<1>8. LastStep(j, Plan[j].steps[5], Back(j, Plan[j].steps[5]))
  BY <1>2, <1>5, <1>6
<1>9. ASSUME NEW s \in DOMAIN Plan[j].bad, NEW back \in Plan[j].bad[s] PROVE Fails(j, s, back)
  <2>1. s \in {"decoder", "open", "header", "data"}
    BY <1>4
  <2>2. Plan[j].bad["decoder"] = {{"file"}} /\ Plan[j].bad["open"] = {{"decoder"}} /\ Plan[j].bad["header"] = {{"file", "decoder"}} /\ Plan[j].bad["data"] = {{"file", "decoder"}}
    BY <1>4
  <2> QED
    BY <1>3, <1>9, <2>1, <2>2
<1> QED
  BY <1>6, <1>7, <1>8, <1>9 DEF JobRight, j

LEMMA FlacRight == JobRight("flac")
<1> DEFINE j == "flac"
<1>1. /\ GoesOn(j, "decoder", "open", {}) /\ GoesOn(j, "open", "header", {})
      /\ GoesOn(j, "header", "data", {}) /\ GoesOn(j, "data", "rows", {})
  BY DEF GoesOn, Holds, Image, Stream, Resource
<1>2. LastStep(j, "rows", {"decoder"})
  BY DEF LastStep, Holds, Image, Stream, Resource, Callers, MayLose
<1>3. /\ Fails(j, "decoder", {}) /\ Fails(j, "open", {"file", "decoder"})
      /\ Fails(j, "header", {"file", "decoder"}) /\ Fails(j, "data", {"file", "decoder"})
      /\ Fails(j, "rows", {"file", "decoder", "data"})
  BY DEF Fails, Holds, Image, Stream, Resource, MayLose, MayRepeat
<1>4. /\ Plan[j].steps = <<"decoder", "open", "header", "data", "rows">>
      /\ Plan[j].ok = [rows |-> {"decoder"}]
      /\ Plan[j].bad = [decoder |-> {{}}, open |-> {{"file", "decoder"}}, header |-> {{"file", "decoder"}}, data |-> {{"file", "decoder"}}, rows |-> {{"file", "decoder", "data"}}]
  BY DEF Plan, Flac
<1> HIDE DEF j
<1>5. Back(j, "decoder") = {} /\ Back(j, "open") = {} /\ Back(j, "header") = {} /\ Back(j, "data") = {} /\ Back(j, "rows") = {"decoder"}
  BY <1>4 DEF Back
<1>6. Len(Plan[j].steps) = 5 /\ Plan[j].steps[1] = "decoder" /\ Plan[j].steps[2] = "open" /\ Plan[j].steps[3] = "header" /\ Plan[j].steps[4] = "data" /\ Plan[j].steps[5] = "rows"
  BY <1>4
<1>7. ASSUME NEW k \in 1 .. Len(Plan[j].steps) - 1
      PROVE  GoesOn(j, Plan[j].steps[k], Plan[j].steps[k + 1], Back(j, Plan[j].steps[k]))
  <2>1. (k = 1 /\ k + 1 = 2) \/ (k = 2 /\ k + 1 = 3) \/ (k = 3 /\ k + 1 = 4) \/ (k = 4 /\ k + 1 = 5)
    BY <1>6
  <2> QED
    BY <1>1, <1>5, <1>6, <2>1
<1>8. LastStep(j, Plan[j].steps[5], Back(j, Plan[j].steps[5]))
  BY <1>2, <1>5, <1>6
<1>9. ASSUME NEW s \in DOMAIN Plan[j].bad, NEW back \in Plan[j].bad[s] PROVE Fails(j, s, back)
  <2>1. s \in {"decoder", "open", "header", "data", "rows"}
    BY <1>4
  <2>2. Plan[j].bad["decoder"] = {{}} /\ Plan[j].bad["open"] = {{"file", "decoder"}} /\ Plan[j].bad["header"] = {{"file", "decoder"}} /\ Plan[j].bad["data"] = {{"file", "decoder"}} /\ Plan[j].bad["rows"] = {{"file", "decoder", "data"}}
    BY <1>4
  <2> QED
    BY <1>3, <1>9, <2>1, <2>2
<1> QED
  BY <1>6, <1>7, <1>8, <1>9 DEF JobRight, j

LEMMA ImageRight == ASSUME NEW j \in Image PROVE JobRight(j)
<1>1. /\ GoesOn(j, "decoder", "header", {}) /\ GoesOn(j, "header", "data", {})
      /\ GoesOn(j, "data", "rows", {})
  BY DEF GoesOn, Holds, Image, Stream, Resource
<1>2. LastStep(j, "rows", {"file", "decoder"})
  BY DEF LastStep, Holds, Image, Stream, Resource, Callers, MayLose
<1>3. /\ Fails(j, "decoder", {"file"}) /\ Fails(j, "header", {"file", "decoder"})
      /\ Fails(j, "rows", {"file", "decoder"}) /\ Fails(j, "rows", {"file", "decoder", "data"})
  BY DEF Fails, Holds, Image, Stream, Resource, MayLose, MayRepeat
<1>4. /\ Plan[j].steps = <<"decoder", "header", "data", "rows">>
      /\ Plan[j].ok = [rows |-> {"file", "decoder"}]
      /\ Plan[j].bad = [decoder |-> {{"file"}}, header |-> {{"file", "decoder"}}, rows |-> {{"file", "decoder"}, {"file", "decoder", "data"}}]
  <2>1. Plan[j] = Png \/ Plan[j] = Jpeg
    BY DEF Plan, Image
  <2>2. CASE Plan[j] = Png
    BY <2>2 DEF Png
  <2>3. CASE Plan[j] = Jpeg
    BY <2>3 DEF Jpeg
  <2> QED
    BY <2>1, <2>2, <2>3
<1>5. Back(j, "decoder") = {} /\ Back(j, "header") = {} /\ Back(j, "data") = {} /\ Back(j, "rows") = {"file", "decoder"}
  BY <1>4 DEF Back
<1>6. Len(Plan[j].steps) = 4 /\ Plan[j].steps[1] = "decoder" /\ Plan[j].steps[2] = "header" /\ Plan[j].steps[3] = "data" /\ Plan[j].steps[4] = "rows"
  BY <1>4
<1>7. ASSUME NEW k \in 1 .. Len(Plan[j].steps) - 1
      PROVE  GoesOn(j, Plan[j].steps[k], Plan[j].steps[k + 1], Back(j, Plan[j].steps[k]))
  <2>1. (k = 1 /\ k + 1 = 2) \/ (k = 2 /\ k + 1 = 3) \/ (k = 3 /\ k + 1 = 4)
    BY <1>6
  <2> QED
    BY <1>1, <1>5, <1>6, <2>1
<1>8. LastStep(j, Plan[j].steps[4], Back(j, Plan[j].steps[4]))
  BY <1>2, <1>5, <1>6
<1>9. ASSUME NEW s \in DOMAIN Plan[j].bad, NEW back \in Plan[j].bad[s] PROVE Fails(j, s, back)
  <2>1. s \in {"decoder", "header", "rows"}
    BY <1>4
  <2>2. Plan[j].bad["decoder"] = {{"file"}} /\ Plan[j].bad["header"] = {{"file", "decoder"}} /\ Plan[j].bad["rows"] = {{"file", "decoder"}, {"file", "decoder", "data"}}
    BY <1>4
  <2> QED
    BY <1>3, <1>9, <2>1, <2>2
<1> QED
  BY <1>6, <1>7, <1>8, <1>9 DEF JobRight

LEMMA TextureRight == JobRight("texture")
<1> DEFINE j == "texture"
<1>1. /\ GoesOn(j, "gl", "struct", {"data"})
  BY DEF GoesOn, Holds, Image, Stream, Resource
<1>2. LastStep(j, "struct", {})
  BY DEF LastStep, Holds, Image, Stream, Resource, Callers, MayLose
<1>3. /\ Fails(j, "gl", {"data"}) /\ Fails(j, "struct", {"gl", "data"})
  BY DEF Fails, Holds, Image, Stream, Resource, MayLose, MayRepeat
<1>4. /\ Plan[j].steps = <<"gl", "struct">>
      /\ Plan[j].ok = [gl |-> {"data"}]
      /\ Plan[j].bad = [gl |-> {{"data"}}, struct |-> {{"gl", "data"}}]
  BY DEF Plan, Texture, Scaling
<1> HIDE DEF j
<1>5. Back(j, "gl") = {"data"} /\ Back(j, "struct") = {}
  BY <1>4 DEF Back
<1>6. Len(Plan[j].steps) = 2 /\ Plan[j].steps[1] = "gl" /\ Plan[j].steps[2] = "struct"
  BY <1>4
<1>7. ASSUME NEW k \in 1 .. Len(Plan[j].steps) - 1
      PROVE  GoesOn(j, Plan[j].steps[k], Plan[j].steps[k + 1], Back(j, Plan[j].steps[k]))
  <2>1. (k = 1 /\ k + 1 = 2)
    BY <1>6
  <2> QED
    BY <1>1, <1>5, <1>6, <2>1
<1>8. LastStep(j, Plan[j].steps[2], Back(j, Plan[j].steps[2]))
  BY <1>2, <1>5, <1>6
<1>9. ASSUME NEW s \in DOMAIN Plan[j].bad, NEW back \in Plan[j].bad[s] PROVE Fails(j, s, back)
  <2>1. s \in {"gl", "struct"}
    BY <1>4
  <2>2. Plan[j].bad["gl"] = {{"data"}} /\ Plan[j].bad["struct"] = {{"gl", "data"}}
    BY <1>4
  <2> QED
    BY <1>3, <1>9, <2>1, <2>2
<1> QED
  BY <1>6, <1>7, <1>8, <1>9 DEF JobRight, j

LEMMA MinimalSteps ==
  /\ Minimal.steps \in Seq({"copy", "gl", "struct", "search"})
  /\ Len(Minimal.steps) = 4
  /\ Minimal.steps[1] = "copy" /\ Minimal.steps[2] = "gl"
  /\ Minimal.steps[3] = "struct" /\ Minimal.steps[4] = "search"
<1> DEFINE S == {"copy", "gl", "struct", "search"}
           c == <<"copy">>
           t == <<"gl", "struct">>
           u == <<"search">>
<1>1. c \in Seq(S) /\ Len(c) = 1 /\ c[1] = "copy"
  OBVIOUS
<1>2. t \in Seq(S) /\ Len(t) = 2 /\ t[1] = "gl" /\ t[2] = "struct"
  OBVIOUS
<1>3. u \in Seq(S) /\ Len(u) = 1 /\ u[1] = "search"
  OBVIOUS
<1>4. Minimal.steps = (c \o t) \o u
  BY DEF Minimal, Texture
<1> HIDE DEF S, c, t, u
<1>5. /\ c \o t \in Seq(S) /\ Len(c \o t) = Len(c) + Len(t)
      /\ \A i \in 1 .. Len(c) + Len(t): (c \o t)[i] = IF i <= Len(c) THEN c[i] ELSE t[i - Len(c)]
  BY <1>1, <1>2, ConcatProperties, Zenon
<1> DEFINE v == c \o t
<1>6. v \in Seq(S) /\ Len(v) = 3 /\ v[1] = "copy" /\ v[2] = "gl" /\ v[3] = "struct"
  <2>1. v[1] = c[1] /\ v[2] = t[2 - 1] /\ v[3] = t[3 - 1]
    BY <1>1, <1>2, <1>5
  <2>2. 2 - 1 = 1 /\ 3 - 1 = 2 /\ 1 + 2 = 3
    OBVIOUS
  <2> QED
    BY <1>1, <1>2, <1>5, <2>1, <2>2
<1> HIDE DEF v
<1>7. /\ Len(v \o u) = Len(v) + Len(u)
      /\ \A i \in 1 .. Len(v) + Len(u): (v \o u)[i] = IF i <= Len(v) THEN v[i] ELSE u[i - Len(v)]
  BY <1>3, <1>6, ConcatProperties, Zenon
<1>10. v \o u \in Seq(S)
  BY <1>3, <1>6, ConcatProperties, Zenon
<1>8. (v \o u)[1] = v[1] /\ (v \o u)[2] = v[2] /\ (v \o u)[3] = v[3] /\ (v \o u)[4] = u[4 - 3]
  BY <1>3, <1>6, <1>7
<1>9. 4 - 3 = 1 /\ 3 + 1 = 4
  OBVIOUS
<1> QED
  BY <1>3, <1>4, <1>6, <1>7, <1>8, <1>9, <1>10 DEF v, S

LEMMA MinimalRight == JobRight("minimal")
<1> DEFINE j == "minimal"
<1>1. /\ GoesOn(j, "copy", "gl", {}) /\ GoesOn(j, "gl", "struct", {"data"})
      /\ GoesOn(j, "struct", "search", {})
  BY DEF GoesOn, Holds, Image, Stream, Resource
<1>2. LastStep(j, "search", {"copy"})
  BY DEF LastStep, Holds, Image, Stream, Resource, Callers, MayLose
<1>3. /\ Fails(j, "gl", {"data"}) /\ Fails(j, "struct", {"gl", "data"})
  BY DEF Fails, Holds, Image, Stream, Resource, MayLose, MayRepeat
<1>4. /\ Plan[j].steps = Minimal.steps
      /\ Plan[j].ok = [gl |-> {"data"}, search |-> {"copy"}]
      /\ Plan[j].bad = [gl |-> {{"data"}}, struct |-> {{"gl", "data"}}]
  <2>1. Plan[j] = Minimal /\ Texture.ok.gl = {"data"}
        /\ Texture.bad = [gl |-> {{"data"}}, struct |-> {{"gl", "data"}}]
    BY DEF Plan, Texture, Scaling
  <2> HIDE DEF j
  <2> QED
    BY <2>1 DEF Minimal
<1> HIDE DEF j
<1>5. Back(j, "copy") = {} /\ Back(j, "gl") = {"data"} /\ Back(j, "struct") = {} /\ Back(j, "search") = {"copy"}
  BY <1>4 DEF Back
<1>6. Len(Plan[j].steps) = 4 /\ Plan[j].steps[1] = "copy" /\ Plan[j].steps[2] = "gl" /\ Plan[j].steps[3] = "struct" /\ Plan[j].steps[4] = "search"
  BY <1>4, MinimalSteps
<1>7. ASSUME NEW k \in 1 .. Len(Plan[j].steps) - 1
      PROVE  GoesOn(j, Plan[j].steps[k], Plan[j].steps[k + 1], Back(j, Plan[j].steps[k]))
  <2>1. (k = 1 /\ k + 1 = 2) \/ (k = 2 /\ k + 1 = 3) \/ (k = 3 /\ k + 1 = 4)
    BY <1>6
  <2> QED
    BY <1>1, <1>5, <1>6, <2>1
<1>8. LastStep(j, Plan[j].steps[4], Back(j, Plan[j].steps[4]))
  BY <1>2, <1>5, <1>6
<1>9. ASSUME NEW s \in DOMAIN Plan[j].bad, NEW back \in Plan[j].bad[s] PROVE Fails(j, s, back)
  <2>1. s \in {"gl", "struct"}
    BY <1>4
  <2>2. Plan[j].bad["gl"] = {{"data"}} /\ Plan[j].bad["struct"] = {{"gl", "data"}}
    BY <1>4
  <2> QED
    BY <1>3, <1>9, <2>1, <2>2
<1> QED
  BY <1>6, <1>7, <1>8, <1>9 DEF JobRight, j

LEMMA SoundRight == JobRight("sound")
<1> DEFINE j == "sound"
<1>1. /\ GoesOn(j, "gl", "fill", {}) /\ GoesOn(j, "fill", "struct", {"data"})
  BY DEF GoesOn, Holds, Image, Stream, Resource
<1>2. LastStep(j, "struct", {})
  BY DEF LastStep, Holds, Image, Stream, Resource, Callers, MayLose
<1>3. /\ Fails(j, "gl", {"data"}) /\ Fails(j, "fill", {"data"})
      /\ Fails(j, "struct", {})
  BY DEF Fails, Holds, Image, Stream, Resource, MayLose, MayRepeat
<1>4. /\ Plan[j].steps = <<"gl", "fill", "struct">>
      /\ Plan[j].ok = [fill |-> {"data"}]
      /\ Plan[j].bad = [gl |-> {{"data"}}, fill |-> {{"data"}}, struct |-> {{}}]
  BY DEF Plan, Sounding
<1> HIDE DEF j
<1>5. Back(j, "gl") = {} /\ Back(j, "fill") = {"data"} /\ Back(j, "struct") = {}
  BY <1>4 DEF Back
<1>6. Len(Plan[j].steps) = 3 /\ Plan[j].steps[1] = "gl" /\ Plan[j].steps[2] = "fill" /\ Plan[j].steps[3] = "struct"
  BY <1>4
<1>7. ASSUME NEW k \in 1 .. Len(Plan[j].steps) - 1
      PROVE  GoesOn(j, Plan[j].steps[k], Plan[j].steps[k + 1], Back(j, Plan[j].steps[k]))
  <2>1. (k = 1 /\ k + 1 = 2) \/ (k = 2 /\ k + 1 = 3)
    BY <1>6
  <2> QED
    BY <1>1, <1>5, <1>6, <2>1
<1>8. LastStep(j, Plan[j].steps[3], Back(j, Plan[j].steps[3]))
  BY <1>2, <1>5, <1>6
<1>9. ASSUME NEW s \in DOMAIN Plan[j].bad, NEW back \in Plan[j].bad[s] PROVE Fails(j, s, back)
  <2>1. s \in {"gl", "fill", "struct"}
    BY <1>4
  <2>2. Plan[j].bad["gl"] = {{"data"}} /\ Plan[j].bad["fill"] = {{"data"}} /\ Plan[j].bad["struct"] = {{}}
    BY <1>4
  <2> QED
    BY <1>3, <1>9, <2>1, <2>2
<1> QED
  BY <1>6, <1>7, <1>8, <1>9 DEF JobRight, j

LEMMA StepsListed ==
  ASSUME NEW j \in DOMAIN Plan PROVE DOMAIN Plan[j].steps = 1 .. Len(Plan[j].steps)
<1>1. CASE j = "minimal"
  <2>1. Plan[j].steps = Minimal.steps
    BY <1>1 DEF Plan, Minimal
  <2> QED
    BY <2>1, MinimalSteps
<1>2. CASE j # "minimal"
  <2>1. Plan[j] \in {Wav, Ogg, Flac, Png, Jpeg, Texture, Sounding}
    BY <1>2 DEF Plan
  <2>2. /\ Wav.steps = <<"header", "data", "rows">> /\ Texture.steps = <<"gl", "struct">>
        /\ Sounding.steps = <<"gl", "fill", "struct">>
    BY DEF Wav, Texture, Sounding
  <2>3. /\ Ogg.steps = <<"decoder", "open", "header", "data", "rows">>
        /\ Flac.steps = <<"decoder", "open", "header", "data", "rows">>
    BY DEF Ogg, Flac
  <2>4. /\ Png.steps = <<"decoder", "header", "data", "rows">>
        /\ Jpeg.steps = <<"decoder", "header", "data", "rows">>
    BY DEF Png, Jpeg
  <2>5. \/ Plan[j].steps = <<"header", "data", "rows">>
        \/ Plan[j].steps = <<"gl", "struct">>
        \/ Plan[j].steps = <<"gl", "fill", "struct">>
        \/ Plan[j].steps = <<"decoder", "open", "header", "data", "rows">>
        \/ Plan[j].steps = <<"decoder", "header", "data", "rows">>
    BY <2>1, <2>2, <2>3, <2>4, Zenon
  <2> QED
    BY <2>5
<1> QED
  BY <1>1, <1>2

LEMMA JobsRight == \A j \in DOMAIN Plan: JobRight(j)
  BY WavRight, OggRight, FlacRight, ImageRight, TextureRight, MinimalRight, SoundRight DEF Plan, Image

(* A decoder begins with the file, what comes after it with the data.      *)
LEMMA FirstStep ==
  /\ DOMAIN Plan = Image \cup Stream \cup Callers
  /\ \A j \in Image \cup Stream: \A r \in Resource: Holds(j, Plan[j].steps[1], r) <=> r = "file"
  /\ \A j \in Callers: \A r \in Resource: Holds(j, Plan[j].steps[1], r) <=> r = "data"
<1>1. DOMAIN Plan = Image \cup Stream \cup Callers
  BY DEF Plan, Image, Stream, Callers
<1>2. ASSUME NEW j \in Image \cup Stream, NEW r \in Resource
      PROVE  Holds(j, Plan[j].steps[1], r) <=> r = "file"
  <2>1. Plan[j].steps[1] \in {"decoder", "header"} /\ (Plan[j].steps[1] = "header" <=> j = "wav")
    BY DEF Plan, Image, Stream, Png, Jpeg, Wav, Ogg, Flac
  <2> QED
    BY <2>1 DEF Holds, Image, Stream, Resource
<1>3. ASSUME NEW j \in Callers, NEW r \in Resource
      PROVE  Holds(j, Plan[j].steps[1], r) <=> r = "data"
  <2>1. Plan["texture"].steps[1] = "gl" /\ Plan["sound"].steps[1] = "gl"
    BY DEF Plan, Texture, Sounding
  <2>2. Plan["minimal"].steps[1] = "copy"
    BY MinimalSteps DEF Plan
  <2>3. Plan[j].steps[1] = IF j = "minimal" THEN "copy" ELSE "gl"
    BY <2>1, <2>2 DEF Callers
  <2> QED
    BY <2>3 DEF Holds, Callers, Image, Stream, Resource
<1> QED
  BY <1>1, <1>2, <1>3

LEMMA Tries ==
  /\ Extensions("sound") \in Seq(Stream)
  /\ Extensions("texture") \in Seq(Image) /\ Extensions("minimal") \in Seq(Image)
<1>1. ASSUME NEW S, NEW x \in S, NEW y \in S, NEW z \in S
      PROVE  Tried(x) \o Tried(y) \o Tried(z) \in Seq(S)
  <2>1. Tried(x) \in Seq(S) /\ Tried(y) \in Seq(S) /\ Tried(z) \in Seq(S)
    BY <1>1 DEF Tried
  <2>2. Tried(x) \o Tried(y) \in Seq(S)
    BY <2>1, ConcatProperties, Zenon
  <2> QED
    BY <2>1, <2>2, ConcatProperties, Zenon
<1>2. "wav" \in Stream /\ "ogg" \in Stream /\ "flac" \in Stream
      /\ "png" \in Image /\ "jpg" \in Image /\ "jpeg" \in Image
  BY DEF Image, Stream
<1> QED
  BY <1>1, <1>2 DEF Extensions

(* A load under way: whose extensions are tried, what holds between the    *)
(* jobs, and in them what their steps are entitled to.                     *)
Loading ==
  /\ caller \in Callers \cup {NONE} /\ tries \in Seq(Image \cup Stream)
  /\ outcome \in {"none", "loaded", "failed", "aborted"}
  /\ caller # NONE => tries \in Seq(Own(caller)) /\ outcome = "none"
  /\ caller = NONE => job = NONE
Working ==
  job # NONE =>
    /\ job \in Own(caller) \cup {caller} /\ step \in 1 .. Len(Plan[job].steps)
    /\ \A r \in Resource: r \in held <=> Holds(job, Plan[job].steps[step], r)
Holding ==
  /\ held \subseteq Resource
  /\ caller # NONE /\ job = NONE => held = {}
  /\ outcome = "loaded" => held = {"gl", "struct"}
Stale == caller # NONE /\ job = NONE /\ stale => caller = "sound"
Flag  == stale \in BOOLEAN
Listed == lost \subseteq MayLose /\ twice \subseteq MayRepeat

DecodersInv == Loading /\ Working /\ Holding /\ Stale /\ Flag /\ Listed

LEMMA Apart3 == NONE \notin Image \cup Stream /\ Callers \cap (Image \cup Stream) = {}
  BY DecodersAssumption DEF Callers, Image, Stream

LEMMA DecodersStart == DecodersInit => DecodersInv
<1> SUFFICES ASSUME DecodersInit PROVE DecodersInv
  OBVIOUS
<1>1. Loading
  BY DEF DecodersInit, Loading
<1>2. Working /\ Holding /\ Stale /\ Listed
  BY DEF DecodersInit, Working, Holding, Stale, Listed
<1>3. Flag
  BY DEF DecodersInit, Flag
<1> QED
  BY <1>1, <1>2, <1>3 DEF DecodersInv

LEMMA StartKeeps ==
  ASSUME DecodersInv, NEW c \in Callers, StartLoad(c)
  PROVE  DecodersInv'
<1>1. Extensions(c) \in Seq(Own(c)) /\ Extensions(c) \in Seq(Image \cup Stream)
  BY Tries DEF Own, Callers
<1>2. caller' = c /\ tries' = Extensions(c) /\ job' = NONE /\ held' = {} /\ outcome' = "none"
      /\ stale' = FALSE /\ lost' = lost /\ twice' = twice
  BY DEF StartLoad
<1> QED
  BY <1>1, <1>2 DEF DecodersInv, Loading, Working, Holding, Stale, Flag, Listed

LEMMA TryKeeps ==
  ASSUME DecodersInv, Try
  PROVE  DecodersInv'
<1>1. caller # NONE /\ job = NONE /\ tries # <<>> /\ tries' = Tail(tries) /\ stale' = FALSE
      /\ UNCHANGED <<caller, outcome, lost, twice>> /\ held = {} /\ tries \in Seq(Own(caller))
      /\ tries \in Seq(Image \cup Stream) /\ caller \in Callers
  BY DEF Try, DecodersInv, Loading, Holding
<1>2. Tail(tries) \in Seq(Own(caller)) /\ Head(tries) \in Own(caller) /\ Tail(tries) \in Seq(Image \cup Stream)
  BY <1>1, HeadTailProperties
<1>3. Loading' /\ Stale' /\ Flag' /\ Listed'
  BY <1>1, <1>2 DEF DecodersInv, Loading, Stale, Flag, Listed
<1>4. CASE UNCHANGED <<job, step, held>>
  BY <1>1, <1>3, <1>4 DEF DecodersInv, Working, Holding
<1>5. CASE job' = Head(tries) /\ step' = 1 /\ held' = {"file"}
  <2>1. job' \in Image \cup Stream /\ job' \in Own(caller) /\ job' # NONE
    BY <1>2, <1>5, Apart3 DEF Own
  <2>2. JobRight(job') /\ \A r \in Resource: Holds(job', Plan[job'].steps[1], r) <=> r = "file"
    BY <2>1, FirstStep, JobsRight
  <2>3. 1 \in 1 .. Len(Plan[job'].steps)
    BY <2>2 DEF JobRight
  <2>4. Working'
    BY <1>1, <1>5, <2>1, <2>2, <2>3 DEF Working
  <2>5. Holding'
    BY <1>1, <1>5, <2>1 DEF Holding, DecodersInv, Loading, Resource
  <2> QED
    BY <1>3, <2>4, <2>5 DEF DecodersInv
<1> QED
  BY <1>4, <1>5 DEF Try

LEMMA EndedKeeps ==
  ASSUME DecodersInv, NEW result \in {"failed", "aborted"}, Ended(result), UNCHANGED tries, Listed',
         stale' \in BOOLEAN, held' \subseteq Resource
  PROVE  DecodersInv'
<1>1. caller' = NONE /\ job' = NONE /\ outcome' = result
  BY DEF Ended
<1> QED
  BY <1>1 DEF DecodersInv, Loading, Working, Holding, Stale, Flag

LEMMA TriedKeeps ==
  ASSUME DecodersInv, TriedAll
  PROVE  DecodersInv'
<1>1. UNCHANGED <<tries, step, held, stale, lost>> /\ caller # NONE /\ job = NONE
      /\ twice' = twice \cup {<<caller, "tried", r>>: r \in (IF stale THEN {"data"} ELSE {}) \ held}
  BY DEF TriedAll, GivenBack
<1>2. stale => caller = "sound"
  BY <1>1 DEF DecodersInv, Stale
<1>3. Listed'
  BY <1>1, <1>2 DEF DecodersInv, Listed, MayRepeat
<1>4. \E result \in {"failed", "aborted"}: Ended(result)
  BY DEF TriedAll, EndedWithData
<1>5. stale' \in BOOLEAN /\ held' \subseteq Resource
  BY <1>1 DEF DecodersInv, Flag, Holding
<1> QED
  BY <1>1, <1>3, <1>4, <1>5, EndedKeeps

(* What is known of a step under way.                                      *)
LEMMA UnderWay ==
  ASSUME DecodersInv, job # NONE
  PROVE  /\ caller \in Callers /\ caller # NONE /\ job \in DOMAIN Plan /\ JobRight(job)
         /\ outcome = "none" /\ job \in Own(caller) \cup {caller}
         /\ (job = caller <=> job \in Callers) /\ (job # caller => job \in Image \cup Stream)
         /\ step \in 1 .. Len(Plan[job].steps)
         /\ \A r \in Resource: r \in held <=> Holds(job, Step, r)
<1>1. caller \in Callers /\ caller # NONE /\ outcome = "none" /\ job \in Own(caller) \cup {caller}
  BY DEF DecodersInv, Loading, Working
<1>2. (job = caller <=> job \in Callers) /\ (job # caller => job \in Image \cup Stream)
  BY <1>1, Apart3 DEF Own
<1>3. job \in DOMAIN Plan
  BY <1>1, <1>2, FirstStep
<1>4. step \in 1 .. Len(Plan[job].steps) /\ \A r \in Resource: r \in held <=> Holds(job, Step, r)
  BY DEF DecodersInv, Working, Step
<1> QED
  BY <1>1, <1>2, <1>3, <1>4, JobsRight

LEMMA SucceedKeeps ==
  ASSUME DecodersInv, Succeed
  PROVE  DecodersInv'
<1> DEFINE n == Len(Plan[job].steps)
           b == Back(job, Step)
           left == (held \cup Takes) \ b
<1>0. job # NONE /\ UNCHANGED <<tries, stale>>
  BY DEF Succeed
<1>1. /\ twice' = twice \cup {<<job, Step, r>>: r \in b \ held}
      /\ held' = (IF step = n /\ job # caller THEN left \cap {"data"} ELSE left)
      /\ lost' = lost \cup {<<job, Step, r>>: r \in left \ held'}
      /\ step' = (IF step = n THEN 1 ELSE step + 1)
      /\ step # n => UNCHANGED <<caller, job, outcome>>
      /\ step = n /\ job = caller => Ended("loaded")
      /\ step = n /\ job # caller => job' = caller /\ UNCHANGED <<caller, outcome>>
  BY DEF Succeed, GivenBack, LostBy, Back
<1>2. /\ caller \in Callers /\ caller # NONE /\ job \in DOMAIN Plan /\ JobRight(job)
      /\ outcome = "none" /\ job \in Own(caller) \cup {caller}
      /\ (job = caller <=> job \in Callers) /\ (job # caller => job \in Image \cup Stream)
      /\ step \in 1 .. n /\ n \in Nat
      /\ \A r \in Resource: r \in held <=> Holds(job, Step, r)
  BY <1>0, UnderWay DEF JobRight
<1>3. held \subseteq Resource /\ Listed /\ tries \in Seq(Image \cup Stream) /\ tries \in Seq(Own(caller))
  BY <1>2 DEF DecodersInv, Holding, Loading
<1>4. Flag'
  BY <1>0 DEF DecodersInv, Flag
<1>5. left \subseteq Resource /\ held' \subseteq Resource
      /\ \A r \in Resource: r \in left <=> (Holds(job, Step, r) \/ r = Step) /\ r \notin b
  BY <1>1, <1>2, <1>3 DEF Takes
<1> HIDE DEF n, b, left
<1>6. CASE step # n
  <2>1. step \in 1 .. n - 1 /\ step' = step + 1 /\ step' \in 1 .. n
    BY <1>1, <1>2, <1>6
  <2>2. GoesOn(job, Step, Plan[job].steps[step + 1], b)
    BY <1>2, <2>1 DEF JobRight, Step, b, n
  <2>3. b \subseteq held /\ \A r \in Resource: r \in left <=> Holds(job, Plan[job].steps[step + 1], r)
    BY <1>2, <1>5, <2>2 DEF GoesOn
  <2>4. twice' = twice /\ lost' = lost /\ held' = left /\ UNCHANGED <<caller, job, outcome>>
    BY <1>1, <1>6, <2>3
  <2>5. Working'
    BY <1>2, <2>1, <2>3, <2>4 DEF Working, n
  <2>6. Loading' /\ Holding' /\ Stale' /\ Listed'
    BY <1>0, <1>2, <1>3, <1>5, <2>4 DEF DecodersInv, Loading, Holding, Stale, Listed
  <2> QED
    BY <1>4, <2>5, <2>6 DEF DecodersInv
<1>7. CASE step = n
  <2>1. LastStep(job, Step, b)
    BY <1>2, <1>7 DEF JobRight, Step, b, n
  <2>2. b \subseteq held
    BY <1>2, <2>1 DEF LastStep
  <2>3. twice' = twice
    BY <1>1, <2>2
  <2>4. CASE job = caller
    <3>1. \A r \in Resource: r \in left <=> r \in {"gl", "struct"}
      BY <1>2, <1>5, <2>1, <2>4 DEF LastStep
    <3>2. left = {"gl", "struct"}
      BY <1>5, <3>1 DEF Resource
    <3>3. held' = left /\ lost' = lost /\ caller' = NONE /\ job' = NONE /\ outcome' = "loaded"
      BY <1>1, <1>7, <2>4 DEF Ended
    <3>4. Loading' /\ Working' /\ Holding' /\ Stale' /\ Listed'
      BY <1>0, <1>3, <1>5, <2>3, <3>2, <3>3 DEF Loading, Working, Holding, Stale, Listed
    <3> QED
      BY <1>4, <3>4 DEF DecodersInv
  <2>5. CASE job # caller
    <3>1. \A r \in Resource: (r = "data" => r \in left) /\ (r \in left /\ r # "data" => <<job, Step, r>> \in MayLose)
      BY <1>2, <1>5, <2>1, <2>5 DEF LastStep
    <3>2. held' = {"data"}
      BY <1>1, <1>7, <2>5, <3>1 DEF Resource
    <3>3. lost' \subseteq MayLose
      BY <1>1, <1>3, <1>5, <3>1, <3>2 DEF Listed
    <3>4. job' = caller /\ step' = 1 /\ UNCHANGED <<caller, outcome>>
      BY <1>1, <1>7, <2>5
    <3>5. JobRight(caller) /\ \A r \in Resource: Holds(caller, Plan[caller].steps[1], r) <=> r = "data"
      BY <1>2, FirstStep, JobsRight
    <3>6. 1 \in 1 .. Len(Plan[caller].steps)
      BY <3>5 DEF JobRight
    <3>7. Working'
      BY <3>2, <3>4, <3>5, <3>6 DEF Working
    <3>8. Loading' /\ Holding' /\ Stale' /\ Listed'
      BY <1>0, <1>2, <1>3, <1>5, <2>3, <3>3, <3>4 DEF DecodersInv, Loading, Holding, Stale, Listed
    <3> QED
      BY <1>4, <3>7, <3>8 DEF DecodersInv
  <2> QED
    BY <2>4, <2>5
<1> QED
  BY <1>6, <1>7

LEMMA FailureKeeps ==
  ASSUME DecodersInv, Failure
  PROVE  DecodersInv'
<1>0. job # NONE /\ Step \in DOMAIN Plan[job].bad /\ UNCHANGED tries /\ held' = {}
  BY DEF Failure
<1>1. PICK back \in Plan[job].bad[Step]:
        /\ twice' = twice \cup {<<job, Step, r>>: r \in back \ held}
        /\ lost' = lost \cup {<<job, Step, r>>: r \in held \ back}
  BY DEF Failure, GivenBack, LostBy
<1>2. /\ caller \in Callers /\ caller # NONE /\ JobRight(job)
      /\ outcome = "none" /\ job \in Own(caller) \cup {caller}
      /\ (job = caller <=> job \in Callers) /\ (job # caller => job \in Image \cup Stream)
      /\ \A r \in Resource: r \in held <=> Holds(job, Step, r)
  BY <1>0, UnderWay
<1>3. Fails(job, Step, back)
  BY <1>0, <1>1, <1>2 DEF JobRight
<1>4. held \subseteq Resource /\ Listed /\ tries \in Seq(Image \cup Stream) /\ tries \in Seq(Own(caller))
  BY <1>2 DEF DecodersInv, Holding, Loading
<1>5. Listed'
  <2>1. \A r \in held \ back: <<job, Step, r>> \in MayLose
    BY <1>2, <1>3, <1>4 DEF Fails
  <2>2. \A r \in back \ held: <<job, Step, r>> \in MayRepeat
    BY <1>2, <1>3, <1>4 DEF Fails
  <2> QED
    BY <1>1, <1>4, <2>1, <2>2 DEF Listed
<1>6. stale' \in BOOLEAN /\ (stale' => job \in Stream)
  <2>1. stale' = (job \in Stream /\ "data" \in held)
    BY DEF Failure
  <2> QED
    BY <2>1, Zenon
<1>7. CASE job # caller
  <2>1. job' = NONE /\ UNCHANGED <<caller, outcome>>
    BY <1>7 DEF Failure
  <2>2. stale' => caller = "sound"
    BY <1>2, <1>6, <1>7 DEF Own, Image, Stream
  <2>3. Loading' /\ Working' /\ Holding' /\ Stale'
    BY <1>0, <1>2, <1>4, <2>1, <2>2 DEF Loading, Working, Holding, Stale
  <2> QED
    BY <1>5, <1>6, <2>3 DEF DecodersInv, Flag
<1>8. CASE job = caller
  <2>1. \E result \in {"failed", "aborted"}: Ended(result)
    BY <1>8 DEF Failure, EndedWithData
  <2> QED
    BY <1>0, <1>5, <1>6, <2>1, EndedKeeps
<1> QED
  BY <1>7, <1>8

LEMMA DecodersKept == DecodersInv /\ [DecodersNext]_decodersVars => DecodersInv'
<1> SUFFICES ASSUME DecodersInv, [DecodersNext]_decodersVars PROVE DecodersInv'
  OBVIOUS
<1>1. CASE UNCHANGED decodersVars
  BY <1>1 DEF decodersVars, DecodersInv, Loading, Working, Holding, Stale, Flag, Listed, Step
<1>2. CASE DecodersAborted
  BY <1>1, <1>2 DEF DecodersAborted
<1>3. ASSUME NEW c \in {"texture", "minimal", "sound"}, StartLoad(c) PROVE DecodersInv'
  BY <1>3, StartKeeps DEF Callers
<1> QED
  BY <1>1, <1>2, <1>3, TryKeeps, TriedKeeps, SucceedKeeps, FailureKeeps DEF DecodersNext

(* Whichever step of a load fails, all is given back once, but on the      *)
(* paths that the property lists.                                          *)
THEOREM LoadsAlwaysGiveBack == DecodersSpec => []LoadsGiveBack
<1>1. DecodersInv => LoadsGiveBack
  <2> SUFFICES ASSUME DecodersInv PROVE LoadsGiveBack
    OBVIOUS
  <2>1. job \in DOMAIN Plan \cup {NONE}
    BY UnderWay
  <2>2. job # NONE => step \in DOMAIN Plan[job].steps
    BY UnderWay, StepsListed
  <2>3. \A x \in lost \cup twice: x[3] \in Resource
    BY DEF DecodersInv, Listed, MayLose, MayRepeat, Resource
  <2> QED
    BY <2>1, <2>2, <2>3 DEF LoadsGiveBack, DecodersType, DecodersInv, Loading, Holding, Flag, Listed,
       MayLose, MayRepeat, Callers
<1> QED
  BY <1>1, DecodersStart, DecodersKept, PTL DEF DecodersSpec

-----------------------------------------------------------------------------
(* The fonts: the inductive invariant (Fonts).                             *)

(* What an operation still has to do follows from the renderer.            *)
TextSteps  == {<<"font", "return">>, <<"redraw", "return">>, <<"font", "font", "redraw", "return">>,
               <<"font", "redraw", "return">>}
Text2Steps == {<<"font", "return">>, <<"align", "return">>, <<"align", "font", "font", "align", "return">>,
               <<"font", "font", "align", "return">>, <<"font", "align", "return">>}
Pluggings      == {<<"text", "return">>, <<"text2", "return">>}
Unsets     == {<<"unset", "return">>, <<"unset", "text", "return">>, <<"unset", "text2", "return">>}
ToDo ==
  /\ todo # <<>> => who \in Ent
  /\ \/ todo \in {<<>>, <<"return">>, <<"aborted">>}
     \/ todo \in TextSteps /\ kind[who] = "text"
     \/ todo \in Text2Steps /\ kind[who] = "text2"
     \/ todo \in Pluggings /\ kind[who] = NONE
     \/ todo \in Unsets /\ kind[who] \in Kind

(* Lists of steps, spelt out.                                              *)
LEMMA OneThen ==
  ASSUME NEW S, NEW a \in S, NEW b \in S
  PROVE  <<a>> \o <<b>> = <<a, b>>
<1> DEFINE s == <<a>> \o <<b>>
<1>1. <<a>> \in Seq(S) /\ <<b>> \in Seq(S) /\ Len(<<a>>) = 1 /\ Len(<<b>>) = 1
  OBVIOUS
<1>2. s \in Seq(S) /\ Len(s) = 2 /\ \A i \in 1 .. 2: s[i] = IF i <= 1 THEN <<a>>[i] ELSE <<b>>[i - 1]
  BY <1>1, ConcatProperties
<1>3. s[1] = a /\ s[2] = b
  BY <1>2
<1> HIDE DEF s
<1>4. s = <<a, b>>
  BY <1>2, <1>3
<1> QED
  BY <1>4 DEF s

LEMMA TwoThen ==
  ASSUME NEW S, NEW a \in S, NEW b \in S, NEW c \in S
  PROVE  <<a, b>> \o <<c>> = <<a, b, c>>
<1> DEFINE s == <<a, b>> \o <<c>>
<1>1. <<a, b>> \in Seq(S) /\ <<c>> \in Seq(S) /\ Len(<<a, b>>) = 2 /\ Len(<<c>>) = 1
  OBVIOUS
<1>2. s \in Seq(S) /\ Len(s) = 3 /\ \A i \in 1 .. 3: s[i] = IF i <= 2 THEN <<a, b>>[i] ELSE <<c>>[i - 2]
  BY <1>1, ConcatProperties
<1>3. s[1] = a /\ s[2] = b /\ s[3] = c
  BY <1>2
<1> HIDE DEF s
<1>4. s = <<a, b, c>>
  BY <1>2, <1>3
<1> QED
  BY <1>4 DEF s

LEMMA ThreeThen ==
  ASSUME NEW S, NEW a \in S, NEW b \in S, NEW c \in S, NEW d \in S
  PROVE  <<a, b, c>> \o <<d>> = <<a, b, c, d>>
<1> DEFINE s == <<a, b, c>> \o <<d>>
<1>1. <<a, b, c>> \in Seq(S) /\ <<d>> \in Seq(S) /\ Len(<<a, b, c>>) = 3 /\ Len(<<d>>) = 1
  OBVIOUS
<1>2. s \in Seq(S) /\ Len(s) = 4 /\ \A i \in 1 .. 4: s[i] = IF i <= 3 THEN <<a, b, c>>[i] ELSE <<d>>[i - 3]
  BY <1>1, ConcatProperties
<1>3. s[1] = a /\ s[2] = b /\ s[3] = c /\ s[4] = d
  BY <1>2
<1> HIDE DEF s
<1>4. s = <<a, b, c, d>>
  BY <1>2, <1>3
<1> QED
  BY <1>4 DEF s

LEMMA FourThen ==
  ASSUME NEW S, NEW a \in S, NEW b \in S, NEW c \in S, NEW d \in S, NEW e \in S
  PROVE  <<a, b, c, d>> \o <<e>> = <<a, b, c, d, e>>
<1> DEFINE s == <<a, b, c, d>> \o <<e>>
<1>1. <<a, b, c, d>> \in Seq(S) /\ <<e>> \in Seq(S) /\ Len(<<a, b, c, d>>) = 4 /\ Len(<<e>>) = 1
  OBVIOUS
<1>2. s \in Seq(S) /\ Len(s) = 5 /\ \A i \in 1 .. 5: s[i] = IF i <= 4 THEN <<a, b, c, d>>[i] ELSE <<e>>[i - 4]
  BY <1>1, ConcatProperties
<1>3. s[1] = a /\ s[2] = b /\ s[3] = c /\ s[4] = d /\ s[5] = e
  BY <1>2
<1> HIDE DEF s
<1>4. s = <<a, b, c, d, e>>
  BY <1>2, <1>3
<1> QED
  BY <1>4 DEF s

LEMMA AllSteps ==
  /\ <<>> \o <<"return">> = <<"return">>
  /\ <<"font">> \o <<"return">> = <<"font", "return">>
  /\ <<"redraw">> \o <<"return">> = <<"redraw", "return">>
  /\ <<"align">> \o <<"return">> = <<"align", "return">>
  /\ <<"font", "font", "redraw">> \o <<"return">> = <<"font", "font", "redraw", "return">>
  /\ <<"align", "font", "font", "align">> \o <<"return">> = <<"align", "font", "font", "align", "return">>
  /\ (<<"unset">> \o <<"text">>) \o <<"return">> = <<"unset", "text", "return">>
  /\ (<<"unset">> \o <<"text2">>) \o <<"return">> = <<"unset", "text2", "return">>
  /\ <<"unset">> \o <<"return">> = <<"unset", "return">>
  /\ <<"text">> \o <<"return">> = <<"text", "return">>
  /\ <<"text2">> \o <<"return">> = <<"text2", "return">>
  /\ <<"unset">> \o <<>> = <<"unset">> /\ <<>> \o <<>> = <<>>
  /\ <<>> \o <<"text">> = <<"text">> /\ <<>> \o <<"text2">> = <<"text2">>
<1> DEFINE S == {"font", "redraw", "align", "return", "unset", "text", "text2"}
<1>0. "font" \in S /\ "redraw" \in S /\ "align" \in S /\ "return" \in S /\ "unset" \in S /\ "text" \in S /\ "text2" \in S
  OBVIOUS
<1> HIDE DEF S
<1>1. \A a, b \in S: <<a>> \o <<b>> = <<a, b>>
  BY OneThen
<1>2. \A a, b, c \in S: <<a, b>> \o <<c>> = <<a, b, c>>
  BY TwoThen
<1>3. \A a, b, c, d \in S: <<a, b, c>> \o <<d>> = <<a, b, c, d>>
  BY ThreeThen
<1>4. \A a, b, c, d, e \in S: <<a, b, c, d>> \o <<e>> = <<a, b, c, d, e>>
  BY FourThen
<1>5. \A s \in Seq(S): <<>> \o s = s /\ s \o <<>> = s
  BY ConcatEmptySeq
<1>6. <<>> \in Seq(S) /\ \A a \in S: <<a>> \in Seq(S)
  OBVIOUS
<1>7. /\ <<"font">> \o <<"return">> = <<"font", "return">>
      /\ <<"redraw">> \o <<"return">> = <<"redraw", "return">>
      /\ <<"align">> \o <<"return">> = <<"align", "return">>
      /\ <<"unset">> \o <<"return">> = <<"unset", "return">>
      /\ <<"text">> \o <<"return">> = <<"text", "return">>
      /\ <<"text2">> \o <<"return">> = <<"text2", "return">>
  BY <1>0, <1>1
<1>8. <<"unset">> \o <<"text">> = <<"unset", "text">> /\ <<"unset">> \o <<"text2">> = <<"unset", "text2">>
  BY <1>0, <1>1
<1>9. /\ (<<"unset">> \o <<"text">>) \o <<"return">> = <<"unset", "text", "return">>
      /\ (<<"unset">> \o <<"text2">>) \o <<"return">> = <<"unset", "text2", "return">>
  <2>1. /\ <<"unset", "text">> \o <<"return">> = <<"unset", "text", "return">>
        /\ <<"unset", "text2">> \o <<"return">> = <<"unset", "text2", "return">>
    BY <1>0, <1>2
  <2> QED
    BY <1>8, <2>1, Zenon
<1>10. <<"font", "font", "redraw">> \o <<"return">> = <<"font", "font", "redraw", "return">>
  BY <1>0, <1>3
<1>11. <<"align", "font", "font", "align">> \o <<"return">> = <<"align", "font", "font", "align", "return">>
  BY <1>0, <1>4
<1>12. /\ <<>> \o <<"return">> = <<"return">>
       /\ <<"unset">> \o <<>> = <<"unset">> /\ <<>> \o <<>> = <<>>
       /\ <<>> \o <<"text">> = <<"text">> /\ <<>> \o <<"text2">> = <<"text2">>
  BY <1>0, <1>5, <1>6
<1> QED
  BY <1>7, <1>9, <1>10, <1>11, <1>12

LEMMA Tails ==
  /\ Tail(<<"return">>) = <<>>
  /\ Tail(<<"font", "return">>) = <<"return">>
  /\ Tail(<<"redraw", "return">>) = <<"return">>
  /\ Tail(<<"align", "return">>) = <<"return">>
  /\ Tail(<<"font", "font", "redraw", "return">>) = <<"font", "redraw", "return">>
  /\ Tail(<<"font", "redraw", "return">>) = <<"redraw", "return">>
  /\ Tail(<<"align", "font", "font", "align", "return">>) = <<"font", "font", "align", "return">>
  /\ Tail(<<"font", "font", "align", "return">>) = <<"font", "align", "return">>
  /\ Tail(<<"font", "align", "return">>) = <<"align", "return">>
  /\ Tail(<<"text", "return">>) = <<"return">> /\ Tail(<<"text2", "return">>) = <<"return">>
  /\ Tail(<<"unset", "return">>) = <<"return">>
  /\ Tail(<<"unset", "text", "return">>) = <<"text", "return">>
  /\ Tail(<<"unset", "text2", "return">>) = <<"text2", "return">>
OBVIOUS

LEMMA Heads ==
  /\ \A s \in TextSteps: Head(s) \in {"font", "redraw"}
  /\ \A s \in Text2Steps: Head(s) \in {"font", "align"}
  /\ \A s \in Pluggings: Head(s) \in Kind
  /\ \A s \in Unsets: Head(s) = "unset"
  /\ Head(<<"return">>) = "return" /\ Head(<<"aborted">>) = "aborted"
  /\ Head(<<"text", "return">>) = "text" /\ Head(<<"text2", "return">>) = "text2"
BY DEF TextSteps, Text2Steps, Pluggings, Unsets, Kind

-----------------------------------------------------------------------------
(* References: what a font is held by.                                     *)

Of(f) == {e \in Ent: font[e] = f}

(* A font is listed as something of a kind, and an entity points to one of *)
(* its renderer's kind; a pointer that is not in use is left only by game  *)
(* code that is not tidy, in a line font.                                  *)
FontsTyped ==
  /\ ref \in [Addr -> Nat] /\ key \in [Addr -> Keys \cup {NoKey}]
  /\ kind \in [Ent -> Kind \cup {NONE}] /\ valid \in [Ent -> BOOLEAN] /\ font \in [Ent -> Addr \cup {NONE}]
KeysListed    == \A f \in Addr: key[f] = NoKey <=> ref[f] = 0
Pointed(e) ==
  /\ font[e] # NONE => kind[e] \in Kind /\ key[font[e]].kind = kind[e]
  /\ valid[e] => font[e] # NONE
  /\ font[e] # NONE /\ (game.tidy \/ kind[e] = "text") => valid[e]
Counts(f) ==
  /\ ref[f] >= Cardinality(Of(f))
  /\ game.tidy \/ key[f].kind # "text2" => ref[f] = Cardinality(Of(f))
CacheInv == FontsTyped /\ KeysListed /\ (\A e \in Ent: Pointed(e)) /\ (\A f \in Addr: Counts(f))

LEMMA OfFinite ==
  ASSUME NEW f
  PROVE  IsFiniteSet(Of(f)) /\ Cardinality(Of(f)) \in Nat
<1>1. Of(f) \in SUBSET Ent
  BY DEF Of
<1> QED
  BY <1>1, FontsAssumption, FS_Subset, FS_CardinalityType

(* The count without one entity.                                           *)
LEMMA OfBut ==
  ASSUME NEW f, NEW e
  PROVE  /\ IsFiniteSet(Of(f) \ {e}) /\ Cardinality(Of(f) \ {e}) \in Nat
         /\ Cardinality(Of(f)) = Cardinality(Of(f) \ {e}) + (IF e \in Of(f) THEN 1 ELSE 0)
<1>1. IsFiniteSet(Of(f)) /\ Cardinality(Of(f)) \in Nat
  BY OfFinite
<1>2. IsFiniteSet(Of(f) \ {e}) /\ Cardinality(Of(f) \ {e}) = Cardinality(Of(f)) - (IF e \in Of(f) THEN 1 ELSE 0)
  BY <1>1, FS_RemoveElement
<1>3. Cardinality(Of(f) \ {e}) \in Nat
  BY <1>2, FS_CardinalityType
<1> QED
  BY <1>1, <1>2, <1>3

(* An entity drops the font it holds and takes up another, or none.        *)
LEMMA TakeCounts ==
  ASSUME FontsTyped, NEW e \in Ent, NEW b, font' = [font EXCEPT ![e] = b], NEW f
  PROVE  Cardinality(Of(f))' = Cardinality(Of(f) \ {e}) + (IF f = b THEN 1 ELSE 0)
<1>1. IsFiniteSet(Of(f) \ {e}) /\ Cardinality(Of(f) \ {e}) \in Nat
  BY OfBut
<1>2. CASE f = b
  <2>1. Of(f)' = (Of(f) \ {e}) \cup {e} /\ e \notin Of(f) \ {e}
    BY <1>2 DEF Of, FontsTyped
  <2> QED
    BY <1>1, <1>2, <2>1, FS_AddElement
<1>3. CASE f # b
  <2>1. Of(f)' = Of(f) \ {e}
    BY <1>3 DEF Of, FontsTyped
  <2> QED
    BY <1>1, <1>3, <2>1
<1> QED
  BY <1>2, <1>3

(* What every step does that changes the font of an entity: the one it has *)
(* in use loses a reference and the new one gets it; a font is listed      *)
(* under another key only when nobody holds it.                            *)
Held(e) == IF valid[e] THEN {font[e]} ELSE {}
Rest(e, f) == IF f \in Held(e) THEN ref[f] - 1 ELSE ref[f]
Moves(e, b) ==
  /\ font' = [font EXCEPT ![e] = b] /\ b \in Addr \cup {NONE}
  /\ ref' \in [Addr -> Int]
  /\ \A f \in Addr: ref'[f] = Rest(e, f) + (IF f = b THEN 1 ELSE 0)
  /\ key' \in [Addr -> Keys \cup {NoKey}]
  /\ \A f \in Addr: key'[f] = key[f] \/ Rest(e, f) = 0
  /\ \A f \in Addr: key'[f] = NoKey <=> ref'[f] = 0
  /\ UNCHANGED game

LEMMA RestCounts ==
  ASSUME CacheInv, NEW e \in Ent, NEW f \in Addr
  PROVE  /\ Rest(e, f) \in Nat /\ Rest(e, f) >= Cardinality(Of(f) \ {e})
         /\ game.tidy \/ key[f].kind # "text2" => Rest(e, f) = Cardinality(Of(f) \ {e})
<1>1. /\ Cardinality(Of(f) \ {e}) \in Nat
      /\ Cardinality(Of(f)) = Cardinality(Of(f) \ {e}) + (IF e \in Of(f) THEN 1 ELSE 0)
  BY OfBut
<1>2. /\ ref[f] \in Nat /\ ref[f] >= Cardinality(Of(f))
      /\ game.tidy \/ key[f].kind # "text2" => ref[f] = Cardinality(Of(f))
  BY DEF CacheInv, Counts, FontsTyped
<1>3. e \in Of(f) <=> font[e] = f
  BY DEF Of
<1>4. f # NONE
  BY FontsAssumption
<1>5. CASE f \in Held(e)
  <2>1. font[e] = f
    BY <1>5 DEF Held
  <2> QED
    BY <1>1, <1>2, <1>3, <1>5, <2>1 DEF Rest
<1>6. CASE f \notin Held(e)
  <2>1. Rest(e, f) = ref[f]
    BY <1>6 DEF Rest
  <2>2. ASSUME game.tidy \/ key[f].kind # "text2" PROVE font[e] # f
    <3>1. SUFFICES ASSUME font[e] = f PROVE FALSE
      OBVIOUS
    <3>2. kind[e] \in Kind /\ key[f].kind = kind[e] /\ ~valid[e]
      BY <1>4, <1>6, <3>1 DEF CacheInv, Pointed, Held
    <3>3. game.tidy \/ kind[e] = "text"
      BY <2>2, <3>2 DEF Kind
    <3> QED
      BY <1>4, <3>1, <3>2, <3>3 DEF CacheInv, Pointed
  <2> QED
    BY <1>1, <1>2, <1>3, <2>1, <2>2
<1> QED
  BY <1>5, <1>6

(* The entity itself points to what its renderer wants.                    *)
LEMMA MovesKeeps ==
  ASSUME CacheInv, NEW e \in Ent, NEW b, Moves(e, b), Pointed(e)',
         kind' \in [Ent -> Kind \cup {NONE}], valid' \in [Ent -> BOOLEAN],
         \A g \in Ent \ {e}: kind'[g] = kind[g] /\ valid'[g] = valid[g]
  PROVE  CacheInv'
<1>1. ref' \in [Addr -> Nat]
  <2>1. \A f \in Addr: ref'[f] \in Nat
    <3> TAKE f \in Addr
    <3>1. Rest(e, f) \in Nat
      BY RestCounts
    <3> QED
      BY <3>1 DEF Moves
  <2> QED
    BY <2>1 DEF Moves
<1>2. FontsTyped'
  BY <1>1 DEF CacheInv, FontsTyped, Moves
<1>3. KeysListed'
  BY DEF Moves, KeysListed
<1>4. ASSUME NEW g \in Ent, g # e PROVE Pointed(g)'
  <2>1. font'[g] = font[g] /\ kind'[g] = kind[g] /\ valid'[g] = valid[g] /\ game' = game /\ Pointed(g)
    BY <1>4 DEF CacheInv, FontsTyped, Moves
  <2>2. ASSUME font[g] # NONE PROVE key'[font[g]] = key[font[g]]
    <3>1. font[g] \in Addr /\ g \in Of(font[g]) \ {e}
      BY <1>4, <2>2 DEF CacheInv, FontsTyped, Of
    <3>2. IsFiniteSet(Of(font[g]) \ {e}) /\ Cardinality(Of(font[g]) \ {e}) \in Nat
      BY OfBut
    <3>3. Cardinality(Of(font[g]) \ {e}) # 0
      BY <3>1, <3>2, FS_EmptySet
    <3>4. Rest(e, font[g]) # 0
      BY <3>1, <3>2, <3>3, RestCounts
    <3> QED
      BY <3>1, <3>4 DEF Moves
  <2> QED
    BY <2>1, <2>2 DEF Pointed
<1>5. ASSUME NEW f \in Addr PROVE Counts(f)'
  <2>1. Cardinality(Of(f))' = Cardinality(Of(f) \ {e}) + (IF f = b THEN 1 ELSE 0)
    BY TakeCounts DEF CacheInv, Moves
  <2>2. ref'[f] = Rest(e, f) + (IF f = b THEN 1 ELSE 0) /\ (key'[f] = key[f] \/ Rest(e, f) = 0) /\ game' = game
    BY DEF Moves
  <2>3. /\ Rest(e, f) \in Nat /\ Rest(e, f) >= Cardinality(Of(f) \ {e})
        /\ game.tidy \/ key[f].kind # "text2" => Rest(e, f) = Cardinality(Of(f) \ {e})
    BY RestCounts
  <2>4. Cardinality(Of(f) \ {e}) \in Nat
    BY OfBut
  <2>5. ASSUME game.tidy \/ key'[f].kind # "text2" PROVE Rest(e, f) = Cardinality(Of(f) \ {e})
    BY <2>2, <2>3, <2>4, <2>5
  <2> QED
    BY <2>1, <2>2, <2>3, <2>4, <2>5 DEF Counts
<1> QED
  BY <1>2, <1>3, <1>4, <1>5 DEF CacheInv

(* What a step that leaves fonts alone leaves of all this.                 *)
LEMMA CacheStays ==
  ASSUME CacheInv, UNCHANGED <<ref, key, font, game>>, NEW e \in Ent, Pointed(e)',
         kind' \in [Ent -> Kind \cup {NONE}], valid' \in [Ent -> BOOLEAN],
         \A g \in Ent \ {e}: kind'[g] = kind[g] /\ valid'[g] = valid[g]
  PROVE  CacheInv'
<1>1. FontsTyped' /\ KeysListed'
  BY DEF CacheInv, FontsTyped, KeysListed
<1>2. \A g \in Ent: Pointed(g)'
  BY DEF CacheInv, Pointed
<1>3. ASSUME NEW f \in Addr PROVE Counts(f)'
  <2>1. Of(f)' = Of(f) /\ Counts(f)
    BY DEF Of, CacheInv
  <2> QED
    BY <2>1 DEF Counts
<1> QED
  BY <1>1, <1>2, <1>3 DEF CacheInv

-----------------------------------------------------------------------------
(* Textures, texts and fields.                                             *)

TexTyped == tex \in [Ent -> BOOLEAN] /\ textures \in Nat
FieldsTyped ==
  /\ field \in [Ent -> Field] /\ at \in [Ent -> [{"name", "chars"} -> {"data", "lua", "own"}]]
  /\ who \in Ent \cup {NONE} /\ game \in Games

(* Tidy game code gives a line font its text before.                       *)
TextThere(e) == game.tidy /\ kind[e] = "text2" => field[e].text \/ (e = who /\ todo \in Unsets)
TextComes ==
  game.tidy /\ todo \in {<<"unset", "text2", "return">>, <<"text2", "return">>} => field[who].text
TextsThere == (\A e \in Ent: TextThere(e)) /\ TextComes

FontsInv == CacheInv /\ ToDo /\ TexTyped /\ TexturesShown /\ TextsThere /\ FieldsTyped

USE DEF cached, rendered

LEMMA TexFinite == IsFiniteSet({e \in Ent: tex[e]}) /\ Cardinality({e \in Ent: tex[e]}) \in Nat
<1>1. {e \in Ent: tex[e]} \in SUBSET Ent
  OBVIOUS
<1> QED
  BY <1>1, FontsAssumption, FS_Subset, FS_CardinalityType

(* The texture of one entity is made or deleted.                           *)
LEMMA TexMoves ==
  ASSUME TexTyped, TexturesShown, NEW e \in Ent, NEW t \in BOOLEAN, tex' = [tex EXCEPT ![e] = t],
         textures' = textures - (IF tex[e] THEN 1 ELSE 0) + (IF t THEN 1 ELSE 0),
         t => kind'[e] = "text" /\ valid'[e],
         \A g \in Ent \ {e}: kind'[g] = kind[g] /\ valid'[g] = valid[g]
  PROVE  TexTyped' /\ TexturesShown'
<1> DEFINE T == {g \in Ent: tex[g]}
           U == {g \in Ent: tex'[g]}
<1>1. IsFiniteSet(T) /\ Cardinality(T) \in Nat /\ textures = Cardinality(T)
  BY TexFinite DEF TexturesShown
<1>2. e \in T <=> tex[e]
  OBVIOUS
<1>3. U = IF t THEN T \cup {e} ELSE T \ {e}
  BY DEF TexTyped
<1> HIDE DEF T, U
<1>4. Cardinality(T \cup {e}) = Cardinality(T) + (IF tex[e] THEN 0 ELSE 1)
  <2>1. CASE tex[e]
    <3>1. T \cup {e} = T
      BY <1>2, <2>1
    <3>2. Cardinality(T \cup {e}) = Cardinality(T)
      BY <3>1, Zenon
    <3>3. Cardinality(T) = Cardinality(T) + 0
      BY <1>1
    <3> QED
      BY <2>1, <3>2, <3>3, Zenon
  <2>2. CASE ~tex[e]
    <3>1. e \notin T
      BY <1>2, <2>2
    <3>2. Cardinality(T \cup {e}) = Cardinality(T) + 1
      BY <1>1, <3>1, FS_AddElement
    <3> QED
      BY <2>2, <3>2
  <2> QED
    BY <2>1, <2>2
<1>5. Cardinality(T \ {e}) = Cardinality(T) - (IF tex[e] THEN 1 ELSE 0) /\ IsFiniteSet(T \ {e})
  BY <1>1, <1>2, FS_RemoveElement
<1>6. Cardinality(T \ {e}) \in Nat
  BY <1>5, FS_CardinalityType
<1>7. textures' = Cardinality(U) /\ textures' \in Nat
  <2>1. CASE t
    BY <1>1, <1>3, <1>4, <2>1
  <2>2. CASE ~t
    BY <1>1, <1>3, <1>5, <1>6, <2>2
  <2> QED
    BY <2>1, <2>2
<1>8. tex' \in [Ent -> BOOLEAN]
  BY DEF TexTyped
<1>9. \A g \in Ent: tex'[g] => kind'[g] = "text" /\ valid'[g]
  BY DEF TexTyped, TexturesShown
<1> QED
  BY <1>7, <1>8, <1>9 DEF U, TexTyped, TexturesShown

LEMMA TexStays ==
  ASSUME TexTyped, TexturesShown, NEW e \in Ent, UNCHANGED <<tex, textures>>,
         tex[e] => kind'[e] = "text" /\ valid'[e],
         \A g \in Ent \ {e}: kind'[g] = kind[g] /\ valid'[g] = valid[g]
  PROVE  TexTyped' /\ TexturesShown'
BY DEF TexTyped, TexturesShown

(* Which steps there are at a callback, and what comes after them.         *)
LEMMA CalledAt ==
  ASSUME ToDo, NEW c \in {"font", "redraw", "align"}, NEW k \in Kind, Called(c, k)
  PROVE  /\ who \in Ent /\ kind[who] = k
         /\ k = "text" => todo \in TextSteps
         /\ k = "text2" => todo \in Text2Steps
<1>1. todo # <<>> /\ Head(todo) = c /\ kind[who] = k
  BY DEF Called, Idle
<1>2. c \notin Kind /\ c # "unset" /\ c # "return" /\ c # "aborted"
  BY DEF Kind
<1>3. todo \notin {<<>>, <<"return">>, <<"aborted">>} /\ todo \notin Pluggings /\ todo \notin Unsets
  BY <1>1, <1>2, Heads
<1> QED
  BY <1>1, <1>3 DEF ToDo

LEMMA PlansApart ==
  /\ \A s \in TextSteps \cup Text2Steps \cup {<<>>, <<"return">>, <<"aborted">>}:
       /\ s \notin Unsets
       /\ s \notin {<<"unset", "text2", "return">>, <<"text2", "return">>}
  /\ \A s \in TextSteps: Tail(s) \in TextSteps \cup {<<"return">>}
  /\ \A s \in Text2Steps: Tail(s) \in Text2Steps \cup {<<"return">>}
<1>1. \A s \in TextSteps: Tail(s) \in TextSteps \cup {<<"return">>}
  BY Tails DEF TextSteps
<1>2. \A s \in Text2Steps: Tail(s) \in Text2Steps \cup {<<"return">>}
  BY Tails DEF Text2Steps
<1>3. \A s \in {<<>>, <<"return">>, <<"aborted">>}: s \notin Unsets /\ s \notin Pluggings
  BY DEF Unsets, Pluggings
<1>4. \A s \in TextSteps \cup Text2Steps: s \notin Unsets /\ s \notin Pluggings
  BY Heads DEF Kind
<1>5. <<"unset", "text2", "return">> \in Unsets /\ <<"text2", "return">> \in Pluggings
  BY DEF Unsets, Pluggings
<1> QED
  BY <1>1, <1>2, <1>3, <1>4, <1>5

LEMMA Goes ==
  ASSUME ToDo, TextsThere, NEW c \in {"font", "redraw", "align"}, NEW k \in Kind, Called(c, k), Continue,
         UNCHANGED <<kind, game>>, \A g \in Ent: field'[g].text = field[g].text
  PROVE  ToDo' /\ TextsThere'
<1>1. /\ who \in Ent /\ kind[who] = k
      /\ k = "text" => todo \in TextSteps
      /\ k = "text2" => todo \in Text2Steps
  BY CalledAt
<1>2. todo' = Tail(todo) /\ who' = who
  BY DEF Continue
<1>3. ToDo'
  BY <1>1, <1>2, PlansApart DEF ToDo, Kind
<1>4. todo \notin Unsets /\ todo' \notin {<<"unset", "text2", "return">>, <<"text2", "return">>}
  BY <1>1, <1>2, PlansApart DEF Kind
<1>5. TextsThere'
  BY <1>2, <1>4 DEF TextsThere, TextThere, TextComes
<1> QED
  BY <1>3, <1>5

-----------------------------------------------------------------------------
(* Operations of game code.                                                *)

(* Only fields change, and what is to be done.                             *)
LEMMA CallKeeps ==
  ASSUME FontsInv, NEW e \in Ent, UNCHANGED <<cached, rendered, kind, game>>, ToDo', TextsThere', FieldsTyped'
  PROVE  FontsInv'
<1>1. CacheInv'
  BY CacheStays DEF FontsInv, CacheInv, FontsTyped, Pointed
<1>2. TexTyped' /\ TexturesShown'
  BY TexStays DEF FontsInv, TexturesShown
<1> QED
  BY <1>1, <1>2 DEF FontsInv

LEMMA TextsStay ==
  ASSUME FontsInv, Idle, UNCHANGED <<kind, game>>,
         todo' \in TextSteps \cup Text2Steps \cup {<<>>, <<"return">>, <<"aborted">>},
         \A g \in Ent: game.tidy /\ kind[g] = "text2" => (field'[g].text <=> field[g].text)
  PROVE  TextsThere'
<1>1. todo \notin Unsets /\ todo' \notin {<<"unset", "text2", "return">>, <<"text2", "return">>}
  BY PlansApart DEF Idle
<1> QED
  BY <1>1 DEF FontsInv, TextsThere, TextThere, TextComes

LEMMA Fielded ==
  ASSUME FieldsTyped, NEW e \in Ent, NEW r \in Field, field' = [field EXCEPT ![e] = r]
  PROVE  field' \in [Ent -> Field] /\ field'[e] = r /\ \A g \in Ent \ {e}: field'[g] = field[g]
BY DEF FieldsTyped

LEMMA SetKeeps ==
  ASSUME FontsInv, NEW e \in Ent,
         \/ \E n \in FontName \cup {NONE}: SetFont(e, n)
         \/ \E s \in PtSize \cup {0}: SetSize(e, s)
         \/ \E c \in Chars \cup {NONE}: SetChars(e, c)
         \/ \E t \in BOOLEAN: SetText(e, t)
         \/ SetAlign(e)
  PROVE  FontsInv'
<1>1. /\ CacheInv /\ FieldsTyped /\ field[e] \in Field /\ kind[e] \in Kind \cup {NONE}
      /\ field \in [Ent -> Field] /\ at \in [Ent -> [{"name", "chars"} -> {"data", "lua", "own"}]]
  BY DEF FontsInv, FieldsTyped, CacheInv, FontsTyped
<1>2. UNCHANGED <<cached, rendered, kind, game>> /\ Idle
  BY DEF SetFont, SetSize, SetChars, SetText, SetAlign
<1>3. who' = e
  BY DEF SetFont, SetSize, SetChars, SetText, SetAlign, Run
<1>4. todo' = <<"return">> \/ (todo' = <<"font", "return">> /\ kind[e] # NONE)
      \/ (todo' = <<"redraw", "return">> /\ kind[e] = "text") \/ (todo' = <<"align", "return">> /\ kind[e] = "text2")
  <2>1. ASSUME NEW n \in FontName \cup {NONE}, SetFont(e, n)
        PROVE  todo' = <<"return">> \/ (todo' = <<"font", "return">> /\ kind[e] # NONE)
    BY <2>1, AllSteps DEF SetFont, Run
  <2>2. ASSUME NEW s \in PtSize \cup {0}, SetSize(e, s)
        PROVE  todo' = <<"return">> \/ (todo' = <<"font", "return">> /\ kind[e] # NONE)
    BY <2>2, AllSteps, FontsAssumption DEF SetSize, Run
  <2>3. ASSUME NEW c \in Chars \cup {NONE}, SetChars(e, c)
        PROVE  todo' = <<"return">> \/ (todo' = <<"font", "return">> /\ kind[e] # NONE)
    BY <2>3, AllSteps, FontsAssumption DEF SetChars, Run
  <2>4. ASSUME NEW t \in BOOLEAN, SetText(e, t)
        PROVE  \/ todo' = <<"return">> \/ (todo' = <<"redraw", "return">> /\ kind[e] = "text")
               \/ (todo' = <<"align", "return">> /\ kind[e] = "text2")
    <3>1. CASE kind[e] = "text"
      BY <2>4, <3>1, AllSteps DEF SetText, Run
    <3>2. CASE kind[e] = "text2"
      BY <2>4, <3>2, AllSteps DEF SetText, Run
    <3>3. CASE kind[e] \notin Kind
      BY <2>4, <3>3, AllSteps DEF SetText, Run, Kind
    <3> QED
      BY <3>1, <3>2, <3>3 DEF Kind
  <2>5. ASSUME SetAlign(e) PROVE todo' = <<"align", "return">> /\ kind[e] = "text2"
    BY <2>5, AllSteps DEF SetAlign, Run
  <2> QED
    BY <2>1, <2>2, <2>3, <2>4, <2>5
<1>5. ToDo' /\ todo' \in TextSteps \cup Text2Steps \cup {<<>>, <<"return">>, <<"aborted">>}
  BY <1>1, <1>2, <1>3, <1>4 DEF ToDo, TextSteps, Text2Steps, Kind
<1>6. field' \in [Ent -> Field] /\ \A g \in Ent: game.tidy /\ kind[g] = "text2" => (field'[g].text <=> field[g].text)
  <2>1. ASSUME NEW n \in FontName \cup {NONE}, SetFont(e, n)
        PROVE  field' \in [Ent -> Field] /\ \A g \in Ent: field'[g].text = field[g].text
    <3>1. [field[e] EXCEPT !.name = n] \in Field /\ [field[e] EXCEPT !.name = n].text = field[e].text
      BY <1>1, <2>1 DEF Field
    <3>2. field' = [field EXCEPT ![e] = [field[e] EXCEPT !.name = n]]
      BY <2>1 DEF SetFont
    <3> QED
      BY <1>1, <3>1, <3>2, Fielded
  <2>2. ASSUME NEW s \in PtSize \cup {0}, SetSize(e, s)
        PROVE  field' \in [Ent -> Field] /\ \A g \in Ent: field'[g].text = field[g].text
    <3>1. [field[e] EXCEPT !.size = s] \in Field /\ [field[e] EXCEPT !.size = s].text = field[e].text
      BY <1>1, <2>2 DEF Field
    <3>2. field' = [field EXCEPT ![e] = [field[e] EXCEPT !.size = s]]
      BY <2>2 DEF SetSize
    <3> QED
      BY <1>1, <3>1, <3>2, Fielded
  <2>3. ASSUME NEW c \in Chars \cup {NONE}, SetChars(e, c)
        PROVE  field' \in [Ent -> Field] /\ \A g \in Ent: field'[g].text = field[g].text
    <3>1. [field[e] EXCEPT !.chars = c] \in Field /\ [field[e] EXCEPT !.chars = c].text = field[e].text
      BY <1>1, <2>3 DEF Field
    <3>2. field' = [field EXCEPT ![e] = [field[e] EXCEPT !.chars = c]]
      BY <2>3 DEF SetChars
    <3> QED
      BY <1>1, <3>1, <3>2, Fielded
  <2>4. ASSUME NEW t \in BOOLEAN, SetText(e, t)
        PROVE  field' \in [Ent -> Field] /\
               \A g \in Ent: game.tidy /\ kind[g] = "text2" => (field'[g].text <=> field[g].text)
    <3>1. [field[e] EXCEPT !.text = t] \in Field /\ [field[e] EXCEPT !.text = t].text = t
      BY <1>1, <2>4 DEF Field
    <3>2. field' = [field EXCEPT ![e] = [field[e] EXCEPT !.text = t]] /\ (game.tidy => t \/ kind[e] # "text2")
      BY <2>4 DEF SetText
    <3>3. game.tidy /\ kind[e] = "text2" => field[e].text
      BY <1>2, PlansApart DEF FontsInv, TextsThere, TextThere, Idle
    <3> QED
      BY <1>1, <3>1, <3>2, <3>3, Fielded
  <2>5. ASSUME SetAlign(e) PROVE field' = field
    BY <2>5 DEF SetAlign
  <2> QED
    BY <1>1, <2>1, <2>2, <2>3, <2>4, <2>5
<1>7. at' \in [Ent -> [{"name", "chars"} -> {"data", "lua", "own"}]]
  <2>1. ASSUME NEW s \in {"name", "chars"}, NEW v \in {"data", "lua"}, at' = [at EXCEPT ![e][s] = v]
        PROVE  at' \in [Ent -> [{"name", "chars"} -> {"data", "lua", "own"}]]
    <3>1. at' = [at EXCEPT ![e] = [at[e] EXCEPT ![s] = v]]
      BY <2>1
    <3>2. [at[e] EXCEPT ![s] = v] \in [{"name", "chars"} -> {"data", "lua", "own"}]
      BY <1>1
    <3> QED
      BY <1>1, <3>1, <3>2
  <2>2. ASSUME NEW n \in FontName \cup {NONE}, SetFont(e, n)
        PROVE  \E v \in {"data", "lua"}: at' = [at EXCEPT ![e]["name"] = v]
    BY <2>2 DEF SetFont
  <2>3. ASSUME NEW c \in Chars \cup {NONE}, SetChars(e, c)
        PROVE  \E v \in {"data", "lua"}: at' = [at EXCEPT ![e]["chars"] = v]
    BY <2>3 DEF SetChars
  <2>4. ASSUME \/ \E s \in PtSize \cup {0}: SetSize(e, s)
               \/ \E t \in BOOLEAN: SetText(e, t)
               \/ SetAlign(e)
        PROVE  at' = at
    BY <2>4 DEF SetSize, SetText, SetAlign
  <2> QED
    BY <1>1, <2>1, <2>2, <2>3, <2>4
<1>8. TextsThere'
  BY <1>2, <1>5, <1>6, TextsStay
<1>9. FieldsTyped'
  BY <1>1, <1>2, <1>3, <1>6, <1>7 DEF FieldsTyped
<1> QED
  BY <1>2, <1>5, <1>8, <1>9, CallKeeps

(* ent.render = k, and the entity freed.                                   *)
LEMMA RenderKeeps ==
  ASSUME FontsInv, NEW e \in Ent, NEW k \in Kind \cup {NONE}, SetRender(e, k)
  PROVE  FontsInv'
<1>1. /\ FieldsTyped /\ field[e] \in Field /\ kind[e] \in Kind \cup {NONE}
      /\ field \in [Ent -> Field] /\ at \in [Ent -> [{"name", "chars"} -> {"data", "lua", "own"}]]
  BY DEF FontsInv, FieldsTyped, CacheInv, FontsTyped
<1>2. UNCHANGED <<cached, rendered, kind, game>> /\ Idle /\ who' = e /\ todo = <<>>
      /\ (game.tidy => field[e].text \/ k # "text2")
      /\ todo' = ((IF kind[e] = NONE THEN <<>> ELSE <<"unset">>) \o (IF k = NONE THEN <<>> ELSE <<k>>)) \o <<"return">>
      /\ at' = [at EXCEPT ![e] = [name |-> "data", chars |-> "data"]]
  BY DEF SetRender, Idle, Run
<1>3. field' \in [Ent -> Field] /\ \A g \in Ent: field'[g].text = field[g].text
  <2>1. CASE kind[e] = NONE
    BY <1>1, <2>1 DEF SetRender
  <2>2. CASE kind[e] # NONE
    <3>1. PICK n \in Read(field[e].name, FontName), c \in Read(field[e].chars, Chars):
            field' = [field EXCEPT ![e].name = n, ![e].chars = IF kind[e] = "text2" THEN c ELSE @]
      BY <2>2 DEF SetRender
    <3>2. n \in FontName \cup {JUNK, NONE} /\ c \in Chars \cup {JUNK, NONE}
      BY <1>1 DEF Read, Field
    <3> DEFINE r == [field[e] EXCEPT !.name = n, !.chars = IF kind[e] = "text2" THEN c ELSE @]
    <3>3. r \in Field /\ r.text = field[e].text
      BY <1>1, <3>2 DEF Field
    <3>4. field' = [field EXCEPT ![e] = r]
      BY <3>1
    <3> HIDE DEF r
    <3> QED
      BY <1>1, <3>3, <3>4, Fielded
  <2> QED
    BY <2>1, <2>2
<1>4. at' \in [Ent -> [{"name", "chars"} -> {"data", "lua", "own"}]]
  BY <1>1, <1>2
<1>5. FieldsTyped'
  BY <1>1, <1>2, <1>3, <1>4 DEF FieldsTyped
<1>6. \/ kind[e] = NONE /\ k = NONE /\ todo' = <<"return">>
      \/ kind[e] = NONE /\ k \in Kind /\ todo' = <<k, "return">>
      \/ kind[e] \in Kind /\ k = NONE /\ todo' = <<"unset", "return">>
      \/ kind[e] \in Kind /\ k \in Kind /\ todo' = <<"unset", k, "return">>
  <2>1. CASE kind[e] = NONE /\ k = NONE
    BY <1>2, <2>1, AllSteps
  <2>2. CASE kind[e] = NONE /\ k \in Kind
    <3>1. k # NONE /\ k \in {"text", "text2"}
      BY <2>2, FontsAssumption DEF Kind
    <3>2. todo' = (<<>> \o <<k>>) \o <<"return">>
      BY <1>2, <2>2, <3>1
    <3>3. todo' = <<k, "return">>
      BY <3>1, <3>2, AllSteps, Zenon
    <3> QED
      BY <2>2, <3>3
  <2>3. CASE kind[e] # NONE /\ k = NONE
    <3>1. todo' = (<<"unset">> \o <<>>) \o <<"return">>
      BY <1>2, <2>3
    <3>2. todo' = <<"unset", "return">>
      BY <3>1, AllSteps, Zenon
    <3> QED
      BY <1>1, <2>3, <3>2
  <2>4. CASE kind[e] # NONE /\ k \in Kind
    <3>1. k # NONE /\ k \in {"text", "text2"}
      BY <2>4, FontsAssumption DEF Kind
    <3>2. todo' = (<<"unset">> \o <<k>>) \o <<"return">>
      BY <1>2, <2>4, <3>1
    <3>3. todo' = <<"unset", k, "return">>
      BY <3>1, <3>2, AllSteps, Zenon
    <3> QED
      BY <1>1, <2>4, <3>3
  <2> QED
    BY <1>1, <2>1, <2>2, <2>3, <2>4
<1>7. ToDo'
  BY <1>1, <1>2, <1>6 DEF ToDo, Pluggings, Unsets, Kind
<1>8. TextsThere'
  <2>1. ASSUME NEW g \in Ent PROVE TextThere(g)'
    <3>1. todo \notin Unsets
      BY <1>2, PlansApart
    <3> QED
      BY <1>2, <1>3, <3>1 DEF FontsInv, TextsThere, TextThere
  <2>2. ASSUME game.tidy, todo' \in {<<"unset", "text2", "return">>, <<"text2", "return">>} PROVE field'[e].text
    <3>1. (Head(todo') = "unset" /\ Head(Tail(todo')) = "text2") \/ Head(todo') = "text2"
      BY <2>2, SMTT(30)
    <3>2. CASE todo' = <<"return">> \/ todo' = <<"unset", "return">>
      BY <3>1, <3>2
    <3>3. ASSUME k \in Kind, todo' = <<k, "return">> \/ todo' = <<"unset", k, "return">>
          PROVE  k = "text2"
      BY <3>1, <3>3 DEF Kind
    <3> QED
      BY <1>2, <1>3, <1>6, <2>2, <3>2, <3>3
  <2> QED
    BY <1>2, <2>1, <2>2 DEF TextsThere, TextComes
<1> QED
  BY <1>2, <1>5, <1>7, <1>8, CallKeeps

LEMMA FreeKeeps ==
  ASSUME FontsInv, NEW e \in Ent, Free(e)
  PROVE  FontsInv'
<1>1. /\ FieldsTyped /\ kind[e] \in Kind \cup {NONE}
      /\ field \in [Ent -> Field] /\ at \in [Ent -> [{"name", "chars"} -> {"data", "lua", "own"}]]
  BY DEF FontsInv, FieldsTyped, CacheInv, FontsTyped
<1>2. UNCHANGED <<cached, rendered, kind, game>> /\ Idle /\ who' = e /\ todo = <<>>
      /\ field' = [field EXCEPT ![e] = Blank] /\ at' = [at EXCEPT ![e] = [name |-> "data", chars |-> "data"]]
      /\ todo' = (IF kind[e] = NONE THEN <<>> ELSE <<"unset">>) \o <<"return">>
  BY DEF Free, Idle, Run
<1>3. todo' = IF kind[e] = NONE THEN <<"return">> ELSE <<"unset", "return">>
  BY <1>2, AllSteps, Zenon
<1>4. Blank \in Field
  BY DEF Blank, Field
<1>5. FieldsTyped'
  BY <1>1, <1>2, <1>4 DEF FieldsTyped
<1>6. ToDo'
  BY <1>1, <1>2, <1>3 DEF ToDo, Unsets
<1>7. ASSUME NEW g \in Ent PROVE TextThere(g)'
  <2>1. CASE g = e
    <3>1. game'.tidy /\ kind'[e] = "text2" => todo' \in Unsets
      BY <1>2, <1>3, FontsAssumption DEF Unsets
    <3> QED
      BY <1>2, <2>1, <3>1 DEF TextThere
  <2>2. CASE g # e
    <3>1. field'[g] = field[g] /\ todo \notin Unsets
      BY <1>1, <1>2, <2>2, PlansApart
    <3> QED
      BY <1>2, <2>2, <3>1 DEF FontsInv, TextsThere, TextThere
  <2> QED
    BY <2>1, <2>2
<1>8. TextComes'
  <2>1. <<"unset", "return">> # <<"unset", "text2", "return">> /\ <<"unset", "return">> # <<"text2", "return">>
    BY Tails
  <2> QED
    BY <1>3, <2>1, PlansApart DEF TextComes
<1> QED
  BY <1>2, <1>5, <1>6, <1>7, <1>8, CallKeeps DEF TextsThere

LEMMA ReturnKeeps ==
  ASSUME FontsInv, Return
  PROVE  FontsInv'
<1>1. todo = <<"return">> /\ todo' = <<>> /\ who' = NONE /\ UNCHANGED <<cached, rendered, kind, game>>
      /\ field' = [field EXCEPT ![who].name = IF at[who].name = "lua" THEN Forgotten(@) ELSE @,
                                ![who].chars = IF at[who].chars = "lua" THEN Forgotten(@) ELSE @]
      /\ at' = [at EXCEPT ![who] = [s \in {"name", "chars"} |-> IF @[s] = "lua" THEN "data" ELSE @[s]]]
  BY DEF Return
<1>2. who \in Ent
  BY <1>1 DEF FontsInv, ToDo
<1>3. FieldsTyped /\ field[who] \in Field /\ at[who] \in [{"name", "chars"} -> {"data", "lua", "own"}]
  BY <1>2 DEF FontsInv, FieldsTyped
<1> DEFINE r == [field[who] EXCEPT !.name = IF at[who].name = "lua" THEN Forgotten(@) ELSE @,
                                   !.chars = IF at[who].chars = "lua" THEN Forgotten(@) ELSE @]
<1>4. r \in Field /\ r.text = field[who].text
  BY <1>3 DEF Field, Forgotten
<1>5. field' = [field EXCEPT ![who] = r]
  BY <1>1
<1> HIDE DEF r
<1>6. field' \in [Ent -> Field] /\ \A g \in Ent: field'[g].text = field[g].text
  BY <1>2, <1>3, <1>4, <1>5, Fielded
<1>7. at' \in [Ent -> [{"name", "chars"} -> {"data", "lua", "own"}]]
  <2>1. at' = [at EXCEPT ![who] = [s \in {"name", "chars"} |-> IF at[who][s] = "lua" THEN "data" ELSE at[who][s]]]
    BY <1>1
  <2>2. [s \in {"name", "chars"} |-> IF at[who][s] = "lua" THEN "data" ELSE at[who][s]]
          \in [{"name", "chars"} -> {"data", "lua", "own"}]
    BY <1>3
  <2> QED
    BY <1>3, <2>1, <2>2 DEF FieldsTyped
<1>8. FieldsTyped'
  BY <1>1, <1>3, <1>6, <1>7 DEF FieldsTyped
<1>9. ToDo'
  BY <1>1 DEF ToDo
<1>10. TextsThere'
  <2>1. todo \notin Unsets /\ todo' \notin {<<"unset", "text2", "return">>, <<"text2", "return">>}
    BY <1>1, PlansApart
  <2> QED
    BY <1>1, <1>6, <2>1 DEF FontsInv, TextsThere, TextThere, TextComes
<1> QED
  BY <1>1, <1>2, <1>8, <1>9, <1>10, CallKeeps

-----------------------------------------------------------------------------
(* The steps of an operation.                                              *)

(* The font in use is dropped.                                             *)
LEMMA Unlists ==
  ASSUME CacheInv, NEW e \in Ent, font' = [font EXCEPT ![e] = NONE], game' = game,
         IF valid[e] THEN Unlisted(font[e]) ELSE UNCHANGED <<ref, key>>
  PROVE  Moves(e, NONE)
<1>1. /\ ref \in [Addr -> Nat] /\ key \in [Addr -> Keys \cup {NoKey}] /\ KeysListed /\ Pointed(e)
      /\ font[e] \in Addr \cup {NONE} /\ NONE \notin Addr
  BY FontsAssumption DEF CacheInv, FontsTyped
<1>2. CASE valid[e]
  <2> DEFINE f == font[e]
  <2>1. f \in Addr /\ Held(e) = {f}
    BY <1>1, <1>2 DEF Pointed, Held
  <2>2. ref' = [ref EXCEPT ![f] = ref[f] - 1] /\ key' = IF ref'[f] = 0 THEN [key EXCEPT ![f] = NoKey] ELSE key
    BY <1>2 DEF Unlisted, Dropped
  <2> HIDE DEF f
  <2>3. Rest(e, f) \in Nat /\ Rest(e, f) = ref[f] - 1 /\ \A g \in Addr \ {f}: Rest(e, g) = ref[g]
    BY <2>1, RestCounts DEF Rest
  <2>4. ref' \in [Addr -> Int] /\ \A g \in Addr: ref'[g] = Rest(e, g)
    BY <1>1, <2>1, <2>2, <2>3
  <2>5. key' \in [Addr -> Keys \cup {NoKey}]
    BY <1>1, <2>2
  <2>6. \A g \in Addr: (key'[g] = key[g] \/ Rest(e, g) = 0) /\ (key'[g] = NoKey <=> ref'[g] = 0)
    BY <1>1, <2>1, <2>2, <2>3, <2>4 DEF KeysListed
  <2> QED
    BY <1>1, <2>4, <2>5, <2>6 DEF Moves
<1>3. CASE ~valid[e]
  <2>1. ref' = ref /\ key' = key /\ \A g \in Addr: Rest(e, g) = ref[g]
    BY <1>3 DEF Rest, Held
  <2> QED
    BY <1>1, <2>1 DEF Moves, KeysListed
<1> QED
  BY <1>2, <1>3

(* A font is found in the list, or loaded.                                 *)
LEMMA LoadMoves ==
  ASSUME CacheInv, NEW e \in Ent, NEW f \in Addr, font' = [font EXCEPT ![e] = f], game' = game,
         NEW r \in [Addr -> Nat], \A g \in Addr: r[g] = Rest(e, g),
         NEW k, Loaded(r, k, f), k.name \in FontName => k \in Keys
  PROVE  Moves(e, f) /\ key'[f] = k /\ k \in Keys
<1>1. /\ ref \in [Addr -> Nat] /\ key \in [Addr -> Keys \cup {NoKey}] /\ KeysListed
      /\ \A g \in Addr: ref[g] >= r[g]
  BY DEF CacheInv, FontsTyped, Rest
<1>2. /\ ref' = [r EXCEPT ![f] = r[f] + 1]
      /\ key' = [a \in Addr |-> IF a = f THEN k ELSE IF r[a] = 0 THEN NoKey ELSE key[a]]
  BY DEF Loaded, Counted
<1>3. (r[f] > 0 /\ key[f] = k) \/ (r[f] = 0 /\ k.name \in FontName)
  BY DEF Loaded, Find
<1>4. k \in Keys
  BY <1>1, <1>3 DEF KeysListed
<1>5. NoKey \notin Keys
  BY FontsAssumption DEF NoKey, Keys
<1>6. ref' \in [Addr -> Int] /\ \A g \in Addr: ref'[g] = Rest(e, g) + (IF g = f THEN 1 ELSE 0)
  BY <1>2
<1>7. key' \in [Addr -> Keys \cup {NoKey}] /\ key'[f] = k
  BY <1>1, <1>2, <1>4
<1>8. ASSUME NEW g \in Addr
      PROVE  (key'[g] = key[g] \/ Rest(e, g) = 0) /\ (key'[g] = NoKey <=> ref'[g] = 0)
  <2>1. CASE g = f
    BY <1>2, <1>3, <1>4, <1>5, <2>1
  <2>2. CASE g # f
    BY <1>1, <1>2, <2>2 DEF KeysListed
  <2> QED
    BY <2>1, <2>2
<1> QED
  BY <1>4, <1>6, <1>7, <1>8 DEF Moves

LEMMA TextUnloadKeeps ==
  ASSUME FontsInv, TextUnload, NEW e, e = who
  PROVE  FontsInv'
<1>1. Called("font", "text") /\ valid[e] /\ Unlisted(font[e]) /\ Blanked(e) /\ Continue /\ UNCHANGED <<kind, game>>
      /\ field' = [field EXCEPT ![e].name = NONE] /\ at' = [at EXCEPT ![e].name = "data"]
  BY DEF TextUnload
<1>2. e \in Ent /\ kind[e] = "text"
  BY <1>1, CalledAt DEF FontsInv, Kind
<1>3. /\ font' = [font EXCEPT ![e] = NONE] /\ valid' = [valid EXCEPT ![e] = FALSE]
      /\ tex' = [tex EXCEPT ![e] = FALSE] /\ textures' = textures - (IF tex[e] THEN 1 ELSE 0)
  BY <1>1 DEF Blanked
<1>4. CacheInv /\ TexTyped /\ TexturesShown /\ FieldsTyped
  BY DEF FontsInv
<1>5. valid' \in [Ent -> BOOLEAN] /\ kind' \in [Ent -> Kind \cup {NONE}] /\ font'[e] = NONE /\ valid'[e] = FALSE
      /\ \A g \in Ent \ {e}: kind'[g] = kind[g] /\ valid'[g] = valid[g]
  BY <1>1, <1>2, <1>3, <1>4 DEF CacheInv, FontsTyped
<1>6. Moves(e, NONE)
  BY <1>1, <1>2, <1>3, <1>4, Unlists
<1>7. Pointed(e)'
  BY <1>5, <1>1 DEF Pointed, Continue
<1>8. CacheInv'
  BY <1>2, <1>4, <1>5, <1>6, <1>7, MovesKeeps
<1>9. TexTyped' /\ TexturesShown'
  <2>1. textures' = textures - (IF tex[e] THEN 1 ELSE 0) + 0
    BY <1>3, <1>4 DEF TexTyped
  <2> QED
    BY <1>2, <1>3, <1>4, <1>5, <2>1, TexMoves
<1>10. /\ field' \in [Ent -> Field] /\ (\A g \in Ent: field'[g].text = field[g].text)
       /\ at' \in [Ent -> [{"name", "chars"} -> {"data", "lua", "own"}]]
  <2>1. [field[e] EXCEPT !.name = NONE] \in Field /\ [field[e] EXCEPT !.name = NONE].text = field[e].text
    BY <1>2, <1>4 DEF FieldsTyped, Field
  <2>2. [at[e] EXCEPT !["name"] = "data"] \in [{"name", "chars"} -> {"data", "lua", "own"}]
    BY <1>2, <1>4 DEF FieldsTyped
  <2>3. field' = [field EXCEPT ![e] = [field[e] EXCEPT !.name = NONE]]
        /\ at' = [at EXCEPT ![e] = [at[e] EXCEPT !["name"] = "data"]]
    BY <1>1
  <2> QED
    BY <1>2, <1>4, <2>1, <2>2, <2>3, Fielded DEF FieldsTyped
<1>11. FieldsTyped' /\ ToDo' /\ TextsThere'
  BY <1>1, <1>2, <1>4, <1>10, Goes DEF FontsInv, FieldsTyped, Continue, Kind
<1> QED
  BY <1>8, <1>9, <1>11 DEF FontsInv

LEMMA TextLoadKeeps ==
  ASSUME FontsInv, TextLoad, NEW e, e = who
  PROVE  FontsInv'
<1>1. Called("font", "text") /\ ~valid[e] /\ field[e].name # NONE /\ field[e].size > 0
      /\ Continue /\ UNCHANGED <<kind, game>>
  BY DEF TextLoad
<1>2. e \in Ent /\ kind[e] = "text"
  BY <1>1, CalledAt DEF FontsInv, Kind
<1>3. PICK n \in Read(field[e].name, FontName), f \in Addr, done \in BOOLEAN:
       /\ Loaded(ref, TextFont(n), f)
       /\ font' = [font EXCEPT ![e] = f]
       /\ valid' = [valid EXCEPT ![e] = TRUE]
       /\ field' = [field EXCEPT ![e].name = n]
       /\ at' = [at EXCEPT ![e].name = "own"]
       /\ Redrawn(e, done)
  BY DEF TextLoad
<1>4. CacheInv /\ TexTyped /\ TexturesShown /\ FieldsTyped
  BY DEF FontsInv
<1>5. valid' \in [Ent -> BOOLEAN] /\ kind' \in [Ent -> Kind \cup {NONE}] /\ font'[e] = f /\ valid'[e] = TRUE
      /\ \A g \in Ent \ {e}: kind'[g] = kind[g] /\ valid'[g] = valid[g]
  BY <1>1, <1>2, <1>3, <1>4 DEF CacheInv, FontsTyped
<1>6. field[e] \in Field /\ ref \in [Addr -> Nat] /\ f # NONE
  BY <1>2, <1>4, FontsAssumption DEF FieldsTyped, CacheInv, FontsTyped
<1>7. n \in FontName \cup {JUNK}
  BY <1>1, <1>6 DEF Read, Field
<1>8. TextFont(n).kind = "text" /\ (TextFont(n).name \in FontName => TextFont(n) \in Keys)
  BY <1>1, <1>6 DEF TextFont, Keys, Field
<1>9. \A g \in Addr: ref[g] = Rest(e, g)
  BY <1>1 DEF Rest, Held
<1>10. Moves(e, f) /\ key'[f] = TextFont(n)
  BY <1>1, <1>2, <1>3, <1>4, <1>6, <1>8, <1>9, LoadMoves
<1>11. Pointed(e)'
  BY <1>1, <1>2, <1>5, <1>6, <1>8, <1>10 DEF Pointed, Kind
<1>12. CacheInv'
  BY <1>2, <1>4, <1>5, <1>10, <1>11, MovesKeeps
<1>13. TexTyped' /\ TexturesShown'
  <2> DEFINE t == field[e].text /\ done
  <2>1. t \in BOOLEAN /\ tex' = [tex EXCEPT ![e] = t]
    BY <1>3 DEF Redrawn
  <2>2. tex'[e] = t
    BY <1>2, <1>4, <2>1 DEF TexTyped
  <2>3. textures' = textures - (IF tex[e] THEN 1 ELSE 0) + (IF t THEN 1 ELSE 0)
    BY <1>3, <2>2 DEF Redrawn
  <2> HIDE DEF t
  <2> QED
    BY <1>1, <1>2, <1>4, <1>5, <2>1, <2>3, TexMoves
<1>14. /\ field' \in [Ent -> Field] /\ (\A g \in Ent: field'[g].text = field[g].text)
       /\ at' \in [Ent -> [{"name", "chars"} -> {"data", "lua", "own"}]]
  <2>1. [field[e] EXCEPT !.name = n] \in Field /\ [field[e] EXCEPT !.name = n].text = field[e].text
    BY <1>6, <1>7 DEF Field
  <2>2. [at[e] EXCEPT !["name"] = "own"] \in [{"name", "chars"} -> {"data", "lua", "own"}]
    BY <1>2, <1>4 DEF FieldsTyped
  <2>3. field' = [field EXCEPT ![e] = [field[e] EXCEPT !.name = n]]
        /\ at' = [at EXCEPT ![e] = [at[e] EXCEPT !["name"] = "own"]]
    BY <1>3
  <2> QED
    BY <1>2, <1>4, <2>1, <2>2, <2>3, Fielded DEF FieldsTyped
<1>15. FieldsTyped' /\ ToDo' /\ TextsThere'
  BY <1>1, <1>2, <1>4, <1>14, Goes DEF FontsInv, FieldsTyped, Continue, Kind
<1> QED
  BY <1>12, <1>13, <1>15 DEF FontsInv

(* Steps that change no field but one's own strings and no font.           *)
LEMMA QuietKeeps ==
  ASSUME FontsInv, NEW c \in {"font", "redraw", "align"}, NEW k \in Kind, Called(c, k), Continue,
         UNCHANGED <<ref, key, font, kind, field, at, game>>,
         \A e \in Ent: Pointed(e)', valid' \in [Ent -> BOOLEAN], TexTyped', TexturesShown'
  PROVE  FontsInv'
<1>1. who \in Ent /\ who' = who
  BY CalledAt DEF FontsInv, Continue
<1>2. CacheInv'
  <2>1. FontsTyped' /\ KeysListed'
    BY DEF FontsInv, CacheInv, FontsTyped, KeysListed
  <2>2. ASSUME NEW f \in Addr PROVE Counts(f)'
    <3>1. Of(f)' = Of(f) /\ Counts(f)
      BY DEF Of, FontsInv, CacheInv
    <3> QED
      BY <3>1 DEF Counts
  <2> QED
    BY <2>1, <2>2 DEF CacheInv
<1>3. FieldsTyped'
  BY <1>1 DEF FontsInv, FieldsTyped
<1>4. ToDo' /\ TextsThere'
  BY Goes DEF FontsInv
<1> QED
  BY <1>2, <1>3, <1>4 DEF FontsInv

LEMMA NothingKeeps ==
  ASSUME FontsInv, TextNothing \/ TextMissing
  PROVE  FontsInv'
<1>1. Called("font", "text") /\ Continue /\ UNCHANGED <<rendered, kind, field, at, game>>
  BY DEF TextNothing, TextMissing
<1>2. UNCHANGED <<ref, key>>
  <2>1. CASE TextNothing
    BY <2>1 DEF TextNothing
  <2>2. CASE TextMissing
    <3>1. ref' = ref /\ key' = [a \in Addr |-> IF ref[a] = 0 THEN NoKey ELSE key[a]]
      BY <2>2 DEF TextMissing, NotLoaded
    <3>2. key \in [Addr -> Keys \cup {NoKey}] /\ KeysListed
      BY DEF FontsInv, CacheInv, FontsTyped
    <3>3. \A a \in Addr: key[a] = IF ref[a] = 0 THEN NoKey ELSE key[a]
      BY <3>2 DEF KeysListed
    <3> QED
      BY <3>1, <3>2, <3>3
  <2> QED
    BY <2>1, <2>2
<1>3. \A e \in Ent: Pointed(e)'
  BY <1>1, <1>2 DEF FontsInv, CacheInv, Pointed
<1>4. valid' \in [Ent -> BOOLEAN] /\ TexTyped' /\ TexturesShown'
  BY <1>1 DEF FontsInv, CacheInv, FontsTyped, TexTyped, TexturesShown
<1> QED
  BY <1>1, <1>2, <1>3, <1>4, QuietKeeps DEF Kind

LEMMA RedrawKeeps ==
  ASSUME FontsInv, Redraw, NEW e, e = who
  PROVE  FontsInv'
<1>1. Called("redraw", "text") /\ Continue /\ UNCHANGED <<cached, kind, field, at, valid, font, game>>
  BY DEF Redraw
<1>2. e \in Ent /\ kind[e] = "text"
  BY <1>1, CalledAt DEF FontsInv, Kind
<1>3. TexTyped' /\ TexturesShown'
  <2>1. CASE valid[e]
    <3>1. PICK done \in BOOLEAN: Redrawn(e, done)
      BY <2>1 DEF Redraw
    <3> DEFINE t == field[e].text /\ done
    <3>2. t \in BOOLEAN /\ tex' = [tex EXCEPT ![e] = t]
      BY <3>1 DEF Redrawn
    <3>3. tex'[e] = t
      BY <1>2, <3>2 DEF FontsInv, TexTyped
    <3>4. textures' = textures - (IF tex[e] THEN 1 ELSE 0) + (IF t THEN 1 ELSE 0)
      BY <3>1, <3>3 DEF Redrawn
    <3> HIDE DEF t
    <3> QED
      BY <1>1, <1>2, <2>1, <3>2, <3>4, TexMoves DEF FontsInv
  <2>2. CASE ~valid[e]
    BY <1>1, <1>2, <2>2 DEF Redraw, FontsInv, TexTyped, TexturesShown
  <2> QED
    BY <2>1, <2>2
<1>4. \A g \in Ent: Pointed(g)'
  BY <1>1 DEF FontsInv, CacheInv, Pointed
<1>5. valid' \in [Ent -> BOOLEAN]
  BY <1>1 DEF FontsInv, CacheInv, FontsTyped
<1> QED
  BY <1>1, <1>3, <1>4, <1>5, QuietKeeps DEF Kind

LEMMA AlignKeeps ==
  ASSUME FontsInv, Align, NEW e, e = who
  PROVE  FontsInv'
<1>1. Called("align", "text2") /\ Continue /\ UNCHANGED <<cached, font, tex, textures, kind, field, at, game>>
  BY DEF Align
<1>2. e \in Ent /\ kind[e] = "text2"
  BY <1>1, CalledAt DEF FontsInv, Kind
<1> DEFINE v == valid[e] \/ (font[e] # NONE /\ field[e].text)
<1>3. v \in BOOLEAN /\ valid' = [valid EXCEPT ![e] = v]
  BY DEF Align
<1>4. valid \in [Ent -> BOOLEAN] /\ \A g \in Ent: Pointed(g)
  BY DEF FontsInv, CacheInv, FontsTyped
<1>5. (v => font[e] # NONE) /\ (valid[e] => v)
  BY <1>2, <1>4 DEF Pointed
<1> HIDE DEF v
<1>6. valid' \in [Ent -> BOOLEAN] /\ valid'[e] = v /\ \A g \in Ent \ {e}: valid'[g] = valid[g]
  BY <1>2, <1>3, <1>4
<1>7. ASSUME NEW g \in Ent PROVE Pointed(g)'
  BY <1>1, <1>4, <1>5, <1>6 DEF Pointed
<1>8. TexTyped' /\ TexturesShown'
  BY <1>1, <1>2, <1>6 DEF FontsInv, TexTyped, TexturesShown
<1> QED
  BY <1>1, <1>6, <1>7, <1>8, QuietKeeps DEF Kind

LEMMA Text2LoadKeeps ==
  ASSUME FontsInv, Text2Load, NEW e, e = who
  PROVE  FontsInv'
<1>1. Called("font", "text2") /\ Text2Named /\ Continue /\ UNCHANGED <<tex, textures, kind, game>>
      /\ valid' = [valid EXCEPT ![e] = field[e].text]
      /\ at' = [at EXCEPT ![e] = [name |-> "own", chars |-> "own"]]
  BY DEF Text2Load
<1>2. e \in Ent /\ kind[e] = "text2" /\ todo \in Text2Steps
  BY <1>1, CalledAt DEF FontsInv, Kind
<1>L. PICK n \in Name2, c \in Chars2, f \in Addr:
       /\ Loaded(LeftRef, LineFont(n, c), f)
       /\ font' = [font EXCEPT ![who] = f]
       /\ field' = [field EXCEPT ![who].name = n, ![who].chars = c]
  BY Zenon DEF Text2Load
<1>3. /\ Loaded(LeftRef, LineFont(n, c), f)
      /\ font' = [font EXCEPT ![e] = f]
      /\ field' = [field EXCEPT ![e].name = n, ![e].chars = c]
  BY <1>L, Zenon
<1>4. CacheInv /\ TexTyped /\ TexturesShown /\ FieldsTyped
  BY DEF FontsInv
<1>5. field[e] \in Field /\ ref \in [Addr -> Nat] /\ f # NONE /\ valid \in [Ent -> BOOLEAN]
  BY <1>2, <1>4, FontsAssumption DEF FieldsTyped, CacheInv, FontsTyped
<1>6. valid' \in [Ent -> BOOLEAN] /\ kind' \in [Ent -> Kind \cup {NONE}] /\ font'[e] = f /\ valid'[e] = field[e].text
      /\ \A g \in Ent \ {e}: kind'[g] = kind[g] /\ valid'[g] = valid[g]
  <2>1. field[e].text \in BOOLEAN
    BY <1>5 DEF Field
  <2> QED
    BY <1>1, <1>2, <1>3, <1>4, <1>5, <2>1 DEF CacheInv, FontsTyped
<1>7. game.tidy => field[e].text
  <2>1. todo \notin Unsets
    BY <1>2, PlansApart
  <2> QED
    BY <1>2, <2>1 DEF FontsInv, TextsThere, TextThere
<1>8. n \in FontName \cup {JUNK} /\ c \in Chars \cup {JUNK}
  <2>1. Left2.name \in {field[e].name, JUNK} /\ Left2.chars \in {field[e].chars, JUNK}
    BY <1>5 DEF Left2, Field
  <2>2. field[e].name \in FontName \cup {JUNK} /\ field[e].chars \in Chars \cup {JUNK}
    BY <1>1, <1>5 DEF Text2Named, Field
  <2>3. Left2.name \in FontName \cup {JUNK} /\ Left2.chars \in Chars \cup {JUNK}
    BY <2>1, <2>2
  <2> QED
    BY <2>3 DEF Name2, Chars2, Read
<1>9. LineFont(n, c).kind = "text2" /\ (LineFont(n, c).name \in FontName => LineFont(n, c) \in Keys)
  BY <1>8 DEF LineFont, Keys
<1>10. LeftRef \in [Addr -> Nat] /\ \A g \in Addr: LeftRef[g] = Rest(e, g)
  <2>1. LeftRef = [g \in Addr |-> Rest(e, g)]
    BY DEF LeftRef, HeldFont, Rest, Held
  <2>2. \A g \in Addr: Rest(e, g) \in Nat
    BY <1>2, <1>4, RestCounts
  <2> QED
    BY <2>1, <2>2
<1>11. Moves(e, f) /\ key'[f] = LineFont(n, c)
  BY <1>1, <1>2, <1>3, <1>4, <1>9, <1>10, LoadMoves
<1>12. Pointed(e)'
  BY <1>1, <1>2, <1>5, <1>6, <1>7, <1>9, <1>11 DEF Pointed, Kind
<1>13. CacheInv'
  BY <1>2, <1>4, <1>6, <1>11, <1>12, MovesKeeps
<1>14. TexTyped' /\ TexturesShown'
  <2>1. ~tex[e]
    BY <1>2, <1>4 DEF TexturesShown
  <2> QED
    BY <1>1, <1>2, <1>4, <1>6, <2>1, TexStays
<1>15. /\ field' \in [Ent -> Field] /\ (\A g \in Ent: field'[g].text = field[g].text)
       /\ at' \in [Ent -> [{"name", "chars"} -> {"data", "lua", "own"}]]
  <2> DEFINE r == [field[e] EXCEPT !.name = n, !.chars = c]
  <2>1. r \in Field /\ r.text = field[e].text
    BY <1>5, <1>8 DEF Field
  <2>2. field' = [field EXCEPT ![e] = r]
    BY <1>3
  <2> HIDE DEF r
  <2> QED
    BY <1>1, <1>2, <1>4, <2>1, <2>2, Fielded DEF FieldsTyped
<1>16. FieldsTyped' /\ ToDo' /\ TextsThere'
  BY <1>1, <1>2, <1>4, <1>15, Goes DEF FontsInv, FieldsTyped, Continue, Kind
<1> QED
  BY <1>13, <1>14, <1>16 DEF FontsInv

LEMMA Text2FailedKeeps ==
  ASSUME FontsInv, Text2Failed, NEW e, e = who
  PROVE  FontsInv'
<1>1. Called("font", "text2") /\ Continue /\ UNCHANGED <<tex, textures, kind, game>>
      /\ font' = [font EXCEPT ![e] = IF valid[e] THEN NONE ELSE @]
      /\ valid' = [valid EXCEPT ![e] = FALSE]
      /\ field' = [field EXCEPT ![e].name = IF Unkept("name") THEN JUNK ELSE @,
                                ![e].chars = IF Unkept("chars") THEN JUNK ELSE @]
      /\ at' = [at EXCEPT ![e] = [s \in {"name", "chars"} |-> IF Unkept(s) THEN "data" ELSE @[s]]]
  BY DEF Text2Failed
<1>2. e \in Ent /\ kind[e] = "text2"
  BY <1>1, CalledAt DEF FontsInv, Kind
<1>3. ref' = LeftRef /\ key' = [f \in Addr |-> IF LeftRef[f] = 0 THEN NoKey ELSE key[f]]
  BY DEF Text2Failed, NotLoaded
<1>4. CacheInv /\ TexTyped /\ TexturesShown /\ FieldsTyped
  BY DEF FontsInv
<1>5. field[e] \in Field /\ ref \in [Addr -> Nat] /\ valid \in [Ent -> BOOLEAN] /\ font \in [Ent -> Addr \cup {NONE}]
      /\ key \in [Addr -> Keys \cup {NoKey}] /\ KeysListed /\ Pointed(e)
      /\ at \in [Ent -> [{"name", "chars"} -> {"data", "lua", "own"}]]
  BY <1>2, <1>4 DEF FieldsTyped, CacheInv, FontsTyped
<1>6. valid' \in [Ent -> BOOLEAN] /\ kind' \in [Ent -> Kind \cup {NONE}] /\ valid'[e] = FALSE
      /\ \A g \in Ent \ {e}: kind'[g] = kind[g] /\ valid'[g] = valid[g]
  BY <1>1, <1>2, <1>4, <1>5 DEF CacheInv, FontsTyped
<1>7. \A g \in Addr: Rest(e, g) \in Nat /\ LeftRef[g] = Rest(e, g)
  BY <1>2, <1>4, RestCounts DEF LeftRef, HeldFont, Rest, Held
<1>8. CacheInv'
  <2>1. CASE valid[e]
    <3>1. font' = [font EXCEPT ![e] = NONE]
      BY <1>1, <2>1
    <3>2. ref' \in [Addr -> Int] /\ \A g \in Addr: ref'[g] = Rest(e, g)
      BY <1>3, <1>7 DEF LeftRef
    <3>3. key' \in [Addr -> Keys \cup {NoKey}]
      BY <1>3, <1>5
    <3>4. ASSUME NEW g \in Addr
          PROVE  (key'[g] = key[g] \/ Rest(e, g) = 0) /\ (key'[g] = NoKey <=> ref'[g] = 0)
      BY <1>3, <1>5, <1>7, <3>2 DEF KeysListed, Rest
    <3>5. \A g \in Addr: g # NONE
      BY FontsAssumption
    <3>8. \A g \in Addr: ref'[g] = Rest(e, g) + (IF g = NONE THEN 1 ELSE 0)
      BY <1>7, <3>2, <3>5
    <3>9. game' = game
      BY <1>1
    <3>6. Moves(e, NONE)
      BY <3>1, <3>2, <3>3, <3>4, <3>8, <3>9 DEF Moves
    <3>7. Pointed(e)'
      BY <1>2, <1>5, <1>6, <3>1 DEF Pointed
    <3> QED
      BY <1>2, <1>4, <1>6, <3>6, <3>7, MovesKeeps
  <2>2. CASE ~valid[e]
    <3>1. LeftRef = ref
      BY <1>5, <2>2 DEF LeftRef, HeldFont
    <3>2. key' = key
      BY <1>3, <1>5, <3>1 DEF KeysListed
    <3>3. font' = font
      BY <1>1, <1>5, <2>2
    <3>4. Pointed(e)'
      BY <1>1, <1>5, <1>6, <2>2, <3>2, <3>3 DEF Pointed
    <3> QED
      BY <1>1, <1>2, <1>3, <1>4, <1>6, <3>1, <3>2, <3>3, <3>4, CacheStays
  <2> QED
    BY <2>1, <2>2
<1>9. TexTyped' /\ TexturesShown'
  <2>1. ~tex[e]
    BY <1>2, <1>4 DEF TexturesShown
  <2> QED
    BY <1>1, <1>2, <1>4, <1>6, <2>1, TexStays
<1>10. field' \in [Ent -> Field] /\ (\A g \in Ent: field'[g].text = field[g].text)
  <2> DEFINE r == [field[e] EXCEPT !.name = IF Unkept("name") THEN JUNK ELSE @,
                                   !.chars = IF Unkept("chars") THEN JUNK ELSE @]
  <2>1. r \in Field /\ r.text = field[e].text
    BY <1>5 DEF Field
  <2>2. field' = [field EXCEPT ![e] = r]
    BY <1>1
  <2> HIDE DEF r
  <2> QED
    BY <1>2, <1>4, <2>1, <2>2, Fielded DEF FieldsTyped
<1>11. at' \in [Ent -> [{"name", "chars"} -> {"data", "lua", "own"}]]
  <2>1. [s \in {"name", "chars"} |-> IF Unkept(s) THEN "data" ELSE at[e][s]] \in [{"name", "chars"} -> {"data", "lua", "own"}]
    BY <1>2, <1>5
  <2>2. at' = [at EXCEPT ![e] = [s \in {"name", "chars"} |-> IF Unkept(s) THEN "data" ELSE at[e][s]]]
    BY <1>1
  <2> QED
    BY <1>5, <2>1, <2>2
<1>12. FieldsTyped' /\ ToDo' /\ TextsThere'
  BY <1>1, <1>2, <1>4, <1>10, <1>11, Goes DEF FontsInv, FieldsTyped, Continue, Kind
<1> QED
  BY <1>8, <1>9, <1>12 DEF FontsInv

LEMMA UnsetKeeps ==
  ASSUME FontsInv, Unset, NEW e, e = who
  PROVE  FontsInv'
<1>1. todo # <<>> /\ Head(todo) = "unset" /\ Blanked(e) /\ Continue /\ UNCHANGED <<field, at, game>>
      /\ kind' = [kind EXCEPT ![e] = NONE] /\ (IF valid[e] THEN Unlisted(font[e]) ELSE UNCHANGED <<ref, key>>)
  BY DEF Unset, Idle
<1>2. todo \in Unsets /\ e \in Ent
  <2>1. todo \notin TextSteps /\ todo \notin Text2Steps /\ todo \notin Pluggings
        /\ todo \notin {<<>>, <<"return">>, <<"aborted">>}
    BY <1>1, Heads DEF Kind
  <2> QED
    BY <1>1, <2>1 DEF FontsInv, ToDo
<1>3. /\ font' = [font EXCEPT ![e] = NONE] /\ valid' = [valid EXCEPT ![e] = FALSE]
      /\ tex' = [tex EXCEPT ![e] = FALSE] /\ textures' = textures - (IF tex[e] THEN 1 ELSE 0)
  BY <1>1 DEF Blanked
<1>4. CacheInv /\ TexTyped /\ TexturesShown /\ FieldsTyped
  BY DEF FontsInv
<1>5. valid' \in [Ent -> BOOLEAN] /\ kind' \in [Ent -> Kind \cup {NONE}]
      /\ font'[e] = NONE /\ valid'[e] = FALSE /\ kind'[e] = NONE
      /\ \A g \in Ent \ {e}: kind'[g] = kind[g] /\ valid'[g] = valid[g]
  BY <1>1, <1>2, <1>3, <1>4 DEF CacheInv, FontsTyped
<1>6. Moves(e, NONE)
  BY <1>1, <1>2, <1>3, <1>4, Unlists
<1>7. Pointed(e)'
  BY <1>5 DEF Pointed
<1>8. CacheInv'
  BY <1>2, <1>4, <1>5, <1>6, <1>7, MovesKeeps
<1>9. TexTyped' /\ TexturesShown'
  <2>1. textures' = textures - (IF tex[e] THEN 1 ELSE 0) + 0
    BY <1>3, <1>4 DEF TexTyped
  <2> QED
    BY <1>2, <1>3, <1>4, <1>5, <2>1, TexMoves
<1>10. todo' = Tail(todo) /\ who' = who
  BY <1>1 DEF Continue
<1>11. todo' = <<"return">> \/ (todo' \in Pluggings /\ (todo' = <<"text2", "return">> => todo = <<"unset", "text2", "return">>))
  <2>1. CASE todo = <<"unset", "return">>
    BY <1>10, <2>1, Tails
  <2>2. CASE todo = <<"unset", "text", "return">>
    <3>1. todo' = <<"text", "return">>
      BY <1>10, <2>2, Tails
    <3>2. todo' # <<"text2", "return">>
      BY <3>1, Heads
    <3> QED
      BY <3>1, <3>2 DEF Pluggings
  <2>3. CASE todo = <<"unset", "text2", "return">>
    BY <1>10, <2>3, Tails DEF Pluggings
  <2> QED
    BY <1>2, <2>1, <2>2, <2>3 DEF Unsets
<1>12. ToDo'
  BY <1>2, <1>5, <1>10, <1>11 DEF ToDo
<1>13. TextsThere'
  <2>1. ASSUME NEW g \in Ent PROVE TextThere(g)'
    BY <1>1, <1>5, <1>10, <2>1, FontsAssumption DEF FontsInv, TextsThere, TextThere
  <2>2. <<"return">> # <<"text2", "return">> /\ <<"return">> # <<"unset", "text2", "return">>
    BY Heads
  <2>3. todo' # <<"unset", "text2", "return">>
    <3>1. Head(<<"unset", "text2", "return">>) = "unset"
      OBVIOUS
    <3>2. todo' = <<"return">> \/ Head(todo') \in Kind
      BY <1>11, Heads
    <3> QED
      BY <2>2, <3>1, <3>2 DEF Kind
  <2>4. TextComes'
    BY <1>1, <1>10, <1>11, <2>2, <2>3 DEF FontsInv, TextsThere, TextComes
  <2> QED
    BY <2>1, <2>4 DEF TextsThere
<1>14. FieldsTyped'
  BY <1>1, <1>10 DEF FontsInv, FieldsTyped
<1> QED
  BY <1>8, <1>9, <1>12, <1>13, <1>14 DEF FontsInv

LEMMA PluggedKeeps ==
  ASSUME FontsInv, Plugged, NEW e, e = who
  PROVE  FontsInv'
<1> DEFINE k == Head(todo)
<1>1. todo # <<>> /\ k \in Kind /\ kind' = [kind EXCEPT ![e] = k] /\ who' = who
      /\ todo' = Callbacks(k) \o Tail(todo) /\ UNCHANGED <<cached, rendered, field, at, game>>
  BY DEF Plugged, Idle
<1>2. todo \in Pluggings /\ e \in Ent /\ kind[e] = NONE
  <2>1. todo \notin TextSteps /\ todo \notin Text2Steps /\ todo \notin Unsets
        /\ todo \notin {<<>>, <<"return">>, <<"aborted">>}
    BY <1>1, Heads DEF Kind
  <2> QED
    BY <1>1, <2>1 DEF FontsInv, ToDo
<1>3. todo = <<k, "return">> /\ Tail(todo) = <<"return">>
  BY <1>2, Heads, Tails DEF Pluggings
<1> HIDE DEF k
<1>4. CacheInv /\ TexTyped /\ TexturesShown /\ FieldsTyped
  BY DEF FontsInv
<1>5. font[e] = NONE /\ ~valid[e] /\ ~tex[e]
  BY <1>2, <1>4, FontsAssumption DEF CacheInv, Pointed, TexturesShown, Kind
<1>6. kind' \in [Ent -> Kind \cup {NONE}] /\ kind'[e] = k /\ \A g \in Ent \ {e}: kind'[g] = kind[g]
  BY <1>1, <1>2, <1>4 DEF CacheInv, FontsTyped
<1>7. valid' = valid /\ valid \in [Ent -> BOOLEAN]
  BY <1>1, <1>4 DEF CacheInv, FontsTyped
<1>8. Pointed(e)'
  BY <1>1, <1>5 DEF Pointed
<1>9. CacheInv'
  BY <1>1, <1>2, <1>4, <1>6, <1>7, <1>8, CacheStays
<1>10. TexTyped' /\ TexturesShown'
  BY <1>1, <1>2, <1>4, <1>5, <1>6, <1>7, TexStays
<1>11. todo' = IF k = "text" THEN <<"font", "font", "redraw", "return">>
               ELSE <<"align", "font", "font", "align", "return">>
  <2>1. CASE k = "text"
    <3>1. todo' = <<"font", "font", "redraw">> \o <<"return">>
      BY <1>1, <1>3, <2>1 DEF Callbacks
    <3> QED
      BY <2>1, <3>1, AllSteps, Zenon
  <2>2. CASE k # "text"
    <3>1. todo' = <<"align", "font", "font", "align">> \o <<"return">>
      BY <1>1, <1>3, <2>2 DEF Callbacks
    <3> QED
      BY <2>2, <3>1, AllSteps, Zenon
  <2> QED
    BY <2>1, <2>2
<1>12. (k = "text" => todo' \in TextSteps) /\ (k = "text2" => todo' \in Text2Steps)
  BY <1>11 DEF TextSteps, Text2Steps
<1>13. ToDo'
  BY <1>1, <1>2, <1>6, <1>12 DEF ToDo, Kind
<1>14. TextsThere'
  <2>1. todo' \notin {<<"unset", "text2", "return">>, <<"text2", "return">>}
    BY <1>1, <1>12, PlansApart DEF Kind
  <2>2. k = "text2" => todo = <<"text2", "return">>
    BY <1>3
  <2>3. ASSUME NEW g \in Ent PROVE TextThere(g)'
    <3>1. CASE g = e
      BY <1>1, <1>6, <2>2, <3>1 DEF FontsInv, TextsThere, TextComes, TextThere
    <3>2. CASE g # e
      BY <1>1, <1>6, <3>2 DEF FontsInv, TextsThere, TextThere
    <3> QED
      BY <3>1, <3>2
  <2> QED
    BY <2>1, <2>3 DEF TextsThere, TextComes
<1>15. FieldsTyped'
  BY <1>1 DEF FontsInv, FieldsTyped
<1> QED
  BY <1>9, <1>10, <1>13, <1>14, <1>15 DEF FontsInv

LEMMA FontsStart == FontsInit => FontsInv
<1> SUFFICES ASSUME FontsInit PROVE FontsInv
  OBVIOUS
<1>1. FontsTyped /\ KeysListed /\ \A e \in Ent: Pointed(e)
  BY FontsAssumption DEF FontsInit, FontsTyped, KeysListed, Pointed
<1>2. ASSUME NEW f \in Addr PROVE Counts(f)
  <2>1. f # NONE
    BY FontsAssumption
  <2>2. Of(f) = {}
    BY <2>1 DEF FontsInit, Of
  <2>3. Cardinality(Of(f)) = 0
    BY <2>2, FS_EmptySet
  <2> QED
    BY <2>3 DEF FontsInit, Counts
<1>3. TexTyped /\ TexturesShown
  <2>1. {e \in Ent: tex[e]} = {}
    BY DEF FontsInit
  <2>2. Cardinality({e \in Ent: tex[e]}) = 0
    BY <2>1, FS_EmptySet
  <2> QED
    BY <2>2 DEF FontsInit, TexTyped, TexturesShown
<1>4. Blank \in Field
  BY DEF Blank, Field
<1>5. FieldsTyped
  BY <1>4 DEF FontsInit, FieldsTyped
<1>6. ToDo
  BY DEF FontsInit, ToDo
<1>7. TextsThere
  <2>1. todo \notin {<<"unset", "text2", "return">>, <<"text2", "return">>}
    BY PlansApart DEF FontsInit
  <2> QED
    BY <2>1, FontsAssumption DEF FontsInit, TextsThere, TextThere, TextComes
<1> QED
  BY <1>1, <1>2, <1>3, <1>5, <1>6, <1>7 DEF FontsInv, CacheInv

LEMMA FontsKeep == FontsInv /\ [FontsNext]_fontsVars => FontsInv'
<1> SUFFICES ASSUME FontsInv, [FontsNext]_fontsVars PROVE FontsInv'
  OBVIOUS
<1>1. game.kinds \subseteq Kind
  BY FontsAssumption DEF FontsInv, FieldsTyped, Kind
<1>2. ASSUME NEW e \in Ent, Call(e) PROVE FontsInv'
  <2>1. ASSUME NEW k \in game.kinds \cup {NONE}, SetRender(e, k) PROVE FontsInv'
    BY <1>1, <2>1, RenderKeeps
  <2>2. CASE Free(e)
    BY <2>2, FreeKeeps
  <2> QED
    BY <1>2, <2>1, <2>2, SetKeeps DEF Call
<1>3. CASE TextUnload
  BY <1>3, TextUnloadKeeps
<1>4. CASE TextNothing
  BY <1>4, NothingKeeps
<1>5. CASE TextLoad
  BY <1>5, TextLoadKeeps
<1>6. CASE TextMissing
  BY <1>6, NothingKeeps
<1>7. CASE TextBroken
  <2>1. todo' = <<"aborted">> /\ UNCHANGED <<cached, rendered, kind, field, at, who, game>>
        /\ Called("font", "text")
    BY <1>7 DEF TextBroken
  <2>2. who \in Ent /\ todo \in TextSteps
    BY <2>1, CalledAt DEF FontsInv, Kind
  <2>3. ToDo' /\ FieldsTyped'
    BY <2>1, <2>2 DEF ToDo, FontsInv, FieldsTyped
  <2>4. todo \notin Unsets /\ todo' \notin {<<"unset", "text2", "return">>, <<"text2", "return">>}
    BY <2>1, <2>2, PlansApart
  <2>5. TextsThere'
    BY <2>1, <2>4 DEF FontsInv, TextsThere, TextThere, TextComes
  <2> QED
    BY <2>1, <2>2, <2>3, <2>5, CallKeeps
<1>8. CASE Redraw
  BY <1>8, RedrawKeeps
<1>9. CASE Align
  BY <1>9, AlignKeeps
<1>10. CASE Text2Load
  BY <1>10, Text2LoadKeeps
<1>11. CASE Text2Failed
  BY <1>11, Text2FailedKeeps
<1>12. CASE Unset
  BY <1>12, UnsetKeeps
<1>13. CASE Plugged
  BY <1>13, PluggedKeeps
<1>14. CASE Return
  BY <1>14, ReturnKeeps
<1>15. CASE FontsAborted \/ UNCHANGED fontsVars
  <2>1. UNCHANGED <<ref, key, valid, font, tex, textures, kind, field, at, todo, who, game>>
    BY <1>15 DEF FontsAborted, fontsVars
  <2>2. FontsTyped' /\ KeysListed' /\ \A e \in Ent: Pointed(e)'
    BY <2>1 DEF FontsInv, CacheInv, FontsTyped, KeysListed, Pointed
  <2>3. ASSUME NEW f \in Addr PROVE Counts(f)'
    <3>1. Of(f)' = Of(f) /\ Counts(f)
      BY <2>1 DEF Of, FontsInv, CacheInv
    <3> QED
      BY <2>1, <3>1 DEF Counts
  <2>4. TexTyped' /\ TexturesShown' /\ FieldsTyped' /\ ToDo' /\ TextsThere'
    BY <2>1 DEF FontsInv, TexTyped, TexturesShown, FieldsTyped, ToDo, TextsThere, TextThere, TextComes
  <2> QED
    BY <2>2, <2>3, <2>4 DEF FontsInv, CacheInv
<1> QED
  BY <1>2, <1>3, <1>4, <1>5, <1>6, <1>7, <1>8, <1>9, <1>10, <1>11, <1>12, <1>13, <1>14, <1>15 DEF FontsNext

(* Whatever is left to do is a list of steps.                              *)
LEMMA PlansListed ==
  TextSteps \cup Text2Steps \cup Pluggings \cup Unsets \cup {<<>>, <<"return">>, <<"aborted">>}
    \subseteq Seq({"font", "redraw", "align", "unset", "return", "aborted"} \cup Kind)
<1> DEFINE S == {"font", "redraw", "align", "unset", "return", "aborted"} \cup Kind
<1>1. /\ "font" \in S /\ "redraw" \in S /\ "align" \in S /\ "unset" \in S /\ "return" \in S
      /\ "aborted" \in S /\ "text" \in S /\ "text2" \in S
  BY DEF Kind
<1> HIDE DEF S
<1>2. <<>> \in Seq(S) /\ (\A a \in S: <<a>> \in Seq(S)) /\ (\A a, b \in S: <<a, b>> \in Seq(S))
  OBVIOUS
<1>3. \A a, b, c \in S: <<a, b, c>> \in Seq(S)
  OBVIOUS
<1>4. \A a, b, c, d \in S: <<a, b, c, d>> \in Seq(S)
  OBVIOUS
<1>5. \A a, b, c, d, e \in S: <<a, b, c, d, e>> \in Seq(S)
  OBVIOUS
<1>6. {<<>>, <<"return">>, <<"aborted">>} \subseteq Seq(S)
  BY <1>1, <1>2
<1>7. TextSteps \subseteq Seq(S)
  BY <1>1, <1>2, <1>3, <1>4 DEF TextSteps
<1>8. Text2Steps \subseteq Seq(S)
  BY <1>1, <1>2, <1>3, <1>4, <1>5 DEF Text2Steps
<1>9. Pluggings \subseteq Seq(S) /\ Unsets \subseteq Seq(S)
  BY <1>1, <1>2, <1>3 DEF Pluggings, Unsets
<1> QED
  BY <1>6, <1>7, <1>8, <1>9 DEF S

(* FontsKept: text is drawn from a font that is listed and of its kind;    *)
(* fonts and textures have exactly the owners there are, but for line      *)
(* fonts of game code that gives a text late or takes it away              *)
(* (text_set_font_callback, text2_set_font_callback, r_font_unload).       *)
THEOREM FontsStayKept == FontsSpec => []FontsKept
<1>1. FontsInv => FontsKept
  <2> SUFFICES ASSUME FontsInv PROVE FontsKept
    OBVIOUS
  <2>1. CacheInv /\ TexTyped /\ TexturesShown /\ FieldsTyped /\ ToDo
    BY DEF FontsInv
  <2>2. todo \in Seq({"font", "redraw", "align", "unset", "return", "aborted"} \cup Kind)
    BY <2>1, PlansListed DEF ToDo
  <2>3. FontsType
    BY <2>1, <2>2 DEF FontsType, CacheInv, FontsTyped, TexTyped, FieldsTyped
  <2>4. ASSUME NEW f \in Addr PROVE Holders(f) = Of(f)
    BY <2>1, FontsAssumption DEF CacheInv, Pointed, Holders, Of, Kind
  <2>5. ReferencesHeld
    BY <2>1, <2>4 DEF CacheInv, Counts, ReferencesHeld
  <2>6. ASSUME Idle, NEW e \in Ent, valid[e]
        PROVE  /\ kind[e] # NONE /\ font[e] # NONE
               /\ ref[font[e]] > 0 /\ key[font[e]].kind = kind[e]
               /\ game.tidy /\ kind[e] = "text2" => field[e].text
    <3>1. font[e] # NONE /\ kind[e] \in Kind /\ key[font[e]].kind = kind[e] /\ font[e] \in Addr
      BY <2>1, <2>6 DEF CacheInv, Pointed, FontsTyped
    <3>2. e \in Of(font[e]) /\ IsFiniteSet(Of(font[e])) /\ Cardinality(Of(font[e])) \in Nat
      BY OfFinite DEF Of
    <3>3. Cardinality(Of(font[e])) # 0
      BY <3>2, FS_EmptySet
    <3>4. ref[font[e]] > 0
      BY <2>1, <3>1, <3>2, <3>3 DEF CacheInv, Counts, FontsTyped
    <3>5. todo \notin Unsets
      BY <2>6, PlansApart DEF Idle
    <3> QED
      BY <3>1, <3>4, <3>5, FontsAssumption DEF FontsInv, TextsThere, TextThere, Kind
  <2> QED
    BY <2>1, <2>3, <2>5, <2>6 DEF FontsKept, FontsOwned, DrawsLoaded
<1> QED
  BY <1>1, FontsStart, FontsKeep, PTL DEF FontsSpec
=============================================================================
