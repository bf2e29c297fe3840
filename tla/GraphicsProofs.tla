--------------------------- MODULE GraphicsProofs ---------------------------
(* Proofs about what entities show.  References to sprites and textures    *)
(* are exact, for any entities, sprites and textures, through every load   *)
(* that fails and every name that is misread; fades, lines and circles     *)
(* stay as they are told, for any speeds, lengths, clocks and textures; a  *)
(* frame shows each entity's own picture, colour and rectangle, for any    *)
(* entities in any order and any names of textures; a texture shows its    *)
(* whole picture, a character its own part of one, and a field what it was *)
(* given, for pictures of any sizes, any fonts and any tables of fields.   *)
EXTENDS MCGraphics, FiniteSetTheorems, SequenceTheorems, TLAPS

-----------------------------------------------------------------------------
(* The sprites: the inductive invariant (Sprites).                         *)

(* The struct in the loops is not listed, and the counter is inside it.    *)
Loop ==
  /\ Working => spr \in Slot /\ sref[spr] = 0
  /\ ~Working => spr = NONE
  /\ step = "drop" => i \in 1 .. Len(sframes[spr]) + 1
  /\ step \in {"frames", "unwind"} => i \in 0 .. Len(sframes[spr])
  /\ \A s \in Slot: Len(sframes[s]) <= MaxFrames

(* Who is operated on, and what has been done to that entity.              *)
Operation ==
  /\ who = NONE <=> step = "idle"
  /\ who \in Ent => life[who] # "none"
  /\ step \in {"drop", "after", "frames", "unwind"} => ~valid[who]
  /\ step \in {"frames", "unwind"} => then = "name"
  /\ step \in {"drop", "after"} /\ then = "name" => plug[who]
  /\ step \in {"callback", "frames", "unwind"} => plug[who]
  /\ \A e \in Ent: valid[e] => plug[e] /\ shows[e] \in Slot
  /\ \A e \in Ent: plug[e] => life[e] # "none"

(* While a sprite is being loaded no other has the name it will have.      *)
NewName == step = "frames" => \A n \in Reads(who) \ {JUNK}: n # NONE /\ Find(n) = {}

IInv == SpritesType /\ Loop /\ Operation /\ TextureRefs /\ SpriteRefs /\ NewName /\ NamesUnique

-----------------------------------------------------------------------------
(* Counting.                                                               *)

USE DEF cache, render, task, struct, history, Working, Owner

LEMMA UsesFinite ==
  ASSUME NEW t
  PROVE  IsFiniteSet(Uses(t)) /\ Cardinality(Uses(t)) \in Nat
<1>1. IsFiniteSet(1 .. MaxFrames)
  BY FramesAssumption, FS_Interval
<1>2. IsFiniteSet(Slot \X (1 .. MaxFrames))
  BY <1>1, FiniteAssumption, FS_Product
<1>3. Uses(t) \in SUBSET (Slot \X (1 .. MaxFrames))
  BY DEF Uses, Taken
<1>4. IsFiniteSet(Uses(t))
  BY <1>2, <1>3, FS_Subset
<1> QED
  BY <1>4, FS_CardinalityType

LEMMA ShownFinite ==
  ASSUME NEW s
  PROVE  IsFiniteSet(Shown(s)) /\ Cardinality(Shown(s)) \in Nat
<1>1. Shown(s) \in SUBSET Ent
  BY DEF Shown
<1>2. IsFiniteSet(Shown(s))
  BY <1>1, FiniteAssumption, FS_Subset
<1> QED
  BY <1>2, FS_CardinalityType

(* A step that takes one frame's reference.                                *)
LEMMA TakeCounts ==
  ASSUME TextureRefs, SpritesType, NEW f \in Slot \X (1 .. MaxFrames), f \notin Taken,
         Taken' = Taken \cup {f}, sframes' = sframes,
         sframes[f[1]][f[2]] \in Tex, Take(sframes[f[1]][f[2]])
  PROVE  TextureRefs'
<1> DEFINE u == sframes[f[1]][f[2]]
<1>1. ASSUME NEW t \in Tex PROVE refs'[t] = Cardinality(Uses(t)')
  <2>1. refs[t] = Cardinality(Uses(t)) /\ refs[t] \in Nat
    BY DEF TextureRefs, SpritesType
  <2>2. IsFiniteSet(Uses(t))
    BY UsesFinite
  <2>3. CASE t = u
    <3>1. Uses(t)' = Uses(t) \cup {f}
      BY <2>3 DEF Uses
    <3>2. f \notin Uses(t)
      BY DEF Uses
    <3>3. Cardinality(Uses(t) \cup {f}) = Cardinality(Uses(t)) + 1
      BY <2>2, <3>2, FS_AddElement
    <3> QED
      BY <2>1, <2>3, <3>1, <3>3 DEF Take, SpritesType
  <2>4. CASE t # u
    <3>1. Uses(t)' = Uses(t)
      BY <2>4 DEF Uses
    <3> QED
      BY <2>1, <2>4, <3>1 DEF Take, SpritesType
  <2> QED
    BY <2>3, <2>4
<1> QED
  BY <1>1 DEF TextureRefs

(* A step that drops one.                                                  *)
LEMMA DropCounts ==
  ASSUME TextureRefs, SpritesType, NEW f \in Taken,
         Taken' = Taken \ {f}, sframes' = sframes,
         sframes[f[1]][f[2]] \in Tex, Drop(sframes[f[1]][f[2]])
  PROVE  TextureRefs' /\ refs' \in [Tex -> Nat]
<1> DEFINE u == sframes[f[1]][f[2]]
<1>1. ASSUME NEW t \in Tex PROVE refs'[t] = Cardinality(Uses(t)') /\ refs'[t] \in Nat
  <2>1. refs[t] = Cardinality(Uses(t)) /\ refs[t] \in Nat
    BY DEF TextureRefs, SpritesType
  <2>2. IsFiniteSet(Uses(t))
    BY UsesFinite
  <2>3. CASE t = u
    <3>1. Uses(t)' = Uses(t) \ {f}
      BY <2>3 DEF Uses
    <3>2. f \in Uses(t)
      BY <2>3 DEF Uses
    <3>3. IsFiniteSet(Uses(t) \ {f}) /\ Cardinality(Uses(t) \ {f}) = Cardinality(Uses(t)) - 1
      BY <2>2, <3>2, FS_RemoveElement
    <3>4. Cardinality(Uses(t) \ {f}) \in Nat
      BY <3>3, FS_CardinalityType
    <3> QED
      BY <2>1, <2>3, <3>1, <3>3, <3>4 DEF Drop, SpritesType
  <2>4. CASE t # u
    <3>1. Uses(t)' = Uses(t)
      BY <2>4 DEF Uses
    <3> QED
      BY <2>1, <2>4, <3>1 DEF Drop, SpritesType
  <2> QED
    BY <2>3, <2>4
<1>2. refs' = [t \in Tex |-> refs'[t]]
  BY DEF Drop, SpritesType
<1> QED
  BY <1>1, <1>2 DEF TextureRefs

(* A step that hands references over, or does not touch them.              *)
LEMMA SameCounts ==
  ASSUME TextureRefs, refs' = refs, Taken' = Taken,
         \A f \in Taken: sframes'[f[1]][f[2]] = sframes[f[1]][f[2]]
  PROVE  TextureRefs'
<1>1. \A t \in Tex: Uses(t)' = Uses(t)
  BY DEF Uses
<1> QED
  BY <1>1 DEF TextureRefs

(* One entity more, or one less, that shows a sprite.                      *)
LEMMA ShowCounts ==
  ASSUME SpriteRefs, SpritesType, NEW e \in Ent, ~valid[e], NEW s \in Slot,
         valid' = [valid EXCEPT ![e] = TRUE], shows' = [shows EXCEPT ![e] = s],
         sref' = [sref EXCEPT ![s] = sref[s] + 1]
  PROVE  SpriteRefs'
<1>1. ASSUME NEW u \in Slot PROVE sref'[u] = Cardinality(Shown(u)')
  <2>1. sref[u] = Cardinality(Shown(u)) /\ IsFiniteSet(Shown(u))
    BY ShownFinite DEF SpriteRefs
  <2>2. CASE u = s
    <3>1. Shown(u)' = Shown(u) \cup {e} /\ e \notin Shown(u)
      BY <2>2 DEF Shown, SpritesType
    <3>2. Cardinality(Shown(u) \cup {e}) = Cardinality(Shown(u)) + 1
      BY <2>1, <3>1, FS_AddElement
    <3> QED
      BY <2>1, <2>2, <3>1, <3>2 DEF SpritesType
  <2>3. CASE u # s
    <3>1. Shown(u)' = Shown(u)
      BY <2>3 DEF Shown, SpritesType
    <3> QED
      BY <2>1, <2>3, <3>1 DEF SpritesType
  <2> QED
    BY <2>2, <2>3
<1> QED
  BY <1>1 DEF SpriteRefs

LEMMA UnshowCounts ==
  ASSUME SpriteRefs, SpritesType, NEW e \in Ent, valid[e], NEW s \in Slot, s = shows[e],
         valid' = [valid EXCEPT ![e] = FALSE], shows' = [shows EXCEPT ![e] = NONE],
         sref' = [sref EXCEPT ![s] = sref[s] - 1]
  PROVE  SpriteRefs' /\ sref' \in [Slot -> Nat] /\ sref[s] > 0
<1>1. ASSUME NEW u \in Slot PROVE sref'[u] = Cardinality(Shown(u)') /\ sref'[u] \in Nat
  <2>1. sref[u] = Cardinality(Shown(u)) /\ IsFiniteSet(Shown(u))
    BY ShownFinite DEF SpriteRefs
  <2>2. CASE u = s
    <3>1. Shown(u)' = Shown(u) \ {e} /\ e \in Shown(u)
      BY <2>2 DEF Shown, SpritesType
    <3>2. /\ IsFiniteSet(Shown(u) \ {e})
          /\ Cardinality(Shown(u) \ {e}) = Cardinality(Shown(u)) - 1
      BY <2>1, <3>1, FS_RemoveElement
    <3>3. Cardinality(Shown(u) \ {e}) \in Nat
      BY <3>2, FS_CardinalityType
    <3> QED
      BY <2>1, <2>2, <3>1, <3>2, <3>3 DEF SpritesType
  <2>3. CASE u # s
    <3>1. Shown(u)' = Shown(u)
      BY <2>3 DEF Shown, SpritesType
    <3> QED
      BY <2>1, <2>3, <3>1 DEF SpritesType
  <2> QED
    BY <2>2, <2>3
<1>2. sref' = [u \in Slot |-> sref'[u]]
  BY DEF SpritesType
<1>3. sref[s] > 0
  BY <1>1 DEF SpritesType
<1> QED
  BY <1>1, <1>2, <1>3 DEF SpriteRefs

LEMMA SameShown ==
  ASSUME SpriteRefs, sref' = sref, valid' = valid, shows' = shows
  PROVE  SpriteRefs'
BY DEF SpriteRefs, Shown


-----------------------------------------------------------------------------
(* The operations.                                                         *)

LEMMA InitInv == SpritesInit => IInv
<1> SUFFICES ASSUME SpritesInit PROVE IInv
  OBVIOUS
<1>1. SpritesType
  <2>1. << >> \in Seq(Tex) /\ sframes \in [Slot -> Seq(Tex)]
    BY DEF SpritesInit
  <2>2. step \in {"idle"} /\ who \in {NONE} /\ then \in {"none"} /\ todo \in 0 .. 2
    BY DEF SpritesInit
  <2>3. spr \in {NONE} /\ i \in Nat /\ refs \in [Tex -> Nat] /\ sref \in [Slot -> Nat]
    BY DEF SpritesInit
  <2> QED
    BY <2>1, <2>2, <2>3 DEF SpritesInit, SpritesType, Text
<1>2. Loop
  <2>1. \A s \in Slot: sframes[s] = << >>
    BY DEF SpritesInit
  <2>2. \A s \in Slot: Len(sframes[s]) <= MaxFrames
    BY <2>1, FramesAssumption
  <2> QED
    BY <2>2 DEF SpritesInit, Loop
<1>3. Operation
  BY NoneAssumption DEF SpritesInit, Operation
<1>4. NewName /\ NamesUnique
  BY DEF SpritesInit, NewName, NamesUnique, Listed
<1>5. TextureRefs
  <2>1. \A t: Uses(t) = {}
    BY DEF SpritesInit, Uses, Taken, Listed
  <2> QED
    BY <2>1, FS_EmptySet DEF SpritesInit, TextureRefs
<1>6. SpriteRefs
  <2>1. \A s \in Slot: Shown(s) = {}
    BY DEF SpritesInit, Shown
  <2> QED
    BY <2>1, FS_EmptySet DEF SpritesInit, SpriteRefs
<1> QED
  BY <1>1, <1>2, <1>3, <1>4, <1>5, <1>6 DEF IInv

(* A step that leaves the caches and the entities' sprites alone.          *)
LEMMA QuietKeeps ==
  ASSUME IInv, SpritesType', Operation', UNCHANGED <<cache, valid, shows, struct>>,
         step \notin {"drop", "frames", "unwind"}, step' \notin {"drop", "frames", "unwind"}
  PROVE  IInv'
<1>1. Loop'
  BY DEF IInv, Loop
<1>2. Taken' = Taken
  BY DEF Taken, Listed
<1>3. TextureRefs'
  BY <1>2, SameCounts DEF IInv
<1>4. SpriteRefs' /\ NewName' /\ NamesUnique'
  BY SameShown DEF IInv, NewName, NamesUnique, Listed
<1> QED
  BY <1>1, <1>3, <1>4 DEF IInv

LEMMA ReadsText == ASSUME SpritesType, NEW e \in Ent PROVE Reads(e) \subseteq Text /\ LateReads(e) \subseteq Text
BY NoneAssumption DEF SpritesType, Reads, LateReads, Text

LEMMA SpawnKeeps == ASSUME IInv, NEW e \in Ent, Spawn(e) PROVE IInv'
<1>1. SpritesType'
  BY DEF IInv, SpritesType, Spawn, Text
<1>2. Operation'
  BY DEF IInv, SpritesType, Operation, Spawn
<1> QED
  BY <1>1, <1>2, QuietKeeps DEF Spawn

LEMMA SetSpriteKeeps ==
  ASSUME IInv, NEW e \in Ent, NEW n \in Name \cup {NONE}, SetSprite(e, n)
  PROVE  IInv'
<1>1. CASE plug[e]
  <2>1. SpritesType'
    <3>1. name' \in [Ent -> Text] /\ owner' \in [Ent -> Owner]
      <4>1. /\ n \in Text /\ name' = [name EXCEPT ![e] = n]
            /\ owner' = [owner EXCEPT ![e] = LUA]
        BY <1>1 DEF SetSprite, Text
      <4> QED
        BY <4>1 DEF IInv, SpritesType
    <3>2. wanted' \in [Ent -> Name \cup {NONE}]
      BY DEF IInv, SpritesType, SetSprite
    <3>3. who' = e /\ todo' \in 0 .. 2 /\ step' = "callback" /\ data' = data
      BY <1>1 DEF SetSprite
    <3> QED
      BY <3>1, <3>2, <3>3 DEF IInv, SpritesType, SetSprite
  <2>2. /\ who' = e /\ e # NONE /\ step' = "callback" /\ life[e] # "none"
        /\ UNCHANGED <<plug, valid, shows, life, then>>
    BY <1>1, NoneAssumption DEF SetSprite
  <2>3. Operation'
    BY <1>1, <2>2 DEF IInv, Operation
  <2> QED
    BY <1>1, <2>1, <2>3, QuietKeeps DEF SetSprite
<1>2. CASE ~plug[e]
  <2>1. SpritesType'
    <3>1. n \in Text /\ data' = [data EXCEPT ![e] = n] /\ wanted' = [wanted EXCEPT ![e] = n]
      BY <1>2 DEF SetSprite, Text
    <3>2. UNCHANGED <<cache, life, render, step, task, struct, misread>>
      BY <1>2 DEF SetSprite
    <3> QED
      BY <3>1, <3>2 DEF IInv, SpritesType
  <2>2. Operation'
    BY <1>2 DEF IInv, SpritesType, Operation, SetSprite
  <2> QED
    BY <1>2, <2>1, <2>2, QuietKeeps DEF SetSprite
<1> QED
  BY <1>1, <1>2

LEMMA SetUiKeeps == ASSUME IInv, NEW e \in Ent, SetUi(e) PROVE IInv'
<1>1. SpritesType'
  BY ReadsText DEF IInv, SpritesType, SetUi
<1>2. Operation'
  BY NoneAssumption DEF IInv, SpritesType, Operation, SetUi
<1> QED
  BY <1>1, <1>2, QuietKeeps DEF SetUi

LEMMA RemoveKeeps == ASSUME IInv, NEW e \in Ent, Remove(e) PROVE IInv'
<1>1. SpritesType'
  BY DEF IInv, SpritesType, Remove
<1>2. Operation'
  BY DEF IInv, SpritesType, Operation, Remove
<1> QED
  BY <1>1, <1>2, QuietKeeps DEF Remove

(* An unload drops one reference, and takes the sprite out of the list     *)
(* with all its frames still held when that was the last.                  *)
LEMMA UnloadKeeps ==
  ASSUME IInv, NEW e \in Ent, step \in {"idle", "callback"}, Unload(e),
         UNCHANGED <<refs, sname, sframes, life, plug, name, owner>>,
         data' \in [Ent -> Text], misread' \in BOOLEAN, wanted' = wanted,
         who' = e, life[e] # "none", todo' \in 0 .. 2,
         then' \in {"name", "plug", "none", "free"}, then' = "name" => plug[e]
  PROVE  IInv'
<1>1. spr = NONE /\ e # NONE
  BY NoneAssumption DEF IInv, Loop
<1>2. CASE ~valid[e]
  <2>1. /\ UNCHANGED <<cache, struct>> /\ step' = "after"
        /\ valid' = [valid EXCEPT ![e] = FALSE] /\ shows' = [shows EXCEPT ![e] = NONE]
    BY <1>2 DEF Unload, Holds
  <2>2. SpritesType'
    BY <2>1 DEF IInv, SpritesType
  <2>3. Operation'
    BY <1>1, <2>1 DEF IInv, SpritesType, Operation
  <2>4. Loop' /\ NewName' /\ NamesUnique'
    BY <2>1 DEF IInv, Loop, NewName, NamesUnique, Listed
  <2>5. Taken' = Taken
    BY <2>1 DEF IInv, Loop, Taken, Listed
  <2>6. TextureRefs'
    BY <2>1, <2>5, SameCounts DEF IInv
  <2>7. \A s \in Slot: Shown(s)' = Shown(s)
    BY <1>2, <2>1 DEF IInv, SpritesType, Shown
  <2>8. SpriteRefs'
    BY <2>1, <2>7 DEF IInv, SpriteRefs
  <2> QED
    BY <2>2, <2>3, <2>4, <2>6, <2>8 DEF IInv
<1>3. CASE valid[e]
  <2> DEFINE s == shows[e]
  <2>1. s \in Slot
    BY <1>3 DEF IInv, Operation
  <2>2. /\ valid' = [valid EXCEPT ![e] = FALSE] /\ shows' = [shows EXCEPT ![e] = NONE]
        /\ sref' = [sref EXCEPT ![s] = sref[s] - 1]
    BY <1>3 DEF Unload, Holds, LastRef
  <2>3. SpriteRefs' /\ sref' \in [Slot -> Nat] /\ sref[s] > 0
    BY <1>3, <2>1, <2>2, UnshowCounts DEF IInv
  <2>4. sframes[s] \in Seq(Tex) /\ Len(sframes[s]) <= MaxFrames /\ sref[s] \in Nat
    BY <2>1 DEF IInv, SpritesType, Loop
  <2>5. \/ sref[s] = 1 /\ step' = "drop" /\ spr' = s /\ i' = 1
        \/ sref[s] > 1 /\ step' = "after" /\ spr' = spr /\ i' = i
    BY <1>3, <2>3, <2>4 DEF Unload, Holds, LastRef
  <2>6. SpritesType'
    BY <2>1, <2>2, <2>3, <2>5 DEF IInv, SpritesType
  <2>7. Operation'
    BY <1>1, <2>2, <2>5 DEF IInv, SpritesType, Operation
  <2>8. Loop'
    BY <1>1, <2>1, <2>2, <2>4, <2>5 DEF IInv, SpritesType, Loop
  <2>9. Listed' \subseteq Listed
    BY <2>1, <2>2, <2>3 DEF IInv, SpritesType, Listed
  <2>10. NewName' /\ NamesUnique'
    BY <2>5, <2>9 DEF IInv, NewName, NamesUnique
  <2>11. Taken' = Taken
    <3>1. CASE sref[s] = 1
      <4>1. Listed' = Listed \ {s} /\ s \in Listed
        BY <2>1, <2>2, <3>1 DEF IInv, SpritesType, Listed
      <4>2. InLoop' = DOMAIN sframes[s]
        BY <2>4, <2>5, <3>1 DEF InLoop
      <4>3. step' = "drop" /\ spr' = s /\ step \notin {"drop", "frames", "unwind"}
        BY <2>5, <3>1
      <4> QED
        BY <4>1, <4>2, <4>3 DEF Taken
    <3>2. CASE sref[s] > 1
      <4>1. Listed' = Listed
        BY <2>1, <2>2, <2>4, <3>2 DEF IInv, SpritesType, Listed
      <4> QED
        BY <2>5, <3>2, <4>1 DEF Taken
    <3> QED
      BY <2>5, <3>1, <3>2
  <2>12. TextureRefs'
    BY <2>11, SameCounts DEF IInv
  <2> QED
    BY <2>3, <2>6, <2>7, <2>8, <2>10, <2>12 DEF IInv
<1> QED
  BY <1>2, <1>3

LEMMA SetRenderKeeps ==
  ASSUME IInv, NEW e \in Ent, NEW on \in BOOLEAN, SetRender(e, on)
  PROVE  IInv'
<1>1. data' \in [Ent -> Text] /\ misread' \in BOOLEAN
  <2>1. CASE plug[e]
    <3>1. PICK n \in LateReads(e):
            data' = [data EXCEPT ![e] = n] /\ misread' = (misread \/ n # name[e])
      BY <2>1 DEF SetRender
    <3>2. n \in Text
      BY ReadsText DEF IInv
    <3> QED
      BY <3>1, <3>2 DEF IInv, SpritesType
  <2>2. CASE ~plug[e]
    BY <2>2 DEF IInv, SpritesType, SetRender
  <2> QED
    BY <2>1, <2>2
<1>2. then' \in {"plug", "none"} /\ todo' \in 0 .. 2
  BY DEF IInv, SpritesType, SetRender
<1> QED
  BY <1>1, <1>2, UnloadKeeps DEF SetRender

LEMMA FreeKeeps == ASSUME IInv, NEW e \in Ent, Free(e) PROVE IInv'
<1>1. data' \in [Ent -> Text] /\ misread' \in BOOLEAN /\ then' = "free" /\ todo' \in 0 .. 2
  BY DEF IInv, SpritesType, Free
<1> QED
  BY <1>1, UnloadKeeps DEF Free

LEMMA CallbackKeeps == IInv /\ Callback => IInv'
<1> SUFFICES ASSUME IInv, Callback PROVE IInv'
  OBVIOUS
<1>1. who \in Ent /\ plug[who] /\ life[who] # "none"
  BY DEF IInv, SpritesType, Operation, Callback
<1>2. data' \in [Ent -> Text] /\ misread' \in BOOLEAN /\ then' = "name" /\ todo' \in 0 .. 2
  BY DEF IInv, SpritesType, Callback
<1> QED
  BY <1>1, <1>2, UnloadKeeps DEF Callback

-----------------------------------------------------------------------------
(* The steps of an operation.                                              *)

LEMMA DropFrameKeeps == IInv /\ DropFrame => IInv'
<1> SUFFICES ASSUME IInv, DropFrame PROVE IInv'
  OBVIOUS
<1> DEFINE f == <<spr, i>>
<1>1. /\ step = "drop" /\ step' = "drop" /\ spr \in Slot /\ i \in 1 .. Len(sframes[spr]) /\ i \in Nat
      /\ sframes[spr] \in Seq(Tex) /\ Len(sframes[spr]) <= MaxFrames
  BY DEF IInv, SpritesType, Loop, DropFrame
<1>2. f \in Taken
  BY <1>1, FramesAssumption DEF Taken, InLoop
<1>3. Taken' = Taken \ {f}
  <2>1. InLoop' = InLoop \ {i}
    BY <1>1 DEF DropFrame, InLoop
  <2>2. Listed' = Listed /\ sframes' = sframes /\ spr' = spr
    BY DEF DropFrame, Listed
  <2> QED
    BY <1>1, <2>1, <2>2 DEF Taken
<1>4. sframes[f[1]][f[2]] \in Tex
  BY <1>1
<1>5. TextureRefs' /\ refs' \in [Tex -> Nat]
  BY <1>2, <1>3, <1>4, DropCounts DEF IInv, DropFrame
<1>6. SpritesType'
  BY <1>1, <1>5 DEF IInv, SpritesType, DropFrame
<1>7. Loop'
  BY <1>1 DEF IInv, Loop, DropFrame
<1>8. Operation' /\ SpriteRefs' /\ NewName' /\ NamesUnique'
  BY <1>1, SameShown DEF IInv, Operation, NewName, NamesUnique, Listed, DropFrame
<1> QED
  BY <1>5, <1>6, <1>7, <1>8 DEF IInv

(* When its loop is over a struct holds nothing.                           *)
LEMMA FreeStructKeeps ==
  ASSUME IInv, step \in {"drop", "unwind"}, InLoop = {}, FreeStruct,
         UNCHANGED <<refs, sref, life, data, render, task, history>>,
         step = "drop" => step' = "after", step = "unwind" => step' = "callback"
  PROVE  IInv'
<1>1. /\ spr \in Slot /\ sref[spr] = 0 /\ spr' = NONE /\ i' = 0 /\ step' \in {"after", "callback"}
      /\ sname' = [sname EXCEPT ![spr] = NONE] /\ sframes' = [sframes EXCEPT ![spr] = << >>]
  BY DEF IInv, Loop, FreeStruct
<1>2. SpritesType'
  <2>1. << >> \in Seq(Tex) /\ NONE \in Text
    BY DEF Text
  <2>2. sframes' \in [Slot -> Seq(Tex)] /\ sname' \in [Slot -> Text]
    BY <1>1, <2>1 DEF IInv, SpritesType
  <2> QED
    BY <1>1, <2>2 DEF IInv, SpritesType
<1>3. Loop'
  <2>1. Len(<< >>) <= MaxFrames
    BY FramesAssumption
  <2>2. ASSUME NEW s \in Slot PROVE Len(sframes'[s]) <= MaxFrames
    BY <1>1, <2>1 DEF IInv, SpritesType, Loop
  <2> QED
    BY <1>1, <2>2 DEF Loop
<1>4. Operation'
  BY <1>1 DEF IInv, Operation
<1>5. Listed' = Listed /\ spr \notin Listed
  BY <1>1 DEF Listed
<1>6. Taken' = Taken
  <2>1. ASSUME NEW f \in Slot \X (1 .. MaxFrames) PROVE f \in Taken' <=> f \in Taken
    <3>1. CASE f[1] = spr
      BY <1>1, <1>5, <3>1 DEF Taken
    <3>2. CASE f[1] # spr
      BY <1>1, <1>5, <3>2 DEF Taken, IInv, SpritesType
    <3> QED
      BY <3>1, <3>2
  <2> QED
    BY <2>1 DEF Taken
<1>7. ASSUME NEW f \in Taken PROVE sframes'[f[1]][f[2]] = sframes[f[1]][f[2]]
  <2>1. f[1] # spr /\ f[1] \in Slot
    BY <1>1, <1>5 DEF Taken
  <2> QED
    BY <1>1, <2>1 DEF IInv, SpritesType
<1>8. TextureRefs'
  BY <1>6, <1>7, SameCounts DEF IInv
<1>9. NewName' /\ NamesUnique'
  BY <1>1, <1>5 DEF IInv, SpritesType, NewName, NamesUnique, Listed
<1>10. SpriteRefs'
  BY SameShown DEF IInv
<1> QED
  BY <1>2, <1>3, <1>4, <1>8, <1>9, <1>10 DEF IInv

LEMMA DroppedKeeps == IInv /\ Dropped => IInv'
<1> SUFFICES ASSUME IInv, Dropped PROVE IInv'
  OBVIOUS
<1>1. InLoop = {}
  BY DEF IInv, SpritesType, Loop, Dropped, InLoop
<1> QED
  BY <1>1, FreeStructKeeps DEF Dropped

LEMMA UnwoundKeeps == IInv /\ Unwound => IInv'
<1> SUFFICES ASSUME IInv, Unwound PROVE IInv'
  OBVIOUS
<1>1. InLoop = {}
  BY DEF Unwound, InLoop
<1> QED
  BY <1>1, FreeStructKeeps DEF Unwound

LEMMA PlugKeeps == IInv /\ Plug => IInv'
<1> SUFFICES ASSUME IInv, Plug PROVE IInv'
  OBVIOUS
<1>1. who \in Ent
  BY DEF IInv, SpritesType, Operation, Plug
<1>2. SpritesType'
  BY <1>1 DEF IInv, SpritesType, Plug
<1>3. Operation'
  BY <1>1 DEF IInv, SpritesType, Operation, Plug
<1> QED
  BY <1>2, <1>3, QuietKeeps DEF Plug

LEMMA UnplugKeeps == IInv /\ Unplug => IInv'
<1> SUFFICES ASSUME IInv, Unplug PROVE IInv'
  OBVIOUS
<1>1. who \in Ent /\ ~valid[who] /\ who' = NONE /\ step' = "idle"
  BY DEF IInv, SpritesType, Operation, Unplug, OperationDone
<1>2. SpritesType'
  BY <1>1 DEF IInv, SpritesType, Unplug, OperationDone, Text
<1>3. Operation'
  BY <1>1, NoneAssumption DEF IInv, SpritesType, Operation, Unplug
<1> QED
  BY <1>1, <1>2, <1>3, QuietKeeps DEF Unplug

LEMMA CallbacksDoneKeeps == IInv /\ CallbacksDone => IInv'
<1> SUFFICES ASSUME IInv, CallbacksDone PROVE IInv'
  OBVIOUS
<1>1. SpritesType'
  BY DEF IInv, SpritesType, CallbacksDone, OperationDone
<1>2. Operation'
  BY NoneAssumption DEF IInv, Operation, CallbacksDone, OperationDone
<1> QED
  BY <1>1, <1>2, QuietKeeps DEF CallbacksDone, OperationDone

LEMMA LoadNothingKeeps == IInv /\ LoadNothing => IInv'
<1> SUFFICES ASSUME IInv, LoadNothing PROVE IInv'
  OBVIOUS
<1>1. SpritesType' /\ Operation'
  BY DEF IInv, SpritesType, Operation, LoadNothing
<1> QED
  BY <1>1, QuietKeeps DEF LoadNothing

LEMMA LoadMissingKeeps == IInv /\ LoadMissing => IInv'
<1> SUFFICES ASSUME IInv, LoadMissing PROVE IInv'
  OBVIOUS
<1>1. SpritesType' /\ Operation'
  BY DEF IInv, SpritesType, Operation, LoadMissing
<1> QED
  BY <1>1, QuietKeeps DEF LoadMissing

LEMMA LoadCachedKeeps == IInv /\ LoadCached => IInv'
<1> SUFFICES ASSUME IInv, LoadCached PROVE IInv'
  OBVIOUS
<1>1. who \in Ent /\ ~valid[who] /\ plug[who] /\ life[who] # "none" /\ spr = NONE
  BY DEF IInv, SpritesType, Operation, Loop, LoadCached
<1>2. PICK n \in Reads(who) \ {NONE}, s \in Slot:
        s \in Find(n) /\ Found(s) /\ Show(s, n) /\ misread' = (misread \/ n # name[who])
  BY DEF LoadCached
<1>3. /\ n \in Text /\ s \in Listed /\ sref' = [sref EXCEPT ![s] = sref[s] + 1]
      /\ valid' = [valid EXCEPT ![who] = TRUE] /\ shows' = [shows EXCEPT ![who] = s]
      /\ name' = [name EXCEPT ![who] = n] /\ owner' = [owner EXCEPT ![who] = s]
  BY <1>1, <1>2, ReadsText DEF IInv, Find, Found, Show
<1>4. SpritesType'
  BY <1>1, <1>2, <1>3 DEF IInv, SpritesType, LoadCached
<1>5. Operation'
  BY <1>1, <1>3, NoneAssumption DEF IInv, SpritesType, Operation, LoadCached
<1>6. Listed' = Listed
  BY <1>2, <1>3 DEF IInv, SpritesType, Listed
<1>7. Loop' /\ NewName' /\ NamesUnique'
  BY <1>6 DEF IInv, Loop, NewName, NamesUnique, LoadCached
<1>8. Taken' = Taken
  BY <1>6 DEF Taken, LoadCached
<1>9. TextureRefs'
  BY <1>8, SameCounts DEF IInv, LoadCached
<1>10. SpriteRefs'
  BY <1>1, <1>2, <1>3, ShowCounts DEF IInv
<1> QED
  BY <1>4, <1>5, <1>7, <1>9, <1>10 DEF IInv

(* A sprite being filled holds the frames before the counter.              *)
LEMMA LoadFileKeeps == IInv /\ LoadFile => IInv'
<1> SUFFICES ASSUME IInv, LoadFile PROVE IInv'
  OBVIOUS
<1>1. who \in Ent /\ ~valid[who] /\ plug[who] /\ life[who] # "none" /\ spr = NONE
  BY DEF IInv, SpritesType, Operation, Loop, LoadFile
<1>2. PICK n \in Reads(who) \cap Name, s \in Slot \ Listed:
        Find(n) = {} /\ spr' = s /\ sframes' = [sframes EXCEPT ![s] = Frames[n]]
  BY DEF LoadFile
<1>3. /\ step = "after" /\ then = "name" /\ i' = 0 /\ step' = "frames"
      /\ UNCHANGED <<refs, sref, sname, life, data, render, task, history>>
  BY DEF LoadFile
<1>4. Frames[n] \in Seq(Tex) /\ Len(Frames[n]) <= MaxFrames /\ sref[s] = 0
  BY <1>2, FramesAssumption DEF IInv, SpritesType, Listed
<1>5. SpritesType'
  BY <1>2, <1>3, <1>4 DEF IInv, SpritesType
<1>6. Loop'
  <2>1. ASSUME NEW u \in Slot PROVE Len(sframes'[u]) <= MaxFrames
    BY <1>2, <1>4 DEF IInv, SpritesType, Loop
  <2>2. sframes'[s] = Frames[n] /\ 0 <= Len(Frames[n])
    BY <1>2, <1>4 DEF IInv, SpritesType
  <2> QED
    BY <1>2, <1>3, <1>4, <2>1, <2>2 DEF Loop
<1>7. Operation'
  BY <1>1, <1>3 DEF IInv, Operation
<1>8. Listed' = Listed
  BY <1>3 DEF Listed
<1>9. Taken' = Taken
  <2>1. ASSUME NEW f \in Slot \X (1 .. MaxFrames) PROVE f \in Taken' <=> f \in Taken
    <3>1. CASE f[1] = s
      <4>1. InLoop' = {}
        BY <1>3 DEF InLoop
      <4> QED
        BY <1>1, <1>2, <1>3, <1>8, <3>1, <4>1 DEF Taken
    <3>2. CASE f[1] # s
      BY <1>1, <1>2, <1>3, <1>8, <3>2 DEF Taken, IInv, SpritesType
    <3> QED
      BY <3>1, <3>2
  <2> QED
    BY <2>1 DEF Taken
<1>10. ASSUME NEW f \in Taken PROVE sframes'[f[1]][f[2]] = sframes[f[1]][f[2]]
  <2>1. f[1] # s /\ f[1] \in Slot
    BY <1>2, <1>3 DEF Taken
  <2> QED
    BY <1>2, <2>1 DEF IInv, SpritesType
<1>11. TextureRefs'
  BY <1>3, <1>9, <1>10, SameCounts DEF IInv
<1>12. NewName'
  <2>1. ASSUME NEW m \in Reads(who) \ {JUNK} PROVE m = n
    BY <1>2, JunkAssumption DEF Reads
  <2>2. n # NONE
    BY <1>2, JunkAssumption
  <2>3. Reads(who)' = Reads(who) /\ \A m: Find(m)' = Find(m)
    BY <1>3, <1>8 DEF Reads, Find
  <2> QED
    BY <1>2, <2>1, <2>2, <2>3 DEF NewName
<1>13. SpriteRefs' /\ NamesUnique'
  BY <1>3, <1>8, SameShown DEF IInv, NamesUnique
<1> QED
  BY <1>5, <1>6, <1>7, <1>11, <1>12, <1>13 DEF IInv

LEMMA LoadFrameKeeps == IInv /\ LoadFrame => IInv'
<1> SUFFICES ASSUME IInv, LoadFrame PROVE IInv'
  OBVIOUS
<1> DEFINE f == <<spr, i + 1>>
<1>1. /\ step = "frames" /\ step' = "frames" /\ spr \in Slot /\ i \in Nat /\ i < Len(sframes[spr])
      /\ sframes[spr] \in Seq(Tex) /\ Len(sframes[spr]) <= MaxFrames /\ i' = i + 1 /\ spr' = spr
  BY DEF IInv, SpritesType, Loop, LoadFrame
<1>2. f \in Slot \X (1 .. MaxFrames) /\ f \notin Taken
  BY <1>1, FramesAssumption DEF Taken, InLoop
<1>3. Taken' = Taken \cup {f}
  <2>1. InLoop' = InLoop \cup {i + 1}
    BY <1>1 DEF InLoop
  <2>2. Listed' = Listed /\ sframes' = sframes
    BY DEF LoadFrame, Listed
  <2> QED
    BY <1>1, <1>2, <2>1, <2>2 DEF Taken
<1>4. sframes[f[1]][f[2]] \in Tex
  BY <1>1
<1>5. TextureRefs'
  BY <1>2, <1>3, <1>4, TakeCounts DEF IInv, LoadFrame
<1>6. SpritesType'
  BY <1>1 DEF IInv, SpritesType, LoadFrame, Take
<1>7. Loop'
  BY <1>1 DEF IInv, Loop, LoadFrame
<1>8. Operation' /\ SpriteRefs' /\ NamesUnique'
  BY <1>1, SameShown DEF IInv, Operation, NamesUnique, Listed, LoadFrame
<1>9. NewName'
  BY <1>1 DEF IInv, NewName, Reads, Find, Listed, LoadFrame
<1> QED
  BY <1>5, <1>6, <1>7, <1>8, <1>9 DEF IInv

LEMMA LoadFailsKeeps == IInv /\ LoadFails => IInv'
<1> SUFFICES ASSUME IInv, LoadFails PROVE IInv'
  OBVIOUS
<1>1. step = "frames" /\ step' = "unwind" /\ i' = i
  BY DEF LoadFails, LoadedFrames
<1>2. UNCHANGED <<cache, life, data, render, task, spr, history>>
  BY DEF LoadFails
<1>3. SpritesType' /\ Loop' /\ Operation' /\ NewName' /\ NamesUnique'
  BY <1>1, <1>2 DEF IInv, SpritesType, Loop, Operation, NewName, NamesUnique, Listed
<1>4. Taken' = Taken
  BY <1>1, <1>2 DEF Taken, InLoop, Listed
<1>5. TextureRefs' /\ SpriteRefs'
  BY <1>2, <1>4, SameCounts, SameShown DEF IInv
<1> QED
  BY <1>3, <1>5 DEF IInv

LEMMA UnwindKeeps == IInv /\ Unwind => IInv'
<1> SUFFICES ASSUME IInv, Unwind PROVE IInv'
  OBVIOUS
<1> DEFINE f == <<spr, i>>
<1>1. /\ step = "unwind" /\ step' = "unwind" /\ spr \in Slot /\ i \in 1 .. Len(sframes[spr])
      /\ sframes[spr] \in Seq(Tex) /\ Len(sframes[spr]) <= MaxFrames /\ i' = i - 1 /\ spr' = spr
  BY DEF IInv, SpritesType, Loop, Unwind
<1>2. f \in Taken
  BY <1>1, FramesAssumption DEF Taken, InLoop
<1>3. Taken' = Taken \ {f}
  <2>1. InLoop' = InLoop \ {i}
    BY <1>1 DEF InLoop
  <2>2. Listed' = Listed /\ sframes' = sframes
    BY DEF Unwind, Listed
  <2> QED
    BY <1>1, <2>1, <2>2 DEF Taken
<1>4. sframes[f[1]][f[2]] \in Tex
  BY <1>1
<1>5. TextureRefs' /\ refs' \in [Tex -> Nat]
  BY <1>2, <1>3, <1>4, DropCounts DEF IInv, Unwind
<1>6. SpritesType'
  BY <1>1, <1>5 DEF IInv, SpritesType, Unwind
<1>7. Loop'
  BY <1>1 DEF IInv, Loop, Unwind
<1>8. Operation' /\ SpriteRefs' /\ NewName' /\ NamesUnique'
  BY <1>1, SameShown DEF IInv, Operation, NewName, NamesUnique, Listed, Unwind
<1> QED
  BY <1>5, <1>6, <1>7, <1>8 DEF IInv

LEMMA LoadDoneKeeps == IInv /\ LoadDone => IInv'
<1> SUFFICES ASSUME IInv, LoadDone PROVE IInv'
  OBVIOUS
<1>1. /\ who \in Ent /\ ~valid[who] /\ plug[who] /\ life[who] # "none"
      /\ spr \in Slot /\ sref[spr] = 0
      /\ step = "frames" /\ i = Len(sframes[spr]) /\ sframes[spr] \in Seq(Tex)
      /\ Len(sframes[spr]) <= MaxFrames
  BY DEF IInv, SpritesType, Operation, Loop, LoadDone
<1>2. /\ spr' = NONE /\ i' = 0 /\ step' = "callback" /\ sref' = [sref EXCEPT ![spr] = sref[spr] + 1]
      /\ UNCHANGED <<refs, sframes, life, data, plug, task, wanted>>
  BY <1>1 DEF LoadDone
<1>3. PICK n \in Reads(who):
        /\ sname' = [sname EXCEPT ![spr] = n]
        /\ Show(spr, n)
        /\ misread' = (misread \/ n # name[who])
  BY DEF LoadDone
<1>4. n \in Text
  BY <1>1, <1>3, ReadsText DEF IInv
<1>5. /\ valid' = [valid EXCEPT ![who] = TRUE] /\ shows' = [shows EXCEPT ![who] = spr]
      /\ name' = [name EXCEPT ![who] = n] /\ owner' = [owner EXCEPT ![who] = spr]
  BY <1>3 DEF Show
<1>6. SpritesType'
  BY <1>1, <1>2, <1>3, <1>4, <1>5 DEF IInv, SpritesType
<1>7. Loop'
  BY <1>2 DEF IInv, Loop
<1>8. Operation'
  BY <1>1, <1>2, <1>5, NoneAssumption DEF IInv, SpritesType, Operation
<1>9. Listed' = Listed \cup {spr} /\ spr \notin Listed
  BY <1>1, <1>2 DEF IInv, SpritesType, Listed
<1>10. Taken' = Taken
  <2>1. InLoop = DOMAIN sframes[spr]
    BY <1>1 DEF InLoop
  <2> QED
    BY <1>1, <1>2, <1>9, <2>1 DEF Taken
<1>11. TextureRefs'
  BY <1>2, <1>10, SameCounts DEF IInv
<1>12. SpriteRefs'
  BY <1>1, <1>2, <1>5, ShowCounts DEF IInv
<1>13. NewName'
  BY <1>2 DEF NewName
<1>14. NamesUnique'
  <2>1. n # JUNK => Find(n) = {}
    BY <1>1, <1>3 DEF IInv, NewName
  <2>2. sname'[spr] = n /\ \A s \in Listed: sname'[s] = sname[s]
    BY <1>1, <1>3, <1>9 DEF IInv, SpritesType, Listed
  <2> QED
    BY <1>9, <2>1, <2>2 DEF IInv, NamesUnique, Find
<1> QED
  BY <1>6, <1>7, <1>8, <1>11, <1>12, <1>13, <1>14 DEF IInv

LEMMA StutterKeeps == IInv /\ UNCHANGED spritesVars => IInv'
<1> SUFFICES ASSUME IInv, UNCHANGED spritesVars PROVE IInv'
  OBVIOUS
<1>1. UNCHANGED <<cache, life, data, render, step, task, struct, history>>
  BY DEF spritesVars
<1>2. SpritesType' /\ Loop' /\ Operation' /\ NamesUnique'
  BY <1>1 DEF IInv, SpritesType, Loop, Operation, NamesUnique, Listed
<1>3. NewName'
  BY <1>1 DEF IInv, NewName, Reads, Find, Listed
<1>4. Taken' = Taken
  BY <1>1 DEF Taken, InLoop, Listed
<1>5. TextureRefs' /\ SpriteRefs'
  BY <1>1, <1>4, SameCounts, SameShown DEF IInv
<1> QED
  BY <1>2, <1>3, <1>5 DEF IInv

-----------------------------------------------------------------------------
(* The theorems.                                                           *)

(* Every step of an operation, of a load and of a load that fails keeps    *)
(* the invariant.                                                          *)
THEOREM Inductive == SpritesSpec => []IInv
<1>1. IInv /\ [SpritesNext]_spritesVars => IInv'
  <2> SUFFICES ASSUME IInv, [SpritesNext]_spritesVars PROVE IInv'
    OBVIOUS
  <2>1. ASSUME NEW e \in Ent, Spawn(e) PROVE IInv'
    BY <2>1, SpawnKeeps
  <2>2. ASSUME NEW e \in Ent, NEW n \in Name \cup {NONE}, SetSprite(e, n) PROVE IInv'
    BY <2>2, SetSpriteKeeps
  <2>3. ASSUME NEW e \in Ent, SetUi(e) PROVE IInv'
    BY <2>3, SetUiKeeps
  <2>4. ASSUME NEW e \in Ent, NEW on \in BOOLEAN, SetRender(e, on) PROVE IInv'
    BY <2>4, SetRenderKeeps
  <2>5. ASSUME NEW e \in Ent, Remove(e) PROVE IInv'
    BY <2>5, RemoveKeeps
  <2>6. ASSUME NEW e \in Ent, Free(e) PROVE IInv'
    BY <2>6, FreeKeeps
  <2>7. CASE DropFrame
    BY <2>7, DropFrameKeeps
  <2>8. CASE Dropped
    BY <2>8, DroppedKeeps
  <2>9. CASE Plug
    BY <2>9, PlugKeeps
  <2>10. CASE Unplug
    BY <2>10, UnplugKeeps
  <2>11. CASE Reload
    <3>1. CASE Callback \/ CallbacksDone
      BY <3>1, CallbackKeeps, CallbacksDoneKeeps
    <3>2. CASE LoadNothing \/ LoadCached \/ LoadMissing
      BY <3>2, LoadNothingKeeps, LoadCachedKeeps, LoadMissingKeeps
    <3>3. CASE LoadFile \/ LoadFrame \/ LoadDone
      BY <3>3, LoadFileKeeps, LoadFrameKeeps, LoadDoneKeeps
    <3>4. CASE LoadFails \/ Unwind \/ Unwound
      BY <3>4, LoadFailsKeeps, UnwindKeeps, UnwoundKeeps
    <3> QED
      BY <2>11, <3>1, <3>2, <3>3, <3>4 DEF Reload
  <2>12. CASE UNCHANGED spritesVars
    BY <2>12, StutterKeeps
  <2> QED
    BY <2>1, <2>2, <2>3, <2>4, <2>5, <2>6, <2>7, <2>8, <2>9, <2>10, <2>11, <2>12 DEF SpritesNext
<1> QED
  BY <1>1, InitInv, PTL DEF SpritesSpec

(* Every variable keeps to its set.                                        *)
THEOREM TypeCorrect == SpritesSpec => []SpritesType
<1>1. IInv => SpritesType
  BY DEF IInv
<1> QED
  BY <1>1, Inductive, PTL

(* A texture has one reference for each frame that names it, whatever      *)
(* fails while a sprite is loaded, and a sprite has one for each entity    *)
(* that shows it.                                                          *)
THEOREM RefsCounted == SpritesSpec => []CountsExact
<1>1. IInv => CountsExact
  BY DEF IInv, CountsExact
<1> QED
  BY <1>1, Inductive, PTL

(* No two sprites are listed under one name.                               *)
THEOREM NamedOnce == SpritesSpec => []NamesUnique
<1>1. IInv => NamesUnique
  BY DEF IInv
<1> QED
  BY <1>1, Inductive, PTL

(* Between operations all that an entity draws from is there.              *)
THEOREM Draws == SpritesSpec => []DrawSafe
<1>1. IInv => DrawSafe
  <2> SUFFICES ASSUME IInv, step = "idle", NEW e \in Ent, valid[e]
               PROVE  /\ plug[e] /\ shows[e] \in Listed
                      /\ \A j \in DOMAIN sframes[shows[e]]: refs[sframes[shows[e]][j]] > 0
    BY DEF DrawSafe
  <2> DEFINE s == shows[e]
  <2>1. plug[e] /\ s \in Slot
    BY DEF IInv, Operation
  <2>2. s \in Listed
    <3>1. e \in Shown(s)
      BY DEF Shown
    <3>2. Cardinality(Shown(s)) # 0 /\ Cardinality(Shown(s)) \in Nat
      BY <3>1, ShownFinite, FS_EmptySet
    <3> QED
      BY <2>1, <3>2 DEF IInv, SpriteRefs, Listed
  <2>3. ASSUME NEW j \in DOMAIN sframes[s] PROVE refs[sframes[s][j]] > 0
    <3>1. sframes[s] \in Seq(Tex) /\ Len(sframes[s]) <= MaxFrames
      BY <2>1 DEF IInv, SpritesType, Loop
    <3>2. j \in 1 .. MaxFrames /\ sframes[s][j] \in Tex
      BY <3>1, FramesAssumption
    <3>3. <<s, j>> \in Uses(sframes[s][j])
      BY <2>1, <2>2, <3>2 DEF Taken, Uses
    <3>4. Cardinality(Uses(sframes[s][j])) # 0 /\ Cardinality(Uses(sframes[s][j])) \in Nat
      BY <3>3, UsesFinite, FS_EmptySet
    <3> QED
      BY <3>2, <3>4 DEF IInv, TextureRefs
  <2> QED
    BY <2>1, <2>2, <2>3
<1> QED
  BY <1>1, Inductive, PTL

(* Nothing of either cache outlives the last entity.                       *)
THEOREM NothingKept == SpritesSpec => []NothingLeft
<1>1. IInv => NothingLeft
  <2> SUFFICES ASSUME IInv, \A e \in Ent: life[e] = "none"
               PROVE  Listed = {} /\ \A t \in Tex: refs[t] = 0
    BY DEF NothingLeft
  <2>1. ~Working /\ \A e \in Ent: ~valid[e]
    BY DEF IInv, SpritesType, Operation
  <2>2. Listed = {}
    <3>1. ASSUME NEW s \in Slot PROVE sref[s] = 0
      <4>1. Shown(s) = {}
        BY <2>1 DEF Shown
      <4> QED
        BY <4>1, FS_EmptySet DEF IInv, SpriteRefs
    <3> QED
      BY <3>1 DEF Listed
  <2>3. ASSUME NEW t \in Tex PROVE refs[t] = 0
    <3>1. Uses(t) = {}
      BY <2>1, <2>2 DEF Uses, Taken
    <3> QED
      BY <3>1, FS_EmptySet DEF IInv, TextureRefs
  <2> QED
    BY <2>2, <2>3
<1> QED
  BY <1>1, Inductive, PTL

-----------------------------------------------------------------------------
(* What the entities show.  As long as no freed name has been misread, an  *)
(* entity's text is the one game code has last set, in r->name or, without *)
(* the plugin, in __data; the sprites listed are filled from the files of  *)
(* their names; and the one being filled gets the file of the text that    *)
(* asked for it, or that text is no longer what is read.                   *)
TextKept(e) ==
  life[e] # "none" =>
    /\ plug[e] => name[e] = wanted[e]
    /\ ~plug[e] => data[e] = wanted[e]
DataKept == step \in {"drop", "after"} /\ then \in {"plug", "none"} => data[who] = wanted[who]
ShowsRight(e) ==
  valid[e] /\ ~(e = who /\ step = "callback" /\ todo > 0) =>
    /\ wanted[e] \in Name /\ sname[shows[e]] = wanted[e]
    /\ sframes[shows[e]] = Frames[wanted[e]]
ListedRight == \A s \in Listed: sname[s] \in Name /\ sframes[s] = Frames[sname[s]]
FillsRight ==
  step = "frames" =>
    \E n \in Name: sframes[spr] = Frames[n] /\ (n = name[who] \/ name[who] \notin Reads(who))
Right ==
  /\ \A e \in Ent: TextKept(e)
  /\ DataKept
  /\ \A e \in Ent: ShowsRight(e)
  /\ ListedRight
  /\ FillsRight

LEMMA ShownListed == ASSUME IInv, NEW e \in Ent, valid[e] PROVE shows[e] \in Listed
<1>1. shows[e] \in Slot /\ e \in Shown(shows[e])
  BY DEF IInv, Operation, Shown
<1>2. Cardinality(Shown(shows[e])) # 0 /\ Cardinality(Shown(shows[e])) \in Nat
  BY <1>1, ShownFinite, FS_EmptySet
<1> QED
  BY <1>1, <1>2 DEF IInv, SpriteRefs, Listed

(* A step that touches neither the sprites nor what is said of them.       *)
LEMMA RestRight ==
  ASSUME Right,
         UNCHANGED <<sref, sname, sframes, life, plug, data, name, wanted, valid, shows>>,
         step' # "frames",
         step' \in {"drop", "after"} /\ then' \in {"plug", "none"} =>
           step \in {"drop", "after"} /\ then \in {"plug", "none"} /\ who' = who,
         \A e \in Ent: valid[e] /\ e = who /\ step = "callback" /\ todo > 0 =>
           who' = who /\ step' = "callback" /\ todo' > 0
  PROVE  Right'
<1>1. ASSUME NEW e \in Ent PROVE TextKept(e)' /\ ShowsRight(e)'
  BY DEF Right, TextKept, ShowsRight
<1>2. DataKept' /\ ListedRight' /\ FillsRight'
  BY DEF Right, DataKept, ListedRight, FillsRight, Listed
<1> QED
  BY <1>1, <1>2 DEF Right

LEMMA SpawnRight == ASSUME IInv, Right, NEW e \in Ent, Spawn(e) PROVE Right'
<1>1. ~valid[e] /\ ~plug[e]
  BY DEF IInv, Operation, Spawn
<1>2. ASSUME NEW x \in Ent PROVE TextKept(x)' /\ ShowsRight(x)'
  BY <1>1 DEF Right, TextKept, ShowsRight, Spawn, IInv, SpritesType
<1>3. DataKept' /\ ListedRight' /\ FillsRight'
  BY DEF Right, DataKept, ListedRight, FillsRight, Listed, Spawn
<1> QED
  BY <1>2, <1>3 DEF Right

LEMMA SetSpriteRight ==
  ASSUME IInv, Right, NEW e \in Ent, NEW n \in Name \cup {NONE}, SetSprite(e, n)
  PROVE  Right'
<1>1. /\ wanted' = [wanted EXCEPT ![e] = n] /\ step = "idle"
      /\ UNCHANGED <<sref, sname, sframes, life, plug, valid, shows>>
  BY DEF SetSprite
<1>2. ASSUME NEW x \in Ent, x # e PROVE TextKept(x)' /\ ShowsRight(x)'
  BY <1>1, <1>2 DEF Right, TextKept, ShowsRight, SetSprite, IInv, SpritesType
<1>3. CASE plug[e]
  <2>1. name' = [name EXCEPT ![e] = n] /\ who' = e /\ step' = "callback" /\ todo' = 1
    BY <1>3 DEF SetSprite
  <2>2. TextKept(e)' /\ ShowsRight(e)'
    BY <1>1, <1>3, <2>1 DEF TextKept, ShowsRight, IInv, SpritesType
  <2>3. DataKept' /\ ListedRight' /\ FillsRight'
    BY <1>1, <2>1 DEF Right, DataKept, ListedRight, FillsRight, Listed
  <2> QED
    BY <1>2, <2>2, <2>3 DEF Right
<1>4. CASE ~plug[e]
  <2>1. data' = [data EXCEPT ![e] = n] /\ step' = step
    BY <1>4 DEF SetSprite
  <2>2. ~valid[e]
    BY <1>4 DEF IInv, Operation
  <2>3. TextKept(e)' /\ ShowsRight(e)'
    BY <1>1, <1>4, <2>1, <2>2 DEF TextKept, ShowsRight, IInv, SpritesType
  <2>4. DataKept' /\ ListedRight' /\ FillsRight'
    BY <1>1, <2>1 DEF Right, DataKept, ListedRight, FillsRight, Listed
  <2> QED
    BY <1>2, <2>3, <2>4 DEF Right
<1> QED
  BY <1>3, <1>4

LEMMA SetUiRight ==
  ASSUME IInv, Right, misread' = FALSE, NEW e \in Ent, SetUi(e)
  PROVE  Right'
<1>1. PICK n \in LateReads(e): name' = [name EXCEPT ![e] = n] /\ misread' = (misread \/ n # name[e])
  BY Zenon DEF SetUi
<1>2. n = name[e]
  BY <1>1, Zenon
<1> HIDE DEF IInv
<1>3. name' = name
  BY <1>1, <1>2 DEF IInv, SpritesType
<1>4. /\ UNCHANGED <<sref, sname, sframes, life, plug, data, name, wanted, valid, shows>>
      /\ who' = e /\ step = "idle" /\ step' = "callback" /\ todo' = 1
  BY <1>3 DEF SetUi
<1> QED
  BY <1>4, RestRight

LEMMA RemoveRight == ASSUME IInv, Right, NEW e \in Ent, Remove(e) PROVE Right'
<1>1. /\ life' = [life EXCEPT ![e] = "doomed"] /\ life[e] = "live" /\ step = "idle"
      /\ UNCHANGED <<sref, sname, sframes, data, render, step, task, struct, wanted>>
  BY DEF Remove
<1>2. ASSUME NEW x \in Ent PROVE TextKept(x)' /\ ShowsRight(x)'
  BY <1>1 DEF Right, TextKept, ShowsRight, IInv, SpritesType
<1>3. DataKept' /\ ListedRight' /\ FillsRight'
  BY <1>1 DEF Right, DataKept, ListedRight, FillsRight, Listed
<1> QED
  BY <1>2, <1>3 DEF Right

(* An unload hides the entity; the sprites that stay listed are the same.  *)
LEMMA UnloadRight ==
  ASSUME IInv, Right, NEW e \in Ent, step \in {"idle", "callback"}, Unload(e),
         UNCHANGED <<sname, sframes, life, plug, name, wanted>>,
         who' = e, step = "callback" => who = e,
         plug[e] => name[e] = wanted[e],
         then' \in {"plug", "none"} => data'[e] = wanted[e],
         \A x \in Ent: ~plug[x] => data'[x] = data[x]
  PROVE  Right'
<1>1. /\ valid' = [valid EXCEPT ![e] = FALSE] /\ shows' = [shows EXCEPT ![e] = NONE]
      /\ step' \in {"drop", "after"} /\ Listed' \subseteq Listed
  <2>1. CASE ~valid[e]
    BY <2>1 DEF Unload, Holds, Listed
  <2>2. CASE valid[e]
    <3>1. shows[e] \in Listed
      BY <2>2, ShownListed
    <3>2. \A s \in Slot: sref'[s] = sref[s] \/ s = shows[e]
      BY <2>2 DEF Unload, Holds, IInv, SpritesType
    <3> QED
      BY <2>2, <3>1, <3>2 DEF Unload, Holds, Listed
  <2> QED
    BY <2>1, <2>2
<1>2. ASSUME NEW x \in Ent PROVE TextKept(x)' /\ ShowsRight(x)'
  BY <1>1 DEF Right, TextKept, ShowsRight, IInv, SpritesType
<1>3. DataKept' /\ ListedRight' /\ FillsRight'
  BY <1>1 DEF Right, DataKept, ListedRight, FillsRight
<1> QED
  BY <1>2, <1>3 DEF Right

LEMMA SetRenderRight ==
  ASSUME IInv, Right, misread' = FALSE, NEW e \in Ent, NEW on \in BOOLEAN, SetRender(e, on)
  PROVE  Right'
<1>1. /\ step = "idle" /\ life[e] = "live" /\ Unload(e) /\ who' = e /\ then' \in {"plug", "none"}
      /\ UNCHANGED <<sname, sframes, life, plug, name, wanted>>
  BY DEF SetRender
<1>2. (plug[e] => name[e] = wanted[e]) /\ (~plug[e] => data[e] = wanted[e])
  BY <1>1 DEF Right, TextKept
<1>3. data'[e] = wanted[e] /\ \A x \in Ent: ~plug[x] => data'[x] = data[x]
  <2>1. CASE plug[e]
    <3>1. PICK n \in LateReads(e):
            data' = [data EXCEPT ![e] = n] /\ misread' = (misread \/ n # name[e])
      BY <2>1, Zenon DEF SetRender
    <3>2. n = name[e]
      BY <3>1, Zenon
    <3> QED
      BY <1>2, <2>1, <3>1, <3>2 DEF IInv, SpritesType
  <2>2. CASE ~plug[e]
    BY <1>2, <2>2 DEF SetRender
  <2> QED
    BY <2>1, <2>2
<1> QED
  BY <1>1, <1>2, <1>3, UnloadRight

LEMMA FreeRight == ASSUME IInv, Right, NEW e \in Ent, Free(e) PROVE Right'
<1>1. /\ step = "idle" /\ life[e] = "doomed" /\ Unload(e) /\ who' = e /\ then' = "free"
      /\ UNCHANGED <<sname, sframes, life, data, plug, name, wanted>>
  BY DEF Free
<1>2. plug[e] => name[e] = wanted[e]
  BY <1>1 DEF Right, TextKept
<1> QED
  BY <1>1, <1>2, UnloadRight

LEMMA CallbackRight == IInv /\ Right /\ Callback => Right'
<1> SUFFICES ASSUME IInv, Right, Callback PROVE Right'
  OBVIOUS
<1>1. /\ step = "callback" /\ Unload(who) /\ who' = who /\ then' = "name"
      /\ UNCHANGED <<sname, sframes, life, data, plug, name, wanted>>
  BY DEF Callback
<1>2. who \in Ent /\ life[who] # "none"
  BY <1>1 DEF IInv, SpritesType, Operation
<1>3. plug[who] => name[who] = wanted[who]
  BY <1>2 DEF Right, TextKept
<1> QED
  BY <1>1, <1>2, <1>3, UnloadRight

LEMMA DropFrameRight == IInv /\ Right /\ DropFrame => Right'
<1> SUFFICES ASSUME IInv, Right, DropFrame PROVE Right'
  OBVIOUS
<1>1. /\ UNCHANGED <<sref, sname, sframes, life, plug, data, name, wanted, valid, shows>>
      /\ UNCHANGED <<step, who, then, todo>> /\ step = "drop"
  BY DEF DropFrame
<1> QED
  BY <1>1, RestRight

(* The struct that is freed is not listed.                                 *)
LEMMA FreedRight ==
  ASSUME IInv, Right, step \in {"drop", "unwind"}, step' \in {"after", "callback"}, FreeStruct,
         UNCHANGED <<sref, life, data, render, task, wanted>>,
         step = "unwind" => step' = "callback"
  PROVE  Right'
<1>1. spr \in Slot /\ sref[spr] = 0 /\ Listed' = Listed
  BY DEF IInv, Loop, Listed
<1>2. \A s \in Listed: s # spr /\ sname'[s] = sname[s] /\ sframes'[s] = sframes[s]
  BY <1>1 DEF Listed, FreeStruct, IInv, SpritesType
<1>3. ASSUME NEW x \in Ent PROVE TextKept(x)' /\ ShowsRight(x)'
  <2>1. valid[x] => sname'[shows[x]] = sname[shows[x]] /\ sframes'[shows[x]] = sframes[shows[x]]
    BY <1>2, ShownListed
  <2>2. valid[x] => ~(x = who /\ step = "callback" /\ todo > 0)
    OBVIOUS
  <2> QED
    BY <2>1, <2>2 DEF Right, TextKept, ShowsRight
<1>4. DataKept' /\ ListedRight' /\ FillsRight'
  BY <1>1, <1>2 DEF Right, DataKept, ListedRight, FillsRight
<1> QED
  BY <1>3, <1>4 DEF Right

LEMMA PlugRight == IInv /\ Right /\ Plug => Right'
<1> SUFFICES ASSUME IInv, Right, Plug PROVE Right'
  OBVIOUS
<1>1. /\ plug' = [plug EXCEPT ![who] = TRUE] /\ name' = [name EXCEPT ![who] = data[who]]
      /\ step = "after" /\ then = "plug" /\ todo' = 2 /\ step' = "callback" /\ who' = who
      /\ UNCHANGED <<sref, sname, sframes, life, data, valid, shows, wanted>>
  BY DEF Plug
<1>2. who \in Ent /\ data[who] = wanted[who] /\ ~valid[who]
  BY <1>1 DEF IInv, SpritesType, Operation, Right, DataKept
<1>3. ASSUME NEW x \in Ent PROVE TextKept(x)' /\ ShowsRight(x)'
  BY <1>1, <1>2 DEF Right, TextKept, ShowsRight, IInv, SpritesType
<1>4. DataKept' /\ ListedRight' /\ FillsRight'
  BY <1>1 DEF Right, DataKept, ListedRight, FillsRight, Listed
<1> QED
  BY <1>3, <1>4 DEF Right

LEMMA UnplugRight == IInv /\ Right /\ Unplug => Right'
<1> SUFFICES ASSUME IInv, Right, Unplug PROVE Right'
  OBVIOUS
<1>1. /\ plug' = [plug EXCEPT ![who] = FALSE] /\ name' = [name EXCEPT ![who] = NONE]
      /\ step = "after" /\ then \in {"none", "free"} /\ step' = "idle"
      /\ life' = IF then = "free" THEN [life EXCEPT ![who] = "none"] ELSE life
      /\ UNCHANGED <<sref, sname, sframes, data, valid, shows, wanted>>
  BY DEF Unplug, OperationDone
<1>2. who \in Ent /\ (then = "none" => data[who] = wanted[who]) /\ ~valid[who]
  BY <1>1 DEF IInv, SpritesType, Operation, Right, DataKept
<1>3. ASSUME NEW x \in Ent PROVE TextKept(x)' /\ ShowsRight(x)'
  BY <1>1, <1>2 DEF Right, TextKept, ShowsRight, IInv, SpritesType
<1>4. DataKept' /\ ListedRight' /\ FillsRight'
  BY <1>1 DEF Right, DataKept, ListedRight, FillsRight, Listed
<1> QED
  BY <1>3, <1>4 DEF Right

LEMMA CallbacksDoneRight == IInv /\ Right /\ CallbacksDone => Right'
<1> SUFFICES ASSUME IInv, Right, CallbacksDone PROVE Right'
  OBVIOUS
<1>1. /\ UNCHANGED <<sref, sname, sframes, life, plug, data, name, wanted, valid, shows>>
      /\ step = "callback" /\ todo = 0 /\ step' = "idle"
  BY DEF CallbacksDone, OperationDone
<1> QED
  BY <1>1, RestRight

(* A load that gives nothing; the callback after it finds nothing shown.   *)
LEMMA NothingRight ==
  ASSUME IInv, Right, step \in {"after", "frames", "unwind"}, step' \in {"callback", "unwind"},
         UNCHANGED <<sref, sname, sframes, life, plug, data, name, wanted, valid, shows>>
  PROVE  Right'
BY RestRight

LEMMA LoadFrameRight == IInv /\ Right /\ LoadFrame => Right'
<1> SUFFICES ASSUME IInv, Right, LoadFrame PROVE Right'
  OBVIOUS
<1>1. /\ UNCHANGED <<sref, sname, sframes, life, plug, data, name, owner, wanted, valid, shows>>
      /\ UNCHANGED <<step, who, then, todo, spr>> /\ step = "frames"
  BY DEF LoadFrame
<1>2. ASSUME NEW x \in Ent PROVE TextKept(x)' /\ ShowsRight(x)'
  BY <1>1 DEF Right, TextKept, ShowsRight
<1>3. DataKept' /\ ListedRight'
  BY <1>1 DEF Right, DataKept, ListedRight, Listed
<1>4. FillsRight'
  BY <1>1 DEF Right, FillsRight, Reads
<1> QED
  BY <1>2, <1>3, <1>4 DEF Right

(* The entity shows s, whose name is the text that game code has set.      *)
LEMMA ShowRight ==
  ASSUME IInv, Right, NEW s \in Slot, NEW n \in Name, n = name[who], Show(s, n),
         step \in {"after", "frames"}, step' = "callback", plug[who],
         UNCHANGED <<life, data, plug, who, then, todo, wanted, sframes>>,
         Listed' \subseteq Listed \cup {s},
         sname'[s] = n, sframes[s] = Frames[n],
         \A u \in Listed: sname'[u] = sname[u]
  PROVE  Right'
<1>1. who \in Ent /\ life[who] # "none" /\ n = wanted[who]
  <2>1. who \in Ent /\ life[who] # "none"
    BY DEF IInv, SpritesType, Operation
  <2> QED
    BY <2>1 DEF Right, TextKept
<1>2. /\ valid' = [valid EXCEPT ![who] = TRUE] /\ shows' = [shows EXCEPT ![who] = s]
      /\ name' = [name EXCEPT ![who] = n]
  BY DEF Show
<1>3. ASSUME NEW x \in Ent PROVE TextKept(x)'
  BY <1>1, <1>2 DEF Right, TextKept, IInv, SpritesType
<1>4. ASSUME NEW x \in Ent PROVE ShowsRight(x)'
  <2>1. CASE x = who
    BY <1>1, <1>2, <2>1 DEF ShowsRight, IInv, SpritesType
  <2>2. CASE x # who
    <3>1. valid'[x] = valid[x] /\ shows'[x] = shows[x]
      BY <1>1, <1>2, <2>2 DEF IInv, SpritesType
    <3>2. ASSUME valid[x] PROVE sname'[shows[x]] = wanted[x] /\ sframes[shows[x]] = Frames[wanted[x]] /\ wanted[x] \in Name
      <4>1. shows[x] \in Listed
        BY <3>2, ShownListed
      <4>2. wanted[x] \in Name /\ sname[shows[x]] = wanted[x] /\ sframes[shows[x]] = Frames[wanted[x]]
        BY <2>2, <3>2 DEF Right, ShowsRight
      <4> QED
        BY <4>1, <4>2
    <3> QED
      BY <3>1, <3>2 DEF ShowsRight
  <2> QED
    BY <2>1, <2>2
<1>5. DataKept' /\ FillsRight'
  BY DEF DataKept, FillsRight
<1>6. ListedRight'
  BY DEF Right, ListedRight
<1> QED
  BY <1>3, <1>4, <1>5, <1>6 DEF Right

LEMMA LoadCachedRight == ASSUME IInv, Right, misread' = FALSE, LoadCached PROVE Right'
<1>1. PICK n \in Reads(who) \ {NONE}, s \in Slot:
        s \in Find(n) /\ Found(s) /\ Show(s, n) /\ misread' = (misread \/ n # name[who])
  BY Zenon DEF LoadCached
<1>2. n = name[who]
  BY <1>1, Zenon
<1>3. /\ step = "after" /\ then = "name" /\ step' = "callback"
      /\ UNCHANGED <<sname, sframes, life, data, plug, who, then, todo, wanted>>
  BY DEF LoadCached
<1>4. plug[who]
  BY <1>3 DEF IInv, Operation
<1>5. s \in Listed /\ sname[s] = n
  BY <1>1 DEF Find
<1>6. n \in Name /\ sframes[s] = Frames[n]
  BY <1>5 DEF Right, ListedRight
<1>7. Listed' \subseteq Listed \cup {s}
  <2>1. sref' = [sref EXCEPT ![s] = @ + 1]
    BY <1>1 DEF Found
  <2> QED
    BY <2>1 DEF Listed, IInv, SpritesType
<1>8. Show(s, n)
  BY <1>1
<1> QED
  BY <1>2, <1>3, <1>4, <1>5, <1>6, <1>7, <1>8, ShowRight

LEMMA LoadFileRight == IInv /\ Right /\ LoadFile => Right'
<1> SUFFICES ASSUME IInv, Right, LoadFile PROVE Right'
  OBVIOUS
<1>1. PICK n \in Reads(who) \cap Name, s \in Slot \ Listed:
        spr' = s /\ sframes' = [sframes EXCEPT ![s] = Frames[n]]
  BY DEF LoadFile
<1>2. /\ step = "after" /\ then = "name" /\ step' = "frames"
      /\ UNCHANGED <<sref, sname, life, data, plug, valid, shows, name, owner, who, wanted>>
  BY DEF LoadFile
<1>3. Listed' = Listed /\ \A u \in Listed: sframes'[u] = sframes[u]
  BY <1>1, <1>2 DEF Listed, IInv, SpritesType
<1>4. ASSUME NEW x \in Ent PROVE TextKept(x)' /\ ShowsRight(x)'
  <2>1. valid[x] => sframes'[shows[x]] = sframes[shows[x]]
    BY <1>3, ShownListed
  <2>2. valid[x] => ~(x = who /\ step = "callback" /\ todo > 0)
    BY <1>2
  <2> QED
    BY <1>2, <2>1, <2>2 DEF Right, TextKept, ShowsRight
<1>5. DataKept' /\ ListedRight'
  BY <1>2, <1>3 DEF Right, DataKept, ListedRight
<1>6. FillsRight'
  <2>1. sframes'[spr'] = Frames[n] /\ n \in Name
    BY <1>1 DEF IInv, SpritesType
  <2>2. name[who] \in Reads(who) => n = name[who]
    BY <1>1, JunkAssumption DEF Reads
  <2>3. name'[who'] = name[who] /\ (Reads(who))' = Reads(who)
    BY <1>2 DEF Reads
  <2> QED
    BY <2>1, <2>2, <2>3 DEF FillsRight
<1> QED
  BY <1>4, <1>5, <1>6 DEF Right

LEMMA LoadDoneRight == ASSUME IInv, Right, misread' = FALSE, LoadDone PROVE Right'
<1>1. PICK n \in Reads(who):
        /\ sname' = [sname EXCEPT ![spr] = n] /\ Show(spr, n)
        /\ misread' = (misread \/ n # name[who])
  BY Zenon DEF LoadDone
<1>2. n = name[who]
  BY <1>1, Zenon
<1>3. /\ step = "frames" /\ step' = "callback" /\ sref' = [sref EXCEPT ![spr] = 1]
      /\ UNCHANGED <<sframes, life, data, plug, who, then, todo, wanted>>
  BY DEF LoadDone
<1>4. plug[who] /\ spr \in Slot /\ sref[spr] = 0
  BY <1>3 DEF IInv, Operation, Loop
<1>5. n \in Name /\ sframes[spr] = Frames[n]
  BY <1>1, <1>2, <1>3 DEF Right, FillsRight
<1>6. Listed' \subseteq Listed \cup {spr} /\ spr \notin Listed
  BY <1>3, <1>4 DEF Listed, IInv, SpritesType
<1>7. sname'[spr] = n /\ \A u \in Listed: sname'[u] = sname[u]
  BY <1>1, <1>4, <1>6 DEF IInv, SpritesType, Listed
<1>8. Show(spr, n)
  BY <1>1
<1> QED
  BY <1>2, <1>3, <1>4, <1>5, <1>6, <1>7, <1>8, ShowRight

LEMMA InitRight == SpritesInit => Right
<1> SUFFICES ASSUME SpritesInit PROVE Right
  OBVIOUS
<1>1. Listed = {}
  BY DEF SpritesInit, Listed
<1> QED
  BY <1>1 DEF SpritesInit, Right, TextKept, DataKept, ShowsRight, ListedRight, FillsRight

(* A misread is never forgotten.                                           *)
LEMMA MisreadStays ==
  ASSUME [SpritesNext]_spritesVars, misread PROVE misread'
<1>1. ASSUME NEW e \in Ent, Spawn(e) \/ Remove(e) \/ Free(e) \/ SetUi(e) PROVE misread'
  BY <1>1 DEF Spawn, Remove, Free, SetUi
<1>2. ASSUME NEW e \in Ent, NEW n \in Name \cup {NONE}, SetSprite(e, n) PROVE misread'
  BY <1>2 DEF SetSprite
<1>3. ASSUME NEW e \in Ent, NEW on \in BOOLEAN, SetRender(e, on) PROVE misread'
  BY <1>3, Zenon DEF SetRender
<1>4. CASE DropFrame \/ Dropped \/ Plug \/ Unplug
  BY <1>4 DEF DropFrame, Dropped, Plug, Unplug
<1>5. CASE Callback \/ CallbacksDone \/ LoadNothing \/ LoadFile \/ LoadFrame \/ LoadFails \/ Unwind \/ Unwound
  BY <1>5 DEF Callback, CallbacksDone, LoadNothing, LoadFile, LoadFrame, LoadFails, Unwind, Unwound
<1>6. CASE LoadCached \/ LoadMissing \/ LoadDone
  BY <1>6, Zenon DEF LoadCached, LoadMissing, LoadDone
<1>7. CASE UNCHANGED spritesVars
  BY <1>7 DEF spritesVars
<1> QED
  BY <1>1, <1>2, <1>3, <1>4, <1>5, <1>6, <1>7, Zenon DEF SpritesNext, Reload

LEMMA NextRight ==
  ASSUME IInv, Right, misread' = FALSE, [SpritesNext]_spritesVars PROVE Right'
<1>1. ASSUME NEW e \in Ent, Spawn(e) PROVE Right'
  BY <1>1, SpawnRight
<1>2. ASSUME NEW e \in Ent, NEW n \in Name \cup {NONE}, SetSprite(e, n) PROVE Right'
  BY <1>2, SetSpriteRight
<1>3. ASSUME NEW e \in Ent, SetUi(e) PROVE Right'
  BY <1>3, SetUiRight
<1>4. ASSUME NEW e \in Ent, NEW on \in BOOLEAN, SetRender(e, on) PROVE Right'
  BY <1>4, SetRenderRight
<1>5. ASSUME NEW e \in Ent, Remove(e) PROVE Right'
  BY <1>5, RemoveRight
<1>6. ASSUME NEW e \in Ent, Free(e) PROVE Right'
  BY <1>6, FreeRight
<1>7. CASE Dropped \/ Unwound
  BY <1>7, FreedRight DEF Dropped, Unwound
<1>8. CASE Plug \/ Unplug \/ DropFrame
  BY <1>8, PlugRight, UnplugRight, DropFrameRight
<1>9. CASE LoadNothing \/ LoadMissing \/ LoadFails
  BY <1>9, NothingRight DEF LoadNothing, LoadMissing, LoadFails
<1>10. CASE Unwind
  <2>1. /\ UNCHANGED <<sref, sname, sframes, life, plug, data, name, wanted, valid, shows>>
        /\ UNCHANGED <<step, who, then, todo>> /\ step = "unwind"
    BY <1>10 DEF Unwind
  <2> QED
    BY <2>1, RestRight
<1>11. CASE Callback \/ CallbacksDone \/ LoadFile \/ LoadFrame
  BY <1>11, CallbackRight, CallbacksDoneRight, LoadFileRight, LoadFrameRight
<1>12. CASE LoadCached \/ LoadDone
  BY <1>12, LoadCachedRight, LoadDoneRight
<1>13. CASE UNCHANGED spritesVars
  <2>1. /\ UNCHANGED <<sref, sname, sframes, life, plug, data, name, owner, wanted, valid, shows>>
        /\ UNCHANGED <<step, who, then, todo, spr>>
    BY <1>13 DEF spritesVars
  <2>2. ASSUME NEW x \in Ent PROVE TextKept(x)' /\ ShowsRight(x)'
    BY <2>1 DEF Right, TextKept, ShowsRight
  <2>3. DataKept' /\ ListedRight' /\ FillsRight'
    BY <2>1 DEF Right, DataKept, ListedRight, FillsRight, Listed, Reads
  <2> QED
    BY <2>2, <2>3 DEF Right
<1> QED
  BY <1>1, <1>2, <1>3, <1>4, <1>5, <1>6, <1>7, <1>8, <1>9, <1>10, <1>11, <1>12, <1>13, Zenon
     DEF SpritesNext, Reload

(* Between operations an entity shows the sprite game code has last asked  *)
(* for, with the textures of that sprite's file, unless a freed name has   *)
(* been misread.                                                           *)
THEOREM ShowsAsWanted == SpritesSpec => []ShowsWanted
<1>1. SpritesInit => misread \/ Right
  BY InitRight, Zenon
<1>2. IInv /\ IInv' /\ (misread \/ Right) /\ [SpritesNext]_spritesVars => (misread \/ Right)'
  <2> SUFFICES ASSUME IInv, IInv', misread \/ Right, [SpritesNext]_spritesVars, ~misread'
               PROVE  Right'
    OBVIOUS
  <2>1. Right
    BY MisreadStays, Zenon
  <2>2. misread' = FALSE
    BY DEF IInv, SpritesType
  <2> QED
    BY <2>1, <2>2, NextRight, Zenon
<1>3. IInv /\ (misread \/ Right) => ShowsWanted
  <2> SUFFICES ASSUME Right, step = "idle", NEW e \in Ent, valid[e]
               PROVE  /\ wanted[e] # NONE /\ sname[shows[e]] = wanted[e]
                      /\ sframes[shows[e]] = Frames[wanted[e]]
    BY Zenon DEF ShowsWanted
  <2> QED
    BY JunkAssumption DEF Right, ShowsRight
<1> QED
  BY <1>1, <1>2, <1>3, Inductive, PTL DEF SpritesSpec

-----------------------------------------------------------------------------
(* A fade (Fade).                                                         *)

Flags ==
  /\ plugged \in BOOLEAN /\ finished \in BOOLEAN
  /\ visible \in BOOLEAN /\ steady \in BOOLEAN
Numbers ==
  /\ clock \in Nat /\ speed \in Nat \ {0}
  /\ alpha \in Int /\ alphaEnd \in Int /\ alphaStart \in Int
  /\ length \in Int /\ timeStart \in Int /\ thinks \in Nat
FadeType == Flags /\ Numbers

(* The parts of FadeKept; and a fade that nothing has disturbed began in   *)
(* the past.                                                               *)
ThinksOnce == thinks = IF finished THEN 1 ELSE 0
DrawnOnly  == (visible <=> plugged /\ length > 0) /\ (~visible => ~finished)
AlphaBetween == steady /\ visible =>
                /\ alpha >= Lower(alphaStart, alphaEnd) - Slack
                /\ alpha <= Upper(alphaStart, alphaEnd) + Slack
EndsThere  == steady /\ visible /\ finished => alpha = alphaEnd /\ Over
Begun      == steady => timeStart <= RealTime(clock)

FadeInv == FadeType /\ ThinksOnce /\ DrawnOnly /\ AlphaBetween /\ EndsThere /\ Begun

(* What C's and TLA's division have in common.                             *)
LEMMA Quotient ==
  ASSUME NEW a \in Int, NEW b \in Nat \ {0}, NEW q \in Int, q = a \div b
  PROVE  q * b <= a /\ a < q * b + b
  OBVIOUS

LEMMA QuotientLeast ==
  ASSUME NEW a \in Int, NEW b \in Nat \ {0}, NEW k \in Int
  PROVE  /\ a < k * b => a \div b < k
         /\ a >= k * b => a \div b >= k
  OBVIOUS

LEMMA Products ==
  ASSUME NEW d \in Int, NEW m \in Int, NEW x \in Int, d >= 0, d <= m, x >= 0
  PROVE  d * x >= 0 /\ d * x <= m * x
  OBVIOUS

(* How far a fade gets that goes on for less than one more reading.        *)
LEMMA FadesBetween ==
  ASSUME NEW s \in Int, NEW e \in Int, NEW l \in Nat \ {0}, NEW v \in Nat \ {0},
         NEW d \in Nat, d <= l + v
  PROVE  LET slack == (v * (Upper(s, e) - Lower(s, e))) \div l + 1
             f == s + (d * (e - s)) \div l
         IN  f \in Int /\ f >= Lower(s, e) - slack /\ f <= Upper(s, e) + slack
<1> DEFINE x == Upper(s, e) - Lower(s, e)
           q == (v * x) \div l
           m == l + v
           f == s + (d * (e - s)) \div l
<1>1. x \in Nat /\ m \in Nat
  BY DEF Upper, Lower
<1>2. v * x \in Nat /\ q \in Int /\ v * x < q * l + l
  BY <1>1, Quotient
<1>3. q >= 0
  BY <1>1, <1>2, QuotientLeast
<1>4. d * x \in Nat /\ d * x <= m * x
  BY <1>1, Products
<1>5. m * x = l * x + v * x
  BY <1>1
<1>6. d * x < (x + q + 1) * l
  <2> HIDE DEF x, q, m
  <2>1. (x + q + 1) * l = x * l + q * l + l
    BY <1>1, <1>2
  <2>2. l * x = x * l
    BY <1>1
  <2> QED
    BY <1>1, <1>2, <1>4, <1>5, <2>1, <2>2
<1>7. CASE s <= e
  <2>1. x = e - s /\ Upper(s, e) = e /\ Lower(s, e) = s
    BY <1>7 DEF Upper, Lower
  <2> HIDE DEF x, q, m
  <2>2. (d * x) \div l >= 0
    BY <1>4, QuotientLeast
  <2>3. (d * x) \div l < x + q + 1
    BY <1>1, <1>2, <1>4, <1>6, QuotientLeast
  <2>4. f = s + (d * x) \div l /\ (d * x) \div l \in Int
    BY <1>4, <2>1
  <2> QED
    BY <1>1, <1>2, <1>3, <2>1, <2>2, <2>3, <2>4 DEF q
<1>8. CASE e < s
  <2>1. x = s - e /\ Upper(s, e) = s /\ Lower(s, e) = e
    BY <1>8 DEF Upper, Lower
  <2>2. d * (e - s) = -(d * x)
    BY <2>1
  <2> HIDE DEF x, q, m
  <2>3. (-(d * x)) \div l < 1
    BY <1>4, QuotientLeast
  <2>4. -(d * x) >= (-(x + q + 1)) * l
    <3>1. (-(x + q + 1)) * l = -((x + q + 1) * l)
      BY <1>1, <1>2
    <3> QED
      BY <1>1, <1>2, <1>4, <1>6, <3>1
  <2>5. (-(d * x)) \div l >= -(x + q + 1)
    BY <1>1, <1>2, <1>4, <2>4, QuotientLeast
  <2>6. f = s + (-(d * x)) \div l /\ (-(d * x)) \div l \in Int
    BY <1>4, <2>2
  <2> QED
    BY <1>1, <1>2, <1>3, <2>1, <2>3, <2>5, <2>6 DEF q
<1> QED
  BY <1>7, <1>8

(* Either end is between the ends, so a fade that begins from the alpha it *)
(* has is, and one that is over.                                           *)
LEMMA EndsBetween ==
  ASSUME NEW s \in Int, NEW e \in Int, NEW l \in Nat \ {0}, NEW v \in Nat \ {0}
  PROVE  LET slack == (v * (Upper(s, e) - Lower(s, e))) \div l + 1
         IN  /\ s >= Lower(s, e) - slack /\ s <= Upper(s, e) + slack
             /\ e >= Lower(s, e) - slack /\ e <= Upper(s, e) + slack
<1> DEFINE x == Upper(s, e) - Lower(s, e)
<1>1. x \in Nat
  BY DEF Upper, Lower
<1>2. v * x \in Nat
  BY <1>1
<1>3. (v * x) \div l >= 0 /\ (v * x) \div l \in Int
  BY <1>2, QuotientLeast
<1> QED
  BY <1>3 DEF Upper, Lower

LEMMA FadeInductive == FadeInv /\ [FadeNext]_fadeVars => FadeInv'
<1> SUFFICES ASSUME FadeInv, [FadeNext]_fadeVars
             PROVE  FadeInv'
  OBVIOUS
<1> USE DEF fadeFields
<1>0. FadeType /\ ThinksOnce /\ DrawnOnly /\ AlphaBetween /\ EndsThere /\ Begun
  BY DEF FadeInv
<1>1. ASSUME NEW t \in 0 .. MaxClock, SetClock(t) PROVE FadeInv'
  <2>1. t \in Nat
    BY FadeAssumption
  <2>0. FadeType'
    <3>1. plugged' \in BOOLEAN /\ finished' \in BOOLEAN
      BY <1>0, <1>1, <2>1 DEF SetClock, FadeType, Flags
    <3>2. visible' \in BOOLEAN /\ steady' \in BOOLEAN
      BY <1>0, <1>1, <2>1 DEF SetClock, FadeType, Flags
    <3>3. Numbers'
      BY <1>0, <1>1, <2>1, FadeAssumption DEF SetClock, FadeType, Numbers, RealTime
    <3> QED
      BY <3>1, <3>2, <3>3 DEF FadeType, Flags
  <2>2. FadeType' /\ ThinksOnce' /\ DrawnOnly'
    BY <1>0, <1>1, <2>0 DEF SetClock, ThinksOnce, DrawnOnly
  <2>3. steady' => steady /\ t >= clock /\ t * speed >= clock * speed
    <3>1. steady' => steady /\ t >= clock
      BY <1>1, Zenon DEF SetClock
    <3>2. t >= clock => t * speed >= clock * speed
      BY <1>0, <2>1 DEF FadeType, Numbers
    <3> QED
      BY <3>1, <3>2
  <2>4. AlphaBetween'
    BY <1>0, <1>1, <2>3 DEF SetClock, AlphaBetween, Slack
  <2>5. EndsThere' /\ Begun'
    <3>1. timeStart' = timeStart /\ speed' = speed /\ clock' = t /\ length' = length
      BY <1>1 DEF SetClock
    <3>2. t * speed \in Int /\ clock * speed \in Int
      BY <1>0, <2>1 DEF FadeType, Flags, Numbers
    <3>3. Begun'
      BY <1>0, <2>3, <3>1, <3>2 DEF Begun, RealTime, FadeType, Flags, Numbers
    <3>4. EndsThere'
      BY <1>0, <1>1, <2>3, <3>1, <3>2 DEF SetClock, EndsThere, Over, RealTime, FadeType, Flags, Numbers
    <3> QED
      BY <3>3, <3>4
  <2> QED
    BY <2>2, <2>4, <2>5 DEF FadeInv
<1>2. ASSUME NEW s \in Speeds, SetSpeed(s) PROVE FadeInv'
  BY <1>0, <1>2, FadeAssumption
  DEF SetSpeed, FadeInv, FadeType, Flags, Numbers, ThinksOnce, DrawnOnly, AlphaBetween, EndsThere, Begun
<1>3. ASSUME NEW a \in Alphas, NEW e \in Alphas, NEW l \in Lengths, PlugFade(a, e, l) PROVE FadeInv'
  <2>1. FadeType'
    <3>1. plugged' \in BOOLEAN /\ finished' \in BOOLEAN
      BY <1>0, <1>3 DEF PlugFade, FadeType, Flags
    <3>2. visible' \in BOOLEAN /\ steady' \in BOOLEAN
      BY <1>0, <1>3 DEF PlugFade, FadeType, Flags
    <3>3. Numbers'
      BY <1>0, <1>3, FadeAssumption DEF PlugFade, FadeType, Numbers, RealTime
    <3> QED
      BY <3>1, <3>2, <3>3 DEF FadeType, Flags
  <2>2. ThinksOnce' /\ DrawnOnly' /\ EndsThere'
    BY <1>3 DEF PlugFade, ThinksOnce, DrawnOnly, EndsThere
  <2>3. Begun'
    BY <1>0, <1>3, <2>1 DEF PlugFade, Begun, RealTime, FadeType, Flags, Numbers
  <2>4. AlphaBetween'
    <3>1. alpha' = alphaStart' /\ (visible' => length' > 0)
      BY <1>3 DEF PlugFade
    <3> QED
      BY <2>1, <3>1, EndsBetween DEF AlphaBetween, Slack, FadeType, Flags, Numbers
  <2> QED
    BY <2>1, <2>2, <2>3, <2>4 DEF FadeInv
<1>4. CASE UnplugFade
  <2>0. FadeType'
    <3>1. plugged' \in BOOLEAN /\ finished' \in BOOLEAN
      BY <1>0, <1>4 DEF UnplugFade, FadeType, Flags
    <3>2. visible' \in BOOLEAN /\ steady' \in BOOLEAN
      BY <1>0, <1>4 DEF UnplugFade, FadeType, Flags
    <3>3. Numbers'
      BY <1>0, <1>4, FadeAssumption DEF UnplugFade, FadeType, Numbers, RealTime
    <3> QED
      BY <3>1, <3>2, <3>3 DEF FadeType, Flags
  <2> QED
    BY <1>4, <2>0 DEF UnplugFade, FadeInv, ThinksOnce, DrawnOnly, AlphaBetween, EndsThere, Begun
<1>5. ASSUME NEW a \in Alphas, AssignAlpha(a) PROVE FadeInv'
  <2>1. FadeType' /\ ThinksOnce' /\ DrawnOnly' /\ Begun'
    BY <1>0, <1>5, FadeAssumption DEF AssignAlpha, FadeType, Flags, Numbers, ThinksOnce, DrawnOnly, Begun, RealTime
  <2>2. steady' => steady /\ UNCHANGED alpha
    BY <1>0, <1>5 DEF AssignAlpha, FadeType, Flags, Numbers
  <2>3. UNCHANGED <<clock, speed, alphaEnd, length, alphaStart, timeStart, finished, visible>>
    BY <1>5 DEF AssignAlpha
  <2>4. AlphaBetween' /\ EndsThere'
    BY <1>0, <2>2, <2>3 DEF AlphaBetween, EndsThere, Slack, Over, RealTime
  <2> QED
    BY <2>1, <2>4 DEF FadeInv
<1>6. ASSUME NEW e \in Alphas, AssignAlphaEnd(e) PROVE FadeInv'
  <2>0. FadeType'
    <3>1. plugged' \in BOOLEAN /\ finished' \in BOOLEAN
      BY <1>0, <1>6 DEF AssignAlphaEnd, FadeType, Flags
    <3>2. visible' \in BOOLEAN /\ steady' \in BOOLEAN
      BY <1>0, <1>6 DEF AssignAlphaEnd, FadeType, Flags
    <3>3. Numbers'
      BY <1>0, <1>6, FadeAssumption DEF AssignAlphaEnd, FadeType, Numbers, RealTime
    <3> QED
      BY <3>1, <3>2, <3>3 DEF FadeType, Flags
  <2>a. ThinksOnce' /\ EndsThere'
    BY <1>6 DEF AssignAlphaEnd, ThinksOnce, EndsThere
  <2>b. DrawnOnly'
    BY <1>0, <1>6 DEF AssignAlphaEnd, FadeType, Flags, DrawnOnly
  <2>c. Begun'
    <3>1. steady' => timeStart = RealTime(clock)
      BY <1>6, Zenon DEF AssignAlphaEnd
    <3>2. UNCHANGED <<clock, speed, timeStart>> /\ RealTime(clock) \in Int
      BY <1>0, <1>6 DEF AssignAlphaEnd, FadeType, Numbers, RealTime
    <3> QED
      BY <3>1, <3>2 DEF Begun, RealTime
  <2>1. FadeType' /\ ThinksOnce' /\ DrawnOnly' /\ Begun' /\ EndsThere'
    BY <2>0, <2>a, <2>b, <2>c
  <2>2. alpha' = alphaStart' /\ (visible' => length' > 0)
    BY <1>0, <1>6 DEF AssignAlphaEnd, DrawnOnly, FadeType, Flags, Numbers
  <2> QED
    <3>1. AlphaBetween'
      BY <2>1, <2>2, EndsBetween DEF AlphaBetween, Slack, FadeType, Flags, Numbers
    <3> QED
      BY <2>1, <3>1 DEF FadeInv
<1>7. ASSUME NEW l \in Lengths, AssignLength(l) PROVE FadeInv'
  <2>0. FadeType'
    <3>1. plugged' \in BOOLEAN /\ finished' \in BOOLEAN
      BY <1>0, <1>7 DEF AssignLength, FadeType, Flags
    <3>2. visible' \in BOOLEAN /\ steady' \in BOOLEAN
      BY <1>0, <1>7 DEF AssignLength, FadeType, Flags
    <3>3. Numbers'
      BY <1>0, <1>7, FadeAssumption DEF AssignLength, FadeType, Numbers, RealTime
    <3> QED
      BY <3>1, <3>2, <3>3 DEF FadeType, Flags
  <2>b. ThinksOnce' /\ EndsThere'
    BY <1>7 DEF AssignLength, ThinksOnce, EndsThere
  <2>c. Begun'
    BY <1>0, <1>7 DEF AssignLength, FadeType, Numbers, Begun, RealTime
  <2>1. FadeType' /\ ThinksOnce' /\ Begun' /\ EndsThere'
    BY <2>0, <2>b, <2>c
  <2>2. DrawnOnly'
    BY <1>0, <1>7 DEF AssignLength, DrawnOnly, FadeType, Flags, Numbers
  <2>3. (steady' => alpha' = alphaStart') /\ (visible' => length' > 0)
    BY <1>7 DEF AssignLength
  <2> QED
    <3>1. AlphaBetween'
      BY <2>1, <2>3, EndsBetween DEF AlphaBetween, Slack, FadeType, Flags, Numbers
    <3> QED
      BY <2>1, <2>2, <3>1 DEF FadeInv
<1>8. CASE EndFade
  <2>1. FadeType' /\ ThinksOnce' /\ DrawnOnly' /\ Begun'
    BY <1>0, <1>8 DEF EndFade, FadeType, Flags, Numbers, ThinksOnce, DrawnOnly, Begun, RealTime
  <2>2. EndsThere'
    BY <1>8 DEF EndFade, EndsThere, Over, RealTime
  <2>3. alpha' = alphaEnd' /\ length' > 0
    BY <1>0, <1>8 DEF EndFade, DrawnOnly, FadeType, Flags, Numbers
  <2>4. AlphaBetween'
    BY <2>1, <2>3, EndsBetween DEF AlphaBetween, Slack, FadeType, Flags, Numbers
  <2> QED
    BY <2>1, <2>2, <2>4 DEF FadeInv
<1>9. ASSUME NEW t \in {clock, clock + 1}, GoOn(t) PROVE FadeInv'
  <2>1. t \in Nat /\ t >= clock /\ t <= clock + 1 /\ length > 0
    BY <1>0, <1>9 DEF FadeType, Flags, Numbers, GoOn, DrawnOnly
  <2>2. length \in Nat \ {0} /\ speed \in Nat \ {0}
    BY <1>0, <2>1 DEF FadeType, Flags, Numbers
  <2>3. Faded(t) \in Int
    BY <1>0, <2>1, <2>2 DEF Faded, RealTime, FadeType, Flags, Numbers
  <2>4. FadeType' /\ ThinksOnce' /\ DrawnOnly' /\ EndsThere'
    BY <1>0, <1>9, <2>1, <2>3 DEF GoOn, FadeType, Flags, Numbers, ThinksOnce, DrawnOnly, EndsThere
  <2>5. t * speed \in Int /\ clock * speed \in Int /\ t * speed >= clock * speed
        /\ t * speed <= clock * speed + speed
    BY <1>0, <2>1, <2>2 DEF FadeType, Flags, Numbers
  <2>6. Begun'
    BY <1>0, <1>9, <2>5 DEF GoOn, Begun, RealTime, FadeType, Flags, Numbers
  <2>7. ASSUME steady PROVE Faded(t) >= Lower(alphaStart, alphaEnd) - Slack
                            /\ Faded(t) <= Upper(alphaStart, alphaEnd) + Slack
    <3>1. RealTime(t) - timeStart \in Nat /\ RealTime(t) - timeStart <= length + speed
      BY <1>0, <1>9, <2>5, <2>7 DEF GoOn, Over, Begun, RealTime, FadeType, Flags, Numbers
    <3> QED
      BY <1>0, <2>2, <3>1, FadesBetween DEF FadeType, Flags, Numbers, Faded, Slack
  <2>8. AlphaBetween'
    BY <1>9, <2>7 DEF GoOn, AlphaBetween, Slack
  <2> QED
    BY <2>4, <2>6, <2>8 DEF FadeInv
<1>10. CASE UNCHANGED fadeVars
  BY <1>0, <1>10 DEF fadeVars, FadeInv, FadeType, Flags, Numbers, ThinksOnce, DrawnOnly, AlphaBetween, EndsThere, Begun,
                     Slack, Over, RealTime
<1> QED
  BY <1>1, <1>2, <1>3, <1>4, <1>5, <1>6, <1>7, <1>8, <1>9, <1>10 DEF FadeNext

(* Whatever is assigned and however the clock runs (g_render_fade.c): a    *)
(* fade makes its entity think once and only at its end, and one that      *)
(* nothing disturbs stays between its ends, for any lengths and speeds.    *)
THEOREM FadeKeeps == FadeSpec => []FadeKept
<1>1. ASSUME FadeInit PROVE FadeInv
  <2>1. Flags
    BY <1>1 DEF FadeInit, Flags
  <2>2. Numbers
    BY <1>1, FadeAssumption DEF FadeInit, Numbers
  <2> QED
    BY <1>1, <2>1, <2>2
    DEF FadeInit, FadeInv, FadeType, Flags, Numbers, ThinksOnce, DrawnOnly, AlphaBetween, EndsThere, Begun
<1>2. ASSUME FadeInv PROVE FadeKept
  <2>1. visible = (plugged /\ length > 0)
    BY <1>2 DEF FadeInv, FadeType, Flags, DrawnOnly
  <2> QED
    BY <1>2, <2>1, Zenon DEF FadeInv, FadeKept, ThinksOnce, DrawnOnly, AlphaBetween, EndsThere
<1> QED
  BY <1>1, <1>2, FadeInductive, PTL DEF FadeSpec

-----------------------------------------------------------------------------
(* A line or a circle (Beams).                                            *)

-----------------------------------------------------------------------------
(* What is kept of an entity's geometry is what its fields give, with the  *)
(* origin it was last computed for; but for a line without a texture, or   *)
(* with one that has come after its geometry.                              *)
LineHeld ==
  plugin = "line" /\ rvalid /\ ~late =>
    IF width = 0 \/ finish = reckoned THEN ~draw
    ELSE draw /\ shape = [width |-> width, finish |-> finish, origin |-> reckoned, strip |-> strip]
CircleHeld ==
  plugin = "circle" =>
    IF width = 0 \/ radius = 0 THEN ~draw
    ELSE draw /\ shape = [width |-> width, radius |-> radius]
Plugged == rvalid => strip \in Strip /\ plugin # NONE
BeamInv == BeamsType /\ BeamRefs /\ Plugged /\ LineHeld /\ CircleHeld /\ BeamCurrent

USE DEF fields, holding, geometry, Length

LEMMA BeamStart == BeamsInit => BeamInv
<1> SUFFICES ASSUME BeamsInit PROVE BeamInv
  OBVIOUS
<1>0. plugin = NONE /\ NONE \notin {"line", "circle"}
  BY BeamsAssumption DEF BeamsInit
<1>1. BeamsType
  <2>1. rvalid = FALSE /\ draw = FALSE /\ late = FALSE
    BY DEF BeamsInit
  <2>2. tref \in [Strip -> Nat] /\ others \in [Strip -> 0 .. MaxOthers]
    BY BeamsAssumption DEF BeamsInit
  <2> QED
    BY <2>1, <2>2, BeamsAssumption DEF BeamsInit, BeamsType, Length
<1>2. BeamRefs
  BY DEF BeamsInit, BeamRefs
<1>3. Plugged /\ LineHeld /\ CircleHeld /\ BeamCurrent
  <2>1. rvalid = FALSE /\ seen = <<>>
    BY DEF BeamsInit
  <2>2. Plugged
    BY <2>1 DEF Plugged
  <2>3. LineHeld /\ CircleHeld
    BY <1>0, Zenon DEF LineHeld, CircleHeld
  <2>4. BeamCurrent
    BY <2>1 DEF BeamCurrent
  <2> QED
    BY <2>2, <2>3, <2>4
<1> QED
  BY <1>1, <1>2, <1>3 DEF BeamInv

LEMMA WithoutCounts ==
  ASSUME BeamsType, BeamRefs, Plugged
  PROVE  RefsWithout \in [Strip -> Nat] /\ \A t \in Strip: RefsWithout[t] = others[t]
<1>1. CASE rvalid
  <2>1. \A t \in Strip: [tref EXCEPT ![strip] = @ - 1][t] = others[t] /\ others[t] \in Nat
    BY <1>1, BeamsAssumption DEF BeamsType, BeamRefs, Plugged
  <2>2. [tref EXCEPT ![strip] = @ - 1] = [t \in Strip |-> [tref EXCEPT ![strip] = @ - 1][t]]
    BY DEF BeamsType
  <2> QED
    BY <1>1, <2>1, <2>2 DEF RefsWithout
<1>2. CASE ~rvalid
  BY <1>2 DEF BeamsType, BeamRefs, RefsWithout
<1> QED
  BY <1>1, <1>2

(* A load leaves the entity counted once where it holds a texture.         *)
LEMMA LoadCounts ==
  ASSUME BeamsType, BeamRefs, Plugged, NEW n, others' = others,
         Loads(n) \/ (rvalid' = FALSE /\ strip' = NONE /\ tref' = RefsWithout)
  PROVE  /\ BeamRefs' /\ tref' \in [Strip -> Nat] /\ strip' \in Strip \cup {NONE}
         /\ rvalid' \in BOOLEAN /\ (rvalid' => strip' \in Strip)
<1>1. RefsWithout \in [Strip -> Nat] /\ \A t \in Strip: RefsWithout[t] = others[t]
  BY WithoutCounts
<1>2. CASE n \in Strip /\ strip' = n /\ rvalid' = TRUE /\ tref' = [RefsWithout EXCEPT ![n] = @ + 1]
  BY <1>1, <1>2, BeamsAssumption DEF BeamRefs, BeamsType
<1>3. CASE strip' = NONE /\ rvalid' = FALSE /\ tref' = RefsWithout
  <2>1. strip' \in Strip \cup {NONE} /\ rvalid' \in BOOLEAN /\ ~rvalid'
    BY <1>3
  <2>2. BeamRefs'
    BY <1>1, <1>3, <2>1, BeamsAssumption DEF BeamRefs, BeamsType
  <2> QED
    BY <1>1, <1>3, <2>1, <2>2
<1> QED
  BY <1>2, <1>3 DEF Loads

(* What the callbacks compute is what the fields give from then on.        *)
LEMMA RecalculateHolds ==
  ASSUME BeamsType, LineHeld, CircleHeld, UNCHANGED <<plugin, holding, origin>>, plugin # NONE,
         Recalculate(width', finish', radius', origin),
         {width', finish', radius'} \subseteq Length
  PROVE  /\ LineHeld' /\ CircleHeld' /\ draw' \in BOOLEAN /\ late' \in BOOLEAN /\ reckoned' \in Length
         /\ rvalid => reckoned' = origin
<1>1. CASE plugin = "line" /\ ~rvalid
  BY <1>1 DEF Recalculate, LineHeld, CircleHeld, BeamsType
<1>2. CASE plugin = "line" /\ rvalid
  <2>1. late' = FALSE /\ reckoned' = origin
    BY <1>2 DEF Recalculate
  <2>2. CASE width' = 0 \/ finish' = origin
    BY <1>2, <2>1, <2>2 DEF Recalculate, Extent, LineHeld, CircleHeld, BeamsType
  <2>3. CASE ~(width' = 0 \/ finish' = origin)
    BY <1>2, <2>1, <2>3 DEF Recalculate, Extent, Shape, LineHeld, CircleHeld, BeamsType
  <2> QED
    BY <2>2, <2>3
<1>3. CASE plugin = "circle"
  <2>1. late' = FALSE /\ reckoned' = origin
    BY <1>3 DEF Recalculate
  <2>2. CASE width' = 0 \/ radius' = 0
    BY <1>3, <2>1, <2>2 DEF Recalculate, Extent, LineHeld, CircleHeld, BeamsType
  <2>3. CASE ~(width' = 0 \/ radius' = 0)
    BY <1>3, <2>1, <2>3 DEF Recalculate, Extent, Shape, LineHeld, CircleHeld, BeamsType
  <2> QED
    BY <2>2, <2>3
<1> QED
  BY <1>1, <1>2, <1>3 DEF BeamsType

LEMMA SetTextureKeeps ==
  ASSUME BeamInv, NEW n \in Strip \cup {NONE, JUNK}, SetTexture(n)
  PROVE  BeamInv'
<1>1. /\ tname' = n /\ seen' = <<>>
      /\ UNCHANGED <<plugin, width, finish, radius, geometry, origin, others, reckoned>>
  BY DEF SetTexture
<1>2. BeamCurrent'
  BY <1>1 DEF BeamCurrent
<1>3. CircleHeld'
  BY <1>1 DEF BeamInv, CircleHeld
<1>4. CASE plugin = NONE \/ n = NONE
  <2>1. UNCHANGED <<holding, late>>
    BY <1>4 DEF SetTexture
  <2>2. BeamsType'
    BY <1>1, <2>1 DEF BeamInv, BeamsType
  <2>3. BeamRefs' /\ Plugged' /\ LineHeld'
    BY <1>1, <2>1 DEF BeamInv, BeamRefs, Plugged, LineHeld
  <2> QED
    BY <1>2, <1>3, <2>2, <2>3 DEF BeamInv
<1>5. CASE ~(plugin = NONE \/ n = NONE)
  <2>1. Loads(n) /\ late' = TRUE
    BY <1>5 DEF SetTexture
  <2>2. /\ BeamRefs' /\ tref' \in [Strip -> Nat] /\ strip' \in Strip \cup {NONE}
        /\ rvalid' \in BOOLEAN /\ (rvalid' => strip' \in Strip)
    BY <1>1, <2>1, LoadCounts DEF BeamInv
  <2>3. BeamsType'
    BY <1>1, <2>1, <2>2 DEF BeamInv, BeamsType
  <2>4. Plugged' /\ LineHeld'
    BY <1>1, <1>5, <2>1, <2>2 DEF Plugged, LineHeld
  <2> QED
    BY <1>2, <1>3, <2>2, <2>3, <2>4 DEF BeamInv
<1> QED
  BY <1>4, <1>5

(* A field of the geometry is set, and computed with if the plugin has it. *)
LEMMA SetFieldKeeps ==
  ASSUME BeamInv, UNCHANGED <<plugin, tname, holding, origin, start, others>>, seen' = <<>>,
         {width', finish', radius'} \subseteq Length,
         \/ Recalculate(width', finish', radius', origin) /\ plugin # NONE
         \/ /\ UNCHANGED <<draw, shape, late, reckoned>>
            /\ plugin = "line" => UNCHANGED <<width, finish>>
            /\ plugin = "circle" => UNCHANGED <<width, radius>>
  PROVE  BeamInv'
<1>1. /\ LineHeld' /\ CircleHeld' /\ draw' \in BOOLEAN /\ late' \in BOOLEAN /\ reckoned' \in Length
  <2>1. CASE Recalculate(width', finish', radius', origin) /\ plugin # NONE
    BY <2>1, RecalculateHolds DEF BeamInv
  <2>2. CASE /\ UNCHANGED <<draw, shape, late, reckoned>>
             /\ plugin = "line" => UNCHANGED <<width, finish>>
             /\ plugin = "circle" => UNCHANGED <<width, radius>>
    BY <2>2 DEF BeamInv, BeamsType, LineHeld, CircleHeld
  <2> QED
    BY <2>1, <2>2
<1>2. BeamsType'
  BY <1>1 DEF BeamInv, BeamsType
<1>3. BeamRefs' /\ Plugged' /\ BeamCurrent'
  BY DEF BeamInv, BeamRefs, Plugged, BeamCurrent
<1> QED
  BY <1>1, <1>2, <1>3 DEF BeamInv

LEMMA SetPluginKeeps ==
  ASSUME BeamInv, NEW p \in {"line", "circle", NONE}, SetPlugin(p)
  PROVE  BeamInv'
<1>1. /\ plugin' = p /\ start' = 0 /\ seen' = <<>> /\ late' = FALSE /\ reckoned' = origin
      /\ UNCHANGED <<width, finish, radius, origin, others>>
      /\ tname' \in Strip \cup {JUNK, NONE}
  BY DEF SetPlugin, BeamInv, BeamsType
<1>2. /\ Loads(tname') \/ (rvalid' = FALSE /\ strip' = NONE /\ tref' = RefsWithout)
      /\ p = NONE => rvalid' = FALSE
  BY DEF SetPlugin
<1>3. /\ BeamRefs' /\ tref' \in [Strip -> Nat] /\ strip' \in Strip \cup {NONE}
      /\ rvalid' \in BOOLEAN /\ (rvalid' => strip' \in Strip)
  BY <1>1, <1>2, LoadCounts DEF BeamInv
<1>4. BeamCurrent' /\ Plugged'
  BY <1>1, <1>2, <1>3 DEF BeamCurrent, Plugged
<1>5. /\ draw' = (p # NONE /\ (rvalid' \/ p = "circle") /\ width = 1 /\ Extent(finish, radius, origin) = 1)
      /\ shape' = IF draw' THEN Shape(width, finish, radius, origin) ELSE NONE
  BY Zenon DEF SetPlugin
<1>6. draw' \in BOOLEAN
  BY <1>5, Zenon
<1>7. BeamsType'
  BY <1>1, <1>3, <1>6 DEF BeamInv, BeamsType
<1>8. LineHeld'
  <2> SUFFICES ASSUME p = "line", rvalid'
               PROVE  IF width = 0 \/ finish = origin THEN ~draw'
                      ELSE draw' /\ shape' = [width |-> width, finish |-> finish, origin |-> origin, strip |-> strip']
    BY <1>1 DEF LineHeld
  <2>1. Extent(finish, radius, origin) = (IF finish = origin THEN 0 ELSE 1)
    BY <1>1 DEF Extent
  <2>2. Shape(width, finish, radius, origin) = [width |-> width, finish |-> finish, origin |-> origin, strip |-> strip']
    BY <1>1 DEF Shape
  <2>3. width \in {0, 1} /\ 0 # 1 /\ p # NONE
    BY BeamsAssumption DEF BeamInv, BeamsType
  <2>4. CASE width = 0 \/ finish = origin
    BY <1>5, <2>1, <2>3, <2>4, Zenon
  <2>5. CASE ~(width = 0 \/ finish = origin)
    BY <1>5, <2>1, <2>2, <2>3, <2>5, Zenon
  <2> QED
    BY <2>4, <2>5
<1>9. CircleHeld'
  <2> SUFFICES ASSUME p = "circle"
               PROVE  IF width = 0 \/ radius = 0 THEN ~draw'
                      ELSE draw' /\ shape' = [width |-> width, radius |-> radius]
    BY <1>1 DEF CircleHeld
  <2>1. Extent(finish, radius, origin) = radius
    BY <1>1 DEF Extent
  <2>2. Shape(width, finish, radius, origin) = [width |-> width, radius |-> radius]
    BY <1>1 DEF Shape
  <2>3. width \in {0, 1} /\ radius \in {0, 1} /\ 0 # 1 /\ p # NONE
    BY BeamsAssumption DEF BeamInv, BeamsType
  <2>4. CASE width = 0 \/ radius = 0
    BY <1>5, <2>1, <2>3, <2>4, Zenon
  <2>5. CASE ~(width = 0 \/ radius = 0)
    BY <1>5, <2>1, <2>2, <2>3, <2>5, Zenon
  <2> QED
    BY <2>4, <2>5
<1> QED
  BY <1>3, <1>4, <1>7, <1>8, <1>9 DEF BeamInv

LEMMA OthersKeep ==
  ASSUME BeamInv, NEW t \in Strip, OtherTakes(t) \/ OtherDrops(t)
  PROVE  BeamInv'
<1>1. /\ UNCHANGED <<plugin, fields, rvalid, strip, geometry, origin, late, reckoned>> /\ seen' = <<>>
      /\ \E k \in {1, -1}: /\ others' = [others EXCEPT ![t] = @ + k] /\ others[t] + k \in 0 .. MaxOthers
                           /\ tref' = [tref EXCEPT ![t] = @ + k]
  BY BeamsAssumption DEF OtherTakes, OtherDrops, BeamInv, BeamsType
<1>2. PICK k \in {1, -1}: /\ others' = [others EXCEPT ![t] = @ + k] /\ others[t] + k \in 0 .. MaxOthers
                          /\ tref' = [tref EXCEPT ![t] = @ + k]
  BY <1>1
<1>3. others' \in [Strip -> 0 .. MaxOthers]
  BY <1>2 DEF BeamInv, BeamsType
<1>4. tref[t] + k \in Nat
  BY <1>2, BeamsAssumption DEF BeamInv, BeamsType, BeamRefs
<1>5. tref' \in [Strip -> Nat]
  BY <1>2, <1>4 DEF BeamInv, BeamsType
<1>6. BeamRefs'
  BY <1>1, <1>2, BeamsAssumption, SMTT(30) DEF BeamInv, BeamsType, BeamRefs
<1>7. BeamsType'
  BY <1>1, <1>3, <1>5 DEF BeamInv, BeamsType
<1>8. Plugged' /\ LineHeld' /\ CircleHeld' /\ BeamCurrent'
  BY <1>1 DEF BeamInv, Plugged, LineHeld, CircleHeld, BeamCurrent
<1> QED
  BY <1>6, <1>7, <1>8 DEF BeamInv

(* A draw computes the geometry of a line that has moved.                  *)
LEMMA DrawKeeps == BeamInv /\ DrawBeam => BeamInv'
<1> SUFFICES ASSUME BeamInv, DrawBeam PROVE BeamInv'
  OBVIOUS
<1>1. /\ rvalid /\ UNCHANGED <<plugin, fields, holding, origin, others>>
      /\ seen' = IF draw' THEN <<strip, shape'>> ELSE <<NONE>>
      /\ strip \in Strip /\ plugin \in {"line", "circle"}
  BY DEF DrawBeam, BeamInv, Plugged, BeamsType
<1>2. /\ LineHeld' /\ CircleHeld' /\ draw' \in BOOLEAN /\ late' \in BOOLEAN /\ reckoned' \in Length
      /\ start' \in Length /\ (plugin = "line" => start' = origin)
  <2>1. CASE Moved
    <3>1. start' = origin /\ Recalculate(width', finish', radius', origin) /\ origin \in Length
      BY <1>1, <2>1 DEF DrawBeam, BeamInv, BeamsType
    <3>2. {width', finish', radius'} \subseteq Length /\ plugin # NONE
      BY <1>1 DEF BeamInv, BeamsType, Plugged
    <3> QED
      BY <1>1, <3>1, <3>2, RecalculateHolds DEF BeamInv
  <2>2. CASE ~Moved
    <3>1. UNCHANGED <<geometry, late, reckoned>> /\ (plugin = "line" => start = origin)
      BY <2>2 DEF DrawBeam, Moved
    <3> QED
      BY <1>1, <3>1 DEF BeamInv, BeamsType, LineHeld, CircleHeld
  <2> QED
    BY <2>1, <2>2
<1>3. BeamsType'
  BY <1>1, <1>2 DEF BeamInv, BeamsType
<1>4. BeamRefs' /\ Plugged'
  BY <1>1 DEF BeamInv, BeamRefs, Plugged
<1>5. BeamCurrent'
  <2>1. CASE plugin = "line" /\ ~late' /\ reckoned' = origin
    <3>1. CASE width = 0 \/ finish = origin
      <4>1. seen' = <<NONE>>
        BY <1>1, <1>2, <2>1, <3>1 DEF LineHeld
      <4> QED
        BY <1>1, <2>1, <3>1, <4>1 DEF BeamCurrent
    <3>2. CASE ~(width = 0 \/ finish = origin)
      <4>1. seen' = <<strip, [width |-> width, finish |-> finish, origin |-> origin, strip |-> strip]>>
        BY <1>1, <1>2, <2>1, <3>2 DEF LineHeld
      <4> QED
        BY <1>1, <2>1, <3>2, <4>1 DEF BeamCurrent
    <3> QED
      BY <3>1, <3>2
  <2>2. CASE plugin = "circle"
    <3>1. CASE width = 0 \/ radius = 0
      <4>1. seen' = <<NONE>>
        BY <1>1, <1>2, <2>2, <3>1 DEF CircleHeld
      <4> QED
        BY <1>1, <2>2, <3>1, <4>1 DEF BeamCurrent
    <3>2. CASE ~(width = 0 \/ radius = 0)
      <4>1. seen' = <<strip, [width |-> width, radius |-> radius]>>
        BY <1>1, <1>2, <2>2, <3>2 DEF CircleHeld
      <4> QED
        BY <1>1, <2>2, <3>2, <4>1 DEF BeamCurrent
    <3> QED
      BY <3>1, <3>2
  <2>3. CASE plugin = "line" /\ (late' \/ reckoned' # origin)
    BY <1>1, <1>2, <2>3 DEF BeamCurrent
  <2> QED
    BY <1>1, <2>1, <2>2, <2>3
<1> QED
  BY <1>2, <1>3, <1>4, <1>5 DEF BeamInv

LEMMA BeamKeeps == BeamInv /\ [BeamsNext]_beamsVars => BeamInv'
<1> SUFFICES ASSUME BeamInv, [BeamsNext]_beamsVars PROVE BeamInv'
  OBVIOUS
<1>1. ASSUME NEW n \in Strip \cup {NONE, JUNK}, SetTexture(n) PROVE BeamInv'
  BY <1>1, SetTextureKeeps
<1>2. ASSUME NEW w \in Length, SetWidth(w) PROVE BeamInv'
  <2>1. /\ UNCHANGED <<plugin, tname, holding, origin, start, others>> /\ seen' = <<>>
        /\ {width', finish', radius'} \subseteq Length
    BY <1>2 DEF SetWidth, BeamInv, BeamsType
  <2>2. \/ Recalculate(width', finish', radius', origin) /\ plugin # NONE
        \/ /\ UNCHANGED <<draw, shape, late, reckoned>>
           /\ plugin = "line" => UNCHANGED <<width, finish>>
           /\ plugin = "circle" => UNCHANGED <<width, radius>>
    BY <1>2, BeamsAssumption DEF SetWidth
  <2> QED
    BY <2>1, <2>2, SetFieldKeeps
<1>3. ASSUME NEW f \in Length, SetFinish(f) PROVE BeamInv'
  <2>1. /\ UNCHANGED <<plugin, tname, holding, origin, start, others>> /\ seen' = <<>>
        /\ {width', finish', radius'} \subseteq Length
    BY <1>3 DEF SetFinish, BeamInv, BeamsType
  <2>2. \/ Recalculate(width', finish', radius', origin) /\ plugin # NONE
        \/ /\ UNCHANGED <<draw, shape, late, reckoned>>
           /\ plugin = "line" => UNCHANGED <<width, finish>>
           /\ plugin = "circle" => UNCHANGED <<width, radius>>
    BY <1>3, BeamsAssumption DEF SetFinish
  <2> QED
    BY <2>1, <2>2, SetFieldKeeps
<1>4. ASSUME NEW r \in Length, SetRadius(r) PROVE BeamInv'
  <2>1. /\ UNCHANGED <<plugin, tname, holding, origin, start, others>> /\ seen' = <<>>
        /\ {width', finish', radius'} \subseteq Length
    BY <1>4 DEF SetRadius, BeamInv, BeamsType
  <2>2. \/ Recalculate(width', finish', radius', origin) /\ plugin # NONE
        \/ /\ UNCHANGED <<draw, shape, late, reckoned>>
           /\ plugin = "line" => UNCHANGED <<width, finish>>
           /\ plugin = "circle" => UNCHANGED <<width, radius>>
    BY <1>4, BeamsAssumption DEF SetRadius
  <2> QED
    BY <2>1, <2>2, SetFieldKeeps
<1>5. ASSUME NEW o \in Length, Move(o) PROVE BeamInv'
  <2>1. /\ UNCHANGED <<plugin, fields, holding, geometry, others, late, reckoned>>
        /\ origin' = o /\ seen' = <<>>
    BY <1>5 DEF Move
  <2>2. BeamsType'
    BY <2>1 DEF BeamInv, BeamsType
  <2>3. BeamRefs' /\ Plugged' /\ LineHeld' /\ CircleHeld' /\ BeamCurrent'
    BY <2>1 DEF BeamInv, BeamRefs, Plugged, LineHeld, CircleHeld, BeamCurrent
  <2> QED
    BY <2>2, <2>3 DEF BeamInv
<1>6. ASSUME NEW p \in {"line", "circle", NONE}, SetPlugin(p) PROVE BeamInv'
  BY <1>6, SetPluginKeeps
<1>7. ASSUME NEW t \in Strip, OtherTakes(t) \/ OtherDrops(t) PROVE BeamInv'
  BY <1>7, OthersKeep
<1>8. CASE DrawBeam
  BY <1>8, DrawKeeps
<1>9. CASE UNCHANGED beamsVars
  <2>1. BeamsType'
    BY <1>9 DEF beamsVars, BeamInv, BeamsType
  <2>2. BeamRefs' /\ Plugged' /\ LineHeld' /\ CircleHeld' /\ BeamCurrent'
    BY <1>9 DEF beamsVars, BeamInv, BeamRefs, Plugged, LineHeld, CircleHeld, BeamCurrent
  <2> QED
    BY <2>1, <2>2 DEF BeamInv
<1> QED
  BY <1>1, <1>2, <1>3, <1>4, <1>5, <1>6, <1>7, <1>8, <1>9 DEF BeamsNext

(* An entity drawn as a line or a circle counts once where it holds a      *)
(* texture, and is drawn as its fields are.                                *)
THEOREM BeamStaysCurrent == BeamsSpec => []BeamKept
<1>1. BeamInv => BeamKept
  BY DEF BeamInv, BeamKept
<1> QED
  BY <1>1, BeamStart, BeamKeeps, PTL DEF BeamsSpec

-----------------------------------------------------------------------------
(* What a frame shows: the inductive invariant (Drawing).                  *)

Quad == [pic: Image \cup {BLANK, NONE}, ink: Colour, clip: Ent \cup {NONE}]
DrawingTyped ==
  /\ DrawingType /\ order \in Seq(Ent) /\ quad \in [Ent -> Quad]

(* The engine's copies are OpenGL's state, but for a texture deleted while *)
(* it was bound; that name is not handed out again unless the driver       *)
(* reuses names.                                                           *)
InkCopied == ink = cachedInk
TexCopied ==
  /\ bound = cachedTex \/ (bound = 0 /\ pixels[cachedTex] = NONE)
  /\ driver = "fresh" /\ pixels[cachedTex] = NONE => cachedTex \in retired

(* A texture belongs to one text and has its picture.                      *)
Textured ==
  /\ pixels[0] = BLANK
  /\ \A e \in Ent: gltex[e] # 0 => pixels[gltex[e]] = pic[e] /\ pic[e] \in Image
  /\ \A e, f \in Ent: gltex[e] # 0 /\ gltex[e] = gltex[f] => e = f
OnlyTexts == \A e \in Ent: gltex[e] # 0 => kind[e] = "text"

(* The rectangle is the last one that this frame has set.                  *)
Marks == {j \in DOMAIN order: kind[order[j]] \in {"scissor", "disabler"}}
ClipFrom(o, B) ==
  IF \E j \in B: kind[o[j]] = "scissor" /\ \A k \in B: k <= j
  THEN o[CHOOSE j \in B: \A k \in B: k <= j]
  ELSE NONE
Clipped ==
  /\ drawing /\ ~spilt => cleared /\ window = ClipFrom(order, Marks)
  /\ ~drawing /\ ~spilt => window = NONE

(* Each entity is drawn once, and has left nothing before.                 *)
Undrawn ==
  /\ ~drawing => order = <<>>
  /\ \A e \in Ent: e \notin Drawn => quad[e] = NoQuad

(* FrameShowsEntities for an entity.                                       *)
QuadRight(e) ==
  IF spilt THEN [quad[e] EXCEPT !.clip = Wanted(e).clip] = Wanted(e)
  ELSE quad[e] = Wanted(e)

FrameInv ==
  /\ DrawingTyped /\ InkCopied /\ OnlyTexts /\ Clipped /\ Undrawn
  /\ driver = "fresh" => ~mixed
  /\ ~mixed => TexCopied /\ Textured /\ \A e \in Drawn: QuadRight(e)

USE DEF gl, inks, things, screen, excuses

-----------------------------------------------------------------------------
(* Rectangles.                                                             *)

LEMMA ClipLast ==
  ASSUME NEW o, NEW B \in SUBSET Nat, NEW j \in B, \A k \in B: k <= j
  PROVE  ClipFrom(o, B) = IF kind[o[j]] = "scissor" THEN o[j] ELSE NONE
<1>1. \A m \in B: (\A k \in B: k <= m) => m = j
  OBVIOUS
<1>2. (CHOOSE m \in B: \A k \in B: k <= m) = j
  BY <1>1
<1> QED
  BY <1>1, <1>2 DEF ClipFrom

LEMMA ClipNone == \A o: ClipFrom(o, {}) = NONE
  BY DEF ClipFrom

LEMMA ClipSame ==
  ASSUME NEW o, NEW q, NEW B, \A j \in B: o[j] = q[j]
  PROVE  ClipFrom(o, B) = ClipFrom(q, B)
<1> DEFINE c == CHOOSE j \in B: \A k \in B: k <= j
<1>1. (\E j \in B: kind[o[j]] = "scissor" /\ \A k \in B: k <= j)
      <=> (\E j \in B: kind[q[j]] = "scissor" /\ \A k \in B: k <= j)
  OBVIOUS
<1>2. CASE \E j \in B: kind[o[j]] = "scissor" /\ \A k \in B: k <= j
  <2>1. c \in B
    BY <1>2
  <2>2. o[c] = q[c]
    BY <2>1
  <2> HIDE DEF c
  <2>3. ClipFrom(o, B) = o[c] /\ ClipFrom(q, B) = q[c]
    BY <1>1, <1>2 DEF ClipFrom, c
  <2> QED
    BY <2>2, <2>3
<1>3. CASE ~\E j \in B: kind[o[j]] = "scissor" /\ \A k \in B: k <= j
  BY <1>1, <1>3 DEF ClipFrom
<1> QED
  BY <1>2, <1>3

(* What drawing one more entity does to the order.                         *)
LEMMA OneMore ==
  ASSUME order \in Seq(Ent), NEW e \in Ent, e \notin Drawn, order' = Append(order, e), UNCHANGED kind
  PROVE  /\ order' \in Seq(Ent) /\ Drawn' = Drawn \cup {e} /\ Marks \subseteq DOMAIN order
         /\ Marks \subseteq Nat /\ Len(order) + 1 \in Nat /\ order'[Len(order) + 1] = e
         /\ \A j \in DOMAIN order: order'[j] = order[j] /\ j < Len(order) + 1
         /\ kind[e] \notin {"scissor", "disabler"} => Marks' = Marks
         /\ kind[e] \in {"scissor", "disabler"} => Marks' = Marks \cup {Len(order) + 1}
         /\ Before(e)' = Marks
         /\ \A f \in Drawn: Before(f)' = Before(f) /\ Before(f) \subseteq DOMAIN order
<1> DEFINE n == Len(order)
<1>1. n \in Nat /\ DOMAIN order = 1 .. n /\ \A j \in 1 .. n: order[j] \in Ent
  OBVIOUS
<1>2. /\ order' \in Seq(Ent) /\ Len(order') = n + 1 /\ order'[n + 1] = e
      /\ \A j \in 1 .. n: order'[j] = order[j]
  BY AppendProperties
<1>3. DOMAIN order' = 1 .. n + 1
  BY <1>1, <1>2
<1> HIDE DEF n
<1>4. \A j: j \in 1 .. n + 1 <=> j \in 1 .. n \/ j = n + 1
  BY <1>1
<1>5. Drawn' = Drawn \cup {e}
  BY <1>1, <1>2, <1>3, <1>4 DEF Drawn
<1>6. kind[e] \notin {"scissor", "disabler"} => Marks' = Marks
  BY <1>1, <1>2, <1>3, <1>4 DEF Marks
<1>7. kind[e] \in {"scissor", "disabler"} => Marks' = Marks \cup {n + 1}
  BY <1>1, <1>2, <1>3, <1>4 DEF Marks
<1>8. \A j \in 1 .. n: order[j] # e
  BY <1>1 DEF Drawn
<1>9. Before(e)' = Marks
  <2>1. \A j \in 1 .. n: n + 1 > j /\ order'[n + 1] = e /\ order'[j] = order[j]
    BY <1>1, <1>2
  <2>2. \A k \in 1 .. n + 1: ~(k > n + 1)
    BY <1>1
  <2>3. Before(e)' = {j \in 1 .. n + 1: kind[order'[j]] \in {"scissor", "disabler"} /\
                        \E k \in 1 .. n + 1: k > j /\ order'[k] = e}
    BY <1>3 DEF Before
  <2> QED
    BY <1>1, <1>4, <2>1, <2>2, <2>3 DEF Marks
<1>10. ASSUME NEW f \in Drawn PROVE Before(f)' = Before(f) /\ Before(f) \subseteq DOMAIN order
  <2>1. f # e
    BY <1>10
  <2>2. \A k \in 1 .. n + 1: ~(k > n + 1)
    BY <1>1
  <2>3. Before(f)' = {j \in 1 .. n + 1: kind[order'[j]] \in {"scissor", "disabler"} /\
                        \E k \in 1 .. n + 1: k > j /\ order'[k] = f}
    BY <1>3 DEF Before
  <2>4. \A k \in 1 .. n + 1: order'[k] = f <=> k \in 1 .. n /\ order[k] = f
    BY <1>2, <1>4, <2>1, <1>1
  <2> QED
    BY <1>1, <1>2, <1>4, <2>2, <2>3, <2>4 DEF Before
<1> QED
  BY <1>1, <1>2, <1>5, <1>6, <1>7, <1>9, <1>10 DEF Marks, n

-----------------------------------------------------------------------------
(* Colours, textures, and between frames.                                  *)

(* eglColor4 keeps the copy.                                               *)
LEMMA InkFollows ==
  ASSUME NEW c \in Colour, InkCopied, SetInk(c)
  PROVE  InkCopied' /\ ink' = c /\ cachedInk' = c
BY DEF InkCopied, SetInk

(* While nothing is drawn only textures and colours matter.                *)
LEMMA IdleKeeps ==
  ASSUME FrameInv, NEW e \in Ent, Idle(e)
  PROVE  InkCopied' /\ Clipped' /\ Undrawn' /\ Drawn' = {}
<1>1. ~drawing /\ UNCHANGED <<inks, window, screen, spilt>> /\ order = <<>>
  BY DEF FrameInv, Idle, Undrawn
<1>2. InkCopied'
  BY <1>1 DEF FrameInv, InkCopied
<1>3. Clipped'
  BY <1>1 DEF FrameInv, Clipped
<1>4. Drawn' = Drawn /\ Drawn = {}
  BY <1>1 DEF Drawn
<1>5. Undrawn'
  BY <1>1, <1>4 DEF FrameInv, Undrawn
<1> QED
  BY <1>2, <1>3, <1>4, <1>5

(* Deleting a texture keeps the copy, but for the name that is gone.       *)
LEMMA DeleteKeeps ==
  ASSUME DrawingTyped, OnlyTexts, NEW e \in Ent, DeleteTexture(e), UNCHANGED driver,
         kind' = kind \/ \E k \in Kinds: kind' = [kind EXCEPT ![e] = k],
         pic' = [pic EXCEPT ![e] = NONE]
  PROVE  /\ pixels' \in [TexName \cup {0} -> Image \cup {BLANK, NONE}]
         /\ retired' \subseteq TexName /\ bound' \in TexName \cup {0}
         /\ gltex' \in [Ent -> TexName \cup {0}] /\ pic' \in [Ent -> Image \cup {NONE}]
         /\ OnlyTexts' /\ (TexCopied /\ Textured => TexCopied' /\ Textured')
<1> DEFINE g == gltex[e]
<1>1. /\ g \in TexName \cup {0} /\ gltex' = [gltex EXCEPT ![e] = 0] /\ cachedTex' = cachedTex
      /\ pixels \in [TexName \cup {0} -> Image \cup {BLANK, NONE}]
      /\ pixels' = [m \in TexName \cup {0} |-> IF m \in Deleted(g) THEN NONE ELSE pixels[m]]
      /\ gltex \in [Ent -> TexName \cup {0}] /\ pic \in [Ent -> Image \cup {NONE}]
      /\ kind \in [Ent -> Kinds] /\ cachedTex \in TexName \cup {0} /\ bound \in TexName \cup {0}
      /\ retired \subseteq TexName
  BY DEF DrawingTyped, DrawingType, DeleteTexture, PixelsAfter
<1>2. Deleted(g) = IF g = 0 THEN {} ELSE {g}
  BY DEF Deleted
<1>3. Deleted(g) \subseteq TexName /\ 0 \notin TexName
  BY <1>1, <1>2, DrawingAssumption DEF TexName
<1>4. bound' = IF g # 0 /\ bound = g THEN 0 ELSE bound
  BY DEF DeleteTexture, BoundAfter
<1>5. retired' = IF driver = "fresh" THEN retired \cup Deleted(g) ELSE retired
  BY DEF DeleteTexture, RetiredAfter
<1> HIDE DEF g
<1>6. \A m \in TexName \cup {0}: pixels'[m] = IF m \in Deleted(g) THEN NONE ELSE pixels[m]
  BY <1>1
<1>7. /\ pixels' \in [TexName \cup {0} -> Image \cup {BLANK, NONE}]
      /\ retired' \subseteq TexName /\ bound' \in TexName \cup {0}
      /\ gltex' \in [Ent -> TexName \cup {0}] /\ pic' \in [Ent -> Image \cup {NONE}]
  BY <1>1, <1>3, <1>4, <1>5
<1>8. OnlyTexts'
  BY <1>1 DEF OnlyTexts
<1>9. ASSUME TexCopied, Textured PROVE TexCopied' /\ Textured'
  <2>1. bound = cachedTex \/ (bound = 0 /\ pixels[cachedTex] = NONE)
    BY <1>9 DEF TexCopied
  <2>2. bound' = cachedTex' \/ (bound' = 0 /\ pixels'[cachedTex'] = NONE)
    BY <1>1, <1>2, <1>4, <1>6, <2>1
  <2>3. driver = "fresh" /\ pixels'[cachedTex] = NONE => cachedTex \in retired'
    BY <1>1, <1>5, <1>6, <1>9 DEF TexCopied
  <2>4. TexCopied'
    BY <1>1, <2>2, <2>3 DEF TexCopied
  <2>5. pixels'[0] = BLANK
    BY <1>3, <1>6, <1>9 DEF Textured
  <2>6. ASSUME NEW f \in Ent, gltex'[f] # 0
        PROVE  f # e /\ gltex'[f] = gltex[f] /\ pixels'[gltex'[f]] = pic'[f] /\ pic'[f] \in Image
    <3>1. f # e /\ gltex'[f] = gltex[f] /\ pic'[f] = pic[f]
      BY <1>1, <2>6
    <3>2. gltex[f] # g
      BY <1>9, <2>6, <3>1 DEF Textured, g
    <3>3. pixels'[gltex[f]] = pixels[gltex[f]]
      BY <1>1, <1>2, <1>6, <3>2
    <3> QED
      BY <1>9, <2>6, <3>1, <3>3 DEF Textured
  <2>7. Textured'
    BY <1>9, <2>5, <2>6 DEF Textured
  <2> QED
    BY <2>4, <2>7
<1> QED
  BY <1>7, <1>8, <1>9

LEMMA EraseKeeps ==
  ASSUME FrameInv, NEW e \in Ent, Idle(e), DeleteTexture(e), tint' = tint,
         kind' = kind \/ \E k \in Kinds: kind' = [kind EXCEPT ![e] = k],
         pic' = [pic EXCEPT ![e] = NONE]
  PROVE  FrameInv'
<1>1. InkCopied' /\ Clipped' /\ Undrawn' /\ Drawn' = {}
  BY IdleKeeps
<1>2. DrawingTyped /\ OnlyTexts /\ driver' = driver /\ mixed' = mixed /\ cachedTex' = cachedTex
  BY DEF FrameInv, Idle, DeleteTexture
<1>3. /\ pixels' \in [TexName \cup {0} -> Image \cup {BLANK, NONE}]
      /\ retired' \subseteq TexName /\ bound' \in TexName \cup {0}
      /\ gltex' \in [Ent -> TexName \cup {0}] /\ pic' \in [Ent -> Image \cup {NONE}]
      /\ OnlyTexts' /\ (TexCopied /\ Textured => TexCopied' /\ Textured')
  BY <1>2, DeleteKeeps
<1>4. kind' \in [Ent -> Kinds]
  BY <1>2 DEF DrawingTyped, DrawingType
<1>5. UNCHANGED <<driver, inks, window, screen, spilt>>
  BY DEF Idle
<1>6. DrawingTyped'
  BY <1>1, <1>2, <1>3, <1>4, <1>5 DEF DrawingTyped, DrawingType, Quad
<1> QED
  BY <1>1, <1>2, <1>3, <1>6 DEF FrameInv

LEMMA TintKeeps ==
  ASSUME FrameInv, NEW e \in Ent, NEW c \in Colour, SetTint(e, c)
  PROVE  FrameInv'
<1>1. InkCopied' /\ Clipped' /\ Undrawn' /\ Drawn' = {}
  BY IdleKeeps DEF SetTint
<1>2. tint' = [tint EXCEPT ![e] = c] /\ UNCHANGED <<pixels, retired, gl, kind, gltex, pic, mixed>>
      /\ UNCHANGED <<driver, inks, window, screen, spilt>>
  BY DEF SetTint, Idle
<1>3. DrawingTyped'
  BY <1>1, <1>2 DEF FrameInv, DrawingTyped, DrawingType, Quad
<1>4. OnlyTexts' /\ (TexCopied => TexCopied') /\ (Textured => Textured')
  BY <1>2 DEF FrameInv, OnlyTexts, TexCopied, Textured
<1> QED
  BY <1>1, <1>2, <1>3, <1>4 DEF FrameInv

LEMMA RedrawKeeps ==
  ASSUME FrameInv, NEW e \in Ent, NEW p \in Image, Redraw(e, p)
  PROVE  FrameInv'
<1>1. InkCopied' /\ Clipped' /\ Undrawn' /\ Drawn' = {}
  BY IdleKeeps DEF Redraw
<1> DEFINE g == gltex[e]
<1>2. PICK n \in FreeNames(Deleted(g)):
        /\ bound' = IF cachedTex = n THEN BoundAfter(g) ELSE n
        /\ cachedTex' = n
        /\ pixels' = [[PixelsAfter(g) EXCEPT ![n] = BLANK] EXCEPT ![bound'] = p]
        /\ gltex' = [gltex EXCEPT ![e] = n]
        /\ mixed' = (mixed \/ bound' # n)
  BY DEF Redraw
<1>3. /\ retired' = RetiredAfter(g) /\ pic' = [pic EXCEPT ![e] = p] /\ UNCHANGED <<kind, tint>>
      /\ UNCHANGED <<driver, inks, window, screen, spilt>> /\ kind[e] = "text"
  BY DEF Redraw, Idle
<1>4. /\ DrawingTyped /\ OnlyTexts /\ (driver = "fresh" => ~mixed) /\ (~mixed => TexCopied /\ Textured)
  BY DEF FrameInv
<1>5. /\ g \in TexName \cup {0}
      /\ pixels \in [TexName \cup {0} -> Image \cup {BLANK, NONE}]
      /\ gltex \in [Ent -> TexName \cup {0}] /\ pic \in [Ent -> Image \cup {NONE}]
      /\ kind \in [Ent -> Kinds] /\ cachedTex \in TexName \cup {0} /\ bound \in TexName \cup {0}
      /\ retired \subseteq TexName /\ mixed \in BOOLEAN
  BY <1>4 DEF DrawingTyped, DrawingType
<1>6. /\ n \in TexName /\ (pixels[n] = NONE \/ n \in Deleted(g)) /\ n \notin retired
      /\ (driver = "fresh" => n \notin Deleted(g))
  BY DEF FreeNames
<1>7. Deleted(g) = (IF g = 0 THEN {} ELSE {g})
  BY DEF Deleted
<1>8. 0 \notin TexName /\ Deleted(g) \subseteq TexName
  BY <1>5, <1>7, DrawingAssumption DEF TexName
<1>9. BoundAfter(g) \in TexName \cup {0} /\ RetiredAfter(g) \subseteq TexName
  BY <1>5, <1>8 DEF BoundAfter, RetiredAfter
<1>10. PixelsAfter(g) \in [TexName \cup {0} -> Image \cup {BLANK, NONE}]
       /\ \A m \in TexName \cup {0}: PixelsAfter(g)[m] = IF m \in Deleted(g) THEN NONE ELSE pixels[m]
  BY <1>5 DEF PixelsAfter
<1> HIDE DEF g
<1>11. bound' \in TexName \cup {0}
  BY <1>2, <1>6, <1>9
<1>12. pixels' \in [TexName \cup {0} -> Image \cup {BLANK, NONE}]
  BY <1>2, <1>10
<1>13. /\ gltex' \in [Ent -> TexName \cup {0}] /\ pic' \in [Ent -> Image \cup {NONE}]
       /\ cachedTex' \in TexName \cup {0} /\ retired' \subseteq TexName
  BY <1>2, <1>3, <1>5, <1>6, <1>9
<1>14. mixed' \in BOOLEAN
  BY <1>2
<1>15. DrawingTyped'
  BY <1>1, <1>3, <1>4, <1>11, <1>12, <1>13, <1>14 DEF DrawingTyped, DrawingType, Quad
<1>16. OnlyTexts'
  BY <1>2, <1>3, <1>4, <1>5 DEF OnlyTexts
<1>17. ASSUME driver = "fresh" PROVE bound' = n
  <2>1. pixels[n] = NONE /\ n \notin retired /\ TexCopied
    BY <1>4, <1>6, <1>17
  <2>2. cachedTex # n
    BY <1>17, <2>1 DEF TexCopied
  <2> QED
    BY <1>2, <2>2
<1>18. driver' = "fresh" => ~mixed'
  BY <1>2, <1>3, <1>4, <1>17
<1>19. ASSUME ~mixed' PROVE TexCopied' /\ Textured'
  <2>1. bound' = n /\ Textured
    BY <1>2, <1>4, <1>19
  <2>2. \A m \in TexName \cup {0}: pixels'[m] = IF m = n THEN p ELSE PixelsAfter(g)[m]
    BY <1>2, <1>6, <1>10, <2>1
  <2>3. p # NONE /\ pixels'[n] = p /\ cachedTex' = n
    BY <1>2, <1>6, <2>2, DrawingAssumption
  <2>4. TexCopied'
    BY <1>2, <2>1, <2>3 DEF TexCopied
  <2>5. pixels'[0] = BLANK
    BY <1>6, <1>8, <1>10, <2>1, <2>2 DEF Textured
  <2>6. gltex'[e] = n /\ pic'[e] = p
    BY <1>2, <1>3, <1>5
  <2>7. ASSUME NEW f \in Ent, f # e, gltex'[f] # 0
        PROVE  /\ gltex'[f] = gltex[f] /\ gltex[f] # n
               /\ pixels'[gltex'[f]] = pic'[f] /\ pic'[f] \in Image
    <3>1. gltex'[f] = gltex[f] /\ pic'[f] = pic[f] /\ gltex[f] \in TexName \cup {0}
      BY <1>2, <1>3, <1>5, <2>7
    <3>2. pixels[gltex[f]] = pic[f] /\ pic[f] \in Image /\ gltex[f] # g
      BY <2>1, <2>7, <3>1 DEF Textured, g
    <3>3. pic[f] # NONE
      BY <3>2, DrawingAssumption
    <3>4. gltex[f] # n /\ gltex[f] \notin Deleted(g)
      BY <1>6, <1>7, <3>2, <3>3
    <3>5. pixels'[gltex[f]] = PixelsAfter(g)[gltex[f]]
      BY <2>2, <3>1, <3>4
    <3>6. PixelsAfter(g)[gltex[f]] = pixels[gltex[f]]
      BY <1>10, <3>1, <3>4
    <3> QED
      BY <3>1, <3>2, <3>4, <3>5, <3>6
  <2>8. \A f \in Ent: gltex'[f] # 0 => pixels'[gltex'[f]] = pic'[f] /\ pic'[f] \in Image
    BY <2>3, <2>6, <2>7
  <2>9. ASSUME NEW f \in Ent, NEW h \in Ent, gltex'[f] # 0, gltex'[f] = gltex'[h] PROVE f = h
    <3>1. CASE f = e
      BY <2>6, <2>7, <2>9, <3>1
    <3>2. CASE h = e
      BY <2>6, <2>7, <2>9, <3>2
    <3>3. CASE f # e /\ h # e
      BY <2>1, <2>7, <2>9, <3>3 DEF Textured
    <3> QED
      BY <3>1, <3>2, <3>3
  <2>10. Textured'
    BY <2>5, <2>8, <2>9 DEF Textured
  <2> QED
    BY <2>4, <2>10
<1> QED
  BY <1>1, <1>15, <1>16, <1>18, <1>19 DEF FrameInv

-----------------------------------------------------------------------------
(* A frame.                                                                *)

LEMMA BeginKeeps ==
  ASSUME FrameInv, FrameBegins
  PROVE  FrameInv'
<1>1. PICK white \in Colour \ {0}: SetInk(white)
  BY DEF FrameBegins
<1>2. /\ ~drawing /\ drawing' = TRUE
      /\ UNCHANGED <<driver, pixels, retired, gl, window, things, order, quad, excuses>>
  BY DEF FrameBegins
<1>3. cleared' = (window = NONE)
  BY DEF FrameBegins
<1>4. InkCopied' /\ ink' \in Colour /\ cachedInk' \in Colour
  BY <1>1, InkFollows DEF FrameInv
<1>5. order = <<>> /\ Drawn' = Drawn /\ Drawn = {} /\ Marks' = {}
  BY <1>2 DEF FrameInv, Undrawn, Drawn, Marks
<1>6. cleared' \in BOOLEAN
  BY <1>3
<1>7. DrawingTyped'
  BY <1>2, <1>4, <1>5, <1>6 DEF FrameInv, DrawingTyped, DrawingType, Quad
<1>8. ASSUME ~spilt PROVE cleared' /\ window = NONE
  BY <1>2, <1>3, <1>8 DEF FrameInv, Clipped
<1>9. ClipFrom(order, Marks)' = NONE
  BY <1>5 DEF ClipFrom
<1>10. Clipped'
  BY <1>2, <1>8, <1>9 DEF Clipped
<1>11. Undrawn'
  BY <1>2, <1>5 DEF FrameInv, Undrawn
<1>12. OnlyTexts' /\ (TexCopied => TexCopied') /\ (Textured => Textured')
  BY <1>2 DEF FrameInv, OnlyTexts, TexCopied, Textured
<1> QED
  BY <1>2, <1>4, <1>5, <1>7, <1>10, <1>11, <1>12 DEF FrameInv

LEMMA EndKeeps ==
  ASSUME FrameInv, FrameEnds
  PROVE  FrameInv'
<1>1. /\ drawing' = FALSE /\ order' = <<>> /\ cleared' = TRUE /\ quad' = [e \in Ent |-> NoQuad]
      /\ UNCHANGED <<driver, pixels, retired, gl, inks, window, things, mixed>>
  BY DEF FrameEnds
<1>2. spilt' = (spilt \/ window # NONE)
  BY DEF FrameEnds
<1>3. Drawn' = {} /\ spilt' \in BOOLEAN
  BY <1>1, <1>2 DEF Drawn
<1>4. NoQuad \in Quad
  BY DrawingAssumption DEF NoQuad, Quad
<1>5. quad' \in [Ent -> Quad] /\ \A e \in Ent: quad'[e].pic \in Image \cup {BLANK, NONE} /\ quad'[e].ink \in Colour
  BY <1>1, <1>4 DEF Quad
<1>6. order' \in Seq(Ent)
  BY <1>1
<1>7. DrawingTyped'
  BY <1>1, <1>3, <1>5, <1>6 DEF FrameInv, DrawingTyped, DrawingType
<1>8. InkCopied' /\ OnlyTexts' /\ (TexCopied => TexCopied') /\ (Textured => Textured')
  BY <1>1 DEF FrameInv, InkCopied, OnlyTexts, TexCopied, Textured
<1>9. Clipped'
  BY <1>1, <1>2 DEF Clipped
<1>10. Undrawn'
  BY <1>1, <1>3 DEF Undrawn
<1> QED
  BY <1>1, <1>3, <1>7, <1>8, <1>9, <1>10 DEF FrameInv

(* What an entity is wanted to leave does not change while others are      *)
(* drawn, and the rectangle of the next one is the one that is set.        *)
LEMMA DrawnStays ==
  ASSUME FrameInv, NEW e \in Ent, DrawNext(e)
  PROVE  /\ Drawn' = Drawn \cup {e} /\ order' \in Seq(Ent)
         /\ \A f \in Drawn: Wanted(f)' = Wanted(f) /\ f # e
         /\ ~spilt => cleared' /\ Clip(e)' = window
         /\ kind[e] \notin {"scissor", "disabler"} => ClipFrom(order, Marks)' = ClipFrom(order, Marks)
         /\ kind[e] \in {"scissor", "disabler"} => ClipFrom(order, Marks)' = Rectangle(e)
<1>1. /\ drawing /\ e \notin Drawn /\ order' = Append(order, e)
      /\ UNCHANGED <<driver, pixels, retired, things, drawing, cleared, excuses>>
  BY DEF DrawNext
<1>2. order \in Seq(Ent)
  BY DEF FrameInv, DrawingTyped
<1>3. /\ order' \in Seq(Ent) /\ Drawn' = Drawn \cup {e} /\ Marks \subseteq DOMAIN order
      /\ Marks \subseteq Nat /\ Len(order) + 1 \in Nat /\ order'[Len(order) + 1] = e
      /\ \A j \in DOMAIN order: order'[j] = order[j] /\ j < Len(order) + 1
      /\ kind[e] \notin {"scissor", "disabler"} => Marks' = Marks
      /\ kind[e] \in {"scissor", "disabler"} => Marks' = Marks \cup {Len(order) + 1}
      /\ Before(e)' = Marks
      /\ \A f \in Drawn: Before(f)' = Before(f) /\ Before(f) \subseteq DOMAIN order
  BY <1>1, <1>2, OneMore
<1>4. kind' = kind /\ gltex' = gltex /\ pic' = pic /\ tint' = tint /\ spilt' = spilt
      /\ drawing' = drawing /\ cleared' = cleared
  BY <1>1
<1>5. ASSUME NEW f \in Drawn PROVE Clip(f)' = Clip(f)
  <2>1. Clip(f) = ClipFrom(order, Before(f))
    BY DEF Clip, ClipFrom
  <2>2. Clip(f)' = ClipFrom(order', Before(f))
    BY <1>3, <1>4 DEF Clip, ClipFrom
  <2>3. \A j \in Before(f): order'[j] = order[j]
    BY <1>3
  <2> HIDE DEF Before
  <2> QED
    BY <2>1, <2>2, <2>3, ClipSame
<1>6. ASSUME NEW f \in Drawn PROVE Wanted(f)' = Wanted(f) /\ f # e
  BY <1>1, <1>4, <1>5 DEF Wanted
<1>7. \A j \in Marks: order'[j] = order[j]
  BY <1>3
<1>8. ClipFrom(order', Marks) = ClipFrom(order, Marks)
  BY <1>7, ClipSame
<1>9. Clip(e)' = ClipFrom(order', Marks)
  BY <1>3, <1>4 DEF Clip, ClipFrom
<1>10. ASSUME ~spilt PROVE cleared' /\ Clip(e)' = window
  BY <1>1, <1>4, <1>8, <1>9, <1>10 DEF FrameInv, Clipped
<1>11. ClipFrom(order, Marks)' = ClipFrom(order', Marks')
  BY <1>4 DEF ClipFrom
<1>12. ASSUME kind[e] \notin {"scissor", "disabler"} PROVE ClipFrom(order, Marks)' = ClipFrom(order, Marks)
  BY <1>3, <1>8, <1>11, <1>12
<1>13. ASSUME kind[e] \in {"scissor", "disabler"} PROVE ClipFrom(order, Marks)' = Rectangle(e)
  <2> DEFINE n == Len(order) + 1
  <2>1. n \in Nat /\ Marks' = Marks \cup {n} /\ order'[n] = e /\ Marks \subseteq Nat
        /\ \A j \in Marks: j < n
    BY <1>3, <1>13
  <2> HIDE DEF n
  <2>2. Marks' \in SUBSET Nat /\ n \in Marks' /\ \A k \in Marks': k <= n
    BY <2>1
  <2>3. ClipFrom(order', Marks') = IF kind[order'[n]] = "scissor" THEN order'[n] ELSE NONE
    BY <2>2, ClipLast
  <2> QED
    BY <1>11, <2>1, <2>3 DEF Rectangle
<1> QED
  BY <1>3, <1>6, <1>10, <1>12, <1>13

(* An entity more has been drawn.                                          *)
LEMMA DrawnKeeps ==
  ASSUME FrameInv, NEW e \in Ent, DrawNext(e), InkCopied',
         ink' \in Colour, cachedInk' \in Colour, bound' \in TexName \cup {0}, cachedTex' \in TexName \cup {0},
         ~mixed => TexCopied',
         NEW q \in Quad, quad' = [quad EXCEPT ![e] = q],
         window' = IF kind[e] \in {"scissor", "disabler"} THEN Rectangle(e) ELSE window,
         ~mixed => QuadRight(e)'
  PROVE  FrameInv'
<1>1. /\ Drawn' = Drawn \cup {e} /\ order' \in Seq(Ent)
      /\ \A f \in Drawn: Wanted(f)' = Wanted(f) /\ f # e
      /\ ~spilt => cleared' /\ Clip(e)' = window
      /\ kind[e] \notin {"scissor", "disabler"} => ClipFrom(order, Marks)' = ClipFrom(order, Marks)
      /\ kind[e] \in {"scissor", "disabler"} => ClipFrom(order, Marks)' = Rectangle(e)
  BY DrawnStays
<1>2. drawing /\ UNCHANGED <<driver, pixels, retired, things, drawing, cleared, excuses>>
  BY DEF DrawNext
<1>3. DrawingTyped
  BY DEF FrameInv
<1>4. quad' \in [Ent -> Quad] /\ \A f \in Ent: quad'[f].pic \in Image \cup {BLANK, NONE} /\ quad'[f].ink \in Colour
  BY <1>3 DEF DrawingTyped, Quad
<1>5. window' \in Ent \cup {NONE}
  BY <1>3 DEF DrawingTyped, DrawingType, Rectangle
<1>6. Drawn' \subseteq Ent
  BY <1>1, <1>3 DEF DrawingTyped, DrawingType
<1>7. DrawingTyped'
  BY <1>1, <1>2, <1>3, <1>4, <1>5, <1>6 DEF DrawingTyped, DrawingType
<1>8. OnlyTexts' /\ (Textured => Textured')
  BY <1>2 DEF FrameInv, OnlyTexts, Textured
<1>9. Clipped'
  BY <1>1, <1>2 DEF FrameInv, Clipped
<1>10. Undrawn'
  BY <1>1, <1>2, <1>3 DEF FrameInv, Undrawn, DrawingTyped
<1>11. ASSUME ~mixed, NEW f \in Drawn PROVE QuadRight(f)'
  <2>1. QuadRight(f) /\ Wanted(f)' = Wanted(f) /\ f # e /\ f \in Ent
    BY <1>1, <1>3, <1>11 DEF FrameInv, DrawingTyped, DrawingType
  <2>2. quad'[f] = quad[f]
    BY <1>3, <2>1 DEF DrawingTyped
  <2> QED
    BY <1>2, <2>1, <2>2 DEF QuadRight
<1>12. mixed' = mixed /\ driver' = driver
  BY <1>2
<1> QED
  BY <1>1, <1>7, <1>8, <1>9, <1>10, <1>11, <1>12 DEF FrameInv

LEMMA SkipKeeps ==
  ASSUME FrameInv, NEW e \in Ent, Skip(e)
  PROVE  FrameInv'
<1>1. DrawNext(e) /\ gltex[e] = 0 /\ UNCHANGED <<gl, window, quad>> /\ kind[e] \in {"none", "text"}
  BY DEF Skip
<1>2. DrawingTyped /\ InkCopied /\ e \notin Drawn /\ (~mixed => TexCopied)
      /\ UNCHANGED <<pixels, retired, things, driver, excuses>>
  BY <1>1 DEF FrameInv, DrawNext
<1>3. InkCopied' /\ ink' \in Colour /\ cachedInk' \in Colour
  <2>1. CASE UNCHANGED inks
    BY <1>2, <2>1 DEF DrawingTyped, DrawingType, InkCopied
  <2>2. CASE SetInk(tint[e])
    <3>1. tint[e] \in Colour
      BY <1>2 DEF DrawingTyped, DrawingType
    <3> QED
      BY <1>2, <2>2, <3>1, InkFollows
  <2> QED
    BY <2>1, <2>2 DEF Skip
<1>4. bound' \in TexName \cup {0} /\ cachedTex' \in TexName \cup {0} /\ (~mixed => TexCopied')
  BY <1>1, <1>2 DEF DrawingTyped, DrawingType, TexCopied
<1>5. quad[e] = NoQuad /\ quad \in [Ent -> Quad]
  BY <1>2 DEF FrameInv, Undrawn, DrawingTyped
<1>6. quad' = [quad EXCEPT ![e] = NoQuad] /\ NoQuad \in Quad
  BY <1>1, <1>5
<1>7. Wanted(e)' = NoQuad
  BY <1>1, <1>2 DEF Wanted
<1>8. QuadRight(e)'
  BY <1>1, <1>5, <1>7 DEF QuadRight, NoQuad
<1> QED
  BY <1>1, <1>3, <1>4, <1>6, <1>8, DrawnKeeps

LEMMA QuadKeeps ==
  ASSUME FrameInv, NEW e \in Ent, DrawQuad(e)
  PROVE  FrameInv'
<1> DEFINE g == gltex[e]
           q == [pic |-> pixels[bound'], ink |-> ink', clip |-> window]
<1>1. /\ DrawNext(e) /\ (kind[e] = "fade" \/ (kind[e] = "text" /\ g # 0)) /\ SetInk(tint[e])
      /\ quad' = [quad EXCEPT ![e] = q] /\ window' = window
  BY DEF DrawQuad
<1>2. /\ DrawingTyped /\ InkCopied /\ (~mixed => TexCopied /\ Textured) /\ OnlyTexts
      /\ UNCHANGED <<pixels, retired, things, driver, excuses>>
  BY <1>1 DEF FrameInv, DrawNext
<1>3. tint[e] \in Colour /\ g \in TexName \cup {0} /\ bound \in TexName \cup {0} /\ window \in Ent \cup {NONE}
      /\ pixels \in [TexName \cup {0} -> Image \cup {BLANK, NONE}] /\ quad \in [Ent -> Quad]
  BY <1>2 DEF DrawingTyped, DrawingType
<1>4. InkCopied' /\ ink' = tint[e] /\ cachedInk' = tint[e]
  BY <1>1, <1>2, <1>3, InkFollows
<1>5. cachedTex' = g /\ bound' = (IF cachedTex = g THEN bound ELSE g)
  BY DEF DrawQuad, Bind
<1>6. bound' \in TexName \cup {0} /\ cachedTex' \in TexName \cup {0}
  BY <1>3, <1>5
<1>7. q \in Quad
  BY <1>3, <1>4, <1>6 DEF Quad
<1>8. kind[e] = "fade" => g = 0
  BY <1>2 DEF OnlyTexts
<1>9. ASSUME ~mixed PROVE bound' = g /\ TexCopied' /\ pixels[g] = IF kind[e] = "fade" THEN BLANK ELSE pic[e]
  <2>1. pixels[g] = (IF kind[e] = "fade" THEN BLANK ELSE pic[e]) /\ pixels[g] \in Image \cup {BLANK}
    BY <1>1, <1>2, <1>8, <1>9 DEF Textured
  <2>2. pixels[g] # NONE
    BY <2>1, DrawingAssumption
  <2>3. bound' = g
    BY <1>2, <1>5, <1>9, <2>2 DEF TexCopied
  <2> QED
    BY <1>2, <1>5, <2>1, <2>2, <2>3 DEF TexCopied
<1>10. quad'[e] = q /\ kind' = kind /\ gltex' = gltex /\ pic' = pic /\ tint' = tint /\ spilt' = spilt
  BY <1>1, <1>2, <1>3
<1>11. ~spilt => Clip(e)' = window
  BY <1>1, DrawnStays
<1>12. ASSUME ~mixed PROVE QuadRight(e)'
  <2>1. Wanted(e)' = [pic |-> pixels[g], ink |-> tint[e], clip |-> Clip(e)']
    <3>1. CASE kind[e] = "fade"
      BY <1>9, <1>10, <1>12, <3>1 DEF Wanted
    <3>2. CASE kind[e] = "text" /\ g # 0
      BY <1>9, <1>10, <1>12, <3>2 DEF Wanted
    <3> QED
      BY <1>1, <3>1, <3>2
  <2>2. q = [pic |-> pixels[g], ink |-> tint[e], clip |-> window]
    BY <1>4, <1>9, <1>12
  <2> HIDE DEF q
  <2>3. CASE spilt
    BY <1>10, <2>1, <2>2, <2>3 DEF QuadRight
  <2>4. CASE ~spilt
    BY <1>10, <1>11, <2>1, <2>2, <2>4 DEF QuadRight
  <2> QED
    BY <2>3, <2>4
<1>13. window' = IF kind[e] \in {"scissor", "disabler"} THEN Rectangle(e) ELSE window
  BY <1>1
<1> HIDE DEF q
<1> QED
  BY <1>1, <1>3, <1>4, <1>6, <1>7, <1>9, <1>12, <1>13, DrawnKeeps

LEMMA ScissorKeeps ==
  ASSUME FrameInv, NEW e \in Ent, DrawScissor(e)
  PROVE  FrameInv'
<1>1. /\ DrawNext(e) /\ kind[e] \in {"scissor", "disabler"} /\ SetInk(tint[e])
      /\ window' = Rectangle(e) /\ UNCHANGED <<gl, quad>>
  BY DEF DrawScissor
<1>2. /\ DrawingTyped /\ InkCopied /\ e \notin Drawn /\ (~mixed => TexCopied)
      /\ UNCHANGED <<pixels, retired, things, driver, excuses>>
  BY <1>1 DEF FrameInv, DrawNext
<1>3. tint[e] \in Colour
  BY <1>2 DEF DrawingTyped, DrawingType
<1>4. InkCopied' /\ ink' = tint[e] /\ cachedInk' = tint[e]
  BY <1>1, <1>2, <1>3, InkFollows
<1>5. bound' \in TexName \cup {0} /\ cachedTex' \in TexName \cup {0} /\ (~mixed => TexCopied')
  BY <1>1, <1>2 DEF DrawingTyped, DrawingType, TexCopied
<1>6. quad[e] = NoQuad /\ quad \in [Ent -> Quad]
  BY <1>2 DEF FrameInv, Undrawn, DrawingTyped
<1>7. quad' = [quad EXCEPT ![e] = NoQuad] /\ NoQuad \in Quad
  BY <1>1, <1>6
<1>8. Wanted(e)' = NoQuad
  BY <1>1, <1>2 DEF Wanted
<1>9. QuadRight(e)'
  BY <1>1, <1>6, <1>8 DEF QuadRight, NoQuad
<1> QED
  BY <1>1, <1>3, <1>4, <1>5, <1>7, <1>9, DrawnKeeps

-----------------------------------------------------------------------------
LEMMA DrawingStarts == DrawingInit => FrameInv
<1> SUFFICES ASSUME DrawingInit PROVE FrameInv
  OBVIOUS
<1>1. NoQuad \in Quad
  BY DrawingAssumption DEF NoQuad, Quad
<1>2. Drawn = {} /\ order \in Seq(Ent)
  BY DEF DrawingInit, Drawn
<1>3. quad \in [Ent -> Quad] /\ \A e \in Ent: quad[e].pic \in Image \cup {BLANK, NONE} /\ quad[e].ink \in Colour
  BY <1>1 DEF DrawingInit, Quad
<1>4. DrawingTyped
  BY <1>2, <1>3, DrawingAssumption DEF DrawingInit, DrawingTyped, DrawingType, Kinds
<1>5. InkCopied /\ OnlyTexts /\ Clipped /\ Undrawn
  BY DEF DrawingInit, InkCopied, OnlyTexts, Clipped, Undrawn
<1>6. Textured /\ TexCopied
  BY DrawingAssumption DEF DrawingInit, Textured, TexCopied
<1> QED
  BY <1>2, <1>4, <1>5, <1>6 DEF FrameInv, DrawingInit

LEMMA DrawingKeeps == FrameInv /\ [DrawingNext]_drawingVars => FrameInv'
<1> SUFFICES ASSUME FrameInv, [DrawingNext]_drawingVars PROVE FrameInv'
  OBVIOUS
<1>1. ASSUME NEW e \in Ent, NEW k \in Kinds, SetKind(e, k) PROVE FrameInv'
  BY <1>1, EraseKeeps DEF SetKind
<1>2. ASSUME NEW e \in Ent, NEW c \in Colour, SetTint(e, c) PROVE FrameInv'
  BY <1>2, TintKeeps
<1>3. ASSUME NEW e \in Ent, Erase(e) PROVE FrameInv'
  BY <1>3, EraseKeeps DEF Erase
<1>4. ASSUME NEW e \in Ent, NEW p \in Image, Redraw(e, p) PROVE FrameInv'
  BY <1>4, RedrawKeeps
<1>5. CASE FrameBegins
  BY <1>5, BeginKeeps
<1>6. ASSUME NEW e \in Ent, Skip(e) PROVE FrameInv'
  BY <1>6, SkipKeeps
<1>7. ASSUME NEW e \in Ent, DrawQuad(e) PROVE FrameInv'
  BY <1>7, QuadKeeps
<1>8. ASSUME NEW e \in Ent, DrawScissor(e) PROVE FrameInv'
  BY <1>8, ScissorKeeps
<1>9. CASE FrameEnds
  BY <1>9, EndKeeps
<1>10. CASE UNCHANGED drawingVars
  <2>1. UNCHANGED <<driver, pixels, retired, bound, cachedTex, ink, cachedInk, window>>
        /\ UNCHANGED <<kind, gltex, pic, tint, drawing, order, quad, cleared, mixed, spilt>>
    BY <1>10 DEF drawingVars
  <2>2. DrawingTyped' /\ InkCopied' /\ OnlyTexts' /\ Undrawn'
    BY <2>1 DEF FrameInv, DrawingTyped, DrawingType, InkCopied, OnlyTexts, Undrawn, Drawn, Quad
  <2>3. Clipped'
    BY <2>1 DEF FrameInv, Clipped, ClipFrom, Marks
  <2>4. ~mixed => TexCopied' /\ Textured'
    BY <2>1 DEF FrameInv, TexCopied, Textured
  <2>5. Drawn' = Drawn
    BY <2>1 DEF Drawn
  <2>6. ASSUME ~mixed, NEW e \in Drawn PROVE QuadRight(e)'
    <3>1. Wanted(e)' = Wanted(e)
      BY <2>1 DEF Wanted, Clip, Before
    <3> QED
      BY <2>1, <2>6, <3>1 DEF FrameInv, QuadRight
  <2>7. (driver = "fresh" => ~mixed)'
    BY <2>1 DEF FrameInv
  <2> QED
    BY <2>1, <2>2, <2>3, <2>4, <2>5, <2>6, <2>7 DEF FrameInv
<1> QED
  BY <1>1, <1>2, <1>3, <1>4, <1>5, <1>6, <1>7, <1>8, <1>9, <1>10 DEF DrawingNext

(* FrameShowsEntities: what an entity leaves on the screen is what game    *)
(* code has made of it, and the state OpenGL was left in decides nothing   *)
(* (g_render_entity, and the copies of gl.c and gl_texture.c).             *)
THEOREM FramesAlwaysShow == DrawingSpec => []FrameShowsEntities
<1>1. FrameInv => FrameShowsEntities
  <2> SUFFICES ASSUME FrameInv PROVE FrameShowsEntities
    OBVIOUS
  <2>1. DrawingType
    BY DEF FrameInv, DrawingTyped
  <2>2. ASSUME drawing, driver = "fresh" \/ ~mixed, NEW e \in Drawn
        PROVE  IF spilt THEN [quad[e] EXCEPT !.clip = Wanted(e).clip] = Wanted(e)
               ELSE cleared /\ quad[e] = Wanted(e)
    BY <2>2 DEF FrameInv, Clipped, QuadRight
  <2> QED
    BY <2>1, <2>2 DEF FrameShowsEntities
<1> QED
  BY <1>1, DrawingStarts, DrawingKeeps, PTL DEF DrawingSpec

-----------------------------------------------------------------------------
(* Pictures and textures (Texels).  Sizes first: a side of a texture is    *)
(* the picture's or a power of two, which divides one in fixed point.      *)

LEMMA PowersDivide ==
  ASSUME NEW p \in Powers
  PROVE  p \in Nat \ {0} /\ p <= One /\ One = (One \div p) * p /\ One \div p \in Nat
BY DEF Powers, One

LEMMA SizesKnown ==
  /\ MaxSide \in Nat \ {0} /\ MinDim \in Nat /\ MaxDim \in Nat
  /\ MinDim \in Powers /\ MaxDim \in Powers /\ 2 <= MinDim /\ MinDim <= MaxDim /\ MaxDim <= One /\ One \in Nat
<1>1. MinDim \in Powers \ {1} /\ MaxDim \in Powers \ {1} /\ MinDim <= MaxDim /\ MaxSide \in Nat \ {0}
  BY TexelsAssumption DEF TexelsAssumption
<1>2. MinDim \in Nat \ {0} /\ MaxDim \in Nat \ {0} /\ MaxDim <= One
  BY <1>1, PowersDivide
<1> QED
  BY <1>1, <1>2 DEF One

LEMMA PowerUpIs ==
  ASSUME NEW n \in Nat, n <= One
  PROVE  PowerUp(n) \in Powers /\ PowerUp(n) >= n
<1>1. \E p \in Powers: p >= n /\ \A q \in Powers: q >= n => p <= q
  BY DEF Powers, One
<1> QED
  BY <1>1 DEF PowerUp

(* Either there is no change of size, or it is to a power of two.          *)
LEMMA SideIs ==
  ASSUME NEW n \in Nat \ {0}, npot \in BOOLEAN
  PROVE  /\ SideOf(n) \in MinDim .. MaxDim
         /\ SideOf(n) \in Powers \/ (npot /\ SideOf(n) = n)
         /\ n <= MaxDim => n <= SideOf(n)
<1> DEFINE s == Between(n, 1, MaxDim)
           t == IF npot THEN s ELSE PowerUp(s)
<1>1. s \in Nat \ {0} /\ s <= MaxDim /\ (n <= MaxDim => s = n) /\ (s = n \/ s = MaxDim)
  BY SizesKnown DEF Between
<1>2. PowerUp(s) \in Powers /\ PowerUp(s) >= s
  <2> HIDE DEF s
  <2>1. s \in Nat /\ s <= One
    BY <1>1, SizesKnown
  <2> QED
    BY <2>1, PowerUpIs
<1> HIDE DEF s
<1>3. t \in Nat /\ t >= s /\ (t \in Powers \/ (npot /\ t = n))
  <2>1. CASE npot
    BY <1>1, <2>1, SizesKnown
  <2>2. CASE ~npot
    <3>1. PowerUp(s) \in Nat
      BY <1>2, PowersDivide
    <3> QED
      BY <1>2, <2>2, <3>1
  <2> QED
    BY <2>1, <2>2
<1>4. SideOf(n) = Between(t, MinDim, MaxDim)
  BY DEF SideOf, s
<1> HIDE DEF t
<1> QED
  BY <1>1, <1>3, <1>4, SizesKnown DEF Between

-----------------------------------------------------------------------------
(* Row k of a texture of t rows lies in the picture of h rows at k * h / t.*)
(* The fixed point finds the row in front of it exactly.                   *)

LEMMA StepExact ==
  ASSUME NEW h \in Nat \ {0}, NEW t \in Nat \ {0}, t = h \/ t \in Powers
  PROVE  /\ (h * One) \div t \in Nat
         /\ ((h * One) \div t) * t = h * One
<1>0. One \in Nat
  BY DEF One
<1>1. CASE t = h
  <2>1. (h * One) \div h = One
    BY <1>0
  <2> QED
    BY <1>0, <1>1, <2>1
<1>2. CASE t \in Powers
  <2> DEFINE c == One \div t
  <2>1. c \in Nat /\ One = c * t
    BY <1>2, PowersDivide
  <2> HIDE DEF c
  <2>2. h * One = (h * c) * t /\ h * c \in Nat
    BY <2>1
  <2>3. ((h * c) * t) \div t = h * c
    BY <2>2
  <2> QED
    BY <2>2, <2>3
<1> QED
  BY <1>1, <1>2

LEMMA RowFound ==
  ASSUME NEW h \in Nat \ {0}, NEW t \in Nat \ {0}, NEW k \in Nat, k < t, NEW st \in Nat, st * t = h * One,
         NEW y, y = (k * st) \div One
  PROVE  /\ y \in Nat /\ y < h
         /\ y * t <= k * h
         /\ (y + 1) * t > k * h
<1>0. One \in Nat \ {0}
  BY DEF One
<1>1. y \in Int /\ y * One <= k * st /\ k * st < y * One + One
  <2>1. k * st \in Nat
    OBVIOUS
  <2> DEFINE a == k * st
  <2> HIDE DEF a
  <2>2. a \in Nat /\ y = a \div One
    BY <2>1 DEF a
  <2>3. y \in Int /\ y * One <= a /\ a < y * One + One
    BY <1>0, <2>2
  <2> QED
    BY <2>3 DEF a
<1>2. y \in Nat
  BY <1>0, <1>1
<1>3. (k * st) * t = (k * h) * One
  <2>1. (k * st) * t = k * (st * t)
    OBVIOUS
  <2>2. k * (h * One) = (k * h) * One
    BY <1>0
  <2> QED
    BY <2>1, <2>2
<1>4. (y * One) * t <= (k * st) * t
  BY <1>0, <1>1, <1>2
<1>5. (k * st) * t < (y * One + One) * t
  BY <1>0, <1>1, <1>2
<1>6. (y * t) * One <= (k * h) * One
  <2>1. (y * One) * t = (y * t) * One
    BY <1>0, <1>2
  <2> QED
    BY <1>3, <1>4, <2>1
<1>7. (k * h) * One < ((y + 1) * t) * One
  <2>1. (y * One + One) * t = ((y + 1) * t) * One
    BY <1>0, <1>2
  <2> QED
    BY <1>3, <1>5, <2>1
<1>8. y * t <= k * h
  <2>1. y * t \in Nat /\ k * h \in Nat
    BY <1>2
  <2> QED
    BY <1>6, <2>1 DEF One
<1>9. (y + 1) * t > k * h
  <2>1. (y + 1) * t \in Nat /\ k * h \in Nat
    BY <1>2
  <2> QED
    BY <1>7, <2>1 DEF One
<1>10. y < h
  <2>1. k * h < t * h
    OBVIOUS
  <2>2. y * t < h * t
    BY <1>2, <1>8, <2>1
  <2> QED
    BY <1>2, <2>2
<1> QED
  BY <1>2, <1>8, <1>9, <1>10

-----------------------------------------------------------------------------
(* The invariant: what the size is made from, which rows of the picture    *)
(* the two rows are, and that each row of the texture has the right two.   *)

RowRight(r, k, t) ==
  /\ r[1] \in 0 .. Endy /\ r[2] \in 0 .. Endy
  /\ r[1] * t <= k * high
  /\ IF r[1] = r[2] THEN r[1] = Endy \/ r[1] * t = k * high
     ELSE r[2] = r[1] + 1 /\ r[2] * t >= k * high

TexelsType ==
  /\ wide \in Nat \ {0} /\ high \in Nat \ {0} /\ npot \in BOOLEAN /\ noscale \in BOOLEAN
  /\ phase \in {"size", "rows", "done", "spilt", "wild"}
  /\ made \in Nat /\ out \in Nat
  /\ rows \in Seq(Int \X Int)

Sized ==
  phase # "size" =>
    /\ tw = SideOf(wide) /\ th = SideOf(high)
    /\ share[2] = IF noscale THEN <<high, th>> ELSE <<high, high>>
    /\ phase = "rows" => ~noscale

Copied == phase = "done" /\ noscale => Len(rows) = high /\ high <= th
Spilt  == phase = "spilt" => noscale /\ (wide > MaxDim \/ high > MaxDim)
Wild   == phase = "wild" => ~noscale /\ (high = 1 \/ wide * One > IntMax \/ high * One > IntMax)

(* From row n of a texture on there is nothing to show but the picture's   *)
(* last row.                                                               *)
AtLast(n, t) == n * high >= Endy * t

Scaled ==
  phase = "done" /\ ~noscale =>
    Len(rows) = th \/ (Len(rows) \in 1 .. th /\ AtLast(Len(rows) - 1, th))

RowsKept ==
  /\ phase = "size" => oldy = 0 /\ row1 = 0 /\ row2 = 1 /\ rows = <<>> /\ made = 0 /\ out = 0
  /\ phase \in {"size", "rows"} =>
       oldy \in 0 .. Endy /\ row1 = oldy /\ (oldy < Endy => row2 = oldy + 1)
  /\ phase = "rows" =>
       /\ made <= th
       /\ \/ out = made /\ Len(rows) = made
          \/ out < made /\ Len(rows) = out + 1 /\ AtLast(out, th)
       /\ \A m \in DOMAIN rows: RowRight(rows[m], m - 1, th)
  /\ phase = "done" => \A m \in DOMAIN rows: RowRight(rows[m], m - 1, IF noscale THEN high ELSE th)

TexelsInv == TexelsType /\ Sized /\ Copied /\ Scaled /\ Spilt /\ Wild /\ RowsKept

LEMMA TexelsStart == TexelsInit => TexelsInv
<1> SUFFICES ASSUME TexelsInit PROVE TexelsInv
  OBVIOUS
<1>1. wide \in Nat \ {0} /\ high \in Nat \ {0}
  BY SizesKnown DEF TexelsInit, Sides
<1>2. rows = <<>> /\ oldy = 0 /\ row1 = 0 /\ row2 = 1 /\ phase = "size" /\ npot \in BOOLEAN /\ noscale \in BOOLEAN
      /\ made = 0 /\ out = 0
  BY DEF TexelsInit
<1>3. Endy \in Nat
  BY <1>1 DEF Endy
<1>4. TexelsType
  BY <1>1, <1>2 DEF TexelsType
<1> QED
  BY <1>2, <1>3, <1>4 DEF TexelsInv, Sized, Copied, Scaled, Spilt, Wild, RowsKept

(* No step of the fixed point goes beyond the whole side.                  *)
LEMMA StepsWithin ==
  ASSUME NEW h \in Nat \ {0}, NEW t \in Nat \ {0}, t = h \/ t \in Powers, NEW k \in Nat, k <= t
  PROVE  k * ((h * One) \div t) <= h * One /\ k * ((h * One) \div t) \in Nat
<1> DEFINE st == (h * One) \div t
<1>1. st \in Nat /\ st * t = h * One
  BY StepExact
<1> HIDE DEF st
<1>2. k * st <= t * st /\ k * st \in Nat
  BY <1>1
<1>3. t * st = st * t
  BY <1>1
<1> QED
  BY <1>1, <1>2, <1>3 DEF st, One

LEMMA CreatedRight == TexelsInv /\ CreateTexture => TexelsInv'
<1> SUFFICES ASSUME TexelsInv, CreateTexture PROVE TexelsInv'
  OBVIOUS
<1>1. wide \in Nat \ {0} /\ high \in Nat \ {0} /\ npot \in BOOLEAN /\ noscale \in BOOLEAN
      /\ made \in Nat /\ out \in Nat
  BY DEF TexelsInv, TexelsType
<1>2. /\ phase = "size" /\ tw' = SideOf(wide) /\ th' = SideOf(high)
      /\ UNCHANGED <<wide, high, noscale, npot, made, out, oldy, row1, row2>>
  BY DEF CreateTexture, picture
<1>3. share'[2] = IF noscale THEN <<high, th'>> ELSE <<high, high>>
  <2>1. share' = IF noscale THEN <<<<wide, tw'>>, <<high, th'>>>> ELSE <<<<wide, wide>>, <<high, high>>>>
    BY DEF CreateTexture
  <2>2. CASE noscale
    BY <2>1, <2>2
  <2>3. CASE ~noscale
    BY <2>1, <2>3
  <2> QED
    BY <2>2, <2>3
<1>4. SideOf(wide)' = SideOf(wide) /\ SideOf(high)' = SideOf(high) /\ Endy' = Endy
  BY <1>2 DEF SideOf, Endy
<1>5. /\ tw' \in Nat \ {0} /\ th' \in Nat
      /\ wide <= MaxDim => wide <= tw'
      /\ high <= MaxDim => high <= th'
      /\ tw' = wide \/ tw' \in Powers
  BY <1>1, <1>2, SideIs, SizesKnown
<1>6. oldy \in 0 .. Endy /\ row1 = oldy /\ (oldy < Endy => row2 = oldy + 1) /\ rows = <<>>
      /\ made = 0 /\ out = 0
  BY <1>2 DEF TexelsInv, RowsKept
<1>7. CASE noscale \/ (wide = tw' /\ high = th')
  <2>1. /\ phase' = IF PictureFits THEN "done" ELSE "spilt"
        /\ rows' = [m \in 1 .. high |-> <<m - 1, m - 1>>]
    BY <1>7 DEF CreateTexture
  <2>2. /\ rows' \in Seq(Int \X Int) /\ Len(rows') = high /\ DOMAIN rows' = 1 .. high
        /\ \A m \in 1 .. high: rows'[m] = <<m - 1, m - 1>>
    BY <1>1, <2>1
  <2>3. TexelsType' /\ Sized' /\ Copied' /\ Wild'
    BY <1>1, <1>2, <1>3, <1>4, <2>1, <2>2 DEF TexelsType, Sized, Copied, Wild, PictureFits
  <2>4. Scaled'
    BY <1>2, <1>7, <2>2 DEF Scaled
  <2>5. Spilt'
    <3>1. ASSUME ~PictureFits PROVE noscale /\ (wide > MaxDim \/ high > MaxDim)
      BY <1>1, <1>5, <1>7, <3>1, SizesKnown DEF PictureFits
    <3> QED
      BY <1>2, <2>1, <3>1 DEF Spilt
  <2>6. ASSUME NEW m \in 1 .. high PROVE RowRight(rows'[m], m - 1, high)
    <3>1. rows'[m] = <<m - 1, m - 1>> /\ m - 1 \in 0 .. Endy
      BY <1>1, <2>2 DEF Endy
    <3> QED
      BY <1>1, <3>1 DEF RowRight
  <2>7. RowsKept'
    <3>1. phase' \in {"done", "spilt"}
      BY <2>1
    <3>2. high = IF noscale' THEN high' ELSE th'
      BY <1>2, <1>7
    <3>3. \A m \in DOMAIN rows': RowRight(rows'[m], m - 1, IF noscale' THEN high' ELSE th')
      BY <2>2, <2>6, <3>2
    <3>4. (\A m \in DOMAIN rows: RowRight(rows[m], m - 1, IF noscale THEN high ELSE th))'
      BY <1>2, <1>4, <3>3 DEF RowRight
    <3> QED
      BY <3>1, <3>4 DEF RowsKept
  <2> QED
    BY <2>3, <2>4, <2>5, <2>7 DEF TexelsInv
<1>8. CASE ~(noscale \/ (wide = tw' /\ high = th'))
  <2>1. /\ phase' \in {"rows", "wild"} /\ rows' = rows
        /\ phase' = "wild" => ColumnsOverflow \/ high = 1
    BY <1>8 DEF CreateTexture
  <2>2. TexelsType' /\ Sized' /\ Copied' /\ Scaled' /\ Spilt'
    BY <1>1, <1>2, <1>3, <1>4, <1>8, <2>1 DEF TexelsInv, TexelsType, Sized, Copied, Scaled, Spilt
  <2>3. Len(rows') = 0 /\ DOMAIN rows' = 1 .. 0
    BY <1>6, <2>1
  <2>4. RowsKept'
    BY <1>2, <1>4, <1>5, <1>6, <2>1, <2>3 DEF RowsKept
  <2>5. ASSUME ColumnsOverflow PROVE wide * One > IntMax
    <3> DEFINE t == tw'
               f == (t - 1) * ((wide * One) \div t)
    <3>1. f <= wide * One /\ f \in Nat
      <4>1. t \in Nat \ {0} /\ (t = wide \/ t \in Powers)
        BY <1>5
      <4> HIDE DEF t
      <4>2. t - 1 \in Nat /\ t - 1 <= t
        BY <4>1
      <4> QED
        BY <1>1, <4>1, <4>2, StepsWithin
    <3>2. f > IntMax
      BY <2>5 DEF ColumnsOverflow
    <3> HIDE DEF f
    <3>3. wide * One \in Nat /\ IntMax \in Nat
      BY <1>1, TexelsAssumption DEF TexelsAssumption, One
    <3> QED
      BY <3>1, <3>2, <3>3
  <2>6. Wild'
    BY <1>2, <1>8, <2>1, <2>5 DEF Wild
  <2> QED
    BY <2>2, <2>4, <2>6 DEF TexelsInv
<1> QED
  BY <1>7, <1>8

(* Between which rows of the picture the next row of the texture lies.     *)
LEMMA NextRow ==
  ASSUME TexelsInv, phase = "rows", made < th
  PROVE  /\ th \in Nat \ {0} /\ ~noscale /\ (th = high \/ th \in Powers)
         /\ Endy \in Nat /\ Endy = high - 1
         /\ Yi \in 0 .. Endy /\ Yi * th <= made * high /\ (Yi + 1) * th > made * high
<1>1. high \in Nat \ {0} /\ npot \in BOOLEAN /\ made \in Nat
  BY DEF TexelsInv, TexelsType
<1>2. th = SideOf(high) /\ ~noscale
  BY DEF TexelsInv, Sized
<1>3. th \in Nat \ {0} /\ (th = high \/ th \in Powers)
  <2>1. SideOf(high) \in MinDim .. MaxDim /\ (SideOf(high) \in Powers \/ SideOf(high) = high)
    BY <1>1, SideIs
  <2> QED
    BY <1>2, <2>1, SizesKnown
<1>4. Fstep \in Nat /\ Fstep * th = high * One
  BY <1>1, <1>3, StepExact DEF Fstep
<1>5. Yi = (made * Fstep) \div One
  BY DEF Yi, F
<1>6. Yi \in Nat /\ Yi < high /\ Yi * th <= made * high /\ (Yi + 1) * th > made * high
  BY <1>1, <1>3, <1>4, <1>5, RowFound
<1> QED
  BY <1>1, <1>2, <1>3, <1>6 DEF Endy

LEMMA ScaledRight == TexelsInv /\ ScaleRow => TexelsInv'
<1> SUFFICES ASSUME TexelsInv, ScaleRow PROVE TexelsInv'
  OBVIOUS
<1>1. wide \in Nat \ {0} /\ high \in Nat \ {0} /\ npot \in BOOLEAN /\ noscale \in BOOLEAN /\ rows \in Seq(Int \X Int)
      /\ made \in Nat /\ out \in Nat
  BY DEF TexelsInv, TexelsType
<1>2. phase = "rows" /\ made < th /\ phase' = phase /\ made' = made + 1
      /\ UNCHANGED <<wide, high, noscale, npot, tw, th, share>>
  BY DEF ScaleRow, picture
<1>3. /\ oldy \in 0 .. Endy /\ row1 = oldy /\ (oldy < Endy => row2 = oldy + 1)
      /\ \/ out = made /\ Len(rows) = made
         \/ out < made /\ Len(rows) = out + 1 /\ AtLast(out, th)
      /\ \A m \in DOMAIN rows: RowRight(rows[m], m - 1, th)
  BY <1>2 DEF TexelsInv, RowsKept
<1> DEFINE y == Yi
<1>4. /\ th \in Nat \ {0} /\ ~noscale
      /\ Endy \in Nat /\ Endy = high - 1
      /\ y \in 0 .. Endy /\ y * th <= made * high /\ (y + 1) * th > made * high
  BY <1>2, NextRow
<1>5. row1' = y /\ oldy' = y
  <2>1. row1' = (IF y = oldy THEN row1 ELSE IF y = oldy + 1 THEN row2 ELSE y) /\ oldy' = y
    BY DEF ScaleRow, NextRow1
  <2> HIDE DEF y
  <2> QED
    BY <1>3, <1>4, <2>1
<1> DEFINE new == IF y < Endy THEN <<y, y + 1>> ELSE <<y, y>>
<1>6. /\ rows' = Append(SubSeq(rows, 1, out), new)
      /\ out' = IF y < Endy THEN out + 1 ELSE out
      /\ y < Endy => row2' = y + 1
  <2>1. CASE y < Endy
    <3>1. row2' = (IF y = oldy THEN row2 ELSE y + 1) /\ rows' = Append(SubSeq(rows, 1, out), <<row1', row2'>>)
          /\ out' = out + 1
      BY <2>1 DEF ScaleRow, NextRow2
    <3>2. row2' = y + 1
      <4> HIDE DEF y
      <4> QED
        BY <1>3, <1>4, <2>1, <3>1
    <3> QED
      BY <1>5, <2>1, <3>1, <3>2
  <2>2. CASE ~(y < Endy)
    BY <1>5, <2>2 DEF ScaleRow
  <2> QED
    BY <2>1, <2>2
<1> HIDE DEF y
<1>7. y < Endy => out = made
  <2> SUFFICES ASSUME y < Endy, AtLast(out, th), out < made PROVE FALSE
    BY <1>3
  <2>1. (y + 1) * th <= Endy * th
    BY <1>4
  <2>2. out * high <= made * high
    BY <1>1
  <2>3. {(y + 1) * th, Endy * th, out * high, made * high} \subseteq Int
    BY <1>1, <1>4
  <2> QED
    BY <1>4, <2>1, <2>2, <2>3 DEF AtLast
<1>8. ASSUME ~(y < Endy) PROVE y = Endy /\ AtLast(out, th)
  <2>1. y = Endy
    BY <1>4, <1>8
  <2>2. AtLast(made, th)
    BY <1>1, <1>4, <2>1 DEF AtLast
  <2> QED
    BY <1>3, <2>1, <2>2
<1>9. RowRight(new, out, th)
  <2>1. CASE y < Endy
    <3>1. new[1] = y /\ new[2] = y + 1 /\ out = made
      BY <1>7, <2>1
    <3> HIDE DEF new
    <3> QED
      BY <1>1, <1>4, <2>1, <3>1 DEF RowRight
  <2>2. CASE ~(y < Endy)
    <3>1. new[1] = y /\ new[2] = y
      BY <2>2
    <3> HIDE DEF new
    <3> QED
      BY <1>1, <1>4, <1>8, <2>2, <3>1 DEF RowRight, AtLast
  <2> QED
    BY <2>1, <2>2
<1>10. new \in Int \X Int
  BY <1>4
<1> HIDE DEF new
<1>11. /\ rows' \in Seq(Int \X Int) /\ Len(rows') = out + 1 /\ DOMAIN rows' = 1 .. out + 1
       /\ \A m \in 1 .. out: rows'[m] = rows[m] /\ m \in DOMAIN rows
       /\ rows'[out + 1] = new
  <2> DEFINE front == SubSeq(rows, 1, out)
  <2>1. out <= Len(rows)
    BY <1>1, <1>3
  <2>2. front \in Seq(Int \X Int) /\ Len(front) = out /\ \A m \in 1 .. out: front[m] = rows[m] /\ m \in DOMAIN rows
    BY <1>1, <2>1
  <2> HIDE DEF front
  <2>3. rows' = Append(front, new)
    BY <1>6 DEF front
  <2> QED
    BY <1>1, <1>10, <2>2, <2>3
<1>12. ASSUME NEW m \in 1 .. out + 1 PROVE RowRight(rows'[m], m - 1, th)
  <2>1. CASE m \in 1 .. out
    BY <1>3, <1>11, <2>1
  <2>2. CASE m = out + 1
    <3>1. m - 1 = out /\ rows'[m] = new
      BY <1>1, <1>11, <2>2
    <3> QED
      BY <1>9, <3>1
  <2> QED
    BY <1>1, <2>1, <2>2
<1>13. Endy' = Endy /\ SideOf(wide)' = SideOf(wide) /\ SideOf(high)' = SideOf(high)
       /\ \A n, t: AtLast(n, t)' <=> AtLast(n, t)
  BY <1>2 DEF Endy, SideOf, AtLast
<1>14. out' \in Nat
  BY <1>1, <1>6
<1>15. TexelsType' /\ Sized' /\ Copied' /\ Scaled' /\ Spilt' /\ Wild'
  BY <1>1, <1>2, <1>11, <1>13, <1>14 DEF TexelsInv, TexelsType, Sized, Copied, Scaled, Spilt, Wild
<1>16. (\A m \in DOMAIN rows: RowRight(rows[m], m - 1, th))'
  BY <1>2, <1>11, <1>12, <1>13 DEF RowRight
<1>17. \/ out' = made' /\ Len(rows') = made'
       \/ out' < made' /\ Len(rows') = out' + 1 /\ AtLast(out, th)'
  <2>1. CASE y < Endy
    BY <1>1, <1>2, <1>6, <1>7, <1>11, <2>1
  <2>2. CASE ~(y < Endy)
    <3>1. out' = out /\ out <= made /\ Len(rows') = out + 1 /\ AtLast(out, th)
      BY <1>1, <1>3, <1>6, <1>8, <1>11, <2>2
    <3>2. AtLast(out, th)'
      BY <1>2, <3>1 DEF AtLast, Endy
    <3> QED
      BY <1>1, <1>2, <3>1, <3>2
  <2> QED
    BY <2>1, <2>2
<1>18. made' <= th'
  BY <1>1, <1>2, <1>4
<1>19. RowsKept'
  BY <1>2, <1>4, <1>5, <1>6, <1>13, <1>16, <1>17, <1>18 DEF RowsKept
<1> QED
  BY <1>15, <1>19 DEF TexelsInv

LEMMA OverflowRight == TexelsInv /\ RowsOverflow => TexelsInv'
<1> SUFFICES ASSUME TexelsInv, RowsOverflow PROVE TexelsInv'
  OBVIOUS
<1>1. /\ phase = "rows" /\ made < th /\ F > IntMax /\ phase' = "wild"
      /\ UNCHANGED <<wide, high, noscale, npot, tw, th, share, made, out, oldy, row1, row2, rows>>
  BY DEF RowsOverflow, picture
<1>2. high \in Nat \ {0} /\ made \in Nat /\ th \in Nat \ {0} /\ (th = high \/ th \in Powers) /\ ~noscale
  BY <1>1, NextRow DEF TexelsInv, TexelsType
<1>3. F <= high * One /\ F \in Nat
  BY <1>1, <1>2, StepsWithin DEF F, Fstep
<1>4. high * One > IntMax
  <2>1. high * One \in Nat /\ IntMax \in Nat
    BY <1>2, TexelsAssumption DEF TexelsAssumption, One
  <2> QED
    BY <1>1, <1>3, <2>1
<1>5. TexelsType' /\ Sized' /\ Copied' /\ Scaled' /\ Spilt'
  BY <1>1 DEF TexelsInv, TexelsType, Sized, Copied, Scaled, Spilt, SideOf
<1>6. Wild' /\ RowsKept'
  BY <1>1, <1>2, <1>4 DEF Wild, RowsKept
<1> QED
  BY <1>5, <1>6 DEF TexelsInv

LEMMA TexelsStep == TexelsInv /\ [TexelsNext]_texelsVars => TexelsInv'
<1> SUFFICES ASSUME TexelsInv, [TexelsNext]_texelsVars PROVE TexelsInv'
  OBVIOUS
<1>1. CASE ScaleEnds
  <2>1. /\ phase = "rows" /\ made = th /\ phase' = "done"
        /\ UNCHANGED <<wide, high, noscale, npot, tw, th, share, made, out, oldy, row1, row2, rows>>
    BY <1>1 DEF ScaleEnds, picture
  <2>2. TexelsType' /\ Sized' /\ Copied' /\ Spilt' /\ Wild'
    BY <2>1 DEF TexelsInv, TexelsType, Sized, Copied, Spilt, Wild, SideOf
  <2>3. Scaled'
    <3>1. \/ Len(rows) = th
          \/ Len(rows) - 1 = out /\ Len(rows) \in 1 .. th /\ AtLast(out, th)
      BY <2>1 DEF TexelsInv, TexelsType, RowsKept
    <3> QED
      BY <2>1, <3>1 DEF Scaled, AtLast, Endy
  <2>4. RowsKept'
    BY <2>1 DEF TexelsInv, Sized, RowsKept, RowRight, Endy
  <2> QED
    BY <2>2, <2>3, <2>4 DEF TexelsInv
<1>2. CASE UNCHANGED texelsVars
  BY <1>2 DEF texelsVars, picture, TexelsInv, TexelsType, Sized, Copied, Scaled, Spilt, Wild, SideOf, RowsKept, RowRight,
              AtLast, Endy
<1> QED
  BY <1>1, <1>2, CreatedRight, ScaledRight, OverflowRight DEF TexelsNext

LEMMA TexelsEnd == TexelsInv => TextureShowsPicture
<1> SUFFICES ASSUME TexelsInv PROVE TextureShowsPicture
  OBVIOUS
<1>1. /\ phase = "spilt" => noscale /\ (wide > MaxDim \/ high > MaxDim)
      /\ phase = "wild"  => ~noscale /\ (high = 1 \/ wide * One > IntMax \/ high * One > IntMax)
  BY DEF TexelsInv, Spilt, Wild
<1>2. ASSUME phase = "done"
      PROVE  /\ tw \in MinDim .. MaxDim /\ th \in MinDim .. MaxDim
             /\ npot \/ {tw, th} \subseteq Powers
             /\ \E of \in 1 .. th:
                  /\ of * share[2][2] = share[2][1] * th
                  /\ \/ Len(rows) = of
                     \/ ~noscale /\ Len(rows) \in 1 .. of /\ AtLast(Len(rows) - 1, of)
                  /\ \A m \in DOMAIN rows: RowRight(rows[m], m - 1, of)
  <2>1. tw = SideOf(wide) /\ th = SideOf(high) /\ wide \in Nat \ {0} /\ high \in Nat \ {0} /\ npot \in BOOLEAN
        /\ noscale \in BOOLEAN
    BY <1>2 DEF TexelsInv, TexelsType, Sized
  <2>2. /\ tw \in MinDim .. MaxDim /\ th \in MinDim .. MaxDim
        /\ npot \/ {tw, th} \subseteq Powers
    BY <2>1, SideIs
  <2>3. th \in Nat \ {0}
    BY <2>2, SizesKnown
  <2> DEFINE of == IF noscale THEN high ELSE th
  <2>4. of \in 1 .. th /\ of * share[2][2] = share[2][1] * th
        /\ (Len(rows) = of \/ (~noscale /\ Len(rows) \in 1 .. of /\ AtLast(Len(rows) - 1, of)))
    <3>1. CASE noscale
      <4>1. share[2][1] = high /\ share[2][2] = th /\ Len(rows) = high /\ high <= th /\ of = high
        BY <1>2, <3>1 DEF TexelsInv, Sized, Copied
      <4> HIDE DEF of
      <4> QED
        BY <2>1, <2>3, <4>1
    <3>2. CASE ~noscale
      <4>1. share[2][1] = high /\ share[2][2] = high /\ of = th
            /\ (Len(rows) = th \/ (Len(rows) \in 1 .. th /\ AtLast(Len(rows) - 1, th)))
        BY <1>2, <3>2 DEF TexelsInv, Sized, Scaled
      <4> HIDE DEF of
      <4> QED
        BY <2>1, <2>3, <3>2, <4>1
    <3> QED
      BY <3>1, <3>2
  <2>5. \A m \in DOMAIN rows: RowRight(rows[m], m - 1, of)
    BY <1>2 DEF TexelsInv, RowsKept
  <2> HIDE DEF of
  <2> QED
    BY <2>2, <2>4, <2>5
<1> QED
  BY <1>1, <1>2 DEF TextureShowsPicture, RowRight, AtLast

(* The rows of a texture that are written show the picture and nothing     *)
(* else, in order, whatever the two sizes; those that are not could only   *)
(* repeat its last row; and memory beyond the two is not touched but for   *)
(* the sizes named (gl_texture_create, image_resize, image_scale).         *)
THEOREM TexturesShow == TexelsSpec => []TextureShowsPicture
BY TexelsStart, TexelsStep, TexelsEnd, PTL DEF TexelsSpec

-----------------------------------------------------------------------------
(* The characters of a line font (Glyphs).                                 *)

Ended(c) == {q \in Characters: q[2] < c}

(* What frame n is of a font that has been searched.                       *)
CoordRight(n) ==
  \/ \E r \in Characters: Place(r) = n /\ r[2] + 1 \in Column /\ coords[n] = <<r[1] - 1, r[2] + 1>>
  \/ \E r \in Characters: Place(r) = n /\ r[2] + 1 = Wide /\ coords[n] = <<r[1] - 1, 0>>
  \/ Cardinality(Characters) <= n /\ coords[n] = <<0, 0>>

Coord == (-1 .. Wide) \X (0 .. Wide)

GlyphsType ==
  /\ filled \in SUBSET Column /\ count \in 2 .. MaxGlyphs
  /\ users \in {0, 1} /\ fonts \in {0, 1}
  /\ col \in 0 .. Wide /\ frame \in -1 .. count /\ open \in BOOLEAN
  /\ fallen \in BOOLEAN

(* Who loaded the sprite decides whether its frames are searched for.      *)
LoadedBy ==
  /\ first \in {"no", "user", "font", "late"}
  /\ first = "no" <=> ~InCache
  /\ first = "user" => coords = NONE
  /\ first \in {"font", "late"} => coords \in [Frame -> Coord]
  /\ coords # NONE => coords \in [Frame -> Coord]
  /\ fallen => first \in {"user", "late"}

ShownWhenResting ==
  /\ fallen \/ shown # Nothing => frame = -1
  /\ first = "font" /\ frame = -1 => \A n \in Frame: CoordRight(n)
  /\ shown # Nothing =>
       \/ \E n \in Frame: shown = <<"font", n, coords[n]>>
       \/ \E n \in Frame: shown = <<"user", n, IF coords = NONE THEN "part" ELSE coords[n]>>

(* The character that the search is in, from its first column on.          *)
Start == coords[frame][1] + 1
Inside ==
  /\ coords[frame] = <<Start - 1, 0>>
  /\ Start \in Column /\ Start < col /\ (Start .. col - 1) \subseteq filled /\ Start - 1 \notin filled
  /\ Cardinality(Ended(Start)) = frame

Outside ==
  /\ frame \in Frame => coords[frame] = <<0, 0>>
  /\ col < Wide => Cardinality(Ended(col)) = frame /\ {col - 1, col} \cap filled # {col - 1, col}
  /\ col = Wide => Cardinality(Characters) <= frame

(* The search: the frames in front of the one looked for are right.        *)
Searching ==
  frame # -1 =>
    /\ first = "font"
    /\ \A n \in Frame: n < frame => CoordRight(n)
    /\ \A n \in Frame: n > frame => coords[n] = <<0, 0>>
    /\ open => Inside /\ frame \in Frame
    /\ ~open => Outside

GlyphsInv == GlyphsType /\ LoadedBy /\ ShownWhenResting /\ Searching

-----------------------------------------------------------------------------
LEMMA WideKnown == Wide \in Nat /\ MaxGlyphs \in Nat
BY GlyphsAssumption DEF GlyphsAssumption

LEMMA NoCoord == count \in 2 .. MaxGlyphs => NONE \notin [Frame -> Coord]
BY GlyphsAssumption DEF GlyphsAssumption, Frame, Coord

LEMMA EndedFinite ==
  ASSUME filled \in SUBSET Column, NEW c
  PROVE  /\ IsFiniteSet(Characters) /\ Cardinality(Characters) \in Nat
         /\ IsFiniteSet(Ended(c)) /\ Cardinality(Ended(c)) \in Nat
<1>1. IsFiniteSet(Column)
  BY GlyphsAssumption, FS_Interval DEF Column, GlyphsAssumption
<1>2. IsFiniteSet(Column \X Column)
  BY <1>1, FS_Product
<1>3. Characters \in SUBSET (Column \X Column)
  BY DEF Characters
<1>4. IsFiniteSet(Characters)
  BY <1>2, <1>3, FS_Subset
<1>5. Ended(c) \in SUBSET Characters
  BY DEF Ended
<1>6. IsFiniteSet(Ended(c))
  BY <1>4, <1>5, FS_Subset
<1> QED
  BY <1>4, <1>6, FS_CardinalityType

LEMMA CharacterIs ==
  ASSUME filled \in SUBSET Column, NEW q \in Characters
  PROVE  /\ q[1] \in Column /\ q[2] \in Column /\ q[1] \in Int /\ q[2] \in Int /\ q = <<q[1], q[2]>>
         /\ q[1] <= q[2]
         /\ \A x \in q[1] .. q[2]: x \in filled
         /\ q[1] - 1 \notin filled /\ q[2] + 1 \notin filled
         /\ q[2] \in filled /\ q[1] \in filled
<1>1. /\ q \in Column \X Column
      /\ q[1] <= q[2] /\ (q[1] .. q[2]) \subseteq filled /\ q[1] - 1 \notin filled /\ q[2] + 1 \notin filled
  BY DEF Characters
<1>2. q[1] \in Column /\ q[2] \in Column /\ q = <<q[1], q[2]>>
  BY <1>1
<1>3. q[1] \in Int /\ q[2] \in Int
  BY <1>2, GlyphsAssumption DEF Column, GlyphsAssumption
<1> QED
  BY <1>1, <1>2, <1>3

(* The columns from b to c - 1 are a character, the next one.              *)
LEMMA NextCharacter ==
  ASSUME filled \in SUBSET Column, NEW b \in Column, NEW c \in 0 .. Wide, b < c,
         (b .. c - 1) \subseteq filled, b - 1 \notin filled, c \notin filled
  PROVE  /\ <<b, c - 1>> \in Characters
         /\ Place(<<b, c - 1>>) = Cardinality(Ended(b))
         /\ Cardinality(Ended(c)) = Cardinality(Ended(b)) + 1
<1> DEFINE r == <<b, c - 1>>
<1>0. Wide \in Nat /\ b \in Nat /\ c \in Nat /\ Column = 0 .. Wide - 1
  BY GlyphsAssumption DEF Column, GlyphsAssumption
<1>1. r \in Characters
  <2>1. r \in Column \X Column /\ r[1] = b /\ r[2] = c - 1
    BY <1>0
  <2>2. b <= c - 1 /\ (c - 1) + 1 = c
    BY <1>0
  <2> HIDE DEF r
  <2> QED
    BY <2>1, <2>2 DEF Characters
<1>2. Place(r) = Cardinality(Ended(b))
  BY DEF Place, Ended
<1>3. ASSUME NEW q \in Ended(c), q \notin Ended(b) PROVE q = r
  <2>1. q \in Characters /\ q[2] < c /\ ~(q[2] < b)
    BY <1>3 DEF Ended
  <2>2. /\ q[1] \in Int /\ q[2] \in Int /\ q = <<q[1], q[2]>> /\ q[1] <= q[2]
        /\ \A x \in q[1] .. q[2]: x \in filled
        /\ q[1] - 1 \notin filled /\ q[2] + 1 \notin filled
    BY <2>1, CharacterIs
  <2>3. q[2] = c - 1
    <3>1. q[2] + 1 \notin b .. c - 1
      BY <2>2
    <3> QED
      BY <1>0, <2>1, <2>2, <3>1
  <2>4. q[1] = b
    <3>1. ~(q[1] < b)
      <4>1. ASSUME q[1] < b PROVE b - 1 \in q[1] .. q[2]
        BY <1>0, <2>1, <2>2, <4>1
      <4> QED
        BY <2>2, <4>1
    <3>2. ~(q[1] > b)
      <4>1. ASSUME q[1] > b PROVE q[1] - 1 \in b .. c - 1
        BY <1>0, <2>2, <2>3, <4>1
      <4> QED
        BY <2>2, <4>1
    <3> QED
      BY <1>0, <2>2, <3>1, <3>2
  <2> QED
    BY <2>2, <2>3, <2>4
<1>4. r \in Ended(c) /\ r \notin Ended(b)
  BY <1>0, <1>1 DEF Ended
<1>5. Ended(b) \subseteq Ended(c)
  <2> SUFFICES ASSUME NEW q \in Ended(b) PROVE q \in Ended(c)
    OBVIOUS
  <2>1. q \in Characters /\ q[2] < b
    BY DEF Ended
  <2>2. q[2] \in Int
    BY <2>1, CharacterIs
  <2> QED
    BY <1>0, <2>1, <2>2 DEF Ended
<1> HIDE DEF r
<1>6. Ended(c) = Ended(b) \cup {r}
  BY <1>3, <1>4, <1>5
<1>7. Cardinality(Ended(b) \cup {r}) = Cardinality(Ended(b)) + 1
  BY <1>4, EndedFinite, FS_AddElement
<1> QED
  BY <1>1, <1>2, <1>6, <1>7 DEF r

LEMMA EmptyColumn ==
  ASSUME filled \in SUBSET Column, NEW c \in Column, c \notin filled
  PROVE  Ended(c + 1) = Ended(c)
<1>0. c \in Int
  BY GlyphsAssumption DEF Column, GlyphsAssumption
<1>1. \A q \in Characters: q[2] \in Int /\ q[2] # c
  BY CharacterIs
<1>2. \A q \in Characters: q[2] < c + 1 <=> q[2] < c
  BY <1>0, <1>1
<1> QED
  BY <1>2 DEF Ended

LEMMA AllEnded ==
  ASSUME filled \in SUBSET Column
  PROVE  Ended(Wide) = Characters /\ Ended(0) = {} /\ Wide \notin filled /\ -1 \notin filled
<1>0. Wide \in Nat /\ Column = 0 .. Wide - 1
  BY GlyphsAssumption DEF Column, GlyphsAssumption
<1>1. \A q \in Characters: q[2] \in Column
  BY CharacterIs
<1>2. \A q \in Characters: q[2] < Wide /\ ~(q[2] < 0)
  BY <1>0, <1>1
<1> QED
  BY <1>0, <1>2 DEF Ended

-----------------------------------------------------------------------------
LEMMA GlyphsStart == GlyphsInit => GlyphsInv
<1> SUFFICES ASSUME GlyphsInit PROVE GlyphsInv
  OBVIOUS
<1>1. GlyphsType
  <2>1. Wide \in Nat /\ MaxGlyphs \in Nat
    BY GlyphsAssumption DEF GlyphsAssumption
  <2>2. filled \in SUBSET Column /\ count \in 2 .. MaxGlyphs
    BY DEF GlyphsInit
  <2>3. users = 0 /\ fonts = 0 /\ col = 0 /\ frame = -1 /\ open = FALSE /\ fallen = FALSE
    BY DEF GlyphsInit
  <2>4. 0 \in 0 .. Wide /\ -1 \in -1 .. count
    BY <2>1, <2>2
  <2> QED
    BY <2>2, <2>3, <2>4 DEF GlyphsType
<1>2. LoadedBy
  BY DEF GlyphsInit, LoadedBy, InCache
<1> QED
  BY <1>1, <1>2 DEF GlyphsInit, GlyphsInv, ShownWhenResting, Searching

(* What does not touch the picture and the coords.                         *)
LEMMA SameGlyphs ==
  ASSUME UNCHANGED <<filled, count, coords>>
  PROVE  /\ Frame' = Frame /\ Characters' = Characters
         /\ \A n: CoordRight(n)' <=> CoordRight(n)
<1>1. Frame' = Frame /\ Characters' = Characters
  BY DEF Frame, Characters
<1>2. \A r: Place(r)' = Place(r)
  BY <1>1 DEF Place
<1> QED
  BY <1>1, <1>2 DEF CoordRight

(* The caches: the search is over, and another takes the sprite or drops   *)
(* it, or it is drawn.                                                     *)
LEMMA CacheKeeps ==
  ASSUME GlyphsInv,
         \/ Elsewhere \/ UserLoads \/ UserDrops \/ FontDrops \/ FontTakes
  PROVE  GlyphsInv'
<1> USE DEF GlyphsInv
<1>1. /\ Resting /\ shown' = Nothing /\ UNCHANGED <<filled, count, search, fallen>>
      /\ users' \in {0, 1} /\ fonts' \in {0, 1}
  BY DEF Elsewhere, UserLoads, UserDrops, FontDrops, FontTakes, GlyphsType
<1>2. frame' = -1 /\ ~fallen' /\ col' = col /\ open' = open
  BY <1>1 DEF Resting, search
<1>3. GlyphsType'
  BY <1>1, <1>2 DEF GlyphsType, Column
<1>4. Frame' = Frame
  BY <1>1 DEF Frame
<1>5. LoadedBy'
  <2>1. CASE coords' = coords /\ first' = first /\ (InCache' <=> InCache)
    BY <1>2, <1>4, <2>1 DEF LoadedBy, Coord
  <2>2. CASE coords' = coords /\ first' = "no" /\ ~InCache'
    BY <1>2, <1>4, <2>2 DEF LoadedBy, Coord
  <2>3. CASE coords' = NONE /\ first' = "user" /\ InCache'
    BY <1>2, <2>3 DEF LoadedBy
  <2> QED
    BY <2>1, <2>2, <2>3
       DEF Elsewhere, UserLoads, UserDrops, FontDrops, FontTakes, FirstAfter, InCache, LoadedBy, GlyphsType
<1>6. first' = "font" => first = "font" /\ coords' = coords
  BY DEF Elsewhere, UserLoads, UserDrops, FontDrops, FontTakes, FirstAfter
<1>7. ShownWhenResting'
  BY <1>1, <1>2, <1>4, <1>6, SameGlyphs DEF ShownWhenResting, Resting
<1> QED
  BY <1>2, <1>3, <1>5, <1>7 DEF Searching

LEMMA LoadKeeps ==
  ASSUME GlyphsInv, FontLoads
  PROVE  GlyphsInv'
<1> USE DEF GlyphsInv
<1>1. /\ Resting /\ shown' = Nothing /\ UNCHANGED <<filled, count, users, fallen>>
      /\ fonts' = 1 /\ first' = "font" /\ coords' = [n \in Frame |-> <<0, 0>>]
      /\ frame' = 0 /\ col' = 0 /\ open' = FALSE
  BY DEF FontLoads
<1>2. Frame' = Frame /\ count' \in Nat /\ 0 \in Frame /\ Wide \in Nat
  BY <1>1, WideKnown DEF Frame, GlyphsType
<1>3. GlyphsType'
  <2>1. 0 \in -1 .. count /\ 0 \in 0 .. Wide
    BY <1>1, <1>2
  <2>2. filled' \in SUBSET Column' /\ count' \in 2 .. MaxGlyphs /\ users' \in {0, 1} /\ fallen' \in BOOLEAN
    BY <1>1 DEF GlyphsType, Column
  <2> QED
    BY <1>1, <2>1, <2>2 DEF GlyphsType
<1>4. coords' \in [Frame -> Coord] /\ \A n \in Frame: coords'[n] = <<0, 0>>
  <2>1. <<0, 0>> \in Coord
    BY <1>2 DEF Coord
  <2> QED
    BY <1>1, <2>1
<1>5. LoadedBy'
  <2>1. InCache'
    BY <1>1 DEF InCache, GlyphsType
  <2>2. ~fallen'
    BY <1>1 DEF Resting
  <2> QED
    BY <1>1, <1>2, <1>4, <2>1, <2>2 DEF LoadedBy, Coord
<1>6. filled' \in SUBSET Column' /\ Column' = Column
  BY <1>3 DEF GlyphsType, Column
<1>7. Ended(0) = {} /\ Ended(Wide) = Characters /\ -1 \notin filled
  BY AllEnded DEF GlyphsType
<1>8. Cardinality({}) = 0
  BY FS_EmptySet
<1>9. Characters' = Characters /\ Ended(0)' = Ended(0)
  BY <1>1 DEF Characters, Ended, Column
<1>10. (~open => Outside)'
  BY <1>1, <1>2, <1>4, <1>7, <1>8, <1>9 DEF Outside
<1>11. (\A n \in Frame: n < frame => CoordRight(n))'
  BY <1>1, <1>2 DEF Frame
<1>12. Searching'
  BY <1>1, <1>2, <1>4, <1>10, <1>11 DEF Searching
<1>13. ShownWhenResting'
  BY <1>1 DEF ShownWhenResting, Resting
<1> QED
  BY <1>3, <1>5, <1>12, <1>13

LEMMA LateKeeps ==
  ASSUME GlyphsInv, FontLoadsLate
  PROVE  GlyphsInv'
<1> USE DEF GlyphsInv
<1>1. /\ Resting /\ shown' = Nothing /\ UNCHANGED <<filled, count, users, search>>
      /\ fonts' = 1 /\ first' = "late" /\ fallen' \in BOOLEAN
      /\ coords' \in {[n \in Frame |-> <<0, 0>>], [n \in Frame |-> <<-1, Wide>>]}
  BY DEF FontLoadsLate
<1>2. Frame' = Frame /\ Wide \in Nat /\ frame' = -1
  BY <1>1, GlyphsAssumption DEF Frame, GlyphsAssumption, Resting, search
<1>3. GlyphsType'
  BY <1>1 DEF GlyphsType, Column, search
<1>4. coords' \in [Frame -> Coord]
  <2>1. <<0, 0>> \in Coord /\ <<-1, Wide>> \in Coord
    BY <1>2 DEF Coord
  <2>2. [n \in Frame |-> <<0, 0>>] \in [Frame -> Coord] /\ [n \in Frame |-> <<-1, Wide>>] \in [Frame -> Coord]
    BY <2>1
  <2> QED
    BY <1>1, <2>2
<1>5. LoadedBy'
  <2>1. InCache'
    BY <1>1 DEF InCache, GlyphsType
  <2> QED
    BY <1>1, <1>2, <1>4, <2>1 DEF LoadedBy, Coord
<1> QED
  BY <1>1, <1>2, <1>3, <1>5 DEF Searching, ShownWhenResting

LEMMA DrawsGlyph ==
  ASSUME GlyphsInv, NEW n, DrawGlyph(n) \/ DrawFrame(n)
  PROVE  GlyphsInv'
<1> USE DEF GlyphsInv
<1>1. Resting /\ UNCHANGED <<filled, count, users, fonts, coords, search, first>> /\ n \in Frame
  BY DEF DrawGlyph, DrawFrame
<1>2. frame' = -1 /\ frame = -1 /\ ~fallen
  BY <1>1 DEF Resting, search
<1>3. GlyphsType'
  BY <1>1 DEF GlyphsType, Column, search, DrawGlyph, DrawFrame
<1>4. Frame' = Frame
  BY <1>1 DEF Frame
<1>5. fallen' => first \in {"user", "late"}
  <2>1. ASSUME fallen' PROVE coords = NONE /\ fonts = 1
    BY <1>2, <2>1 DEF DrawGlyph, DrawFrame
  <2>2. NONE \notin [Frame -> Coord]
    BY NoCoord DEF GlyphsType
  <2>3. fonts = 1 => InCache
    BY DEF InCache, GlyphsType
  <2> QED
    BY <2>1, <2>2, <2>3 DEF LoadedBy
<1>6. LoadedBy'
  <2>1. InCache' <=> InCache
    BY <1>1 DEF InCache
  <2> QED
    BY <1>1, <1>4, <1>5, <2>1 DEF LoadedBy, Coord
<1>7. ShownWhenResting'
  <2>1. \/ shown' = Nothing
        \/ shown' = <<"font", n, coords[n]>>
        \/ shown' = <<"user", n, IF coords = NONE THEN "part" ELSE coords[n]>>
    BY DEF DrawGlyph, DrawFrame
  <2>2. (first = "font" /\ frame = -1 => \A m \in Frame: CoordRight(m))'
    BY <1>1, <1>2, SameGlyphs DEF ShownWhenResting
  <2> QED
    BY <1>1, <1>2, <1>4, <2>1, <2>2 DEF ShownWhenResting
<1> QED
  BY <1>2, <1>3, <1>6, <1>7 DEF Searching

-----------------------------------------------------------------------------
(* The search, a column at a time.                                         *)

LEMMA SearchKnown ==
  ASSUME GlyphsInv, frame # -1
  PROVE  /\ filled \in SUBSET Column /\ Wide \in Nat /\ Column = 0 .. Wide - 1
         /\ count \in Nat /\ Frame = 0 .. count - 1 /\ frame \in 0 .. count /\ col \in 0 .. Wide
         /\ coords \in [Frame -> Coord] /\ coords # NONE /\ first = "font" /\ InCache
         /\ ~fallen /\ shown = Nothing /\ open \in BOOLEAN
<1>1. first = "font" /\ ~fallen /\ shown = Nothing
  BY DEF GlyphsInv, Searching, ShownWhenResting
<1>2. NONE \notin [Frame -> Coord]
  BY NoCoord DEF GlyphsInv, GlyphsType
<1> QED
  BY <1>1, <1>2, GlyphsAssumption
     DEF GlyphsInv, GlyphsType, LoadedBy, Column, Frame, GlyphsAssumption

(* What is enough to say of a step of the search.                          *)
LEMMA SearchKeeps ==
  ASSUME GlyphsInv, frame # -1, Kept, frame' \in 0 .. count, col' \in 0 .. Wide, open' \in BOOLEAN,
         coords' \in [Frame -> Coord],
         (\A n \in Frame: n < frame => CoordRight(n))',
         (\A n \in Frame: n > frame => coords[n] = <<0, 0>>)',
         (open => Inside /\ frame \in Frame)', (~open => Outside)'
  PROVE  GlyphsInv'
<1>1. UNCHANGED <<filled, count, users, fonts, shown, fallen, first>>
  BY DEF Kept
<1>2. Frame' = Frame /\ Column' = Column
  BY <1>1 DEF Frame, Column
<1>3. frame' # -1
  BY DEF GlyphsInv, GlyphsType
<1>4. GlyphsType'
  BY <1>1, <1>2, SearchKnown DEF GlyphsInv, GlyphsType
<1>5. LoadedBy'
  <2>1. InCache' <=> InCache
    BY <1>1 DEF InCache
  <2> QED
    BY <1>1, <1>2, <2>1, SearchKnown DEF LoadedBy, Coord
<1>6. ShownWhenResting'
  BY <1>1, <1>3, SearchKnown DEF ShownWhenResting
<1>7. Searching'
  BY <1>1, SearchKnown DEF Searching
<1> QED
  BY <1>4, <1>5, <1>6, <1>7 DEF GlyphsInv

LEMMA SkipsColumn ==
  ASSUME GlyphsInv, SkipColumn
  PROVE  GlyphsInv'
<1>1. /\ frame \in Frame /\ col \in Column /\ (open <=> col \in filled) /\ col' = col + 1
      /\ Kept /\ UNCHANGED <<coords, frame, open>> /\ UNCHANGED <<filled, count>>
  BY DEF SkipColumn, Look, Kept
<1>2. frame # -1
  BY <1>1 DEF GlyphsInv, GlyphsType, Frame
<1> USE <1>2, SearchKnown
<1>3. Frame' = Frame /\ Column' = Column /\ col' \in 0 .. Wide /\ col \in Nat
  BY <1>1 DEF Frame, Column
<1>4. Characters' = Characters /\ (\A c: Ended(c)' = Ended(c)) /\ \A n: CoordRight(n)' <=> CoordRight(n)
  BY <1>1, SameGlyphs DEF Ended
<1>5. (open => Inside /\ frame \in Frame)'
  <2>1. ASSUME open PROVE Inside'
    <3>1. Inside /\ col \in filled
      BY <1>1, <2>1 DEF GlyphsInv, Searching
    <3>2. Start' = Start /\ Cardinality(Ended(Start))' = Cardinality(Ended(Start))
      BY <1>1, <1>4 DEF Start, Ended
    <3>3. (Start .. col' - 1) \subseteq filled
      BY <1>1, <1>3, <3>1 DEF Inside
    <3>4. Start < col'
      BY <1>1, <1>3, <3>1 DEF Inside
    <3> QED
      BY <1>1, <1>3, <3>1, <3>2, <3>3, <3>4 DEF Inside
  <2> QED
    BY <1>1, <1>3, <2>1
<1>6. (~open => Outside)'
  <2>1. ASSUME ~open PROVE Outside'
    <3>1. Outside /\ col \notin filled
      BY <1>1, <2>1 DEF GlyphsInv, Searching
    <3>2. col < Wide
      BY <1>1, <1>3
    <3>3. Cardinality(Ended(col)) = frame /\ Ended(col') = Ended(col)
      BY <1>1, <3>1, <3>2, EmptyColumn DEF Outside
    <3>4. col' = Wide => Cardinality(Characters) <= frame
      BY <3>3, AllEnded
    <3>5. {col' - 1, col'} \cap filled # {col' - 1, col'}
      <4>1. col' - 1 = col
        BY <1>1, <1>3
      <4> QED
        BY <3>1, <4>1
    <3>6. Ended(col)' = Ended(col')
      BY <1>4 DEF Ended
    <3> QED
      BY <1>1, <1>3, <1>4, <3>1, <3>3, <3>4, <3>5, <3>6 DEF Outside
  <2> QED
    BY <1>1, <2>1
<1>7. (\A n \in Frame: n < frame => CoordRight(n))' /\ (\A n \in Frame: n > frame => coords[n] = <<0, 0>>)'
  BY <1>1, <1>3, <1>4 DEF GlyphsInv, Searching
<1> QED
  BY <1>1, <1>3, <1>5, <1>6, <1>7, SearchKeeps

LEMMA OpenKeeps ==
  ASSUME GlyphsInv, OpenFrame
  PROVE  GlyphsInv'
<1>1. /\ frame \in Frame /\ col \in Column /\ ~open /\ col \in filled /\ col' = col + 1 /\ open' = TRUE
      /\ Kept /\ UNCHANGED frame /\ UNCHANGED <<filled, count>>
      /\ coords' = [coords EXCEPT ![frame][1] = col - 1]
  BY DEF OpenFrame, Look, Kept
<1>2. frame # -1
  BY <1>1 DEF GlyphsInv, GlyphsType, Frame
<1> USE <1>2, SearchKnown
<1>3. Frame' = Frame /\ Column' = Column /\ col' \in 0 .. Wide /\ col \in Nat
  BY <1>1 DEF Frame, Column
<1>4. Outside /\ coords[frame] = <<0, 0>>
  BY <1>1 DEF GlyphsInv, Searching, Outside
<1>5. coords' = [coords EXCEPT ![frame] = <<col - 1, 0>>]
  <2>1. coords' = [coords EXCEPT ![frame] = [coords[frame] EXCEPT ![1] = col - 1]]
    BY <1>1
  <2>2. [coords[frame] EXCEPT ![1] = col - 1] = <<col - 1, 0>>
    BY <1>4
  <2> QED
    BY <2>1, <2>2
<1>6. coords' \in [Frame -> Coord] /\ coords'[frame] = <<col - 1, 0>> /\ \A n \in Frame: n # frame => coords'[n] = coords[n]
  <2>1. <<col - 1, 0>> \in Coord
    BY <1>1, <1>3 DEF Coord
  <2> QED
    BY <1>1, <1>5, <2>1
<1>7. Characters' = Characters /\ (\A c: Ended(c)' = Ended(c)) /\ \A r: Place(r)' = Place(r)
  BY <1>1 DEF Characters, Ended, Column, Place
<1>8. \A n \in Frame: n # frame => (CoordRight(n)' <=> CoordRight(n))
  BY <1>1, <1>3, <1>6, <1>7 DEF CoordRight
<1>9. Start' = col
  <2>1. Start' = coords'[frame][1] + 1
    BY <1>1 DEF Start
  <2> QED
    BY <1>3, <1>6, <2>1
<1>10. col - 1 \notin filled /\ Cardinality(Ended(col)) = frame
  BY <1>1, <1>3, <1>4 DEF Outside
<1>11. Inside'
  <2>1. Ended(Start)' = Ended(col)
    BY <1>7, <1>9 DEF Ended
  <2>2. col .. col' - 1 = {col}
    BY <1>1, <1>3
  <2> QED
    BY <1>1, <1>3, <1>6, <1>9, <1>10, <2>1, <2>2 DEF Inside
<1>12. (\A n \in Frame: n < frame => CoordRight(n))'
  BY <1>1, <1>3, <1>8 DEF GlyphsInv, Searching
<1>13. (\A n \in Frame: n > frame => coords[n] = <<0, 0>>)'
  BY <1>1, <1>3, <1>6 DEF GlyphsInv, Searching
<1> QED
  BY <1>1, <1>3, <1>6, <1>11, <1>12, <1>13, SearchKeeps

LEMMA CloseKeeps ==
  ASSUME GlyphsInv, CloseFrame
  PROVE  GlyphsInv'
<1>1. /\ frame \in Frame /\ col \in Column /\ open /\ col \notin filled /\ col' = col /\ open' = FALSE
      /\ Kept /\ frame' = frame + 1 /\ UNCHANGED <<filled, count>>
      /\ coords' = [coords EXCEPT ![frame][2] = col]
  BY DEF CloseFrame, Look, Kept, Onward
<1>2. frame # -1
  BY <1>1 DEF GlyphsInv, GlyphsType, Frame
<1> USE <1>2, SearchKnown
<1>3. Frame' = Frame /\ Column' = Column /\ col' \in 0 .. Wide /\ col \in Nat /\ frame' \in 0 .. count /\ frame \in Nat
  BY <1>1 DEF Frame, Column
<1>4. Inside
  BY <1>1 DEF GlyphsInv, Searching
<1> DEFINE b == Start
<1>5. /\ coords[frame] = <<b - 1, 0>> /\ b \in Column /\ b < col /\ (b .. col - 1) \subseteq filled /\ b - 1 \notin filled
      /\ Cardinality(Ended(b)) = frame
  BY <1>4 DEF Inside
<1> HIDE DEF b
<1>6. coords' = [coords EXCEPT ![frame] = <<b - 1, col>>]
  <2>1. coords' = [coords EXCEPT ![frame] = [coords[frame] EXCEPT ![2] = col]]
    BY <1>1
  <2>2. [coords[frame] EXCEPT ![2] = col] = <<b - 1, col>>
    BY <1>5
  <2> QED
    BY <2>1, <2>2
<1>7. coords' \in [Frame -> Coord] /\ coords'[frame] = <<b - 1, col>> /\ \A n \in Frame: n # frame => coords'[n] = coords[n]
  <2>1. <<b - 1, col>> \in Coord
    BY <1>1, <1>3, <1>5 DEF Coord
  <2> QED
    BY <1>1, <1>6, <2>1
<1>8. Characters' = Characters /\ (\A c: Ended(c)' = Ended(c)) /\ \A r: Place(r)' = Place(r)
  BY <1>1 DEF Characters, Ended, Column, Place
<1>9. \A n \in Frame: n # frame => (CoordRight(n)' <=> CoordRight(n))
  BY <1>1, <1>3, <1>7, <1>8 DEF CoordRight
<1>10. /\ <<b, col - 1>> \in Characters
       /\ Place(<<b, col - 1>>) = Cardinality(Ended(b))
       /\ Cardinality(Ended(col)) = Cardinality(Ended(b)) + 1
  BY <1>1, <1>5, NextCharacter
<1>11. \A n \in Frame: n = frame => CoordRight(n)'
  <2> SUFFICES ASSUME NEW n \in Frame, n = frame PROVE CoordRight(n)'
    OBVIOUS
  <2> SUFFICES ASSUME NEW r, r = <<b, col - 1>> PROVE CoordRight(n)'
    OBVIOUS
  <2>1. r[1] = b /\ r[2] + 1 = col
    BY <1>3
  <2>2. r \in Characters /\ Place(r) = n
    BY <1>5, <1>10
  <2>3. coords'[n] = <<r[1] - 1, r[2] + 1>> /\ r[2] + 1 \in Column
    BY <1>1, <1>7, <2>1
  <2>4. r[2] + 1 \in Column' /\ r \in Characters' /\ Place(r)' = n
    BY <1>3, <1>8, <2>2, <2>3
  <2> QED
    BY <2>3, <2>4 DEF CoordRight
<1>12. (\A n \in Frame: n < frame => CoordRight(n))'
  <2> SUFFICES ASSUME NEW n \in Frame, n < frame' PROVE CoordRight(n)'
    BY <1>3
  <2>1. n = frame \/ (n # frame /\ n < frame)
    BY <1>1, <1>3
  <2> QED
    BY <1>9, <1>11, <2>1 DEF GlyphsInv, Searching
<1>13. (\A n \in Frame: n > frame => coords[n] = <<0, 0>>)'
  <2> SUFFICES ASSUME NEW n \in Frame, n > frame' PROVE coords'[n] = <<0, 0>>
    BY <1>3
  <2>1. n > frame /\ n # frame
    BY <1>1, <1>3
  <2> QED
    BY <1>7, <2>1 DEF GlyphsInv, Searching
<1>14. Outside'
  <2>1. frame' \in Frame => coords'[frame'] = <<0, 0>>
    <3>1. frame' > frame /\ frame' # frame
      BY <1>1, <1>3
    <3> QED
      BY <1>7, <3>1 DEF GlyphsInv, Searching
  <2>2. Cardinality(Ended(col)) = frame'
    BY <1>1, <1>5, <1>10
  <2>3. Ended(col)' = Ended(col)
    BY <1>1, <1>8 DEF Ended
  <2>4. {col' - 1, col'} \cap filled # {col' - 1, col'} /\ col' < Wide
    BY <1>1, <1>3
  <2> QED
    BY <1>1, <1>3, <2>1, <2>2, <2>3, <2>4 DEF Outside
<1> QED
  BY <1>1, <1>3, <1>7, <1>12, <1>13, <1>14, SearchKeeps

LEMMA NoMoreKeeps ==
  ASSUME GlyphsInv, NoMore
  PROVE  GlyphsInv'
<1>1. /\ frame \in Frame /\ col = Wide /\ open' = FALSE
      /\ Kept /\ frame' = frame + 1 /\ UNCHANGED <<filled, count, coords, col>>
  BY DEF NoMore, Kept
<1>2. frame # -1
  BY <1>1 DEF GlyphsInv, GlyphsType, Frame
<1> USE <1>2, SearchKnown
<1>3. Frame' = Frame /\ Column' = Column /\ col' \in 0 .. Wide /\ col \in Nat /\ frame' \in 0 .. count /\ frame \in Nat
  BY <1>1 DEF Frame, Column
<1>4. Characters' = Characters /\ \A n: CoordRight(n)' <=> CoordRight(n)
  BY <1>1, SameGlyphs
<1>5. CoordRight(frame) /\ Cardinality(Characters) <= frame + 1
  <2>1. CASE open
    <3> DEFINE b == Start
    <3>1. /\ coords[frame] = <<b - 1, 0>> /\ b \in Column /\ b < col /\ (b .. col - 1) \subseteq filled /\ b - 1 \notin filled
          /\ Cardinality(Ended(b)) = frame
      BY <1>1, <2>1 DEF GlyphsInv, Searching, Inside
    <3> HIDE DEF b
    <3>2. col \notin filled /\ Ended(col) = Characters
      BY <1>1, AllEnded
    <3>3. /\ <<b, col - 1>> \in Characters
          /\ Place(<<b, col - 1>>) = Cardinality(Ended(b))
          /\ Cardinality(Ended(col)) = Cardinality(Ended(b)) + 1
      BY <3>1, <3>2, NextCharacter
    <3> DEFINE r == <<b, col - 1>>
    <3>4. r[1] = b /\ r[2] + 1 = Wide
      BY <1>1, <1>3
    <3>5. r \in Characters /\ Place(r) = frame
      BY <3>1, <3>3
    <3> HIDE DEF r
    <3>6. coords[frame] = <<r[1] - 1, 0>>
      BY <3>1, <3>4
    <3>7. CoordRight(frame)
      BY <3>4, <3>5, <3>6 DEF CoordRight
    <3> QED
      BY <1>3, <3>1, <3>2, <3>3, <3>7
  <2>2. CASE ~open
    <3>1. coords[frame] = <<0, 0>> /\ Cardinality(Characters) <= frame
      BY <1>1, <2>2 DEF GlyphsInv, Searching, Outside
    <3>2. Cardinality(Characters) \in Nat
      BY EndedFinite
    <3> QED
      BY <1>3, <3>1, <3>2 DEF CoordRight
  <2> QED
    BY <2>1, <2>2
<1>6. (\A n \in Frame: n < frame => CoordRight(n))'
  <2> SUFFICES ASSUME NEW n \in Frame, n < frame' PROVE CoordRight(n)
    BY <1>3, <1>4
  <2>1. n = frame \/ n < frame
    BY <1>1, <1>3
  <2> QED
    BY <1>5, <2>1 DEF GlyphsInv, Searching
<1>7. \A n \in Frame: n > frame => coords[n] = <<0, 0>>
  BY DEF GlyphsInv, Searching
<1>8. (\A n \in Frame: n > frame => coords[n] = <<0, 0>>)'
  <2> SUFFICES ASSUME NEW n \in Frame, n > frame' PROVE coords[n] = <<0, 0>>
    BY <1>1, <1>3
  <2>1. n > frame
    BY <1>1, <1>3
  <2> QED
    BY <1>7, <2>1
<1>9. Outside'
  <2>1. frame' \in Frame => coords[frame'] = <<0, 0>>
    <3>1. frame' > frame
      BY <1>1, <1>3
    <3> QED
      BY <1>7, <3>1
  <2> QED
    BY <1>1, <1>3, <1>4, <1>5, <2>1 DEF Outside
<1> QED
  BY <1>1, <1>3, <1>6, <1>8, <1>9, SearchKeeps

LEMMA SearchEndsKeeps ==
  ASSUME GlyphsInv, SearchEnds
  PROVE  GlyphsInv'
<1>1. /\ frame = count /\ frame' = -1 /\ col' = 0
      /\ Kept /\ UNCHANGED <<filled, count, coords, open>>
      /\ UNCHANGED <<users, fonts, shown, fallen, first>>
  BY DEF SearchEnds, Kept
<1>2. frame # -1
  BY <1>1 DEF GlyphsInv, GlyphsType
<1> USE <1>2, SearchKnown
<1>3. Frame' = Frame
  BY <1>1 DEF Frame
<1>4. \A n: CoordRight(n)' <=> CoordRight(n)
  BY <1>1, SameGlyphs
<1>5. \A n \in Frame: CoordRight(n)
  <2>1. \A n \in Frame: n < frame
    BY <1>1
  <2> QED
    BY <2>1 DEF GlyphsInv, Searching
<1>6. GlyphsType'
  BY <1>1 DEF GlyphsInv, GlyphsType, Column
<1>7. LoadedBy'
  BY <1>1, <1>3 DEF GlyphsInv, LoadedBy, InCache, Coord
<1>8. ShownWhenResting'
  BY <1>1, <1>3, <1>4, <1>5 DEF ShownWhenResting
<1> QED
  BY <1>1, <1>6, <1>7, <1>8 DEF GlyphsInv, Searching

LEMMA GlyphsStep == GlyphsInv /\ [GlyphsNext]_glyphsVars => GlyphsInv'
<1> SUFFICES ASSUME GlyphsInv, [GlyphsNext]_glyphsVars PROVE GlyphsInv'
  OBVIOUS
<1>1. CASE UNCHANGED glyphsVars
  <2>1. UNCHANGED <<filled, count, elsewhere, users, fonts, coords, col, frame, open, shown, fallen, first>>
    BY <1>1 DEF glyphsVars, search
  <2>2. Frame' = Frame /\ Characters' = Characters /\ (\A n: CoordRight(n)' <=> CoordRight(n)) /\ Column' = Column
    BY <2>1, SameGlyphs DEF Column
  <2>3. (InCache' <=> InCache) /\ (Inside' <=> Inside) /\ (Outside' <=> Outside)
    BY <2>1, <2>2 DEF InCache, Inside, Outside, Start, Ended, Column
  <2> QED
    BY <2>1, <2>2, <2>3 DEF GlyphsInv, GlyphsType, LoadedBy, ShownWhenResting, Searching, Coord
<1>2. CASE GlyphsNext
  BY <1>1, <1>2, CacheKeeps, LoadKeeps, LateKeeps, DrawsGlyph, SkipsColumn, OpenKeeps, CloseKeeps, NoMoreKeeps,
     SearchEndsKeeps DEF GlyphsNext
<1> QED
  BY <1>1, <1>2

LEMMA GlyphsEnd == GlyphsInv => GlyphsShown
<1> SUFFICES ASSUME GlyphsInv PROVE GlyphsShown
  OBVIOUS
<1>1. coords # NONE => DOMAIN coords = Frame
  BY DEF GlyphsInv, LoadedBy
<1>2. fallen => first \in {"user", "late"}
  BY DEF GlyphsInv, LoadedBy
<1>3. ASSUME shown # Nothing, first = shown[1]
      PROVE  IF first = "user" THEN shown[3] = "part"
             ELSE \/ \E r \in Characters: Place(r) = shown[2] /\ r[2] + 1 \in Column
                                           /\ shown[3] = <<r[1] - 1, r[2] + 1>>
                  \/ \E r \in Characters: Place(r) = shown[2] /\ r[2] + 1 = Wide
                                           /\ shown[3] = <<r[1] - 1, 0>>
                  \/ Cardinality(Characters) <= shown[2] /\ shown[3] = <<0, 0>>
  <2>1. CASE \E n \in Frame: shown = <<"font", n, coords[n]>>
    <3>1. PICK n \in Frame: shown = <<"font", n, coords[n]>>
      BY <2>1
    <3>2. shown[1] = "font" /\ shown[2] = n /\ shown[3] = coords[n]
      BY <3>1
    <3>3. CoordRight(n)
      BY <1>3, <3>2 DEF GlyphsInv, ShownWhenResting
    <3> QED
      BY <1>3, <3>2, <3>3 DEF CoordRight
  <2>2. CASE \E n \in Frame: shown = <<"user", n, IF coords = NONE THEN "part" ELSE coords[n]>>
    <3>1. PICK n \in Frame: shown = <<"user", n, IF coords = NONE THEN "part" ELSE coords[n]>>
      BY <2>2
    <3>2. shown[1] = "user" /\ shown[3] = IF coords = NONE THEN "part" ELSE coords[n]
      BY <3>1
    <3>3. coords = NONE
      BY <1>3, <3>2 DEF GlyphsInv, LoadedBy
    <3> QED
      BY <1>3, <3>2, <3>3
  <2> QED
    BY <1>3, <2>1, <2>2 DEF GlyphsInv, ShownWhenResting
<1> QED
  BY <1>1, <1>2, <1>3 DEF GlyphsShown

(* A character is shown as it stands in the picture, through any loads and *)
(* drops of the sprite (r_sprite_load, r_sprite_search_minimal,            *)
(* r_linefont_draw), for pictures and fonts of any size.                   *)
THEOREM CharactersShow == GlyphsSpec => []GlyphsShown
BY GlyphsStart, GlyphsStep, GlyphsEnd, PTL DEF GlyphsSpec

-----------------------------------------------------------------------------
(* The fields of an entity: what holds of the tables (Fields).             *)

LEMMA FieldIs ==
  ASSUME NEW f \in AllFields
  PROVE  /\ f.default \in Int /\ f.whole \in BOOLEAN
         /\ DOMAIN f.covers = 1 .. Len(f.covers) /\ Len(f.covers) \in Nat
         /\ \A j \in DOMAIN f.covers: f.covers[j] \in FieldName /\ f.covers[j] \in Scalar
         /\ \A m, j \in DOMAIN f.covers: f.covers[m] = f.covers[j] => m = j
         /\ f.name \in FieldName /\ Covered(f) \subseteq Scalar
         /\ \A v \in Given[f.name]: Fits(f, v) => \A j \in DOMAIN f.covers: v[j + 1] \in Int
<1>1. /\ f.default \in Int /\ f.whole \in BOOLEAN /\ f.covers \in Seq(FieldName)
      /\ \A m, j \in DOMAIN f.covers: f.covers[m] = f.covers[j] => m = j
      /\ \A v \in Given[f.name]: Fits(f, v) => \A j \in DOMAIN f.covers: v[j + 1] \in Int
  BY FieldsAssumption DEF FieldsAssumption
<1>2. Covered(f) \subseteq Scalar /\ f.name \in FieldName
  BY DEF Covered, Scalar, FieldName
<1>3. \A j \in DOMAIN f.covers: f.covers[j] \in Covered(f)
  BY DEF Covered
<1>4. DOMAIN f.covers = 1 .. Len(f.covers) /\ Len(f.covers) \in Nat
  BY <1>1
<1> QED
  BY <1>1, <1>2, <1>3, <1>4

LEMMA InTable ==
  ASSUME NEW p \in DOMAIN Table, NEW f \in FieldSet(Table[p])
  PROVE  /\ f \in AllFields
         /\ \E m \in DOMAIN Table[p]: f = Table[p][m]
BY DEF FieldSet, AllFields

LEMMA TableIs ==
  ASSUME NEW p \in DOMAIN Table
  PROVE  DOMAIN Table[p] = 1 .. Len(Table[p]) /\ Len(Table[p]) \in Nat
         /\ \A m \in DOMAIN Table[p]: Table[p][m] \in FieldSet(Table[p])
<1>1. Table[p] \in Seq(AllFields)
  BY FieldsAssumption DEF FieldsAssumption, Known
<1> QED
  BY <1>1 DEF FieldSet

LEMMA ScalarField ==
  ASSUME NEW f \in AllFields, ~Vector(f)
  PROVE  /\ DOMAIN f.covers = {1} /\ f.covers[1] = f.name /\ Covered(f) = {f.name} /\ f.name \in Scalar
<1>1. f.covers = <<f.name>>
  BY DEF Vector
<1>2. DOMAIN f.covers = {1} /\ f.covers[1] = f.name
  BY <1>1
<1> QED
  BY <1>2, FieldIs DEF Covered

LEMMA OnceInTable ==
  ASSUME NEW p \in DOMAIN Table, NEW f \in FieldSet(Table[p]), NEW g \in FieldSet(Table[p]), f.name = g.name
  PROVE  f = g
<1>1. Known(Table[p])
  BY FieldsAssumption DEF FieldsAssumption
<1> QED
  BY <1>1, InTable DEF Known

LEMMA ApartInTables ==
  ASSUME NEW p \in DOMAIN Table, NEW q \in DOMAIN Table, p # q,
         NEW f \in FieldSet(Table[p]), NEW g \in FieldSet(Table[q]), NEW n, n \in Names(f), n \in Names(g)
  PROVE  p # "common" /\ q # "common" /\ ~Vector(f) /\ ~Vector(g)
<1>1. Shares(p, q)
  BY FieldsAssumption DEF FieldsAssumption
<1> QED
  BY <1>1 DEF Shares

(* A component of a vector is a field of the same table, behind it.        *)
LEMMA ComponentIs ==
  ASSUME NEW p \in DOMAIN Table, NEW m \in DOMAIN Table[p], Vector(Table[p][m]),
         NEW c \in Covered(Table[p][m])
  PROVE  /\ ~Table[p][m].whole
         /\ \E j \in DOMAIN Table[p]: m < j /\ Table[p][j].name = c /\ ~Vector(Table[p][j]) /\ ~Table[p][j].whole
<1>1. Known(Table[p])
  BY FieldsAssumption DEF FieldsAssumption
<1> QED
  BY <1>1 DEF Known

LEMMA VectorHas ==
  ASSUME NEW p \in DOMAIN Table, NEW f \in FieldSet(Table[p]), Vector(f), NEW c \in Covered(f)
  PROVE  /\ ~f.whole
         /\ \E g \in FieldSet(Table[p]): g.name = c /\ ~Vector(g) /\ ~g.whole
<1>1. PICK m \in DOMAIN Table[p]: f = Table[p][m]
  BY InTable
<1>2. /\ ~Table[p][m].whole
      /\ \E j \in DOMAIN Table[p]: m < j /\ Table[p][j].name = c /\ ~Vector(Table[p][j]) /\ ~Table[p][j].whole
  BY <1>1, ComponentIs
<1> QED
  BY <1>1, <1>2, TableIs

LEMMA Named ==
  ASSUME NEW f
  PROVE  f.name \in Names(f) /\ \A c \in Covered(f): c \in Names(f)
BY DEF Names

(* Every scalar is a field by itself, and no vector has its name.          *)
LEMMA ScalarIs ==
  ASSUME NEW c \in Scalar
  PROVE  /\ c \in FieldName
         /\ \A f \in AllFields: f.name = c => ~Vector(f)
<1>0. PICK g \in AllFields: c \in Covered(g)
  BY DEF Scalar, Covered
<1>1. PICK q \in DOMAIN Table: g \in FieldSet(Table[q])
  BY DEF AllFields
<1>2. PICK h \in FieldSet(Table[q]): h.name = c /\ ~Vector(h)
  <2>1. CASE Vector(g)
    BY <1>0, <1>1, <2>1, VectorHas
  <2>2. CASE ~Vector(g)
    BY <1>0, <1>1, <2>2, ScalarField, InTable
  <2> QED
    BY <2>1, <2>2
<1>3. c \in FieldName
  BY <1>2, InTable DEF FieldName
<1>4. ASSUME NEW f \in AllFields, f.name = c PROVE ~Vector(f)
  <2>1. PICK p \in DOMAIN Table: f \in FieldSet(Table[p])
    BY DEF AllFields
  <2>2. CASE p = q
    BY <1>2, <1>4, <2>1, <2>2, OnceInTable
  <2>3. CASE p # q
    BY <1>2, <1>4, <2>1, <2>3, ApartInTables, Named
  <2> QED
    BY <2>2, <2>3
<1> QED
  BY <1>3, <1>4

LEMMA SameCovers ==
  ASSUME NEW f \in AllFields, NEW g \in AllFields, f.name = g.name
  PROVE  f.covers = g.covers /\ Covered(f) = Covered(g) /\ (Vector(f) <=> Vector(g))
<1>1. PICK p \in DOMAIN Table: f \in FieldSet(Table[p])
  BY DEF AllFields
<1>2. PICK q \in DOMAIN Table: g \in FieldSet(Table[q])
  BY DEF AllFields
<1>3. CASE p = q
  <2>1. f = g
    BY <1>1, <1>2, <1>3, OnceInTable
  <2> QED
    BY <2>1
<1>4. CASE p # q
  <2>1. ~Vector(f) /\ ~Vector(g)
    BY <1>1, <1>2, <1>4, ApartInTables, Named
  <2> QED
    BY <2>1 DEF Vector, Covered
<1> QED
  BY <1>3, <1>4

LEMMA OneVector ==
  ASSUME NEW f \in AllFields, NEW g \in AllFields, Vector(f), NEW c \in Covered(f), c \in Covered(g), Vector(g)
  PROVE  f = g
<1>1. PICK p \in DOMAIN Table: f \in FieldSet(Table[p])
  BY DEF AllFields
<1>2. PICK q \in DOMAIN Table: g \in FieldSet(Table[q])
  BY DEF AllFields
<1>3. p = q
  BY <1>1, <1>2, ApartInTables, Named
<1>4. Known(Table[p])
  BY FieldsAssumption DEF FieldsAssumption
<1>5. PICK m \in DOMAIN Table[p]: f = Table[p][m]
  BY <1>1, InTable
<1>6. PICK j \in DOMAIN Table[p]: g = Table[p][j]
  BY <1>2, <1>3, InTable
<1>7. Covered(Table[p][m]) \cap Covered(Table[p][j]) # {}
  BY <1>5, <1>6
<1>8. m = j
  BY <1>4, <1>5, <1>6, <1>7 DEF Known
<1> QED
  BY <1>5, <1>6, <1>8

(* The table of a vector is that of its components, and of nobody else.    *)
LEMMA VectorTable ==
  ASSUME NEW p \in DOMAIN Table, NEW f \in FieldSet(Table[p]), NEW g \in AllFields,
         Vector(g), NEW c, c \in Names(f), c \in Names(g)
  PROVE  g \in FieldSet(Table[p])
<1>1. PICK q \in DOMAIN Table: g \in FieldSet(Table[q])
  BY DEF AllFields
<1> QED
  BY <1>1, ApartInTables

-----------------------------------------------------------------------------
(* One table of fields, popped.                                            *)

ValueIs(f, v) == Fits(f, v) => \A j \in DOMAIN f.covers: v[j + 1] \in Int
ValuesAre(kept) == \A f \in AllFields: ValueIs(f, kept[f.name])

LEMMA WholeIs ==
  ASSUME NEW f, f.whole \in BOOLEAN, NEW x \in Int
  PROVE  Whole(f, x) \in Int /\ (~f.whole => Whole(f, x) = x)
BY DEF Whole

LEMMA PartIs ==
  ASSUME NEW f \in AllFields, NEW v, ValueIs(f, v), NEW j \in DOMAIN f.covers
  PROVE  /\ Part(f, v, j) \in Int
         /\ Fits(f, v) => Part(f, v, j) = Whole(f, v[j + 1])
<1>1. f.whole \in BOOLEAN
  BY FieldIs
<1>2. CASE Fits(f, v)
  <2>1. v[j + 1] \in Int
    BY <1>2 DEF ValueIs
  <2> QED
    BY <1>1, <1>2, <2>1, WholeIs DEF Part
<1> QED
  BY <1>2 DEF Part

LEMMA PoppedIs ==
  ASSUME NEW f \in AllFields, NEW v, ValueIs(f, v), NEW cells \in [Scalar -> Int]
  PROVE  /\ Popped(cells, f, v) \in [Scalar -> Int]
         /\ \A j \in DOMAIN f.covers: Popped(cells, f, v)[f.covers[j]] = Part(f, v, j)
         /\ \A c \in Scalar: c \notin Covered(f) => Popped(cells, f, v)[c] = cells[c]
<1> DEFINE cell(c) == CHOOSE j \in DOMAIN f.covers: f.covers[j] = c
<1>1. \A c \in Scalar: c \in Covered(f) => cell(c) \in DOMAIN f.covers /\ f.covers[cell(c)] = c
  BY DEF Covered
<1>2. \A c \in Scalar: c \in Covered(f) <=> \E j \in DOMAIN f.covers: f.covers[j] = c
  BY DEF Covered
<1>3. \A c \in Scalar: Popped(cells, f, v)[c] = IF c \in Covered(f) THEN Part(f, v, cell(c)) ELSE cells[c]
  BY <1>2 DEF Popped
<1>4. \A j \in DOMAIN f.covers: f.covers[j] \in Scalar /\ f.covers[j] \in Covered(f) /\ cell(f.covers[j]) = j
  BY <1>1, FieldIs DEF Covered
<1> HIDE DEF cell
<1>5. \A c \in Scalar: Popped(cells, f, v)[c] \in Int
  BY <1>1, <1>3, PartIs
<1>6. Popped(cells, f, v) \in [Scalar -> Int]
  BY <1>5 DEF Popped
<1> QED
  BY <1>3, <1>4, <1>6

(* What a table makes of a cell: its own field's value, else its vector's, *)
(* else nothing.                                                           *)
LEMMA OwnPopped ==
  ASSUME NEW p \in DOMAIN Table, NEW f \in FieldSet(Table[p]), ~Vector(f), NEW kept, ValuesAre(kept),
         NEW cells \in [Scalar -> Int], IsNumber(kept[f.name])
  PROVE  PoppedAll(cells, Table[p], kept)[f.name] = Whole(f, kept[f.name][2])
<1> DEFINE tab == Table[p]
           c == f.name
           W == Writes(tab, kept, c)
<1>1. PICK k \in DOMAIN tab: f = tab[k]
  BY InTable
<1>2. f \in AllFields /\ ValueIs(f, kept[c]) /\ Fits(f, kept[c]) /\ c \in Covered(f) /\ c \in Scalar /\ f.covers[1] = c
      /\ 1 \in DOMAIN f.covers
  BY InTable, ScalarField DEF ValuesAre, Fits
<1>3. k \in W
  BY <1>1, <1>2 DEF Writes
<1>4. ASSUME NEW m \in W PROVE m <= k
  <2>1. m \in DOMAIN tab /\ c \in Covered(tab[m]) /\ tab[m] \in FieldSet(tab) /\ tab[m] \in AllFields
    BY TableIs, InTable DEF Writes
  <2>2. m \in Nat /\ k \in Nat
    BY <2>1, <1>1, TableIs
  <2>3. CASE ~Vector(tab[m])
    <3>1. tab[m].name = tab[k].name
      BY <1>1, <2>1, <2>3, ScalarField
    <3>2. m = k
      BY <1>1, <2>1, <3>1, FieldsAssumption DEF FieldsAssumption, Known
    <3> QED
      BY <2>2, <3>2
  <2>4. CASE Vector(tab[m])
    <3>1. PICK j \in DOMAIN tab: m < j /\ tab[j].name = c
      BY <2>1, <2>4, ComponentIs
    <3>2. j = k
      BY <1>1, <3>1, FieldsAssumption DEF FieldsAssumption, Known
    <3> QED
      BY <2>2, <3>1, <3>2
  <2> QED
    BY <2>3, <2>4
<1>5. (CHOOSE j \in W: \A m \in W: m <= j) = k
  <2>1. \A j \in W: j \in Nat
    BY TableIs DEF Writes
  <2> HIDE DEF W
  <2> QED
    BY <1>3, <1>4, <2>1
<1>6. PoppedAll(cells, tab, kept)[c] = Popped(cells, f, kept[c])[c]
  BY <1>1, <1>2, <1>3, <1>5 DEF PoppedAll
<1> QED
  BY <1>2, <1>6, PoppedIs, PartIs

LEMMA VectorPopped ==
  ASSUME NEW p \in DOMAIN Table, NEW f \in FieldSet(Table[p]), Vector(f), NEW kept, ValuesAre(kept),
         NEW cells \in [Scalar -> Int], NEW n \in DOMAIN f.covers, IsVector(kept[f.name]),
         ~IsNumber(kept[f.covers[n]])
  PROVE  PoppedAll(cells, Table[p], kept)[f.covers[n]] = kept[f.name][n + 1]
<1> DEFINE tab == Table[p]
           c == f.covers[n]
           W == Writes(tab, kept, c)
<1>1. PICK k \in DOMAIN tab: f = tab[k]
  BY InTable
<1>2. f \in AllFields /\ ValueIs(f, kept[f.name]) /\ Fits(f, kept[f.name]) /\ c \in Covered(f) /\ c \in Scalar
  BY InTable, FieldIs DEF ValuesAre, Fits, Covered
<1>3. k \in W
  BY <1>1, <1>2 DEF Writes
<1>4. ASSUME NEW m \in W PROVE m = k
  <2>1. m \in DOMAIN tab /\ c \in Covered(tab[m]) /\ tab[m] \in FieldSet(tab) /\ tab[m] \in AllFields
        /\ Fits(tab[m], kept[tab[m].name])
    BY TableIs, InTable DEF Writes
  <2>2. Vector(tab[m])
    <3> SUFFICES ASSUME ~Vector(tab[m]) PROVE FALSE
      OBVIOUS
    <3>1. tab[m].name = c
      BY <2>1, ScalarField
    <3> QED
      BY <2>1, <3>1 DEF Fits
  <2>3. tab[m] = tab[k]
    BY <1>1, <1>2, <2>1, <2>2, OneVector
  <2> QED
    BY <2>1, <2>3, FieldsAssumption DEF FieldsAssumption, Known
<1>5. (CHOOSE j \in W: \A m \in W: m <= j) = k
  <2>1. k \in Nat
    BY <1>1, TableIs
  <2>2. W = {k}
    BY <1>3, <1>4
  <2> HIDE DEF W
  <2>3. k \in W /\ \A m \in W: k <= m /\ m <= k
    BY <2>1, <2>2
  <2> QED
    BY <2>2, <2>3
<1>6. PoppedAll(cells, tab, kept)[c] = Popped(cells, f, kept[f.name])[c]
  <2>1. PoppedAll(cells, tab, kept)[c] =
          IF W = {} THEN cells[c]
          ELSE LET last == CHOOSE j \in W: \A m \in W: m <= j
               IN  Popped(cells, tab[last], kept[tab[last].name])[c]
    BY <1>2 DEF PoppedAll
  <2> HIDE DEF W, c
  <2> QED
    BY <1>1, <1>3, <1>5, <2>1
<1>7. Part(f, kept[f.name], n) = kept[f.name][n + 1]
  <2>1. Part(f, kept[f.name], n) = Whole(f, kept[f.name][n + 1])
    BY <1>2, PartIs
  <2>2. kept[f.name][n + 1] \in Int
    BY <1>2 DEF ValueIs
  <2>3. f.whole \in BOOLEAN /\ ~f.whole
    BY <1>2, FieldIs, VectorHas
  <2> QED
    BY <2>1, <2>2, <2>3, WholeIs
<1> QED
  BY <1>2, <1>6, <1>7, PoppedIs

LEMMA NothingPopped ==
  ASSUME NEW p \in DOMAIN Table, NEW kept, NEW cells, NEW c \in Scalar,
         \A f \in FieldSet(Table[p]): c \in Covered(f) => ~Fits(f, kept[f.name])
  PROVE  PoppedAll(cells, Table[p], kept)[c] = cells[c]
<1>1. Writes(Table[p], kept, c) = {}
  BY TableIs DEF Writes
<1> QED
  BY <1>1 DEF PoppedAll

LEMMA PoppedAllIs ==
  ASSUME NEW p \in DOMAIN Table, NEW kept, ValuesAre(kept), NEW cells \in [Scalar -> Int]
  PROVE  PoppedAll(cells, Table[p], kept) \in [Scalar -> Int]
<1> DEFINE new == PoppedAll(cells, Table[p], kept)
<1>1. ASSUME NEW c \in Scalar PROVE new[c] \in Int
  <2>1. CASE \A f \in FieldSet(Table[p]): c \in Covered(f) => ~Fits(f, kept[f.name])
    BY <2>1, NothingPopped
  <2>2. ASSUME NEW f \in FieldSet(Table[p]), c \in Covered(f), ~Vector(f), IsNumber(kept[f.name]) PROVE new[c] \in Int
    <3>1. f \in AllFields /\ f.name = c /\ Fits(f, kept[f.name]) /\ 1 \in DOMAIN f.covers
      BY <2>2, InTable, ScalarField DEF Fits
    <3>2. kept[c][2] \in Int /\ f.whole \in BOOLEAN
      BY <3>1, FieldIs DEF ValuesAre, ValueIs
    <3>3. new[c] = Whole(f, kept[c][2])
      BY <2>2, <3>1, OwnPopped
    <3> QED
      BY <3>2, <3>3, WholeIs
  <2>3. ASSUME NEW f \in FieldSet(Table[p]), c \in Covered(f), Vector(f), IsVector(kept[f.name]) PROVE new[c] \in Int
    <3>1. PICK g \in FieldSet(Table[p]): g.name = c /\ ~Vector(g)
      BY <2>3, VectorHas
    <3>2. CASE IsNumber(kept[c])
      BY <2>2, <3>1, <3>2, ScalarField, InTable
    <3>3. CASE ~IsNumber(kept[c])
      <4>1. PICK n \in DOMAIN f.covers: f.covers[n] = c
        BY <2>3 DEF Covered
      <4>2. new[c] = kept[f.name][n + 1]
        BY <2>3, <3>3, <4>1, VectorPopped
      <4>3. Fits(f, kept[f.name]) /\ f \in AllFields
        BY <2>3, InTable DEF Fits
      <4> QED
        BY <4>1, <4>2, <4>3 DEF ValuesAre, ValueIs
    <3> QED
      BY <3>2, <3>3
  <2> QED
    BY <2>1, <2>2, <2>3 DEF Fits
<1> QED
  BY <1>1 DEF PoppedAll

-----------------------------------------------------------------------------
(* A new renderer.                                                         *)

(* What __data holds of a scalar is what it was given.                     *)
InData(c, kept, w) ==
  /\ IsNumber(kept[c]) => w[c] = kept[c][2]
  /\ ~IsNumber(kept[c]) =>
       /\ \A f \in AllFields: Vector(f) /\ IsVector(kept[f.name]) =>
            \A j \in DOMAIN f.covers: f.covers[j] = c => w[c] = kept[f.name][j + 1]
       /\ (\A f \in AllFields: Vector(f) /\ c \in Covered(f) => ~IsVector(kept[f.name])) => w[c] = NONE

LEMMA DefaultsIs ==
  ASSUME NEW p \in DOMAIN Table, NEW cells \in [Scalar -> Int]
  PROVE  /\ Defaults(cells, Table[p]) \in [Scalar -> Int]
         /\ \A f \in FieldSet(Table[p]): ~Vector(f) => Defaults(cells, Table[p])[f.name] = f.default
         /\ \A c \in Scalar: (\A f \in FieldSet(Table[p]): f.name # c) => Defaults(cells, Table[p])[c] = cells[c]
<1> DEFINE tab == Table[p]
           named(c) == CHOOSE f \in FieldSet(tab): f.name = c
<1>1. ASSUME NEW f \in FieldSet(tab) PROVE f = named(f.name)
  <2>1. named(f.name) \in FieldSet(tab) /\ named(f.name).name = f.name
    OBVIOUS
  <2> HIDE DEF named
  <2> QED
    BY <2>1, OnceInTable
<1>2. \A c \in Scalar: Defaults(cells, tab)[c] =
        IF \E f \in FieldSet(tab): f.name = c /\ ~Vector(f) THEN named(c).default ELSE cells[c]
  BY DEF Defaults
<1> HIDE DEF named
<1>3. \A f \in FieldSet(tab): f.default \in Int
  BY FieldIs, InTable
<1>4. \A c \in Scalar: Defaults(cells, tab)[c] \in Int
  BY <1>1, <1>2, <1>3
<1>5. Defaults(cells, tab) \in [Scalar -> Int]
  BY <1>4 DEF Defaults
<1>6. \A f \in FieldSet(tab): ~Vector(f) => f.name \in Scalar
  BY ScalarField, InTable
<1> QED
  BY <1>1, <1>2, <1>5, <1>6

(* One table after its defaults: what was given, else what it was.         *)
LEMMA TablePops ==
  ASSUME NEW p \in DOMAIN Table, NEW f \in FieldSet(Table[p]), ~Vector(f), NEW kept, ValuesAre(kept),
         NEW w, w[f.name] \in Int \cup {NONE}, InData(f.name, kept, w), NEW cells \in [Scalar -> Int]
  PROVE  PoppedAll(cells, Table[p], kept)[f.name] =
           IF w[f.name] = NONE THEN cells[f.name] ELSE Whole(f, w[f.name])
<1>0. NONE \notin Int
  BY FieldsAssumption DEF FieldsAssumption
<1>1. f \in AllFields /\ f.name \in Scalar /\ f.whole \in BOOLEAN
  BY InTable, ScalarField, FieldIs
<1>2. CASE IsNumber(kept[f.name])
  <2>1. w[f.name] = kept[f.name][2]
    BY <1>2 DEF InData
  <2>2. kept[f.name][2] \in Int
    <3>1. Fits(f, kept[f.name]) /\ 1 \in DOMAIN f.covers
      BY <1>1, <1>2, ScalarField DEF Fits
    <3> QED
      BY <1>1, <3>1 DEF ValuesAre, ValueIs
  <2> QED
    BY <1>0, <1>2, <2>1, <2>2, OwnPopped
<1>3. CASE ~IsNumber(kept[f.name]) /\ \E g \in AllFields: Vector(g) /\ f.name \in Covered(g) /\ IsVector(kept[g.name])
  <2>1. PICK g \in AllFields: Vector(g) /\ f.name \in Covered(g) /\ IsVector(kept[g.name])
    BY <1>3
  <2>2. PICK n \in DOMAIN g.covers: g.covers[n] = f.name
    BY <2>1 DEF Covered
  <2>3. g \in FieldSet(Table[p])
    BY <2>1, Named, VectorTable
  <2>4. PoppedAll(cells, Table[p], kept)[f.name] = kept[g.name][n + 1]
    BY <1>3, <2>1, <2>2, <2>3, VectorPopped
  <2>5. w[f.name] = kept[g.name][n + 1]
    BY <1>3, <2>1, <2>2 DEF InData
  <2>6. kept[g.name][n + 1] \in Int
    <3>1. Fits(g, kept[g.name])
      BY <2>1 DEF Fits
    <3> QED
      BY <2>2, <3>1 DEF ValuesAre, ValueIs
  <2>7. ~f.whole
    <3>1. PICK h \in FieldSet(Table[p]): h.name = f.name /\ ~h.whole
      BY <2>1, <2>3, VectorHas
    <3>2. h = f
      BY <3>1, OnceInTable
    <3> QED
      BY <3>1, <3>2
  <2> QED
    BY <1>0, <1>1, <2>4, <2>5, <2>6, <2>7, WholeIs
<1>4. CASE ~IsNumber(kept[f.name]) /\ \A g \in AllFields: Vector(g) /\ f.name \in Covered(g) => ~IsVector(kept[g.name])
  <2>1. w[f.name] = NONE
    BY <1>4 DEF InData
  <2>2. ASSUME NEW g \in FieldSet(Table[p]), f.name \in Covered(g) PROVE ~Fits(g, kept[g.name])
    <3>1. g \in AllFields
      BY InTable
    <3>2. CASE Vector(g)
      BY <1>4, <2>2, <3>1, <3>2 DEF Fits
    <3>3. CASE ~Vector(g)
      <4>1. g.name = f.name
        BY <2>2, <3>1, <3>3, ScalarField
      <4> QED
        BY <1>4, <3>3, <4>1 DEF Fits
    <3> QED
      BY <3>2, <3>3
  <2> QED
    BY <1>1, <2>1, <2>2, NothingPopped
<1> QED
  BY <1>2, <1>3, <1>4

(* Another table touches none of it.                                       *)
LEMMA OtherTable ==
  ASSUME NEW p \in DOMAIN Table, NEW q \in DOMAIN Table, p # q, "common" \in {p, q},
         NEW f \in FieldSet(Table[p]), NEW g \in FieldSet(Table[q])
  PROVE  f.name # g.name /\ f.name \notin Covered(g)
BY ApartInTables, Named

LEMMA FreshIs ==
  ASSUME NEW p \in Rends, NEW kept, ValuesAre(kept), NEW w,
         NEW f \in FieldSet(Table[p]) \cup FieldSet(Table["common"]), ~Vector(f),
         w[f.name] \in Int \cup {NONE}, InData(f.name, kept, w)
  PROVE  Fresh(p, kept)[f.name] = IF w[f.name] = NONE THEN f.default ELSE Whole(f, w[f.name])
<1> DEFINE zero == [c \in Scalar |-> 0]
           early == Defaults(zero, Table["common"])
           both  == Defaults(early, Table[p])
           most  == PoppedAll(both, Table["common"], kept)
           all   == PoppedAll(most, Table[p], kept)
<1>1. p \in DOMAIN Table /\ p # "common" /\ "common" \in DOMAIN Table
  BY FieldsAssumption DEF FieldsAssumption, Rends
<1>2. early \in [Scalar -> Int] /\ both \in [Scalar -> Int] /\ most \in [Scalar -> Int]
  <2>1. zero \in [Scalar -> Int]
    OBVIOUS
  <2>2. early \in [Scalar -> Int]
    BY <1>1, <2>1, DefaultsIs
  <2> HIDE DEF early
  <2>3. both \in [Scalar -> Int]
    BY <1>1, <2>2, DefaultsIs
  <2> HIDE DEF both
  <2>4. most \in [Scalar -> Int]
    BY <1>1, <2>3, PoppedAllIs
  <2> QED
    BY <2>2, <2>3, <2>4
<1>3. Fresh(p, kept) = all
  BY DEF Fresh
<1>4. f.name \in Scalar
  BY <1>1, InTable, ScalarField
<1>5. zero \in [Scalar -> Int]
  OBVIOUS
<1>6. CASE f \in FieldSet(Table[p])
  <2>1. both[f.name] = f.default
    BY <1>1, <1>2, <1>6, DefaultsIs
  <2>2. most[f.name] = both[f.name]
    <3>1. \A g \in FieldSet(Table["common"]): f.name \notin Covered(g)
      BY <1>1, <1>6, OtherTable
    <3> HIDE DEF both
    <3> QED
      BY <1>1, <1>4, <3>1, NothingPopped
  <2> HIDE DEF most
  <2>3. all[f.name] = IF w[f.name] = NONE THEN most[f.name] ELSE Whole(f, w[f.name])
    BY <1>1, <1>2, <1>6, TablePops
  <2> QED
    BY <1>3, <2>1, <2>2, <2>3
<1>7. CASE f \in FieldSet(Table["common"])
  <2>1. early[f.name] = f.default
    BY <1>1, <1>5, <1>7, DefaultsIs
  <2>2. \A g \in FieldSet(Table[p]): g.name # f.name /\ f.name \notin Covered(g)
    BY <1>1, <1>7, OtherTable
  <2>3. both[f.name] = early[f.name]
    <3> HIDE DEF early
    <3> QED
      BY <1>1, <1>2, <1>4, <2>2, DefaultsIs
  <2>4. most[f.name] = IF w[f.name] = NONE THEN both[f.name] ELSE Whole(f, w[f.name])
    <3> HIDE DEF both
    <3> QED
      BY <1>1, <1>2, <1>7, TablePops
  <2>5. all[f.name] = most[f.name]
    <3> HIDE DEF most
    <3> QED
      BY <1>1, <1>4, <2>2, NothingPopped
  <2> QED
    BY <1>3, <2>1, <2>3, <2>4, <2>5
<1> QED
  BY <1>6, <1>7

LEMMA FreshType ==
  ASSUME NEW p \in Rends, NEW kept, ValuesAre(kept)
  PROVE  Fresh(p, kept) \in [Scalar -> Int]
<1> DEFINE zero == [c \in Scalar |-> 0]
           early == Defaults(zero, Table["common"])
           both  == Defaults(early, Table[p])
           most  == PoppedAll(both, Table["common"], kept)
<1>1. p \in DOMAIN Table /\ "common" \in DOMAIN Table
  BY FieldsAssumption DEF FieldsAssumption, Rends
<1>2. zero \in [Scalar -> Int]
  OBVIOUS
<1>3. early \in [Scalar -> Int]
  BY <1>1, <1>2, DefaultsIs
<1>4. Fresh(p, kept) = PoppedAll(most, Table[p], kept)
  BY DEF Fresh
<1> HIDE DEF early
<1>5. both \in [Scalar -> Int]
  BY <1>1, <1>3, DefaultsIs
<1> HIDE DEF both
<1>6. most \in [Scalar -> Int]
  BY <1>1, <1>5, PoppedAllIs
<1> HIDE DEF most
<1> QED
  BY <1>1, <1>4, <1>6, PoppedAllIs

-----------------------------------------------------------------------------
(* The invariant of an entity's fields.                                    *)

OnDisplay == FieldSet(Table[rend]) \cup FieldSet(Table["common"])
Shows == rend # NONE =>
  \A f \in OnDisplay: ~Vector(f) /\ f.name \notin broken =>
    rdata[f.name] = IF wish[f.name] = NONE THEN f.default ELSE wish[f.name]
Waits == \A c \in Scalar: c \notin broken \cup reverts \cup Owned(rend) => InData(c, udata, wish)
Wishes == \A c \in Scalar: wish[c] \in Int \cup {NONE}

FieldsInv ==
  /\ FieldsType /\ ValuesAre(udata) /\ Wishes
  /\ rend = NONE => reverts = {}
  /\ Shows /\ Waits

LEMMA SameKept ==
  ASSUME NEW c, NEW kept, NEW new, NEW w, NEW v, InData(c, kept, w),
         new[c] = kept[c], v[c] = w[c],
         \A g \in AllFields: Vector(g) /\ c \in Covered(g) => new[g.name] = kept[g.name]
  PROVE  InData(c, new, v)
<1>1. \A g \in AllFields: \A j \in DOMAIN g.covers: g.covers[j] = c => c \in Covered(g)
  BY DEF Covered
<1> QED
  BY <1>1 DEF InData

LEMMA FieldsStart == FieldsInit => FieldsInv
<1> SUFFICES ASSUME FieldsInit PROVE FieldsInv
  OBVIOUS
<1>1. rend = NONE /\ rdata \in [Scalar -> Int] /\ DOMAIN udata = FieldName /\ DOMAIN wish = Scalar
      /\ reverts = {} /\ broken = {}
      /\ (\A n \in FieldName: udata[n] = NONE) /\ \A c \in Scalar: wish[c] = NONE
  BY DEF FieldsInit
<1>2. \A f \in AllFields: udata[f.name] = NONE
  BY <1>1, FieldIs
<1>3. ~IsNumber(NONE) /\ ~IsVector(NONE)
  BY DEF IsNumber, IsVector
<1>4. ValuesAre(udata)
  BY <1>2, <1>3 DEF ValuesAre, ValueIs, Fits
<1>5. \A c \in Scalar: udata[c] = NONE
  BY <1>1, ScalarIs
<1>6. Waits
  BY <1>1, <1>2, <1>3, <1>5 DEF Waits, InData
<1> QED
  BY <1>1, <1>4, <1>6 DEF FieldsInv, FieldsType, Wishes, Shows

LEMMA DataKeeps ==
  ASSUME FieldsInv, NEW n \in FieldName, NEW v \in Given[n], AssignData(n, v)
  PROVE  FieldsInv'
<1>1. PICK f \in Located(n):
        /\ rdata' = Popped(rdata, f, v)
        /\ wish' = [c \in Scalar |-> IF c \in Covered(f) THEN rdata'[c] ELSE wish[c]]
        /\ reverts' = reverts \cup (Covered(f) \cap CommonScalar)
        /\ broken' = broken \ Covered(f)
        /\ UNCHANGED <<rend, udata>>
  BY DEF AssignData
<1>2. rend # NONE /\ f \in OnDisplay /\ f.name = n
  BY DEF Located, OnDisplay
<1>3. rend \in DOMAIN Table /\ "common" \in DOMAIN Table
  BY <1>2, FieldsAssumption DEF FieldsInv, FieldsType, Rends, FieldsAssumption
<1>4. f \in AllFields /\ Covered(f) \subseteq Scalar
  BY <1>2, <1>3, InTable, FieldIs DEF OnDisplay
<1>5. ValueIs(f, v)
  BY <1>2, <1>4, FieldIs DEF ValueIs
<1>6. rdata \in [Scalar -> Int]
  BY DEF FieldsInv, FieldsType
<1>7. rdata' \in [Scalar -> Int] /\ \A c \in Scalar: c \notin Covered(f) => rdata'[c] = rdata[c]
  BY <1>1, <1>4, <1>5, <1>6, PoppedIs
<1>8. \A c \in Scalar: wish'[c] = IF c \in Covered(f) THEN rdata'[c] ELSE wish[c]
  BY <1>1
<1>9. FieldsType'
  <2>1. DOMAIN wish' = Scalar
    BY <1>1
  <2> QED
    BY <1>1, <1>4, <1>7, <2>1 DEF FieldsInv, FieldsType
<1>10. Wishes' /\ ValuesAre(udata)'
  BY <1>1, <1>7, <1>8 DEF FieldsInv, Wishes
<1>11. NONE \notin Int
  BY FieldsAssumption DEF FieldsAssumption
<1>12. Shows'
  <2> SUFFICES ASSUME NEW g \in OnDisplay, ~Vector(g), g.name \notin broken'
               PROVE  rdata'[g.name] = IF wish'[g.name] = NONE THEN g.default ELSE wish'[g.name]
    BY <1>1 DEF Shows, OnDisplay
  <2>1. g.name \in Scalar
    BY <1>3, InTable, ScalarField DEF OnDisplay
  <2>2. CASE g.name \in Covered(f)
    BY <1>7, <1>8, <1>11, <2>1, <2>2
  <2>3. CASE g.name \notin Covered(f)
    BY <1>1, <1>2, <1>7, <1>8, <2>1, <2>3 DEF FieldsInv, Shows
  <2> QED
    BY <2>2, <2>3
<1>13. Waits'
  <2> SUFFICES ASSUME NEW c \in Scalar, c \notin broken' \cup reverts' \cup Owned(rend)
               PROVE  InData(c, udata, wish')
    BY <1>1 DEF Waits
  <2>1. c \notin Covered(f)
    BY <1>1, <1>2 DEF OnDisplay, Owned, CommonScalar
  <2>2. InData(c, udata, wish)
    BY <1>1, <2>1 DEF FieldsInv, Waits
  <2> QED
    BY <1>8, <2>1, <2>2, SameKept
<1> QED
  BY <1>1, <1>2, <1>9, <1>10, <1>12, <1>13 DEF FieldsInv

LEMMA UnsetKeeps ==
  ASSUME FieldsInv, NEW n \in FieldName, NEW v \in Given[n], AssignUnset(n, v)
  PROVE  FieldsInv'
<1> DEFINE f == CHOOSE g \in AllFields: g.name = n
           cell(c) == CHOOSE j \in DOMAIN f.covers: f.covers[j] = c
           given == [c \in Scalar |-> IF c \in Covered(f) THEN v[1 + cell(c)] ELSE wish[c]]
<1>1. /\ Located(n) = {} /\ udata' = [udata EXCEPT ![n] = v] /\ UNCHANGED <<rend, rdata, reverts>>
      /\ IF Shadowed(f, v) THEN broken' = broken \cup Covered(f) /\ wish' = wish
         ELSE broken' = broken \ Covered(f) /\ wish' = given
  BY DEF AssignUnset
<1>2. f \in AllFields /\ f.name = n
  BY DEF FieldName
<1>3. Covered(f) \subseteq Scalar /\ ValueIs(f, v)
  BY <1>2, FieldIs DEF ValueIs
<1>4. \A c \in Covered(f): cell(c) \in DOMAIN f.covers /\ f.covers[cell(c)] = c
  BY DEF Covered
<1>5. \A c \in Scalar: c \notin Covered(f) => wish'[c] = wish[c]
  BY <1>1
<1>6. ~Shadowed(f, v) => Fits(f, v) /\ \A c \in Covered(f): wish'[c] = v[1 + cell(c)] /\ (Vector(f) => udata[c] = NONE)
  BY <1>1, <1>3 DEF Shadowed
<1> HIDE DEF f
<1>7. \A c \in Covered(f): \A j \in DOMAIN f.covers: f.covers[j] = c => cell(c) = j
  BY <1>2, <1>4, FieldIs
<1> HIDE DEF cell
<1>8. DOMAIN udata = FieldName /\ udata'[n] = v /\ \A m \in FieldName: m # n => udata'[m] = udata[m]
  BY <1>1 DEF FieldsInv, FieldsType
<1>9. FieldsType'
  <2>1. DOMAIN wish' = Scalar
    BY <1>1 DEF FieldsInv, FieldsType
  <2>2. broken' \subseteq Scalar
    BY <1>1, <1>3 DEF FieldsInv, FieldsType
  <2>3. DOMAIN udata' = FieldName
    BY <1>1, <1>8
  <2> QED
    BY <1>1, <2>1, <2>2, <2>3 DEF FieldsInv, FieldsType
<1>10. ValuesAre(udata)'
  <2> SUFFICES ASSUME NEW g \in AllFields PROVE ValueIs(g, udata'[g.name])
    BY DEF ValuesAre
  <2>1. CASE g.name = n
    BY <1>8, <2>1, FieldIs DEF ValueIs
  <2>2. CASE g.name # n
    BY <1>8, <2>2, FieldIs DEF FieldsInv, ValuesAre
  <2> QED
    BY <2>1, <2>2
<1>11. Wishes'
  <2> SUFFICES ASSUME NEW c \in Scalar PROVE wish'[c] \in Int \cup {NONE}
    BY DEF Wishes
  <2>1. CASE c \notin Covered(f) \/ Shadowed(f, v)
    BY <1>1, <1>5, <2>1 DEF FieldsInv, Wishes
  <2>2. CASE c \in Covered(f) /\ ~Shadowed(f, v)
    <3>1. cell(c) \in Int /\ v[cell(c) + 1] \in Int
      BY <1>2, <1>3, <1>4, <1>6, <2>2, FieldIs DEF ValueIs
    <3>2. cell(c) + 1 = 1 + cell(c)
      BY <3>1
    <3> QED
      BY <1>6, <2>2, <3>1, <3>2
  <2> QED
    BY <2>1, <2>2
<1>12. rend # NONE => rend \in DOMAIN Table /\ "common" \in DOMAIN Table
  BY FieldsAssumption DEF FieldsInv, FieldsType, Rends, FieldsAssumption
<1>13. ASSUME rend # NONE, NEW g \in OnDisplay, g.name \in Covered(f) PROVE FALSE
  <2>1. PICK q \in DOMAIN Table: g \in FieldSet(Table[q]) /\ FieldSet(Table[q]) \subseteq OnDisplay
    BY <1>12, <1>13 DEF OnDisplay
  <2>2. \A h \in OnDisplay: h.name # n
    BY <1>1, <1>13 DEF Located, OnDisplay
  <2>3. CASE Vector(f)
    <3>1. f \in FieldSet(Table[q])
      BY <1>2, <1>13, <2>1, <2>3, VectorTable, Named
    <3> QED
      BY <1>2, <2>1, <2>2, <3>1
  <2>4. CASE ~Vector(f)
    BY <1>2, <1>13, <2>2, <2>4, ScalarField
  <2> QED
    BY <2>3, <2>4
<1>14. Shows'
  <2> SUFFICES ASSUME rend # NONE, NEW g \in OnDisplay, ~Vector(g), g.name \notin broken'
               PROVE  rdata[g.name] = IF wish'[g.name] = NONE THEN g.default ELSE wish'[g.name]
    BY <1>1 DEF Shows, OnDisplay
  <2>1. g.name \in Scalar
    BY <1>12, InTable, ScalarField DEF OnDisplay
  <2>2. g.name \notin Covered(f)
    BY <1>13
  <2> QED
    BY <1>1, <1>5, <2>1, <2>2 DEF FieldsInv, Shows
<1>15. ASSUME NEW c \in Scalar, c \notin broken' \cup reverts \cup Owned(rend) PROVE InData(c, udata', wish')
  <2>1. CASE c \notin Covered(f)
    <3>1. InData(c, udata, wish)
      BY <1>1, <1>15, <2>1 DEF FieldsInv, Waits
    <3>2. c # n
      BY <1>2, <2>1, ScalarIs, ScalarField
    <3>3. c \in FieldName
      BY ScalarIs
    <3>4. ASSUME NEW g \in AllFields, c \in Covered(g) PROVE udata'[g.name] = udata[g.name]
      <4>1. g.name # n
        BY <1>2, <2>1, <3>4, SameCovers
      <4> QED
        BY <1>8, <4>1, FieldIs
    <3> QED
      BY <1>5, <1>8, <2>1, <3>1, <3>2, <3>3, <3>4, SameKept
  <2>2. CASE c \in Covered(f) /\ ~Vector(f)
    <3>1. c = n /\ f.covers[1] = n /\ 1 \in DOMAIN f.covers
      BY <1>2, <2>2, ScalarField
    <3>2. ~Shadowed(f, v)
      BY <1>1, <1>15, <2>2
    <3>3. IsNumber(v) /\ wish'[c] = v[2]
      <4>1. cell(c) = 1
        BY <1>7, <2>2, <3>1
      <4> QED
        BY <1>6, <2>2, <3>2, <4>1 DEF Fits
    <3> QED
      BY <1>8, <3>1, <3>3 DEF InData
  <2>3. CASE c \in Covered(f) /\ Vector(f)
    <3>1. ~Shadowed(f, v)
      BY <1>1, <1>15, <2>3
    <3>2. IsVector(v) /\ udata[c] = NONE /\ wish'[c] = v[1 + cell(c)]
      BY <1>6, <2>3, <3>1 DEF Fits
    <3>3. c # n /\ c \in FieldName
      BY <1>2, <2>3, ScalarIs
    <3>4. ~IsNumber(udata'[c])
      BY <1>8, <3>2, <3>3 DEF IsNumber
    <3>5. ASSUME NEW g \in AllFields, Vector(g), NEW j \in DOMAIN g.covers, g.covers[j] = c
          PROVE  wish'[c] = udata'[g.name][j + 1]
      <4>1. c \in Covered(g)
        BY <3>5 DEF Covered
      <4>2. g = f
        BY <1>2, <2>3, <3>5, <4>1, OneVector
      <4>3. cell(c) = j /\ j \in Int
        BY <1>2, <1>7, <2>3, <3>5, <4>2, FieldIs
      <4>4. 1 + cell(c) = j + 1
        BY <4>3
      <4> QED
        BY <1>2, <1>8, <3>2, <4>2, <4>4
    <3>6. IsVector(udata'[f.name])
      BY <1>2, <1>8, <3>2
    <3> QED
      BY <1>2, <2>3, <3>4, <3>5, <3>6 DEF InData
  <2> QED
    BY <2>1, <2>2, <2>3
<1>16. Waits'
  BY <1>1, <1>15 DEF Waits, Owned
<1> QED
  BY <1>1, <1>9, <1>10, <1>11, <1>14, <1>16 DEF FieldsInv

(* g_push_field of what g_pop_field can read again.                        *)
LEMMA PushedIs ==
  ASSUME NEW f \in AllFields, NEW cells \in [Scalar -> Int]
  PROVE  /\ \A j \in DOMAIN f.covers: Pushed(cells, f)[j + 1] = cells[f.covers[j]]
         /\ ValueIs(f, Pushed(cells, f))
         /\ ~Vector(f) => IsNumber(Pushed(cells, f)) /\ Pushed(cells, f)[2] = cells[f.name]
<1> DEFINE from == [j \in DOMAIN f.covers |-> cells[f.covers[j]]]
           mark == IF Vector(f) THEN "v" ELSE "n"
           S == Int \cup {"n", "v"}
<1>1. /\ DOMAIN f.covers = 1 .. Len(f.covers) /\ Len(f.covers) \in Nat
      /\ \A j \in DOMAIN f.covers: f.covers[j] \in Scalar
  BY FieldIs
<1>2. \A j \in DOMAIN f.covers: from[j] \in Int
  BY <1>1
<1>3. from \in Seq(S) /\ Len(from) = Len(f.covers)
  <2>1. from \in [1 .. Len(f.covers) -> S]
    BY <1>1, <1>2
  <2> QED
    BY <1>1, <2>1
<1>4. <<mark>> \in Seq(S) /\ mark \in {"n", "v"}
  OBVIOUS
<1>5. Pushed(cells, f) = <<mark>> \o from
  BY DEF Pushed
<1>6. \A j \in DOMAIN f.covers: from[j] = cells[f.covers[j]]
  OBVIOUS
<1> HIDE DEF from, mark, S
<1>7. <<mark>> \o from \in Seq(S)
  BY <1>3, <1>4
<1>8. (<<mark>> \o from)[1] = mark /\ \A j \in DOMAIN f.covers: (<<mark>> \o from)[j + 1] = from[j]
  BY <1>1, <1>3, <1>4
<1>9. \A j \in DOMAIN f.covers: Pushed(cells, f)[j + 1] = cells[f.covers[j]] /\ Pushed(cells, f)[j + 1] \in Int
  BY <1>2, <1>5, <1>6, <1>8
<1>10. ASSUME ~Vector(f) PROVE IsNumber(Pushed(cells, f)) /\ Pushed(cells, f)[2] = cells[f.name]
  <2>1. DOMAIN f.covers = {1} /\ f.covers[1] = f.name
    BY <1>10, ScalarField
  <2>2. Pushed(cells, f)[2] = cells[f.name]
    BY <1>9, <2>1
  <2>3. Pushed(cells, f) # NONE /\ Pushed(cells, f) # WORD
    BY <1>5, <1>7, FieldsAssumption DEF FieldsAssumption, S
  <2>4. Pushed(cells, f)[1] = "n"
    BY <1>5, <1>8, <1>10 DEF mark
  <2> QED
    BY <2>2, <2>3, <2>4 DEF IsNumber
<1> QED
  BY <1>9, <1>10 DEF ValueIs

LEMMA PushedAllIs ==
  ASSUME FieldsInv, NEW p \in Rends
  PROVE  /\ \A f \in FieldSet(Table[p]): PushedAll(p)[f.name] = Pushed(rdata, f)
         /\ \A n \in FieldName: (\A f \in FieldSet(Table[p]): f.name # n) => PushedAll(p)[n] = udata[n]
<1>1. p # NONE /\ p \in DOMAIN Table
  BY FieldsAssumption DEF FieldsAssumption, Rends
<1>2. ASSUME NEW f \in FieldSet(Table[p]) PROVE PushedAll(p)[f.name] = Pushed(rdata, f)
  <2>1. f.name \in FieldName /\ \E g \in FieldSet(Table[p]): g.name = f.name
    BY <1>1, InTable, FieldIs
  <2> DEFINE h == CHOOSE g \in FieldSet(Table[p]): g.name = f.name
  <2>2. h \in FieldSet(Table[p]) /\ h.name = f.name
    BY <2>1
  <2>3. PushedAll(p)[f.name] = Pushed(rdata, h)
    BY <1>1, <2>1 DEF PushedAll
  <2> HIDE DEF h
  <2> QED
    BY <1>1, <2>2, <2>3, OnceInTable
<1> QED
  BY <1>2 DEF PushedAll

LEMMA RenderKeeps ==
  ASSUME FieldsInv, NEW p \in Rends \cup {NONE}, ChangeRender(p)
  PROVE  FieldsInv'
<1> DEFINE left == [c \in Scalar |-> IF wish[c] = NONE /\ c \in Owned(rend) \ broken THEN rdata[c] ELSE wish[c]]
<1>1. /\ rend' = p /\ udata' = PushedAll(rend)
      /\ rdata' = IF p = NONE THEN [c \in Scalar |-> 0] ELSE Fresh(p, udata')
      /\ wish' = [c \in Scalar |-> IF left[c] # NONE /\ c \in Owned(p) THEN WholeIn(p, c, left[c]) ELSE left[c]]
      /\ broken' = IF rend = NONE THEN broken ELSE broken \cup reverts
      /\ reverts' = IF rend = NONE THEN reverts ELSE {}
  BY DEF ChangeRender
<1>2. \A c \in Scalar: left[c] = IF wish[c] = NONE /\ c \in Owned(rend) \ broken THEN rdata[c] ELSE wish[c]
  OBVIOUS
<1>3. \A c \in Scalar: wish'[c] = IF left[c] # NONE /\ c \in Owned(p) THEN WholeIn(p, c, left[c]) ELSE left[c]
  BY <1>1
<1>4. DOMAIN wish' = Scalar /\ DOMAIN udata' = FieldName
  BY <1>1 DEF PushedAll
<1> HIDE DEF left
<1>5. NONE \notin Int /\ NONE \notin DOMAIN Table /\ "common" \in DOMAIN Table
  BY FieldsAssumption DEF FieldsAssumption
<1>6. rdata \in [Scalar -> Int] /\ rend \in Rends \cup {NONE}
  BY DEF FieldsInv, FieldsType
<1>7. \A q \in Rends: q # NONE /\ q \in DOMAIN Table /\ q # "common"
  BY <1>5 DEF Rends
<1>8. \A c \in Scalar: left[c] \in Int \cup {NONE}
  BY <1>2, <1>6 DEF FieldsInv, Wishes
<1>9. Owned(NONE) = {}
  BY DEF Owned
<1>10. ASSUME rend = NONE, NEW n \in FieldName PROVE udata'[n] = udata[n]
  BY <1>1, <1>10 DEF PushedAll
<1>11. ValuesAre(udata')
  <2> SUFFICES ASSUME NEW f \in AllFields PROVE ValueIs(f, udata'[f.name])
    BY DEF ValuesAre
  <2>1. CASE rend = NONE
    BY <1>10, <2>1, FieldIs DEF FieldsInv, ValuesAre
  <2>2. CASE rend # NONE /\ \E g \in FieldSet(Table[rend]): g.name = f.name
    <3>1. PICK g \in FieldSet(Table[rend]): g.name = f.name
      BY <2>2
    <3>2. g \in AllFields
      BY <1>6, <1>7, <2>2, InTable
    <3>3. udata'[f.name] = Pushed(rdata, g)
      BY <1>1, <1>6, <2>2, <3>1, PushedAllIs
    <3>4. ValueIs(g, udata'[f.name])
      BY <1>6, <3>2, <3>3, PushedIs
    <3>5. f.covers = g.covers /\ (Vector(f) <=> Vector(g))
      BY <3>1, <3>2, SameCovers
    <3> QED
      BY <3>4, <3>5 DEF ValueIs, Fits
  <2>3. CASE rend # NONE /\ \A g \in FieldSet(Table[rend]): g.name # f.name
    BY <1>1, <1>6, <2>3, FieldIs, PushedAllIs DEF FieldsInv, ValuesAre
  <2> QED
    BY <2>1, <2>2, <2>3
<1>12. ASSUME NEW c \in Scalar, c \notin broken \cup reverts PROVE InData(c, udata', left)
  <2>1. CASE c \notin Owned(rend)
    <3>1. InData(c, udata, wish)
      BY <1>12, <2>1 DEF FieldsInv, Waits
    <3>2. left[c] = wish[c] /\ c \in FieldName
      BY <1>2, <2>1, ScalarIs
    <3>3. ASSUME NEW g \in AllFields, c \in Covered(g) PROVE udata'[g.name] = udata[g.name]
      <4>1. g.name \in FieldName
        BY FieldIs
      <4>2. CASE rend = NONE
        BY <1>10, <4>1, <4>2
      <4>3. CASE rend # NONE
        <5>1. ASSUME NEW h \in FieldSet(Table[rend]) PROVE h.name # g.name
          <6>1. h \in AllFields
            BY <1>6, <1>7, <4>3, InTable
          <6>2. c \notin Covered(h)
            BY <2>1, <4>3 DEF Owned
          <6> QED
            BY <3>3, <6>1, <6>2, SameCovers
        <5> QED
          BY <1>1, <1>6, <4>1, <4>3, <5>1, PushedAllIs
      <4> QED
        BY <4>2, <4>3
    <3>4. udata'[c] = udata[c]
      <4>1. CASE rend = NONE
        BY <1>10, <3>2, <4>1
      <4>2. CASE rend # NONE
        <5>1. ASSUME NEW h \in FieldSet(Table[rend]) PROVE h.name # c
          <6>1. h \in AllFields
            BY <1>6, <1>7, <4>2, InTable
          <6>2. c \notin Covered(h)
            BY <2>1, <4>2 DEF Owned
          <6> QED
            BY <6>1, <6>2, ScalarIs, ScalarField
        <5> QED
          BY <1>1, <1>6, <3>2, <4>2, <5>1, PushedAllIs
      <4> QED
        BY <4>1, <4>2
    <3> QED
      BY <3>1, <3>2, <3>3, <3>4, SameKept
  <2>2. CASE c \in Owned(rend)
    <3>1. rend # NONE /\ rend \in Rends /\ rend \in DOMAIN Table
      BY <1>6, <1>7, <1>9, <2>2
    <3>2. PICK f \in FieldSet(Table[rend]): c \in Covered(f)
      BY <2>2, <3>1 DEF Owned
    <3>3. PICK h \in FieldSet(Table[rend]): h.name = c /\ ~Vector(h)
      <4>1. CASE Vector(f)
        BY <3>1, <3>2, <4>1, VectorHas
      <4>2. CASE ~Vector(f)
        BY <3>1, <3>2, <4>2, ScalarField, InTable
      <4> QED
        BY <4>1, <4>2
    <3>4. h \in AllFields
      BY <3>1, <3>3, InTable
    <3>5. udata'[c] = Pushed(rdata, h)
      BY <1>1, <3>1, <3>3, PushedAllIs
    <3>6. IsNumber(udata'[c]) /\ udata'[c][2] = rdata[c]
      BY <1>6, <3>3, <3>4, <3>5, PushedIs
    <3>7. rdata[c] = IF wish[c] = NONE THEN h.default ELSE wish[c]
      BY <1>12, <3>1, <3>3 DEF FieldsInv, Shows, OnDisplay
    <3>8. left[c] = rdata[c]
      BY <1>2, <1>12, <2>2, <3>7
    <3> QED
      BY <3>6, <3>8 DEF InData
  <2> QED
    BY <2>1, <2>2
<1>13. ASSUME NEW c \in Scalar, c \notin broken' PROVE c \notin broken \cup reverts
  BY <1>1, <1>13 DEF FieldsInv
<1>14. ASSUME NEW c, NEW x \in Int, p # NONE PROVE WholeIn(p, c, x) \in Int
  <2>1. p \in Rends /\ p \in DOMAIN Table
    BY <1>7, <1>14
  <2>2. \A f \in FieldSet(Table[p]): f.whole \in BOOLEAN
    BY <2>1, InTable, FieldIs
  <2>3. \A f \in FieldSet(Table[p]): Whole(f, x) \in Int
    BY <2>2, WholeIs
  <2> QED
    BY <2>3 DEF WholeIn
<1>15. Wishes'
  <2> SUFFICES ASSUME NEW c \in Scalar PROVE wish'[c] \in Int \cup {NONE}
    BY DEF Wishes
  <2>1. CASE left[c] # NONE /\ c \in Owned(p)
    <3>1. left[c] \in Int /\ p # NONE
      BY <1>8, <1>9, <2>1
    <3> QED
      BY <1>3, <1>14, <2>1, <3>1
  <2>2. CASE ~(left[c] # NONE /\ c \in Owned(p))
    BY <1>3, <1>8, <2>2
  <2> QED
    BY <2>1, <2>2
<1>16. FieldsType'
  <2>1. rdata' \in [Scalar -> Int]
    <3>1. CASE p = NONE
      BY <1>1, <3>1
    <3>2. CASE p # NONE
      BY <1>1, <1>11, <3>2, FreshType
    <3> QED
      BY <3>1, <3>2
  <2> QED
    BY <1>1, <1>4, <2>1 DEF FieldsInv, FieldsType
<1>17. Shows'
  <2> SUFFICES ASSUME p # NONE, NEW f \in FieldSet(Table[p]) \cup FieldSet(Table["common"]), ~Vector(f), f.name \notin broken'
               PROVE  rdata'[f.name] = IF wish'[f.name] = NONE THEN f.default ELSE wish'[f.name]
    BY <1>1 DEF Shows, OnDisplay
  <2>1. p \in Rends /\ p \in DOMAIN Table /\ p # "common"
    BY <1>7
  <2>2. f \in AllFields /\ f.name \in Scalar /\ Covered(f) = {f.name} /\ f.whole \in BOOLEAN
    BY <1>5, <2>1, InTable, ScalarField, FieldIs
  <2>3. InData(f.name, udata', left) /\ left[f.name] \in Int \cup {NONE}
    BY <1>8, <1>12, <1>13, <2>2
  <2>4. rdata'[f.name] = IF left[f.name] = NONE THEN f.default ELSE Whole(f, left[f.name])
    BY <1>1, <1>11, <2>1, <2>3, FreshIs
  <2>5. CASE left[f.name] = NONE
    BY <1>3, <2>2, <2>4, <2>5
  <2>6. CASE left[f.name] # NONE /\ f \in FieldSet(Table[p])
    <3>1. f.name \in Owned(p)
      BY <2>1, <2>2, <2>6, <1>7 DEF Owned
    <3>2. WholeIn(p, f.name, left[f.name]) = Whole(f, left[f.name])
      <4> DEFINE h == CHOOSE g \in FieldSet(Table[p]): g.name = f.name
      <4>1. h \in FieldSet(Table[p]) /\ h.name = f.name
        BY <2>6
      <4>2. WholeIn(p, f.name, left[f.name]) = Whole(h, left[f.name])
        BY <2>6 DEF WholeIn
      <4> HIDE DEF h
      <4> QED
        BY <2>1, <2>6, <4>1, <4>2, OnceInTable
    <3>3. wish'[f.name] = Whole(f, left[f.name])
      BY <1>3, <2>2, <2>6, <3>1, <3>2
    <3>4. Whole(f, left[f.name]) # NONE
      BY <1>5, <2>2, <2>3, <2>6, WholeIs
    <3> QED
      BY <2>4, <2>6, <3>3, <3>4
  <2>7. CASE left[f.name] # NONE /\ f \in FieldSet(Table["common"])
    <3>1. f.name \notin Owned(p)
      BY <1>5, <2>1, <2>7, OtherTable DEF Owned
    <3>2. ~f.whole
      BY <2>7, FieldsAssumption DEF FieldsAssumption
    <3>3. Whole(f, left[f.name]) = left[f.name]
      BY <2>2, <2>3, <2>7, <3>2, WholeIs
    <3> QED
      BY <1>3, <2>2, <2>4, <2>7, <3>1, <3>3
  <2> QED
    BY <2>5, <2>6, <2>7
<1>18. Waits'
  <2> SUFFICES ASSUME NEW c \in Scalar, c \notin broken', c \notin Owned(p) PROVE InData(c, udata', wish')
    BY <1>1 DEF Waits, Owned
  <2>1. InData(c, udata', left)
    BY <1>12, <1>13
  <2>2. wish'[c] = left[c]
    BY <1>3
  <2> QED
    BY <2>1, <2>2, SameKept
<1> QED
  BY <1>1, <1>11, <1>15, <1>16, <1>17, <1>18 DEF FieldsInv

LEMMA FieldsStep == FieldsInv /\ [FieldsNext]_fieldsVars => FieldsInv'
<1> SUFFICES ASSUME FieldsInv, [FieldsNext]_fieldsVars PROVE FieldsInv'
  OBVIOUS
<1>1. ASSUME NEW n \in FieldName, NEW v \in Given[n], AssignData(n, v) PROVE FieldsInv'
  BY <1>1, DataKeeps
<1>2. ASSUME NEW n \in FieldName, NEW v \in Given[n], AssignUnset(n, v) PROVE FieldsInv'
  BY <1>2, UnsetKeeps
<1>3. ASSUME NEW p \in Rends \cup {NONE}, ChangeRender(p) PROVE FieldsInv'
  BY <1>3, RenderKeeps
<1>4. CASE UNCHANGED fieldsVars
  <2>1. UNCHANGED <<rend, rdata, udata, wish, reverts, broken>>
    BY <1>4 DEF fieldsVars
  <2> QED
    BY <2>1 DEF FieldsInv, FieldsType, Wishes, Shows, OnDisplay, Waits, Owned
<1> QED
  BY <1>1, <1>2, <1>3, <1>4 DEF FieldsNext

LEMMA FieldsEnd == FieldsInv => FieldsKept
<1> SUFFICES ASSUME FieldsInv PROVE FieldsKept
  OBVIOUS
<1>1. ASSUME rend # NONE, NEW f \in OnDisplay, f.name \in Scalar PROVE ~Vector(f)
  <2>1. rend \in DOMAIN Table /\ "common" \in DOMAIN Table
    BY <1>1, FieldsAssumption DEF FieldsInv, FieldsType, Rends, FieldsAssumption
  <2> QED
    BY <1>1, <2>1, InTable, ScalarIs DEF OnDisplay
<1> QED
  BY <1>1 DEF FieldsInv, FieldsKept, Shows, OnDisplay

(* What the renderer of an entity has in its fields is what game code gave *)
(* them, for any tables of fields and any values.                          *)
THEOREM FieldsStayKept == FieldsSpec => []FieldsKept
BY FieldsStart, FieldsStep, FieldsEnd, PTL DEF FieldsSpec

-----------------------------------------------------------------------------
(* What renderers draw from, side by side (MCGraphics).                    *)

LEMMA PartMoves ==
  [GraphicsNext]_<<spritesVars, drawingVars, beamsVars, fieldsVars, glyphsVars, texelsVars, fadeVars, part>> =>
    [FieldsNext]_fieldsVars /\ [GlyphsNext]_glyphsVars /\ [TexelsNext]_texelsVars
BY DEF GraphicsNext

(* What a renderer is given is what it draws, for any tables of fields and *)
(* values assigned to them in any order with any changes of renderers, for *)
(* any picture of characters with any loads and drops of its sprite, and   *)
(* for any picture made into a texture of any sizes that a driver takes    *)
(* (g_render.c, g_field.c, r_sprite.c, r_linefont.c, gl_texture.c).        *)
THEOREM DrawnAsGiven == GraphicsSpec => []GivenKept
<1>1. GraphicsInit => FieldsInv /\ GlyphsInv /\ TexelsInv
  BY FieldsStart, GlyphsStart, TexelsStart DEF GraphicsInit
<1>2. FieldsInv /\ GlyphsInv /\ TexelsInv
        /\ [GraphicsNext]_<<spritesVars, drawingVars, beamsVars, fieldsVars, glyphsVars, texelsVars, fadeVars, part>>
        => FieldsInv' /\ GlyphsInv' /\ TexelsInv'
  BY PartMoves, FieldsStep, GlyphsStep, TexelsStep
<1>3. FieldsInv /\ GlyphsInv /\ TexelsInv => GivenKept
  BY FieldsEnd, GlyphsEnd, TexelsEnd DEF GivenKept
<1> QED
  BY <1>1, <1>2, <1>3, PTL DEF GraphicsSpec
=============================================================================
