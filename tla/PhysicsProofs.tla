--------------------------- MODULE PhysicsProofs ---------------------------
(* Proofs about Physics: the space and the entities agree on what is       *)
(* allocated, and a step reads nothing freed, for any numbers of entities, *)
(* bodies, shapes, contacts and steps; about Motion: a body moves as its   *)
(* entity's fields tell, for any places, speeds and steps; about Shapes:   *)
(* what is made of any table an entity is given; and about Chipmunk as the *)
(* engine uses it (Contacts, SpaceHash): the arbiters and their buffers of *)
(* contacts, and the spatial hash, for any pairs, buffers, shapes and      *)
(* cells.                                                                  *)
EXTENDS Physics, Motion, Shapes, Contacts, SpaceHash, FiniteSetTheorems, SequenceTheorems, TLAPS

-----------------------------------------------------------------------------
(* The inductive invariant.                                                *)

(* An entity's data leads back to it, and a freed entity has none.         *)
DataLinked ==
  /\ \A e \in Ent: pd[e] # NULL => owner[pd[e]] = e
  /\ \A e \in Ent: life[e] = "free" => pd[e] = NULL

(* SpaceHoldsAllocated, element by element.                                *)
HashedAs(D, s, st) == \E d \in D: static[d] = st /\ s \in shapes[d]
SpaceByElement ==
  /\ \A d \in Data: d \in bodies <=> owner[d] # NULL
  /\ \A s \in Shape: s \in active <=> HashedAs(bodies, s, FALSE)
  /\ \A s \in Shape: s \in statics <=> HashedAs(bodies, s, TRUE)
  /\ \A s \in Shape: bearer[s] # NULL <=> s \in active \cup statics

(* While a collision is under way its variables are set.                   *)
InCollision == pc \in {"a", "touch a", "b", "touch b", "verdict"}
PairSet == InCollision => pair \in Shape \X Shape

IInv ==
  PhysicsType /\ SpaceByElement /\ BodiesOwned /\ DataLinked /\ StepReadsAllocated /\ PairSet

(* The two ways to say it agree.                                           *)
LEMMA ByElement == ASSUME PhysicsType PROVE SpaceHoldsAllocated <=> SpaceByElement
<1>0. \A d \in bodies: d \in Data /\ static[d] \in BOOLEAN /\ shapes[d] \subseteq Shape
  BY DEF PhysicsType
<1>1. bodies = {d \in Data: owner[d] # NULL} <=> \A d \in Data: d \in bodies <=> owner[d] # NULL
  BY DEF PhysicsType
<1>2. active = ShapesOf({d \in bodies: ~static[d]})
      <=> \A s \in Shape: s \in active <=> HashedAs(bodies, s, FALSE)
  <2>1. \A s: s \in ShapesOf({d \in bodies: ~static[d]}) <=> HashedAs(bodies, s, FALSE)
    BY <1>0 DEF ShapesOf, HashedAs
  <2>2. \A s: HashedAs(bodies, s, FALSE) => s \in Shape
    BY <1>0 DEF HashedAs
  <2>3. QED
    BY <2>1, <2>2 DEF PhysicsType
<1>3. statics = ShapesOf({d \in bodies: static[d]})
      <=> \A s \in Shape: s \in statics <=> HashedAs(bodies, s, TRUE)
  <2>1. \A s: s \in ShapesOf({d \in bodies: static[d]}) <=> HashedAs(bodies, s, TRUE)
    BY <1>0 DEF ShapesOf, HashedAs
  <2>2. \A s: HashedAs(bodies, s, TRUE) => s \in Shape
    BY <1>0 DEF HashedAs
  <2>3. QED
    BY <2>1, <2>2 DEF PhysicsType
<1>4. {s \in Shape: bearer[s] # NULL} = active \cup statics
      <=> \A s \in Shape: bearer[s] # NULL <=> s \in active \cup statics
  BY DEF PhysicsType
<1>5. QED
  BY <1>1, <1>2, <1>3, <1>4 DEF SpaceHoldsAllocated, SpaceByElement

(* A shape in the space is on a body, whose entity bears it.               *)
LEMMA ShapeOfBody ==
  ASSUME IInv, NEW s \in active \cup statics
  PROVE  /\ s \in Shape /\ bearer[s] \in Ent /\ pd[bearer[s]] \in Data
         /\ owner[pd[bearer[s]]] = bearer[s]
         /\ life[bearer[s]] # "free"
<1>1. s \in Shape /\ SpaceByElement
  BY DEF IInv, PhysicsType
<1>2. PICK d \in bodies: s \in shapes[d]
  BY <1>1 DEF SpaceByElement, HashedAs
<1>3. bearer[s] = owner[d] /\ owner[d] # NULL /\ d \in Data
  BY <1>1, <1>2 DEF IInv, PhysicsType, BodiesOwned, SpaceByElement
<1>4. owner[d] \in Ent
  BY <1>3 DEF IInv, PhysicsType
<1>5. pd[owner[d]] = d /\ life[owner[d]] # "free"
  BY <1>2 DEF IInv, BodiesOwned
<1>6. QED
  BY <1>1, <1>3, <1>4, <1>5

-----------------------------------------------------------------------------
(* Freeing and making bodies.                                              *)

(* The data of some entities is in the space.                              *)
LEMMA DataInSpace ==
  ASSUME IInv, NEW E \in SUBSET Ent
  PROVE  /\ DataOf(E) \subseteq bodies
         /\ \A d \in bodies: d \in DataOf(E) <=> owner[d] \in E
<1>0. SpaceByElement
  BY DEF IInv
<1>1. ASSUME NEW e \in Ent, pd[e] # NULL PROVE pd[e] \in bodies /\ owner[pd[e]] = e
  <2>1. pd[e] \in Data /\ owner[pd[e]] = e
    BY <1>1 DEF IInv, PhysicsType, DataLinked
  <2>2. QED
    BY <1>0, <2>1, NullAssumption DEF SpaceByElement
<1>2. ASSUME NEW d \in bodies PROVE owner[d] \in Ent /\ pd[owner[d]] = d /\ d # NULL
  <2>1. d \in Data /\ owner[d] \in Ent \cup {NULL}
    BY DEF IInv, PhysicsType
  <2>2. owner[d] \in Ent /\ d # NULL
    BY <1>0, <2>1, NullAssumption DEF SpaceByElement
  <2>3. QED
    BY <2>2 DEF IInv, BodiesOwned
<1>3. DataOf(E) \subseteq bodies
  BY <1>1 DEF DataOf
<1>4. \A d \in bodies: d \in DataOf(E) <=> owner[d] \in E
  BY <1>1, <1>2 DEF DataOf
<1>5. QED
  BY <1>3, <1>4

(* What is left of the memory and the space when the entities in E have    *)
(* lost their bodies, element by element.                                  *)
Left(E)        == bodies \ DataOf(E)
LeftShape(E,s) == \E d \in Left(E): s \in shapes[d]
LeftBearer(E)  == FreedBearer(ShapesOf(DataOf(E)))

OwnersLeft(E) == \A d \in Data: d \in Left(E) <=> FreedOwner(DataOf(E))[d] # NULL
BodiesLeft(E) ==
  \A d \in Left(E): /\ d \in Data /\ d \in bodies /\ d \notin DataOf(E)
                    /\ FreedOwner(DataOf(E))[d] = owner[d]
                    /\ FreedShapes(DataOf(E))[d] = shapes[d]
                    /\ shapes[d] \subseteq Shape
                    /\ static[d] \in BOOLEAN
                    /\ owner[d] \in Ent \ E
HashesLeft(E) ==
  /\ \A s \in Shape: s \in Hashes(DataOf(E)).active <=> HashedAs(Left(E), s, FALSE)
  /\ \A s \in Shape: s \in Hashes(DataOf(E)).statics <=> HashedAs(Left(E), s, TRUE)
BearersLeft(E) ==
  /\ \A s \in Shape: LeftBearer(E)[s] # NULL <=> LeftShape(E, s)
  /\ \A d \in Left(E): \A s \in shapes[d]: LeftBearer(E)[s] = owner[d]

LEMMA AfterFree ==
  ASSUME IInv, NEW E \in SUBSET Ent
  PROVE  OwnersLeft(E) /\ BodiesLeft(E) /\ HashesLeft(E) /\ BearersLeft(E)
<1> DEFINE D == DataOf(E)
<1>0. SpaceByElement
  BY DEF IInv
<1>1. D \subseteq bodies /\ \A d \in bodies: d \in D <=> owner[d] \in E
  BY DataInSpace
<1>2. bodies \subseteq Data /\ active \subseteq Shape /\ statics \subseteq Shape
  BY DEF IInv, PhysicsType
<1>3. \A d \in bodies: shapes[d] \subseteq Shape /\ static[d] \in BOOLEAN
  BY <1>2 DEF IInv, PhysicsType
<1>4. \A d \in bodies: owner[d] \in Ent
  <2>1. \A d \in bodies: owner[d] \in Ent \cup {NULL}
    BY <1>2 DEF IInv, PhysicsType
  <2>2. QED
    BY <1>0, <1>2, <2>1 DEF SpaceByElement
<1>5. \A d1, d2 \in bodies: d1 # d2 => shapes[d1] \cap shapes[d2] = {}
  BY DEF IInv, BodiesOwned
<1>6. \A s: s \in ShapesOf(D) <=> \E d \in D: s \in shapes[d]
  BY DEF ShapesOf
<1>7. OwnersLeft(E)
  BY <1>0 DEF OwnersLeft, Left, FreedOwner, SpaceByElement
<1>8. BodiesLeft(E)
  BY <1>1, <1>2, <1>3, <1>4 DEF BodiesLeft, Left, FreedOwner, FreedShapes
<1>9. ASSUME NEW s \in Shape PROVE s \in Hashes(D).active <=> HashedAs(Left(E), s, FALSE)
  <2>1. s \in Hashes(D).active
        <=> s \in active /\ ~ \E d \in D: ~static[d] /\ s \in shapes[d]
    BY DEF Hashes, ShapesOf
  <2>2. s \in active <=> HashedAs(bodies, s, FALSE)
    BY <1>0 DEF SpaceByElement
  <2>3. QED
    BY <1>1, <1>3, <1>5, <2>1, <2>2 DEF HashedAs, Left
<1>10. ASSUME NEW s \in Shape PROVE s \in Hashes(D).statics <=> HashedAs(Left(E), s, TRUE)
  <2>1. s \in Hashes(D).statics
        <=> s \in statics /\ ~ \E d \in D: static[d] /\ s \in shapes[d]
    BY DEF Hashes, ShapesOf
  <2>2. s \in statics <=> HashedAs(bodies, s, TRUE)
    BY <1>0 DEF SpaceByElement
  <2>3. QED
    BY <1>1, <1>3, <1>5, <2>1, <2>2 DEF HashedAs, Left
<1>11. ASSUME NEW s \in Shape PROVE LeftBearer(E)[s] # NULL <=> LeftShape(E, s)
  <2>1. LeftBearer(E)[s] = IF \E d \in D: s \in shapes[d] THEN NULL ELSE bearer[s]
    BY <1>6 DEF LeftBearer, FreedBearer
  <2>2. bearer[s] # NULL <=> \E d \in bodies: s \in shapes[d]
    BY <1>0, <1>3 DEF SpaceByElement, HashedAs
  <2>3. QED
    BY <1>1, <1>5, <2>1, <2>2 DEF LeftShape, Left
<1>12. ASSUME NEW d \in Left(E), NEW s \in shapes[d] PROVE LeftBearer(E)[s] = owner[d]
  <2>1. d \in bodies /\ d \notin D /\ s \in Shape
    BY <1>3 DEF Left
  <2>2. s \notin ShapesOf(D)
    BY <1>1, <1>5, <1>6, <2>1
  <2>3. bearer[s] = owner[d]
    BY <2>1 DEF IInv, BodiesOwned
  <2>4. QED
    BY <2>1, <2>2, <2>3 DEF LeftBearer, FreedBearer
<1>13. QED
  BY <1>7, <1>8, <1>9, <1>10, <1>11, <1>12 DEF HashesLeft, BearersLeft

-----------------------------------------------------------------------------
(* Each kind of step keeps the invariant.                                  *)

Owned == SpaceByElement /\ BodiesOwned /\ DataLinked

(* Freeing the bodies of some entities, whoever is then freed with them.   *)
LEMMA MemFreeKeeps ==
  ASSUME IInv, NEW E \in SUBSET Ent, MemFree(E), PhysicsType',
         \A e \in Ent: life'[e] = "free" => life[e] = "free" \/ e \in E
  PROVE  Owned'
<1> DEFINE D == DataOf(E)
<1>0. OwnersLeft(E) /\ BodiesLeft(E) /\ HashesLeft(E) /\ BearersLeft(E)
  BY AfterFree
<1>1. /\ bodies' = Left(E) /\ owner' = FreedOwner(D) /\ shapes' = FreedShapes(D)
      /\ bearer' = LeftBearer(E) /\ pd' = FreedPd(E) /\ static' = static
      /\ active' = Hashes(D).active /\ statics' = Hashes(D).statics
  BY DEF MemFree, Left, LeftBearer
<1>2. \A d \in Left(E): /\ d \in Data /\ d \in bodies /\ owner'[d] = owner[d]
                        /\ shapes'[d] = shapes[d] /\ owner[d] \in Ent \ E
  BY <1>0, <1>1 DEF BodiesLeft
<1>3. \A s: \A st \in BOOLEAN: HashedAs(bodies, s, st)' <=> HashedAs(Left(E), s, st)
  BY <1>1, <1>2 DEF HashedAs
<1>4. SpaceByElement'
  <2>1. \A d \in Data: d \in bodies' <=> owner'[d] # NULL
    BY <1>0, <1>1 DEF OwnersLeft
  <2>2. \A s \in Shape: s \in active' <=> HashedAs(bodies, s, FALSE)'
    BY <1>0, <1>1, <1>3 DEF HashesLeft
  <2>3. \A s \in Shape: s \in statics' <=> HashedAs(bodies, s, TRUE)'
    BY <1>0, <1>1, <1>3 DEF HashesLeft
  <2>4. \A s \in Shape: LeftShape(E, s) <=> HashedAs(Left(E), s, FALSE) \/ HashedAs(Left(E), s, TRUE)
    BY <1>0 DEF BodiesLeft, LeftShape, HashedAs
  <2>5. \A s \in Shape: bearer'[s] # NULL <=> s \in active' \cup statics'
    BY <1>0, <1>1, <1>3, <2>2, <2>3, <2>4 DEF BearersLeft
  <2>6. QED
    BY <2>1, <2>2, <2>3, <2>5 DEF SpaceByElement
<1>5. BodiesOwned'
  <2>1. ASSUME NEW d \in bodies' PROVE life'[owner'[d]] # "free" /\ pd'[owner'[d]] = d
    <3>1. d \in bodies /\ owner'[d] = owner[d] /\ owner[d] \in Ent \ E
      BY <1>1, <1>2
    <3>2. life[owner[d]] # "free" /\ pd[owner[d]] = d
      BY <3>1 DEF IInv, BodiesOwned
    <3>3. QED
      BY <1>1, <3>1, <3>2 DEF FreedPd
  <2>2. ASSUME NEW d \in bodies', NEW s \in shapes'[d] PROVE bearer'[s] = owner'[d]
    BY <1>0, <1>1, <1>2 DEF BearersLeft
  <2>3. ASSUME NEW d1 \in bodies', NEW d2 \in bodies', d1 # d2
        PROVE  shapes'[d1] \cap shapes'[d2] = {}
    BY <1>1, <1>2, <2>3 DEF IInv, BodiesOwned
  <2>4. QED
    BY <2>1, <2>2, <2>3 DEF BodiesOwned
<1>6. DataLinked'
  <2>1. ASSUME NEW e \in Ent, pd'[e] # NULL PROVE owner'[pd'[e]] = e
    <3>1. e \notin E /\ pd'[e] = pd[e] /\ pd[e] \in Data
      BY <1>1, <2>1 DEF FreedPd, IInv, PhysicsType
    <3>2. owner[pd[e]] = e
      BY <2>1, <3>1 DEF IInv, DataLinked
    <3>3. pd[e] \in bodies /\ pd[e] \notin D
      <4>1. SpaceByElement
        BY DEF IInv
      <4>2. pd[e] \in bodies
        BY <3>1, <3>2, <4>1, NullAssumption DEF SpaceByElement
      <4>3. QED
        BY <3>1, <3>2, <4>2, DataInSpace
    <3>4. QED
      BY <1>1, <3>1, <3>2, <3>3 DEF FreedOwner
  <2>2. ASSUME NEW e \in Ent, life'[e] = "free" PROVE pd'[e] = NULL
    BY <1>1, <2>2 DEF FreedPd, IInv, DataLinked
  <2>3. QED
    BY <2>1, <2>2 DEF DataLinked
<1>7. QED
  BY <1>4, <1>5, <1>6 DEF Owned

(* A new body in the place of the old one.                                 *)
LEMMA NewBodyKeeps ==
  ASSUME IInv, NEW e \in Ent, NEW d \in Data, NEW st \in BOOLEAN, NEW on \in BOOLEAN,
         NEW S \in SUBSET Shape, Listed(e), NewBody(e, d, st, on, S), PhysicsType', life' = life
  PROVE  Owned'
<1> DEFINE E == {e}
<1> DEFINE D == DataOf(E)
<1>0. OwnersLeft(E) /\ BodiesLeft(E) /\ HashesLeft(E) /\ BearersLeft(E)
  <2>1. E \in SUBSET Ent
    OBVIOUS
  <2> HIDE DEF E
  <2>2. QED
    BY <2>1, AfterFree
<1> HIDE DEF E
<1>1. /\ bodies' = Left(E) \cup {d}
      /\ owner' = [FreedOwner(D) EXCEPT ![d] = e]
      /\ shapes' = [FreedShapes(D) EXCEPT ![d] = S]
      /\ bearer' = [s \in Shape |-> IF s \in S THEN e ELSE LeftBearer(E)[s]]
      /\ pd' = [pd EXCEPT ![e] = d] /\ static' = [static EXCEPT ![d] = st]
      /\ active' = IF st THEN Hashes(D).active ELSE Hashes(D).active \cup S
      /\ statics' = IF st THEN Hashes(D).statics \cup S ELSE Hashes(D).statics
  BY DEF NewBody, Left, LeftBearer, E
<1>2. d \notin Left(E)
  <2>1. owner[d] = NULL \/ d \in D
    BY DEF NewBody, E
  <2>2. \A c \in Left(E): c \notin D /\ owner[c] \in Ent
    BY <1>0 DEF BodiesLeft
  <2>3. QED
    BY <2>1, <2>2, NullAssumption
<1>3. \A s \in S: LeftBearer(E)[s] = NULL
  BY DEF NewBody, LeftBearer, FreedBearer, E
<1>4. \A c \in Left(E): \A s \in shapes[c]: s \in Shape /\ s \notin S
  <2>1. \A c \in Left(E): \A s \in shapes[c]: LeftBearer(E)[s] = owner[c] /\ owner[c] \in Ent
    BY <1>0 DEF BodiesLeft, BearersLeft
  <2>2. \A c \in Left(E): shapes[c] \subseteq Shape
    BY <1>0 DEF BodiesLeft
  <2>3. QED
    BY <1>3, <2>1, <2>2, NullAssumption
<1>5. /\ owner'[d] = e /\ shapes'[d] = S /\ static'[d] = st /\ pd'[e] = d
      /\ \A c \in Left(E): /\ c \in Data /\ c \in bodies /\ c # d /\ c \notin D
                           /\ owner'[c] = owner[c] /\ shapes'[c] = shapes[c]
                           /\ static'[c] = static[c] /\ owner[c] \in Ent \ E
  <2>1. /\ owner'[d] = e /\ shapes'[d] = S /\ static'[d] = st /\ pd'[e] = d
    BY <1>1 DEF FreedOwner, FreedShapes, IInv, PhysicsType
  <2>2. ASSUME NEW c \in Left(E)
        PROVE  /\ c \in Data /\ c \in bodies /\ c # d /\ c \notin D
               /\ owner'[c] = owner[c] /\ shapes'[c] = shapes[c]
               /\ static'[c] = static[c] /\ owner[c] \in Ent \ E
    <3>1. /\ c \in Data /\ c \in bodies /\ c # d /\ c \notin D
          /\ FreedOwner(D)[c] = owner[c] /\ FreedShapes(D)[c] = shapes[c]
          /\ owner[c] \in Ent \ E
      BY <1>0, <1>2 DEF BodiesLeft
    <3>2. owner'[c] = FreedOwner(D)[c] /\ shapes'[c] = FreedShapes(D)[c]
      BY <1>1, <3>1 DEF FreedOwner, FreedShapes
    <3>3. static'[c] = static[c]
      BY <1>1, <3>1 DEF IInv, PhysicsType
    <3>4. QED
      BY <3>1, <3>2, <3>3
  <2>3. QED
    BY <2>1, <2>2
<1>6. \A s: \A t \in BOOLEAN:
        HashedAs(bodies, s, t)' <=> HashedAs(Left(E), s, t) \/ (t = st /\ s \in S)
  BY <1>1, <1>5 DEF HashedAs
<1>7. SpaceByElement'
  <2>1. ASSUME NEW c \in Data PROVE c \in bodies' <=> owner'[c] # NULL
    <3>1. CASE c = d
      BY <1>1, <1>5, <3>1, NullAssumption
    <3>2. CASE c # d
      <4>1. owner'[c] = FreedOwner(D)[c]
        BY <1>1, <3>2 DEF FreedOwner
      <4>2. QED
        BY <1>0, <1>1, <3>2, <4>1 DEF OwnersLeft
    <3>3. QED
      BY <3>1, <3>2
  <2>2. \A s \in Shape: s \in active' <=> HashedAs(bodies, s, FALSE)'
    <3>1. \A s \in Shape: s \in Hashes(D).active <=> HashedAs(Left(E), s, FALSE)
      BY <1>0 DEF HashesLeft
    <3>2. QED
      BY <1>1, <1>6, <3>1
  <2>3. \A s \in Shape: s \in statics' <=> HashedAs(bodies, s, TRUE)'
    <3>1. \A s \in Shape: s \in Hashes(D).statics <=> HashedAs(Left(E), s, TRUE)
      BY <1>0 DEF HashesLeft
    <3>2. QED
      BY <1>1, <1>6, <3>1
  <2>4. ASSUME NEW s \in Shape PROVE bearer'[s] # NULL <=> s \in active' \cup statics'
    <3>1. bearer'[s] # NULL <=> s \in S \/ LeftBearer(E)[s] # NULL
      BY <1>1, NullAssumption
    <3>2. LeftBearer(E)[s] # NULL <=> LeftShape(E, s)
      BY <1>0 DEF BearersLeft
    <3>3. LeftShape(E, s) <=> HashedAs(Left(E), s, FALSE) \/ HashedAs(Left(E), s, TRUE)
      BY <1>0 DEF BodiesLeft, LeftShape, HashedAs
    <3>4. QED
      BY <1>6, <2>2, <2>3, <3>1, <3>2, <3>3
  <2>5. QED
    BY <2>1, <2>2, <2>3, <2>4 DEF SpaceByElement
<1>8. BodiesOwned'
  <2>1. ASSUME NEW c \in bodies' PROVE life'[owner'[c]] # "free" /\ pd'[owner'[c]] = c
    <3>1. CASE c = d
      BY <1>5, <3>1 DEF Listed
    <3>2. CASE c # d
      <4>1. c \in bodies /\ owner'[c] = owner[c] /\ owner[c] \in Ent \ E
        BY <1>1, <1>5, <3>2
      <4>2. life[owner[c]] # "free" /\ pd[owner[c]] = c
        BY <4>1 DEF IInv, BodiesOwned
      <4>3. pd'[owner[c]] = pd[owner[c]]
        BY <1>1, <4>1 DEF E, IInv, PhysicsType
      <4>4. QED
        BY <4>1, <4>2, <4>3
    <3>3. QED
      BY <3>1, <3>2
  <2>2. ASSUME NEW c \in bodies', NEW s \in shapes'[c] PROVE bearer'[s] = owner'[c]
    <3>1. CASE c = d
      BY <1>1, <1>5, <3>1
    <3>2. CASE c # d
      <4>1. c \in Left(E) /\ s \in shapes[c] /\ owner'[c] = owner[c] /\ s \in Shape /\ s \notin S
        BY <1>1, <1>4, <1>5, <3>2
      <4>2. LeftBearer(E)[s] = owner[c]
        BY <1>0, <4>1 DEF BearersLeft
      <4>3. QED
        BY <1>1, <4>1, <4>2
    <3>3. QED
      BY <3>1, <3>2
  <2>3. ASSUME NEW c1 \in bodies', NEW c2 \in bodies', c1 # c2
        PROVE  shapes'[c1] \cap shapes'[c2] = {}
    <3>1. CASE c1 # d /\ c2 # d
      BY <1>1, <1>5, <2>3, <3>1 DEF IInv, BodiesOwned
    <3>2. CASE c1 = d \/ c2 = d
      BY <1>1, <1>4, <1>5, <2>3, <3>2
    <3>3. QED
      BY <3>1, <3>2
  <2>4. QED
    BY <2>1, <2>2, <2>3 DEF BodiesOwned
<1>9. DataLinked'
  <2>1. ASSUME NEW a \in Ent, pd'[a] # NULL PROVE owner'[pd'[a]] = a
    <3>1. CASE a = e
      BY <1>5, <3>1
    <3>2. CASE a # e
      <4>1. pd'[a] = pd[a] /\ pd[a] \in Data
        BY <1>1, <2>1, <3>2 DEF IInv, PhysicsType
      <4>2. owner[pd[a]] = a
        BY <2>1, <4>1 DEF IInv, DataLinked
      <4>3. SpaceByElement
        BY DEF IInv
      <4>4. pd[a] \in bodies
        BY <4>1, <4>2, <4>3, NullAssumption DEF SpaceByElement
      <4>5. pd[a] \in Left(E)
        BY <3>2, <4>2, <4>4, DataInSpace DEF Left, E
      <4>6. QED
        BY <1>5, <4>1, <4>2, <4>5
    <3>3. QED
      BY <3>1, <3>2
  <2>2. ASSUME NEW a \in Ent, life'[a] = "free" PROVE pd'[a] = NULL
    BY <1>1, <2>2 DEF Listed, IInv, PhysicsType, DataLinked
  <2>3. QED
    BY <2>1, <2>2 DEF DataLinked
<1>10. QED
  BY <1>7, <1>8, <1>9 DEF Owned

(* The types after both.                                                   *)
LEMMA MemFreeType ==
  ASSUME PhysicsType, NEW E \in SUBSET Ent, MemFree(E)
  PROVE  /\ pd' \in [Ent -> Data \cup {NULL}] /\ owner' \in [Data -> Ent \cup {NULL}]
         /\ static' \in [Data -> BOOLEAN]
         /\ shapes' \in [Data -> SUBSET Shape] /\ bearer' \in [Shape -> Ent \cup {NULL}]
         /\ bodies' \subseteq Data /\ active' \subseteq Shape /\ statics' \subseteq Shape
BY DEF MemFree, PhysicsType, FreedPd, FreedOwner, FreedShapes, FreedBearer, Hashes

LEMMA NewBodyType ==
  ASSUME PhysicsType, NEW e \in Ent, NEW d \in Data, NEW st \in BOOLEAN, NEW on \in BOOLEAN,
         NEW S \in SUBSET Shape, NewBody(e, d, st, on, S)
  PROVE  /\ pd' \in [Ent -> Data \cup {NULL}] /\ owner' \in [Data -> Ent \cup {NULL}]
         /\ static' \in [Data -> BOOLEAN] /\ solid' \in [Data -> BOOLEAN]
         /\ shapes' \in [Data -> SUBSET Shape] /\ bearer' \in [Shape -> Ent \cup {NULL}]
         /\ bodies' \subseteq Data /\ active' \subseteq Shape /\ statics' \subseteq Shape
<1>1. /\ pd' \in [Ent -> Data \cup {NULL}] /\ static' \in [Data -> BOOLEAN]
      /\ solid' \in [Data -> BOOLEAN] /\ bodies' \subseteq Data
  BY DEF NewBody, PhysicsType
<1>2. owner' \in [Data -> Ent \cup {NULL}]
  BY DEF NewBody, PhysicsType, FreedOwner
<1>3. shapes' \in [Data -> SUBSET Shape]
  BY DEF NewBody, PhysicsType, FreedShapes
<1>4. bearer' \in [Shape -> Ent \cup {NULL}]
  BY DEF NewBody, PhysicsType, FreedBearer
<1>5. active' \subseteq Shape /\ statics' \subseteq Shape
  BY DEF NewBody, PhysicsType, Hashes
<1>6. QED
  BY <1>1, <1>2, <1>3, <1>4, <1>5

(* A step that leaves memory and space alone and frees no entity.          *)
LEMMA SameSpaceKeeps ==
  ASSUME IInv, PhysicsType', UNCHANGED <<memory, space>>,
         \A e \in Ent: life'[e] = "free" => life[e] = "free"
  PROVE  Owned'
<1>1. /\ pd' = pd /\ owner' = owner /\ static' = static /\ shapes' = shapes /\ bearer' = bearer
      /\ bodies' = bodies /\ active' = active /\ statics' = statics
  BY DEF memory, space
<1>2. SpaceByElement'
  BY <1>1 DEF IInv, SpaceByElement, HashedAs
<1>3. BodiesOwned'
  <2>1. ASSUME NEW d \in bodies PROVE owner[d] \in Ent
    <3>1. d \in Data /\ owner[d] \in Ent \cup {NULL}
      BY DEF IInv, PhysicsType
    <3>2. QED
      BY <3>1 DEF IInv, SpaceByElement
  <2>2. QED
    BY <1>1, <2>1 DEF IInv, BodiesOwned
<1>4. DataLinked'
  BY <1>1 DEF IInv, DataLinked
<1>5. QED
  BY <1>2, <1>3, <1>4 DEF Owned

(* What game code does outside a step, and inside one.                     *)
LEMMA LuaKeeps == ASSUME IInv, Lua PROVE IInv'
<1>1. ASSUME NEW e \in Ent, Spawn(e) \/ Remove(e) PROVE IInv'
  <2>1. PhysicsType'
    <3>1. life' \in [Ent -> {"free", "listed", "removed"}]
      BY <1>1 DEF Spawn, Remove, IInv, PhysicsType
    <3>2. UNCHANGED <<memory, solid, space, pc, frame, collision>>
      BY <1>1 DEF Spawn, Remove
    <3>3. QED
      BY <3>1, <3>2 DEF memory, space, frame, collision, IInv, PhysicsType
  <2>2. \A a \in Ent: life'[a] = "free" => life[a] = "free"
    BY <1>1 DEF Spawn, Remove, IInv, PhysicsType
  <2>3. Owned'
    BY <1>1, <2>1, <2>2, SameSpaceKeeps DEF Spawn, Remove
  <2>4. StepReadsAllocated' /\ PairSet'
    BY <1>1 DEF Spawn, Remove, memory, space, frame, collision, IInv, StepReadsAllocated,
                InStep, Allocated, PairSet, InCollision
  <2>5. QED
    BY <2>1, <2>3, <2>4 DEF IInv, Owned
<1>2. ASSUME NEW e \in Ent, ClearBody(e) PROVE IInv'
  <2>1. PhysicsType'
    BY <1>2, MemFreeType DEF ClearBody, frame, collision, IInv, PhysicsType
  <2>2. Owned'
    BY <1>2, <2>1, MemFreeKeeps DEF ClearBody
  <2>3. ~InStep' /\ ~InCollision'
    BY <1>2 DEF ClearBody, InStep, Locked, InCollision
  <2>4. QED
    BY <2>1, <2>2, <2>3 DEF IInv, Owned, StepReadsAllocated, PairSet
<1>3. ASSUME NEW e \in Ent, NEW d \in Data, NEW st \in BOOLEAN, NEW on \in BOOLEAN,
             NEW S \in SUBSET Shape, SetBody(e, d, st, on, S)
      PROVE  IInv'
  <2>1. PhysicsType'
    <3>1. PhysicsType /\ NewBody(e, d, st, on, S) /\ UNCHANGED <<life, pc, frame, collision>>
      BY <1>3 DEF SetBody, IInv
    <3>2. /\ pd' \in [Ent -> Data \cup {NULL}] /\ owner' \in [Data -> Ent \cup {NULL}]
          /\ static' \in [Data -> BOOLEAN] /\ solid' \in [Data -> BOOLEAN]
          /\ shapes' \in [Data -> SUBSET Shape] /\ bearer' \in [Shape -> Ent \cup {NULL}]
          /\ bodies' \subseteq Data /\ active' \subseteq Shape /\ statics' \subseteq Shape
      BY <3>1, NewBodyType
    <3>3. QED
      BY <3>1, <3>2 DEF frame, collision, PhysicsType
  <2>2. Owned'
    BY <1>3, <2>1, NewBodyKeeps DEF SetBody
  <2>3. ~InStep' /\ ~InCollision'
    BY <1>3 DEF SetBody, InStep, Locked, InCollision
  <2>4. QED
    BY <2>1, <2>2, <2>3 DEF IInv, Owned, StepReadsAllocated, PairSet
<1>4. ASSUME NEW e \in Ent, SetBodyLocked(e) PROVE IInv'
  <2>1. PhysicsType'
    BY <1>4 DEF SetBodyLocked, memory, space, frame, collision, IInv, PhysicsType
  <2>2. Owned'
    BY <1>4, <2>1, SameSpaceKeeps DEF SetBodyLocked
  <2>3. ~InStep' /\ ~InCollision'
    BY <1>4 DEF SetBodyLocked, InStep, InCollision
  <2>4. QED
    BY <2>1, <2>2, <2>3 DEF IInv, Owned, StepReadsAllocated, PairSet
<1>5. ASSUME NEW e \in Ent, NEW on \in BOOLEAN, SetSolid(e, on) PROVE IInv'
  <2>1. PhysicsType'
    BY <1>5 DEF SetSolid, memory, space, frame, collision, IInv, PhysicsType
  <2>2. Owned'
    BY <1>5, <2>1, SameSpaceKeeps DEF SetSolid
  <2>3. StepReadsAllocated' /\ PairSet'
    BY <1>5 DEF SetSolid, memory, space, frame, collision, IInv, StepReadsAllocated,
                InStep, Allocated, PairSet, InCollision
  <2>4. QED
    BY <2>1, <2>2, <2>3 DEF IInv, Owned
<1>6. QED
  BY <1>1, <1>2, <1>3, <1>4, <1>5 DEF Lua

(* The frame around the collisions.                                        *)
LEMMA StepBeginKeeps ==
  ASSUME IInv, NEW n \in 0 .. Steps, StepBegin(n)
  PROVE  IInv'
<1>1. \A p \in pairs': /\ p = <<p[1], p[2]>>
                       /\ p[1] \in active \cup statics /\ p[2] \in active \cup statics
  BY DEF StepBegin, Meeting
<1>2. pairs' \subseteq Shape \X Shape
  <2>1. Meeting \subseteq Shape \X Shape
    BY DEF Meeting, IInv, PhysicsType
  <2>2. QED
    BY <2>1 DEF StepBegin
<1>3. PhysicsType'
  BY <1>2 DEF StepBegin, memory, space, collision, IInv, PhysicsType
<1>4. Owned'
  BY <1>3, SameSpaceKeeps DEF StepBegin
<1>5. \A p \in pairs': bearer'[p[1]] # NULL /\ bearer'[p[2]] # NULL
  <2>1. \A s \in active \cup statics: bearer[s] # NULL
    BY DEF IInv, PhysicsType, SpaceByElement
  <2>2. bearer' = bearer
    BY DEF StepBegin, memory
  <2>3. QED
    BY <1>1, <2>1, <2>2
<1>6. StepReadsAllocated' /\ PairSet'
  BY <1>5 DEF StepBegin, StepReadsAllocated, Allocated, PairSet, InCollision
<1>7. QED
  BY <1>3, <1>4, <1>6 DEF IInv, Owned

LEMMA FrameKeeps ==
  ASSUME IInv, PhysicsFrame \/ PhysicsIdle \/ NextStep \/ LastStep \/ FreeRemoved
  PROVE  IInv'
<1>1. CASE PhysicsFrame
  <2>1. Steps \in 0 .. Steps
    BY BoundAssumption
  <2>2. QED
    BY <1>1, <2>1, StepBeginKeeps DEF PhysicsFrame
<1>2. CASE NextStep
  <2>1. steps - 1 \in 0 .. Steps
    BY <1>2, BoundAssumption DEF NextStep, IInv, PhysicsType
  <2>2. StepBegin(steps - 1)
    BY <1>2 DEF NextStep
  <2>3. QED
    BY <2>1, <2>2, StepBeginKeeps
<1>3. CASE PhysicsIdle \/ LastStep
  <2>1. PhysicsType'
    <3>1. CASE PhysicsIdle
      BY <3>1 DEF PhysicsIdle, memory, space, frame, collision, IInv, PhysicsType
    <3>2. CASE LastStep
      BY <3>2, BoundAssumption DEF LastStep, memory, space, collision, IInv, PhysicsType
    <3>3. QED
      BY <1>3, <3>1, <3>2
  <2>2. Owned'
    BY <1>3, <2>1, SameSpaceKeeps DEF PhysicsIdle, LastStep
  <2>3. ~InStep' /\ ~InCollision'
    BY <1>3 DEF PhysicsIdle, LastStep, InStep, InCollision
  <2>4. QED
    BY <2>1, <2>2, <2>3 DEF IInv, Owned, StepReadsAllocated, PairSet
<1>4. CASE FreeRemoved
  <2>1. ToFree \in SUBSET Ent
    BY DEF ToFree
  <2>2. PhysicsType'
    BY <1>4, <2>1, MemFreeType DEF FreeRemoved, frame, collision, IInv, PhysicsType
  <2>3. \A e \in Ent: life'[e] = "free" => life[e] = "free" \/ e \in ToFree
    BY <1>4 DEF FreeRemoved, ToFree
  <2>4. Owned'
    BY <1>4, <2>1, <2>2, <2>3, MemFreeKeeps DEF FreeRemoved
  <2>5. ~InStep' /\ ~InCollision'
    BY <1>4 DEF FreeRemoved, InStep, InCollision
  <2>6. QED
    BY <2>2, <2>4, <2>5 DEF IInv, Owned, StepReadsAllocated, PairSet
<1>5. QED
  BY <1>1, <1>2, <1>3, <1>4

(* Inside g_physics_collision: its pointers are set once, to what the      *)
(* shapes lead to, and memory does not change under them.                  *)
LEMMA CollideKeeps ==
  ASSUME IInv, NEW p \in pairs, NEW n \in 1 .. MaxContacts, Collide(p, n)
  PROVE  IInv'
<1>1. p \in Shape \X Shape /\ bearer[p[1]] # NULL /\ bearer[p[2]] # NULL
  BY DEF Collide, IInv, PhysicsType, StepReadsAllocated, InStep, Allocated
<1>2. /\ bearer[p[1]] \in Ent /\ pd[bearer[p[1]]] \in Data
      /\ owner[pd[bearer[p[1]]]] = bearer[p[1]]
  <2>1. p[1] \in active \cup statics
    BY <1>1 DEF IInv, SpaceByElement
  <2>2. QED
    BY <2>1, ShapeOfBody
<1>3. /\ bearer[p[2]] \in Ent /\ pd[bearer[p[2]]] \in Data
      /\ owner[pd[bearer[p[2]]]] = bearer[p[2]]
  <2>1. p[2] \in active \cup statics
    BY <1>1 DEF IInv, SpaceByElement
  <2>2. QED
    BY <2>1, ShapeOfBody
<1>4. UNCHANGED <<life, memory, solid, space, steps, arbiters>> /\ pairs' = pairs \ {p}
  BY DEF Collide
<1>5. /\ pc' \in {"step", "a"}
      /\ pair' \in (Shape \cup {NULL}) \X (Shape \cup {NULL})
      /\ apd' \in Data \cup {NULL} /\ bpd' \in Data \cup {NULL}
      /\ contacts' \in 0 .. MaxContacts
      /\ valid' \in BOOLEAN /\ ablocked' \in BOOLEAN /\ bblocked' \in BOOLEAN
  <2>1. CASE Listed(bearer[p[1]]) /\ Listed(bearer[p[2]])
    <3>1. /\ pc' = "a" /\ pair' = p /\ contacts' = n /\ valid' = TRUE
          /\ apd' = pd[bearer[p[1]]] /\ bpd' = pd[bearer[p[2]]]
          /\ ablocked' = ablocked /\ bblocked' = bblocked
      BY <2>1 DEF Collide
    <3>2. ablocked \in BOOLEAN /\ bblocked \in BOOLEAN
      BY DEF IInv, PhysicsType
    <3>3. n \in 0 .. MaxContacts
      BY BoundAssumption
    <3>4. p \in (Shape \cup {NULL}) \X (Shape \cup {NULL})
      BY <1>1
    <3>5. QED
      BY <1>2, <1>3, <3>1, <3>2, <3>3, <3>4
  <2>2. CASE ~(Listed(bearer[p[1]]) /\ Listed(bearer[p[2]]))
    <3>1. Return
      BY <2>2 DEF Collide
    <3>2. 0 \in 0 .. MaxContacts
      BY BoundAssumption
    <3>3. <<NULL, NULL>> \in (Shape \cup {NULL}) \X (Shape \cup {NULL})
      OBVIOUS
    <3>4. QED
      BY <3>1, <3>2, <3>3 DEF Return
  <2>3. QED
    BY <2>1, <2>2
<1>6. PhysicsType'
  <2>1. pairs' \subseteq Shape \X Shape /\ pc' \in {"step", "a"}
    BY <1>4, <1>5 DEF IInv, PhysicsType
  <2>2. UNCHANGED <<life, pd, owner, static, solid, shapes, bearer, bodies, active, statics,
                    steps, arbiters>>
    BY <1>4 DEF memory, space
  <2>3. QED
    BY <1>5, <2>1, <2>2 DEF IInv, PhysicsType
<1>7. Owned'
  BY <1>4, <1>6, SameSpaceKeeps
<1>8. StepReadsAllocated' /\ PairSet'
  <2>1. \A q \in pairs' \cup arbiters': bearer'[q[1]] # NULL /\ bearer'[q[2]] # NULL
    BY DEF Collide, memory, IInv, StepReadsAllocated, InStep, Allocated
  <2>2. CASE Listed(bearer[p[1]]) /\ Listed(bearer[p[2]])
    BY <1>1, <1>2, <1>3, <2>1, <2>2, NullAssumption
       DEF Collide, memory, StepReadsAllocated, Allocated, PairSet
  <2>3. CASE ~(Listed(bearer[p[1]]) /\ Listed(bearer[p[2]]))
    BY <2>1, <2>3 DEF Collide, Return, StepReadsAllocated, Allocated, PairSet, InCollision
  <2>4. QED
    BY <2>2, <2>3
<1>9. QED
  BY <1>6, <1>7, <1>8 DEF IInv, Owned

LEMMA TouchKeeps ==
  ASSUME IInv, NEW blocked \in BOOLEAN,
         TouchA \/ TouchB \/ ReturnA(blocked) \/ ReturnB(blocked) \/ Verdict
  PROVE  IInv'
<1>1. /\ UNCHANGED <<life, memory, solid, space, steps, pairs>>
      /\ pc \in {"a", "touch a", "b", "touch b", "verdict"}
  BY DEF TouchA, TouchB, ReturnA, ReturnB, Verdict, frame
<1>2. pair \in Shape \X Shape
  BY <1>1 DEF IInv, PairSet, InCollision
<1>3. PhysicsType'
  <2>1. CASE TouchA \/ TouchB
    BY <2>1 DEF TouchA, TouchB, BothListed, Listed, memory, space, frame, IInv, PhysicsType
  <2>2. CASE ReturnA(blocked) \/ ReturnB(blocked)
    BY <2>2 DEF ReturnA, ReturnB, memory, space, frame, IInv, PhysicsType
  <2>3. CASE Verdict
    <3>1. arbiters' \subseteq Shape \X Shape
      BY <1>2, <2>3 DEF Verdict, IInv, PhysicsType
    <3>2. CASE Return
      <4>1. 0 \in 0 .. MaxContacts
        BY BoundAssumption
      <4>2. /\ pc' = "step" /\ pair' \in (Shape \cup {NULL}) \X (Shape \cup {NULL})
            /\ apd' = NULL /\ bpd' = NULL /\ contacts' \in 0 .. MaxContacts
            /\ valid' = FALSE /\ ablocked' = FALSE /\ bblocked' = FALSE
        <5>1. <<NULL, NULL>> \in (Shape \cup {NULL}) \X (Shape \cup {NULL})
          OBVIOUS
        <5>2. QED
          BY <3>2, <4>1, <5>1 DEF Return
      <4>3. UNCHANGED <<life, pd, owner, static, solid, shapes, bearer, bodies, active, statics,
                        steps, pairs>>
        BY <1>1 DEF memory, space
      <4>4. QED
        BY <3>1, <4>2, <4>3 DEF IInv, PhysicsType
    <3>3. CASE /\ MoreContacts /\ pc' = "a" /\ contacts' = contacts - 1
               /\ UNCHANGED <<pair, apd, bpd, valid, ablocked, bblocked>>
      <4>1. contacts' \in 0 .. MaxContacts
        <5>1. contacts > 1 /\ contacts' = contacts - 1
          BY <3>3, Zenon DEF MoreContacts
        <5>2. contacts \in 0 .. MaxContacts /\ MaxContacts \in Nat
          BY BoundAssumption DEF IInv, PhysicsType
        <5>3. QED
          BY <5>1, <5>2
      <4>2. /\ pc' = "a" /\ pair' = pair /\ apd' = apd /\ bpd' = bpd
            /\ valid' = valid /\ ablocked' = ablocked /\ bblocked' = bblocked
        BY <3>3
      <4>3. QED
        BY <1>1, <3>1, <4>1, <4>2 DEF memory, space, IInv, PhysicsType
    <3>4. QED
      BY <2>3, <3>2, <3>3 DEF Verdict
  <2>4. QED
    BY <2>1, <2>2, <2>3
<1>4. Owned'
  BY <1>1, <1>3, SameSpaceKeeps
<1>5. StepReadsAllocated' /\ PairSet'
  <2>1. InStep /\ pc # "step"
    BY <1>1 DEF InStep
  <2>2. /\ \A q \in pairs \cup arbiters: bearer[q[1]] # NULL /\ bearer[q[2]] # NULL
        /\ bearer[pair[1]] # NULL /\ bearer[pair[2]] # NULL
        /\ apd # NULL /\ owner[apd] = bearer[pair[1]]
        /\ bpd # NULL /\ owner[bpd] = bearer[pair[2]]
    BY <2>1 DEF IInv, StepReadsAllocated, Allocated
  <2>3. bearer' = bearer /\ owner' = owner /\ pairs' = pairs
    BY <1>1 DEF memory
  <2>4. CASE TouchA \/ TouchB \/ ReturnA(blocked) \/ ReturnB(blocked)
    BY <1>2, <2>2, <2>3, <2>4
       DEF TouchA, TouchB, ReturnA, ReturnB, frame, StepReadsAllocated, Allocated, PairSet
  <2>5. CASE Verdict
    BY <1>2, <2>2, <2>3, <2>5
       DEF Verdict, Return, StepReadsAllocated, Allocated, PairSet, InCollision
  <2>6. QED
    BY <2>4, <2>5
<1>6. QED
  BY <1>3, <1>4, <1>5 DEF IInv, Owned

-----------------------------------------------------------------------------
(* The theorems.                                                           *)

LEMMA InitIInv == PhysicsInit => IInv
<1> SUFFICES ASSUME PhysicsInit PROVE IInv
  OBVIOUS
<1>1. PhysicsType
  <2>1. steps \in 0 .. Steps /\ contacts \in 0 .. MaxContacts
    BY BoundAssumption DEF PhysicsInit
  <2>2. /\ life \in [Ent -> {"free", "listed", "removed"}]
        /\ pd \in [Ent -> Data \cup {NULL}] /\ owner \in [Data -> Ent \cup {NULL}]
        /\ static \in [Data -> BOOLEAN] /\ solid \in [Data -> BOOLEAN]
        /\ shapes \in [Data -> SUBSET Shape] /\ bearer \in [Shape -> Ent \cup {NULL}]
    BY DEF PhysicsInit
  <2>3. QED
    BY <2>1, <2>2 DEF PhysicsInit, PhysicsType
<1>2. SpaceByElement /\ BodiesOwned /\ DataLinked
  BY DEF PhysicsInit, SpaceByElement, HashedAs, BodiesOwned, DataLinked
<1>3. StepReadsAllocated /\ PairSet
  BY DEF PhysicsInit, StepReadsAllocated, InStep, PairSet, InCollision
<1>4. QED
  BY <1>1, <1>2, <1>3 DEF IInv

LEMMA NextKeepsIInv == IInv /\ [PhysicsNext]_physicsVars => IInv'
<1> SUFFICES ASSUME IInv, [PhysicsNext]_physicsVars PROVE IInv'
  OBVIOUS
<1>1. CASE Lua
  BY <1>1, LuaKeeps
<1>2. CASE PhysicsFrame \/ PhysicsIdle \/ NextStep \/ LastStep \/ FreeRemoved
  BY <1>2, FrameKeeps
<1>3. CASE Collision
  <2>1. ASSUME NEW p \in pairs, NEW n \in 1 .. MaxContacts, Collide(p, n) PROVE IInv'
    BY <2>1, CollideKeeps
  <2>2. ASSUME NEW blocked \in BOOLEAN,
               TouchA \/ TouchB \/ ReturnA(blocked) \/ ReturnB(blocked) \/ Verdict
        PROVE  IInv'
    BY <2>2, TouchKeeps
  <2>3. QED
    BY <1>3, <2>1, <2>2 DEF Collision
<1>4. CASE UNCHANGED physicsVars
  <2>1. PhysicsType'
    BY <1>4 DEF physicsVars, memory, space, frame, collision, IInv, PhysicsType
  <2>2. Owned'
    BY <1>4, <2>1, SameSpaceKeeps DEF physicsVars
  <2>3. StepReadsAllocated' /\ PairSet'
    BY <1>4 DEF physicsVars, memory, frame, collision, IInv, StepReadsAllocated, InStep, Allocated,
                PairSet, InCollision
  <2>4. QED
    BY <2>1, <2>2, <2>3 DEF IInv, Owned
<1>5. QED
  BY <1>1, <1>2, <1>3, <1>4 DEF PhysicsNext, Stopped

LEMMA Invariant == PhysicsSpec => []IInv
<1>1. QED
  BY InitIInv, NextKeepsIInv, PTL DEF PhysicsSpec

(* Every variable keeps its type, for any numbers of entities, bodies and  *)
(* shapes.                                                                 *)
THEOREM TypeCorrect == PhysicsSpec => []PhysicsType
<1>1. IInv => PhysicsType
  BY DEF IInv
<1>2. QED
  BY <1>1, Invariant, PTL

(* A body and its shapes lead to an allocated entity that leads back to    *)
(* the body: g_physics_update_ent reads no freed memory.                   *)
THEOREM OwnersCorrect == PhysicsSpec => []BodiesOwned
<1>1. IInv => BodiesOwned
  BY DEF IInv
<1>2. QED
  BY <1>1, Invariant, PTL

(* The space refers to what is allocated and to nothing else, each shape   *)
(* in the hash it will be looked for in (g_physics_delete_shapes); and     *)
(* whatever touch functions do, nothing a step or a collision holds on to  *)
(* is freed before it is through with it.                                  *)
THEOREM StepSafe == PhysicsSpec => []NothingDangles
<1>1. IInv => NothingDangles
  BY ByElement DEF IInv, NothingDangles
<1>2. QED
  BY <1>1, Invariant, PTL

(* Game code is told of a touch only between two entities not removed.     *)
THEOREM TouchSafe == PhysicsSpec => TouchListed
<1>1. [PhysicsNext]_physicsVars /\ InTouch' /\ ~InTouch
      => Listed(bearer[pair[1]]) /\ Listed(bearer[pair[2]])
  <2> SUFFICES ASSUME [PhysicsNext]_physicsVars, InTouch', ~InTouch
               PROVE  Listed(bearer[pair[1]]) /\ Listed(bearer[pair[2]])
    OBVIOUS
  <2>1. TouchA \/ TouchB
    BY DEF InTouch, PhysicsNext, Lua, Spawn, Remove, ClearBody, SetBody, SetBodyLocked, SetSolid,
           PhysicsFrame, PhysicsIdle, NextStep, LastStep, StepBegin, FreeRemoved, Collision,
           Collide, Return, ReturnA, ReturnB, Verdict, Stopped, physicsVars
  <2>2. valid'
    BY <2>1 DEF TouchA, TouchB, InTouch
  <2>3. QED
    BY <2>1, <2>2 DEF TouchA, TouchB, BothListed
<1>2. QED
  BY <1>1, PTL DEF PhysicsSpec, TouchListed

-----------------------------------------------------------------------------
(* What a body moves as (Motion).                                          *)

(* Every number of the fields and of the body, written one by one.         *)
MotionTyped ==
  /\ made \in {"none", "moving", "static"}
  /\ org \in Place \cup {NAN} /\ bp \in Place \cup {NAN} /\ hashed \in Place \cup {NAN}
  /\ vel \in Speed \cup {NAN} /\ bv \in Speed \cup {NAN}
  /\ mass \in {0, 1, 2, INF} /\ bm \in {0, 1, 2, INF}
  /\ elas \in {0, 1} /\ se \in {0, 1} /\ fall \in {0, 1}
  /\ when \in {"lua", "steps", "touch", "entities"} /\ todo \in 0 .. MaxSteps
  /\ unsaid \subseteq AllOf

(* A velocity that is no number came from the body, and so is owed to a    *)
(* move or a push before there was a mass.                                 *)
FiniteToo == made # "none" => (NAN \in {bp, bv, vel} => light)

MotionInv == MotionTyped /\ FieldsTell /\ StaticHashed /\ FiniteToo

(* A sum of two numbers stays in bounds; of what is none, it is none.      *)
LEMMA Sums ==
  ASSUME NEW max \in 1 .. 198, NEW x \in Int, NEW y \in Int, x # NAN, y # NAN
  PROVE  Plus(x, y, max) \in -max .. max /\ (x + y \in -max .. max => Plus(x, y, max) = x + y)
BY DEF Plus, Within, NAN

LEMMA NoSum ==
  ASSUME NEW x, NEW y, NEW max, x = NAN \/ y = NAN
  PROVE  Plus(x, y, max) = NAN
BY DEF Plus

LEMMA Bounds ==
  /\ MaxSpeed \in 1 .. 99 /\ MaxPlace \in 1 .. 99 /\ MaxSteps \in Nat
  /\ NAN \notin Speed /\ NAN \notin Place /\ 0 \in Speed /\ 0 \in Place
  /\ Speed \subseteq Int /\ Place \subseteq Int
BY MotionAssumption DEF NAN, Speed, Place

LEMMA Moves ==
  ASSUME NEW p \in Place \cup {NAN}, NEW v \in Speed \cup {NAN}
  PROVE  /\ Plus(p, v, MaxPlace) \in Place \cup {NAN}
         /\ Plus(p, v, MaxPlace) = NAN => p = NAN \/ v = NAN
         /\ v = 0 => Plus(p, v, MaxPlace) = p
<1>1. CASE p = NAN \/ v = NAN
  <2>1. Plus(p, v, MaxPlace) = NAN
    BY <1>1, NoSum
  <2>2. NAN # 0
    BY DEF NAN
  <2> QED
    BY <1>1, <2>1, <2>2
<1>2. CASE p \in Place /\ v \in Speed
  <2>1. MaxPlace \in 1 .. 198 /\ p \in Int /\ v \in Int /\ p # NAN /\ v # NAN
    BY <1>2, Bounds
  <2>2. Plus(p, v, MaxPlace) \in Place /\ (p + v \in Place => Plus(p, v, MaxPlace) = p + v)
    BY <2>1, Sums DEF Place
  <2>3. v = 0 => p + v = p
    BY <2>1
  <2> QED
    BY <1>2, <2>2, <2>3, Bounds
<1> QED
  BY <1>1, <1>2

(* A speed and a number: what is none comes from what is none.             *)
LEMMA Speeds ==
  ASSUME NEW v \in Speed \cup {NAN}, NEW q \in Int
  PROVE  /\ Plus(v, q, MaxSpeed) \in Speed \cup {NAN}
         /\ Plus(v, q, MaxSpeed) = NAN => v = NAN \/ q = NAN
<1>1. CASE v = NAN \/ q = NAN
  BY <1>1, NoSum
<1>2. CASE v \in Speed /\ q # NAN
  <2>1. MaxSpeed \in 1 .. 198 /\ v \in Int /\ v # NAN
    BY <1>2, Bounds
  <2>2. Plus(v, q, MaxSpeed) \in Speed
    BY <1>2, <2>1, Sums DEF Speed
  <2> QED
    BY <2>2, Bounds
<1> QED
  BY <1>1, <1>2

(* What a force or an impulse over a mass is.                              *)
LEMMA Shares ==
  ASSUME NEW m \in {0, 1, 2, INF}, NEW j \in Speed
  PROVE  LET o == IF m = INF THEN 0 ELSE IF m = 0 THEN NAN ELSE j \div m
         IN  o \in Speed \cup {NAN} /\ o \in Int /\ (o = NAN => m = 0)
<1> DEFINE o == IF m = INF THEN 0 ELSE IF m = 0 THEN NAN ELSE j \div m
<1>1. o \in Speed \cup {NAN} /\ (o = NAN => m = 0)
  <2>1. CASE m = INF
    BY <2>1, Bounds
  <2>2. CASE m = 0
    BY <2>2, Bounds DEF INF
  <2>3. CASE m \in {1, 2}
    <3>1. j \div m \in Speed
      <4>1. j \div 1 = j
        BY Bounds
      <4>2. j \div 2 \in Speed
        BY Bounds DEF Speed
      <4> QED
        BY <2>3, <4>1, <4>2
    <3> QED
      BY <2>3, <3>1, Bounds DEF INF
  <2> QED
    BY <2>1, <2>2, <2>3
<1>2. NAN \in Int
  BY DEF NAN
<1> QED
  BY <1>1, <1>2, Bounds

(* Gravity and a force together.                                           *)
LEMMA Falling ==
  ASSUME NEW o \in Speed \cup {NAN}, NEW g \in {0, 1}
  PROVE  LET q == Plus(-g, o, 2 * MaxSpeed) IN q \in Int /\ (q = NAN => o = NAN)
<1> DEFINE q == Plus(-g, o, 2 * MaxSpeed)
<1>1. CASE o = NAN
  BY <1>1, NoSum DEF NAN
<1>2. CASE o \in Speed
  <2>1. -g \in Int /\ -g # NAN /\ o \in Int /\ o # NAN /\ 2 * MaxSpeed \in 1 .. 198
    BY <1>2, Bounds DEF NAN
  <2>2. -g + o \in -(2 * MaxSpeed) .. 2 * MaxSpeed
    BY <1>2, <2>1, Bounds DEF Speed
  <2>3. q = -g + o
    BY <2>1, <2>2, Sums
  <2>4. -g + o # NAN
    BY <1>2, <2>1, Bounds DEF Speed, NAN
  <2> QED
    BY <2>1, <2>3, <2>4
<1> QED
  BY <1>1, <1>2

LEMMA MotionStart == MotionInit => MotionInv
  BY Bounds DEF MotionInit, MotionInv, MotionTyped, FieldsTell, StaticHashed, FiniteToo

LEMMA MotionKept == MotionInv /\ [MotionNext]_motionVars => MotionInv'
<1> SUFFICES ASSUME MotionTyped, FieldsTell, StaticHashed, FiniteToo, [MotionNext]_motionVars
             PROVE  MotionTyped' /\ FieldsTell' /\ StaticHashed' /\ FiniteToo'
  BY DEF MotionInv
<1>1. ASSUME NEW st \in {"moving", "static"}, NEW v \in Speed, NEW m \in {1, 2}, NEW e \in {0, 1},
             MakeBody(st, v, m, e)
      PROVE  MotionTyped' /\ FieldsTell' /\ StaticHashed' /\ FiniteToo'
  BY <1>1, Bounds DEF MakeBody, MotionTyped, FieldsTell, StaticHashed, FiniteToo, AllOf
<1>2. CASE DropBody
  BY <1>2, Bounds DEF DropBody, MotionTyped, FieldsTell, StaticHashed, FiniteToo, fields, body, told
<1>3. ASSUME NEW x \in Place, Placed(x), UNCHANGED <<made, vel, mass, elas, fall, todo>>,
             when' \in {"lua", "steps", "touch", "entities"}
      PROVE  MotionTyped' /\ FieldsTell' /\ StaticHashed' /\ FiniteToo'
  BY <1>3, Bounds DEF Placed, RehashedAt, MotionTyped, FieldsTell, StaticHashed, FiniteToo, body, told
<1>4. ASSUME NEW x \in Place, SetOrigin(x)
      PROVE  MotionTyped' /\ FieldsTell' /\ StaticHashed' /\ FiniteToo'
  <2>1. when' \in {"lua", "steps", "touch", "entities"}
    BY <1>4 DEF SetOrigin, MotionTyped
  <2> QED
    BY <1>3, <1>4, <2>1 DEF SetOrigin
<1>5. ASSUME NEW x \in Speed, SetVelocity(x)
      PROVE  MotionTyped' /\ FieldsTell' /\ StaticHashed' /\ FiniteToo'
  BY <1>5, Bounds DEF SetVelocity, Common, MotionTyped, FieldsTell, StaticHashed, FiniteToo
<1>6. ASSUME NEW x \in {1, 2}, SetMass(x)
      PROVE  MotionTyped' /\ FieldsTell' /\ StaticHashed' /\ FiniteToo'
  BY <1>6, Bounds DEF SetMass, Common, MotionTyped, FieldsTell, StaticHashed, FiniteToo, AllOf
<1>7. ASSUME NEW x \in {0, 1}, SetElasticity(x)
      PROVE  MotionTyped' /\ FieldsTell' /\ StaticHashed' /\ FiniteToo'
  BY <1>7, Bounds DEF SetElasticity, MotionTyped, FieldsTell, StaticHashed, FiniteToo
<1>8. ASSUME NEW j \in Speed, Impulse(j)
      PROVE  MotionTyped' /\ FieldsTell' /\ StaticHashed' /\ FiniteToo'
  <2>1. Over(j) \in Int /\ (Over(j) = NAN => bm = 0)
    BY Shares DEF Over, MotionTyped
  <2>2. bv' = Plus(bv, Over(j), MaxSpeed)
    BY <1>8 DEF Impulse, Faster
  <2>3. bv' \in Speed \cup {NAN} /\ (bv' = NAN => bv = NAN \/ bm = 0)
    BY <2>1, <2>2, Speeds DEF MotionTyped
  <2>4. (light => light') /\ (bm = 0 => light')
    BY <1>8, Zenon DEF Impulse
  <2>5. unsaid' = unsaid \cup {"velocity"} /\ UNCHANGED <<made, fields, bp, bm, se, hashed, fall, when, todo, drifted>>
    BY <1>8 DEF Impulse
  <2>6. MotionTyped'
    BY <2>3, <2>5 DEF MotionTyped, AllOf, fields
  <2>7. FieldsTell' /\ StaticHashed'
    BY <2>5 DEF FieldsTell, StaticHashed, fields
  <2>8. FiniteToo'
    BY <2>3, <2>4, <2>5 DEF FiniteToo, fields
  <2> QED
    BY <2>6, <2>7, <2>8
<1>9. ASSUME NEW s \in BOOLEAN, FrameStarts(s)
      PROVE  MotionTyped' /\ FieldsTell' /\ StaticHashed' /\ FiniteToo'
  <2>1. when' \in {"steps", "entities"} /\ todo' \in {0, MaxSteps} /\ UNCHANGED <<made, fields, body, fall, told>>
    BY <1>9 DEF FrameStarts
  <2> QED
    BY <2>1, Bounds DEF MotionTyped, FieldsTell, StaticHashed, FiniteToo, fields, body, told
<1>10. CASE StepMoves
  <2>1. todo' \in 0 .. MaxSteps /\ when' = "touch" /\ UNCHANGED <<made, fields, fall>>
    BY <1>10, Bounds DEF StepMoves, MotionTyped
  <2>2. CASE made = "none"
    BY <1>10, <2>1, <2>2 DEF StepMoves, MotionTyped, FieldsTell, StaticHashed, FiniteToo, fields, body, told
  <2>3. CASE made # "none"
    <3>1. bp' = Plus(bp, bv, MaxPlace) /\ bp' \in Place \cup {NAN} /\ (bp' = NAN => bp = NAN \/ bv = NAN)
          /\ (bv = 0 => bp' = bp)
      BY <1>10, <2>3, Moves DEF StepMoves, MotionTyped
    <3>2. /\ hashed' = (IF made = "moving" THEN bp' ELSE hashed)
          /\ unsaid' = unsaid \cup {"origin"} /\ UNCHANGED <<bv, bm, se, light>>
      BY <1>10, <2>3 DEF StepMoves
    <3>3. made = "static" /\ (drifted \/ bv # 0) => drifted'
      BY <1>10, <2>3, Zenon DEF StepMoves
    <3>4. MotionTyped'
      BY <2>1, <3>1, <3>2 DEF MotionTyped, AllOf, fields
    <3>5. FieldsTell'
      BY <2>1, <3>2 DEF FieldsTell, fields
    <3>6. StaticHashed'
      BY <2>1, <3>1, <3>2, <3>3 DEF StaticHashed, fields
    <3>7. FiniteToo'
      BY <2>1, <2>3, <3>1, <3>2 DEF FiniteToo, fields
    <3> QED
      BY <3>4, <3>5, <3>6, <3>7
  <2> QED
    BY <2>2, <2>3
<1>11. ASSUME NEW j \in Speed, StepSpeeds(j)
       PROVE  MotionTyped' /\ FieldsTell' /\ StaticHashed' /\ FiniteToo'
  <2>1. when' = "steps" /\ UNCHANGED <<made, fields, fall, todo>>
    BY <1>11 DEF StepSpeeds
  <2>2. CASE made = "none"
    BY <1>11, <2>1, <2>2 DEF StepSpeeds, MotionTyped, FieldsTell, StaticHashed, FiniteToo, fields, body, told
  <2>3. CASE made # "none"
    <3> DEFINE q == Plus(-fall, Over(j), 2 * MaxSpeed)
    <3>1. Over(j) \in Speed \cup {NAN} /\ (Over(j) = NAN => bm = 0)
      BY Shares DEF Over, MotionTyped
    <3>2. q \in Int /\ (q = NAN => bm = 0)
      BY <3>1, Falling DEF MotionTyped
    <3>3. bv' = Plus(bv, q, MaxSpeed)
      BY <1>11, <2>3 DEF StepSpeeds, Faster
    <3> HIDE DEF q
    <3>4. bv' \in Speed \cup {NAN} /\ (bv' = NAN => bv = NAN \/ bm = 0)
      BY <3>2, <3>3, Speeds DEF MotionTyped
    <3>5. unsaid' = unsaid \cup {"velocity"} /\ UNCHANGED <<bp, bm, se, hashed, drifted>>
      BY <1>11, <2>3 DEF StepSpeeds
    <3>6. (light => light') /\ (bm = 0 => light')
      BY <1>11, <2>3, Zenon DEF StepSpeeds
    <3>7. MotionTyped'
      BY <2>1, <3>4, <3>5 DEF MotionTyped, AllOf, fields
    <3>8. FieldsTell' /\ StaticHashed'
      BY <2>1, <3>5 DEF FieldsTell, StaticHashed, fields
    <3>9. FiniteToo'
      BY <2>1, <2>3, <3>4, <3>5, <3>6 DEF FiniteToo, fields
    <3> QED
      BY <3>7, <3>8, <3>9
  <2> QED
    BY <2>2, <2>3
<1>12. CASE UpdateEnt
  BY <1>12 DEF UpdateEnt, BodyVelocity, MotionTyped, FieldsTell, StaticHashed, FiniteToo, fields, body, told
<1>13. ASSUME NEW x \in Place, EntityFrame(x)
       PROVE  MotionTyped' /\ FieldsTell' /\ StaticHashed' /\ FiniteToo'
  <2>1. when' = "lua" /\ UNCHANGED <<made, vel, mass, elas, fall, todo>>
    BY <1>13 DEF EntityFrame
  <2>2. CASE Placed(x)
    BY <1>3, <2>1, <2>2
  <2>3. CASE UNCHANGED <<org, body, told>>
    BY <2>1, <2>3 DEF MotionTyped, FieldsTell, StaticHashed, FiniteToo, body, told
  <2> QED
    BY <1>13, <2>2, <2>3 DEF EntityFrame
<1>14. CASE UNCHANGED motionVars
  BY <1>14 DEF motionVars, MotionTyped, FieldsTell, StaticHashed, FiniteToo, fields, body, told
<1> QED
  BY <1>1, <1>2, <1>4, <1>5, <1>6, <1>7, <1>8, <1>9, <1>10, <1>11, <1>12, <1>13, <1>14 DEF MotionNext

(* Game code reads in a field what the body has, a static shape is found   *)
(* where its body is, and a body keeps a place and a speed.                *)
THEOREM BodyStaysAsSet == MotionSpec => []BodyAsSet
<1>1. MotionInv => BodyAsSet
  BY DEF MotionInv, BodyAsSet, MotionTyped, MotionType, FiniteToo, Finite
<1> QED
  BY <1>1, MotionStart, MotionKept, PTL DEF MotionSpec

-----------------------------------------------------------------------------
(* The shapes of a table (Shapes).                                         *)

ShapesType ==
  /\ given \in Seq(Kind) /\ entry \in 1 .. (Len(given) + 1)
  /\ doing \in Kind \cup {"lua", "loop"} \cup Halted
  /\ pushed \in Seq({"entry", "vertices"})
  /\ copies \in {{}, {"data"}, {"data", "vertices"}}
  /\ mades \in Seq(Nat) /\ refused \subseteq 1 .. (entry - 1) /\ has \in BOOLEAN

(* In a round the code is where the entry sends it, and only a polygon     *)
(* copies.                                                                 *)
InRound == doing \in Kind => entry <= Len(given) /\ doing = given[entry]
Copying == copies # {} => doing \in {"polygon", "aborted"}

(* What has become of the entries before this one, in the rounds too.      *)
MadesRight ==
  /\ Range(mades) = Before(Known) \ refused
  /\ \A k, l \in DOMAIN mades: k < l => mades[k] < mades[l]
BadRight == bad \subseteq Polygons(given) /\ bad \cap 1 .. (entry - 1) \subseteq refused

(* What stands in the frame, and what may still be pushed.                 *)
Spare == CASE doing \in {"lua", "loop"} \cup Halted -> 0
           [] doing \in Kind                        -> IF copies = {} THEN 2 ELSE 1
Standing ==
  CASE doing \in {"lua", "crashed"}  -> 0
    [] doing \in {"loop", "overrun"} -> Cardinality(Before({"polygon"}))
    [] doing = "aborted"             -> Cardinality(Before({"polygon"})) + 2
    [] doing \in Kind                -> Cardinality(Before({"polygon"})) + 3 - Spare
PushedRight == Len(pushed) = Standing /\ Len(pushed) + Spare <= Room
Ended ==
  /\ doing = "lua" => has = (mades # <<>>)
  /\ doing = "overrun" => ~Fits
  /\ doing = "aborted" => entry \in bad
  /\ doing = "crashed" => mades = <<>> /\ ~has

ShapesInv == ShapesType /\ InRound /\ Copying /\ MadesRight /\ BadRight /\ PushedRight /\ Ended

LEMMA Kinds ==
  /\ Kind = {"polygon", "circle", "segment", "unknown", "no table"}
  /\ Halted = {"overrun", "aborted", "crashed"}
  BY DEF Kind, Known, Halted

(* The entries before the next one are those before this one, and this one.*)
LEMMA NextEntry ==
  ASSUME ShapesType, entry' = entry + 1, given' = given, entry <= Len(given), NEW K
  PROVE  /\ Before(K)' = IF given[entry] \in K THEN Before(K) \cup {entry} ELSE Before(K)
         /\ IsFiniteSet(Before(K)) /\ entry \notin Before(K)
         /\ Cardinality(Before(K)) \in Nat
         /\ Cardinality(Before(K))' = Cardinality(Before(K)) + IF given[entry] \in K THEN 1 ELSE 0
<1>1. Before(K)' = IF given[entry] \in K THEN Before(K) \cup {entry} ELSE Before(K)
  BY DEF Before, ShapesType
<1>2. IsFiniteSet(1 .. (entry - 1)) /\ Before(K) \in SUBSET (1 .. (entry - 1))
  <2>1. 1 \in Int /\ entry - 1 \in Int
    BY DEF ShapesType
  <2>2. IsFiniteSet(1 .. (entry - 1))
    BY <2>1, FS_Interval
  <2> QED
    BY <2>2 DEF Before
<1>3. IsFiniteSet(Before(K)) /\ entry \notin Before(K)
  <2>1. IsFiniteSet(Before(K))
    BY <1>2, FS_Subset
  <2> QED
    BY <1>2, <2>1 DEF ShapesType
<1>4. Cardinality(Before(K)) \in Nat /\ Cardinality(Before(K) \cup {entry}) = Cardinality(Before(K)) + 1
  BY <1>3, FS_AddElement, FS_CardinalityType
<1> QED
  BY <1>1, <1>3, <1>4

(* A shape more.                                                           *)
LEMMA AnotherShape ==
  ASSUME ShapesType, MadesRight, mades' = Append(mades, entry)
  PROVE  /\ mades' \in Seq(Nat) /\ Range(mades)' = Range(mades) \cup {entry}
         /\ \A k, l \in DOMAIN mades': k < l => mades'[k] < mades'[l]
<1>1. /\ mades \in Seq(Nat) /\ entry \in Nat
      /\ \A k \in DOMAIN mades: mades[k] < entry
  <2>1. \A k \in DOMAIN mades: mades[k] \in Range(mades)
    BY DEF Range
  <2> QED
    BY <2>1 DEF ShapesType, MadesRight, Before
<1>2. /\ mades' \in Seq(Nat) /\ Len(mades') = Len(mades) + 1
      /\ \A k \in 1 .. Len(mades): mades'[k] = mades[k]
      /\ mades'[Len(mades) + 1] = entry
  BY <1>1, AppendProperties, ZenonT(60)
<1>3. Len(mades) \in Nat /\ DOMAIN mades = 1 .. Len(mades) /\ DOMAIN mades' = 1 .. (Len(mades) + 1)
  BY <1>1, <1>2
<1>4. Range(mades') = Range(mades) \cup {entry}
  BY <1>2, <1>3 DEF Range
<1>5. \A k, l \in DOMAIN mades: k < l => mades[k] < mades[l]
  BY DEF MadesRight
<1>6. ASSUME NEW k \in DOMAIN mades', NEW l \in DOMAIN mades', k < l PROVE mades'[k] < mades'[l]
  BY <1>1, <1>2, <1>3, <1>5, <1>6
<1> QED
  BY <1>2, <1>4, <1>6

LEMMA PopsOne ==
  ASSUME ShapesType, Len(pushed) >= 1
  PROVE  Popped \in Seq({"entry", "vertices"}) /\ Len(Popped) = Len(pushed) - 1
<1> DEFINE n == Len(pushed) - 1
<1>1. pushed \in Seq({"entry", "vertices"}) /\ n \in 0 .. Len(pushed)
  BY DEF ShapesType
<1> HIDE DEF n
<1>2. SubSeq(pushed, 1, n) \in Seq({"entry", "vertices"}) /\ Len(SubSeq(pushed, 1, n)) = n
  BY <1>1, SubSeqProperties
<1> QED
  BY <1>2 DEF Popped, n

LEMMA PushesOne ==
  ASSUME ShapesType, NEW v \in {"entry", "vertices"}
  PROVE  Append(pushed, v) \in Seq({"entry", "vertices"}) /\ Len(Append(pushed, v)) = Len(pushed) + 1
  BY AppendProperties DEF ShapesType

LEMMA ShapesStart == ShapesInit => ShapesInv
<1> SUFFICES ASSUME ShapesInit PROVE ShapesInv
  OBVIOUS
<1>1. ShapesType
  <2>1. has = FALSE /\ given \in Seq(Kind) /\ Len(given) = 0 /\ pushed \in Seq({"entry", "vertices"}) /\ mades \in Seq(Nat)
    BY DEF ShapesInit
  <2>2. entry = 1 /\ doing = "lua" /\ copies = {} /\ refused = {}
    BY DEF ShapesInit
  <2>3. entry \in 1 .. (Len(given) + 1) /\ refused \subseteq 1 .. (entry - 1) /\ has \in BOOLEAN
    <3>1. has \in BOOLEAN
      BY <2>1, Zenon
    <3>2. Len(given) = 0
      BY <2>1
    <3> QED
      BY <2>2, <3>1, <3>2
  <2>4. doing \in Kind \cup {"lua", "loop"} \cup Halted /\ copies \in {{}, {"data"}, {"data", "vertices"}}
    BY <2>2
  <2> QED
    BY <2>1, <2>3, <2>4, Zenon DEF ShapesType
<1>2. InRound /\ Copying /\ Ended
  <2>1. doing = "lua" /\ copies = {} /\ has = FALSE /\ mades = <<>>
    BY DEF ShapesInit
  <2> QED
    BY <2>1, Kinds DEF InRound, Copying, Ended
<1>3. MadesRight /\ BadRight
  BY DEF ShapesInit, MadesRight, BadRight, Before, Range
<1>4. PushedRight
  <2>1. doing = "lua" /\ Len(pushed) = 0
    BY DEF ShapesInit
  <2> QED
    <3>1. Standing = 0 /\ Spare = 0
      BY <2>1, Kinds DEF Standing, Spare
    <3> QED
      BY <2>1, <3>1, ShapesAssumption DEF PushedRight
<1> QED
  BY <1>1, <1>2, <1>3, <1>4 DEF ShapesInv

(* What a round that ends needs to have done.                              *)
LEMMA RoundEnds ==
  ASSUME ShapesInv, doing \in Kind, EndRound, UNCHANGED <<given, bad, has>>, copies' = {},
         pushed' \in Seq({"entry", "vertices"}),
         Len(pushed') = Cardinality(Before({"polygon"})) + (IF given[entry] = "polygon" THEN 1 ELSE 0),
         mades' \in Seq(Nat), \A k, l \in DOMAIN mades': k < l => mades'[k] < mades'[l],
         refused \subseteq refused', refused' \subseteq refused \cup {entry}, entry \in bad => entry \in refused',
         Range(mades') = (Before(Known) \cup (IF given[entry] \in Known THEN {entry} ELSE {})) \ refused'
  PROVE  ShapesInv'
<1>1. entry <= Len(given) /\ entry' = entry + 1 /\ doing' = "loop" /\ given' = given
  BY DEF ShapesInv, InRound, EndRound
<1>2. ShapesType'
  BY <1>1 DEF ShapesInv, ShapesType
<1>3. InRound' /\ Copying' /\ Ended'
  BY <1>1, Kinds DEF InRound, Copying, Ended
<1>4. /\ Before(Known)' = IF given[entry] \in Known THEN Before(Known) \cup {entry} ELSE Before(Known)
      /\ Cardinality(Before({"polygon"})) \in Nat
      /\ Cardinality(Before({"polygon"}))' =
           Cardinality(Before({"polygon"})) + IF given[entry] \in {"polygon"} THEN 1 ELSE 0
  BY <1>1, NextEntry DEF ShapesInv
<1>5. MadesRight' /\ BadRight'
  BY <1>1, <1>4 DEF MadesRight, BadRight, ShapesInv, ShapesType
<1>6. Standing' = Cardinality(Before({"polygon"}))' /\ Spare' = 0
  BY <1>1, Kinds DEF Standing, Spare
<1>7. /\ Cardinality(Before({"polygon"})) + 3 <= Room
  <2>1. Standing = Cardinality(Before({"polygon"})) + 3 - Spare /\ Spare \in {1, 2}
    BY Kinds DEF Standing, Spare
  <2> QED
    BY <1>4, <2>1, ShapesAssumption DEF ShapesInv, PushedRight, ShapesType
<1>8. PushedRight'
  BY <1>4, <1>6, <1>7, ShapesAssumption DEF PushedRight
<1> QED
  BY <1>2, <1>3, <1>5, <1>8 DEF ShapesInv

(* In a round the entry stands above what the polygons before it have left.*)
LEMMA RoundStands ==
  ASSUME ShapesInv, doing \in Kind
  PROVE  /\ Cardinality(Before({"polygon"})) \in Nat /\ entry <= Len(given) /\ doing = given[entry]
         /\ Len(pushed) = Cardinality(Before({"polygon"})) + (IF copies = {} THEN 1 ELSE 2)
         /\ Len(pushed) + (IF copies = {} THEN 2 ELSE 1) <= Room
         /\ entry \notin Before(Known)
<1>1. entry <= Len(given) /\ doing = given[entry]
  BY DEF ShapesInv, InRound
<1>2. Spare = IF copies = {} THEN 2 ELSE 1
  BY Kinds DEF Spare
<1>3. Standing = Cardinality(Before({"polygon"})) + 3 - Spare
  BY Kinds DEF Standing
<1>4. Cardinality(Before({"polygon"})) \in Nat
  <2>1. 1 \in Int /\ entry - 1 \in Int
    BY DEF ShapesInv, ShapesType
  <2>2. IsFiniteSet(1 .. (entry - 1))
    BY <2>1, FS_Interval
  <2>3. Before({"polygon"}) \in SUBSET (1 .. (entry - 1))
    BY DEF Before
  <2> QED
    BY <2>2, <2>3, FS_Subset, FS_CardinalityType
<1>5. entry \notin Before(Known)
  BY DEF Before, ShapesInv, ShapesType
<1> QED
  BY <1>1, <1>2, <1>3, <1>4, <1>5 DEF ShapesInv, PushedRight

LEMMA AssignTableKeeps ==
  ASSUME ShapesInv, NEW t \in Tables, NEW b \in SUBSET Polygons(t), NEW had \in BOOLEAN, AssignTable(t, b, had)
  PROVE  ShapesInv'
<1>1. t \in Seq(Kind) /\ Len(t) \in Nat
  BY ShapesAssumption DEF Tables
<1>2. /\ doing = "lua" /\ given' = t /\ entry' = 1 /\ mades' = <<>> /\ refused' = {}
      /\ UNCHANGED <<pushed, copies>> /\ has' = (t # <<>> /\ had) /\ bad' = b
      /\ doing' = IF t = <<>> THEN "lua" ELSE IF had THEN "loop" ELSE "crashed"
  BY Zenon DEF AssignTable
<1>3. has' \in BOOLEAN
  BY <1>2, Zenon
<1>4. copies = {} /\ Len(pushed) = 0 /\ pushed \in Seq({"entry", "vertices"})
  BY <1>2, Kinds DEF ShapesInv, ShapesType, Copying, PushedRight, Standing
<1>5. ShapesType'
  <2>1. doing' \in {"lua", "loop", "crashed"}
    BY <1>2, Zenon
  <2>2. given' \in Seq(Kind) /\ entry' \in 1 .. (Len(given') + 1) /\ doing' \in Kind \cup {"lua", "loop"} \cup Halted
    <3>1. given' = t /\ entry' = 1
      BY <1>2, Zenon
    <3>2. given' \in Seq(Kind)
      BY <1>1, <3>1, Zenon
    <3>3. 1 \in 1 .. (Len(t) + 1)
      BY <1>1
    <3>4. doing' \in Kind \cup {"lua", "loop"} \cup Halted
      BY <2>1, Kinds
    <3> QED
      BY <3>1, <3>2, <3>3, <3>4, Zenon
  <2>3. /\ pushed' \in Seq({"entry", "vertices"}) /\ copies' \in {{}, {"data"}, {"data", "vertices"}}
        /\ mades' \in Seq(Nat) /\ refused' \subseteq 1 .. (entry' - 1)
    BY <1>2, <1>4
  <2> QED
    BY <1>3, <2>2, <2>3, Zenon DEF ShapesType
<1>b. BadRight'
  BY <1>2 DEF BadRight
<1>6. InRound' /\ Copying' /\ MadesRight'
  <2>1. InRound' /\ Copying'
    BY <1>2, <1>4, Kinds DEF InRound, Copying
  <2>2. Before(Known)' = {} /\ DOMAIN mades' = {}
    BY <1>2 DEF Before
  <2>3. MadesRight'
    BY <2>2 DEF MadesRight, Range
  <2> QED
    BY <2>1, <2>3
<1>7. PushedRight'
  <2>1. Before({"polygon"})' = {}
    BY <1>2 DEF Before
  <2>2. Cardinality(Before({"polygon"})') = 0
    BY <2>1, FS_EmptySet
  <2>3. doing' \in {"lua", "loop", "crashed"}
    BY <1>2
  <2>4. Standing' = 0 /\ Spare' = 0
    BY <2>2, <2>3, Kinds DEF Standing, Spare
  <2> QED
    BY <1>2, <1>4, <2>4, ShapesAssumption DEF PushedRight
<1>8. Ended'
  <2>1. doing' \notin {"overrun", "aborted"}
    BY <1>2
  <2>2. doing' \in {"lua", "crashed"} => mades' = <<>> /\ has' = FALSE
    BY <1>2
  <2> QED
    BY <2>1, <2>2 DEF Ended
<1> QED
  BY <1>5, <1>6, <1>7, <1>8, <1>b DEF ShapesInv

LEMMA FetchKeeps == ShapesInv /\ (FetchEntry \/ Overrun) => ShapesInv'
<1> SUFFICES ASSUME ShapesInv, FetchEntry \/ Overrun PROVE ShapesInv'
  OBVIOUS
<1>1. /\ doing = "loop" /\ entry <= Len(given) /\ UNCHANGED <<given, bad, entry, copies, mades, refused, has>>
  BY DEF FetchEntry, Overrun
<1>2. copies = {}
  BY <1>1 DEF ShapesInv, Copying
<1>3. /\ Len(pushed) = Cardinality(Before({"polygon"})) /\ Len(pushed) \in Nat /\ Len(pushed) <= Room
  <2>1. Standing = Cardinality(Before({"polygon"})) /\ Spare = 0
    BY <1>1, Kinds DEF Standing, Spare
  <2> QED
    BY <2>1, ShapesAssumption DEF ShapesInv, PushedRight, ShapesType
<1>4. MadesRight' /\ BadRight'
  BY <1>1 DEF ShapesInv, MadesRight, BadRight, Before
<1>5. Before({"polygon"})' = Before({"polygon"})
  BY <1>1 DEF Before
<1>6. CASE FetchEntry
  <2>1. pushed' = Append(pushed, "entry") /\ doing' = given[entry] /\ Len(pushed) + 3 <= Room /\ doing' \in Kind
    BY <1>6 DEF FetchEntry, Fits, ShapesInv, ShapesType
  <2>2. pushed' \in Seq({"entry", "vertices"}) /\ Len(pushed') = Len(pushed) + 1
    BY <2>1, PushesOne DEF ShapesInv
  <2>3. ShapesType'
    BY <1>1, <2>1, <2>2 DEF ShapesInv, ShapesType
  <2>4. InRound' /\ Copying' /\ Ended'
    BY <1>1, <1>2, <2>1, Kinds DEF InRound, Copying, Ended
  <2>5. Spare' = 2 /\ Standing' = Cardinality(Before({"polygon"})) + 1
    <3>1. Spare' = 2
      BY <1>1, <1>2, <2>1, Kinds DEF Spare
    <3>2. Standing' = Cardinality(Before({"polygon"})') + 3 - Spare'
      BY <2>1, Kinds DEF Standing
    <3> QED
      BY <1>3, <1>5, <3>1, <3>2
  <2>6. PushedRight'
    BY <1>3, <2>1, <2>2, <2>5, ShapesAssumption DEF PushedRight
  <2> QED
    BY <1>4, <2>3, <2>4, <2>6 DEF ShapesInv
<1>7. CASE Overrun
  <2>1. doing' = "overrun" /\ pushed' = pushed /\ ~Fits
    BY <1>7 DEF Overrun
  <2>2. ShapesType'
    BY <1>1, <2>1, Kinds DEF ShapesInv, ShapesType
  <2>3. InRound' /\ Copying' /\ Ended'
    BY <1>1, <1>2, <2>1, Kinds DEF InRound, Copying, Ended, Fits
  <2>4. Spare' = 0 /\ Standing' = Cardinality(Before({"polygon"})')
    BY <2>1, Kinds DEF Spare, Standing
  <2>5. PushedRight'
    BY <1>3, <1>5, <2>1, <2>4, ShapesAssumption DEF PushedRight
  <2> QED
    BY <1>4, <2>2, <2>3, <2>5 DEF ShapesInv
<1> QED
  BY <1>6, <1>7

LEMMA CopyKeeps == ShapesInv /\ (CopyData \/ CopyVertices) => ShapesInv'
<1> SUFFICES ASSUME ShapesInv, CopyData \/ CopyVertices PROVE ShapesInv'
  OBVIOUS
<1>1. /\ doing = "polygon" /\ UNCHANGED <<given, bad, entry, doing, mades, refused, has>>
      /\ copies' \in {{"data"}, {"data", "vertices"}}
  BY DEF CopyData, CopyVertices
<1>2. /\ Cardinality(Before({"polygon"})) \in Nat
      /\ Len(pushed) = Cardinality(Before({"polygon"})) + (IF copies = {} THEN 1 ELSE 2)
      /\ Len(pushed) + (IF copies = {} THEN 2 ELSE 1) <= Room
  BY <1>1, Kinds, RoundStands
<1>3. pushed' \in Seq({"entry", "vertices"}) /\ Len(pushed') = Cardinality(Before({"polygon"})) + 2
  <2>1. CASE CopyData
    BY <1>2, <2>1, PushesOne DEF CopyData, ShapesInv
  <2>2. CASE CopyVertices
    BY <1>2, <2>2 DEF CopyVertices, ShapesInv, ShapesType
  <2> QED
    BY <2>1, <2>2
<1>4. ShapesType'
  BY <1>1, <1>3 DEF ShapesInv, ShapesType
<1>5. InRound' /\ Copying' /\ MadesRight' /\ BadRight' /\ Ended'
  BY <1>1, Kinds DEF ShapesInv, InRound, Copying, MadesRight, BadRight, Before, Ended
<1>6. Before({"polygon"})' = Before({"polygon"})
  BY <1>1 DEF Before
<1>7. Spare' = 1
  BY <1>1, Kinds DEF Spare
<1>8. Standing' = Cardinality(Before({"polygon"})') + 3 - Spare'
  BY <1>1, Kinds DEF Standing
<1>9. PushedRight'
  <2>1. Cardinality(Before({"polygon"})) + 3 <= Room
    BY <1>2, ShapesAssumption
  <2> QED
    BY <1>2, <1>3, <1>6, <1>7, <1>8, <2>1, ShapesAssumption DEF PushedRight
<1> QED
  BY <1>4, <1>5, <1>9 DEF ShapesInv

LEMMA InvalidKeeps == ShapesInv /\ Invalid => ShapesInv'
<1> SUFFICES ASSUME ShapesInv, Invalid PROVE ShapesInv'
  OBVIOUS
<1>1. /\ doing = "polygon" /\ entry \in bad /\ copies = {"data", "vertices"} /\ doing' = "aborted"
      /\ UNCHANGED <<given, bad, entry, pushed, copies, mades, refused, has>>
  BY DEF Invalid
<1>2. /\ Cardinality(Before({"polygon"})) \in Nat
      /\ Len(pushed) = Cardinality(Before({"polygon"})) + 2
      /\ Len(pushed) + 1 <= Room
  BY <1>1, Kinds, RoundStands
<1>3. ShapesType'
  BY <1>1, Kinds DEF ShapesInv, ShapesType
<1>4. InRound' /\ Copying' /\ MadesRight' /\ BadRight' /\ Ended'
  BY <1>1, Kinds DEF ShapesInv, InRound, Copying, MadesRight, BadRight, Before, Ended
<1>5. PushedRight'
  <2>1. Spare' = 0 /\ Standing' = Cardinality(Before({"polygon"})') + 2
    BY <1>1, Kinds DEF Spare, Standing
  <2>2. Before({"polygon"})' = Before({"polygon"})
    BY <1>1 DEF Before
  <2> QED
    BY <1>1, <1>2, <2>1, <2>2, ShapesAssumption DEF PushedRight
<1> QED
  BY <1>3, <1>4, <1>5 DEF ShapesInv

LEMMA RoundsKeep ==
  ASSUME ShapesInv, SkipEntry \/ MakeRound \/ MakePolygon \/ NoCopy
  PROVE  ShapesInv'
<1>1. doing \in Kind /\ EndRound /\ UNCHANGED <<given, bad, has>>
  BY Kinds DEF SkipEntry, MakeRound, MakePolygon, NoCopy
<1>2. /\ Cardinality(Before({"polygon"})) \in Nat /\ doing = given[entry]
      /\ Len(pushed) = Cardinality(Before({"polygon"})) + (IF copies = {} THEN 1 ELSE 2)
      /\ entry \notin Before(Known)
  BY <1>1, RoundStands
<1>3. Popped \in Seq({"entry", "vertices"}) /\ Len(Popped) = Len(pushed) - 1
  BY <1>2, PopsOne DEF ShapesInv
<1>4. /\ ShapesType /\ MadesRight /\ mades \in Seq(Nat) /\ Range(mades) = Before(Known) \ refused
      /\ \A k, l \in DOMAIN mades: k < l => mades[k] < mades[l]
      /\ entry \notin refused /\ Copying /\ pushed \in Seq({"entry", "vertices"})
      /\ (entry \in bad => given[entry] = "polygon")
  BY DEF ShapesInv, ShapesType, MadesRight, BadRight, Polygons
<1>5. CASE SkipEntry
  <2>1. copies' = {} /\ copies = {} /\ pushed' = Popped /\ mades' = mades /\ refused' = refused
        /\ given[entry] \notin Known /\ given[entry] # "polygon" /\ entry \notin bad
    BY <1>2, <1>4, <1>5 DEF SkipEntry, Copying, Known
  <2>2. Len(pushed') = Cardinality(Before({"polygon"})) + (IF given[entry] = "polygon" THEN 1 ELSE 0)
    BY <1>2, <1>3, <2>1
  <2>3. Range(mades') = (Before(Known) \cup (IF given[entry] \in Known THEN {entry} ELSE {})) \ refused'
    BY <1>4, <2>1
  <2> QED
    BY <1>1, <1>3, <1>4, <2>1, <2>2, <2>3, RoundEnds
<1>6. CASE MakeRound
  <2>1. copies' = {} /\ copies = {} /\ pushed' = Popped /\ mades' = Append(mades, entry) /\ refused' = refused
        /\ given[entry] \in Known /\ given[entry] # "polygon" /\ entry \notin bad
    BY <1>2, <1>4, <1>6 DEF MakeRound, Copying, Known
  <2>2. Len(pushed') = Cardinality(Before({"polygon"})) + (IF given[entry] = "polygon" THEN 1 ELSE 0)
    BY <1>2, <1>3, <2>1
  <2>3. /\ mades' \in Seq(Nat) /\ Range(mades)' = Range(mades) \cup {entry}
        /\ \A k, l \in DOMAIN mades': k < l => mades'[k] < mades'[l]
    BY <1>4, <2>1, AnotherShape
  <2>4. Range(mades') = (Before(Known) \cup (IF given[entry] \in Known THEN {entry} ELSE {})) \ refused'
    BY <1>4, <2>1, <2>3
  <2> QED
    BY <1>1, <1>3, <2>1, <2>2, <2>3, <2>4, RoundEnds
<1>7. CASE MakePolygon
  <2>1. copies' = {} /\ copies # {} /\ pushed' = Popped /\ mades' = Append(mades, entry) /\ refused' = refused
        /\ given[entry] \in Known /\ given[entry] = "polygon" /\ entry \notin bad
    BY <1>2, <1>7 DEF MakePolygon, Known
  <2>2. Len(pushed') = Cardinality(Before({"polygon"})) + (IF given[entry] = "polygon" THEN 1 ELSE 0)
    BY <1>2, <1>3, <2>1
  <2>3. /\ mades' \in Seq(Nat) /\ Range(mades)' = Range(mades) \cup {entry}
        /\ \A k, l \in DOMAIN mades': k < l => mades'[k] < mades'[l]
    BY <1>4, <2>1, AnotherShape
  <2>4. Range(mades') = (Before(Known) \cup (IF given[entry] \in Known THEN {entry} ELSE {})) \ refused'
    BY <1>4, <2>1, <2>3
  <2> QED
    BY <1>1, <1>3, <2>1, <2>2, <2>3, <2>4, RoundEnds
<1>8. CASE NoCopy
  <2>1. /\ copies' = {} /\ pushed' = (IF copies = {} THEN pushed ELSE Popped) /\ mades' = mades
        /\ refused' = refused \cup {entry}
        /\ given[entry] \in Known /\ given[entry] = "polygon"
    BY <1>2, <1>8 DEF NoCopy, Known
  <2>2. /\ Len(pushed') = Cardinality(Before({"polygon"})) + (IF given[entry] = "polygon" THEN 1 ELSE 0)
        /\ pushed' \in Seq({"entry", "vertices"})
    BY <1>2, <1>3, <1>4, <2>1
  <2>3. Range(mades') = (Before(Known) \cup (IF given[entry] \in Known THEN {entry} ELSE {})) \ refused'
    BY <1>2, <1>4, <2>1
  <2> QED
    BY <1>1, <1>4, <2>1, <2>2, <2>3, RoundEnds
<1> QED
  BY <1>5, <1>6, <1>7, <1>8

LEMMA EndTableKeeps == ShapesInv /\ EndTable => ShapesInv'
<1> SUFFICES ASSUME ShapesInv, EndTable PROVE ShapesInv'
  OBVIOUS
<1>1. /\ doing = "loop" /\ has' = (mades # <<>>) /\ doing' = "lua" /\ pushed' = <<>>
      /\ UNCHANGED <<given, bad, entry, copies, mades, refused>>
  BY DEF EndTable
<1>2. has' \in BOOLEAN
  BY <1>1, Zenon
<1>3. ShapesType'
  BY <1>1, <1>2 DEF ShapesInv, ShapesType
<1>4. InRound' /\ Copying' /\ MadesRight' /\ BadRight'
  BY <1>1, Kinds DEF ShapesInv, InRound, Copying, MadesRight, BadRight, Before
<1>5. PushedRight'
  <2>1. Len(pushed') = 0 /\ Standing' = 0 /\ Spare' = 0
    BY <1>1, Kinds DEF Standing, Spare
  <2> QED
    BY <2>1, ShapesAssumption DEF PushedRight
<1>6. Ended'
  BY <1>1, Zenon DEF Ended
<1> QED
  BY <1>3, <1>4, <1>5, <1>6 DEF ShapesInv

LEMMA ShapesKeep == ShapesInv /\ [ShapesNext]_shapesVars => ShapesInv'
<1> SUFFICES ASSUME ShapesInv, [ShapesNext]_shapesVars PROVE ShapesInv'
  OBVIOUS
<1>1. ASSUME NEW t \in Tables, NEW b \in SUBSET Polygons(t), NEW had \in BOOLEAN, AssignTable(t, b, had)
      PROVE  ShapesInv'
  BY <1>1, AssignTableKeeps
<1>2. CASE FetchEntry \/ Overrun
  BY <1>2, FetchKeeps
<1>3. CASE CopyData \/ CopyVertices
  BY <1>3, CopyKeeps
<1>4. CASE SkipEntry \/ MakeRound \/ MakePolygon \/ NoCopy
  BY <1>4, RoundsKeep
<1>i. CASE Invalid
  BY <1>i, InvalidKeeps
<1>5. CASE EndTable
  BY <1>5, EndTableKeeps
<1>6. CASE UNCHANGED shapesVars
  BY <1>6 DEF shapesVars, ShapesInv, ShapesType, InRound, Copying, MadesRight, BadRight, PushedRight,
              Standing, Spare, Ended, Fits, Before
<1> QED
  BY <1>1, <1>2, <1>3, <1>4, <1>5, <1>6, <1>i DEF ShapesNext

(* The entries of a table become its shapes, in order and once each, none  *)
(* of them a polygon that Chipmunk refuses, and a polygon leaves no copy   *)
(* behind, for a table of any length, a frame of any room and whatever     *)
(* finds no memory.                                                        *)
THEOREM ShapesAlwaysMade == ShapesSpec => []ShapesMade
<1>1. ShapesInv => ShapesMade
  <2> SUFFICES ASSUME ShapesInv PROVE ShapesMade
    OBVIOUS
  <2>1. doing \in {"lua", "loop"} \cup Halted =>
          /\ Range(mades) = Before(Known) \ refused
          /\ \A i, j \in DOMAIN mades: i < j => mades[i] < mades[j]
          /\ bad \cap 1 .. (entry - 1) \subseteq refused
          /\ copies = {} \/ doing = "aborted"
    BY Kinds DEF ShapesInv, Copying, MadesRight, BadRight
  <2>2. doing = "loop" => Len(pushed) = Cardinality(Before({"polygon"}))
    BY Kinds DEF ShapesInv, PushedRight, Standing
  <2>3. /\ doing = "lua" => has = (mades # <<>>)
        /\ doing = "crashed" => mades = <<>> /\ ~has
    BY DEF ShapesInv, Ended
  <2>4. doing = "overrun" => Cardinality(Before({"polygon"})) > Room - 3
    <3> SUFFICES ASSUME doing = "overrun" PROVE Cardinality(Before({"polygon"})) > Room - 3
      OBVIOUS
    <3>1. Standing = Cardinality(Before({"polygon"}))
      BY Kinds DEF Standing
    <3> QED
      BY <3>1, ShapesAssumption DEF ShapesInv, PushedRight, Ended, Fits, ShapesType
  <2>5. doing = "aborted" => entry \in bad \ refused
    BY DEF ShapesInv, Ended, ShapesType
  <2>6. Len(pushed) <= Room
    <3>1. Spare \in {0, 1, 2}
      <4>1. CASE doing \in Kind
        BY <4>1, Kinds DEF Spare
      <4>2. CASE doing \in {"lua", "loop"} \cup Halted
        BY <4>2, Kinds DEF Spare
      <4> QED
        BY <4>1, <4>2 DEF ShapesInv, ShapesType
    <3> QED
      BY <3>1, ShapesAssumption DEF ShapesInv, PushedRight, ShapesType
  <2> QED
    BY <2>1, <2>2, <2>3, <2>4, <2>5, <2>6 DEF ShapesMade
<1> QED
  BY <1>1, ShapesStart, ShapesKeep, PTL DEF ShapesSpec

-----------------------------------------------------------------------------
(* The contacts (Contacts).                                                *)

Arbiter == [age: -1 .. 2, ignored: BOOLEAN, buf: 0 .. MaxBuf, from: 0 .. BufSize, num: 0 .. MaxPer]

ArbTyped == arb \in [Pairs -> Arbiter \cup {NONE}]
BufTyped ==
  /\ bage \in [Buf -> 0 .. 2] /\ bnum \in [Buf -> 0 .. BufSize]
  /\ bwrit \in [Buf -> [1 .. BufSize -> Pairs \cup {NONE}]]
TellTyped ==
  /\ inside \in {"idle", "collide", "begin", "end", "overrun"} /\ new \in Pairs \cup {NONE}
  /\ solve \in [Pairs -> Int]
  /\ metNow \subseteq Pairs /\ twice \subseteq metNow /\ touching \subseteq Pairs
RingRight ==
  /\ ring \in Seq(Buf) /\ ring # <<>>
  /\ \A i \in DOMAIN ring: ring[i] <= Len(ring)

(* The pairs met in the step under way; its newest buffer.                 *)
MetIn == IF inside = "idle" THEN {} ELSE metNow
HeadNew == inside # "idle" => bage[RingHead] = 0

(* The pair that the step is at has the last contacts.                     *)
NewRight ==
  IF inside \in {"begin", "end", "overrun"}
  THEN new \in metNow /\ arb[new].buf = RingHead /\ arb[new].from + arb[new].num = bnum[RingHead]
       /\ (inside = "begin" => new \notin twice)
  ELSE new = NONE

(* Who has an arbiter, how old it is and what it remembers.                *)
Remembered == \A p \in Pairs: arb[p] # NONE <=> p \in touching \cup MetIn
Aged == \A p \in Pairs: arb[p] # NONE /\ p # new => arb[p].age = IF p \in MetIn THEN 0 ELSE 1
Verdicts == \A p \in Pairs: arb[p] # NONE /\ ~(inside \in {"begin", "overrun"} /\ p = new) =>
                              (arb[p].ignored <=> p \notin accepted)

(* Where its contacts are: in a buffer of this step or of the one before,  *)
(* below what will be written next.                                        *)
PlacedIn ==
  \A p \in Pairs: arb[p] # NONE /\ arb[p].buf # 0 =>
    /\ arb[p].buf <= Len(ring) /\ bage[arb[p].buf] = IF p \in MetIn THEN 0 ELSE 1
    /\ arb[p].from + arb[p].num <= bnum[arb[p].buf]
    /\ new \in Pairs /\ p # new /\ arb[p].buf = RingHead => arb[p].from + arb[p].num <= arb[new].from

(* How often a pair has been solved, and who has begun.                    *)
Times(p) == (IF p \in twice THEN 2 ELSE IF p \in metNow THEN 1 ELSE 0) - IF p = new THEN 1 ELSE 0
Solved == inside # "idle" => \A p \in Pairs: solve[p] = IF p \in accepted THEN Times(p) ELSE 0
Begun  == inside # "idle" => begun = metNow \ touching

ContactsInv ==
  /\ ArbTyped /\ BufTyped /\ TellTyped /\ RingRight
  /\ HeadNew /\ NewRight /\ Remembered /\ Aged /\ Verdicts /\ PlacedIn /\ Intact /\ Solved /\ Begun
  /\ OverrunByMany

(* A buffer is pushed that nobody's contacts are in.                       *)
LEMMA PushKeeps ==
  ASSUME RingRight, BufTyped, FreeBuffer \in Buf
  PROVE  /\ Pushed(FreeBuffer) \in Seq(Buf) /\ Pushed(FreeBuffer) # <<>>
         /\ \A i \in DOMAIN Pushed(FreeBuffer): Pushed(FreeBuffer)[i] <= Len(Pushed(FreeBuffer))
         /\ Pushed(FreeBuffer)[Len(Pushed(FreeBuffer))] = FreeBuffer
         /\ Len(ring) <= Len(Pushed(FreeBuffer))
         /\ \A b \in 1 .. Len(ring): b \in Buf /\ bage[b] <= 1 => b # FreeBuffer
<1> DEFINE r == IF Expired THEN Tail(ring) ELSE ring
<1>1. /\ ring \in Seq(Buf) /\ ring # <<>> /\ Len(ring) \in Nat /\ Len(ring) >= 1
      /\ \A i \in DOMAIN ring: ring[i] <= Len(ring)
  BY DEF RingRight
<1>2. /\ r \in Seq(Buf) /\ \A i \in DOMAIN r: r[i] <= Len(ring)
      /\ Len(r) = IF Expired THEN Len(ring) - 1 ELSE Len(ring)
  <2>1. CASE Expired
    BY <1>1, <2>1, HeadTailProperties
  <2>2. CASE ~Expired
    BY <1>1, <2>2
  <2> QED
    BY <2>1, <2>2
<1>3. FreeBuffer = (IF Expired THEN ring[1] ELSE Len(ring) + 1) /\ ring[1] <= Len(ring) /\ FreeBuffer \in Nat
  BY <1>1 DEF FreeBuffer, Buf
<1>4. <<FreeBuffer>> \in Seq(Buf) /\ Len(<<FreeBuffer>>) = 1 /\ <<FreeBuffer>>[1] = FreeBuffer
  OBVIOUS
<1>5. Pushed(FreeBuffer) = r \o <<FreeBuffer>>
  BY DEF Pushed
<1> HIDE DEF r
<1>6. /\ r \o <<FreeBuffer>> \in Seq(Buf) /\ Len(r \o <<FreeBuffer>>) = Len(r) + 1
      /\ \A i \in 1 .. Len(r): (r \o <<FreeBuffer>>)[i] = r[i]
      /\ (r \o <<FreeBuffer>>)[Len(r) + 1] = FreeBuffer
  <2>1. r \o <<FreeBuffer>> = Append(r, FreeBuffer)
    BY <1>2, AppendIsConcat, Zenon
  <2>2. /\ Append(r, FreeBuffer) \in Seq(Buf) /\ Len(Append(r, FreeBuffer)) = Len(r) + 1
        /\ \A i \in 1 .. Len(r): Append(r, FreeBuffer)[i] = r[i]
        /\ Append(r, FreeBuffer)[Len(r) + 1] = FreeBuffer
    BY <1>2, AppendProperties
  <2> QED
    BY <2>1, <2>2, Zenon
<1>7. Len(ring) <= Len(r) + 1 /\ FreeBuffer <= Len(r) + 1 /\ Len(r) \in Nat
  BY <1>1, <1>2, <1>3
<1>8. \A i \in DOMAIN (r \o <<FreeBuffer>>): (r \o <<FreeBuffer>>)[i] <= Len(r) + 1
  <2>1. DOMAIN (r \o <<FreeBuffer>>) = 1 .. (Len(r) + 1) /\ DOMAIN r = 1 .. Len(r)
    BY <1>2, <1>6
  <2>2. \A i \in DOMAIN r: r[i] \in Nat
    <3>1. \A i \in DOMAIN r: r[i] \in Buf
      BY <1>2
    <3> QED
      BY <3>1 DEF Buf
  <2>3. ASSUME NEW i \in 1 .. (Len(r) + 1) PROVE (r \o <<FreeBuffer>>)[i] <= Len(r) + 1
    <3>1. CASE i \in 1 .. Len(r)
      <4>1. (r \o <<FreeBuffer>>)[i] = r[i] /\ r[i] \in Nat /\ r[i] <= Len(ring)
        BY <1>2, <1>6, <2>1, <2>2, <3>1
      <4> QED
        BY <1>1, <1>7, <4>1
    <3>2. CASE i = Len(r) + 1
      BY <1>6, <1>7, <3>2
    <3> QED
      BY <1>7, <3>1, <3>2
  <2> QED
    BY <2>1, <2>3
<1>9. \A b \in 1 .. Len(ring): b \in Buf /\ bage[b] <= 1 => b # FreeBuffer
  BY <1>1, <1>3 DEF Expired, BufTyped
<1> QED
  BY <1>5, <1>6, <1>7, <1>8, <1>9

LEMMA ContactsStart == ContactsInit => ContactsInv
<1> SUFFICES ASSUME ContactsInit PROVE ContactsInv
  OBVIOUS
<1> USE DEF ContactsInit
<1>1. ArbTyped /\ TellTyped
  BY DEF ArbTyped, TellTyped
<1>2. BufTyped
  BY ContactsAssumption DEF BufTyped, Buf
<1>3. RingRight
  BY ContactsAssumption DEF RingRight, Buf
<1>4. HeadNew /\ NewRight /\ Remembered /\ Aged /\ Verdicts /\ PlacedIn /\ Intact /\ Solved /\ Begun
  BY DEF HeadNew, NewRight, Remembered, Aged, Verdicts, PlacedIn, Intact, Solved, Begun, MetIn
<1>o. OverrunByMany
  BY DEF OverrunByMany
<1> QED
  BY <1>1, <1>2, <1>3, <1>4, <1>o DEF ContactsInv

LEMMA StepStartsKeeps == ContactsInv /\ StepStarts => ContactsInv'
<1> SUFFICES ASSUME ContactsInv, StepStarts PROVE ContactsInv'
  OBVIOUS
<1> DEFINE f == FreeBuffer
<1>1. /\ inside = "idle" /\ inside' = "collide" /\ f \in Buf /\ ring' = Pushed(f)
      /\ bage' = [bage EXCEPT ![f] = 0] /\ bnum' = [bnum EXCEPT ![f] = 0]
      /\ solve' = [p \in Pairs |-> 0] /\ metNow' = {} /\ twice' = {} /\ begun' = {}
      /\ UNCHANGED <<arb, bwrit, new, touching, accepted>>
  BY DEF StepStarts
<1>2. /\ ring' \in Seq(Buf) /\ ring' # <<>> /\ \A i \in DOMAIN ring': ring'[i] <= Len(ring')
      /\ ring'[Len(ring')] = f /\ Len(ring) <= Len(ring')
      /\ \A b \in 1 .. Len(ring): b \in Buf /\ bage[b] <= 1 => b # f
  BY <1>1, PushKeeps DEF ContactsInv
<1> HIDE DEF f
<1>3. MetIn = {} /\ MetIn' = {} /\ new = NONE /\ NONE \notin Pairs
  BY <1>1, ContactsAssumption DEF MetIn, ContactsInv, NewRight
<1>4. ArbTyped' /\ TellTyped'
  BY <1>1 DEF ContactsInv, ArbTyped, TellTyped
<1>5. BufTyped'
  BY <1>1, ContactsAssumption DEF ContactsInv, BufTyped
<1>6. RingRight' /\ HeadNew'
  BY <1>1, <1>2 DEF RingRight, HeadNew, RingHead, ContactsInv, BufTyped
<1>7. NewRight' /\ Remembered' /\ Aged'
  BY <1>1, <1>3 DEF ContactsInv, NewRight, Remembered, Aged
<1>8. Verdicts' /\ Begun' /\ Intact'
  BY <1>1 DEF ContactsInv, Verdicts, Begun, Intact
<1>9. PlacedIn'
  <2> SUFFICES ASSUME NEW p \in Pairs, arb[p] # NONE, arb[p].buf # 0
               PROVE  /\ arb[p].buf <= Len(ring') /\ bage'[arb[p].buf] = 1
                      /\ arb[p].from + arb[p].num <= bnum'[arb[p].buf]
    BY <1>1, <1>3 DEF PlacedIn
  <2>1. /\ arb[p].buf <= Len(ring) /\ bage[arb[p].buf] = 1 /\ arb[p].buf \in Buf
        /\ arb[p].from + arb[p].num <= bnum[arb[p].buf] /\ arb[p].buf \in 1 .. Len(ring)
    BY <1>3 DEF ContactsInv, PlacedIn, ArbTyped, Arbiter, Buf
  <2>2. arb[p].buf # f
    BY <1>2, <2>1
  <2> QED
    BY <1>1, <1>2, <2>1, <2>2 DEF ContactsInv, BufTyped, RingRight
<1>10. Solved'
  BY <1>1, <1>3 DEF Solved, Times
<1>o. OverrunByMany'
  BY <1>1 DEF OverrunByMany
<1> QED
  BY <1>4, <1>5, <1>6, <1>7, <1>8, <1>9, <1>10, <1>o DEF ContactsInv

(* Where new contacts go, whether the newest buffer is full or not.        *)
Start(b) == IF Full THEN 0 ELSE bnum[b]

LEMMA RoomMade ==
  ASSUME ContactsInv, NEW p \in Pairs, NEW n \in 1 .. MaxPer, inside = "collide",
         NEW b \in {IF Full THEN FreeBuffer ELSE RingHead} \cap Buf,
         \/ Full /\ ring' = Pushed(b) /\ bage' = [bage EXCEPT ![b] = 0]
         \/ ~Full /\ ring' = ring /\ bage' = bage,
         bnum' = [bnum EXCEPT ![b] = Start(b) + n]
  PROVE  /\ RingRight' /\ RingHead' = b /\ bage' \in [Buf -> 0 .. 2] /\ bnum' \in [Buf -> 0 .. BufSize]
         /\ bage'[b] = 0 /\ bnum'[b] = Start(b) + n /\ Start(b) \in Nat /\ Start(b) + n <= BufSize
         /\ \A q \in Pairs: arb[q] # NONE /\ arb[q].buf # 0 =>
              /\ arb[q].buf <= Len(ring') /\ bage'[arb[q].buf] = bage[arb[q].buf]
              /\ arb[q].from + arb[q].num <= bnum'[arb[q].buf]
              /\ arb[q].buf = b => arb[q].from + arb[q].num <= Start(b)
<1> DEFINE from == Start(b)
<1>0. from = IF Full THEN 0 ELSE bnum[b]
  BY DEF Start
<1> HIDE DEF from
<1>5. bnum' = [bnum EXCEPT ![b] = from + n]
  BY DEF from
<1>1. /\ RingRight /\ BufTyped /\ bage[RingHead] = 0 /\ RingHead \in Buf
  BY DEF ContactsInv, HeadNew, RingHead, RingRight
<1>2. ASSUME NEW q \in Pairs, arb[q] # NONE, arb[q].buf # 0
      PROVE  /\ arb[q].buf <= Len(ring) /\ bage[arb[q].buf] <= 1 /\ arb[q].buf \in Buf
             /\ arb[q].from + arb[q].num <= bnum[arb[q].buf] /\ arb[q].buf \in 1 .. Len(ring)
             /\ arb[q].from + arb[q].num \in Nat
  BY <1>2 DEF ContactsInv, PlacedIn, ArbTyped, Arbiter, Buf
<1>3. CASE Full
  <2>1. b = FreeBuffer /\ FreeBuffer \in Buf /\ from = 0 /\ ring' = Pushed(b) /\ bage' = [bage EXCEPT ![b] = 0]
    BY <1>0, <1>3
  <2>2. /\ ring' \in Seq(Buf) /\ ring' # <<>> /\ \A i \in DOMAIN ring': ring'[i] <= Len(ring')
        /\ ring'[Len(ring')] = b /\ Len(ring) <= Len(ring')
        /\ \A c \in 1 .. Len(ring): c \in Buf /\ bage[c] <= 1 => c # b
    BY <1>1, <2>1, PushKeeps
  <2>3. RingRight' /\ RingHead' = b
    BY <2>2 DEF RingRight, RingHead
  <2>4. n <= BufSize /\ n \in Nat /\ from + n = n
    BY <2>1, ContactsAssumption
  <2>5. bage' \in [Buf -> 0 .. 2] /\ bnum' \in [Buf -> 0 .. BufSize] /\ bage'[b] = 0 /\ bnum'[b] = from + n
    BY <1>1, <1>5, <2>1, <2>4, ContactsAssumption DEF BufTyped
  <2>6. ASSUME NEW q \in Pairs, arb[q] # NONE, arb[q].buf # 0
        PROVE  /\ arb[q].buf <= Len(ring') /\ bage'[arb[q].buf] = bage[arb[q].buf] /\ arb[q].buf # b
               /\ arb[q].from + arb[q].num <= bnum'[arb[q].buf]
    BY <1>1, <1>2, <1>5, <2>1, <2>2, <2>6 DEF BufTyped, RingRight, Buf
  <2> QED
    BY <2>1, <2>3, <2>4, <2>5, <2>6 DEF from
<1>4. CASE ~Full
  <2>1. b = RingHead /\ from = bnum[b] /\ UNCHANGED <<ring, bage>>
    BY <1>0, <1>4
  <2>2. RingRight' /\ RingHead' = b
    BY <1>1, <2>1 DEF RingRight, RingHead
  <2>3. from \in Nat /\ n \in Nat /\ from + n <= BufSize
    BY <1>1, <1>4, <2>1, ContactsAssumption DEF Full, BufTyped
  <2>4. bage' \in [Buf -> 0 .. 2] /\ bnum' \in [Buf -> 0 .. BufSize] /\ bage'[b] = 0 /\ bnum'[b] = from + n
    BY <1>1, <1>5, <2>1, <2>3, ContactsAssumption DEF BufTyped
  <2>5. ASSUME NEW q \in Pairs, arb[q] # NONE, arb[q].buf # 0
        PROVE  /\ arb[q].buf <= Len(ring') /\ bage'[arb[q].buf] = bage[arb[q].buf]
               /\ arb[q].from + arb[q].num <= bnum'[arb[q].buf]
               /\ arb[q].buf = b => arb[q].from + arb[q].num <= from
    BY <1>1, <1>2, <1>5, <2>1, <2>3, <2>5 DEF BufTyped
  <2> QED
    BY <2>1, <2>2, <2>3, <2>4, <2>5 DEF from
<1> QED
  BY <1>3, <1>4

LEMMA MeetKeeps ==
  ASSUME ContactsInv, NEW p \in Pairs, NEW m \in 1 .. MaxPer + 1, m > MaxPer => p \in Many, Meet(p, m)
  PROVE  ContactsInv'
<1> DEFINE n == Limited(m)
<1>m. n \in 1 .. MaxPer /\ m \in Nat /\ n <= m /\ m <= n + 1 /\ (m > n => p \in Many)
  BY ContactsAssumption DEF Limited
<1>1. /\ inside = "collide" /\ p \notin twice /\ new' = p /\ metNow' = metNow \cup {p}
      /\ twice' = twice \cup ({p} \cap metNow)
      /\ begun' = IF First(p) THEN begun \cup {p} ELSE begun
      /\ UNCHANGED <<solve, touching, accepted>>
  BY DEF Meet
<1>2. PICK b \in {IF Full THEN FreeBuffer ELSE RingHead} \cap Buf:
        /\ IF Full THEN ring' = Pushed(b) /\ bage' = [bage EXCEPT ![b] = 0] ELSE UNCHANGED <<ring, bage>>
        /\ LET from == IF Full THEN 0 ELSE bnum[b]
           IN  /\ bnum' = [bnum EXCEPT ![b] = from + n]
               /\ inside' = IF from + m > BufSize THEN "overrun" ELSE IF First(p) THEN "begin" ELSE "end"
               /\ bwrit' = [bwrit EXCEPT ![b] = [k \in 1 .. BufSize |->
                              IF k \in from + 1 .. from + m THEN p ELSE bwrit[b][k]]]
               /\ arb' = [arb EXCEPT ![p] =
                            [age |-> IF First(p) THEN -1 ELSE arb[p].age,
                             ignored |-> ~First(p) /\ arb[p].ignored,
                             buf |-> b, from |-> from, num |-> n]]
  BY Zenon DEF Meet
<1> DEFINE from == Start(b)
           ig == ~First(p) /\ arb[p].ignored
           age == IF First(p) THEN -1 ELSE arb[p].age
           a == [age |-> age, ignored |-> ig, buf |-> b, from |-> from, num |-> n]
           w == [k \in 1 .. BufSize |-> IF k \in from + 1 .. from + m THEN p ELSE bwrit[b][k]]
<1> HIDE DEF n
<1>i. inside' = IF from + m > BufSize THEN "overrun" ELSE IF First(p) THEN "begin" ELSE "end"
  BY <1>2, Zenon DEF Start
<1>3. bnum' = [bnum EXCEPT ![b] = from + n] /\ bwrit' = [bwrit EXCEPT ![b] = w] /\ arb' = [arb EXCEPT ![p] = a]
  BY <1>2, Zenon DEF Start
<1>4. /\ RingRight' /\ RingHead' = b /\ bage' \in [Buf -> 0 .. 2] /\ bnum' \in [Buf -> 0 .. BufSize]
      /\ bage'[b] = 0 /\ bnum'[b] = from + n /\ from \in Nat /\ from + n <= BufSize
      /\ \A q \in Pairs: arb[q] # NONE /\ arb[q].buf # 0 =>
           /\ arb[q].buf <= Len(ring') /\ bage'[arb[q].buf] = bage[arb[q].buf]
           /\ arb[q].from + arb[q].num <= bnum'[arb[q].buf]
           /\ arb[q].buf = b => arb[q].from + arb[q].num <= from
  <2>1. \/ Full /\ ring' = Pushed(b) /\ bage' = [bage EXCEPT ![b] = 0]
        \/ ~Full /\ ring' = ring /\ bage' = bage
    BY <1>2
  <2> QED
    BY <1>1, <1>3, <1>m, <2>1, RoomMade
<1>5. new = NONE /\ NONE \notin Pairs /\ p # NONE /\ MetIn = metNow /\ MetIn' = metNow \cup {p} /\ p \in MetIn'
  <2>1. new = NONE /\ NONE \notin Pairs /\ p # NONE
    BY <1>1, ContactsAssumption DEF ContactsInv, NewRight
  <2>2. inside # "idle" /\ inside' # "idle"
    BY <1>1, <1>i
  <2> QED
    BY <1>1, <2>1, <2>2 DEF MetIn
<1>6. ig \in BOOLEAN /\ age \in -1 .. 2
  <2>1. ig \in BOOLEAN
    BY Zenon
  <2>2. age \in -1 .. 2
    BY DEF ContactsInv, ArbTyped, Arbiter, First
  <2> QED
    BY <2>1, <2>2
<1>7. ~First(p) => (ig <=> arb[p].ignored)
  BY Zenon
<1> HIDE DEF ig, age, from
<1>8. b \in Buf /\ b # 0 /\ from \in 0 .. BufSize /\ n \in 0 .. MaxPer /\ n \in Nat
  BY <1>4, <1>m, ContactsAssumption DEF Buf
<1>9. /\ a \in Arbiter /\ a # NONE /\ a.age = age /\ a.buf = b /\ a.from = from /\ a.num = n /\ a.ignored = ig
  <2>1. a \in Arbiter
    BY <1>6, <1>8 DEF Arbiter, Buf
  <2>2. NONE \notin Arbiter
    BY ContactsAssumption DEF Arbiter
  <2> QED
    BY <2>1, <2>2
<1> HIDE DEF a
<1>10. /\ arb' \in [Pairs -> Arbiter \cup {NONE}] /\ arb'[p] = a
       /\ \A q \in Pairs: q # p => arb'[q] = arb[q]
  BY <1>3, <1>9 DEF ContactsInv, ArbTyped
<1>11. ArbTyped' /\ TellTyped'
  BY <1>1, <1>i, <1>10 DEF ContactsInv, ArbTyped, TellTyped
<1>12. w \in [1 .. BufSize -> Pairs \cup {NONE}] /\ \A k \in 1 .. BufSize: w[k] = IF k \in from + 1 .. from + m THEN p ELSE bwrit[b][k]
  BY <1>8, <1>m DEF ContactsInv, BufTyped
<1> HIDE DEF w
<1>13. bwrit' \in [Buf -> [1 .. BufSize -> Pairs \cup {NONE}]] /\ bwrit'[b] = w
       /\ \A c \in Buf: c # b => bwrit'[c] = bwrit[c]
  BY <1>3, <1>8, <1>12 DEF ContactsInv, BufTyped
<1>14. BufTyped'
  BY <1>4, <1>13 DEF BufTyped
<1>15. HeadNew' /\ NewRight'
  <2>1. HeadNew'
    BY <1>1, <1>4 DEF HeadNew
  <2>2. inside' = "begin" => p \notin metNow
    BY <1>1, <1>5, <1>i DEF First, ContactsInv, Remembered
  <2>3. inside' \in {"begin", "end", "overrun"}
    BY <1>i
  <2> QED
    BY <1>1, <1>4, <1>5, <1>8, <1>9, <1>10, <2>1, <2>2, <2>3 DEF NewRight
<1>16. Remembered'
  BY <1>1, <1>5, <1>9, <1>10 DEF ContactsInv, Remembered
<1>17. Aged'
  BY <1>1, <1>5, <1>10 DEF ContactsInv, Aged
<1>18. Verdicts'
  <2> SUFFICES ASSUME NEW q \in Pairs, arb'[q] # NONE, ~(inside' \in {"begin", "overrun"} /\ new' = q)
               PROVE  arb'[q].ignored <=> q \notin accepted
    BY <1>1, Zenon DEF Verdicts
  <2>1. CASE q # p
    <3>1. arb'[q] = arb[q] /\ arb[q] # NONE /\ inside \notin {"begin", "overrun"}
      BY <1>1, <1>10, <2>1
    <3> QED
      BY <3>1, Zenon DEF ContactsInv, Verdicts
  <2>2. CASE q = p
    <3>1. ~First(p) /\ arb[p] # NONE /\ inside \notin {"begin", "overrun"} /\ arb'[q] = a
      BY <1>1, <1>i, <1>10, <2>2 DEF First
    <3>2. arb[p].ignored <=> p \notin accepted
      BY <3>1, Zenon DEF ContactsInv, Verdicts
    <3> QED
      BY <1>7, <1>9, <2>2, <3>1, <3>2, Zenon
  <2> QED
    BY <2>1, <2>2
<1>19. PlacedIn'
  <2> SUFFICES ASSUME NEW q \in Pairs, arb'[q] # NONE, arb'[q].buf # 0
               PROVE  /\ arb'[q].buf <= Len(ring') /\ bage'[arb'[q].buf] = IF q \in MetIn' THEN 0 ELSE 1
                      /\ arb'[q].from + arb'[q].num <= bnum'[arb'[q].buf]
                      /\ q # p /\ arb'[q].buf = b => arb'[q].from + arb'[q].num <= arb'[p].from
    BY <1>1, <1>4 DEF PlacedIn
  <2>1. CASE q = p
    <3>1. b <= Len(ring')
      BY <1>4 DEF RingRight, RingHead
    <3> QED
      BY <1>4, <1>5, <1>8, <1>9, <1>10, <2>1, <3>1
  <2>2. CASE q # p
    <3>1. arb'[q] = arb[q] /\ (q \in MetIn' <=> q \in MetIn)
      BY <1>5, <1>10, <2>2
    <3>2. bage[arb[q].buf] = IF q \in MetIn THEN 0 ELSE 1
      BY <3>1 DEF ContactsInv, PlacedIn
    <3> QED
      BY <1>4, <1>9, <1>10, <2>2, <3>1, <3>2
  <2> QED
    BY <2>1, <2>2
<1>20. Intact'
  <2> SUFFICES ASSUME NEW q \in Pairs, arb'[q] # NONE, arb'[q].buf # 0, NEW k \in 1 .. arb'[q].num
               PROVE  bwrit'[arb'[q].buf][arb'[q].from + k] = q
    BY DEF Intact
  <2>1. CASE q = p
    <3>1. arb'[q].buf = b /\ arb'[q].from = from /\ k \in 1 .. n
      BY <1>9, <1>10, <2>1
    <3>2. from + k \in 1 .. BufSize /\ from + k \in from + 1 .. from + m
      BY <1>4, <1>8, <1>m, <3>1, ContactsAssumption
    <3> QED
      BY <1>12, <1>13, <2>1, <3>1, <3>2
  <2>2. CASE q # p
    <3>1. arb'[q] = arb[q] /\ bwrit[arb[q].buf][arb[q].from + k] = q
      BY <1>10, <2>2 DEF ContactsInv, Intact
    <3>2. arb[q].buf \in Buf /\ arb[q].from \in Nat /\ arb[q].num \in Nat /\ k \in 1 .. arb[q].num
      BY <3>1, <1>10 DEF ContactsInv, ArbTyped, Arbiter, Buf
    <3>3. CASE arb[q].buf # b
      BY <1>13, <3>1, <3>2, <3>3
    <3>4. CASE arb[q].buf = b
      <4>1. arb[q].from + arb[q].num <= from
        BY <1>4, <3>1, <3>4
      <4>2. arb[q].from + k \in 1 .. BufSize /\ arb[q].from + k \notin from + 1 .. from + m
        <5>1. arb[q].from + k >= 1 /\ arb[q].from + k <= from /\ arb[q].from + k \in Int
          BY <1>4, <3>2, <4>1, SMTT(30)
        <5> QED
          BY <1>4, <1>8, <1>m, <5>1, ContactsAssumption
      <4>3. w[arb[q].from + k] = bwrit[b][arb[q].from + k]
        BY <1>12, <4>2
      <4> QED
        BY <1>13, <3>1, <3>4, <4>3
    <3> QED
      BY <3>3, <3>4
  <2> QED
    BY <2>1, <2>2
<1>21. Solved'
  <2>1. \A q \in Pairs: solve[q] = IF q \in accepted THEN Times(q) ELSE 0
    BY <1>1 DEF ContactsInv, Solved
  <2>2. \A q \in Pairs: Times(q)' = Times(q)
    BY <1>1, <1>5 DEF Times, ContactsInv, TellTyped
  <2> QED
    BY <1>1, <2>1, <2>2 DEF Solved
<1>22. Begun'
  <2>1. First(p) <=> p \notin touching \cup metNow
    BY <1>5 DEF First, ContactsInv, Remembered
  <2> QED
    BY <1>1, <2>1 DEF ContactsInv, Begun
<1>23. OverrunByMany'
  <2> SUFFICES ASSUME from + m > BufSize PROVE p \in Many /\ bnum'[b] = BufSize
    BY <1>1, <1>4, <1>i DEF OverrunByMany
  <2>1. BufSize \in Nat
    BY ContactsAssumption
  <2> QED
    BY <1>4, <1>8, <1>m, <2>1
<1> QED
  BY <1>4, <1>11, <1>14, <1>15, <1>16, <1>17, <1>18, <1>19, <1>20, <1>21, <1>22, <1>23 DEF ContactsInv

LEMMA BeginReturnsKeeps ==
  ASSUME ContactsInv, NEW ok \in BOOLEAN, BeginReturns(ok)
  PROVE  ContactsInv'
<1>1. /\ inside = "begin" /\ inside' = "end"
      /\ arb' = [arb EXCEPT ![new].ignored = ~ok]
      /\ accepted' = IF ok THEN accepted \cup {new} ELSE accepted \ {new}
      /\ UNCHANGED <<ring, bage, bnum, bwrit, solve, new, metNow, twice, begun, touching>>
  BY DEF BeginReturns, buffers
<1>2. /\ new \in Pairs /\ new \in metNow /\ arb[new] \in Arbiter /\ arb[new] # NONE /\ MetIn = metNow /\ MetIn' = metNow
      /\ arb[new].buf = RingHead /\ arb[new].from + arb[new].num = bnum[RingHead]
  BY <1>1 DEF ContactsInv, NewRight, TellTyped, Remembered, MetIn, ArbTyped
<1> DEFINE no == ~ok
           a == [arb[new] EXCEPT !.ignored = no]
<1>3. arb' = [arb EXCEPT ![new] = a]
  BY <1>1, <1>2 DEF ContactsInv, ArbTyped
<1>4. no \in BOOLEAN
  BY Zenon
<1> HIDE DEF no
<1>5. /\ a \in Arbiter /\ a # NONE /\ a.ignored = no /\ a.buf = arb[new].buf
      /\ a.from = arb[new].from /\ a.num = arb[new].num /\ a.age = arb[new].age
  <2>1. a \in Arbiter
    BY <1>2, <1>4 DEF Arbiter
  <2>2. NONE \notin Arbiter
    BY ContactsAssumption DEF Arbiter
  <2>3. a.ignored = no /\ a.buf = arb[new].buf /\ a.from = arb[new].from /\ a.num = arb[new].num /\ a.age = arb[new].age
    BY <1>2 DEF Arbiter
  <2> QED
    BY <2>1, <2>2, <2>3
<1> HIDE DEF a
<1>6. /\ arb' \in [Pairs -> Arbiter \cup {NONE}] /\ arb'[new] = a
      /\ \A q \in Pairs: q # new => arb'[q] = arb[q]
  BY <1>2, <1>3, <1>5 DEF ContactsInv, ArbTyped
<1>7. \A q \in Pairs: /\ arb'[q] # NONE <=> arb[q] # NONE
                      /\ arb[q] # NONE => /\ arb'[q].buf = arb[q].buf /\ arb'[q].from = arb[q].from
                                          /\ arb'[q].num = arb[q].num /\ arb'[q].age = arb[q].age
  BY <1>2, <1>5, <1>6
<1>8. ArbTyped' /\ TellTyped' /\ BufTyped' /\ RingRight' /\ RingHead' = RingHead /\ HeadNew'
  BY <1>1, <1>6 DEF ContactsInv, ArbTyped, TellTyped, BufTyped, RingRight, RingHead, HeadNew
<1>9. NewRight'
  BY <1>1, <1>2, <1>5, <1>6, <1>8 DEF NewRight
<1>10. Remembered' /\ Aged'
  BY <1>1, <1>2, <1>7 DEF ContactsInv, Remembered, Aged
<1>11. PlacedIn'
  BY <1>1, <1>2, <1>7, <1>8 DEF ContactsInv, PlacedIn
<1>12. Intact'
  BY <1>1, <1>7 DEF ContactsInv, Intact
<1>13. Verdicts'
  <2> SUFFICES ASSUME NEW q \in Pairs, arb'[q] # NONE
               PROVE  arb'[q].ignored <=> q \notin accepted'
    BY Zenon DEF Verdicts
  <2>1. CASE q # new
    <3>1. arb'[q] = arb[q] /\ arb[q] # NONE /\ (q \in accepted' <=> q \in accepted)
      BY <1>1, <1>6, <1>7, <2>1
    <3> QED
      BY <2>1, <3>1, Zenon DEF ContactsInv, Verdicts
  <2>2. CASE q = new
    <3>1. new \in accepted' <=> ok
      BY <1>1
    <3>2. arb'[q].ignored = no
      BY <1>5, <1>6, <2>2
    <3> QED
      BY <2>2, <3>1, <3>2, Zenon DEF no
  <2> QED
    BY <2>1, <2>2
<1>14. Solved'
  <2>1. \A q \in Pairs: solve[q] = IF q \in accepted THEN Times(q) ELSE 0
    BY <1>1 DEF ContactsInv, Solved
  <2>2. \A q \in Pairs: Times(q)' = Times(q)
    BY <1>1 DEF Times
  <2>3. Times(new) = 0
    BY <1>1, <1>2 DEF ContactsInv, NewRight, Times
  <2> QED
    BY <1>1, <2>1, <2>2, <2>3 DEF Solved
<1>15. Begun'
  BY <1>1 DEF ContactsInv, Begun
<1>o. OverrunByMany'
  BY <1>1 DEF OverrunByMany
<1> QED
  BY <1>8, <1>9, <1>10, <1>11, <1>12, <1>13, <1>14, <1>15, <1>o DEF ContactsInv

LEMMA ConcludesKeeps == ContactsInv /\ Concludes => ContactsInv'
<1> SUFFICES ASSUME ContactsInv, Concludes PROVE ContactsInv'
  OBVIOUS
<1>1. /\ inside = "end" /\ inside' = "collide" /\ new' = NONE
      /\ UNCHANGED <<ring, bage, bwrit, metNow, twice, begun, touching, accepted>>
  BY DEF Concludes, chronicle
<1>2. /\ new \in Pairs /\ new \in metNow /\ arb[new] \in Arbiter /\ arb[new] # NONE /\ MetIn = metNow /\ MetIn' = metNow
      /\ arb[new].buf = RingHead /\ arb[new].from + arb[new].num = bnum[RingHead] /\ RingHead \in Buf
      /\ NONE \notin Pairs /\ new # NONE
  BY <1>1, ContactsAssumption
     DEF ContactsInv, NewRight, TellTyped, Remembered, MetIn, ArbTyped, RingHead, RingRight
<1>3. arb[new].ignored <=> new \notin accepted
  BY <1>1, <1>2, Zenon DEF ContactsInv, Verdicts
<1>4. NONE \notin Arbiter
  BY ContactsAssumption DEF Arbiter
<1> DEFINE a == IF arb[new].ignored THEN [arb[new] EXCEPT !.age = 0, !.buf = 0, !.num = 0]
                ELSE [arb[new] EXCEPT !.age = 0]
<1>5. arb' = [arb EXCEPT ![new] = a]
  <2>1. CASE arb[new].ignored
    BY <1>2, <2>1 DEF Concludes, ContactsInv, ArbTyped
  <2>2. CASE ~arb[new].ignored
    BY <1>2, <2>2 DEF Concludes, ContactsInv, ArbTyped
  <2> QED
    BY <2>1, <2>2
<1>6. /\ a \in Arbiter /\ a # NONE /\ a.age = 0 /\ a.ignored = arb[new].ignored /\ a.from = arb[new].from
      /\ new \in accepted => a.buf = arb[new].buf /\ a.num = arb[new].num
      /\ new \notin accepted => a.buf = 0 /\ a.num = 0
  <2>1. CASE arb[new].ignored
    <3>1. a = [age |-> 0, ignored |-> arb[new].ignored, buf |-> 0, from |-> arb[new].from, num |-> 0]
      BY <1>2, <2>1 DEF Arbiter
    <3>2. a \in Arbiter
      BY <1>2, <3>1, ContactsAssumption DEF Arbiter
    <3> QED
      BY <1>3, <1>4, <2>1, <3>1, <3>2
  <2>2. CASE ~arb[new].ignored
    BY <1>2, <1>3, <1>4, <2>2, ContactsAssumption DEF Arbiter
  <2> QED
    BY <2>1, <2>2
<1> HIDE DEF a
<1>7. /\ arb' \in [Pairs -> Arbiter \cup {NONE}] /\ arb'[new] = a
      /\ \A q \in Pairs: q # new => arb'[q] = arb[q]
  BY <1>2, <1>5, <1>6 DEF ContactsInv, ArbTyped
<1>8. IF new \in accepted
      THEN solve' = [solve EXCEPT ![new] = @ + 1] /\ UNCHANGED bnum
      ELSE bnum' = [bnum EXCEPT ![RingHead] = @ - arb[new].num] /\ UNCHANGED solve
  BY <1>3 DEF Concludes
<1>9. /\ bnum' \in [Buf -> 0 .. BufSize] /\ \A c \in Buf: c # RingHead => bnum'[c] = bnum[c]
      /\ new \in accepted => bnum'[RingHead] = bnum[RingHead]
      /\ new \notin accepted => bnum'[RingHead] = arb[new].from
  <2>1. /\ bnum \in [Buf -> 0 .. BufSize] /\ RingHead \in Buf /\ BufSize \in Nat
        /\ arb[new].from \in 0 .. BufSize /\ arb[new].num \in 0 .. MaxPer /\ MaxPer \in Nat
        /\ arb[new].from + arb[new].num = bnum[RingHead]
    BY <1>2, ContactsAssumption DEF ContactsInv, BufTyped, Arbiter
  <2>2. CASE new \in accepted
    <3>1. bnum' = bnum
      BY <1>8, <2>2
    <3> QED
      BY <2>1, <2>2, <3>1
  <2>3. CASE new \notin accepted
    <3>1. bnum' = [bnum EXCEPT ![RingHead] = @ - arb[new].num]
      BY <1>8, <2>3
    <3>2. bnum[RingHead] - arb[new].num = arb[new].from
      BY <2>1
    <3> QED
      BY <2>1, <2>3, <3>1, <3>2
  <2> QED
    BY <2>2, <2>3
<1>10. RingHead' = RingHead /\ RingRight' /\ HeadNew' /\ BufTyped' /\ ArbTyped' /\ NewRight'
  BY <1>1, <1>7, <1>9 DEF RingHead, ContactsInv, RingRight, HeadNew, BufTyped, ArbTyped, NewRight
<1>11. TellTyped'
  BY <1>1, <1>2, <1>8 DEF ContactsInv, TellTyped
<1>12. Remembered' /\ Aged'
  BY <1>1, <1>2, <1>6, <1>7 DEF ContactsInv, Remembered, Aged
<1>13. Verdicts'
  <2> SUFFICES ASSUME NEW q \in Pairs, arb'[q] # NONE
               PROVE  arb'[q].ignored <=> q \notin accepted
    BY <1>1, Zenon DEF Verdicts
  <2>1. CASE q # new
    <3>1. arb'[q] = arb[q] /\ inside \notin {"begin", "overrun"}
      BY <1>1, <1>7, <2>1
    <3> QED
      BY <3>1, Zenon DEF ContactsInv, Verdicts
  <2>2. CASE q = new
    BY <1>3, <1>6, <1>7, <2>2, Zenon
  <2> QED
    BY <2>1, <2>2
<1>14. PlacedIn'
  <2> SUFFICES ASSUME NEW q \in Pairs, arb'[q] # NONE, arb'[q].buf # 0
               PROVE  /\ arb'[q].buf <= Len(ring) /\ bage[arb'[q].buf] = IF q \in metNow THEN 0 ELSE 1
                      /\ arb'[q].from + arb'[q].num <= bnum'[arb'[q].buf]
    BY <1>1, <1>2 DEF PlacedIn
  <2>1. CASE q = new
    <3>1. new \in accepted /\ a.buf = arb[new].buf /\ a.num = arb[new].num /\ a.from = arb[new].from /\ arb[new].buf # 0
      BY <1>6, <1>7, <2>1
    <3>2. arb[new].buf <= Len(ring) /\ bage[arb[new].buf] = 0 /\ arb[new].from + arb[new].num <= bnum[RingHead]
      BY <1>2, <3>1 DEF ContactsInv, PlacedIn
    <3> QED
      BY <1>2, <1>7, <1>9, <2>1, <3>1, <3>2
  <2>2. CASE q # new
    <3>1. arb'[q] = arb[q] /\ arb[q] \in Arbiter
      BY <1>7, <2>2 DEF ContactsInv, ArbTyped
    <3>2. /\ arb[q].buf <= Len(ring) /\ bage[arb[q].buf] = IF q \in metNow THEN 0 ELSE 1
          /\ arb[q].from + arb[q].num <= bnum[arb[q].buf] /\ arb[q].buf \in Buf
          /\ arb[q].buf = RingHead => arb[q].from + arb[q].num <= arb[new].from
      BY <1>2, <2>2, <3>1 DEF ContactsInv, PlacedIn, Arbiter, Buf
    <3> QED
      BY <1>9, <3>1, <3>2
  <2> QED
    BY <2>1, <2>2
<1>15. Intact'
  <2> SUFFICES ASSUME NEW q \in Pairs, arb'[q] # NONE, arb'[q].buf # 0, NEW k \in 1 .. arb'[q].num
               PROVE  bwrit[arb'[q].buf][arb'[q].from + k] = q
    BY <1>1 DEF Intact
  <2>1. arb[q] # NONE /\ arb'[q].buf = arb[q].buf /\ arb'[q].num = arb[q].num /\ arb'[q].from = arb[q].from
    BY <1>2, <1>6, <1>7
  <2> QED
    BY <2>1 DEF ContactsInv, Intact
<1>16. Solved'
  <2> SUFFICES ASSUME NEW q \in Pairs
               PROVE  solve'[q] = IF q \in accepted THEN Times(q)' ELSE 0
    BY <1>1 DEF Solved
  <2>1. solve[q] = IF q \in accepted THEN Times(q) ELSE 0
    BY <1>1 DEF ContactsInv, Solved
  <2>2. Times(q)' = Times(q) + IF q = new THEN 1 ELSE 0
    BY <1>1, <1>2 DEF Times
  <2>3. Times(q) \in Int
    BY DEF Times
  <2> QED
    BY <1>2, <1>8, <2>1, <2>2, <2>3 DEF ContactsInv, TellTyped
<1>17. Begun'
  BY <1>1 DEF ContactsInv, Begun
<1>o. OverrunByMany'
  BY <1>1 DEF OverrunByMany
<1> QED
  BY <1>10, <1>11, <1>12, <1>13, <1>14, <1>15, <1>16, <1>17, <1>o DEF ContactsInv

LEMMA StepEndsKeeps == ContactsInv /\ StepEnds => ContactsInv'
<1> SUFFICES ASSUME ContactsInv, StepEnds PROVE ContactsInv'
  OBVIOUS
<1>1. /\ inside = "collide" /\ inside' = "idle"
      /\ arb' = [p \in Pairs |-> IF arb[p] = NONE \/ Dropped(p) THEN NONE ELSE [arb[p] EXCEPT !.age = Older(@)]]
      /\ bage' = [b \in Buf |-> Older(bage[b])]
      /\ touching' = metNow
      /\ bwrit' = [b \in Buf |-> IF bage'[b] < Old THEN bwrit[b] ELSE [k \in 1 .. BufSize |-> NONE]]
      /\ UNCHANGED <<ring, bnum, solve, new, metNow, twice, begun, accepted>>
  BY DEF StepEnds
<1>2. new = NONE /\ NONE \notin Pairs /\ MetIn = metNow /\ MetIn' = {} /\ NONE \notin Arbiter
  BY <1>1, ContactsAssumption DEF ContactsInv, NewRight, MetIn, Arbiter
<1>3. ASSUME NEW p \in Pairs
      PROVE  /\ p \notin metNow => arb'[p] = NONE
             /\ p \in metNow => /\ arb[p] # NONE /\ arb'[p] # NONE /\ arb'[p] \in Arbiter /\ arb'[p].age = 1
                                /\ arb'[p].buf = arb[p].buf /\ arb'[p].from = arb[p].from
                                /\ arb'[p].num = arb[p].num /\ arb'[p].ignored = arb[p].ignored
  <2>1. CASE p \notin metNow
    <3>1. arb[p] = NONE \/ Dropped(p)
      BY <1>2, <2>1 DEF ContactsInv, Aged, Dropped
    <3> QED
      BY <1>1, <2>1, <3>1
  <2>2. CASE p \in metNow
    <3>1. arb[p] # NONE /\ arb[p] \in Arbiter /\ arb[p].age = 0
      BY <1>2, <2>2 DEF ContactsInv, Remembered, Aged, ArbTyped
    <3>2. arb'[p] = [arb[p] EXCEPT !.age = 1]
      BY <1>1, <3>1 DEF Dropped, Older, Old
    <3> QED
      BY <1>2, <2>2, <3>1, <3>2 DEF Arbiter
  <2> QED
    BY <2>1, <2>2
<1>4. arb' \in [Pairs -> Arbiter \cup {NONE}]
  <2>1. \A p \in Pairs: arb'[p] \in Arbiter \cup {NONE}
    BY <1>3
  <2>2. arb' = [p \in Pairs |-> arb'[p]]
    BY <1>1
  <2> QED
    BY <2>1, <2>2
<1>5. ArbTyped' /\ TellTyped'
  BY <1>1, <1>4 DEF ContactsInv, ArbTyped, TellTyped
<1>6. BufTyped'
  <2>1. bage' \in [Buf -> 0 .. 2]
    <3>1. \A b \in Buf: bage[b] \in 0 .. 2
      BY DEF ContactsInv, BufTyped
    <3>2. \A b \in Buf: Older(bage[b]) \in 0 .. 2
      BY <3>1 DEF Older, Old
    <3> QED
      BY <1>1, <3>2
  <2>2. bwrit' \in [Buf -> [1 .. BufSize -> Pairs \cup {NONE}]]
    BY <1>1 DEF ContactsInv, BufTyped
  <2> QED
    BY <1>1, <2>1, <2>2 DEF ContactsInv, BufTyped
<1>7. RingRight' /\ HeadNew' /\ NewRight' /\ Solved' /\ Begun'
  BY <1>1, <1>2 DEF ContactsInv, RingRight, HeadNew, NewRight, Solved, Begun
<1>8. Remembered' /\ Aged'
  BY <1>1, <1>2, <1>3 DEF ContactsInv, TellTyped, Remembered, Aged
<1>9. Verdicts'
  <2> SUFFICES ASSUME NEW p \in Pairs, arb'[p] # NONE
               PROVE  arb'[p].ignored <=> p \notin accepted
    BY <1>1, Zenon DEF Verdicts
  <2>1. arb[p] # NONE /\ arb'[p].ignored = arb[p].ignored /\ inside \notin {"begin", "overrun"}
    BY <1>1, <1>3
  <2> QED
    BY <2>1, Zenon DEF ContactsInv, Verdicts
<1>10. ASSUME NEW p \in Pairs, arb'[p] # NONE, arb'[p].buf # 0
       PROVE  /\ arb[p] # NONE /\ arb[p].buf \in Buf /\ bage'[arb[p].buf] = 1 /\ bwrit'[arb[p].buf] = bwrit[arb[p].buf]
              /\ arb[p].buf <= Len(ring) /\ arb[p].from + arb[p].num <= bnum[arb[p].buf]
              /\ arb'[p].buf = arb[p].buf /\ arb'[p].from = arb[p].from /\ arb'[p].num = arb[p].num
  <2>1. /\ p \in metNow /\ arb[p] # NONE /\ arb[p] \in Arbiter
        /\ arb'[p].buf = arb[p].buf /\ arb'[p].from = arb[p].from /\ arb'[p].num = arb[p].num
    BY <1>3, <1>10 DEF ContactsInv, ArbTyped
  <2>2. /\ arb[p].buf \in Buf /\ bage[arb[p].buf] = 0 /\ arb[p].buf <= Len(ring)
        /\ arb[p].from + arb[p].num <= bnum[arb[p].buf]
    BY <1>2, <1>10, <2>1 DEF ContactsInv, PlacedIn, Arbiter, Buf
  <2>3. bage'[arb[p].buf] = 1
    BY <1>1, <2>2 DEF Older, Old
  <2> QED
    BY <1>1, <2>1, <2>2, <2>3 DEF Old
<1>11. PlacedIn' /\ Intact'
  <2>1. PlacedIn'
    BY <1>1, <1>2, <1>10 DEF PlacedIn
  <2>2. Intact'
    BY <1>10 DEF ContactsInv, Intact
  <2> QED
    BY <2>1, <2>2
<1>o. OverrunByMany'
  BY <1>1 DEF OverrunByMany
<1> QED
  BY <1>5, <1>6, <1>7, <1>8, <1>9, <1>11, <1>o DEF ContactsInv

LEMMA RemoveShapeKeeps ==
  ASSUME ContactsInv, NEW s \in ContactShape, RemoveShape(s)
  PROVE  ContactsInv'
<1>1. /\ inside = "idle" /\ arb' = [p \in Pairs |-> IF s \in p THEN NONE ELSE arb[p]]
      /\ touching' = {p \in touching: s \notin p}
      /\ UNCHANGED <<inside, ring, bage, bnum, bwrit, solve, new, metNow, twice, begun, accepted>>
  BY DEF RemoveShape, buffers
<1>2. MetIn = {} /\ MetIn' = {} /\ new = NONE /\ NONE \notin Pairs
  BY <1>1, ContactsAssumption DEF MetIn, ContactsInv, NewRight
<1>3. \A p \in Pairs: IF s \in p THEN arb'[p] = NONE ELSE arb'[p] = arb[p]
  BY <1>1
<1>4. ArbTyped' /\ TellTyped' /\ BufTyped' /\ RingRight'
  BY <1>1 DEF ContactsInv, ArbTyped, TellTyped, BufTyped, RingRight
<1>5. HeadNew' /\ NewRight' /\ Solved' /\ Begun'
  BY <1>1, <1>2 DEF HeadNew, NewRight, Solved, Begun
<1>6. Remembered' /\ Aged'
  BY <1>1, <1>2, <1>3 DEF ContactsInv, Remembered, Aged
<1>7. PlacedIn' /\ Intact'
  BY <1>1, <1>2, <1>3 DEF ContactsInv, PlacedIn, Intact
<1>8. Verdicts'
  <2> SUFFICES ASSUME NEW p \in Pairs, arb'[p] # NONE
               PROVE  arb'[p].ignored <=> p \notin accepted
    BY <1>1, Zenon DEF Verdicts
  <2>1. arb[p] # NONE /\ arb'[p] = arb[p] /\ inside \notin {"begin", "overrun"}
    BY <1>1, <1>3
  <2> QED
    BY <2>1, Zenon DEF ContactsInv, Verdicts
<1>o. OverrunByMany'
  BY <1>1 DEF OverrunByMany
<1> QED
  BY <1>4, <1>5, <1>6, <1>7, <1>8, <1>o DEF ContactsInv

LEMMA ContactsKeep == ContactsInv /\ [ContactsNext]_contactsVars => ContactsInv'
<1> SUFFICES ASSUME ContactsInv, [ContactsNext]_contactsVars PROVE ContactsInv'
  OBVIOUS
<1>1. CASE StepStarts
  BY <1>1, StepStartsKeeps
<1>2. ASSUME NEW p \in Pairs, NEW m \in 1 .. MaxPer, Meet(p, m) PROVE ContactsInv'
  <2>1. m \in 1 .. MaxPer + 1 /\ ~(m > MaxPer)
    BY ContactsAssumption
  <2> QED
    BY <1>2, <2>1, MeetKeeps
<1>8. ASSUME NEW p \in Many, Meet(p, MaxPer + 1) PROVE ContactsInv'
  <2>1. MaxPer + 1 \in 1 .. MaxPer + 1 /\ p \in Pairs
    BY ContactsAssumption
  <2> QED
    BY <1>8, <2>1, MeetKeeps
<1>3. ASSUME NEW ok \in BOOLEAN, BeginReturns(ok) PROVE ContactsInv'
  BY <1>3, BeginReturnsKeeps
<1>4. CASE Concludes
  BY <1>4, ConcludesKeeps
<1>5. CASE StepEnds
  BY <1>5, StepEndsKeeps
<1>6. ASSUME NEW s \in ContactShape, RemoveShape(s) PROVE ContactsInv'
  BY <1>6, RemoveShapeKeeps
<1>7. CASE UNCHANGED contactsVars
  <2>1. /\ UNCHANGED <<inside, arb, ring, bage, bnum, bwrit, solve, new, metNow, twice, begun, touching, accepted>>
    BY <1>7 DEF contactsVars, buffers, chronicle
  <2>2. ArbTyped' /\ BufTyped' /\ TellTyped' /\ RingRight' /\ MetIn' = MetIn /\ RingHead' = RingHead
    BY <2>1 DEF ContactsInv, ArbTyped, BufTyped, TellTyped, RingRight, MetIn, RingHead
  <2>3. HeadNew' /\ NewRight' /\ Remembered' /\ Aged' /\ PlacedIn' /\ Intact' /\ Begun' /\ OverrunByMany'
    BY <2>1, <2>2 DEF ContactsInv, HeadNew, NewRight, Remembered, Aged, PlacedIn, Intact, Begun, OverrunByMany
  <2>4. Verdicts'
    BY <2>1, Zenon DEF ContactsInv, Verdicts
  <2>5. Solved'
    BY <2>1 DEF ContactsInv, Solved, Times
  <2> QED
    BY <2>2, <2>3, <2>4, <2>5 DEF ContactsInv
<1> QED
  BY <1>1, <1>2, <1>3, <1>4, <1>5, <1>6, <1>7, <1>8 DEF ContactsNext

(* A pair's contacts stay as written while a step may look at them, and    *)
(* the touch functions hear of a pair once, whatever number of pairs,      *)
(* contacts and buffers there is.                                          *)
THEOREM ContactsStayKept == ContactsSpec => []ContactsKept
<1>1. ContactsInv => ContactsKept
  <2> SUFFICES ASSUME ContactsInv PROVE ContactsKept
    OBVIOUS
  <2>1. ContactsType
    BY DEF ContactsInv, ArbTyped, Arbiter, BufTyped, TellTyped, RingRight, ContactsType, Old
  <2>2. BeginsOnce
    <3>1. inside = "collide" => \A p \in Pairs: Times(p) = IF p \in twice THEN 2 ELSE IF p \in metNow THEN 1 ELSE 0
      BY ContactsAssumption DEF ContactsInv, NewRight, Times
    <3> QED
      BY <3>1 DEF ContactsInv, TellTyped, Solved, Begun, BeginsOnce
  <2> QED
    BY <2>1, <2>2 DEF ContactsInv, ContactsKept
<1> QED
  BY <1>1, ContactsStart, ContactsKeep, PTL DEF ContactsSpec

-----------------------------------------------------------------------------
(* The spatial hash (SpaceHash).                                           *)

(* A query is under way, or what it left is still to be read.              *)
Asking == at \in {"visit", "query", "func"}
Inside == at \in {"query", "func"}

(* A shape and its handle know each other, and it is somewhere as long as  *)
(* it has one.                                                             *)
Linked ==
  /\ \A o \in Obj, h \in Hand: hobj[h] = o <=> handle[o] = h
  /\ \A o \in Obj: box[o] = {} <=> handle[o] = NONE

Counted ==
  \A h \in Hand:
    /\ retain[h] = Cardinality(In(h)) + (IF h \in Hashed THEN 1 ELSE 0)
                   + (IF cur = h /\ cell # NONE THEN 1 ELSE 0)
    /\ h \in pooled <=> retain[h] = 0

(* What is set in each phase of a step or a query.                         *)
Phase ==
  /\ at \in {"idle", "step", "asked"} => stamped = {}
  /\ ~Asking \/ ~moving => cur = NONE
  /\ Asking /\ moving => cur \in Hashed \ left /\ sought = box[hobj[cur]]
  /\ Asking => poss \subseteq sought
  /\ at # "lost" => (cell # NONE <=> Inside)
  /\ Inside => cell \in Cells(sought \ poss) /\ bins \subseteq table[cell]
  /\ Inside /\ cur # NONE => cur \notin table[cell]
  /\ at = "func" => other \in (Hashed \cap table[cell]) \ bins
  /\ at \notin {"func", "lost"} => other = NONE
  /\ at = "step" => moving
  /\ at \in {"asked", "lost"} => ~moving
  /\ at = "asked" => poss = {}
  /\ left \subseteq Hashed
  /\ at = "idle" \/ ~moving => left = {}

(* The cells a handle is in: none before the step has come to it, those    *)
(* already done while it does.                                             *)
Should(h) ==
  IF h \in left THEN {}
  ELSE IF h = cur THEN Cells(sought \ poss) \ {cell}
  ELSE Cells(box[hobj[h]])
Where == \A h \in Hashed, c \in Cell: h \in table[c] <=> c \in Should(h)

(* Who has met: at least those that share a cell the query has done, ...   *)
MovingMet ==
  moving /\ at # "idle" =>
    \A h, k \in Hashed, c \in Cell: h # k /\ h \in table[c] /\ k \in table[c] => {hobj[h], hobj[k]} \in met
CellMet == Inside => \A h \in table[cell] \ bins: h \in Hashed => Pair(h) \in met
StaticMet ==
  ~moving /\ (Asking \/ at = "asked") =>
    \A h \in Hashed, c \in Cells(sought \ poss): h \in table[c] /\ c # cell => {hobj[h]} \in met

(* ... and only those that share one at all.                               *)
MovingOnly ==
  moving /\ at # "idle" =>
    \A pr \in met: \E h, k \in Hashed \ left: h # k /\ pr = {hobj[h], hobj[k]} /\ Near(hobj[h], hobj[k])
StaticOnly ==
  ~moving /\ (Asking \/ at = "asked") =>
    \A pr \in met: \E h \in Hashed: pr = {hobj[h]} /\ Cells(box[hobj[h]]) \cap Cells(sought) # {}

(* The stamp is on handles that have met what is sought, on all of them if *)
(* nobody has asked in the middle of it.                                   *)
Stamped == Asking => \A h \in stamped: h \in Hashed /\ Pair(h) \in met
Once ==
  ~nested => /\ again = {}
             /\ Asking => \A h \in Hashed \ {cur}: Pair(h) \in met => h \in stamped \cup {other}

Answered == at = "idle" /\ found # NONE => found.objs = {o \in Obj: found.cell \in Cells(box[o])}

Meetings ==
  /\ MovingMet /\ CellMet /\ StaticMet /\ MovingOnly /\ StaticOnly
  /\ Stamped /\ Once /\ Answered
HashInv == SpaceHashType /\ Linked /\ Counted /\ Phase /\ Where /\ Meetings

USE DEF handles, walk, history

-----------------------------------------------------------------------------
(* The operators.                                                          *)

(* Who has a handle, said by the handles.                                  *)
LEMMA HashedIs ==
  ASSUME SpaceHashType, Linked
  PROVE  /\ Hashed \subseteq Hand
         /\ \A h \in Hand: /\ h \in Hashed <=> hobj[h] \in Obj
                           /\ h \in Hashed <=> hobj[h] # NONE
         /\ \A h \in Hashed: hobj[h] \in Obj /\ handle[hobj[h]] = h /\ box[hobj[h]] # {}
         /\ \A h, k \in Hashed: hobj[h] = hobj[k] => h = k
         /\ \A o \in Obj: handle[o] # NONE => handle[o] \in Hashed /\ hobj[handle[o]] = o
         /\ NONE \notin Hashed
<1>1. Hashed \subseteq Hand /\ NONE \notin Hashed
  BY DEF Hashed, SpaceHashType
<1>2. \A o \in Obj: handle[o] # NONE => handle[o] \in Hashed /\ hobj[handle[o]] = o
  BY DEF Hashed, SpaceHashType, Linked
<1>3. \A h \in Hashed: hobj[h] \in Obj /\ handle[hobj[h]] = h
  <2> SUFFICES ASSUME NEW o \in Obj, handle[o] # NONE
               PROVE  hobj[handle[o]] \in Obj /\ handle[hobj[handle[o]]] = handle[o]
    BY DEF Hashed
  <2> QED
    BY <1>2
<1>4. \A h \in Hand: hobj[h] # NONE => hobj[h] \in Obj /\ h \in Hashed
  BY SpaceHashAssumption DEF Hashed, SpaceHashType, Linked
<1>5. \A h \in Hashed: box[hobj[h]] # {}
  BY <1>3, <1>1 DEF Linked
<1> QED
  BY <1>1, <1>2, <1>3, <1>4, <1>5, SpaceHashAssumption

LEMMA CellsAre ==
  ASSUME NEW b \in SUBSET Pos
  PROVE  Cells(b) \subseteq Cell /\ \A p \in b: CellOf[p] \in Cells(b) /\ CellOf[p] \in Cell
  BY SpaceHashAssumption DEF Cells

LEMMA InFinite == \A h: IsFiniteSet(In(h)) /\ Cardinality(In(h)) \in Nat /\ In(h) \subseteq Cell
<1> SUFFICES ASSUME NEW h PROVE IsFiniteSet(In(h)) /\ Cardinality(In(h)) \in Nat /\ In(h) \subseteq Cell
  OBVIOUS
<1>1. In(h) \in SUBSET Cell /\ IsFiniteSet(Cell)
  BY SpaceHashAssumption DEF In
<1>2. IsFiniteSet(In(h))
  BY <1>1, FS_Subset
<1> QED
  BY <1>1, <1>2, FS_CardinalityType

LEMMA SomeFinite ==
  ASSUME NEW S \in SUBSET Cell
  PROVE  IsFiniteSet(S) /\ Cardinality(S) \in Nat
<1>1. IsFiniteSet(Cell)
  BY SpaceHashAssumption
<1>2. IsFiniteSet(S)
  BY <1>1, FS_Subset
<1> QED
  BY <1>2, FS_CardinalityType

(* What counts while no cell is being looked at.                           *)
LEMMA CountedFrom ==
  ASSUME cell' = NONE, NEW S, S = Hashed',
         \A h \in Hand: /\ Cardinality(In(h)') \in Nat
                        /\ retain'[h] = Cardinality(In(h)') + (IF h \in S THEN 1 ELSE 0)
                        /\ h \in pooled' <=> retain'[h] = 0
  PROVE  Counted'
  BY DEF Counted

(* A handle that nobody retains is nowhere, and is no shape's.             *)
LEMMA NobodyRetains ==
  ASSUME Counted, NEW h \in Hand, retain[h] = 0
  PROVE  In(h) = {} /\ h \notin Hashed /\ (cur # h \/ cell = NONE)
<1>1. Cardinality(In(h)) \in Nat /\ IsFiniteSet(In(h))
  BY InFinite
<1>2. retain[h] = Cardinality(In(h)) + (IF h \in Hashed THEN 1 ELSE 0) + (IF cur = h /\ cell # NONE THEN 1 ELSE 0)
  BY DEF Counted
<1>3. Cardinality(In(h)) = 0 /\ h \notin Hashed /\ ~(cur = h /\ cell # NONE)
  BY <1>1, <1>2
<1> QED
  BY <1>1, <1>3, FS_EmptySet

(* What is left when a handle is in no cell any more.                      *)
LEMMA KeptIs ==
  ASSUME Counted, NEW h \in Hand, cell = NONE
  PROVE  Kept(h) = IF h \in Hashed THEN 1 ELSE 0
<1>1. retain[h] = Cardinality(In(h)) + (IF h \in Hashed THEN 1 ELSE 0)
  BY InFinite DEF Counted
<1>2. Cardinality(In(h)) \in Nat
  BY InFinite
<1> QED
  BY <1>1, <1>2 DEF Kept

LEMMA CountedStays ==
  ASSUME Counted, UNCHANGED <<handle, retain, pooled, table>>,
         (cur' = cur /\ cell' = cell) \/ (cell = NONE /\ cell' = NONE)
  PROVE  Counted'
<1>1. \A h: In(h)' = In(h)
  BY DEF In
<1>2. Hashed' = Hashed
  BY DEF Hashed
<1> QED
  BY <1>1, <1>2 DEF Counted

LEMMA LinkedStays ==
  ASSUME UNCHANGED <<handle, hobj, box>>
  PROVE  Hashed' = Hashed /\ (Linked => Linked')
  BY DEF Hashed, Linked

(* Between steps there is nothing to say of a query.                       *)
LEMMA IdleMeets ==
  ASSUME at' = "idle", ~nested' => again' = {}, Answered'
  PROVE  Meetings'
  BY DEF Meetings, MovingMet, CellMet, StaticMet, MovingOnly, StaticOnly, Stamped, Once, Asking, Inside

LEMMA IdlePhase ==
  ASSUME at = "idle", at' = "idle", Phase, UNCHANGED <<moving, left, cur, cell, other>>, stamped' = {}
  PROVE  Phase'
  BY DEF Phase, Asking, Inside

-----------------------------------------------------------------------------
(* Between steps.                                                          *)

LEMMA HashStart == SpaceHashInit => HashInv
<1> SUFFICES ASSUME SpaceHashInit PROVE HashInv
  OBVIOUS
<1> USE DEF SpaceHashInit
<1>1. SpaceHashType
  BY DEF SpaceHashType
<1>2. Linked
  BY SpaceHashAssumption DEF Linked
<1>3. Hashed = {}
  BY DEF Hashed
<1>4. \A h: In(h) = {}
  BY DEF In
<1>5. Counted
  BY <1>3, <1>4, FS_EmptySet DEF Counted
<1>6. Phase /\ Where
  BY <1>3 DEF Phase, Where, Asking, Inside
<1>7. Meetings
  BY DEF Meetings, MovingMet, CellMet, StaticMet, MovingOnly, StaticOnly, Stamped, Once, Answered, Asking, Inside
<1> QED
  BY <1>1, <1>2, <1>5, <1>6, <1>7 DEF HashInv

LEMMA InsertKeeps ==
  ASSUME HashInv, NEW o \in Obj, NEW b \in Boxes, Insert(o, b)
  PROVE  HashInv'
<1>1. PICK h \in pooled:
        /\ handle' = [handle EXCEPT ![o] = h] /\ hobj' = [hobj EXCEPT ![h] = o]
        /\ pooled' = pooled \ {h} /\ stamped' = stamped \ {h}
        /\ retain' = [retain EXCEPT ![h] = 1 + Cardinality(Cells(b) \ In(h))]
        /\ table' = [c \in Cell |-> IF c \in Cells(b) THEN table[c] \cup {h} ELSE table[c]]
  BY DEF Insert
<1>2. /\ at = "idle" /\ handle[o] = NONE /\ box' = [box EXCEPT ![o] = b] /\ found' = NONE
      /\ UNCHANGED <<moving, at, left, cur, poss, bins, cell, other, sought, met, again, nested>>
  BY DEF Insert
<1>3. SpaceHashType /\ Linked /\ Counted /\ Phase /\ Where /\ Once
  BY DEF HashInv, Meetings
<1>4. left = {} /\ cur = NONE /\ cell = NONE /\ stamped = {} /\ h \in Hand /\ b \subseteq Pos /\ b # {} /\ h # NONE
  <2>1. left = {} /\ cur = NONE /\ cell = NONE /\ stamped = {}
    BY <1>2, <1>3 DEF Phase, Asking, Inside
  <2>2. h \in Hand /\ b \in (SUBSET Pos) \ {{}}
    BY <1>3, SpaceHashAssumption DEF SpaceHashType
  <2>3. b \subseteq Pos /\ b # {}
    BY <2>2
  <2>4. h # NONE
    BY <2>2, SpaceHashAssumption
  <2> QED
    BY <2>1, <2>2, <2>3, <2>4
<1>5. retain[h] = 0 /\ In(h) = {} /\ h \notin Hashed
  BY <1>3, <1>4, NobodyRetains DEF Counted
<1>6. hobj[h] = NONE
  BY <1>3, <1>4, <1>5, HashedIs DEF SpaceHashType
<1>7. Cells(b) \subseteq Cell /\ IsFiniteSet(Cells(b)) /\ Cardinality(Cells(b)) \in Nat
  <2>1. Cells(b) \in SUBSET Cell
    BY <1>4, CellsAre
  <2> QED
    BY <2>1, SpaceHashAssumption, FS_Subset, FS_CardinalityType
<1>8. retain' = [retain EXCEPT ![h] = 1 + Cardinality(Cells(b))]
  <2>1. Cells(b) \ In(h) = Cells(b)
    BY <1>5
  <2> QED
    BY <1>1, <2>1
<1>9. SpaceHashType'
  BY <1>1, <1>2, <1>3, <1>4, <1>7, <1>8 DEF SpaceHashType
<1>10. Linked'
  BY <1>1, <1>2, <1>3, <1>4, <1>6, SpaceHashAssumption DEF SpaceHashType, Linked
<1>11. Hashed' = Hashed \cup {h}
  BY <1>1, <1>2, <1>3, <1>4 DEF Hashed, SpaceHashType
<1>12. In(h)' = Cells(b) /\ \A k: k # h => In(k)' = In(k)
  BY <1>1, <1>5, <1>7 DEF In
<1>13. Counted'
  <2>1. ASSUME NEW k \in Hand
        PROVE  /\ Cardinality(In(k)') \in Nat
               /\ retain'[k] = Cardinality(In(k)') + (IF k \in Hashed \cup {h} THEN 1 ELSE 0)
               /\ k \in pooled' <=> retain'[k] = 0
    <3>1. CASE k = h
      BY <1>1, <1>3, <1>7, <1>8, <1>12, <3>1 DEF SpaceHashType
    <3>2. CASE k # h
      <4>1. /\ Cardinality(In(k)) \in Nat /\ In(k)' = In(k)
            /\ retain[k] = Cardinality(In(k)) + (IF k \in Hashed THEN 1 ELSE 0)
            /\ k \in pooled <=> retain[k] = 0
        BY <1>3, <1>4, <1>12, <3>2, InFinite DEF Counted
      <4>2. retain'[k] = retain[k] /\ (k \in pooled' <=> k \in pooled)
        BY <1>1, <1>3, <1>8, <3>2 DEF SpaceHashType
      <4> QED
        BY <3>2, <4>1, <4>2
    <3> QED
      BY <3>1, <3>2
  <2>2. cell' = NONE
    BY <1>2, <1>4
  <2> QED
    BY <1>11, <2>1, <2>2, CountedFrom
<1>14. Phase'
  BY <1>1, <1>2, <1>3, <1>4, IdlePhase
<1>15. Where'
  <2> SUFFICES ASSUME NEW k \in Hashed \cup {h}, NEW c \in Cell
               PROVE  k \in table'[c] <=> c \in Cells(box'[hobj'[k]])
    <3>1. \A k \in Hashed \cup {h}: k \notin left' /\ k # cur'
      BY <1>2, <1>3, <1>4, HashedIs
    <3>2. \A k, c: (c \in Cells(box[hobj[k]]))' <=> c \in Cells(box'[hobj'[k]])
      BY DEF Cells
    <3> QED
      BY <1>11, <3>1, <3>2 DEF Where, Should
  <2>1. CASE k = h
    BY <1>1, <1>2, <1>3, <1>4, <1>5, <2>1 DEF SpaceHashType, In
  <2>2. CASE k # h
    <3>1. k \in Hashed /\ hobj'[k] = hobj[k] /\ hobj[k] \in Obj /\ hobj[k] # o
      BY <1>1, <1>2, <1>3, <1>4, <1>11, <2>2, HashedIs DEF SpaceHashType
    <3>2. box'[hobj[k]] = box[hobj[k]] /\ (k \in table'[c] <=> k \in table[c])
      BY <1>1, <1>2, <1>3, <2>2, <3>1 DEF SpaceHashType
    <3>3. k \in table[c] <=> c \in Cells(box[hobj[k]])
      BY <1>3, <1>4, <3>1, HashedIs DEF Where, Should
    <3> QED
      BY <3>1, <3>2, <3>3
  <2> QED
    BY <2>1, <2>2
<1>16. Meetings'
  BY <1>2, <1>3, IdleMeets DEF Once, Answered
<1> QED
  BY <1>9, <1>10, <1>13, <1>14, <1>15, <1>16 DEF HashInv

LEMMA RemoveKeeps ==
  ASSUME HashInv, NEW o \in Obj, RemoveObj(o)
  PROVE  HashInv'
<1> DEFINE h == handle[o]
<1>1. /\ at = "idle" /\ h # NONE /\ handle' = [handle EXCEPT ![o] = NONE]
      /\ hobj' = [hobj EXCEPT ![h] = NONE] /\ retain' = [retain EXCEPT ![h] = @ - 1]
      /\ pooled' = pooled \cup Released(h) /\ box' = [box EXCEPT ![o] = {}] /\ found' = NONE
      /\ UNCHANGED <<moving, stamped, table, at, left, cur, poss, bins, cell, other, sought, met, again, nested>>
  BY DEF RemoveObj
<1>2. SpaceHashType /\ Linked /\ Counted /\ Phase /\ Where /\ Once
  BY DEF HashInv, Meetings
<1>3. left = {} /\ cur = NONE /\ cell = NONE /\ stamped = {} /\ h \in Hashed /\ h \in Hand /\ hobj[h] = o
  BY <1>1, <1>2, HashedIs DEF Phase, Asking, Inside
<1>4. \A p \in Obj: p # o => handle[p] # h
  BY <1>2, <1>3 DEF Linked, SpaceHashType
<1> HIDE DEF h
<1>5. Hashed' = Hashed \ {h}
  <2>1. \A p \in Obj: handle'[p] = IF p = o THEN NONE ELSE handle[p]
    BY <1>1, <1>2 DEF SpaceHashType
  <2>2. handle[o] = h
    BY DEF h
  <2> QED
    BY <1>4, <2>1, <2>2 DEF Hashed
<1>6. \A k: In(k)' = In(k)
  BY <1>1 DEF In
<1>7. /\ retain[h] = Cardinality(In(h)) + 1 /\ Cardinality(In(h)) \in Nat
  BY <1>2, <1>3, InFinite DEF Counted
<1>8. SpaceHashType'
  BY <1>1, <1>2, <1>3, <1>7 DEF SpaceHashType, Released
<1>9. Linked'
  BY <1>1, <1>2, <1>3, <1>4, SpaceHashAssumption DEF SpaceHashType, Linked
<1>10. Counted'
  <2>1. ASSUME NEW k \in Hand
        PROVE  /\ Cardinality(In(k)') \in Nat
               /\ retain'[k] = Cardinality(In(k)') + (IF k \in Hashed \ {h} THEN 1 ELSE 0)
               /\ k \in pooled' <=> retain'[k] = 0
    <3>1. CASE k = h
      <4>1. retain'[h] = Cardinality(In(h)) /\ h \notin pooled
        BY <1>1, <1>2, <1>3, <1>7 DEF SpaceHashType, Counted
      <4> QED
        BY <1>1, <1>6, <1>7, <3>1, <4>1 DEF Released
    <3>2. CASE k # h
      <4>1. /\ Cardinality(In(k)) \in Nat /\ In(k)' = In(k)
            /\ retain[k] = Cardinality(In(k)) + (IF k \in Hashed THEN 1 ELSE 0)
            /\ k \in pooled <=> retain[k] = 0
        BY <1>2, <1>3, <1>6, <3>2, InFinite DEF Counted
      <4>2. retain'[k] = retain[k] /\ (k \in pooled' <=> k \in pooled)
        BY <1>1, <1>2, <3>2 DEF SpaceHashType, Released
      <4> QED
        BY <3>2, <4>1, <4>2
    <3> QED
      BY <3>1, <3>2
  <2>2. cell' = NONE
    BY <1>1, <1>3
  <2> QED
    BY <1>5, <2>1, <2>2, CountedFrom
<1>11. Phase'
  BY <1>1, <1>2, <1>3, IdlePhase
<1>12. Where'
  <2> SUFFICES ASSUME NEW k \in Hashed \ {h}, NEW c \in Cell
               PROVE  k \in table[c] <=> c \in Cells(box'[hobj'[k]])
    <3>1. \A k \in Hashed \ {h}: k \notin left' /\ k # cur'
      BY <1>1, <1>2, <1>3, HashedIs
    <3>2. \A k, c: (c \in Cells(box[hobj[k]]))' <=> c \in Cells(box'[hobj'[k]])
      BY DEF Cells
    <3> QED
      BY <1>1, <1>5, <3>1, <3>2 DEF Where, Should
  <2>1. k \in Hashed /\ k # h /\ k \in Hand /\ hobj[k] \in Obj /\ hobj[k] # o
    BY <1>2, <1>3, <1>5, HashedIs
  <2>2. hobj'[k] = hobj[k] /\ box'[hobj[k]] = box[hobj[k]]
    BY <1>1, <1>2, <2>1 DEF SpaceHashType
  <2>3. k \in table[c] <=> c \in Cells(box[hobj[k]])
    BY <1>2, <1>3, <2>1, HashedIs DEF Where, Should
  <2> QED
    BY <2>2, <2>3
<1>13. Meetings'
  BY <1>1, <1>2, IdleMeets DEF Once, Answered
<1> QED
  BY <1>8, <1>9, <1>10, <1>11, <1>12, <1>13 DEF HashInv

(* The two ways a table is made anew: with the static shapes where they    *)
(* are now, and empty.                                                     *)
LEMMA Rehashed ==
  ASSUME HashInv, at = "idle", NEW b \in [Obj -> Boxes \cup {{}}],
         \A o \in Obj: (b[o] = {}) <=> (handle[o] = NONE),
         box' = b, UNCHANGED <<moving, handle, hobj>>
  PROVE  /\ SpaceHashType /\ Linked /\ Counted /\ left = {} /\ cur = NONE /\ cell = NONE /\ stamped = {}
         /\ Linked' /\ Hashed' = Hashed /\ box' \in [Obj -> SUBSET Pos]
         /\ \A h \in Hand: Kept(h) = IF h \in Hashed THEN 1 ELSE 0
         /\ \A h \in Hand: h \in pooled \cup PooledBy <=> h \notin Hashed
<1>1. SpaceHashType /\ Linked /\ Counted /\ Phase
  BY DEF HashInv
<1>2. left = {} /\ cur = NONE /\ cell = NONE /\ stamped = {}
  BY <1>1 DEF Phase, Asking, Inside
<1>3. \A h \in Hand: Kept(h) = IF h \in Hashed THEN 1 ELSE 0
  BY <1>1, <1>2, KeptIs
<1>4. ASSUME NEW h \in Hand PROVE h \in pooled \cup PooledBy <=> h \notin Hashed
  <2>1. h \in pooled => h \notin Hashed
    BY <1>1, NobodyRetains DEF Counted
  <2>2. h \in PooledBy => h \notin Hashed
    BY <1>3 DEF PooledBy
  <2>3. ASSUME h \notin Hashed, h \notin pooled PROVE h \in PooledBy
    <3>1. Kept(h) = 0 /\ retain[h] = Cardinality(In(h)) /\ retain[h] # 0
      BY <1>1, <1>2, <1>3, <2>3, InFinite DEF Counted
    <3>2. In(h) # {}
      BY <3>1, FS_EmptySet
    <3> QED
      BY <3>1, <3>2 DEF PooledBy
  <2> QED
    BY <2>1, <2>2, <2>3
<1>5. Linked' /\ Hashed' = Hashed /\ box' \in [Obj -> SUBSET Pos]
  <2>1. Hashed' = Hashed
    BY DEF Hashed
  <2>2. Linked'
    BY <1>1 DEF Linked
  <2> QED
    BY <2>1, <2>2, SpaceHashAssumption
<1> QED
  BY <1>1, <1>2, <1>3, <1>4, <1>5

LEMMA RehashKeeps ==
  ASSUME HashInv, NEW b \in [Obj -> Boxes \cup {{}}], Rehash(b)
  PROVE  HashInv'
<1>1. /\ at = "idle" /\ ~moving /\ \A o \in Obj: (b[o] = {}) <=> (handle[o] = NONE)
      /\ box' = b
      /\ table' = [c \in Cell |-> {handle[o]: o \in {p \in Obj: c \in Cells(b[p])}}]
      /\ retain' = [h \in Hand |-> Kept(h) + Cardinality({c \in Cell: h \in table'[c]})]
      /\ pooled' = pooled \cup PooledBy /\ found' = NONE
      /\ UNCHANGED <<moving, handle, hobj, stamped, at, left, cur, poss, bins, cell, other, sought,
                     met, again, nested>>
  BY DEF Rehash
<1>2. /\ SpaceHashType /\ Linked /\ Counted /\ left = {} /\ cur = NONE /\ cell = NONE /\ stamped = {}
      /\ Linked' /\ Hashed' = Hashed /\ box' \in [Obj -> SUBSET Pos]
      /\ \A h \in Hand: Kept(h) = IF h \in Hashed THEN 1 ELSE 0
      /\ \A h \in Hand: h \in pooled \cup PooledBy <=> h \notin Hashed
  BY <1>1, Rehashed
<1>3. \A o \in Obj, c \in Cell: c \in Cells(b[o]) => handle[o] # NONE
  BY <1>1 DEF Cells
<1>4. /\ table' \in [Cell -> SUBSET Hand]
      /\ \A h \in Hashed, c \in Cell: h \in table'[c] <=> c \in Cells(b[hobj[h]])
      /\ \A c \in Cell: table'[c] \subseteq Hashed
  <2>1. ASSUME NEW c \in Cell PROVE table'[c] \subseteq Hashed
    BY <1>1, <1>3, <2>1 DEF Hashed
  <2>2. ASSUME NEW h \in Hashed, NEW c \in Cell PROVE h \in table'[c] <=> c \in Cells(b[hobj[h]])
    <3>1. hobj[h] \in Obj /\ handle[hobj[h]] = h /\ \A p \in Obj: handle[p] = h => p = hobj[h]
      BY <1>2, <2>2, HashedIs DEF Linked
    <3> QED
      BY <1>1, <3>1
  <2>3. \A c \in Cell: table'[c] \in SUBSET Hand
    BY <1>2, <2>1, HashedIs
  <2> QED
    BY <1>1, <2>1, <2>2, <2>3
<1>5. \A h \in Hand: {c \in Cell: h \in table'[c]} = In(h)' /\ retain'[h] = Kept(h) + Cardinality(In(h)')
  BY <1>1 DEF In
<1>6. \A h: IsFiniteSet(In(h)') /\ Cardinality(In(h)') \in Nat
  <2>1. \A h: In(h)' \in SUBSET Cell
    BY DEF In
  <2> QED
    BY <2>1, SomeFinite
<1>7. Counted'
  <2>1. ASSUME NEW h \in Hand
        PROVE  /\ Cardinality(In(h)') \in Nat
               /\ retain'[h] = Cardinality(In(h)') + (IF h \in Hashed THEN 1 ELSE 0)
               /\ h \in pooled' <=> retain'[h] = 0
    <3>1. Cardinality(In(h)') \in Nat /\ retain'[h] = Cardinality(In(h)') + (IF h \in Hashed THEN 1 ELSE 0)
      BY <1>2, <1>5, <1>6
    <3>2. CASE h \in Hashed
      BY <1>1, <1>2, <3>1, <3>2
    <3>3. CASE h \notin Hashed
      <4>1. In(h)' = {}
        BY <1>4, <3>3 DEF In
      <4>2. Cardinality(In(h)') = 0
        BY <4>1, FS_EmptySet
      <4> QED
        BY <1>1, <1>2, <3>1, <3>3, <4>2
    <3> QED
      BY <3>1, <3>2, <3>3
  <2>2. cell' = NONE
    BY <1>1, <1>2
  <2> QED
    BY <1>2, <2>1, <2>2, CountedFrom
<1>8. retain' \in [Hand -> Nat]
  <2>1. \A h \in Hand: retain'[h] \in Nat
    BY <1>2, <1>5, <1>6
  <2> QED
    BY <1>1, <2>1
<1>9. SpaceHashType'
  BY <1>1, <1>2, <1>4, <1>8 DEF SpaceHashType, PooledBy
<1>10. Phase'
  BY <1>1, <1>2, IdlePhase DEF HashInv
<1>11. Where'
  BY <1>1, <1>2, <1>4, HashedIs DEF Where, Should
<1>12. Meetings'
  BY <1>1, IdleMeets DEF HashInv, Meetings, Once, Answered
<1> QED
  BY <1>2, <1>7, <1>9, <1>10, <1>11, <1>12 DEF HashInv

-----------------------------------------------------------------------------
(* Steps and queries.                                                      *)

(* Shapes, handles and cells stay as they are.                             *)
Fixed == UNCHANGED <<moving, handle, hobj, pooled, box>>

LEMMA FixedShapes ==
  ASSUME Fixed, HashInv
  PROVE  /\ Hashed' = Hashed /\ Linked'
         /\ \A h: (Cells(box[hobj[h]]))' = Cells(box[hobj[h]])
         /\ \A o, p: Near(o, p)' = Near(o, p)
<1>1. UNCHANGED <<handle, hobj, box>>
  BY DEF Fixed
<1> QED
  BY <1>1, LinkedStays DEF HashInv, Near, Cells

(* Where the handles should be, unless the walk goes on.                   *)
LEMMA WhereStays ==
  ASSUME Fixed, HashInv, UNCHANGED <<table, left, poss, cell, sought, cur>>
  PROVE  Where'
<1>1. \A h: Should(h)' = Should(h)
  BY DEF Should, Cells, Fixed
<1>2. Hashed' = Hashed
  BY FixedShapes
<1> QED
  BY <1>1, <1>2 DEF Where, HashInv

LEMMA RehashInQueryKeeps ==
  ASSUME HashInv, RehashInQuery
  PROVE  HashInv'
<1>1. /\ at = "func" /\ ~moving /\ at' = "lost" /\ Fixed
      /\ UNCHANGED <<retain, stamped, table, left, cur, poss, bins, cell, other, sought, met, again, nested, found>>
  BY DEF RehashInQuery, Fixed
<1>2. SpaceHashType /\ Counted /\ Phase /\ Once
  BY DEF HashInv, Meetings
<1>3. Hashed' = Hashed /\ Linked' /\ Where'
  BY <1>1, FixedShapes, WhereStays
<1>4. SpaceHashType'
  BY <1>1, <1>2 DEF SpaceHashType, Fixed
<1>5. Counted'
  BY <1>1, <1>2, CountedStays DEF Fixed
<1>6. Phase'
  BY <1>1, <1>2, <1>3 DEF Phase, Asking, Inside, Fixed
<1>7. Meetings'
  BY <1>1, <1>2
  DEF Meetings, MovingMet, CellMet, StaticMet, MovingOnly, StaticOnly, Stamped, Once, Answered, Asking, Inside, Fixed
<1> QED
  BY <1>3, <1>4, <1>5, <1>6, <1>7 DEF HashInv

(* The meetings as long as the walk only goes on inside of a cell.         *)
LEMMA PairStays ==
  ASSUME UNCHANGED <<hobj, cur>>
  PROVE  \A h: Pair(h)' = Pair(h)
  BY DEF Pair

LEMMA OnlyStays ==
  ASSUME Fixed, HashInv, UNCHANGED <<left, sought, met>>,
         at # "idle", at' # "idle", at' \in {"visit", "query", "func", "asked"} => Asking
  PROVE  MovingOnly' /\ StaticOnly'
<1>1. /\ Hashed' = Hashed /\ \A o, p: Near(o, p)' = Near(o, p)
      /\ \A h: (Cells(box[hobj[h]]))' = Cells(box[hobj[h]])
      /\ UNCHANGED <<hobj, moving>>
  BY FixedShapes DEF Fixed
<1>2. MovingOnly /\ StaticOnly
  BY DEF HashInv, Meetings
<1>3. MovingOnly'
  BY <1>1, <1>2 DEF MovingOnly
<1>4. StaticOnly'
  <2>1. (Cells(sought))' = Cells(sought)
    BY DEF Cells
  <2> QED
    BY <1>1, <1>2, <2>1 DEF StaticOnly, Asking
<1> QED
  BY <1>3, <1>4

LEMMA PointQueryKeeps ==
  ASSUME HashInv, NEW c \in Cell, PointQuery(c)
  PROVE  HashInv'
<1>1. /\ at \in {"idle", "func"} /\ found' = [cell |-> c, objs |-> Finds(c)] /\ stamped' = {}
      /\ nested' = (nested \/ at = "func") /\ Fixed
      /\ UNCHANGED <<retain, table, at, left, cur, poss, bins, cell, other, sought, met, again>>
  BY DEF PointQuery, Fixed
<1>2. SpaceHashType /\ Linked /\ Counted /\ Phase /\ Where /\ Meetings
  BY DEF HashInv
<1>3. Hashed' = Hashed /\ Linked' /\ Where'
  BY <1>1, FixedShapes, WhereStays
<1>4. SpaceHashType'
  BY <1>1, <1>2 DEF SpaceHashType, Fixed
<1>5. Counted'
  BY <1>1, <1>2, CountedStays DEF Fixed
<1>6. Phase'
  BY <1>1, <1>2, <1>3 DEF Phase, Asking, Inside, Fixed
<1>7. ASSUME at = "idle" PROVE Meetings'
  <2>1. stamped = {} /\ left = {} /\ cur = NONE
    BY <1>2, <1>7 DEF Phase, Asking, Inside
  <2>2. \A h \in Hashed: h \in table[c] <=> c \in Cells(box[hobj[h]])
    BY <1>2, <2>1, HashedIs DEF Where, Should
  <2>3. ASSUME NEW o \in Obj, c \in Cells(box[o]) PROVE o \in Finds(c)
    <3>1. handle[o] # NONE
      BY <1>2, <2>3 DEF Linked, Cells
    <3>2. handle[o] \in Hashed /\ hobj[handle[o]] = o
      BY <1>2, <3>1, HashedIs
    <3> QED
      BY <2>1, <2>2, <2>3, <3>2, SpaceHashAssumption DEF Finds
  <2>4. ASSUME NEW o \in Finds(c) PROVE o \in Obj /\ c \in Cells(box[o])
    <3>1. PICK h \in table[c]: o = hobj[h] /\ hobj[h] # NONE
      BY <2>4 DEF Finds
    <3>2. h \in Hashed
      BY <1>2, <3>1, HashedIs DEF SpaceHashType
    <3> QED
      BY <1>2, <2>2, <3>1, <3>2, HashedIs
  <2>5. Finds(c) = {o \in Obj: c \in Cells(box[o])}
    BY <2>3, <2>4
  <2>6. Answered'
    BY <1>1, <2>5 DEF Answered, Cells, Fixed
  <2>7. ~nested' => again' = {}
    BY <1>1, <1>2 DEF Meetings, Once
  <2> QED
    BY <1>1, <1>7, <2>6, <2>7, IdleMeets
<1>8. ASSUME at = "func" PROVE Meetings'
  <2>1. MovingOnly' /\ StaticOnly'
    BY <1>1, <1>8, OnlyStays DEF Asking
  <2>2. MovingMet'
    BY <1>1, <1>2, <1>3, <1>8 DEF Meetings, MovingMet, Fixed
  <2>3. CellMet'
    BY <1>1, <1>2, <1>3, <1>8, PairStays DEF Meetings, CellMet, Inside, Fixed
  <2>4. StaticMet'
    BY <1>1, <1>2, <1>3, <1>8 DEF Meetings, StaticMet, Asking, Cells, Fixed
  <2>5. Stamped' /\ Once' /\ Answered'
    BY <1>1, <1>8 DEF Stamped, Once, Answered
  <2> QED
    BY <2>1, <2>2, <2>3, <2>4, <2>5 DEF Meetings
<1> QED
  BY <1>1, <1>3, <1>4, <1>5, <1>6, <1>7, <1>8 DEF HashInv

LEMMA StepBeginsKeeps ==
  ASSUME HashInv, NEW b \in [Obj -> Boxes \cup {{}}], StepBegins(b)
  PROVE  HashInv'
<1>1. /\ at = "idle" /\ moving /\ \A o \in Obj: (b[o] = {}) <=> (handle[o] = NONE)
      /\ box' = b /\ table' = [c \in Cell |-> {}] /\ retain' = [h \in Hand |-> Kept(h)]
      /\ pooled' = pooled \cup PooledBy /\ left' = Hashed /\ at' = "step"
      /\ met' = {} /\ again' = {} /\ nested' = FALSE /\ found' = NONE
      /\ UNCHANGED <<moving, handle, hobj, stamped, cur, poss, bins, cell, other, sought>>
  BY DEF StepBegins, Anew
<1>2. /\ SpaceHashType /\ Linked /\ Counted /\ left = {} /\ cur = NONE /\ cell = NONE /\ stamped = {}
      /\ Linked' /\ Hashed' = Hashed /\ box' \in [Obj -> SUBSET Pos]
      /\ \A h \in Hand: Kept(h) = IF h \in Hashed THEN 1 ELSE 0
      /\ \A h \in Hand: h \in pooled \cup PooledBy <=> h \notin Hashed
  BY <1>1, Rehashed
<1>3. Hashed \subseteq Hand
  BY <1>2, HashedIs
<1>4. \A h: In(h)' = {}
  BY <1>1 DEF In
<1>5. Counted'
  <2>1. ASSUME NEW h \in Hand
        PROVE  /\ Cardinality(In(h)') \in Nat
               /\ retain'[h] = Cardinality(In(h)') + (IF h \in Hashed THEN 1 ELSE 0)
               /\ h \in pooled' <=> retain'[h] = 0
    <3>1. Cardinality(In(h)') = 0
      BY <1>4, FS_EmptySet
    <3> QED
      BY <1>1, <1>2, <3>1
  <2>2. cell' = NONE
    BY <1>1, <1>2
  <2> QED
    BY <1>2, <2>1, <2>2, CountedFrom
<1>6. retain' \in [Hand -> Nat]
  BY <1>1, <1>2
<1>7. SpaceHashType'
  BY <1>1, <1>2, <1>3, <1>6 DEF SpaceHashType, PooledBy
<1>8. Phase'
  BY <1>1, <1>2 DEF HashInv, Phase, Asking, Inside
<1>9. Where'
  BY <1>1, <1>2 DEF Where, Should
<1>10. Meetings'
  BY <1>1 DEF Meetings, MovingMet, CellMet, StaticMet, MovingOnly, StaticOnly, Stamped, Once, Answered, Asking, Inside
<1> QED
  BY <1>2, <1>5, <1>7, <1>8, <1>9, <1>10 DEF HashInv

LEMMA VisitKeeps ==
  ASSUME HashInv, NEW h \in Hand, Visit(h)
  PROVE  HashInv'
<1>1. /\ at = "step" /\ h \in left /\ left' = left \ {h} /\ cur' = h
      /\ poss' = box[hobj[h]] /\ sought' = box[hobj[h]] /\ at' = "visit" /\ Fixed
      /\ UNCHANGED <<retain, stamped, table, bins, cell, other, met, again, nested, found>>
  BY DEF Visit, Fixed
<1>2. SpaceHashType /\ Linked /\ Counted /\ Phase /\ Where /\ Meetings
  BY DEF HashInv
<1>3. Hashed' = Hashed /\ Linked'
  BY <1>1, FixedShapes
<1>4. moving /\ cell = NONE /\ cur = NONE /\ stamped = {} /\ other = NONE /\ h \in Hashed /\ left \subseteq Hashed
  BY <1>1, <1>2 DEF Phase, Asking, Inside
<1>5. SpaceHashType'
  <2>1. box[hobj[h]] \subseteq Pos
    BY <1>2, <1>4, HashedIs DEF SpaceHashType
  <2> QED
    BY <1>1, <1>2, <2>1 DEF SpaceHashType, Fixed
<1>6. Counted'
  BY <1>1, <1>2, <1>4, CountedStays DEF Fixed
<1>7. Phase'
  BY <1>1, <1>2, <1>3, <1>4 DEF Phase, Asking, Inside, Fixed
<1>8. Where'
  <2>1. \A c: c \notin (Cells(sought \ poss))'
    BY <1>1 DEF Cells
  <2>2. \A k \in Hashed: k # cur
    BY <1>2, <1>4, HashedIs
  <2>3. \A k: (Cells(box[hobj[k]]))' = Cells(box[hobj[k]])
    BY <1>1, FixedShapes
  <2>4. \A k \in Hashed: \A c: c \in Should(k)' <=> c \in Should(k)
    BY <1>1, <2>1, <2>2, <2>3 DEF Should
  <2> QED
    BY <1>1, <1>2, <1>3, <2>4 DEF Where
<1>9. Once'
  <2>1. ASSUME NEW k \in Hashed, k # h PROVE {hobj[k], hobj[h]} \notin met
    <3>1. SUFFICES ASSUME NEW x \in Hashed \ left, NEW y \in Hashed \ left, {hobj[k], hobj[h]} = {hobj[x], hobj[y]}
                   PROVE  FALSE
      BY <1>1, <1>2, <1>4 DEF Meetings, MovingOnly
    <3>2. hobj[h] = hobj[x] \/ hobj[h] = hobj[y]
      BY <3>1
    <3>3. h = x \/ h = y
      BY <1>2, <1>4, <3>2, HashedIs
    <3> QED
      BY <1>1, <3>3
  <2>2. \A k: Pair(k)' = {hobj[k]} \cup {hobj[h]}
    BY <1>1, <1>4, <1>2, HashedIs DEF Pair, Fixed
  <2>3. \A k \in Hashed \ {h}: Pair(k)' \notin met'
    <3> SUFFICES ASSUME NEW k \in Hashed, k # h PROVE {hobj[k]} \cup {hobj[h]} \notin met
      BY <1>1, <2>2
    <3>1. {hobj[k]} \cup {hobj[h]} = {hobj[k], hobj[h]}
      OBVIOUS
    <3> QED
      BY <2>1, <3>1
  <2> QED
    BY <1>1, <1>2, <1>3, <2>3 DEF Meetings, Once
<1>10. MovingOnly'
  <2>1. \A o, p: Near(o, p)' = Near(o, p)
    BY <1>1, FixedShapes
  <2> QED
    BY <1>1, <1>2, <1>3, <1>4, <2>1 DEF Meetings, MovingOnly, Fixed
<1>11. MovingMet'
  BY <1>1, <1>2, <1>3, <1>4 DEF Meetings, MovingMet, Fixed
<1>12. CellMet' /\ StaticMet' /\ StaticOnly' /\ Stamped' /\ Answered'
  BY <1>1, <1>4 DEF CellMet, StaticMet, StaticOnly, Stamped, Answered, Inside, Fixed
<1> QED
  BY <1>3, <1>5, <1>6, <1>7, <1>8, <1>9, <1>10, <1>11, <1>12 DEF HashInv, Meetings

LEMMA SeekKeeps ==
  ASSUME HashInv, NEW b \in Boxes, Seek(b)
  PROVE  HashInv'
<1>1. /\ at = "idle" /\ ~moving /\ poss' = b /\ sought' = b /\ at' = "visit" /\ Fixed
      /\ met' = {} /\ again' = {} /\ nested' = FALSE /\ found' = NONE
      /\ UNCHANGED <<retain, stamped, table, left, cur, bins, cell, other>>
  BY DEF Seek, Anew, Fixed
<1>2. SpaceHashType /\ Linked /\ Counted /\ Phase /\ Where
  BY DEF HashInv
<1>3. Hashed' = Hashed /\ Linked'
  BY <1>1, FixedShapes
<1>4. left = {} /\ cell = NONE /\ cur = NONE /\ stamped = {} /\ other = NONE
  BY <1>1, <1>2 DEF Phase, Asking, Inside
<1>5. b \subseteq Pos
  BY SpaceHashAssumption
<1>6. SpaceHashType'
  BY <1>1, <1>2, <1>5 DEF SpaceHashType, Fixed
<1>7. Counted'
  BY <1>1, <1>2, CountedStays DEF Fixed
<1>8. Phase'
  BY <1>1, <1>2, <1>3, <1>4 DEF Phase, Asking, Inside, Fixed
<1>9. Where'
  <2>1. \A k: (Cells(box[hobj[k]]))' = Cells(box[hobj[k]])
    BY <1>1, FixedShapes
  <2>2. \A k \in Hashed: k # cur
    BY <1>2, <1>4, HashedIs
  <2>3. \A k \in Hashed: Should(k)' = Should(k)
    BY <1>1, <2>1, <2>2 DEF Should
  <2> QED
    BY <1>1, <1>2, <1>3, <2>3 DEF Where
<1>10. StaticMet'
  <2>1. \A c: c \notin (Cells(sought \ poss))'
    BY <1>1 DEF Cells
  <2> QED
    BY <2>1 DEF StaticMet
<1>11. MovingMet' /\ CellMet' /\ MovingOnly' /\ StaticOnly' /\ Stamped' /\ Once' /\ Answered'
  BY <1>1, <1>4 DEF MovingMet, CellMet, MovingOnly, StaticOnly, Stamped, Once, Answered, Inside, Fixed
<1> QED
  BY <1>3, <1>6, <1>7, <1>8, <1>9, <1>10, <1>11 DEF HashInv, Meetings

(* Cells done, when one more position has been looked at.                  *)
LEMMA CellsGrow ==
  ASSUME NEW p \in poss, poss \subseteq sought, poss' = poss \ {p}, sought' = sought
  PROVE  /\ (Cells(sought \ poss))' = Cells(sought \ poss) \cup {CellOf[p]}
         /\ CellOf[p] \in (Cells(sought \ poss))'
<1>1. (sought \ poss)' = (sought \ poss) \cup {p}
  OBVIOUS
<1>2. (Cells(sought \ poss))' = {CellOf[q]: q \in (sought \ poss) \cup {p}}
  BY <1>1 DEF Cells
<1> QED
  BY <1>2 DEF Cells

LEMMA LookAtKeeps ==
  ASSUME HashInv, NEW p \in Pos, LookAt(p)
  PROVE  HashInv'
<1> DEFINE c == CellOf[p]
           done == cur # NONE /\ cur \in table[c]
<1>1. /\ at = "visit" /\ p \in poss /\ poss' = poss \ {p} /\ Fixed
      /\ UNCHANGED <<stamped, table, left, cur, other, sought, met, again, nested, found>>
      /\ done => UNCHANGED <<at, bins, cell, retain>>
      /\ ~done => /\ at' = "query" /\ bins' = table[c] /\ cell' = c
                  /\ cur = NONE => retain' = retain
                  /\ cur # NONE => retain' = [retain EXCEPT ![cur] = @ + 1]
  BY DEF LookAt, Fixed
<1>2. SpaceHashType /\ Linked /\ Counted /\ Phase /\ Where /\ Meetings
  BY DEF HashInv
<1>3. Hashed' = Hashed /\ Linked'
  BY <1>1, FixedShapes
<1>4. /\ cell = NONE /\ other = NONE /\ poss \subseteq sought /\ c \in Cell /\ c # NONE
      /\ moving => cur \in Hashed \ left /\ sought = box[hobj[cur]]
      /\ ~moving => cur = NONE
  BY <1>1, <1>2, SpaceHashAssumption DEF Phase, Asking, Inside
<1>5. (Cells(sought \ poss))' = Cells(sought \ poss) \cup {c} /\ c \in (Cells(sought \ poss))'
  BY <1>1, <1>4, CellsGrow
<1>6. Cells(sought \ poss) \subseteq Cell /\ NONE \notin Cell
  <2>1. sought \ poss \in SUBSET Pos
    BY <1>2 DEF SpaceHashType
  <2> QED
    BY <2>1, CellsAre, SpaceHashAssumption
<1>7. cur # NONE => cur \in Hand /\ cur \in Hashed /\ cur \notin left
  BY <1>2, <1>4, HashedIs
<1>8. cur # NONE => (cur \in table[c] <=> c \in Cells(sought \ poss))
  <2> SUFFICES ASSUME cur # NONE PROVE cur \in table[c] <=> c \in Cells(sought \ poss)
    OBVIOUS
  <2>1. Should(cur) = Cells(sought \ poss) \ {cell}
    BY <1>7 DEF Should
  <2> QED
    BY <1>2, <1>4, <1>6, <1>7, <2>1 DEF Where
<1> HIDE DEF c
<1>9. retain' \in [Hand -> Nat]
  BY <1>1, <1>2, <1>7 DEF SpaceHashType
<1>10. SpaceHashType'
  <2>1. bins' \subseteq Hand /\ cell' \in Cell \cup {NONE} /\ at' \in {"visit", "query"}
    BY <1>1, <1>2, <1>4 DEF SpaceHashType
  <2> QED
    BY <1>1, <1>2, <1>9, <2>1 DEF SpaceHashType, Fixed
<1>11. \A h: In(h)' = In(h)
  BY <1>1 DEF In
<1>12. Counted'
  <2> SUFFICES ASSUME NEW h \in Hand
               PROVE  /\ retain'[h] = Cardinality(In(h)) + (IF h \in Hashed THEN 1 ELSE 0)
                                      + (IF cur = h /\ cell' # NONE THEN 1 ELSE 0)
                      /\ h \in pooled <=> retain'[h] = 0
    BY <1>1, <1>3, <1>11 DEF Counted, Fixed
  <2>1. /\ retain[h] = Cardinality(In(h)) + (IF h \in Hashed THEN 1 ELSE 0)
        /\ h \in pooled <=> retain[h] = 0
        /\ Cardinality(In(h)) \in Nat
    BY <1>2, <1>4, InFinite DEF Counted
  <2>2. CASE h = cur /\ ~done
    <3>1. h # NONE /\ h \in Hashed /\ cell' # NONE
      BY <1>1, <1>2, <1>4, <1>7, <2>2, SpaceHashAssumption
    <3>2. retain'[h] = retain[h] + 1
      BY <1>1, <1>2, <2>2, <3>1 DEF SpaceHashType
    <3> QED
      BY <2>1, <2>2, <3>1, <3>2
  <2>3. CASE h = cur /\ done
    BY <1>1, <1>4, <2>1, <2>3
  <2>4. CASE h # cur
    <3>1. retain'[h] = retain[h]
      BY <1>1, <1>2, <2>4 DEF SpaceHashType
    <3> QED
      BY <2>1, <2>4, <3>1
  <2> QED
    BY <2>2, <2>3, <2>4
<1>13. Phase'
  <2>1. CASE done
    BY <1>1, <1>2, <1>3, <1>4, <2>1 DEF Phase, Asking, Inside, Fixed
  <2>2. CASE ~done
    BY <1>1, <1>2, <1>3, <1>4, <1>5, <2>2 DEF Phase, Asking, Inside, Fixed
  <2> QED
    BY <2>1, <2>2
<1>14. Where'
  <2>1. \A k: (Cells(box[hobj[k]]))' = Cells(box[hobj[k]])
    BY <1>1, FixedShapes
  <2>2. \A k \in Hashed: k # cur => Should(k)' = Should(k)
    BY <1>1, <2>1 DEF Should
  <2>3. ASSUME NEW k \in Hashed, k = cur PROVE Should(k)' = Should(k)
    <3>1. cur # NONE
      BY <1>2, <2>3, HashedIs
    <3>2. Should(k) = Cells(sought \ poss) \ {cell} /\ Should(k)' = (Cells(sought \ poss))' \ {cell'}
      BY <1>1, <1>7, <2>3, <3>1 DEF Should
    <3>3. CASE done
      <4>1. c \in Cells(sought \ poss) /\ cell' = cell
        BY <1>1, <1>8, <3>3
      <4> QED
        BY <1>5, <3>2, <4>1
    <3>4. CASE ~done
      <4>1. c \notin Cells(sought \ poss) /\ cell' = c
        BY <1>1, <1>8, <3>1, <3>4
      <4> QED
        BY <1>4, <1>5, <1>6, <3>2, <4>1
    <3> QED
      BY <3>3, <3>4
  <2>4. \A k \in Hashed: Should(k)' = Should(k)
    BY <2>2, <2>3
  <2> QED
    BY <1>1, <1>2, <1>3, <2>4 DEF Where
<1>15. Pair(cur)' = Pair(cur) /\ \A h: Pair(h)' = Pair(h)
  BY <1>1, PairStays DEF Fixed
<1>16. CellMet'
  <2>1. CASE done
    BY <1>1, <2>1 DEF CellMet, Inside
  <2>2. CASE ~done
    BY <1>1, <2>2 DEF CellMet
  <2> QED
    BY <2>1, <2>2
<1>17. StaticMet'
  <2>1. CASE moving
    BY <1>1, <2>1 DEF StaticMet, Fixed
  <2>2. CASE ~moving
    <3>1. ~done /\ cell' = c
      BY <1>1, <1>4, <2>2
    <3>2. \A h \in Hashed, d \in Cells(sought \ poss): h \in table[d] => {hobj[h]} \in met
      <4>1. \A d \in Cells(sought \ poss): d # cell
        BY <1>4, <1>6
      <4> QED
        BY <1>1, <1>2, <2>2, <4>1 DEF Meetings, StaticMet, Asking
    <3>3. \A d \in (Cells(sought \ poss))': d # cell' => d \in Cells(sought \ poss)
      BY <1>5, <3>1
    <3> QED
      BY <1>1, <1>3, <3>2, <3>3 DEF StaticMet, Fixed
  <2> QED
    BY <2>1, <2>2
<1>18. at' \in {"visit", "query"}
  BY <1>1
<1>19. MovingOnly' /\ StaticOnly'
  BY <1>1, OnlyStays DEF Asking
<1>20. MovingMet'
  BY <1>1, <1>2, <1>3 DEF Meetings, MovingMet, Fixed
<1>21. Stamped' /\ Once'
  BY <1>1, <1>2, <1>3, <1>15 DEF Meetings, Stamped, Once, Asking
<1>22. Answered'
  BY <1>18 DEF Answered
<1> QED
  BY <1>3, <1>10, <1>12, <1>13, <1>14, <1>16, <1>17, <1>19, <1>20, <1>21, <1>22 DEF HashInv, Meetings

LEMMA SkipBinKeeps ==
  ASSUME HashInv, NEW h \in Hand, SkipBin(h)
  PROVE  HashInv'
<1>1. /\ at = "query" /\ h \in bins /\ (h \in stamped \/ hobj[h] = NONE)
      /\ bins' = bins \ {h} /\ Fixed
      /\ UNCHANGED <<retain, stamped, table, at, left, cur, poss, cell, other, sought, met, again, nested, found>>
  BY DEF SkipBin, Fixed
<1>2. SpaceHashType /\ Linked /\ Counted /\ Phase /\ Where /\ Meetings
  BY DEF HashInv
<1>3. Hashed' = Hashed /\ Linked' /\ Where'
  BY <1>1, FixedShapes, WhereStays
<1>4. SpaceHashType' /\ Counted'
  BY <1>1, <1>2, CountedStays DEF SpaceHashType, Fixed
<1>5. Phase'
  BY <1>1, <1>2, <1>3 DEF Phase, Asking, Inside, Cells, Fixed
<1>6. \A k: Pair(k)' = Pair(k)
  BY <1>1, PairStays DEF Fixed
<1>7. CellMet'
  <2>1. h \in Hashed => Pair(h) \in met
    BY <1>1, <1>2, HashedIs DEF Meetings, Stamped, Asking
  <2> QED
    BY <1>1, <1>2, <1>3, <1>6, <2>1 DEF Meetings, CellMet, Inside
<1>8. MovingOnly' /\ StaticOnly'
  <2>1. at # "idle" /\ at' # "idle" /\ Asking
    BY <1>1 DEF Asking
  <2> QED
    BY <1>1, <2>1, OnlyStays
<1>9. MovingMet' /\ Stamped' /\ Once' /\ Answered'
  BY <1>1, <1>2, <1>3, <1>6 DEF Meetings, MovingMet, Stamped, Once, Answered, Asking, Fixed
<1>10. StaticMet'
  BY <1>1, <1>2, <1>3 DEF Meetings, StaticMet, Asking, Cells, Fixed
<1> QED
  BY <1>3, <1>4, <1>5, <1>7, <1>8, <1>9, <1>10 DEF HashInv, Meetings

LEMMA CallFuncKeeps ==
  ASSUME HashInv, NEW h \in Hand, CallFunc(h)
  PROVE  HashInv'
<1>1. /\ at = "query" /\ h \in bins /\ h \notin stamped /\ hobj[h] # NONE
      /\ bins' = bins \ {h} /\ other' = h /\ at' = "func" /\ Fixed
      /\ met' = met \cup {Pair(h)} /\ again' = again \cup ({Pair(h)} \cap met)
      /\ UNCHANGED <<retain, stamped, table, left, cur, poss, cell, sought, nested, found>>
  BY DEF CallFunc, Fixed
<1>2. SpaceHashType /\ Linked /\ Counted /\ Phase /\ Where /\ Meetings
  BY DEF HashInv
<1>3. Hashed' = Hashed /\ Linked' /\ Where'
  BY <1>1, FixedShapes, WhereStays
<1>4. SpaceHashType'
  BY <1>1, <1>2 DEF SpaceHashType, Fixed
<1>5. Counted'
  BY <1>1, <1>2, CountedStays DEF Fixed
<1>6. h \in Hashed /\ h \in table[cell] /\ other = NONE /\ hobj[h] \in Obj
  BY <1>1, <1>2, HashedIs DEF Phase, Inside
<1>7. Phase'
  BY <1>1, <1>2, <1>3, <1>6 DEF Phase, Asking, Inside, Cells, Fixed
<1>8. \A k: Pair(k)' = Pair(k)
  BY <1>1, PairStays DEF Fixed
<1>9. /\ cell \in Cells(sought \ poss) /\ cell \in Cells(sought) /\ cell \in Cell
      /\ cur # NONE => cur \notin table[cell]
      /\ moving => cur \in Hashed \ left /\ sought = box[hobj[cur]]
      /\ ~moving => cur = NONE
  <2>1. cell \in Cells(sought \ poss) /\ sought \ poss \in SUBSET Pos
    BY <1>1, <1>2 DEF Phase, Inside, SpaceHashType
  <2>2. cell \in Cells(sought) /\ cell \in Cell
    BY <2>1, CellsAre DEF Cells
  <2> QED
    BY <1>1, <1>2, <2>1, <2>2 DEF Phase, Asking, Inside
<1>10. h # cur /\ h \notin left /\ cell \in Cells(box[hobj[h]])
  <2>1. h # cur
    BY <1>2, <1>6, <1>9, HashedIs
  <2>2. cell \in Should(h)
    BY <1>2, <1>6, <1>9 DEF Where
  <2> QED
    BY <2>1, <2>2 DEF Should
<1>11. MovingMet' /\ CellMet'
  BY <1>1, <1>2, <1>3, <1>8 DEF Meetings, MovingMet, CellMet, Inside, Fixed
<1>12. StaticMet'
  BY <1>1, <1>2, <1>3 DEF Meetings, StaticMet, Asking, Cells, Fixed
<1>13. MovingOnly'
  <2> SUFFICES ASSUME moving, NEW pr \in met \cup {Pair(h)}
               PROVE  \E x, y \in Hashed \ left: x # y /\ pr = {hobj[x], hobj[y]} /\ Near(hobj[x], hobj[y])
    <3>1. \A o, p: Near(o, p)' = Near(o, p)
      BY <1>1, FixedShapes
    <3> QED
      BY <1>1, <1>3, <3>1 DEF MovingOnly, Fixed
  <2>1. CASE pr \in met
    BY <1>1, <1>2, <2>1 DEF Meetings, MovingOnly
  <2>2. CASE pr = Pair(h)
    <3>1. cur # NONE
      BY <1>2, <1>9, HashedIs
    <3>2. pr = {hobj[h], hobj[cur]}
      BY <2>2, <3>1 DEF Pair
    <3>3. Near(hobj[h], hobj[cur])
      BY <1>9, <1>10 DEF Near
    <3> QED
      BY <1>6, <1>9, <1>10, <3>2, <3>3
  <2> QED
    BY <2>1, <2>2
<1>14. StaticOnly'
  <2> SUFFICES ASSUME ~moving, NEW pr \in met \cup {Pair(h)}
               PROVE  \E x \in Hashed: pr = {hobj[x]} /\ Cells(box[hobj[x]]) \cap Cells(sought) # {}
    <3>1. (Cells(sought))' = Cells(sought) /\ \A k: (Cells(box[hobj[k]]))' = Cells(box[hobj[k]])
      BY <1>1, FixedShapes DEF Cells
    <3> QED
      BY <1>1, <1>3, <3>1 DEF StaticOnly, Fixed
  <2>1. CASE pr \in met
    BY <1>1, <1>2, <2>1 DEF Meetings, StaticOnly, Asking
  <2>2. CASE pr = Pair(h)
    <3>1. pr = {hobj[h]}
      BY <1>9, <2>2 DEF Pair
    <3> QED
      BY <1>6, <1>9, <1>10, <3>1
  <2> QED
    BY <2>1, <2>2
<1>15. Stamped'
  BY <1>1, <1>2, <1>3, <1>8 DEF Meetings, Stamped, Asking
<1>16. Once'
  <2> SUFFICES ASSUME ~nested
               PROVE  again' = {} /\ \A k \in Hashed \ {cur}: Pair(k) \in met' => k \in stamped \cup {h}
    BY <1>1, <1>3, <1>8 DEF Once
  <2>1. again = {} /\ \A k \in Hashed \ {cur}: Pair(k) \in met => k \in stamped
    <3>1. \A k \in Hashed: k # other
      BY <1>2, <1>6, HashedIs
    <3> QED
      BY <1>1, <1>2, <3>1 DEF Meetings, Once, Asking
  <2>2. Pair(h) \notin met
    BY <1>1, <1>6, <1>10, <2>1
  <2>3. ASSUME NEW k \in Hashed, k # cur, Pair(k) = Pair(h) PROVE k = h
    <3>1. hobj[k] = hobj[h] \/ (cur # NONE /\ hobj[k] = hobj[cur])
      BY <2>3 DEF Pair
    <3>2. cur # NONE => cur \in Hashed
      BY <1>9
    <3> QED
      BY <1>2, <1>6, <2>3, <3>1, <3>2, HashedIs
  <2> QED
    BY <1>1, <2>1, <2>2, <2>3
<1>17. Answered'
  BY <1>1 DEF Answered
<1> QED
  BY <1>3, <1>4, <1>5, <1>7, <1>11, <1>12, <1>13, <1>14, <1>15, <1>16, <1>17 DEF HashInv, Meetings

LEMMA FuncReturnsKeeps ==
  ASSUME HashInv, FuncReturns
  PROVE  HashInv'
<1>1. /\ at = "func" /\ at' = "query" /\ stamped' = stamped \cup {other} /\ other' = NONE /\ Fixed
      /\ UNCHANGED <<retain, table, left, cur, poss, bins, cell, sought, met, again, nested, found>>
  BY DEF FuncReturns, Marked, Fixed
<1>2. SpaceHashType /\ Linked /\ Counted /\ Phase /\ Where /\ Meetings
  BY DEF HashInv
<1>3. Hashed' = Hashed /\ Linked' /\ Where'
  BY <1>1, FixedShapes, WhereStays
<1>4. other \in (Hashed \cap table[cell]) \ bins /\ other \in Hand
  BY <1>1, <1>2, HashedIs DEF Phase
<1>5. SpaceHashType'
  BY <1>1, <1>2, <1>4 DEF SpaceHashType, Fixed
<1>6. Counted'
  BY <1>1, <1>2, CountedStays DEF Fixed
<1>7. Phase'
  BY <1>1, <1>2, <1>3 DEF Phase, Asking, Inside, Cells, Fixed
<1>8. \A k: Pair(k)' = Pair(k)
  BY <1>1, PairStays DEF Fixed
<1>9. Stamped'
  <2>1. Pair(other) \in met
    BY <1>1, <1>2, <1>4 DEF Meetings, CellMet, Inside
  <2> QED
    BY <1>1, <1>2, <1>3, <1>4, <1>8, <2>1 DEF Meetings, Stamped, Asking
<1>10. MovingOnly' /\ StaticOnly'
  BY <1>1, OnlyStays DEF Asking
<1>11. MovingMet' /\ CellMet' /\ Once' /\ Answered'
  BY <1>1, <1>2, <1>3, <1>8 DEF Meetings, MovingMet, CellMet, Once, Answered, Asking, Inside, Fixed
<1>12. StaticMet'
  BY <1>1, <1>2, <1>3 DEF Meetings, StaticMet, Asking, Cells, Fixed
<1> QED
  BY <1>3, <1>5, <1>6, <1>7, <1>9, <1>10, <1>11, <1>12 DEF HashInv, Meetings

LEMMA CellDoneKeeps ==
  ASSUME HashInv, CellDone
  PROVE  HashInv'
<1>1. /\ at = "query" /\ bins = {} /\ at' = "visit" /\ cell' = NONE /\ Fixed
      /\ cur = NONE => table' = table
      /\ cur # NONE => table' = [table EXCEPT ![cell] = @ \cup {cur}]
      /\ UNCHANGED <<retain, stamped, left, cur, poss, bins, other, sought, met, again, nested, found>>
  BY DEF CellDone, Fixed
<1>2. SpaceHashType /\ Linked /\ Counted /\ Phase /\ Where /\ Meetings
  BY DEF HashInv
<1>3. Hashed' = Hashed /\ Linked'
  BY <1>1, FixedShapes
<1>4. /\ cell \in Cells(sought \ poss) /\ other = NONE
      /\ cur # NONE => cur \notin table[cell]
      /\ moving => cur \in Hashed \ left
      /\ ~moving => cur = NONE
  BY <1>1, <1>2 DEF Phase, Asking, Inside
<1>5. Cells(sought \ poss) \subseteq Cell /\ cell \in Cell /\ NONE \notin Cell
  <2>1. sought \ poss \in SUBSET Pos
    BY <1>2 DEF SpaceHashType
  <2> QED
    BY <1>4, <2>1, CellsAre, SpaceHashAssumption
<1>6. cur # NONE => cur \in Hand /\ cur \in Hashed /\ cur \notin left
  BY <1>2, <1>4, HashedIs
<1>7. /\ table' \in [Cell -> SUBSET Hand]
      /\ \A c \in Cell: table'[c] = IF c = cell /\ cur # NONE THEN table[c] \cup {cur} ELSE table[c]
  <2>1. CASE cur = NONE
    BY <1>1, <1>2, <2>1 DEF SpaceHashType
  <2>2. CASE cur # NONE
    <3>1. table \in [Cell -> SUBSET Hand] /\ cur \in Hand /\ table' = [table EXCEPT ![cell] = @ \cup {cur}]
      BY <1>1, <1>2, <1>6, <2>2 DEF SpaceHashType
    <3> QED
      BY <1>5, <2>2, <3>1
  <2> QED
    BY <2>1, <2>2
<1>8. SpaceHashType'
  BY <1>1, <1>2, <1>7 DEF SpaceHashType, Fixed
<1>9. \A h: h # cur \/ cur = NONE => In(h)' = In(h)
  BY <1>7 DEF In
<1>10. \A h: h = cur /\ cur # NONE => In(h)' = In(h) \cup {cell} /\ cell \notin In(h)
  BY <1>1, <1>4, <1>5, <1>7 DEF In
<1>11. Counted'
  <2>1. ASSUME NEW h \in Hand
        PROVE  /\ Cardinality(In(h)') \in Nat
               /\ retain'[h] = Cardinality(In(h)') + (IF h \in Hashed THEN 1 ELSE 0)
               /\ h \in pooled' <=> retain'[h] = 0
    <3>1. /\ retain[h] = Cardinality(In(h)) + (IF h \in Hashed THEN 1 ELSE 0) + (IF cur = h /\ cell # NONE THEN 1 ELSE 0)
          /\ h \in pooled <=> retain[h] = 0
      BY <1>2 DEF Counted
    <3>2. Cardinality(In(h)) \in Nat /\ IsFiniteSet(In(h))
      BY InFinite
    <3>3. CASE h = cur
      <4>1. cur # NONE /\ cell # NONE
        BY <1>4, <1>5, <3>3, SpaceHashAssumption
      <4>2. Cardinality(In(h)') = Cardinality(In(h)) + 1
        <5>1. In(h)' = In(h) \cup {cell} /\ cell \notin In(h)
          BY <1>10, <3>3, <4>1
        <5> QED
          BY <3>2, <5>1, FS_AddElement
      <4>3. retain'[h] = retain[h] /\ pooled' = pooled
        BY <1>1 DEF Fixed
      <4>4. retain[h] = Cardinality(In(h)) + (IF h \in Hashed THEN 1 ELSE 0) + 1
        BY <3>1, <3>3, <4>1
      <4> QED
        BY <3>1, <3>2, <4>2, <4>3, <4>4
    <3>4. CASE h # cur
      BY <1>1, <1>9, <3>1, <3>2, <3>4 DEF Fixed
    <3> QED
      BY <3>3, <3>4
  <2> QED
    BY <1>1, <1>3, <2>1, CountedFrom
<1>12. Phase'
  BY <1>1, <1>2, <1>3 DEF Phase, Asking, Inside, Fixed
<1>13. (Cells(sought \ poss))' = Cells(sought \ poss)
  BY <1>1 DEF Cells
<1>14. Where'
  <2>1. \A k: (Cells(box[hobj[k]]))' = Cells(box[hobj[k]])
    BY <1>1, FixedShapes
  <2>2. ASSUME NEW k \in Hashed, k # cur, NEW c \in Cell PROVE k \in table'[c] <=> c \in Should(k)'
    <3>1. Should(k)' = Should(k)
      BY <1>1, <2>1, <2>2 DEF Should
    <3> QED
      BY <1>2, <1>7, <2>2, <3>1 DEF Where
  <2>3. ASSUME cur \in Hashed, NEW c \in Cell PROVE cur \in table'[c] <=> c \in Should(cur)'
    <3>1. cur # NONE
      BY <1>2, <2>3, HashedIs
    <3>2. Should(cur) = Cells(sought \ poss) \ {cell} /\ Should(cur)' = Cells(sought \ poss) \ {NONE}
      BY <1>1, <1>6, <1>13, <3>1 DEF Should
    <3>3. cur \in table[c] <=> c \in Should(cur)
      BY <1>2, <2>3 DEF Where
    <3>4. cur \in table'[c] <=> (c = cell \/ cur \in table[c])
      BY <1>7, <3>1
    <3> QED
      BY <1>4, <1>5, <3>2, <3>3, <3>4
  <2>4. \A k \in Hashed, c \in Cell: k \in table'[c] <=> c \in Should(k)'
    BY <1>1, <2>2, <2>3
  <2> QED
    BY <1>3, <2>4 DEF Where
<1>15. \A k: Pair(k)' = Pair(k)
  BY <1>1, PairStays DEF Fixed
<1>16. \A k \in table[cell]: k \in Hashed => Pair(k) \in met
  BY <1>1, <1>2 DEF Meetings, CellMet, Inside
<1>17. MovingMet'
  <2> SUFFICES ASSUME moving, NEW h \in Hashed, NEW k \in Hashed, NEW c \in Cell,
                      h # k, h \in table'[c], k \in table'[c]
               PROVE  {hobj[h], hobj[k]} \in met
    BY <1>1, <1>3 DEF MovingMet, Fixed
  <2>1. cur # NONE
    BY <1>2, <1>4, HashedIs
  <2>2. CASE h \in table[c] /\ k \in table[c]
    BY <1>1, <1>2, <2>2 DEF Meetings, MovingMet
  <2>3. CASE h \notin table[c]
    <3>1. h = cur /\ c = cell /\ k \in table[cell]
      BY <1>7, <2>3
    <3>2. Pair(k) = {hobj[h], hobj[k]}
      BY <2>1, <3>1 DEF Pair
    <3> QED
      BY <1>16, <3>1, <3>2
  <2>4. CASE k \notin table[c]
    <3>1. k = cur /\ c = cell /\ h \in table[cell]
      BY <1>7, <2>4
    <3>2. Pair(h) = {hobj[h], hobj[k]}
      BY <2>1, <3>1 DEF Pair
    <3> QED
      BY <1>16, <3>1, <3>2
  <2> QED
    BY <2>2, <2>3, <2>4
<1>18. StaticMet'
  <2> SUFFICES ASSUME ~moving, NEW h \in Hashed, NEW c \in Cells(sought \ poss), h \in table[c]
               PROVE  {hobj[h]} \in met
    BY <1>1, <1>3, <1>4, <1>13 DEF StaticMet, Fixed
  <2>1. CASE c = cell
    <3>1. Pair(h) = {hobj[h]}
      BY <1>4 DEF Pair
    <3> QED
      BY <1>16, <2>1, <3>1
  <2>2. CASE c # cell
    BY <1>1, <1>2, <2>2 DEF Meetings, StaticMet, Asking
  <2> QED
    BY <2>1, <2>2
<1>19. MovingOnly' /\ StaticOnly'
  BY <1>1, OnlyStays DEF Asking
<1>20. CellMet' /\ Stamped' /\ Once' /\ Answered'
  BY <1>1, <1>2, <1>3, <1>15 DEF Meetings, CellMet, Stamped, Once, Answered, Asking, Inside
<1> QED
  BY <1>3, <1>8, <1>11, <1>12, <1>14, <1>17, <1>18, <1>19, <1>20 DEF HashInv, Meetings

LEMMA VisitDoneKeeps ==
  ASSUME HashInv, VisitDone
  PROVE  HashInv'
<1>1. /\ at = "visit" /\ poss = {} /\ stamped' = {} /\ cur' = NONE /\ Fixed
      /\ moving => at' = "step"
      /\ ~moving => at' = "asked"
      /\ UNCHANGED <<retain, table, left, poss, bins, cell, other, sought, met, again, nested, found>>
  BY DEF VisitDone, Fixed
<1>2. SpaceHashType /\ Linked /\ Counted /\ Phase /\ Where /\ Meetings
  BY DEF HashInv
<1>3. Hashed' = Hashed /\ Linked'
  BY <1>1, FixedShapes
<1>4. /\ cell = NONE /\ other = NONE
      /\ moving => cur \in Hashed \ left /\ sought = box[hobj[cur]]
      /\ ~moving => cur = NONE
  BY <1>1, <1>2 DEF Phase, Asking, Inside
<1>5. SpaceHashType'
  BY <1>1, <1>2 DEF SpaceHashType, Fixed
<1>6. Counted'
  BY <1>1, <1>2, <1>4, CountedStays DEF Fixed
<1>7. Phase'
  BY <1>1, <1>2, <1>3, <1>4 DEF Phase, Asking, Inside, Fixed
<1>8. Where'
  <2>1. \A k: (Cells(box[hobj[k]]))' = Cells(box[hobj[k]])
    BY <1>1, FixedShapes
  <2>2. \A k \in Hashed: k # NONE
    BY <1>2, HashedIs
  <2>3. ASSUME NEW k \in Hashed, k # cur PROVE Should(k)' = Should(k)
    BY <1>1, <2>1, <2>2, <2>3 DEF Should
  <2>4. ASSUME NEW k \in Hashed, k = cur
        PROVE  Should(k)' = Cells(box[hobj[k]]) /\ Should(k) = Cells(box[hobj[k]]) \ {NONE}
    <3>1. moving /\ k \notin left /\ sought = box[hobj[k]]
      BY <1>4, <2>2, <2>4
    <3>2. sought \ poss = box[hobj[k]]
      BY <1>1, <3>1
    <3>3. Should(k) = Cells(box[hobj[k]]) \ {NONE}
      BY <1>4, <2>4, <3>1, <3>2 DEF Should
    <3>4. k \notin left' /\ k # cur'
      BY <1>1, <2>2, <3>1
    <3> QED
      BY <2>1, <3>3, <3>4 DEF Should
  <2>5. \A k \in Hashed, c \in Cell: c \in Should(k)' <=> c \in Should(k)
    BY <2>3, <2>4, SpaceHashAssumption
  <2> QED
    BY <1>1, <1>2, <1>3, <2>5 DEF Where
<1>9. MovingOnly' /\ StaticOnly'
  BY <1>1, OnlyStays DEF Asking
<1>10. MovingMet' /\ CellMet' /\ Stamped' /\ Answered'
  BY <1>1, <1>2, <1>3 DEF Meetings, MovingMet, CellMet, Stamped, Answered, Asking, Inside, Fixed
<1>11. Once'
  BY <1>1, <1>2 DEF Meetings, Once, Asking
<1>12. StaticMet'
  BY <1>1, <1>2, <1>3 DEF Meetings, StaticMet, Asking, Cells, Fixed
<1> QED
  BY <1>3, <1>5, <1>6, <1>7, <1>8, <1>9, <1>10, <1>11, <1>12 DEF HashInv, Meetings

LEMMA StepDoneKeeps ==
  ASSUME HashInv, StepDone
  PROVE  HashInv'
<1>1. /\ (at = "step" /\ left = {}) \/ at = "asked"
      /\ at' = "idle" /\ sought' = {} /\ Fixed
      /\ met' = {} /\ again' = {} /\ nested' = FALSE /\ found' = NONE
      /\ UNCHANGED <<retain, stamped, table, left, cur, poss, bins, cell, other>>
  BY DEF StepDone, Anew, Fixed
<1>2. SpaceHashType /\ Linked /\ Counted /\ Phase /\ Where
  BY DEF HashInv
<1>3. Hashed' = Hashed /\ Linked'
  BY <1>1, FixedShapes
<1>4. left = {} /\ cell = NONE /\ cur = NONE /\ stamped = {} /\ other = NONE
  BY <1>1, <1>2 DEF Phase, Asking, Inside
<1>5. SpaceHashType'
  BY <1>1, <1>2 DEF SpaceHashType, Fixed
<1>6. Counted'
  BY <1>1, <1>2, CountedStays DEF Fixed
<1>7. Phase'
  BY <1>1, <1>4 DEF Phase, Asking, Inside
<1>8. Where'
  <2>1. \A k: (Cells(box[hobj[k]]))' = Cells(box[hobj[k]])
    BY <1>1, FixedShapes
  <2>2. \A k \in Hashed: k # cur
    BY <1>2, <1>4, HashedIs
  <2>3. \A k \in Hashed: Should(k)' = Should(k)
    BY <1>1, <2>1, <2>2 DEF Should
  <2> QED
    BY <1>1, <1>2, <1>3, <2>3 DEF Where
<1>9. Answered'
  BY <1>1 DEF Answered
<1>10. Meetings'
  BY <1>1, <1>9, IdleMeets
<1> QED
  BY <1>3, <1>5, <1>6, <1>7, <1>8, <1>10 DEF HashInv

LEMMA HashRests ==
  ASSUME HashInv, UNCHANGED spaceHashVars
  PROVE  HashInv'
<1>1. /\ Fixed
      /\ UNCHANGED <<moving, retain, stamped, table, at, left, cur, poss, bins, cell, other, sought,
                     met, again, nested, found>>
  BY DEF spaceHashVars, Fixed
<1>2. SpaceHashType /\ Linked /\ Counted /\ Phase /\ Where /\ Meetings
  BY DEF HashInv
<1>3. Hashed' = Hashed /\ Linked' /\ Where'
  BY <1>1, FixedShapes, WhereStays
<1>4. SpaceHashType'
  BY <1>1, <1>2 DEF SpaceHashType, Fixed
<1>5. Counted'
  BY <1>1, <1>2, CountedStays DEF Fixed
<1>6. Phase'
  BY <1>1, <1>2, <1>3 DEF Phase, Asking, Inside, Cells, Fixed
<1>7. \A k: Pair(k)' = Pair(k)
  BY <1>1, PairStays DEF Fixed
<1>8. MovingMet' /\ CellMet' /\ Stamped' /\ Once'
  BY <1>1, <1>2, <1>3, <1>7 DEF Meetings, MovingMet, CellMet, Stamped, Once, Asking, Inside, Fixed
<1>9. MovingOnly'
  <2>1. \A o, p: Near(o, p)' = Near(o, p)
    BY <1>1, FixedShapes
  <2> QED
    BY <1>1, <1>2, <1>3, <2>1 DEF Meetings, MovingOnly, Fixed
<1>10. StaticMet' /\ StaticOnly'
  <2>1. /\ (Cells(sought))' = Cells(sought) /\ (Cells(sought \ poss))' = Cells(sought \ poss)
        /\ \A k: (Cells(box[hobj[k]]))' = Cells(box[hobj[k]])
    BY <1>1, FixedShapes DEF Cells
  <2>2. StaticMet'
    BY <1>1, <1>2, <1>3, <2>1 DEF Meetings, StaticMet, Asking, Fixed
  <2>3. StaticOnly'
    BY <1>1, <1>2, <1>3, <2>1 DEF Meetings, StaticOnly, Asking, Fixed
  <2> QED
    BY <2>2, <2>3
<1>11. Answered'
  BY <1>1, <1>2 DEF Meetings, Answered, Cells, Fixed
<1> QED
  BY <1>3, <1>4, <1>5, <1>6, <1>8, <1>9, <1>10, <1>11 DEF HashInv, Meetings

LEMMA HashKeeps == HashInv /\ [SpaceHashNext]_spaceHashVars => HashInv'
<1> SUFFICES ASSUME HashInv, [SpaceHashNext]_spaceHashVars PROVE HashInv'
  OBVIOUS
<1>1. CASE UNCHANGED spaceHashVars
  BY <1>1, HashRests
<1>2. CASE Lost
  BY <1>2, HashRests DEF Lost
<1>3. CASE \E o \in Obj, b \in Boxes: Insert(o, b)
  BY <1>3, InsertKeeps
<1>4. CASE \E o \in Obj: RemoveObj(o)
  BY <1>4, RemoveKeeps
<1>5. CASE \E b \in [Obj -> Boxes \cup {{}}]: Rehash(b)
  BY <1>5, RehashKeeps
<1>6. CASE RehashInQuery
  BY <1>6, RehashInQueryKeeps
<1>7. CASE \E c \in Cell: PointQuery(c)
  BY <1>7, PointQueryKeeps
<1>8. CASE \E b \in [Obj -> Boxes \cup {{}}]: StepBegins(b)
  BY <1>8, StepBeginsKeeps
<1>9. CASE \E h \in Hand: Visit(h)
  BY <1>9, VisitKeeps
<1>10. CASE \E b \in Boxes: Seek(b)
  BY <1>10, SeekKeeps
<1>11. CASE \E p \in Pos: LookAt(p)
  BY <1>11, LookAtKeeps
<1>12. CASE \E h \in Hand: SkipBin(h)
  BY <1>12, SkipBinKeeps
<1>13. CASE \E h \in Hand: CallFunc(h)
  BY <1>13, CallFuncKeeps
<1>14. CASE FuncReturns
  BY <1>14, FuncReturnsKeeps
<1>15. CASE CellDone
  BY <1>15, CellDoneKeeps
<1>16. CASE VisitDone
  BY <1>16, VisitDoneKeeps
<1>17. CASE StepDone
  BY <1>17, StepDoneKeeps
<1> QED
  BY <1>1, <1>2, <1>3, <1>4, <1>5, <1>6, <1>7, <1>8, <1>9, <1>10, <1>11, <1>12, <1>13, <1>14, <1>15,
     <1>16, <1>17 DEF SpaceHashNext

LEMMA MetFromInv ==
  ASSUME HashInv
  PROVE  PairsMetOnce
<1>1. SpaceHashType /\ Linked /\ Phase /\ Where /\ Meetings
  BY DEF HashInv
<1>2. ASSUME at = "step", left = {}
      PROVE  /\ met = {pr \in SUBSET Obj: \E o, p \in Obj: o # p /\ pr = {o, p} /\ Near(o, p)}
             /\ again = {} \/ nested
  <2>1. moving /\ cur = NONE /\ cell = NONE
    BY <1>1, <1>2 DEF Phase, Asking, Inside
  <2>2. ASSUME NEW pr \in met
        PROVE  pr \in SUBSET Obj /\ \E o, p \in Obj: o # p /\ pr = {o, p} /\ Near(o, p)
    <3>1. PICK h, k \in Hashed: h # k /\ pr = {hobj[h], hobj[k]} /\ Near(hobj[h], hobj[k])
      BY <1>1, <1>2, <2>1, <2>2 DEF Meetings, MovingOnly
    <3>2. hobj[h] \in Obj /\ hobj[k] \in Obj /\ hobj[h] # hobj[k]
      BY <1>1, <3>1, HashedIs
    <3> QED
      BY <3>1, <3>2
  <2>3. ASSUME NEW o \in Obj, NEW p \in Obj, o # p, Near(o, p)
        PROVE  {o, p} \in met
    <3>1. PICK c: c \in Cells(box[o]) /\ c \in Cells(box[p])
      BY <2>3 DEF Near
    <3>2. handle[o] # NONE /\ handle[p] # NONE /\ c \in Cell
      <4>1. box[o] # {} /\ box[p] # {} /\ box[o] \in SUBSET Pos
        BY <1>1, <3>1 DEF Cells, SpaceHashType
      <4> QED
        BY <1>1, <3>1, <4>1, CellsAre DEF Linked
    <3>3. /\ handle[o] \in Hashed /\ hobj[handle[o]] = o /\ handle[p] \in Hashed /\ hobj[handle[p]] = p
          /\ handle[o] # NONE /\ handle[p] # NONE
      BY <1>1, <3>2, HashedIs
    <3>4. Should(handle[o]) = Cells(box[o]) /\ Should(handle[p]) = Cells(box[p])
      BY <1>2, <2>1, <3>3 DEF Should
    <3>5. handle[o] \in table[c] /\ handle[p] \in table[c] /\ handle[o] # handle[p]
      BY <1>1, <2>3, <3>1, <3>2, <3>3, <3>4 DEF Where
    <3> QED
      BY <1>1, <1>2, <2>1, <3>2, <3>3, <3>5 DEF Meetings, MovingMet
  <2>4. again = {} \/ nested
    BY <1>1 DEF Meetings, Once
  <2> QED
    BY <2>2, <2>3, <2>4
<1>3. ASSUME at = "asked"
      PROVE  /\ met = {{o}: o \in {p \in Obj: Cells(box[p]) \cap Cells(sought) # {}}}
             /\ again = {} \/ nested
  <2>1. ~moving /\ cur = NONE /\ cell = NONE /\ poss = {} /\ left = {}
    BY <1>1, <1>3 DEF Phase, Asking, Inside
  <2>2. ASSUME NEW pr \in met
        PROVE  \E o \in Obj: pr = {o} /\ Cells(box[o]) \cap Cells(sought) # {}
    <3>1. PICK h \in Hashed: pr = {hobj[h]} /\ Cells(box[hobj[h]]) \cap Cells(sought) # {}
      BY <1>1, <1>3, <2>1, <2>2 DEF Meetings, StaticOnly
    <3>2. hobj[h] \in Obj
      BY <1>1, <3>1, HashedIs
    <3> QED
      BY <3>1, <3>2
  <2>3. ASSUME NEW o \in Obj, Cells(box[o]) \cap Cells(sought) # {}
        PROVE  {o} \in met
    <3>1. PICK c: c \in Cells(box[o]) /\ c \in Cells(sought)
      BY <2>3
    <3>2. handle[o] # NONE /\ c \in Cell
      <4>1. box[o] # {} /\ box[o] \in SUBSET Pos
        BY <1>1, <3>1 DEF Cells, SpaceHashType
      <4> QED
        BY <1>1, <3>1, <4>1, CellsAre DEF Linked
    <3>3. handle[o] \in Hashed /\ hobj[handle[o]] = o
      BY <1>1, <3>2, HashedIs
    <3>4. Should(handle[o]) = Cells(box[o])
      BY <2>1, <3>2, <3>3 DEF Should
    <3>5. handle[o] \in table[c] /\ c # cell
      BY <1>1, <2>1, <3>1, <3>2, <3>3, <3>4, SpaceHashAssumption DEF Where
    <3>6. sought \ poss = sought
      BY <2>1
    <3>7. \A h \in Hashed, d \in Cells(sought): h \in table[d] /\ d # cell => {hobj[h]} \in met
      BY <1>1, <1>3, <2>1, <3>6 DEF Meetings, StaticMet
    <3> QED
      BY <3>1, <3>3, <3>5, <3>7
  <2>4. again = {} \/ nested
    BY <1>1 DEF Meetings, Once
  <2> QED
    BY <2>2, <2>3, <2>4
<1>4. at = "idle" /\ found # NONE => found.objs = {o \in Obj: found.cell \in Cells(box[o])}
  BY <1>1 DEF Meetings, Answered
<1> QED
  BY <1>2, <1>3, <1>4 DEF PairsMetOnce

(* The inductive invariant holds in every state of either hash.            *)
LEMMA HashAlways == SpaceHashSpec => []HashInv
  BY HashStart, HashKeeps, PTL DEF SpaceHashSpec

(* A handle goes back to the pool when nothing retains it any more, and no *)
(* sooner (cpSpaceHash.c): a cell never holds one that is handed out anew. *)
THEOREM HandlesStayCounted == SpaceHashSpec => []HandlesCounted
<1>1. HashInv => HandlesCounted
  BY DEF HashInv, HandlesCounted, Counted
<1> QED
  BY <1>1, HashAlways, PTL

(* A step hands on each pair of shapes that share a cell, a query each     *)
(* shape that shares one with it, nobody else, and none of them twice, for *)
(* any shapes, boxes and cells; a point query in between finds the shapes  *)
(* that are there.                                                         *)
THEOREM PairsMeetOnce == SpaceHashSpec => []PairsMetOnce
  BY MetFromInv, HashAlways, PTL
=============================================================================
