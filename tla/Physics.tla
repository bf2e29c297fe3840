------------------------------ MODULE Physics ------------------------------
(***************************************************************************)
(* Entities with a physical body (src/src/game/g_physics.c), as g_entity.c *)
(* creates, removes and frees them and as Chipmunk calls back in the       *)
(* middle of a step.                                                       *)
(*                                                                         *)
(* Single-threaded again: what interleaves is the touch functions, Lua     *)
(* code that Chipmunk's step reaches through g_physics_collision, and that *)
(* may do whatever game code may do.                                       *)
(*                                                                         *)
(* An element of Data is the address of a g_physics_data_t and of its      *)
(* cpBody, allocated and freed together; Shape are addresses of cpShapes.  *)
(* Where bodies are and how they move is left out: any two shapes of       *)
(* different bodies may meet in any step.                                  *)
(***************************************************************************)
EXTENDS Integers, FiniteSets, Shared

CONSTANTS
  Data,         (* Addresses of physics data.                                *)
  Shape,        (* Addresses of shapes.                                      *)
  MaxShapes,    (* Bound: shapes of a body.                                  *)
  MaxContacts,  (* CP_MAX_CONTACTS_PER_ARBITER, 6 in Chipmunk.               *)
  Steps,        (* PHYSICS_STEPS, 3 in the code.                             *)
  NULL          (* The null pointer; as an owner or a bearer: freed memory.  *)

ASSUME NullAssumption  == NULL \notin Ent \cup Data \cup Shape
ASSUME BoundAssumption ==
  /\ MaxShapes \in Nat \ {0} /\ MaxContacts \in Nat \ {0} /\ Steps \in Nat \ {0}
  /\ IsFiniteSet(Shape)

VARIABLES
  life,      (* An entity is "free", "listed" or "removed" (still allocated). *)
  pd,        (* physics_data.                                              *)
  owner,     (* body->data, the entity.                                    *)
  static,    (* is_static.                                                 *)
  solid,     (* is_solid.                                                  *)
  shapes,    (* The shapes of a body.                                      *)
  bearer,    (* shape->data, the entity.                                   *)
  bodies,    (* The space: its bodies,                                     *)
  active,    (* the hash of its moving shapes,                             *)
  statics,   (* the hash of its static shapes,                             *)
  arbiters,  (* and the contacts it solves when all pairs have been seen.  *)
  pc,        (* "idle", "step", "a", "touch a", "b", "touch b", "verdict", *)
             (* "free", "aborted".                                         *)
  steps,     (* Steps of this frame still to be made.                      *)
  pairs,     (* Pairs of shapes this step has still to see.                *)
  pair,      (* The pair g_physics_collision was called for: shapes a, b.  *)
  apd, bpd,  (* Its two pointers, read before the first touch.             *)
  contacts,  (* Contacts of that pair still to be told of.                 *)
  valid,     (* Its valid, atouch_blocked, btouch_blocked.                 *)
  ablocked,
  bblocked

memory      == <<pd, owner, static, shapes, bearer>>
space       == <<bodies, active, statics>>
frame       == <<steps, pairs, arbiters>>
collision   == <<pair, apd, bpd, contacts, valid, ablocked, bblocked>>
physicsVars == <<life, memory, solid, space, pc, frame, collision>>

PhysicsInit ==
  /\ life = [e \in Ent |-> "free"]
  /\ pd = [e \in Ent |-> NULL]
  /\ owner = [d \in Data |-> NULL]
  /\ static = [d \in Data |-> FALSE]
  /\ solid = [d \in Data |-> FALSE]
  /\ shapes = [d \in Data |-> {}]
  /\ bearer = [s \in Shape |-> NULL]
  /\ bodies = {} /\ active = {} /\ statics = {} /\ arbiters = {}
  /\ pc = "idle" /\ steps = 0 /\ pairs = {}
  /\ pair = <<NULL, NULL>> /\ apd = NULL /\ bpd = NULL
  /\ contacts = 0 /\ valid = FALSE /\ ablocked = FALSE /\ bblocked = FALSE

-----------------------------------------------------------------------------
(* Memory.                                                                 *)

(* g_physics_mem_free of the entities in E.                                *)
DataOf(E)   == {pd[e] : e \in E} \ {NULL}
ShapesOf(D) == UNION {shapes[d] : d \in D}

(* g_physics_delete_shapes takes each shape from the hash it was put in.   *)
Hashes(D) ==
  [active  |-> active  \ ShapesOf({d \in D : ~static[d]}),
   statics |-> statics \ ShapesOf({d \in D : static[d]})]

FreedPd(E)     == [e \in Ent |-> IF e \in E THEN NULL ELSE pd[e]]
FreedOwner(D)  == [d \in Data |-> IF d \in D THEN NULL ELSE owner[d]]
FreedShapes(D) == [d \in Data |-> IF d \in D THEN {} ELSE shapes[d]]
FreedBearer(S) == [s \in Shape |-> IF s \in S THEN NULL ELSE bearer[s]]

MemFree(E) ==
  /\ pd' = FreedPd(E)
  /\ owner' = FreedOwner(DataOf(E))
  /\ shapes' = FreedShapes(DataOf(E))
  /\ bearer' = FreedBearer(ShapesOf(DataOf(E)))
  /\ bodies' = bodies \ DataOf(E)
  /\ active' = Hashes(DataOf(E)).active
  /\ statics' = Hashes(DataOf(E)).statics
  /\ UNCHANGED static

(* mem_free, then new data d with shapes S, in the hash that fits st; what *)
(* the entity's table says of solid, or the default, is the field's value. *)
NewBody(e, d, st, on, S) ==
  LET D == DataOf({e})
  IN  /\ owner[d] = NULL \/ d \in D
      /\ \A s \in S: bearer[s] = NULL \/ s \in ShapesOf(D)
      /\ pd' = [pd EXCEPT ![e] = d]
      /\ owner' = [FreedOwner(D) EXCEPT ![d] = e]
      /\ static' = [static EXCEPT ![d] = st]
      /\ solid' = [solid EXCEPT ![d] = on]
      /\ shapes' = [FreedShapes(D) EXCEPT ![d] = S]
      /\ bearer' = [s \in Shape |-> IF s \in S THEN e ELSE FreedBearer(ShapesOf(D))[s]]
      /\ bodies' = (bodies \ D) \cup {d}
      /\ active' = IF st THEN Hashes(D).active ELSE Hashes(D).active \cup S
      /\ statics' = IF st THEN Hashes(D).statics \cup S ELSE Hashes(D).statics

-----------------------------------------------------------------------------
(* Game code, between frames or in a touch function.                       *)

InTouch == pc \in {"touch a", "touch b"}
InLua   == pc = "idle" \/ InTouch
Listed(e) == life[e] = "listed"

InStep  == pc \in {"step", "a", "touch a", "b", "touch b", "verdict"}

(* Fault: Chipmunk is built without its assertions.                        *)
NeverLocked == FALSE

(* space->locked, whose absence the additions and removals assert.         *)
Locked == InStep

Spawn(e) ==
  /\ InLua
  /\ life[e] = "free"
  /\ life' = [life EXCEPT ![e] = "listed"]
  /\ UNCHANGED <<memory, solid, space, pc, frame, collision>>

Remove(e) ==
  /\ InLua
  /\ Listed(e)
  /\ life' = [life EXCEPT ![e] = "removed"]
  /\ UNCHANGED <<memory, solid, space, pc, frame, collision>>

(* body = nil, no table, an empty one, or one no shape of which is known.  *)
ClearBody(e) ==
  /\ InLua /\ ~Locked
  /\ Listed(e)
  /\ MemFree({e})
  /\ UNCHANGED <<life, solid, pc, frame, collision>>

(* body = a table of shapes.                                               *)
SetBody(e, d, st, on, S) ==
  /\ InLua /\ ~Locked
  /\ Listed(e)
  /\ NewBody(e, d, st, on, S)
  /\ UNCHANGED <<life, pc, frame, collision>>

(* Either of them while the space is locked: an assertion fails, abort().  *)
(* Clearing the body of an entity that has none changes nothing.           *)
SetBodyLocked(e) ==
  /\ InLua /\ Locked
  /\ Listed(e)
  /\ pc' = "aborted"
  /\ UNCHANGED <<life, memory, solid, space, frame, collision>>

SetSolid(e, on) ==
  /\ InLua
  /\ Listed(e) /\ pd[e] # NULL
  /\ solid' = [solid EXCEPT ![pd[e]] = on]
  /\ UNCHANGED <<life, memory, space, pc, frame, collision>>

-----------------------------------------------------------------------------
(* A frame: g_physics_frame, then g_entity_frame.                          *)

Body(s) == CHOOSE d \in bodies: s \in shapes[d]
Meeting == {p \in (active \cup statics) \X (active \cup statics):
              /\ p[1] \in active \/ p[2] \in active
              /\ Body(p[1]) # Body(p[2])}

(* cpSpaceStep, which calls back once for each pair that begins to touch,  *)
(* whichever of the two comes first.                                       *)
StepBegin(n) ==
  /\ steps' = n
  /\ pairs' \in SUBSET Meeting
  /\ \A p \in pairs': <<p[2], p[1]>> \notin pairs'
  /\ arbiters' = {}
  /\ pc' = "step"
  /\ UNCHANGED <<life, memory, solid, space, collision>>

PhysicsFrame == pc = "idle" /\ StepBegin(Steps)

(* Less than PHYSICS_MIN_DELTA since the last time.                        *)
PhysicsIdle ==
  /\ pc = "idle"
  /\ pc' = "free"
  /\ UNCHANGED <<life, memory, solid, space, frame, collision>>

NextStep == pc = "step" /\ pairs = {} /\ steps > 1 /\ StepBegin(steps - 1)

LastStep ==
  /\ pc = "step" /\ pairs = {} /\ steps = 1
  /\ steps' = 0 /\ arbiters' = {}
  /\ pc' = "free"
  /\ UNCHANGED <<life, memory, solid, space, pairs, collision>>

(* Fault: the entities are freed, their bodies are not.                    *)
BodiesToFree == {}

(* g_entity_frame frees what has been removed since the last one.          *)
ToFree == {e \in Ent: life[e] = "removed"}

FreeRemoved ==
  /\ pc = "free"
  /\ life' = [e \in Ent |-> IF life[e] = "removed" THEN "free" ELSE life[e]]
  /\ MemFree(ToFree)
  /\ pc' = "idle"
  /\ UNCHANGED <<solid, frame, collision>>

-----------------------------------------------------------------------------
(* g_physics_collision.                                                    *)

(* Fault: they are asked only when the collision begins.                   *)
ValidAtStart == valid

(* g_entity_is_valid of both, read through the shapes.                     *)
BothListed == Listed(bearer[pair[1]]) /\ Listed(bearer[pair[2]])

(* Back in the step; the variables of the call are gone.                   *)
Return ==
  /\ pc' = "step"
  /\ pair' = <<NULL, NULL>> /\ apd' = NULL /\ bpd' = NULL
  /\ contacts' = 0 /\ valid' = FALSE /\ ablocked' = FALSE /\ bblocked' = FALSE

Collide(p, n) ==
  /\ pc = "step" /\ p \in pairs
  /\ pairs' = pairs \ {p}
  /\ IF Listed(bearer[p[1]]) /\ Listed(bearer[p[2]])
     THEN /\ pair' = p
          /\ apd' = pd[bearer[p[1]]] /\ bpd' = pd[bearer[p[2]]]
          /\ contacts' = n
          /\ valid' = TRUE
          /\ pc' = "a"
          /\ UNCHANGED <<ablocked, bblocked>>
     ELSE Return
  /\ UNCHANGED <<life, memory, solid, space, steps, arbiters>>

(* The first touch: a's function, told of b, if b is solid.  g_physics_touch *)
(* is false without a function.                                            *)
TouchA ==
  /\ pc = "a"
  /\ valid' = BothListed
  /\ \E function \in BOOLEAN:
       IF valid' /\ solid[bpd]
       THEN pc' = (IF function THEN "touch a" ELSE "b") /\ ablocked' = FALSE
       ELSE pc' = "b" /\ ablocked' = TRUE
  /\ UNCHANGED <<life, memory, solid, space, frame, pair, apd, bpd, contacts, bblocked>>

(* The second: b's function, if a is solid.                                *)
TouchB ==
  /\ pc = "b"
  /\ valid' = BothListed
  /\ \E function \in BOOLEAN:
       IF valid' /\ solid[apd]
       THEN pc' = (IF function THEN "touch b" ELSE "verdict") /\ bblocked' = FALSE
       ELSE pc' = "verdict" /\ bblocked' = TRUE
  /\ UNCHANGED <<life, memory, solid, space, frame, pair, apd, bpd, contacts, ablocked>>

(* lua_toboolean at index 0 reads above the top of the stack: either value. *)
ReturnA(blocked) ==
  /\ pc = "touch a"
  /\ ablocked' = blocked
  /\ pc' = "b"
  /\ UNCHANGED <<life, memory, solid, space, frame, pair, apd, bpd, contacts, valid, bblocked>>

ReturnB(blocked) ==
  /\ pc = "touch b"
  /\ bblocked' = blocked
  /\ pc' = "verdict"
  /\ UNCHANGED <<life, memory, solid, space, frame, pair, apd, bpd, contacts, valid, ablocked>>

(* Fault: the loop goes on after the last contact.                         *)
NoLastContact == valid

MoreContacts == contacts > 1 /\ valid

Blocked == ablocked /\ bblocked /\ solid[apd] /\ solid[bpd]

(* Blocked by both, and both solid: the contact is solved.                 *)
Verdict ==
  /\ pc = "verdict"
  /\ IF Blocked
     THEN arbiters' = arbiters \cup {pair} /\ Return
     ELSE /\ arbiters' = arbiters
          /\ IF MoreContacts
             THEN pc' = "a" /\ contacts' = contacts - 1
                  /\ UNCHANGED <<pair, apd, bpd, valid, ablocked, bblocked>>
             ELSE Return
  /\ UNCHANGED <<life, memory, solid, space, steps, pairs>>

(* The process is gone.                                                    *)
Stopped == pc = "aborted" /\ UNCHANGED physicsVars

Lua ==
  \/ \E e \in Ent: Spawn(e)
  \/ \E e \in Ent: Remove(e)
  \/ \E e \in Ent: ClearBody(e)
  \/ \E e \in Ent, d \in Data, st, on \in BOOLEAN, S \in SUBSET Shape:
       S # {} /\ Cardinality(S) <= MaxShapes /\ SetBody(e, d, st, on, S)
  \/ \E e \in Ent: SetBodyLocked(e)
  \/ \E e \in Ent, on \in BOOLEAN: SetSolid(e, on)

Collision ==
  \/ \E p \in pairs, n \in 1 .. MaxContacts: Collide(p, n)
  \/ TouchA
  \/ TouchB
  \/ \E blocked \in BOOLEAN: ReturnA(blocked)
  \/ \E blocked \in BOOLEAN: ReturnB(blocked)
  \/ Verdict

PhysicsNext ==
  \/ Lua
  \/ PhysicsFrame
  \/ PhysicsIdle
  \/ NextStep
  \/ LastStep
  \/ FreeRemoved
  \/ Collision
  \/ Stopped

PhysicsSpec == PhysicsInit /\ [][PhysicsNext]_physicsVars

-----------------------------------------------------------------------------
(* Properties.                                                             *)

PhysicsType ==
  /\ life \in [Ent -> {"free", "listed", "removed"}]
  /\ pd \in [Ent -> Data \cup {NULL}] /\ owner \in [Data -> Ent \cup {NULL}]
  /\ static \in [Data -> BOOLEAN] /\ solid \in [Data -> BOOLEAN]
  /\ shapes \in [Data -> SUBSET Shape] /\ bearer \in [Shape -> Ent \cup {NULL}]
  /\ bodies \subseteq Data /\ active \subseteq Shape /\ statics \subseteq Shape
  /\ arbiters \subseteq Shape \X Shape /\ pairs \subseteq Shape \X Shape
  /\ pc \in {"idle", "step", "a", "touch a", "b", "touch b", "verdict", "free", "aborted"}
  /\ steps \in 0 .. Steps /\ contacts \in 0 .. MaxContacts
  /\ pair \in (Shape \cup {NULL}) \X (Shape \cup {NULL})
  /\ apd \in Data \cup {NULL} /\ bpd \in Data \cup {NULL}
  /\ valid \in BOOLEAN /\ ablocked \in BOOLEAN /\ bblocked \in BOOLEAN

(* The space refers to what is allocated and to nothing else, each shape   *)
(* in the hash it will be looked for in: a step never reads a freed shape, *)
(* and none is left behind (g_physics_delete_shapes, g_physics_mem_free).  *)
SpaceHoldsAllocated ==
  /\ bodies = {d \in Data: owner[d] # NULL}
  /\ active = ShapesOf({d \in bodies: ~static[d]})
  /\ statics = ShapesOf({d \in bodies: static[d]})
  /\ {s \in Shape: bearer[s] # NULL} = active \cup statics

(* body->data and shape->data lead to an allocated entity whose            *)
(* physics_data leads back: g_physics_update_ent, which reads both without *)
(* a test, is safe for the bodies of removed entities too.                 *)
BodiesOwned ==
  /\ \A d \in bodies: life[owner[d]] # "free" /\ pd[owner[d]] = d
  /\ \A d \in bodies: \A s \in shapes[d]: bearer[s] = owner[d]
  /\ \A d1, d2 \in bodies: d1 # d2 => shapes[d1] \cap shapes[d2] = {}

(* As long as a step lasts everything it and g_physics_collision hold on   *)
(* to stays allocated, whatever the touch functions remove or spawn: apd   *)
(* and bpd, read before the touches, are still the entities' data after.   *)
Allocated(s) == bearer[s] # NULL
StepReadsAllocated ==
  InStep =>
    /\ \A p \in pairs \cup arbiters: Allocated(p[1]) /\ Allocated(p[2])
    /\ pc # "step" =>
         /\ Allocated(pair[1]) /\ Allocated(pair[2])
         /\ apd # NULL /\ owner[apd] = bearer[pair[1]]
         /\ bpd # NULL /\ owner[bpd] = bearer[pair[2]]

(* So neither a body, nor the space, nor a step under way refers to freed  *)
(* memory.                                                                 *)
NothingDangles == BodiesOwned /\ SpaceHoldsAllocated /\ StepReadsAllocated

(* Game code is told of a touch only between two entities it has not       *)
(* removed: the second touch, and the next contact, ask again.             *)
TouchListed ==
  [][InTouch' /\ ~InTouch => Listed(bearer[pair[1]]) /\ Listed(bearer[pair[2]])]_physicsVars

(* Chipmunk: "This addition/removal cannot be done safely during a call to *)
(* cpSpaceStep()."  Bodies are set only while no step is under way.        *)
SetsUnlocked == pc # "aborted"
=============================================================================
