------------------------------- MODULE Motion -------------------------------
(***************************************************************************)
(* One entity with a body, and what its fields have to do with where the   *)
(* body is and how it moves (src/src/game/g_physics.c, g_entity.c,         *)
(* src/3rd/chipmunk/cpBody.c): game code assigns fields, each assignment   *)
(* changes the body, and after the steps of a frame the body is copied     *)
(* back into the fields.                                                   *)
(*                                                                         *)
(* One dimension, whole numbers, a step takes one unit of time.  Rotation  *)
(* and gravity go with velocity, inertia with mass, friction with          *)
(* elasticity, the angle with the origin.  What is not a finite number     *)
(* any more is NAN.                                                        *)
(***************************************************************************)
EXTENDS Integers

CONSTANTS
  MaxSpeed,   (* Bound: speeds,                                              *)
  MaxPlace,   (* and places; what would be beyond stays there.               *)
  MaxSteps    (* PHYSICS_STEPS.                                              *)

ASSUME MotionAssumption == MaxSpeed \in 1 .. 99 /\ MaxPlace \in 1 .. 99 /\ MaxSteps \in Nat

VARIABLES
  made,       (* The body: "none", "moving" or "static".                     *)
  org,        (* ent->origin.                                                *)
  vel,        (* Of the physics data: velocity,                              *)
  mass,       (* mass,                                                       *)
  elas,       (* elasticity.                                                 *)
  bp, bv, bm, (* body->p, v and m.                                           *)
  se,         (* shape->e.                                                   *)
  hashed,     (* Where the shape's box was when it was hashed last.          *)
  fall,       (* space->gravity.                                             *)
  when,       (* "lua", "steps", "touch" (game code too), "entities". *)
  todo,       (* Steps left in this frame.                                   *)
  unsaid,     (* History: the fields the body does not have as they read,    *)
  drifted,    (* it has moved in a step since it was hashed,                 *)
  light       (* and has moved or been pushed before it was given a mass.    *)

fields     == <<org, vel, mass, elas>>
body       == <<bp, bv, bm, se, hashed>>
told       == <<unsaid, drifted, light>>
motionVars == <<made, fields, body, fall, when, todo, told>>

NAN    == 100
INF    == 101
Speed  == -MaxSpeed .. MaxSpeed
Place  == -MaxPlace .. MaxPlace
AllOf  == {"origin", "velocity", "mass", "elasticity"}
Playing == when \in {"lua", "touch"}

MotionInit ==
  /\ made = "none" /\ org = 0 /\ vel = 0 /\ mass = 1 /\ elas = 0
  /\ bp = 0 /\ bv = 0 /\ bm = 0 /\ se = 0 /\ hashed = 0
  /\ fall \in {0, 1}
  /\ when = "lua" /\ todo = 0
  /\ unsaid = {} /\ drifted = FALSE /\ light = FALSE

-----------------------------------------------------------------------------
(* Game code.                                                              *)

(* physics_set_body_callback: a new body at 0 with the mass of memory that *)
(* has been cleared, or none to speak of; then the fields get their values *)
(* from the entity's table or their defaults, and nobody tells the body.   *)
MakeBody(st, v, m, e) ==
  /\ when = "lua"
  /\ made' = st
  /\ vel' = v /\ mass' = m /\ elas' = e
  /\ bp' = 0 /\ bv' = 0 /\ bm' = (IF st = "static" THEN INF ELSE 0) /\ se' = 0 /\ hashed' = 0
  /\ unsaid' = AllOf /\ drifted' = FALSE /\ light' = FALSE
  /\ UNCHANGED <<org, fall, when, todo>>

(* The body and the physics data are freed.                                *)
DropBody ==
  /\ when = "lua" /\ made # "none"
  /\ made' = "none"
  /\ vel' = 0 /\ mass' = 1 /\ elas' = 0
  /\ bp' = 0 /\ bv' = 0 /\ bm' = 0 /\ se' = 0 /\ hashed' = 0
  /\ unsaid' = {} /\ drifted' = FALSE /\ light' = FALSE
  /\ UNCHANGED <<org, fall, when, todo>>

(* Fault: the static shapes are not hashed again.                          *)
StaysHashed(x) == hashed

RehashedAt(x) == IF made = "static" THEN x ELSE hashed

(* g_physics_update_ent_origin_angle with the entity at x.                 *)
Placed(x) ==
  /\ org' = x
  /\ IF made = "none" THEN UNCHANGED <<body, told>>
     ELSE /\ bp' = x /\ hashed' = RehashedAt(x)
          /\ unsaid' = unsaid \ {"origin"}
          /\ drifted' = (drifted /\ made # "static")
          /\ UNCHANGED <<bv, bm, se, light>>

SetOrigin(x) ==
  /\ Playing /\ Placed(x)
  /\ UNCHANGED <<made, vel, mass, elas, fall, when, todo>>

(* physics_common_callback: all of them, whichever has been assigned; a    *)
(* static body keeps its mass.                                             *)
Common ==
  /\ bv' = vel'
  /\ bm' = IF made = "static" THEN bm ELSE mass'
  /\ UNCHANGED <<bp, se, hashed, drifted, light>>

SetVelocity(x) ==
  /\ Playing /\ made # "none"
  /\ vel' = x /\ UNCHANGED mass /\ Common
  /\ unsaid' = unsaid \ ({"velocity"} \cup IF made = "static" THEN {} ELSE {"mass"})
  /\ UNCHANGED <<made, org, elas, fall, when, todo>>

SetMass(x) ==
  /\ Playing /\ made # "none"
  /\ mass' = x /\ UNCHANGED vel /\ Common
  /\ unsaid' = IF made = "static" THEN (unsaid \ {"velocity"}) \cup {"mass"}
               ELSE unsaid \ {"velocity", "mass"}
  /\ UNCHANGED <<made, org, elas, fall, when, todo>>

(* physics_shape_parm_change_callback.                                     *)
SetElasticity(x) ==
  /\ Playing /\ made # "none"
  /\ elas' = x /\ se' = x
  /\ unsaid' = unsaid \ {"elasticity"}
  /\ UNCHANGED <<made, org, vel, mass, bp, bv, bm, hashed, fall, when, todo, drifted, light>>

Within(max, x) == IF x > max THEN max ELSE IF x < -max THEN -max ELSE x
Plus(x, y, max) == IF NAN \in {x, y} THEN NAN ELSE Within(max, x + y)
Faster(j) == Plus(bv, j, MaxSpeed)

(* A force or an impulse j over the mass: m_inv is 1/m.                    *)
Over(j) == IF bm = INF THEN 0 ELSE IF bm = 0 THEN NAN ELSE j \div bm

(* physics_apply_impulse.                                                  *)
Impulse(j) ==
  /\ Playing /\ made # "none"
  /\ bv' = Faster(Over(j))
  /\ unsaid' = unsaid \cup {"velocity"}
  /\ light' = (light \/ bm = 0)
  /\ UNCHANGED <<made, fields, bp, bm, se, hashed, fall, when, todo, drifted>>

-----------------------------------------------------------------------------
(* A frame.                                                                *)

(* g_physics_frame, unless less than PHYSICS_MIN_DELTA has gone by.        *)
FrameStarts(steps) ==
  /\ when = "lua"
  /\ IF steps THEN when' = "steps" /\ todo' = MaxSteps ELSE when' = "entities" /\ todo' = 0
  /\ UNCHANGED <<made, fields, body, fall, told>>

(* cpSpaceStep up to the collisions: position, also of a static body; only *)
(* the boxes of moving shapes are hashed again.                            *)
StepMoves ==
  /\ when = "steps" /\ todo > 0
  /\ todo' = todo - 1 /\ when' = "touch"
  /\ IF made = "none" THEN UNCHANGED <<body, told>>
     ELSE /\ bp' = Plus(bp, bv, MaxPlace)
          /\ hashed' = IF made = "moving" THEN bp' ELSE hashed
          /\ drifted' = (made = "static" /\ (drifted \/ bv # 0))
          /\ unsaid' = unsaid \cup {"origin"}
          /\ UNCHANGED <<bv, bm, se, light>>
  /\ UNCHANGED <<made, fields, fall>>

(* The rest of it: gravity and forces, and the solver if something touches. *)
StepSpeeds(push) ==
  /\ when = "touch" /\ when' = "steps"
  /\ IF made = "none" THEN UNCHANGED <<body, told>>
     ELSE /\ bv' = Faster(Plus(-fall, Over(push), 2 * MaxSpeed))
          /\ unsaid' = unsaid \cup {"velocity"}
          /\ light' = (light \/ bm = 0)
          /\ UNCHANGED <<bp, bm, se, hashed, drifted>>
  /\ UNCHANGED <<made, fields, fall, todo>>

(* Fault: the velocity is not copied back.                                 *)
OwnVelocity == vel

BodyVelocity == bv

(* g_physics_update_ent.                                                   *)
UpdateEnt ==
  /\ when = "steps" /\ todo = 0 /\ when' = "entities"
  /\ IF made = "none" THEN UNCHANGED <<fields, told>>
     ELSE /\ org' = bp /\ vel' = BodyVelocity /\ mass' = bm /\ elas' = se
          /\ unsaid' = {}
          /\ UNCHANGED <<drifted, light>>
  /\ UNCHANGED <<made, body, fall, todo>>

(* g_entity_frame: if it is attached the entity is where the other one has *)
(* gone.                                                                   *)
EntityFrame(x) ==
  /\ when = "entities" /\ when' = "lua"
  /\ Placed(x) \/ UNCHANGED <<org, body, told>>
  /\ UNCHANGED <<made, vel, mass, elas, fall, todo>>

MotionNext ==
  \/ \E st \in {"moving", "static"}, v \in Speed, m \in {1, 2}, e \in {0, 1}: MakeBody(st, v, m, e)
  \/ DropBody
  \/ \E x \in Place: SetOrigin(x)
  \/ \E x \in Speed: SetVelocity(x)
  \/ \E x \in {1, 2}: SetMass(x)
  \/ \E x \in {0, 1}: SetElasticity(x)
  \/ \E j \in Speed: Impulse(j)
  \/ \E s \in BOOLEAN: FrameStarts(s)
  \/ StepMoves
  \/ \E j \in Speed: StepSpeeds(j)
  \/ UpdateEnt
  \/ \E x \in Place: EntityFrame(x)

MotionSpec == MotionInit /\ [][MotionNext]_motionVars

-----------------------------------------------------------------------------
(* Properties.                                                             *)

MotionType ==
  /\ made \in {"none", "moving", "static"}
  /\ {org, bp, hashed} \subseteq Place \cup {NAN} /\ {vel, bv} \subseteq Speed \cup {NAN}
  /\ {mass, bm} \subseteq {0, 1, 2, INF} /\ {elas, se} \subseteq {0, 1}
  /\ when \in {"lua", "steps", "touch", "entities"} /\ todo \in 0 .. MaxSteps
  /\ unsaid \subseteq AllOf

(* What game code reads in a field is what the body has, and so what it    *)
(* will move by: but for a body none of whose fields has been assigned     *)
(* since it was made, and what a step, a push or an impulse changed, until *)
(* the end of the frame (g_physics_update_ent, physics_common_callback).   *)
FieldsTell ==
  made # "none" =>
    /\ "origin" \in unsaid \/ org = bp
    /\ "velocity" \in unsaid \/ vel = bv
    /\ "mass" \in unsaid \/ mass = bm
    /\ "elasticity" \in unsaid \/ elas = se

(* A static shape is found where its body is, unless it has fallen since.  *)
StaticHashed == made = "static" => hashed = bp \/ drifted

(* And a body stays a body with a place and a speed, unless it was moved   *)
(* or pushed before any field gave it a mass.                              *)
Finite == made # "none" => NAN \notin {bp, bv} \/ light

(* So game code knows where a body is and what it does.                    *)
BodyAsSet == MotionType /\ FieldsTell /\ StaticHashed /\ Finite
=============================================================================
