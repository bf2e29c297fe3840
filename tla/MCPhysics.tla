----------------------------- MODULE MCPhysics -----------------------------
(* Small instances of modules that share no variable, side by side: the    *)
(* initial states choose the one that moves.                               *)
EXTENDS Physics, SpaceHash, Contacts, Motion, Shapes, TLC

CONSTANTS p1, p2, p3

VARIABLE part

Parts == {"physics", "hash", "contacts", "motion", "shapes"}

Init ==
  /\ PhysicsInit /\ SpaceHashInit /\ ContactsInit /\ MotionInit /\ ShapesInit
  /\ part \in Parts
  /\ part # "hash" => moving
  /\ fall = 1

Next ==
  /\ UNCHANGED part
  /\ \/ part = "physics" /\ PhysicsNext /\ UNCHANGED <<spaceHashVars, contactsVars, motionVars, shapesVars>>
     \/ part = "hash" /\ SpaceHashNext /\ UNCHANGED <<physicsVars, contactsVars, motionVars, shapesVars>>
     \/ part = "contacts" /\ ContactsNext /\ UNCHANGED <<physicsVars, spaceHashVars, motionVars, shapesVars>>
     \/ part = "motion" /\ MotionNext /\ UNCHANGED <<physicsVars, spaceHashVars, contactsVars, shapesVars>>
     \/ part = "shapes" /\ ShapesNext
        /\ UNCHANGED <<physicsVars, spaceHashVars, contactsVars, motionVars>>

Spec == Init /\ [][Next]_<<physicsVars, spaceHashVars, contactsVars, motionVars, shapesVars, part>>

(* Two positions that share a cell, one that does not.                     *)
MCCellOf == p1 :> "c1" @@ p2 :> "c2" @@ p3 :> "c1"
MCBoxes  == {{p1}, {p2}, {p1, p2}, {p1, p3}}

(* One shape that may touch either of two others.                          *)
MCPairs == {{"s1", "s2"}, {"s1", "s3"}}
MCMany  == {{"s1", "s2"}}

(* The handles of the hash go by the names of entities, and its objects by *)
(* those of shapes, for the sake of the symmetry.                          *)
Symmetry == Permutations(Ent) \cup Permutations(Shape)
=============================================================================
