------------------------------ MODULE MCEngine ------------------------------
(* Small instances of Engine for TLC.                                      *)
EXTENDS Engine

(* A variable that its owner saves, and one of no owner that no loop over  *)
(* the variables reaches.                                                  *)
MCOwner   == [x \in Var |-> IF x = "m_sens" THEN "mouse" ELSE NONE]
MCSaved   == [x \in Var |-> x = "m_sens"]
MCDefault == [x \in Var |-> Stump]
MCBeyond  == {<<"seta", "z_far">>}

(* Behind the semicolon, a command for the key.                     *)
MCRest == [v \in Listed |-> [l \in Line |-> IF l[1] = "bind" THEN Stump ELSE NONE]]
=============================================================================
