---------------------------- MODULE MCResources ----------------------------
(* Small instances of Fonts, Sounds and Decoders, which share no variable, *)
(* side by side: the initial states choose the one that moves.             *)
EXTENDS Fonts, Sounds, Decoders, TLC

VARIABLE part

Init ==
  /\ FontsInit /\ SoundsInit /\ DecodersInit
  /\ \/ part = "fonts" /\ snd_i
     \/ part = "sounds" /\ game.tidy
     \/ part = "decoders" /\ snd_i /\ game.tidy

Next ==
  \/ part = "fonts" /\ FontsNext /\ UNCHANGED <<soundsVars, decodersVars, part>>
  \/ part = "sounds" /\ SoundsNext /\ UNCHANGED <<fontsVars, decodersVars, part>>
  \/ part = "decoders" /\ DecodersNext /\ UNCHANGED <<fontsVars, soundsVars, part>>

Spec == Init /\ [][Next]_<<fontsVars, soundsVars, decodersVars, part>>

(* Game code that uses both texts is tidy, or there are too many states;   *)
(* game code that is not uses line fonts only.                             *)
MCGames ==
  {[kinds |-> {"text", "text2"}, tidy |-> TRUE], [kinds |-> {"text2"}, tidy |-> FALSE]}

Symmetry == Permutations(Ent) \cup Permutations(Addr) \cup Permutations(FontName)
=============================================================================
