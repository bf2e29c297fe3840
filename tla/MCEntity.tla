------------------------------ MODULE MCEntity ------------------------------
(* Small instances of Entity for TLC.                                      *)
EXTENDS Entity

Symmetry == Permutations(Ent) \cup Permutations(Table)

(* Thinking alone: game code that attaches nothing, and frames at the      *)
(* first or the last of the times, so that the two between fit in the      *)
(* instance: a think at the first of them can rearm the timer for the      *)
(* second, go behind another entity and be reached again in the same walk. *)
Frames == {0, Max(Time)}
TimerNext ==
  \/ \E e \in Ent, t \in Table: EntSpawn(e, t)
  \/ \E t \in Table: EntRemove(t)
  \/ \E t \in Table, k \in ZOrder: SetZ(t, k)
  \/ \E t \in Table, k \in Time: SetNextThink(t, k)
  \/ \E t \in Table, k \in Time: SetLastThink(t, k)
  \/ \E e \in Ent: ForceThink(e)
  \/ \E t \in Frames: FrameStart(t)
  \/ WalkStep
  \/ Stopped

TimerSpec == Init /\ [][TimerNext]_vars /\ WalkFairness
=============================================================================
