------------------------------- MODULE Shared -------------------------------
(* What the modules that are checked side by side have in common: the      *)
(* entities, and the values of a pointer or a string that is missing or    *)
(* whose memory is gone.                                                   *)
CONSTANTS
  Ent,        (* Entities.                                                   *)
  JUNK,       (* The text of memory that has been freed and used again.      *)
  NONE        (* A null pointer, no renderer.                                *)
=============================================================================
