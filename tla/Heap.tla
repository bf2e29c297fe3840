-------------------------------- MODULE Heap --------------------------------
(* What mem.c promises to the modules of the engine: pools, and blocks of  *)
(* memory each of which belongs to one pool until it is freed.             *)
EXTENDS Integers, FiniteSetsExt

CONSTANTS
  Pool,       (* Addresses of pools.                                         *)
  Block,      (* Addresses of blocks.                                        *)
  Bytes,      (* Sizes asked for.                                            *)
  Limit,      (* Limits of pools; 0 is no limit.                             *)
  NONE

VARIABLES
  room,       (* The limit of every pool there is; NONE: no such pool.       *)
  held,       (* The pool a block belongs to, or NONE.                       *)
  bytes       (* The size of a block that belongs to a pool, 0 otherwise.    *)

heapVars == <<room, held, bytes>>

HeapInit ==
  /\ room = [p \in Pool |-> NONE]
  /\ held = [b \in Block |-> NONE]
  /\ bytes = [b \in Block |-> 0]

Of(p) == {b \in Block: held[b] = p}

Create(p, l) ==
  /\ room[p] = NONE
  /\ room' = [room EXCEPT ![p] = l]
  /\ UNCHANGED <<held, bytes>>

Allocate(p, b, n) ==
  /\ room[p] # NONE /\ held[b] = NONE
  /\ room[p] = 0 \/ MapThenSumSet(LAMBDA a: bytes[a], Of(p)) + n <= room[p]
  /\ held' = [held EXCEPT ![b] = p]
  /\ bytes' = [bytes EXCEPT ![b] = n]
  /\ UNCHANGED room

Release(b) ==
  /\ held[b] # NONE
  /\ held' = [held EXCEPT ![b] = NONE]
  /\ bytes' = [bytes EXCEPT ![b] = 0]
  /\ UNCHANGED room

Destroy(p) ==
  /\ room[p] # NONE /\ Of(p) = {}
  /\ room' = [room EXCEPT ![p] = NONE]
  /\ UNCHANGED <<held, bytes>>

HeapNext ==
  \/ \E p \in Pool, l \in Limit: Create(p, l)
  \/ \E p \in Pool, b \in Block, n \in Bytes: Allocate(p, b, n)
  \/ \E b \in Block: Release(b)
  \/ \E p \in Pool: Destroy(p)

HeapSpec == HeapInit /\ [][HeapNext]_heapVars
=============================================================================
