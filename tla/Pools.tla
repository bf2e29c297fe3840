------------------------------- MODULE Pools --------------------------------
(***************************************************************************)
(* Memory pools (src/src/mem.c).  A pool is a struct in a doubly linked    *)
(* list of pools and heads a doubly linked list of its blocks.  Freeing a  *)
(* pool frees its blocks one by one, here one step each.                   *)
(*                                                                         *)
(* A block may be freed twice (r_texture.c:122 does): the header read then *)
(* is what free and malloc have left there.  Left out: blocks that were    *)
(* written past their end, a second free after the pool is gone, malloc    *)
(* failing, which changes nothing, and size_real, which nothing reads.     *)
(***************************************************************************)
EXTENDS Integers, FiniteSets, Shared

CONSTANTS
  Pool,       (* Addresses of pools.                                         *)
  Block,      (* Addresses of blocks.                                        *)
  Bytes,      (* Sizes asked for; no sum of them wraps in 32 bits.           *)
  Limit       (* Limits of pools; 0 is no limit.                             *)

ASSUME PoolsAssumption ==
  /\ IsFiniteSet(Block) /\ IsFiniteSet(Pool)
  /\ NONE \notin Pool \cup Block \cup Limit
  /\ Bytes \subseteq Nat /\ Limit \subseteq Nat

VARIABLES
  pools, pnext, pprev,    (* The list of pools: its head, next and prev.     *)
  sizeMax, size,          (* Of a pool: limit and sum of its blocks' sizes.  *)
  allocs, next, prev,     (* The lists of blocks.                            *)
  sen1,       (* SEN1_ALLOC is read at the block's address.                  *)
  owner,      (* a->pool and a->size, while sen1 is there.                   *)
  length,
  live,       (* The blocks that malloc has handed out.                      *)
  dying       (* The pool that mem_free_pool is emptying, or NONE.           *)

poolList  == <<pools, pnext, pprev>>
blockList == <<allocs, next, prev>>
poolsVars == <<poolList, blockList, sizeMax, size, sen1, owner, length, live, dying>>

PoolsInit ==
  /\ pools = NONE /\ dying = NONE /\ live = {}
  /\ pnext = [p \in Pool |-> NONE] /\ pprev = [p \in Pool |-> NONE]
  /\ sizeMax = [p \in Pool |-> 0] /\ size = [p \in Pool |-> 0]
  /\ allocs = [p \in Pool |-> NONE]
  /\ next = [b \in Block |-> NONE] /\ prev = [b \in Block |-> NONE]
  /\ sen1 = [b \in Block |-> FALSE]
  /\ owner = [b \in Block |-> NONE] /\ length = [b \in Block |-> 0]

(* What a loop from the head of a list along its next pointers reaches.    *)
Reached(head, along, all) ==
  LET nth[i \in 1..Cardinality(all)] ==
        IF i = 1 THEN head ELSE IF nth[i - 1] = NONE THEN NONE ELSE along[nth[i - 1]]
  IN  IF head = NONE THEN {} ELSE {nth[i]: i \in DOMAIN nth} \ {NONE}

PoolList  == Reached(pools, pnext, Pool)
Blocks(p) == Reached(allocs[p], next, Block)

(* A pointer written through, unless it is NULL.                           *)
Through(f, at, value) == IF at = NONE THEN f ELSE [f EXCEPT ![at] = value]

-----------------------------------------------------------------------------

(* mem_alloc_pool_real.                                                    *)
AllocPool(p, l) ==
  /\ dying = NONE /\ p \notin PoolList
  /\ pprev' = Through([pprev EXCEPT ![p] = NONE], pools, p)
  /\ pnext' = [pnext EXCEPT ![p] = pools]
  /\ pools' = p
  /\ sizeMax' = [sizeMax EXCEPT ![p] = l]
  /\ size' = [size EXCEPT ![p] = 0]
  /\ allocs' = [allocs EXCEPT ![p] = NONE]
  /\ UNCHANGED <<next, prev, sen1, owner, length, live, dying>>

(* Fault: the block that was first is not told of the new one.             *)
HeadOnly(p, b) ==
  /\ allocs' = [allocs EXCEPT ![p] = b]
  /\ next' = [next EXCEPT ![b] = allocs[p]]
  /\ prev' = [prev EXCEPT ![b] = NONE]

(* A block becomes the first of its pool.                                  *)
LinkBlock(p, b) ==
  /\ allocs' = [allocs EXCEPT ![p] = b]
  /\ next' = [next EXCEPT ![b] = allocs[p]]
  /\ prev' = Through([prev EXCEPT ![b] = NONE], allocs[p], b)

(* mem_alloc_real; a pool that is full changes nothing.                    *)
Alloc(p, b, n) ==
  /\ dying = NONE /\ p \in PoolList /\ b \notin live
  /\ sizeMax[p] = 0 \/ size[p] + n <= sizeMax[p]
  /\ size' = [size EXCEPT ![p] = @ + n]
  /\ sen1' = [sen1 EXCEPT ![b] = TRUE]
  /\ owner' = [owner EXCEPT ![b] = p]
  /\ length' = [length EXCEPT ![b] = n]
  /\ live' = live \cup {b}
  /\ LinkBlock(p, b)
  /\ UNCHANGED <<poolList, sizeMax, dying>>

(* mem_free_real of a block it has found in the list of its pool; free may *)
(* leave the header as it was (and next and prev, which nobody reads).     *)
FreeBlock(b) ==
  /\ allocs' = IF prev[b] = NONE THEN [allocs EXCEPT ![owner[b]] = next[b]] ELSE allocs
  /\ prev' = [Through(prev, next[b], prev[b]) EXCEPT ![b] = NONE]
  /\ next' = [Through(next, prev[b], next[b]) EXCEPT ![b] = NONE]
  /\ size' = [size EXCEPT ![owner[b]] = @ - length[b]]
  /\ live' = live \ {b}
  /\ \E kept \in BOOLEAN:
       /\ sen1' = [sen1 EXCEPT ![b] = kept]
       /\ owner' = IF kept THEN owner ELSE [owner EXCEPT ![b] = NONE]
       /\ length' = IF kept THEN length ELSE [length EXCEPT ![b] = 0]

(* Fault: mem_free believes the sentinel and does not look for the block.  *)
Unsearched(b) == TRUE

(* The search of mem_free_real.                                            *)
Searched(b) == b \in Blocks(owner[b])

(* mem_free by a module, of a block it holds or has freed before: one that *)
(* is not in the list of its pool is left alone.                           *)
MemFree(b) ==
  /\ dying = NONE /\ sen1[b] /\ owner[b] \in PoolList
  /\ Searched(b)
  /\ FreeBlock(b)
  /\ UNCHANGED <<poolList, sizeMax, dying>>

(* mem_free_pool_real: frees the first block, over and over.               *)
FreePool(p) ==
  /\ dying = NONE /\ p \in PoolList
  /\ dying' = p
  /\ UNCHANGED <<poolList, blockList, sizeMax, size, sen1, owner, length, live>>

FreeFirst ==
  /\ dying # NONE /\ allocs[dying] # NONE
  /\ FreeBlock(allocs[dying])
  /\ UNCHANGED <<poolList, sizeMax, dying>>

(* Then takes the pool out of the list and frees it.                       *)
UnlinkPool ==
  /\ dying # NONE /\ allocs[dying] = NONE
  /\ pools' = IF pprev[dying] = NONE THEN pnext[dying] ELSE pools
  /\ pprev' = Through(pprev, pnext[dying], pprev[dying])
  /\ pnext' = Through(pnext, pprev[dying], pnext[dying])
  /\ dying' = NONE
  /\ UNCHANGED <<blockList, sizeMax, size, sen1, owner, length, live>>

PoolsNext ==
  \/ \E p \in Pool, l \in Limit: AllocPool(p, l)
  \/ \E p \in Pool, b \in Block, n \in Bytes: Alloc(p, b, n)
  \/ \E b \in Block: MemFree(b)
  \/ \E p \in Pool: FreePool(p)
  \/ FreeFirst
  \/ UnlinkPool

PoolsSpec == PoolsInit /\ [][PoolsNext]_poolsVars

-----------------------------------------------------------------------------
(* Properties.                                                             *)

PoolsType ==
  /\ pools \in Pool \cup {NONE} /\ dying \in Pool \cup {NONE}
  /\ pnext \in [Pool -> Pool \cup {NONE}] /\ pprev \in [Pool -> Pool \cup {NONE}]
  /\ sizeMax \in [Pool -> Limit \cup {0}] /\ size \in [Pool -> Nat]
  /\ allocs \in [Pool -> Block \cup {NONE}]
  /\ next \in [Block -> Block \cup {NONE}] /\ prev \in [Block -> Block \cup {NONE}]
  /\ sen1 \in [Block -> BOOLEAN] /\ owner \in [Block -> Pool \cup {NONE}]
  /\ length \in [Block -> Bytes \cup {0}] /\ live \subseteq Block

InPool(b) == {p \in PoolList: b \in Blocks(p)}

(* The lists implement a heap: a block is in the list of the pool it was   *)
(* allocated from until it is freed, and in no other; freeing one loses no *)
(* other, whatever is freed twice; a pool never hands out more than its    *)
(* limit, counted block by block; and it is gone when its last block is.   *)
AsHeap ==
  INSTANCE Heap WITH
    room  <- [p \in Pool |-> IF p \in PoolList THEN sizeMax[p] ELSE NONE],
    held  <- [b \in Block |-> IF InPool(b) = {} THEN NONE ELSE CHOOSE p \in InPool(b): TRUE],
    bytes <- [b \in Block |-> IF InPool(b) = {} THEN 0 ELSE length[b]]

IsHeap == AsHeap!HeapSpec

=============================================================================
