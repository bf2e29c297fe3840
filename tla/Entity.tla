------------------------------- MODULE Entity -------------------------------
(***************************************************************************)
(* The entity list of the game module (src/src/game/g_entity.c): entities  *)
(* are C structs that Lua code creates, moves, attaches and removes        *)
(* through Lua tables ("handles"), while the engine walks the same list    *)
(* once a frame and calls each entity's Lua "think" function.              *)
(*                                                                         *)
(* Everything runs in one thread.  What interleaves is re-entrancy: a      *)
(* think function, called from the middle of the walk, may call any of the *)
(* operations below.                                                       *)
(*                                                                         *)
(* An element of Ent is the address of a struct g_entity_s, so a freed     *)
(* address may be allocated again.  Only the integer part of origin[2]     *)
(* (the z-order) is kept of an entity's geometry: it is what orders the    *)
(* list.                                                                   *)
(***************************************************************************)
EXTENDS Integers, SequencesExt, FiniteSetsExt

CONSTANTS
  Ent,        (* Addresses the allocator can return for an entity.          *)
  Table,      (* Lua tables that game code passes to ent_spawn.             *)
  ZOrder,     (* Values of (int)origin[2]; 0 is the default.                *)
  Time,       (* Values of g_time, nextthink and lastthink; 0 is the default. *)
  MaxDrift,   (* Bound: how far below zero an attachment count is driven.   *)
  Careful,    (* TRUE: game code keeps the contract of CarefulRemove/Move.  *)
  Rewind,     (* TRUE: game code may also set lastthink back.               *)
  NULL,       (* The null pointer.                                          *)
  NIL         (* Lua's nil: a table never given to ent_spawn has no __ref.  *)

ASSUME NullAssumption == NULL \notin Ent \cup Table /\ NIL \notin Ent \cup Table /\ NULL # NIL
ASSUME DefaultAssumption == 0 \in ZOrder /\ 0 \in Time
ASSUME NumberAssumption == ZOrder \subseteq Int /\ Time \subseteq Nat /\ MaxDrift \in Nat
ASSUME CarefulAssumption == Careful \in BOOLEAN /\ Rewind \in BOOLEAN

VARIABLES
  heap,       (* heap[e]: "free", "listed" (in entities) or "removed".      *)
  entities,   (* The z-ordered list, as a sequence of addresses.            *)
  removed,    (* remove_entities, head first.                               *)
  z,          (* (int)origin[2].                                            *)
  ref,        (* lua_ref: the table the entity belongs to, NULL = REFNIL.   *)
  handle,     (* handle[t]: t.__ref, an address, NULL or NIL.               *)
  attached,   (* attached_to.                                               *)
  num,        (* num_attachments.                                           *)
  forced,     (* forced_think.                                              *)
  nextthink,
  lastthink,
  now,        (* g_time.                                                    *)
  pc,         (* "idle", "iter", "think", "panic", "down".                  *)
  cur,        (* The iterator's current element.                            *)
  nxt,        (* The iterator's nextelem, saved before the body runs.       *)
  pending     (* History: listed since the walk began and not yet visited.  *)

lists  == <<heap, entities, removed>>
links  == <<attached, num>>
clocks == <<forced, nextthink, lastthink>>
walk   == <<now, pc, cur, nxt>>
vars   == <<lists, z, ref, handle, links, clocks, walk, pending>>

-----------------------------------------------------------------------------
(* Operations on the two lists.  A definition whose comment begins with    *)
(* "Fault:" is a plausible mistake in the definition after it; no other    *)
(* definition uses it, and putting it in place breaks a property below.    *)

(* The comparator is -1 on equal z-orders: a new element goes behind the   *)
(* elements of its own z-order, in front of the first greater one.         *)
Place(s, i, e, zz) ==
  /\ \A j \in 1 .. i - 1: zz[s[j]] <= zz[e]
  /\ i <= Len(s) => zz[s[i]] > zz[e]

(* Fault: sorted, but without regard to the places elements had.           *)
UnstableOrder(s, p, zz) ==
  \A i, j \in DOMAIN s: i < j =>
    \/ zz[s[p[i]]] < zz[s[p[j]]]
    \/ zz[s[p[i]]] = zz[s[p[j]]] /\ p[i] > p[j]

(* Fault: a list of two elements is taken for sorted.                      *)
OrderOfMany(s, p, zz) ==
  IF Len(s) <= 2 THEN \A i \in DOMAIN s: p[i] = i
  ELSE \A i, j \in DOMAIN s: i < j => zz[s[p[i]]] <= zz[s[p[j]]]

(* p[i] is the place that the i-th element of the result had in s.  The    *)
(* merge sort takes from the left run on a tie, so it is stable.           *)
StableOrder(s, p, zz) ==
  \A i, j \in DOMAIN s: i < j =>
    \/ zz[s[p[i]]] < zz[s[p[j]]]
    \/ zz[s[p[i]]] = zz[s[p[j]]] /\ p[i] < p[j]

Reorderings(s) ==
  {p \in [DOMAIN s -> DOMAIN s]:
     /\ \A i, j \in DOMAIN s: p[i] = p[j] => i = j
     /\ \A j \in DOMAIN s: \E i \in DOMAIN s: p[i] = j}

(* Fault: the element is not unlinked.                                     *)
UnlinkNothing(s, i) == s
Unlink(s, i) == RemoveAt(s, i)

Successor(s, e) ==
  LET i == CHOOSE j \in DOMAIN s: s[j] = e
  IN  IF i < Len(s) THEN s[i + 1] ELSE NULL

(* The next pointer of an element of either list.                          *)
NextOf(e) ==
  IF e = NULL THEN NULL
  ELSE IF heap[e] = "listed" THEN Successor(entities, e) ELSE Successor(removed, e)

HeadOf(s) == IF s = <<>> THEN NULL ELSE Head(s)

Listed == {e \in Ent: heap[e] = "listed"}
Attachers(e) == {x \in Listed: attached[x] = e}

(* Fault: the old target's count is left alone.                            *)
DecrementNothing(p) == num

(* num_attachments-- through a pointer.  Through NULL the code does not;   *)
(* through a freed address the write lands in memory no entity owns.       *)
Decrement(p) ==
  [x \in Ent |-> IF x = p /\ heap[x] # "free" THEN num[x] - 1 ELSE num[x]]

-----------------------------------------------------------------------------
Init ==
  /\ heap = [e \in Ent |-> "free"]
  /\ entities = <<>>
  /\ removed = <<>>
  /\ z = [e \in Ent |-> 0]
  /\ ref = [e \in Ent |-> NULL]
  /\ handle = [t \in Table |-> NIL]
  /\ attached = [e \in Ent |-> NULL]
  /\ num = [e \in Ent |-> 0]
  /\ forced = [e \in Ent |-> FALSE]
  /\ nextthink = [e \in Ent |-> 0]
  /\ lastthink = [e \in Ent |-> 0]
  /\ now = 0
  /\ pc = "idle"
  /\ cur = NULL
  /\ nxt = NULL
  /\ pending = {}

(* Lua code runs between frames (commands, mouse events, collisions) and   *)
(* inside a think.  It reaches an entity only through a handle.            *)
InLua == pc \in {"idle", "think"}
Handles == {t \in Table: handle[t] \in Ent}

(* ent_spawn: t may be a fresh table or one that was spawned before, whose *)
(* first entity then stays in the list with no handle of its own.          *)
EntSpawn(e, t) ==
  /\ InLua
  /\ heap[e] = "free"
  /\ heap' = [heap EXCEPT ![e] = "listed"]
  /\ \E i \in 1 .. Len(entities) + 1:
       Place(entities, i, e, z) /\ entities' = InsertAt(entities, i, e)
  /\ ref' = [ref EXCEPT ![e] = t]
  /\ handle' = [handle EXCEPT ![t] = e]
  /\ UNCHANGED <<removed, z, links, clocks, walk, pending>>

(* The contract of Careful game code: it removes no entity that others are *)
(* attached to, and a think removes and re-orders only its own entity.     *)
CarefulRemove(e) == Careful => Attachers(e) = {} /\ (pc = "think" => e = cur)
CarefulMove(e)   == Careful => (pc = "think" => e = cur)

(* g_entity_remove_attachment clears the attachers only when the count is  *)
(* not positive.                                                           *)
ClearAttachers(e, count) ==
  IF count <= 0
  THEN [x \in Ent |-> IF heap[x] = "listed" /\ x # e /\ attached[x] = e THEN NULL ELSE attached[x]]
  ELSE attached

(* Fault: the struct is freed on removal.                                  *)
RetireAtOnce(e) == [heap EXCEPT ![e] = "free"]
Retire(e) == [heap EXCEPT ![e] = "removed"]

(* Fault: the table keeps its __ref.                                       *)
KeepHandle(e) == handle
ForgetHandle(e) == [handle EXCEPT ![ref[e]] = NULL]

ForgetRef(e) == [ref EXCEPT ![e] = NULL]

(* g_entity_delete: to the remove list, its table's __ref becomes NULL,    *)
(* its Lua references are dropped; the struct stays until the next frame.  *)
Delete(e) ==
  /\ heap' = Retire(e)
  /\ \E i \in DOMAIN entities: entities[i] = e /\ entities' = Unlink(entities, i)
  /\ removed' = <<e>> \o removed
  /\ handle' = ForgetHandle(e)
  /\ ref' = ForgetRef(e)
  /\ num' = Decrement(attached[e])
  /\ attached' = ClearAttachers(e, num'[e])
  /\ pending' = pending \ {e}

(* ent_remove; a handle already NULL is left alone.                        *)
EntRemove(t) ==
  /\ InLua
  /\ t \in Handles
  /\ CarefulRemove(handle[t])
  /\ Delete(handle[t])
  /\ UNCHANGED <<z, clocks, walk>>

(* Fault: the new value is added to the old one.                           *)
MoveBy(e, k) == [z EXCEPT ![e] = @ + k]
MoveTo(e, k) == [z EXCEPT ![e] = k]

(* origin or origin_z assigned: the whole list is sorted again.            *)
SetZ(t, k) ==
  /\ InLua
  /\ t \in Handles
  /\ CarefulMove(handle[t])
  /\ z' = MoveTo(handle[t], k)
  /\ \E p \in Reorderings(entities):
       /\ StableOrder(entities, p, z')
       /\ entities' = [i \in DOMAIN entities |-> entities[p[i]]]
  /\ UNCHANGED <<heap, removed, ref, handle, links, clocks, walk, pending>>

SetNextThink(t, k) ==
  /\ InLua
  /\ t \in Handles
  /\ nextthink' = [nextthink EXCEPT ![handle[t]] = k]
  /\ UNCHANGED <<lists, z, ref, handle, links, forced, lastthink, walk, pending>>

SetLastThink(t, k) ==
  /\ InLua
  /\ t \in Handles
  /\ ~Rewind => k >= lastthink[handle[t]]
  /\ lastthink' = [lastthink EXCEPT ![handle[t]] = k]
  /\ UNCHANGED <<lists, z, ref, handle, links, forced, nextthink, walk, pending>>

(* attached_to = another entity.                                           *)
Attach(t, u) ==
  /\ InLua
  /\ t \in Handles /\ u \in Handles
  /\ handle[t] # handle[u]
  /\ num' = [Decrement(attached[handle[t]]) EXCEPT ![handle[u]] = @ + 1]
  /\ attached' = [attached EXCEPT ![handle[t]] = handle[u]]
  /\ UNCHANGED <<lists, z, ref, handle, clocks, walk, pending>>

(* attached_to = a table without __ref.                                    *)
Detach(t, u) ==
  /\ InLua
  /\ t \in Handles /\ handle[u] = NIL
  /\ num' = Decrement(attached[handle[t]])
  /\ attached' = [attached EXCEPT ![handle[t]] = NULL]
  /\ UNCHANGED <<lists, z, ref, handle, clocks, walk, pending>>

(* attached_to = nil (reading __ref of it raises a Lua error), a removed   *)
(* entity or the entity itself: the old target's count is already down,    *)
(* the pointer stays.                                                      *)
AttachInvalid(t) ==
  /\ InLua
  /\ t \in Handles
  /\ attached[handle[t]] \in Ent
  /\ num[attached[handle[t]]] > -MaxDrift
  /\ num' = Decrement(attached[handle[t]])
  /\ UNCHANGED <<lists, z, ref, handle, attached, clocks, walk, pending>>

(* The fade renderer asks for a think when its fade is over (drawing).     *)
ForceThink(e) ==
  /\ pc = "idle"
  /\ heap[e] = "listed"
  /\ forced' = [forced EXCEPT ![e] = TRUE]
  /\ UNCHANGED <<lists, z, ref, handle, links, nextthink, lastthink, walk, pending>>

-----------------------------------------------------------------------------
(* g_entity_frame.                                                         *)

(* First the remove list is freed.  A freed struct is all zeroes when the  *)
(* allocator returns it again; that is already written here.               *)
Scrub(f, default) == [e \in Ent |-> IF heap[e] = "removed" THEN default ELSE f[e]]

(* Fault: allocated memory is not zeroed.                                  *)
StaleLinks == attached
ScrubLinks == Scrub(attached, NULL)

FreeRemoved ==
  /\ heap' = Scrub(heap, "free")
  /\ removed' = <<>>
  /\ z' = Scrub(z, 0)
  /\ attached' = ScrubLinks
  /\ num' = Scrub(num, 0)
  /\ forced' = Scrub(forced, FALSE)
  /\ nextthink' = Scrub(nextthink, 0)
  /\ lastthink' = Scrub(lastthink, 0)

(* g_time follows the clock times g_speed, which may be changed: any value. *)
FrameStart(t) ==
  /\ pc = "idle"
  /\ now' = t
  /\ FreeRemoved
  /\ pc' = "iter"
  /\ cur' = HeadOf(entities)
  /\ nxt' = NextOf(HeadOf(entities))
  /\ pending' = Listed
  /\ UNCHANGED <<entities, ref, handle>>

(* Fault: the next element is looked up after the body has run.            *)
AdvanceLate == cur' = NextOf(cur) /\ nxt' = NextOf(NextOf(cur))

(* sglib's it_next: the element saved before the body ran.                 *)
Advance == cur' = nxt /\ nxt' = NextOf(nxt)

(* Fault: a think already done at nextthink is due again.                  *)
DueAgain(e) == forced[e] \/ (lastthink[e] <= nextthink[e] /\ nextthink[e] < now)

Due(e) == forced[e] \/ (lastthink[e] < nextthink[e] /\ nextthink[e] < now)

(* The body for an entity that does not think.                             *)
Pass ==
  /\ pc = "iter" /\ cur # NULL
  /\ ~Due(cur)
  /\ Advance
  /\ pending' = pending \ {cur}
  /\ UNCHANGED <<lists, z, ref, handle, links, clocks, now, pc>>

(* g_entity_think up to the call of the Lua function.                      *)
ThinkCall ==
  /\ pc = "iter" /\ cur # NULL
  /\ Due(cur)
  /\ forced' = [forced EXCEPT ![cur] = FALSE]
  /\ lastthink' = [lastthink EXCEPT ![cur] = nextthink[cur]]
  /\ pending' = pending \ {cur}
  /\ IF ref[cur] = NULL
     THEN pc' = "panic"   \* lua_getfield on nil, outside any protected call
     ELSE pc' = "think"
  /\ UNCHANGED <<lists, z, ref, handle, links, nextthink, now, cur, nxt>>

ThinkReturn ==
  /\ pc = "think"
  /\ pc' = "iter"
  /\ Advance
  /\ UNCHANGED <<lists, z, ref, handle, links, clocks, now, pending>>

FrameEnd ==
  /\ pc = "iter" /\ cur = NULL
  /\ pc' = "idle"
  /\ UNCHANGED <<lists, z, ref, handle, links, clocks, now, cur, nxt, pending>>

(* g_entity_shutdown: every entity deleted, then every struct freed.       *)
Shutdown ==
  /\ pc = "idle"
  /\ pc' = "down"
  /\ heap' = [e \in Ent |-> "free"]
  /\ entities' = <<>>
  /\ removed' = <<>>
  /\ handle' = [t \in Table |-> IF \E e \in Listed: ref[e] = t THEN NULL ELSE handle[t]]
  /\ ref' = [e \in Ent |-> NULL]
  /\ pending' = {}
  /\ UNCHANGED <<z, links, clocks, now, cur, nxt>>

(* The process has ended.                                                  *)
Stopped == pc \in {"panic", "down"} /\ UNCHANGED vars

LuaStep ==
  \/ \E e \in Ent, t \in Table: EntSpawn(e, t)
  \/ \E t \in Table: EntRemove(t)
  \/ \E t \in Table, k \in ZOrder: SetZ(t, k)
  \/ \E t \in Table, k \in Time: SetNextThink(t, k)
  \/ \E t \in Table, k \in Time: SetLastThink(t, k)
  \/ \E t, u \in Table: Attach(t, u)
  \/ \E t, u \in Table: Detach(t, u)
  \/ \E t \in Table: AttachInvalid(t)

WalkStep == Pass \/ ThinkCall \/ ThinkReturn \/ FrameEnd

Next ==
  \/ LuaStep
  \/ \E e \in Ent: ForceThink(e)
  \/ \E t \in Time: FrameStart(t)
  \/ WalkStep
  \/ Shutdown
  \/ Stopped

Spec == Init /\ [][Next]_vars

(* The walk is plain C code and a Lua think returns: both keep going.      *)
WalkFairness ==
  WF_vars(Pass) /\ WF_vars(ThinkCall) /\ WF_vars(ThinkReturn) /\ WF_vars(FrameEnd)
FairSpec == Spec /\ WalkFairness
-----------------------------------------------------------------------------
(* Properties.                                                             *)

TypeOK ==
  /\ heap \in [Ent -> {"free", "listed", "removed"}]
  /\ entities \in Seq(Ent) /\ removed \in Seq(Ent)
  /\ z \in [Ent -> ZOrder]
  /\ ref \in [Ent -> Table \cup {NULL}]
  /\ handle \in [Table -> Ent \cup {NULL, NIL}]
  /\ attached \in [Ent -> Ent \cup {NULL}]
  /\ num \in [Ent -> Int]
  /\ forced \in [Ent -> BOOLEAN]
  /\ nextthink \in [Ent -> Time] /\ lastthink \in [Ent -> Time] /\ now \in Time
  /\ pc \in {"idle", "iter", "think", "panic", "down"}
  /\ cur \in Ent \cup {NULL} /\ nxt \in Ent \cup {NULL}
  /\ pending \subseteq Ent

(* Lua never holds a handle to a removed or freed entity: a table's __ref  *)
(* that is an address is the address of a listed entity that belongs to    *)
(* that very table, whatever is removed, spawned again at a reused address *)
(* or spawned twice with one table (ent_lua_spawn, g_entity_delete).       *)
HandlesNameListedEntities ==
  \A t \in Handles: heap[handle[t]] = "listed" /\ ref[handle[t]] = t

(* An entity that is still allocated is valid (g_entity_is_valid: it has a *)
(* lua_ref) exactly while it is listed, so the checks that skip removed    *)
(* entities in collisions are reliable.                                    *)
ValidMeansListed == \A e \in Ent: ref[e] # NULL <=> heap[e] = "listed"

(* So what Lua and C take for an entity is one that is listed.             *)
HandlesCurrent == HandlesNameListedEntities /\ ValidMeansListed

(* The two lists hold every allocated entity exactly once: sglib's assert  *)
(* "element is not member of the container" cannot fail in g_entity_delete *)
(* and no struct is freed twice or lost.                                   *)
HoldsOnce(s, state) == IsInjective(s) /\ Range(s) = {e \in Ent: heap[e] = state}
ListsPartitionHeap == HoldsOnce(entities, "listed") /\ HoldsOnce(removed, "removed")

(* The list is ordered by z in every state, also in the middle of a walk:  *)
(* drawing goes from the lowest to the highest.                            *)
Sorted == \A i, j \in DOMAIN entities: i < j => z[entities[i]] <= z[entities[j]]

(* Entities on the same level never change places unless one of them is    *)
(* moved: sorting the list again for another entity leaves them alone.     *)
Before(a, b) == \E i, j \in DOMAIN entities: i < j /\ entities[i] = a /\ entities[j] = b
OrderStable ==
  [][\A a, b \in Listed:
       /\ Before(a, b)
       /\ heap'[a] = "listed" /\ heap'[b] = "listed"
       /\ z'[a] = z[a] /\ z'[b] = z[b]
       => Before(a, b)']_<<entities, z, heap>>

(* num_attachments may drift, but only downwards: it never exceeds the     *)
(* number of entities really attached.  So a count above zero always means *)
(* that attachers exist, the case g_entity_remove_attachment skips.        *)
CountNeverExceedsAttachers ==
  \A e \in Listed: num[e] <= Cardinality(Attachers(e))

(* The walk never steps on freed memory, whatever a think removes: removal *)
(* defers the free to the start of the next walk.                          *)
CursorAllocated ==
  pc \in {"iter", "think"} => /\ cur = NULL \/ heap[cur] # "free"
                              /\ nxt = NULL \/ heap[nxt] # "free"

(* With careful game code an attachment always leads to a listed entity.   *)
AttachmentsListed == \A e \in Listed: attached[e] \in Listed \cup {NULL}

(* With careful game code the walk stays in the entities list and no think *)
(* is dispatched to a removed entity.                                      *)
CursorListed ==
  /\ pc = "iter" => cur \in Listed \cup {NULL}
  /\ pc \in {"iter", "think"} => nxt \in Listed \cup {NULL}
  /\ pc # "panic"

(* So neither an attachment nor a walk leads to an entity that has been    *)
(* removed, as long as game code lets go of an entity before it removes it. *)
OnlyListedReached == AttachmentsListed /\ CursorListed

(* With careful game code a walk visits every entity that was listed when  *)
(* it began and was not removed before its turn, however thinking entities *)
(* move themselves in the list and spawn others.                           *)
WalkVisitsAll == pc = "iter" /\ cur = NULL => pending = {}

(* g_entity_delete: "remove all handlers, mark invalid".  No think is      *)
(* dispatched to an entity whose handlers were removed.                    *)
NoThinkWithoutHandlers == [][pc = "iter" /\ cur # NULL /\ pc' # "iter" => ref[cur] # NULL]_vars

(* Every walk ends, also when thinks re-order the list under it and rearm  *)
(* their own timers, as long as lastthink is not set back.                 *)
WalkEnds == (pc \in {"iter", "think"}) ~> (pc \in {"idle", "panic"})
=============================================================================
