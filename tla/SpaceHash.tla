----------------------------- MODULE SpaceHash ------------------------------
(***************************************************************************)
(* Chipmunk's spatial hash (src/3rd/chipmunk/cpSpaceHash.c) as a space     *)
(* uses its two: the one of static shapes is hashed again when one is      *)
(* placed, and asked once for each moving shape; the one of moving shapes  *)
(* is emptied and filled in every step, each shape meeting those hashed    *)
(* before it.  What it finds it hands to a function that may reach game    *)
(* code, and game code may ask either hash what is at a point, or move a   *)
(* static shape.                                                           *)
(*                                                                         *)
(* A cell's chain and the iterations over shapes and positions go in no    *)
(* order.  A handle's stamp only counts as long as it is the hash's; those *)
(* handles are a set.  The bins of a chain go back to a pool when the hash *)
(* is cleared, and out of it into other chains: a query under way is lost  *)
(* then, which is as far as the model goes.  The arithmetic of cells is    *)
(* left out.                                                               *)
(***************************************************************************)
EXTENDS Integers, FiniteSets, Shared

CONSTANTS
  Obj,        (* Shapes.                                                     *)
  Hand,       (* Addresses of handles: as many as are ever needed.           *)
  Cell,       (* Indices of the table.                                       *)
  Pos,        (* Positions of the grid.                                      *)
  CellOf,     (* hash_func: the cell of a position.                          *)
  Boxes       (* Bounding boxes, sets of positions.                          *)

ASSUME SpaceHashAssumption ==
  /\ NONE \notin Obj \cup Hand \cup Cell /\ CellOf \in [Pos -> Cell]
  /\ IsFiniteSet(Cell) /\ IsFiniteSet(Hand) /\ Boxes \subseteq (SUBSET Pos) \ {{}}

VARIABLES
  moving,     (* The hash of the moving shapes, or that of the static ones.  *)
  handle,     (* handleSet: the handle of each shape, or NONE.               *)
  hobj,       (* hand->obj.                                                  *)
  retain,     (* hand->retain.                                               *)
  stamped,    (* The handles with the hash's stamp.                          *)
  pooled,     (* pooledHandles.                                              *)
  table,      (* The handles in each cell.                                   *)
  box,        (* Where each shape is, by its bounding box when last hashed.  *)
  at,         (* "idle", "step", "visit", "query" a cell, in the "func";     *)
              (* "asked"; "lost": the query's chain has gone.                *)
  left,       (* Handles the step has still to hash.                         *)
  cur,        (* The handle that is hashed now; NONE if another's is sought. *)
  poss,       (* Its positions still to be looked at.                        *)
  bins,       (* What is still to be looked at in the cell;                  *)
  cell,       (* that cell;                                                  *)
  other,      (* and the handle handed to the function.                      *)
  sought,     (* The shape or box the query is for.                          *)
  met,        (* History: the pairs handed to it in this step or query,      *)
  again,      (* and those handed to it more than once.                      *)
  nested,     (* History: game code has asked in the middle of it.           *)
  found       (* What the last question, for a cell, found; NONE.            *)

handles  == <<handle, hobj, retain, pooled>>
walk     == <<at, left, cur, poss, bins, cell, other, sought>>
history  == <<met, again, nested>>
spaceHashVars == <<moving, handles, stamped, table, box, walk, history, found>>

SpaceHashInit ==
  /\ moving \in BOOLEAN
  /\ handle = [o \in Obj |-> NONE] /\ hobj = [h \in Hand |-> NONE]
  /\ retain = [h \in Hand |-> 0] /\ pooled = Hand /\ stamped = {}
  /\ table = [c \in Cell |-> {}] /\ box = [o \in Obj |-> {}]
  /\ at = "idle" /\ left = {} /\ cur = NONE /\ poss = {} /\ bins = {}
  /\ cell = NONE /\ other = NONE /\ sought = {}
  /\ met = {} /\ again = {} /\ nested = FALSE /\ found = NONE

Hashed  == {handle[o]: o \in Obj} \ {NONE}
Cells(b) == {CellOf[p]: p \in b}
In(h)   == {c \in Cell: h \in table[c]}

-----------------------------------------------------------------------------
(* Between steps.                                                          *)

(* cpSpaceHashInsert: a new handle, retained by the set and by each cell.  *)
Insert(o, b) ==
  /\ at = "idle" /\ handle[o] = NONE
  /\ \E h \in pooled:
       /\ handle' = [handle EXCEPT ![o] = h] /\ hobj' = [hobj EXCEPT ![h] = o]
       /\ pooled' = pooled \ {h} /\ stamped' = stamped \ {h}
       /\ retain' = [retain EXCEPT ![h] = 1 + Cardinality(Cells(b) \ In(h))]
       /\ table' = [c \in Cell |-> IF c \in Cells(b) THEN table[c] \cup {h} ELSE table[c]]
  /\ box' = [box EXCEPT ![o] = b] /\ found' = NONE
  /\ UNCHANGED <<moving, walk, history>>

(* Fault: the handle is pooled while cells still hold it.                  *)
ReleasedBySet(h) == {h}

(* The handle goes to the pool when nobody retains it any more.            *)
Released(h) == IF retain[h] = 1 THEN {h} ELSE {}

(* cpSpaceHashRemove: the cells keep the handle until they are cleared.    *)
RemoveObj(o) ==
  /\ at = "idle" /\ handle[o] # NONE
  /\ handle' = [handle EXCEPT ![o] = NONE]
  /\ hobj' = [hobj EXCEPT ![handle[o]] = NONE]
  /\ retain' = [retain EXCEPT ![handle[o]] = @ - 1]
  /\ pooled' = pooled \cup Released(handle[o])
  /\ box' = [box EXCEPT ![o] = {}] /\ found' = NONE
  /\ UNCHANGED <<moving, stamped, table, walk, history>>

(* clearHash.                                                              *)
Kept(h) == retain[h] - Cardinality(In(h))
PooledBy == {h \in Hand: In(h) # {} /\ Kept(h) = 0}

(* cpSpaceHashRehash, for cpSpaceRehashStatic: bounding boxes have changed.*)
Rehash(b) ==
  /\ at = "idle" /\ ~moving
  /\ \A o \in Obj: (b[o] = {}) <=> (handle[o] = NONE)
  /\ box' = b
  /\ table' = [c \in Cell |-> {handle[o]: o \in {p \in Obj: c \in Cells(b[p])}}]
  /\ retain' = [h \in Hand |-> Kept(h) + Cardinality({c \in Cell: h \in table'[c]})]
  /\ pooled' = pooled \cup PooledBy
  /\ found' = NONE
  /\ UNCHANGED <<moving, handle, hobj, stamped, walk, history>>

(* The same in a touch function that moves a static entity: bin->next then *)
(* leads into another chain or the pool, where new bins have no handle.    *)
RehashInQuery ==
  /\ at = "func" /\ ~moving
  /\ at' = "lost"
  /\ UNCHANGED <<moving, handles, stamped, table, box, left, cur, poss, bins, cell, other,
                 sought, history, found>>

Lost == at = "lost" /\ UNCHANGED spaceHashVars

-----------------------------------------------------------------------------
(* cpSpaceHashPointQuery.                                                  *)

Finds(c) == {hobj[h]: h \in table[c] \ stamped} \ {NONE}

PointQuery(c) ==
  /\ at \in {"idle", "func"}
  /\ found' = [cell |-> c, objs |-> Finds(c)]
  /\ stamped' = {}
  /\ nested' = (nested \/ at = "func")
  /\ UNCHANGED <<moving, handles, table, box, walk, met, again>>

-----------------------------------------------------------------------------
(* A step.                                                                 *)

Anew == met' = {} /\ again' = {} /\ nested' = FALSE /\ found' = NONE

(* cpSpaceHashQueryRehash.                                                 *)
StepBegins(b) ==
  /\ at = "idle" /\ moving
  /\ \A o \in Obj: (b[o] = {}) <=> (handle[o] = NONE)
  /\ box' = b
  /\ table' = [c \in Cell |-> {}]
  /\ retain' = [h \in Hand |-> Kept(h)]
  /\ pooled' = pooled \cup PooledBy
  /\ left' = Hashed /\ at' = "step"
  /\ Anew
  /\ UNCHANGED <<moving, handle, hobj, stamped, cur, poss, bins, cell, other, sought>>

(* handleQueryRehashHelper.                                                *)
Visit(h) ==
  /\ at = "step" /\ h \in left
  /\ left' = left \ {h} /\ cur' = h
  /\ poss' = box[hobj[h]] /\ sought' = box[hobj[h]]
  /\ at' = "visit"
  /\ UNCHANGED <<moving, handles, stamped, table, box, bins, cell, other, history, found>>

(* cpSpaceHashQuery of the static hash, for a moving shape.                *)
Seek(b) ==
  /\ at = "idle" /\ ~moving
  /\ poss' = b /\ sought' = b /\ at' = "visit"
  /\ Anew
  /\ UNCHANGED <<moving, handles, stamped, table, box, left, cur, bins, cell, other>>

(* A cell; it holds the handle already if two positions share it.          *)
LookAt(p) ==
  /\ at = "visit" /\ p \in poss
  /\ poss' = poss \ {p}
  /\ IF cur # NONE /\ cur \in table[CellOf[p]]
     THEN UNCHANGED <<at, bins, cell, retain>>
     ELSE /\ at' = "query" /\ bins' = table[CellOf[p]] /\ cell' = CellOf[p]
          /\ retain' = IF cur = NONE THEN retain ELSE [retain EXCEPT ![cur] = @ + 1]
  /\ UNCHANGED <<moving, handle, hobj, pooled, stamped, table, box, left, cur, other,
                 sought, history, found>>

(* query: what has been seen or is gone is left out.                       *)
SkipBin(h) ==
  /\ at = "query" /\ h \in bins
  /\ h \in stamped \/ hobj[h] = NONE
  /\ bins' = bins \ {h}
  /\ UNCHANGED <<moving, handles, stamped, table, box, at, left, cur, poss, cell, other,
                 sought, history, found>>

Pair(h) == {hobj[h]} \cup IF cur = NONE THEN {} ELSE {hobj[cur]}

CallFunc(h) ==
  /\ at = "query" /\ h \in bins
  /\ h \notin stamped /\ hobj[h] # NONE
  /\ bins' = bins \ {h} /\ other' = h /\ at' = "func"
  /\ met' = met \cup {Pair(h)}
  /\ again' = again \cup ({Pair(h)} \cap met)
  /\ UNCHANGED <<moving, handles, stamped, table, box, left, cur, poss, cell, sought, nested, found>>

(* Fault: the pair is not marked.                                          *)
Unmarked == {}

(* Afterwards the handle gets the stamp that the hash has by now.          *)
Marked == {other}

FuncReturns ==
  /\ at = "func" /\ at' = "query"
  /\ stamped' = stamped \cup Marked
  /\ other' = NONE
  /\ UNCHANGED <<moving, handles, table, box, left, cur, poss, bins, cell, sought, history, found>>

CellDone ==
  /\ at = "query" /\ bins = {}
  /\ table' = IF cur = NONE THEN table ELSE [table EXCEPT ![cell] = @ \cup {cur}]
  /\ at' = "visit" /\ cell' = NONE
  /\ UNCHANGED <<moving, handles, stamped, box, left, cur, poss, bins, other, sought, history, found>>

VisitDone ==
  /\ at = "visit" /\ poss = {}
  /\ stamped' = {} /\ cur' = NONE
  /\ at' = IF moving THEN "step" ELSE "asked"
  /\ UNCHANGED <<moving, handles, table, box, left, poss, bins, cell, other, sought, history, found>>

StepDone ==
  /\ (at = "step" /\ left = {}) \/ at = "asked"
  /\ at' = "idle" /\ sought' = {} /\ Anew
  /\ UNCHANGED <<moving, handles, stamped, table, box, left, cur, poss, bins, cell, other>>

SpaceHashNext ==
  \/ \E o \in Obj, b \in Boxes: Insert(o, b)
  \/ \E o \in Obj: RemoveObj(o)
  \/ \E b \in [Obj -> Boxes \cup {{}}]: Rehash(b)
  \/ RehashInQuery
  \/ Lost
  \/ \E c \in Cell: PointQuery(c)
  \/ \E b \in [Obj -> Boxes \cup {{}}]: StepBegins(b)
  \/ \E h \in Hand: Visit(h)
  \/ \E b \in Boxes: Seek(b)
  \/ \E p \in Pos: LookAt(p)
  \/ \E h \in Hand: SkipBin(h)
  \/ \E h \in Hand: CallFunc(h)
  \/ FuncReturns
  \/ CellDone
  \/ VisitDone
  \/ StepDone

SpaceHashSpec == SpaceHashInit /\ [][SpaceHashNext]_spaceHashVars

-----------------------------------------------------------------------------
(* Properties.                                                             *)

SpaceHashType ==
  /\ moving \in BOOLEAN
  /\ handle \in [Obj -> Hand \cup {NONE}] /\ hobj \in [Hand -> Obj \cup {NONE}]
  /\ retain \in [Hand -> Nat] /\ stamped \subseteq Hand /\ pooled \subseteq Hand
  /\ table \in [Cell -> SUBSET Hand] /\ box \in [Obj -> SUBSET Pos]
  /\ at \in {"idle", "step", "visit", "query", "func", "asked", "lost"}
  /\ left \subseteq Hand /\ cur \in Hand \cup {NONE} /\ poss \subseteq Pos
  /\ bins \subseteq Hand /\ cell \in Cell \cup {NONE} /\ other \in Hand \cup {NONE}
  /\ sought \subseteq Pos /\ nested \in BOOLEAN

(* A handle is retained by the set, by every cell it is in and by the cell *)
(* that is being queried for it, and is pooled when by none of them: what  *)
(* a cell still holds is never handed out for another shape.               *)
HandlesCounted ==
  SpaceHashType /\
  \A h \in Hand:
    /\ retain[h] = Cardinality(In(h)) + (IF h \in Hashed THEN 1 ELSE 0)
                   + (IF cur = h /\ cell # NONE THEN 1 ELSE 0)
    /\ h \in pooled <=> retain[h] = 0

(* When a step or a query is over, the pairs that share a cell have been   *)
(* handed on, no others, and none twice, unless game code asked for a      *)
(* point in the middle; a point query between steps finds every shape      *)
(* hashed to its cell and no shape that has been removed.                  *)
Near(o, p) == Cells(box[o]) \cap Cells(box[p]) # {}
PairsMetOnce ==
  /\ at = "step" /\ left = {} =>
       /\ met = {pr \in SUBSET Obj: \E o, p \in Obj: o # p /\ pr = {o, p} /\ Near(o, p)}
       /\ (again = {} \/ nested)
  /\ at = "asked" =>
       /\ met = {{o}: o \in {p \in Obj: Cells(box[p]) \cap Cells(sought) # {}}}
       /\ (again = {} \/ nested)
  /\ at = "idle" /\ found # NONE =>
       found.objs = {o \in Obj: found.cell \in Cells(box[o])}
=============================================================================
