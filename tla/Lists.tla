------------------------------- MODULE Lists --------------------------------
(***************************************************************************)
(* The sorted lists of SGLIB (src/3rd/sglib/sglib.h), as macros over next  *)
(* pointers: the list of entities, which is sorted again when one has      *)
(* changed its z-order, and the lists of sprites, textures, sounds and     *)
(* fonts, in which things are found by name.  Entity takes from here that  *)
(* the sort is stable, Sprites and Fonts that what is listed is found.     *)
(*                                                                         *)
(* One operation on one list, from any sorted list, whose nodes are        *)
(* numbered as they stand in it; one more node stands for what is added    *)
(* or looked for.  0 is NULL.  A pointer to a next field is the number of  *)
(* the node, a pointer to the list itself is 0.                            *)
(***************************************************************************)
EXTENDS Integers, Sequences

CONSTANTS
  MaxLen,     (* Bound: the length of the list.                              *)
  Rank        (* What nodes are compared by: z-orders or names.              *)

ASSUME ListsAssumption == MaxLen \in Nat /\ Rank \subseteq Int /\ 0 \in Rank

VARIABLES
  tie,        (* What the comparator returns for equals: -1, or 0.           *)
  many,       (* How many nodes the list had.                                *)
  rank,       (* What each node is compared by.                              *)
  link,       (* next.                                                       *)
  first,      (* The list; in the sort, _r_.                                 *)
  spot,       (* _e_ or _p_, a pointer to a pointer; in the sort, _restail_. *)
  doing,      (* The operation, where in the sort, or the result.            *)
  gone,       (* The node to be deleted.                                     *)
  member,     (* What find_member returned.                                  *)
  na, nb,     (* In the sort: _a_, _b_,                                      *)
  nleft,      (* _todo_,                                                     *)
  run,        (* _n_,                                                        *)
  again       (* _contFlag_.                                                 *)

sorting   == <<na, nb, nleft, run, again>>
listsVars == <<tie, many, rank, link, first, spot, doing, gone, member, sorting>>

Node  == 1 .. MaxLen + 1
Extra == MaxLen + 1

Comparator(x, y) == IF rank[x] = rank[y] THEN tie ELSE rank[x] - rank[y]

(* What a pointer to a pointer points to, and an assignment through it.    *)
Deref(p)    == IF p = 0 THEN first ELSE link[p]
Store(p, x) ==
  /\ first' = IF p = 0 THEN x ELSE first
  /\ link' = IF p = 0 THEN link ELSE [link EXCEPT ![p] = x]

ListsInit ==
  /\ tie \in {-1, 0}
  /\ many \in 0 .. MaxLen
  /\ rank \in {r \in [Node -> Rank]: (\A i, j \in 1 .. many: i < j => r[i] <= r[j]) /\
                                     (\A i \in Node: i > many => r[i] = 0)}
  /\ link = [i \in Node |-> IF i < many THEN i + 1 ELSE 0]
  /\ first = IF many = 0 THEN 0 ELSE 1
  /\ spot = 0 /\ doing = "none" /\ gone = 0 /\ member = 0
  /\ na = 0 /\ nb = 0 /\ nleft = 0 /\ run = 0 /\ again = FALSE

-----------------------------------------------------------------------------
(* Adding, finding, deleting.                                              *)

Starts(op) ==
  /\ doing = "none" /\ doing' = op
  /\ UNCHANGED <<tie, many, link, first, spot, member, sorting>>

AddBegins(k) ==
  /\ Starts("add")
  /\ rank' = [rank EXCEPT ![Extra] = k]
  /\ UNCHANGED gone

FindBegins(k) ==
  /\ Starts("find") /\ tie = 0
  /\ rank' = [rank EXCEPT ![Extra] = k]
  /\ UNCHANGED gone

DeleteBegins(x) ==
  /\ Starts("delete") /\ x <= many
  /\ gone' = x
  /\ UNCHANGED rank

(* SGLIB_SORTED_LIST_FIND_MEMBER_OR_PLACE and SGLIB_SORTED_LIST_FIND_MEMBER*)
(* go past what is less; SGLIB_LIST_DELETE past all but the node.          *)
Past(x) == IF doing = "delete" THEN x # gone ELSE Comparator(x, Extra) < 0

Advance ==
  /\ doing \in {"add", "find", "delete"}
  /\ Deref(spot) # 0 /\ Past(Deref(spot))
  /\ spot' = Deref(spot)
  /\ UNCHANGED <<tie, many, rank, link, first, doing, gone, member, sorting>>

Arrived(op) == doing' = op /\ (Deref(spot) # 0 => ~Past(Deref(spot)))

AddEnds ==
  /\ doing = "add" /\ Arrived("added")
  /\ first' = IF spot = 0 THEN Extra ELSE first
  /\ link' = [p \in Node |-> IF p = Extra THEN Deref(spot) ELSE IF p = spot THEN Extra ELSE link[p]]
  /\ UNCHANGED <<tie, many, rank, spot, gone, member, sorting>>

FindEnds ==
  /\ doing = "find" /\ Arrived("found")
  /\ member' = IF Deref(spot) # 0 /\ Comparator(Deref(spot), Extra) = 0 THEN Deref(spot) ELSE 0
  /\ UNCHANGED <<tie, many, rank, link, first, spot, gone, sorting>>

DeleteEnds ==
  /\ doing = "delete" /\ Arrived("deleted")
  /\ Deref(spot) # 0
  /\ Store(spot, link[Deref(spot)])
  /\ UNCHANGED <<tie, many, rank, spot, gone, member, sorting>>

-----------------------------------------------------------------------------
(* SGLIB_LIST_SORT, of the entities after one has got another z-order.     *)

SortBegins(x, k) ==
  /\ doing = "none" /\ doing' = "pass"
  /\ tie = -1 /\ x <= many
  /\ rank' = [rank EXCEPT ![x] = k]
  /\ run' = 1 /\ nleft' = first /\ first' = 0 /\ again' = FALSE
  /\ UNCHANGED <<tie, many, link, spot, gone, member, na, nb>>

(* The list that begins with x.                                            *)
Chain(x) ==
  LET nth[i \in Node] == IF i = 1 THEN x ELSE IF nth[i - 1] = 0 THEN 0 ELSE link[nth[i - 1]]
  IN  [i \in {j \in Node: nth[j] # 0} |-> nth[i]]

(* The last node of a run that begins with x, or NULL if it is too short.  *)
RunEnd(x) == IF run <= Len(Chain(x)) THEN Chain(x)[run] ELSE 0

(* The first run, and what is left of the second, cut off.                 *)
TakeRuns ==
  /\ doing = "pass" /\ nleft # 0 /\ RunEnd(nleft) # 0
  /\ LET b == link[RunEnd(nleft)]
         end == IF b = 0 THEN 0 ELSE RunEnd(b)
     IN  /\ nb' = b
         /\ nleft' = IF end = 0 THEN 0 ELSE link[end]
         /\ link' = [p \in Node |-> IF p \in {RunEnd(nleft), end} THEN 0 ELSE link[p]]
  /\ na' = nleft
  /\ doing' = "merge"
  /\ UNCHANGED <<tie, many, rank, first, spot, gone, member, run, again>>

(* Less than a run is left.                                                *)
LastRun ==
  /\ doing = "pass" /\ nleft # 0 /\ RunEnd(nleft) = 0
  /\ Store(spot, nleft)
  /\ nleft' = 0
  /\ UNCHANGED <<tie, many, rank, spot, doing, gone, member, na, nb, run, again>>

(* Fault: of two equals the one from behind goes first.                    *)
TakesFirstIfLess == rank[na] < rank[nb]

TakesFirst == Comparator(na, nb) < 0

Merge ==
  /\ doing = "merge" /\ na # 0 /\ nb # 0
  /\ IF TakesFirst
     THEN Store(spot, na) /\ spot' = na /\ na' = link[na] /\ nb' = nb
     ELSE Store(spot, nb) /\ spot' = nb /\ nb' = link[nb] /\ na' = na
  /\ UNCHANGED <<tie, many, rank, doing, gone, member, nleft, run, again>>

(* The rest of the one that is not used up.                                *)
MergeEnds ==
  /\ doing = "merge" /\ (na = 0 \/ nb = 0)
  /\ LET rest  == IF na # 0 THEN na ELSE nb
         chain == Chain(rest)
     IN  /\ Store(spot, rest)
         /\ spot' = IF rest = 0 THEN spot ELSE chain[Len(chain)]
  /\ na' = 0 /\ nb' = 0 /\ again' = TRUE /\ doing' = "pass"
  /\ UNCHANGED <<tie, many, rank, gone, member, nleft, run>>

(* The next pass, with runs of twice the length, or the end of it.       *)
PassEnds ==
  /\ doing = "pass" /\ nleft = 0
  /\ spot' = 0 /\ again' = FALSE
  /\ IF again THEN run' = 2 * run /\ nleft' = first /\ first' = 0 /\ doing' = "pass"
     ELSE doing' = "sorted" /\ UNCHANGED <<run, nleft, first>>
  /\ UNCHANGED <<tie, many, rank, link, gone, member, na, nb>>

Finished == {"added", "found", "deleted", "sorted"}

ListsNext ==
  \/ \E k \in Rank: AddBegins(k)
  \/ \E k \in Rank: FindBegins(k)
  \/ \E x \in Node: DeleteBegins(x)
  \/ \E x \in Node, k \in Rank: SortBegins(x, k)
  \/ Advance
  \/ AddEnds
  \/ FindEnds
  \/ DeleteEnds
  \/ TakeRuns
  \/ LastRun
  \/ Merge
  \/ MergeEnds
  \/ PassEnds
  \/ doing \in Finished /\ UNCHANGED listsVars

ListsSpec == ListsInit /\ [][ListsNext]_listsVars

-----------------------------------------------------------------------------
(* Properties.                                                             *)

ListsType ==
  /\ tie \in {-1, 0} /\ many \in 0 .. MaxLen /\ rank \in [Node -> Rank]
  /\ link \in [Node -> Node \cup {0}]
  /\ {first, spot, gone, member, na, nb, nleft} \subseteq Node \cup {0}
  /\ doing \in {"none", "add", "find", "delete", "pass", "merge"} \cup Finished
  /\ run \in 0 .. 2 * MaxLen /\ again \in BOOLEAN

Nodes(s) == {s[i]: i \in DOMAIN s}

(* While a list is sorted, its nodes are in what has been merged, in the   *)
(* two runs and in what is left, each of them once: a sort drops no entity *)
(* and makes no circle.                                                    *)
Merged ==
  IF doing = "pass" THEN Chain(first)
  ELSE IF spot = 0 THEN <<>>
  ELSE SubSeq(Chain(first), 1, CHOOSE i \in DOMAIN Chain(first): Chain(first)[i] = spot)
NothingLost ==
  doing \in {"pass", "merge"} =>
    LET parts == Merged \o Chain(na) \o Chain(nb) \o Chain(nleft)
    IN  Nodes(parts) = 1 .. many /\ \A i, j \in DOMAIN parts: parts[i] = parts[j] => i = j

(* What the operation leaves is sorted, and equals stand as they stood:    *)
(* what is added goes behind its equals in the list of entities and in     *)
(* front of them in the others, what is sorted keeps its place among them; *)
(* what has been deleted is gone, and only that; and what is looked for by *)
(* name is the first of that name, if there is one.                        *)
Behind(x, y) ==
  \/ rank[x] < rank[y]
  \/ rank[x] = rank[y] /\ IF tie = 0 /\ Extra \in {x, y} THEN x = Extra ELSE x < y
OperationDone ==
  doing \in Finished =>
    LET chain == Chain(first)
        named == {x \in 1 .. many: rank[x] = rank[Extra]}
    IN  /\ \A i, j \in DOMAIN chain: i < j => Behind(chain[i], chain[j])
        /\ Nodes(chain) = CASE doing = "added"   -> (1 .. many) \cup {Extra}
                             [] doing = "deleted" -> (1 .. many) \ {gone}
                             [] OTHER             -> 1 .. many
        /\ doing = "found" => /\ named = {} => member = 0
                              /\ named # {} => member \in named /\ \A x \in named: member <= x

ListKept == ListsType /\ NothingLost /\ OperationDone
=============================================================================
