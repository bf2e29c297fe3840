---------------------------- MODULE EntityProofs ----------------------------
(***************************************************************************)
(* Proofs about Entity, for any sets of addresses, tables, z-orders and    *)
(* times: types, handles, the two lists, the draw order, the attachment     *)
(* counts, and what careful game code can rely on.                         *)
(***************************************************************************)
EXTENDS Entity, FiniteSetTheorems, SequenceTheorems, TLAPS

-----------------------------------------------------------------------------
(* The sequence operations.                                                *)

(* InsertAt puts e at place i and moves what was there and behind.         *)
LEMMA InsertAtProperties ==
  ASSUME NEW S, NEW s \in Seq(S), NEW i \in 1 .. Len(s) + 1, NEW e \in S
  PROVE  /\ InsertAt(s, i, e) \in Seq(S)
         /\ Len(InsertAt(s, i, e)) = Len(s) + 1
         /\ DOMAIN InsertAt(s, i, e) = 1 .. Len(s) + 1
         /\ \A j \in 1 .. Len(s) + 1:
              InsertAt(s, i, e)[j] = IF j < i THEN s[j] ELSE IF j = i THEN e ELSE s[j - 1]
<1> DEFINE front == SubSeq(s, 1, i - 1)
           back  == SubSeq(s, i, Len(s))
<1>1. Len(s) \in Nat
  BY LenProperties
<1>2. /\ front \in Seq(S) /\ Len(front) = i - 1
      /\ \A j \in 1 .. i - 1: front[j] = s[j]
  BY <1>1, SubSeqProperties
<1>3. /\ back \in Seq(S) /\ Len(back) = Len(s) - i + 1
      /\ \A j \in 1 .. Len(s) - i + 1: back[j] = s[j + i - 1]
  <2>1. CASE i <= Len(s)
    BY <1>1, <2>1, SubSeqProperties
  <2>2. CASE i = Len(s) + 1
    BY <1>1, <2>2, SubSeqProperties
  <2>3. QED
    BY <1>1, <2>1, <2>2
<1>4. /\ <<e>> \in Seq(S) /\ Len(<<e>>) = 1 /\ <<e>>[1] = e
  OBVIOUS
<1>5. /\ front \o <<e>> \in Seq(S)
      /\ Len(front \o <<e>>) = i
      /\ \A j \in 1 .. i: (front \o <<e>>)[j] = IF j < i THEN s[j] ELSE e
  BY <1>1, <1>2, <1>4, ConcatProperties
<1> HIDE DEF front, back
<1> DEFINE left == front \o <<e>>
<1> HIDE DEF left
<1>6. /\ left \in Seq(S) /\ Len(left) = i
      /\ \A j \in 1 .. i: left[j] = IF j < i THEN s[j] ELSE e
  BY <1>5 DEF left
<1>7. /\ left \o back \in Seq(S)
      /\ Len(left \o back) = Len(s) + 1
      /\ \A j \in 1 .. Len(s) + 1:
           (left \o back)[j] = IF j <= i THEN left[j] ELSE back[j - i]
  <2>1. /\ left \o back \in Seq(S)
        /\ Len(left \o back) = Len(left) + Len(back)
        /\ \A j \in 1 .. Len(left) + Len(back):
             (left \o back)[j] = IF j <= Len(left) THEN left[j] ELSE back[j - Len(left)]
    BY <1>3, <1>6, ConcatProperties
  <2>2. Len(left) + Len(back) = Len(s) + 1 /\ Len(left) = i
    BY <1>1, <1>3, <1>6
  <2>3. QED
    BY <2>1, <2>2
<1>8. ASSUME NEW j \in 1 .. Len(s) + 1
      PROVE  (left \o back)[j] = IF j < i THEN s[j] ELSE IF j = i THEN e ELSE s[j - 1]
  BY <1>1, <1>3, <1>6, <1>7
<1>9. QED
  BY <1>7, <1>8, <1>1, LenProperties DEF InsertAt, left, front, back

(* The same as a single statement about the places of the result.          *)
LEMMA InsertPlaces ==
  ASSUME NEW s \in Seq(Ent), NEW i \in 1 .. Len(s) + 1, NEW e \in Ent
  PROVE  /\ DOMAIN InsertAt(s, i, e) = 1 .. Len(s) + 1
         /\ \A j \in 1 .. Len(s) + 1:
              InsertAt(s, i, e)[j] = IF j < i THEN s[j] ELSE IF j = i THEN e ELSE s[j - 1]
<1>1. DOMAIN InsertAt(s, i, e) = 1 .. Len(s) + 1
  BY InsertAtProperties
<1>2. ASSUME NEW j \in 1 .. Len(s) + 1
      PROVE  InsertAt(s, i, e)[j] = IF j < i THEN s[j] ELSE IF j = i THEN e ELSE s[j - 1]
  BY InsertAtProperties
<1>3. QED
  BY <1>1, <1>2

(* Unlink closes the gap at place i.                                       *)
LEMMA UnlinkProperties ==
  ASSUME NEW S, NEW s \in Seq(S), NEW i \in DOMAIN s
  PROVE  /\ Unlink(s, i) \in Seq(S)
         /\ Len(Unlink(s, i)) = Len(s) - 1
         /\ DOMAIN Unlink(s, i) = 1 .. Len(s) - 1
         /\ \A j \in 1 .. Len(s) - 1:
              Unlink(s, i)[j] = IF j < i THEN s[j] ELSE s[j + 1]
<1> DEFINE front == SubSeq(s, 1, i - 1)
           back  == SubSeq(s, i + 1, Len(s))
<1>1. Len(s) \in Nat /\ i \in 1 .. Len(s)
  BY LenProperties
<1>2. /\ front \in Seq(S) /\ Len(front) = i - 1
      /\ \A j \in 1 .. i - 1: front[j] = s[j]
  BY <1>1, SubSeqProperties
<1>3. /\ back \in Seq(S) /\ Len(back) = Len(s) - i
      /\ \A j \in 1 .. Len(s) - i: back[j] = s[j + i]
  <2>1. CASE i < Len(s)
    BY <1>1, <2>1, SubSeqProperties
  <2>2. CASE i = Len(s)
    BY <1>1, <2>2, SubSeqProperties
  <2>3. QED
    BY <1>1, <2>1, <2>2
<1> HIDE DEF front, back
<1>4. /\ front \o back \in Seq(S)
      /\ Len(front \o back) = Len(s) - 1
      /\ \A j \in 1 .. Len(s) - 1: (front \o back)[j] = IF j <= i - 1 THEN front[j] ELSE back[j - (i - 1)]
  <2>1. Len(front) + Len(back) = Len(s) - 1 /\ Len(front) = i - 1
    BY <1>1, <1>2, <1>3
  <2>2. /\ front \o back \in Seq(S)
        /\ Len(front \o back) = Len(front) + Len(back)
        /\ \A j \in 1 .. Len(front) + Len(back):
             (front \o back)[j] = IF j <= Len(front) THEN front[j] ELSE back[j - Len(front)]
    BY <1>2, <1>3, ConcatProperties
  <2>3. QED
    BY <2>1, <2>2
<1>5. ASSUME NEW j \in 1 .. Len(s) - 1
      PROVE  (front \o back)[j] = IF j < i THEN s[j] ELSE s[j + 1]
  <2>1. CASE j < i
    BY <1>1, <1>2, <1>4, <2>1
  <2>2. CASE j >= i
    <3>1. j - (i - 1) \in 1 .. Len(s) - i /\ (j - (i - 1)) + i = j + 1
      BY <1>1, <2>2
    <3>2. (front \o back)[j] = back[j - (i - 1)]
      BY <1>1, <1>4, <2>2
    <3>3. back[j - (i - 1)] = s[(j - (i - 1)) + i]
      BY <1>3, <3>1
    <3>4. ~(j < i)
      BY <1>1, <2>2
    <3>5. QED
      BY <3>1, <3>2, <3>3, <3>4
  <2>3. j < i \/ j >= i
    BY <1>1
  <2>4. QED
    BY <2>1, <2>2, <2>3
<1>6. QED
  BY <1>4, <1>5, <1>1, LenProperties DEF Unlink, RemoveAt, front, back

-----------------------------------------------------------------------------
(* The inductive invariant.  The type of the walk's pointers depends on    *)
(* the lists (the successor of an element is found in its list), the lists *)
(* on the handles (only listed entities are removed) and the handles on    *)
(* lua_ref.                                                                *)
IInv ==
  /\ TypeOK
  /\ ListsPartitionHeap
  /\ HandlesNameListedEntities
  /\ ValidMeansListed
  /\ CursorAllocated

(* Inserting an element that s does not hold keeps s free of duplicates    *)
(* and adds just that element.                                             *)
LEMMA InsertHoldsOnce ==
  ASSUME NEW s \in Seq(Ent), NEW i \in 1 .. Len(s) + 1, NEW e \in Ent,
         IsInjective(s), e \notin Range(s)
  PROVE  /\ IsInjective(InsertAt(s, i, e))
         /\ Range(InsertAt(s, i, e)) = Range(s) \cup {e}
<1> DEFINE r == InsertAt(s, i, e)
<1>1. Len(s) \in Nat /\ DOMAIN s = 1 .. Len(s)
  BY LenProperties
<1>2. /\ DOMAIN r = 1 .. Len(s) + 1
      /\ \A j \in 1 .. Len(s) + 1: r[j] = IF j < i THEN s[j] ELSE IF j = i THEN e ELSE s[j - 1]
  <2>1. DOMAIN r = 1 .. Len(s) + 1
    BY InsertAtProperties
  <2>2. ASSUME NEW j \in 1 .. Len(s) + 1
        PROVE  r[j] = IF j < i THEN s[j] ELSE IF j = i THEN e ELSE s[j - 1]
    BY InsertAtProperties
  <2>3. QED
    BY <2>1, <2>2
<1> HIDE DEF r
<1> DEFINE from(j) == IF j < i THEN j ELSE j - 1
<1>3. ASSUME NEW j \in DOMAIN r, j # i
      PROVE  from(j) \in DOMAIN s /\ r[j] = s[from(j)]
  <2>1. j \in 1 .. Len(s) + 1 /\ i \in 1 .. Len(s) + 1
    BY <1>2
  <2>2. CASE j < i
    BY <1>1, <1>2, <2>1, <2>2
  <2>3. CASE j > i
    BY <1>1, <1>2, <2>1, <2>3
  <2>4. QED
    BY <1>1, <1>3, <2>1, <2>2, <2>3
<1>4. ASSUME NEW j \in DOMAIN r, NEW k \in DOMAIN r, r[j] = r[k]
      PROVE  j = k
  <2>1. r[i] = e /\ i \in Int /\ j \in Int /\ k \in Int
    BY <1>1, <1>2
  <2>2. CASE j = i \/ k = i
    BY <1>3, <1>4, <2>1, <2>2 DEF Range
  <2>3. CASE j # i /\ k # i
    <3>1. from(j) \in DOMAIN s /\ from(k) \in DOMAIN s /\ s[from(j)] = s[from(k)]
      BY <1>3, <1>4, <2>3
    <3>2. from(j) = from(k)
      BY <3>1 DEF IsInjective
    <3>3. QED
      BY <3>2, <2>1, <2>3
  <2>4. QED
    BY <2>2, <2>3
<1>5. ASSUME NEW j \in DOMAIN r
      PROVE  r[j] = e \/ \E k \in DOMAIN s: s[k] = r[j]
  <2>1. CASE j = i
    BY <1>2, <2>1
  <2>2. CASE j # i
    BY <1>3, <2>2
  <2>3. QED
    BY <2>1, <2>2
<1>6. \E j \in DOMAIN r: r[j] = e
  BY <1>1, <1>2
<1>7. ASSUME NEW k \in DOMAIN s
      PROVE  \E j \in DOMAIN r: r[j] = s[k]
  <2>1. CASE k < i
    BY <1>1, <1>2, <2>1
  <2>2. CASE k >= i
    <3>1. k + 1 \in DOMAIN r /\ r[k + 1] = s[k]
      BY <1>1, <1>2, <2>2
    <3>2. QED
      BY <3>1
  <2>3. QED
    BY <1>1, <2>1, <2>2
<1>8. IsInjective(r)
  BY <1>4 DEF IsInjective
<1>9. Range(r) = Range(s) \cup {e}
  BY <1>5, <1>6, <1>7 DEF Range
<1>10. QED
  BY <1>8, <1>9 DEF r

(* Unlinking place i takes away just the element that was there.           *)
LEMMA UnlinkHoldsOnce ==
  ASSUME NEW s \in Seq(Ent), NEW i \in DOMAIN s,
         IsInjective(s)
  PROVE  /\ IsInjective(Unlink(s, i))
         /\ Range(Unlink(s, i)) = Range(s) \ {s[i]}
<1> DEFINE r == Unlink(s, i)
<1>1. Len(s) \in Nat /\ DOMAIN s = 1 .. Len(s)
  BY LenProperties
<1>2. /\ DOMAIN r = 1 .. Len(s) - 1
      /\ \A j \in 1 .. Len(s) - 1: r[j] = IF j < i THEN s[j] ELSE s[j + 1]
  BY UnlinkProperties
<1> HIDE DEF r
<1> DEFINE from(j) == IF j < i THEN j ELSE j + 1
<1>3. ASSUME NEW j \in DOMAIN r, NEW k \in DOMAIN r, r[j] = r[k]
      PROVE  j = k
  <2>1. from(j) \in DOMAIN s /\ from(k) \in DOMAIN s /\ r[j] = s[from(j)] /\ r[k] = s[from(k)]
    BY <1>1, <1>2
  <2>2. from(j) = from(k)
    BY <1>3, <2>1 DEF IsInjective
  <2>3. j \in Int /\ k \in Int /\ i \in Int
    BY <1>1, <1>2
  <2>4. QED
    BY <2>2, <2>3
<1>4. ASSUME NEW j \in DOMAIN r
      PROVE  r[j] # s[i] /\ \E k \in DOMAIN s: s[k] = r[j]
  BY <1>1, <1>2 DEF IsInjective
<1>5. ASSUME NEW k \in DOMAIN s, s[k] # s[i]
      PROVE  \E j \in DOMAIN r: r[j] = s[k]
  <2>1. CASE k < i
    BY <1>1, <1>2, <2>1
  <2>2. CASE k > i
    <3>1. k - 1 \in DOMAIN r /\ r[k - 1] = s[k]
      BY <1>1, <1>2, <2>2
    <3>2. QED
      BY <3>1
  <2>3. QED
    BY <1>1, <1>5, <2>1, <2>2
<1>6. IsInjective(r)
  BY <1>3 DEF IsInjective
<1>7. Range(r) = Range(s) \ {s[i]}
  BY <1>4, <1>5 DEF Range
<1>8. QED
  BY <1>6, <1>7 DEF r

(* An entity put in front of a list that does not hold it.                 *)
LEMMA PushHoldsOnce ==
  ASSUME NEW s \in Seq(Ent), NEW e \in Ent,
         IsInjective(s), e \notin Range(s)
  PROVE  /\ <<e>> \o s \in Seq(Ent)
         /\ IsInjective(<<e>> \o s)
         /\ Range(<<e>> \o s) = Range(s) \cup {e}
<1> DEFINE r == <<e>> \o s
<1>1. Len(s) \in Nat /\ DOMAIN s = 1 .. Len(s)
  BY LenProperties
<1>2. /\ r \in Seq(Ent)
      /\ DOMAIN r = 1 .. Len(s) + 1
      /\ \A j \in 1 .. Len(s) + 1: r[j] = IF j = 1 THEN e ELSE s[j - 1]
  <2>1. <<e>> \in Seq(Ent) /\ Len(<<e>>) = 1 /\ <<e>>[1] = e
    OBVIOUS
  <2>2. /\ r \in Seq(Ent)
        /\ Len(r) = 1 + Len(s)
        /\ \A j \in 1 .. 1 + Len(s): r[j] = IF j <= 1 THEN <<e>>[j] ELSE s[j - 1]
    BY <2>1, ConcatProperties
  <2>3. DOMAIN r = 1 .. 1 + Len(s)
    BY <2>2, LenProperties
  <2>4. QED
    BY <1>1, <2>1, <2>2, <2>3
<1> HIDE DEF r
<1>3. ASSUME NEW j \in DOMAIN r, j # 1
      PROVE  j - 1 \in DOMAIN s /\ r[j] = s[j - 1]
  BY <1>1, <1>2, <1>3
<1>4. 1 \in DOMAIN r /\ r[1] = e
  BY <1>1, <1>2
<1>5. ASSUME NEW j \in DOMAIN r, NEW k \in DOMAIN r, r[j] = r[k]
      PROVE  j = k
  <2>1. CASE j = 1 \/ k = 1
    BY <1>3, <1>4, <1>5, <2>1 DEF Range
  <2>2. CASE j # 1 /\ k # 1
    <3>1. j - 1 = k - 1
      BY <1>3, <1>5, <2>2 DEF IsInjective
    <3>2. QED
      BY <1>1, <1>2, <3>1
  <2>3. QED
    BY <2>1, <2>2
<1>6. ASSUME NEW k \in DOMAIN s
      PROVE  k + 1 \in DOMAIN r /\ r[k + 1] = s[k]
  BY <1>1, <1>2
<1>7. IsInjective(r)
  BY <1>5 DEF IsInjective
<1>8. Range(r) = Range(s) \cup {e}
  BY <1>3, <1>4, <1>6 DEF Range
<1>9. QED
  BY <1>2, <1>7, <1>8 DEF r

(* An entity's next pointer stays in its list.                             *)
LEMMA NextOfStaysInList ==
  ASSUME TypeOK, ListsPartitionHeap, NEW e \in Ent, heap[e] # "free"
  PROVE  NextOf(e) = NULL \/ (NextOf(e) \in Ent /\ heap[NextOf(e)] = heap[e])
<1>1. ASSUME NEW s \in Seq(Ent), NEW state, HoldsOnce(s, state), heap[e] = state
      PROVE  Successor(s, e) = NULL \/ (Successor(s, e) \in Ent /\ heap[Successor(s, e)] = state)
  <2>1. Len(s) \in Nat /\ DOMAIN s = 1 .. Len(s)
    BY LenProperties
  <2>2. \E j \in DOMAIN s: s[j] = e
    BY <1>1 DEF HoldsOnce, Range
  <2> DEFINE i == CHOOSE j \in DOMAIN s: s[j] = e
  <2>3. i \in DOMAIN s
    BY <2>2
  <2> HIDE DEF i
  <2>4. CASE i < Len(s)
    <3>1. i + 1 \in DOMAIN s /\ s[i + 1] \in Ent
      BY <2>1, <2>3, <2>4, ElementOfSeq
    <3>2. heap[s[i + 1]] = state
      BY <1>1, <3>1 DEF HoldsOnce, Range
    <3>3. Successor(s, e) = s[i + 1]
      BY <2>4 DEF Successor, i
    <3>4. QED
      BY <3>1, <3>2, <3>3
  <2>5. CASE ~(i < Len(s))
    BY <2>5 DEF Successor, i
  <2>6. QED
    BY <2>4, <2>5
<1>2. heap[e] \in {"listed", "removed"} /\ e # NULL
  BY NullAssumption DEF TypeOK
<1>3. CASE heap[e] = "listed"
  BY <1>1, <1>2, <1>3 DEF NextOf, TypeOK, ListsPartitionHeap
<1>4. CASE heap[e] = "removed"
  BY <1>1, <1>2, <1>4 DEF NextOf, TypeOK, ListsPartitionHeap
<1>5. QED
  BY <1>2, <1>3, <1>4

-----------------------------------------------------------------------------
(* One lemma for each action that changes a list or moves the walk.        *)

(* A spawned entity is in the list, and the table names it.                *)
LEMMA SpawnKeepsIInv ==
  ASSUME IInv, NEW e \in Ent, NEW t \in Table, EntSpawn(e, t)
  PROVE  IInv'
<1> USE NullAssumption DEF IInv, EntSpawn, lists, links, clocks, walk
<1>1. PICK i \in 1 .. Len(entities) + 1: entities' = InsertAt(entities, i, e)
  OBVIOUS
<1>2. entities' \in Seq(Ent)
  BY <1>1, InsertAtProperties DEF TypeOK
<1>3. TypeOK'
  BY <1>2 DEF TypeOK
<1>4. ListsPartitionHeap'
  <2>1. entities \in Seq(Ent) /\ IsInjective(entities) /\ e \notin Range(entities)
    BY DEF TypeOK, ListsPartitionHeap, HoldsOnce
  <2>2. IsInjective(entities') /\ Range(entities') = Range(entities) \cup {e}
    BY <1>1, <2>1, InsertHoldsOnce
  <2>3. HoldsOnce(entities, "listed")'
    BY <2>2 DEF TypeOK, ListsPartitionHeap, HoldsOnce
  <2>4. HoldsOnce(removed, "removed")'
    BY DEF TypeOK, ListsPartitionHeap, HoldsOnce
  <2>5. QED
    BY <2>3, <2>4 DEF ListsPartitionHeap
<1>5. HandlesNameListedEntities'
  BY DEF TypeOK, HandlesNameListedEntities, Handles, ValidMeansListed
<1>6. ValidMeansListed'
  BY DEF TypeOK, ValidMeansListed
<1>7. CursorAllocated'
  BY DEF TypeOK, CursorAllocated
<1>8. QED
  BY <1>3, <1>4, <1>5, <1>6, <1>7

(* A deleted entity goes from one list to the other, and its table's       *)
(* handle with it.                                                         *)
LEMMA RemoveKeepsIInv ==
  ASSUME IInv, NEW t \in Table, EntRemove(t)
  PROVE  IInv'
<1> USE NullAssumption DEF IInv, EntRemove, Delete, clocks, walk
<1> DEFINE e == handle[t]
<1>1. e \in Ent /\ heap[e] = "listed" /\ ref[e] = t
  BY DEF Handles, HandlesNameListedEntities
<1> HIDE DEF e
<1>2. PICK i \in DOMAIN entities: entities[i] = e /\ entities' = Unlink(entities, i)
  BY DEF e
<1>3. /\ heap' = [heap EXCEPT ![e] = "removed"]
      /\ removed' = <<e>> \o removed
      /\ handle' = [handle EXCEPT ![t] = NULL]
      /\ ref' = [ref EXCEPT ![e] = NULL]
  BY <1>1 DEF e, Retire, ForgetHandle, ForgetRef
<1>4. /\ entities \in Seq(Ent) /\ IsInjective(entities)
      /\ removed \in Seq(Ent) /\ IsInjective(removed) /\ e \notin Range(removed)
  BY <1>1 DEF TypeOK, ListsPartitionHeap, HoldsOnce
<1>5. /\ entities' \in Seq(Ent) /\ IsInjective(entities')
      /\ Range(entities') = Range(entities) \ {e}
  BY <1>2, <1>4, UnlinkProperties, UnlinkHoldsOnce
<1>6. /\ removed' \in Seq(Ent) /\ IsInjective(removed')
      /\ Range(removed') = Range(removed) \cup {e}
  BY <1>1, <1>3, <1>4, PushHoldsOnce
<1>7. TypeOK'
  <2>1. num' \in [Ent -> Int] /\ attached' \in [Ent -> Ent \cup {NULL}]
    BY DEF TypeOK, Decrement, ClearAttachers
  <2>2. /\ heap' \in [Ent -> {"free", "listed", "removed"}]
        /\ handle' \in [Table -> Ent \cup {NULL, NIL}]
        /\ ref' \in [Ent -> Table \cup {NULL}]
        /\ pending' \subseteq Ent
    BY <1>1, <1>3 DEF TypeOK
  <2>3. QED
    BY <1>5, <1>6, <2>1, <2>2 DEF TypeOK
<1>8. ListsPartitionHeap'
  <2>1. Range(entities) = {x \in Ent: heap[x] = "listed"}
        /\ Range(removed) = {x \in Ent: heap[x] = "removed"}
    BY DEF ListsPartitionHeap, HoldsOnce
  <2>2. \A x \in Ent: heap'[x] = IF x = e THEN "removed" ELSE heap[x]
    BY <1>3 DEF TypeOK
  <2>3. {x \in Ent: heap'[x] = "listed"} = {x \in Ent: heap[x] = "listed"} \ {e}
    BY <1>1, <2>2
  <2>4. {x \in Ent: heap'[x] = "removed"} = {x \in Ent: heap[x] = "removed"} \cup {e}
    BY <1>1, <2>2
  <2>5. HoldsOnce(entities, "listed")'
    BY <1>5, <2>1, <2>3 DEF HoldsOnce
  <2>6. HoldsOnce(removed, "removed")'
    BY <1>6, <2>1, <2>4 DEF HoldsOnce
  <2>7. QED
    BY <2>5, <2>6 DEF ListsPartitionHeap
<1>9. HandlesNameListedEntities'
  BY <1>1, <1>3 DEF TypeOK, HandlesNameListedEntities, Handles
<1>10. ValidMeansListed'
  BY <1>1, <1>3 DEF TypeOK, ValidMeansListed
<1>11. CursorAllocated'
  BY <1>1, <1>3 DEF TypeOK, CursorAllocated
<1>12. QED
  BY <1>7, <1>8, <1>9, <1>10, <1>11

(* Sorting again keeps the elements.                                       *)
LEMMA MoveKeepsIInv ==
  ASSUME IInv, NEW t \in Table, NEW k \in ZOrder, SetZ(t, k)
  PROVE  IInv'
<1> USE NullAssumption DEF IInv, SetZ, links, clocks, walk
<1>1. PICK p \in Reorderings(entities): entities' = [i \in DOMAIN entities |-> entities[p[i]]]
  OBVIOUS
<1>2. /\ p \in [DOMAIN entities -> DOMAIN entities]
      /\ \A i, j \in DOMAIN entities: p[i] = p[j] => i = j
      /\ \A j \in DOMAIN entities: \E i \in DOMAIN entities: p[i] = j
  BY DEF Reorderings
<1>3. DOMAIN entities' = DOMAIN entities
  BY <1>1
<1>4. entities' \in Seq(Ent)
  <2>1. Len(entities) \in Nat /\ DOMAIN entities = 1 .. Len(entities)
    BY LenProperties DEF TypeOK
  <2>2. entities \in [1 .. Len(entities) -> Ent]
    BY DEF TypeOK
  <2>3. \A i \in DOMAIN entities: entities[p[i]] \in Ent
    BY <1>2, <2>1, <2>2
  <2>4. entities' \in [1 .. Len(entities) -> Ent]
    BY <1>1, <2>1, <2>3
  <2>5. QED
    BY <2>1, <2>4, SeqDef
<1>5. TypeOK'
  BY <1>4 DEF TypeOK, Handles, MoveTo
<1>6. ListsPartitionHeap'
  <2>1. IsInjective(entities')
    BY <1>1, <1>2, <1>3 DEF ListsPartitionHeap, HoldsOnce, IsInjective
  <2>2. Range(entities') = Range(entities)
    BY <1>1, <1>2, <1>3 DEF Range
  <2>3. QED
    BY <2>1, <2>2 DEF ListsPartitionHeap, HoldsOnce
<1>7. HandlesNameListedEntities'
  BY DEF HandlesNameListedEntities, Handles
<1>8. ValidMeansListed' /\ CursorAllocated'
  BY DEF ValidMeansListed, CursorAllocated
<1>9. QED
  BY <1>5, <1>6, <1>7, <1>8

(* Freeing the remove list touches no listed entity, and the walk begins   *)
(* in the entities list.                                                   *)
LEMMA FrameStartKeepsIInv ==
  ASSUME IInv, NEW t \in Time, FrameStart(t)
  PROVE  IInv'
<1> USE NullAssumption DEF IInv, FrameStart, FreeRemoved, lists
<1>1. heap' = [e \in Ent |-> IF heap[e] = "removed" THEN "free" ELSE heap[e]]
  BY DEF Scrub
<1>2. \A e \in Ent: heap'[e] # "removed" /\ (heap'[e] = "listed" <=> heap[e] = "listed")
  BY <1>1 DEF TypeOK
<1>3. cur' = NULL \/ (cur' \in Ent /\ heap[cur'] = "listed")
  <2>1. CASE entities = <<>>
    BY <2>1 DEF HeadOf
  <2>2. CASE entities # <<>>
    <3>1. 1 \in DOMAIN entities /\ Head(entities) = entities[1] /\ Head(entities) \in Ent
      BY <2>2 DEF TypeOK
    <3>2. QED
      BY <2>2, <3>1 DEF HeadOf, ListsPartitionHeap, HoldsOnce, Range
  <2>3. QED
    BY <2>1, <2>2
<1>4. nxt' = NextOf(cur')
  OBVIOUS
<1>5. nxt' = NULL \/ (nxt' \in Ent /\ heap[nxt'] = "listed")
  <2>1. CASE cur' = NULL
    BY <1>4, <2>1 DEF NextOf
  <2>2. CASE cur' # NULL
    <3>1. cur' \in Ent /\ heap[cur'] = "listed"
      BY <1>3, <2>2
    <3>2. NextOf(cur') = NULL \/ (NextOf(cur') \in Ent /\ heap[NextOf(cur')] = heap[cur'])
      BY <3>1, NextOfStaysInList
    <3>3. QED
      BY <1>4, <3>1, <3>2
  <2>3. QED
    BY <2>1, <2>2
<1>6. TypeOK'
  <2>1. heap' \in [Ent -> {"free", "listed", "removed"}] /\ removed' \in Seq(Ent)
    BY <1>1 DEF TypeOK
  <2>2. z' \in [Ent -> ZOrder] /\ nextthink' \in [Ent -> Time] /\ lastthink' \in [Ent -> Time]
    BY DefaultAssumption DEF TypeOK, Scrub
  <2>3. attached' \in [Ent -> Ent \cup {NULL}]
    BY DEF TypeOK, Scrub, ScrubLinks
  <2>4. num' \in [Ent -> Int]
    BY DEF TypeOK, Scrub
  <2>5. forced' \in [Ent -> BOOLEAN]
    BY DEF TypeOK, Scrub
  <2>6. cur' \in Ent \cup {NULL} /\ nxt' \in Ent \cup {NULL} /\ pending' \subseteq Ent
    BY <1>3, <1>5 DEF Listed
  <2>7. QED
    BY <2>1, <2>2, <2>3, <2>4, <2>5, <2>6 DEF TypeOK
<1>7. ListsPartitionHeap'
  BY <1>2 DEF ListsPartitionHeap, HoldsOnce, IsInjective, Range
<1>8. HandlesNameListedEntities'
  BY <1>2 DEF HandlesNameListedEntities, Handles
<1>9. ValidMeansListed'
  BY <1>2 DEF ValidMeansListed
<1>10. CursorAllocated'
  BY <1>2, <1>3, <1>5 DEF CursorAllocated
<1>11. QED
  BY <1>6, <1>7, <1>8, <1>9, <1>10

(* The walk goes from an allocated entity to an allocated one.             *)
LEMMA AdvanceKeepsCursor ==
  ASSUME TypeOK, ListsPartitionHeap, CursorAllocated, pc \in {"iter", "think"},
         Advance, heap' = heap
  PROVE  /\ cur' \in Ent \cup {NULL} /\ nxt' \in Ent \cup {NULL}
         /\ CursorAllocated'
<1>1. cur' = nxt /\ nxt' = NextOf(nxt)
  BY DEF Advance
<1>2. nxt = NULL \/ (nxt \in Ent /\ heap[nxt] # "free")
  BY DEF CursorAllocated, TypeOK
<1>3. NextOf(nxt) = NULL \/ (NextOf(nxt) \in Ent /\ heap[NextOf(nxt)] # "free")
  <2>1. CASE nxt = NULL
    BY <2>1 DEF NextOf
  <2>2. CASE nxt # NULL
    BY <1>2, <2>2, NextOfStaysInList
  <2>3. QED
    BY <2>1, <2>2
<1>4. QED
  BY <1>1, <1>2, <1>3 DEF CursorAllocated

(* With every entity freed no table names one.                             *)
LEMMA ShutdownKeepsIInv ==
  ASSUME IInv, Shutdown
  PROVE  IInv'
<1> USE NullAssumption DEF IInv, Shutdown
<1>1. TypeOK'
  BY DEF TypeOK, links, clocks
<1>2. ListsPartitionHeap'
  BY DEF ListsPartitionHeap, HoldsOnce, IsInjective, Range
<1>3. \A t \in Table: handle'[t] \notin Ent
  BY DEF TypeOK, HandlesNameListedEntities, Handles, Listed
<1>4. HandlesNameListedEntities' /\ ValidMeansListed' /\ CursorAllocated'
  BY <1>3 DEF HandlesNameListedEntities, Handles, ValidMeansListed, CursorAllocated
<1>5. QED
  BY <1>1, <1>2, <1>4

(* A step that leaves the lists, handles and the walk alone only has to    *)
(* keep its types.                                                         *)
LEMMA QuietStepKeepsIInv ==
  ASSUME IInv, TypeOK', UNCHANGED <<lists, ref, handle, walk>>
  PROVE  IInv'
BY DEF IInv, ListsPartitionHeap, HoldsOnce, HandlesNameListedEntities, Handles,
       ValidMeansListed, CursorAllocated, lists, walk

-----------------------------------------------------------------------------
LEMMA InitIInv == Init => IInv
<1> SUFFICES ASSUME Init PROVE IInv
  OBVIOUS
<1> USE NullAssumption, DefaultAssumption DEF Init
<1>1. TypeOK
  BY DEF TypeOK
<1>2. ListsPartitionHeap
  BY DEF ListsPartitionHeap, HoldsOnce, IsInjective, Range
<1>3. HandlesNameListedEntities /\ ValidMeansListed /\ CursorAllocated
  BY DEF HandlesNameListedEntities, Handles, ValidMeansListed, CursorAllocated
<1>4. QED
  BY <1>1, <1>2, <1>3 DEF IInv

LEMMA NextKeepsIInv == IInv /\ [Next]_vars => IInv'
<1> SUFFICES ASSUME IInv, [Next]_vars PROVE IInv'
  OBVIOUS
<1> USE NullAssumption DEF lists, links, clocks, walk
<1>1. CASE LuaStep
  <2>1. ASSUME NEW e \in Ent, NEW t \in Table, EntSpawn(e, t) PROVE IInv'
    BY <2>1, SpawnKeepsIInv
  <2>2. ASSUME NEW t \in Table, EntRemove(t) PROVE IInv'
    BY <2>2, RemoveKeepsIInv
  <2>3. ASSUME NEW t \in Table, NEW k \in ZOrder, SetZ(t, k) PROVE IInv'
    BY <2>3, MoveKeepsIInv
  <2>4. ASSUME NEW t \in Table, NEW k \in Time, SetNextThink(t, k) PROVE IInv'
    BY <2>4, QuietStepKeepsIInv DEF SetNextThink, IInv, TypeOK
  <2>5. ASSUME NEW t \in Table, NEW k \in Time, SetLastThink(t, k) PROVE IInv'
    BY <2>5, QuietStepKeepsIInv DEF SetLastThink, IInv, TypeOK
  <2>6. ASSUME NEW t \in Table, NEW u \in Table, Attach(t, u) PROVE IInv'
    <3>1. TypeOK'
      BY <2>6 DEF Attach, Decrement, Handles, IInv, TypeOK
    <3>2. QED
      BY <2>6, <3>1, QuietStepKeepsIInv DEF Attach
  <2>7. ASSUME NEW t \in Table, NEW u \in Table, Detach(t, u) PROVE IInv'
    <3>1. TypeOK'
      BY <2>7 DEF Detach, Decrement, Handles, IInv, TypeOK
    <3>2. QED
      BY <2>7, <3>1, QuietStepKeepsIInv DEF Detach
  <2>8. ASSUME NEW t \in Table, AttachInvalid(t) PROVE IInv'
    <3>1. TypeOK'
      BY <2>8 DEF AttachInvalid, Decrement, IInv, TypeOK
    <3>2. QED
      BY <2>8, <3>1, QuietStepKeepsIInv DEF AttachInvalid
  <2>9. QED
    BY <1>1, <2>1, <2>2, <2>3, <2>4, <2>5, <2>6, <2>7, <2>8 DEF LuaStep
<1>2. ASSUME NEW e \in Ent, ForceThink(e) PROVE IInv'
  BY <1>2, QuietStepKeepsIInv DEF ForceThink, IInv, TypeOK
<1>3. ASSUME NEW t \in Time, FrameStart(t) PROVE IInv'
  BY <1>3, FrameStartKeepsIInv
<1>4. CASE WalkStep
  <2>1. ASSUME Pass PROVE IInv'
    <3>1. CursorAllocated' /\ cur' \in Ent \cup {NULL} /\ nxt' \in Ent \cup {NULL}
      BY <2>1, AdvanceKeepsCursor DEF Pass, IInv
    <3>2. TypeOK'
      BY <2>1, <3>1 DEF Pass, IInv, TypeOK
    <3>3. QED
      BY <2>1, <3>1, <3>2 DEF Pass, IInv, ListsPartitionHeap, HoldsOnce,
                              HandlesNameListedEntities, Handles, ValidMeansListed
  <2>2. ASSUME ThinkCall PROVE IInv'
    <3>1. TypeOK'
      BY <2>2 DEF ThinkCall, IInv, TypeOK
    <3>2. CursorAllocated'
      BY <2>2 DEF ThinkCall, IInv, CursorAllocated
    <3>3. QED
      BY <2>2, <3>1, <3>2 DEF ThinkCall, IInv, ListsPartitionHeap, HoldsOnce,
                              HandlesNameListedEntities, Handles, ValidMeansListed
  <2>3. ASSUME ThinkReturn PROVE IInv'
    <3>1. CursorAllocated' /\ cur' \in Ent \cup {NULL} /\ nxt' \in Ent \cup {NULL}
      BY <2>3, AdvanceKeepsCursor DEF ThinkReturn, IInv
    <3>2. TypeOK'
      BY <2>3, <3>1 DEF ThinkReturn, IInv, TypeOK
    <3>3. QED
      BY <2>3, <3>1, <3>2 DEF ThinkReturn, IInv, ListsPartitionHeap, HoldsOnce,
                              HandlesNameListedEntities, Handles, ValidMeansListed
  <2>4. ASSUME FrameEnd PROVE IInv'
    <3>1. TypeOK'
      BY <2>4 DEF FrameEnd, IInv, TypeOK
    <3>2. CursorAllocated'
      BY <2>4 DEF FrameEnd, CursorAllocated
    <3>3. QED
      BY <2>4, <3>1, <3>2 DEF FrameEnd, IInv, ListsPartitionHeap, HoldsOnce,
                              HandlesNameListedEntities, Handles, ValidMeansListed
  <2>5. QED
    BY <1>4, <2>1, <2>2, <2>3, <2>4 DEF WalkStep
<1>5. CASE Shutdown
  BY <1>5, ShutdownKeepsIInv
<1>6. CASE UNCHANGED vars
  <2>1. TypeOK'
    BY <1>6 DEF vars, IInv, TypeOK
  <2>2. QED
    BY <1>6, <2>1, QuietStepKeepsIInv DEF vars
<1>7. CASE Stopped
  BY <1>6, <1>7 DEF Stopped
<1>8. QED
  BY <1>1, <1>2, <1>3, <1>4, <1>5, <1>6, <1>7 DEF Next

(* The inductive invariant holds in every state of every game.             *)
THEOREM Inductive == Spec => []IInv
BY InitIInv, NextKeepsIInv, PTL DEF Spec

(* Every variable keeps its type.                                          *)
THEOREM TypeCorrect == Spec => []TypeOK
<1>1. IInv => TypeOK
  BY DEF IInv
<1>2. QED
  BY <1>1, Inductive, PTL

(* sglib's membership assert in g_entity_delete cannot fail, and no struct *)
(* is lost or freed twice.                                                 *)
THEOREM ListsCorrect == Spec => []ListsPartitionHeap
<1>1. IInv => ListsPartitionHeap
  BY DEF IInv
<1>2. QED
  BY <1>1, Inductive, PTL

(* A table's __ref is never a dangling pointer, and g_entity_is_valid      *)
(* tells listed entities from removed ones.                                *)
THEOREM HandlesSafe == Spec => []HandlesCurrent
<1>1. IInv => HandlesCurrent
  BY DEF IInv, HandlesCurrent
<1>2. QED
  BY <1>1, Inductive, PTL

(* The walk never reads a freed struct.                                    *)
THEOREM CursorSafe == Spec => []CursorAllocated
<1>1. IInv => CursorAllocated
  BY DEF IInv
<1>2. QED
  BY <1>1, Inductive, PTL

-----------------------------------------------------------------------------
(* The draw order.  Sorted is inductive together with IInv: the comparator *)
(* puts a new element between the lower-or-equal and the greater ones.     *)

LEMMA SpawnKeepsSorted ==
  ASSUME IInv, Sorted, NEW e \in Ent, NEW t \in Table, EntSpawn(e, t)
  PROVE  Sorted'
<1>1. PICK i \in 1 .. Len(entities) + 1:
        Place(entities, i, e, z) /\ entities' = InsertAt(entities, i, e)
  BY DEF EntSpawn
<1>2. /\ entities \in Seq(Ent) /\ Len(entities) \in Nat /\ DOMAIN entities = 1 .. Len(entities)
      /\ z \in [Ent -> Int]
  BY NumberAssumption, LenProperties DEF IInv, TypeOK
<1>3. \A j \in DOMAIN entities: z[entities[j]] \in Int
  BY <1>2, ElementOfSeq
<1>4. /\ DOMAIN entities' = 1 .. Len(entities) + 1
      /\ \A j \in 1 .. Len(entities) + 1:
           entities'[j] = IF j < i THEN entities[j] ELSE IF j = i THEN e ELSE entities[j - 1]
  BY <1>1, <1>2, InsertPlaces
<1>5. \A j \in DOMAIN entities: j >= i => z[entities[j]] > z[e]
  <2> SUFFICES ASSUME NEW j \in DOMAIN entities, j >= i PROVE z[entities[j]] > z[e]
    OBVIOUS
  <2>1. i \in DOMAIN entities /\ z[entities[i]] > z[e]
    BY <1>1, <1>2 DEF Place
  <2>2. i = j \/ z[entities[i]] <= z[entities[j]]
    BY <1>2, <2>1 DEF Sorted
  <2>3. QED
    BY <1>2, <1>3, <2>1, <2>2
<1>6. \A j \in DOMAIN entities: j < i => z[entities[j]] <= z[e]
  BY <1>1, <1>2 DEF Place
<1>7. z' = z
  BY DEF EntSpawn
<1>8. ASSUME NEW j \in DOMAIN entities', NEW k \in DOMAIN entities', j < k
      PROVE  z[entities'[j]] <= z[entities'[k]]
  <2>1. /\ j \in 1 .. Len(entities) + 1 /\ k \in 1 .. Len(entities) + 1
        /\ i \in 1 .. Len(entities) + 1 /\ z[e] \in Int
    BY <1>2, <1>4
  <2>2. CASE j < i /\ k < i
    <3>1. entities'[j] = entities[j] /\ entities'[k] = entities[k]
      BY <1>4, <2>1, <2>2
    <3>2. j \in DOMAIN entities /\ k \in DOMAIN entities
      BY <1>2, <2>1, <2>2
    <3>3. QED
      BY <1>8, <3>1, <3>2 DEF Sorted
  <2>3. CASE j < i /\ k = i
    <3>1. entities'[j] = entities[j] /\ entities'[k] = e /\ j \in DOMAIN entities
      BY <1>2, <1>4, <2>1, <2>3
    <3>2. QED
      BY <1>6, <2>3, <3>1
  <2>4. CASE j < i /\ k > i
    <3>1. entities'[j] = entities[j] /\ entities'[k] = entities[k - 1]
      BY <1>4, <2>1, <2>4
    <3>2. j \in DOMAIN entities /\ k - 1 \in DOMAIN entities /\ j < k - 1
      BY <1>2, <2>1, <2>4
    <3>3. QED
      BY <3>1, <3>2 DEF Sorted
  <2>5. CASE j = i
    <3>1. entities'[j] = e /\ entities'[k] = entities[k - 1]
      BY <1>4, <1>8, <2>1, <2>5
    <3>2. k - 1 \in DOMAIN entities /\ k - 1 >= i
      BY <1>2, <1>8, <2>1, <2>5
    <3>3. z[entities[k - 1]] > z[e] /\ z[entities[k - 1]] \in Int
      BY <1>3, <1>5, <3>2
    <3>4. QED
      BY <2>1, <3>1, <3>3
  <2>6. CASE j > i
    <3>1. entities'[j] = entities[j - 1] /\ entities'[k] = entities[k - 1]
      BY <1>4, <1>8, <2>1, <2>6
    <3>2. j - 1 \in DOMAIN entities /\ k - 1 \in DOMAIN entities /\ j - 1 < k - 1
      BY <1>2, <1>8, <2>1, <2>6
    <3>3. QED
      BY <3>1, <3>2 DEF Sorted
  <2>7. (j < i \/ j = i \/ j > i) /\ (k < i \/ k = i \/ k > i)
    BY <2>1
  <2>8. QED
    BY <2>2, <2>3, <2>4, <2>5, <2>6, <2>7
<1>9. QED
  BY <1>7, <1>8 DEF Sorted

LEMMA RemoveKeepsSorted ==
  ASSUME IInv, Sorted, NEW t \in Table, EntRemove(t)
  PROVE  Sorted'
<1>1. PICK i \in DOMAIN entities: entities' = Unlink(entities, i)
  BY DEF EntRemove, Delete
<1>2. /\ entities \in Seq(Ent) /\ Len(entities) \in Nat /\ DOMAIN entities = 1 .. Len(entities)
  BY LenProperties DEF IInv, TypeOK
<1>3. /\ DOMAIN entities' = 1 .. Len(entities) - 1
      /\ \A j \in 1 .. Len(entities) - 1:
           entities'[j] = IF j < i THEN entities[j] ELSE entities[j + 1]
  BY <1>1, <1>2, UnlinkProperties
<1> DEFINE from(j) == IF j < i THEN j ELSE j + 1
<1>4. \A j \in DOMAIN entities': from(j) \in DOMAIN entities /\ entities'[j] = entities[from(j)]
  BY <1>2, <1>3
<1>5. \A j, k \in DOMAIN entities': j < k => from(j) < from(k)
  BY <1>2, <1>3
<1> HIDE DEF from
<1>6. z' = z
  BY DEF EntRemove
<1>7. QED
  BY <1>4, <1>5, <1>6 DEF Sorted

LEMMA MoveKeepsSorted ==
  ASSUME IInv, Sorted, NEW t \in Table, NEW k \in ZOrder, SetZ(t, k)
  PROVE  Sorted'
<1>1. PICK p \in Reorderings(entities):
        StableOrder(entities, p, z') /\ entities' = [i \in DOMAIN entities |-> entities[p[i]]]
  BY DEF SetZ
<1>2. \A i \in DOMAIN entities: z'[entities[p[i]]] \in Int
  <2>1. TypeOK'
    BY MoveKeepsIInv DEF IInv
  <2>2. \A i \in DOMAIN entities: entities[p[i]] \in Ent
    BY <1>1, ElementOfSeq DEF IInv, TypeOK, Reorderings
  <2>3. QED
    BY <2>1, <2>2, NumberAssumption DEF TypeOK
<1>3. QED
  BY <1>1, <1>2 DEF Sorted, StableOrder

LEMMA NextKeepsSorted == IInv /\ Sorted /\ [Next]_vars => Sorted'
<1> SUFFICES ASSUME IInv, Sorted, [Next]_vars PROVE Sorted'
  OBVIOUS
<1>1. CASE entities' = entities /\ z' = z
  BY <1>1 DEF Sorted
<1>2. ASSUME NEW e \in Ent, NEW t \in Table, EntSpawn(e, t) PROVE Sorted'
  BY <1>2, SpawnKeepsSorted
<1>3. ASSUME NEW t \in Table, EntRemove(t) PROVE Sorted'
  BY <1>3, RemoveKeepsSorted
<1>4. ASSUME NEW t \in Table, NEW k \in ZOrder, SetZ(t, k) PROVE Sorted'
  BY <1>4, MoveKeepsSorted
<1>5. ASSUME NEW t \in Time, FrameStart(t) PROVE Sorted'
  <2>1. \A i \in DOMAIN entities: entities[i] \in Ent /\ heap[entities[i]] = "listed"
    BY DEF IInv, ListsPartitionHeap, HoldsOnce, Range
  <2>2. entities' = entities /\ \A e \in Ent: heap[e] = "listed" => z'[e] = z[e]
    BY <1>5 DEF FrameStart, FreeRemoved, Scrub, IInv, TypeOK
  <2>3. QED
    BY <2>1, <2>2 DEF Sorted
<1>6. CASE Shutdown
  BY <1>6 DEF Shutdown, Sorted
<1>7. QED
  BY <1>1, <1>2, <1>3, <1>4, <1>5, <1>6
     DEF Next, LuaStep, WalkStep, vars, lists, links, SetNextThink, SetLastThink, Attach, Detach,
         AttachInvalid, ForceThink, Pass, ThinkCall, ThinkReturn, FrameEnd, Stopped

(* Drawing from the head of the list goes from the lowest level to the     *)
(* highest, in every state.                                                *)
THEOREM DrawOrder == Spec => []Sorted
<1>1. Init => Sorted
  BY DEF Init, Sorted
<1>2. IInv /\ IInv' /\ Sorted /\ [Next]_vars => Sorted'
  BY NextKeepsSorted
<1>3. QED
  BY <1>1, <1>2, Inductive, PTL DEF Spec

-----------------------------------------------------------------------------
(* Entities of one level keep their order: what OrderStable says of each   *)
(* step, for the three that change the list.                               *)
KeepsOrder ==
  \A a, b \in Listed:
    /\ Before(a, b)
    /\ heap'[a] = "listed" /\ heap'[b] = "listed"
    /\ z'[a] = z[a] /\ z'[b] = z[b]
    => Before(a, b)'

LEMMA SpawnKeepsOrder ==
  ASSUME IInv, NEW e \in Ent, NEW t \in Table, EntSpawn(e, t)
  PROVE  KeepsOrder
<1>1. PICK i \in 1 .. Len(entities) + 1: entities' = InsertAt(entities, i, e)
  BY DEF EntSpawn
<1>2. /\ entities \in Seq(Ent) /\ Len(entities) \in Nat /\ DOMAIN entities = 1 .. Len(entities)
  BY LenProperties DEF IInv, TypeOK
<1>3. /\ DOMAIN entities' = 1 .. Len(entities) + 1
      /\ \A j \in 1 .. Len(entities) + 1:
           entities'[j] = IF j < i THEN entities[j] ELSE IF j = i THEN e ELSE entities[j - 1]
  <2>1. /\ DOMAIN InsertAt(entities, i, e) = 1 .. Len(entities) + 1
        /\ \A j \in 1 .. Len(entities) + 1: InsertAt(entities, i, e)[j] =
             IF j < i THEN entities[j] ELSE IF j = i THEN e ELSE entities[j - 1]
    <3>1. entities \in Seq(Ent) /\ i \in 1 .. Len(entities) + 1 /\ e \in Ent
      BY <1>2
    <3>2. QED
      BY <3>1, InsertPlaces
  <2>2. QED
    BY <1>1, <2>1
<1> DEFINE to(j) == IF j < i THEN j ELSE j + 1
<1>4. ASSUME NEW j \in DOMAIN entities
      PROVE  to(j) \in DOMAIN entities' /\ entities'[to(j)] = entities[j]
  <2>1. CASE j < i
    BY <1>2, <1>3, <2>1
  <2>2. CASE j >= i
    <3>1. j + 1 \in 1 .. Len(entities) + 1 /\ ~(j + 1 < i) /\ j + 1 # i /\ (j + 1) - 1 = j
      BY <1>2, <2>2
    <3>2. to(j) = j + 1
      BY <1>2, <2>2
    <3>3. QED
      BY <1>3, <3>1, <3>2
  <2>3. QED
    BY <1>2, <2>1, <2>2
<1>5. \A j, k \in DOMAIN entities: j < k => to(j) < to(k)
  BY <1>2
<1> HIDE DEF to
<1>6. QED
  BY <1>4, <1>5 DEF KeepsOrder, Before

LEMMA RemoveKeepsOrder ==
  ASSUME IInv, NEW t \in Table, EntRemove(t)
  PROVE  KeepsOrder
<1> DEFINE e == handle[t]
<1>1. PICK i \in DOMAIN entities: entities[i] = e /\ entities' = Unlink(entities, i)
  BY DEF EntRemove, Delete
<1>2. e \in Ent /\ heap'[e] = "removed"
  BY DEF EntRemove, Delete, Retire, Handles, IInv, TypeOK
<1> HIDE DEF e
<1>3. /\ entities \in Seq(Ent) /\ Len(entities) \in Nat /\ DOMAIN entities = 1 .. Len(entities)
  BY LenProperties DEF IInv, TypeOK
<1>4. /\ DOMAIN entities' = 1 .. Len(entities) - 1
      /\ \A j \in 1 .. Len(entities) - 1:
           entities'[j] = IF j < i THEN entities[j] ELSE entities[j + 1]
  BY <1>1, <1>3, UnlinkProperties
<1> DEFINE to(j) == IF j < i THEN j ELSE j - 1
<1>5. ASSUME NEW j \in DOMAIN entities, j # i
      PROVE  to(j) \in DOMAIN entities' /\ entities'[to(j)] = entities[j]
  <2>1. CASE j < i
    BY <1>3, <1>4, <2>1
  <2>2. CASE j > i
    <3>1. j - 1 \in 1 .. Len(entities) - 1 /\ ~(j - 1 < i) /\ (j - 1) + 1 = j
      BY <1>3, <2>2
    <3>2. to(j) = j - 1
      BY <1>3, <2>2
    <3>3. QED
      BY <1>4, <3>1, <3>2
  <2>3. QED
    BY <1>3, <1>5, <2>1, <2>2
<1>6. \A j, k \in DOMAIN entities: j < k /\ j # i /\ k # i => to(j) < to(k)
  BY <1>3
<1> HIDE DEF to
<1>7. QED
  BY <1>1, <1>2, <1>5, <1>6 DEF KeepsOrder, Before

LEMMA MoveKeepsOrder ==
  ASSUME IInv, Sorted, NEW t \in Table, NEW k \in ZOrder, SetZ(t, k)
  PROVE  KeepsOrder
<1>1. PICK p \in Reorderings(entities):
        StableOrder(entities, p, z') /\ entities' = [i \in DOMAIN entities |-> entities[p[i]]]
  BY DEF SetZ
<1>2. /\ p \in [DOMAIN entities -> DOMAIN entities]
      /\ \A i, j \in DOMAIN entities: p[i] = p[j] => i = j
      /\ \A j \in DOMAIN entities: \E i \in DOMAIN entities: p[i] = j
  BY <1>1 DEF Reorderings
<1>3. DOMAIN entities' = DOMAIN entities /\ DOMAIN entities = 1 .. Len(entities)
  BY <1>1, LenProperties DEF IInv, TypeOK
<1>4. SUFFICES ASSUME NEW a \in Ent, NEW b \in Ent, z'[a] = z[a], z'[b] = z[b],
                      NEW i \in DOMAIN entities, NEW j \in DOMAIN entities, i < j,
                      entities[i] = a, entities[j] = b
               PROVE  Before(a, b)'
  BY DEF KeepsOrder, Before, Listed
<1>5. PICK ii \in DOMAIN entities: p[ii] = i
  BY <1>2
<1>6. PICK jj \in DOMAIN entities: p[jj] = j
  BY <1>2
<1>7. entities'[ii] = a /\ entities'[jj] = b
  BY <1>1, <1>4, <1>5, <1>6
<1>8. ~(jj < ii)
  <2>1. z[a] \in Int /\ z[b] \in Int /\ z[a] <= z[b]
    BY <1>4, NumberAssumption DEF Sorted, IInv, TypeOK
  <2>2. i \in Int /\ j \in Int
    BY <1>3
  <2>3. SUFFICES ASSUME jj < ii PROVE FALSE
    OBVIOUS
  <2>4. \/ z'[entities[p[jj]]] < z'[entities[p[ii]]]
        \/ z'[entities[p[jj]]] = z'[entities[p[ii]]] /\ p[jj] < p[ii]
    BY <1>1, <2>3 DEF StableOrder
  <2>5. QED
    BY <1>4, <1>5, <1>6, <2>1, <2>2, <2>4
<1>9. ii # jj
  <2>1. i # j
    BY <1>3, <1>4
  <2>2. QED
    BY <1>5, <1>6, <2>1
<1>10. ii < jj
  BY <1>3, <1>8, <1>9
<1>11. QED
  BY <1>3, <1>7, <1>10 DEF Before

(* Sorting the list again for one entity leaves the others where they are. *)
THEOREM OrderKept == Spec => OrderStable
<1>1. IInv /\ Sorted /\ [Next]_vars => [KeepsOrder]_<<entities, z, heap>>
  <2> SUFFICES ASSUME IInv, Sorted, [Next]_vars, entities' # entities PROVE KeepsOrder
    BY DEF KeepsOrder, Before
  <2>1. ASSUME NEW e \in Ent, NEW t \in Table, EntSpawn(e, t) PROVE KeepsOrder
    BY <2>1, SpawnKeepsOrder
  <2>2. ASSUME NEW t \in Table, EntRemove(t) PROVE KeepsOrder
    BY <2>2, RemoveKeepsOrder
  <2>3. ASSUME NEW t \in Table, NEW k \in ZOrder, SetZ(t, k) PROVE KeepsOrder
    BY <2>3, MoveKeepsOrder
  <2>4. CASE Shutdown
    BY <2>4 DEF Shutdown, KeepsOrder, Listed
  <2>5. QED
    BY <2>1, <2>2, <2>3, <2>4
       DEF Next, LuaStep, WalkStep, vars, lists, links, SetNextThink, SetLastThink, Attach, Detach,
           AttachInvalid, ForceThink, FrameStart, Pass, ThinkCall, ThinkReturn, FrameEnd, Stopped
<1>2. QED
  BY <1>1, Inductive, DrawOrder, PTL DEF Spec, OrderStable, KeepsOrder

-----------------------------------------------------------------------------
(* Attachment counts.  A count is compared with the number of attachers,   *)
(* so there must be finitely many; and an address that is allocated again  *)
(* must start from zero, attached to nothing.                              *)
FreshZero ==
  pc # "down" => \A e \in Ent: heap[e] = "free" => num[e] = 0 /\ attached[e] = NULL
CountInv == IsFiniteSet(Listed) /\ FreshZero /\ CountNeverExceedsAttachers

LEMMA AttachersFinite ==
  ASSUME IsFiniteSet(Listed), NEW q
  PROVE  IsFiniteSet(Attachers(q)) /\ Cardinality(Attachers(q)) \in Nat
<1>1. Attachers(q) \in SUBSET Listed
  BY DEF Attachers
<1> QED
  BY <1>1, FS_Subset, FS_CardinalityType

(* An entity that gains attachers only, and whose count does not go up.    *)
LEMMA StaysCovered ==
  ASSUME IInv, CountInv, IsFiniteSet(Listed'), NEW q \in Listed,
         num'[q] \in Int, num'[q] <= num[q], Attachers(q) \subseteq Attachers(q)'
  PROVE  num'[q] <= Cardinality(Attachers(q)')
<1>1. IsFiniteSet(Attachers(q)')
  <2>1. Attachers(q)' \in SUBSET Listed'
    BY DEF Attachers
  <2> QED
    BY <2>1, FS_Subset
<1>2. Cardinality(Attachers(q)) <= Cardinality(Attachers(q)')
  BY <1>1, FS_Subset
<1>3. num[q] <= Cardinality(Attachers(q)) /\ num[q] \in Int
  BY DEF CountInv, CountNeverExceedsAttachers, IInv, TypeOK, Listed
<1>4. Cardinality(Attachers(q)) \in Int /\ Cardinality(Attachers(q)') \in Int
  BY <1>1, AttachersFinite, FS_CardinalityType DEF CountInv
<1> QED
  BY <1>2, <1>3, <1>4

(* An entity that loses one attacher, and whose count goes down by one.    *)
LEMMA LosesOne ==
  ASSUME IInv, CountInv, IsFiniteSet(Listed'), NEW q \in Listed, NEW x \in Attachers(q),
         num'[q] = num[q] - 1, Attachers(q) \ {x} \subseteq Attachers(q)'
  PROVE  num'[q] <= Cardinality(Attachers(q)')
<1>1. IsFiniteSet(Attachers(q)')
  <2>1. Attachers(q)' \in SUBSET Listed'
    BY DEF Attachers
  <2> QED
    BY <2>1, FS_Subset
<1>2. IsFiniteSet(Attachers(q)) /\ Cardinality(Attachers(q)) \in Int
  BY AttachersFinite DEF CountInv
<1>3. Cardinality(Attachers(q) \ {x}) = Cardinality(Attachers(q)) - 1
  BY <1>2, FS_RemoveElement
<1>4. Cardinality(Attachers(q) \ {x}) <= Cardinality(Attachers(q)')
  BY <1>1, FS_Subset
<1>5. num[q] <= Cardinality(Attachers(q)) /\ num[q] \in Int
  BY DEF CountInv, CountNeverExceedsAttachers, IInv, TypeOK, Listed
<1>6. Cardinality(Attachers(q)') \in Int
  BY <1>1, FS_CardinalityType
<1> QED
  BY <1>2, <1>3, <1>4, <1>5, <1>6

LEMMA SpawnKeepsCount ==
  ASSUME IInv, CountInv, NEW e \in Ent, NEW t \in Table, EntSpawn(e, t)
  PROVE  CountInv'
<1>1. /\ e \in Ent /\ heap[e] = "free" /\ heap' = [heap EXCEPT ![e] = "listed"]
      /\ pc # "down" /\ pc' = pc /\ num' = num /\ attached' = attached
  BY DEF EntSpawn, InLua, links, walk
<1>2. num[e] = 0 /\ num \in [Ent -> Int] /\ heap \in [Ent -> {"free", "listed", "removed"}]
  BY <1>1 DEF CountInv, FreshZero, IInv, TypeOK
<1>3. Listed' = Listed \cup {e}
  BY <1>1, <1>2 DEF Listed
<1>4. IsFiniteSet(Listed')
  BY <1>3, FS_AddElement DEF CountInv
<1>5. FreshZero'
  BY <1>1, <1>2 DEF FreshZero, CountInv
<1>6. ASSUME NEW q \in Listed' PROVE num'[q] <= Cardinality(Attachers(q)')
  <2>1. CASE q = e
    <3>1. Attachers(q)' \in SUBSET Listed'
      BY DEF Attachers
    <3>2. Cardinality(Attachers(q)') \in Nat
      BY <1>4, <3>1, FS_Subset, FS_CardinalityType
    <3> QED
      BY <1>1, <1>2, <2>1, <3>2
  <2>2. CASE q # e
    <3>1. q \in Listed /\ num'[q] \in Int /\ num'[q] <= num[q]
      BY <1>1, <1>2, <1>3, <2>2 DEF Listed
    <3>2. Attachers(q) \subseteq Attachers(q)'
      BY <1>1, <1>3 DEF Attachers
    <3> QED
      BY <1>4, <3>1, <3>2, StaysCovered
  <2> QED
    BY <2>1, <2>2
<1> QED
  BY <1>4, <1>5, <1>6 DEF CountInv, CountNeverExceedsAttachers

LEMMA RemoveKeepsCount ==
  ASSUME IInv, CountInv, NEW t \in Table, EntRemove(t)
  PROVE  CountInv'
<1> DEFINE e == handle[t]
<1>1. /\ e \in Ent /\ heap[e] = "listed" /\ heap' = [heap EXCEPT ![e] = "removed"]
      /\ num' = Decrement(attached[e]) /\ attached' = ClearAttachers(e, num'[e]) /\ pc' = pc
  BY DEF EntRemove, Delete, Retire, Handles, HandlesNameListedEntities, IInv, walk
<1> HIDE DEF e
<1>2. /\ num \in [Ent -> Int] /\ heap \in [Ent -> {"free", "listed", "removed"}]
      /\ attached \in [Ent -> Ent \cup {NULL}]
  BY DEF IInv, TypeOK
<1>3. Listed' = Listed \ {e}
  BY <1>1, <1>2 DEF Listed
<1>4. IsFiniteSet(Listed')
  BY <1>3, FS_RemoveElement DEF CountInv
<1>5. FreshZero'
  <2> SUFFICES ASSUME pc' # "down", NEW x \in Ent, heap'[x] = "free"
               PROVE  num'[x] = 0 /\ attached'[x] = NULL
    BY DEF FreshZero
  <2>1. heap[x] = "free"
    BY <1>1, <1>2
  <2>2. num[x] = 0 /\ attached[x] = NULL
    BY <1>1, <2>1 DEF CountInv, FreshZero
  <2>3. num'[x] = 0
    BY <1>1, <2>1, <2>2 DEF Decrement
  <2>4. attached'[x] = NULL
    BY <1>1, <2>1, <2>2 DEF ClearAttachers
  <2> QED
    BY <2>3, <2>4
<1>6. ASSUME NEW q \in Listed' PROVE num'[q] <= Cardinality(Attachers(q)')
  <2>1. q \in Listed /\ q # e /\ q \in Ent /\ heap[q] = "listed"
    BY <1>3 DEF Listed
  <2>2. \A x \in Attachers(q): x \in Ent /\ x \in Listed /\ attached'[x] = q
    BY <1>1, <1>2, <2>1 DEF Attachers, ClearAttachers, Listed
  <2>3. Attachers(q) \ {e} \subseteq Attachers(q)'
    BY <1>3, <2>2 DEF Attachers
  <2>4. CASE attached[e] = q
    <3>1. num'[q] = num[q] - 1
      BY <1>1, <1>2, <2>1, <2>4 DEF Decrement
    <3>2. e \in Attachers(q)
      BY <1>1, <2>4 DEF Attachers, Listed
    <3> QED
      BY <1>4, <2>1, <2>3, <3>1, <3>2, LosesOne
  <2>5. CASE attached[e] # q
    <3>1. num'[q] \in Int /\ num'[q] <= num[q]
      BY <1>1, <1>2, <2>1, <2>5 DEF Decrement
    <3>2. e \notin Attachers(q)
      BY <2>5 DEF Attachers
    <3> QED
      BY <1>4, <2>1, <2>3, <3>1, <3>2, StaysCovered
  <2> QED
    BY <2>4, <2>5
<1> QED
  BY <1>4, <1>5, <1>6 DEF CountInv, CountNeverExceedsAttachers

(* An attachment moves from its old target to y, or to nothing.            *)
LEMMA AttachKeepsCount ==
  ASSUME IInv, CountInv, NEW t \in Table, NEW u \in Table, Attach(t, u)
  PROVE  CountInv'
<1> DEFINE x == handle[t]
           y == handle[u]
           p == attached[x]
<1>1. /\ x \in Ent /\ heap[x] = "listed" /\ y \in Ent /\ heap[y] = "listed"
      /\ num' = [Decrement(p) EXCEPT ![y] = @ + 1] /\ attached' = [attached EXCEPT ![x] = y]
      /\ heap' = heap /\ pc' = pc
  BY DEF Attach, Handles, HandlesNameListedEntities, IInv, lists, walk
<1> HIDE DEF x, y
<1>2. /\ num \in [Ent -> Int] /\ heap \in [Ent -> {"free", "listed", "removed"}]
      /\ attached \in [Ent -> Ent \cup {NULL}]
  BY DEF IInv, TypeOK
<1>3. Listed' = Listed
  BY <1>1 DEF Listed
<1>4. IsFiniteSet(Listed')
  BY <1>3 DEF CountInv
<1>5. \A q \in Ent: num'[q] = (IF q = p /\ heap[q] # "free" THEN num[q] - 1 ELSE num[q])
                              + (IF q = y THEN 1 ELSE 0)
  BY <1>1, <1>2 DEF Decrement
<1>6. \A q \in Ent: attached'[q] = IF q = x THEN y ELSE attached[q]
  BY <1>1, <1>2
<1>7. FreshZero'
  <2> SUFFICES ASSUME pc' # "down", NEW q \in Ent, heap'[q] = "free"
               PROVE  num'[q] = 0 /\ attached'[q] = NULL
    BY DEF FreshZero
  <2>1. num[q] = 0 /\ attached[q] = NULL /\ q # x /\ q # y
    BY <1>1 DEF CountInv, FreshZero
  <2> QED
    BY <1>1, <1>5, <1>6, <2>1
<1>8. ASSUME NEW q \in Listed' PROVE num'[q] <= Cardinality(Attachers(q)')
  <2>1. q \in Listed /\ q \in Ent /\ heap[q] = "listed" /\ num[q] \in Int
    BY <1>2, <1>3 DEF Listed
  <2>2. x \in Listed
    BY <1>1 DEF Listed
  <2>3. CASE q = y /\ p # y
    <3>1. Attachers(q)' = Attachers(q) \cup {x} /\ x \notin Attachers(q)
      BY <1>3, <1>6, <2>2, <2>3 DEF Attachers, Listed
    <3>2. IsFiniteSet(Attachers(q)) /\ Cardinality(Attachers(q)) \in Nat
      BY AttachersFinite DEF CountInv
    <3>3. Cardinality(Attachers(q)') = Cardinality(Attachers(q)) + 1
      BY <3>1, <3>2, FS_AddElement
    <3>4. num[q] <= Cardinality(Attachers(q))
      BY <2>1 DEF CountInv, CountNeverExceedsAttachers
    <3>5. num'[q] = num[q] + 1
      BY <1>5, <2>1, <2>3
    <3> QED
      BY <2>1, <3>2, <3>3, <3>4, <3>5
  <2>4. CASE q = p /\ p # y
    <3>1. Attachers(q) \ {x} \subseteq Attachers(q)' /\ x \in Attachers(q)
      BY <1>3, <1>6, <2>2, <2>4 DEF Attachers, Listed
    <3>2. num'[q] = num[q] - 1
      BY <1>5, <2>1, <2>4
    <3> QED
      BY <1>4, <2>1, <3>1, <3>2, LosesOne
  <2>5. CASE (q = y /\ p = y) \/ (q # y /\ q # p)
    <3>1. Attachers(q) \subseteq Attachers(q)'
      BY <1>3, <1>6, <2>5 DEF Attachers, Listed
    <3>2. num'[q] = num[q]
      BY <1>5, <2>1, <2>5
    <3> QED
      BY <1>4, <2>1, <3>1, <3>2, StaysCovered
  <2> QED
    BY <2>3, <2>4, <2>5
<1> QED
  BY <1>4, <1>7, <1>8 DEF CountInv, CountNeverExceedsAttachers

(* The old target's count goes down, whether or not the pointer goes.      *)
LEMMA DropKeepsCount ==
  ASSUME IInv, CountInv, NEW x \in Ent, heap[x] = "listed",
         num' = Decrement(attached[x]), heap' = heap, pc' = pc,
         attached' = attached \/ attached' = [attached EXCEPT ![x] = NULL]
  PROVE  CountInv'
<1>2. /\ num \in [Ent -> Int] /\ heap \in [Ent -> {"free", "listed", "removed"}]
      /\ attached \in [Ent -> Ent \cup {NULL}]
  BY DEF IInv, TypeOK
<1>3. Listed' = Listed
  BY DEF Listed
<1>4. IsFiniteSet(Listed')
  BY <1>3 DEF CountInv
<1>5. \A q \in Ent: num'[q] = IF q = attached[x] /\ heap[q] # "free" THEN num[q] - 1 ELSE num[q]
  BY DEF Decrement
<1>6. \A q \in Ent: attached'[q] = attached[q] \/ (q = x /\ attached'[q] = NULL)
  BY <1>2
<1>7. FreshZero'
  <2> SUFFICES ASSUME pc' # "down", NEW q \in Ent, heap'[q] = "free"
               PROVE  num'[q] = 0 /\ attached'[q] = NULL
    BY DEF FreshZero
  <2>1. num[q] = 0 /\ attached[q] = NULL /\ q # x /\ heap[q] = "free"
    BY DEF CountInv, FreshZero
  <2> QED
    BY <1>5, <1>6, <2>1
<1>8. ASSUME NEW q \in Listed' PROVE num'[q] <= Cardinality(Attachers(q)')
  <2>1. q \in Listed /\ q \in Ent /\ heap[q] = "listed" /\ num[q] \in Int
    BY <1>2, <1>3 DEF Listed
  <2>2. Attachers(q) \ {x} \subseteq Attachers(q)'
    BY <1>3, <1>6 DEF Attachers, Listed
  <2>3. CASE q = attached[x]
    <3>1. x \in Attachers(q)
      BY <2>3 DEF Attachers, Listed
    <3>2. num'[q] = num[q] - 1
      BY <1>5, <2>1, <2>3
    <3> QED
      BY <1>4, <2>1, <2>2, <3>1, <3>2, LosesOne
  <2>4. CASE q # attached[x]
    <3>1. x \notin Attachers(q)
      BY <2>4 DEF Attachers
    <3>2. num'[q] = num[q]
      BY <1>5, <2>1, <2>4
    <3> QED
      BY <1>4, <2>1, <2>2, <3>1, <3>2, StaysCovered
  <2> QED
    BY <2>3, <2>4
<1> QED
  BY <1>4, <1>7, <1>8 DEF CountInv, CountNeverExceedsAttachers

LEMMA FrameStartKeepsCount ==
  ASSUME IInv, CountInv, NEW t \in Time, FrameStart(t)
  PROVE  CountInv'
<1>1. /\ heap' = [e \in Ent |-> IF heap[e] = "removed" THEN "free" ELSE heap[e]]
      /\ num' = [e \in Ent |-> IF heap[e] = "removed" THEN 0 ELSE num[e]]
      /\ attached' = [e \in Ent |-> IF heap[e] = "removed" THEN NULL ELSE attached[e]]
      /\ pc # "down"
  BY DEF FrameStart, FreeRemoved, ScrubLinks, Scrub
<1>2. /\ num \in [Ent -> Int] /\ heap \in [Ent -> {"free", "listed", "removed"}]
  BY DEF IInv, TypeOK
<1>3. Listed' = Listed
  BY <1>1 DEF Listed
<1>4. IsFiniteSet(Listed')
  BY <1>3 DEF CountInv
<1>5. FreshZero'
  BY <1>1, <1>2 DEF FreshZero, CountInv
<1>6. ASSUME NEW q \in Listed' PROVE num'[q] <= Cardinality(Attachers(q)')
  <2>1. q \in Listed /\ q \in Ent /\ num'[q] = num[q] /\ num[q] \in Int
    BY <1>1, <1>2, <1>3 DEF Listed
  <2>2. Attachers(q) \subseteq Attachers(q)'
    BY <1>1, <1>3 DEF Attachers, Listed
  <2> QED
    BY <1>4, <2>1, <2>2, StaysCovered
<1> QED
  BY <1>4, <1>5, <1>6 DEF CountInv, CountNeverExceedsAttachers

LEMMA InitCount == Init => CountInv
<1> SUFFICES ASSUME Init PROVE CountInv
  OBVIOUS
<1>1. Listed = {}
  BY DEF Init, Listed
<1> QED
  BY <1>1, FS_EmptySet DEF Init, CountInv, FreshZero, CountNeverExceedsAttachers

LEMMA NextKeepsCount == IInv /\ CountInv /\ [Next]_vars => CountInv'
<1> SUFFICES ASSUME IInv, CountInv, [Next]_vars PROVE CountInv'
  OBVIOUS
<1> DEFINE same == heap' = heap /\ num' = num /\ attached' = attached
<1>1. CASE same /\ (pc = "down" => pc' = "down")
  <2>1. Listed' = Listed /\ \A q \in Ent: Attachers(q)' = Attachers(q)
    BY <1>1 DEF Attachers, Listed
  <2>2. FreshZero'
    BY <1>1 DEF CountInv, FreshZero
  <2>3. CountNeverExceedsAttachers'
    BY <1>1, <2>1 DEF CountInv, CountNeverExceedsAttachers, Listed
  <2> QED
    BY <2>1, <2>2, <2>3 DEF CountInv
<1>2. ASSUME NEW e \in Ent, NEW t \in Table, EntSpawn(e, t) PROVE CountInv'
  BY <1>2, SpawnKeepsCount
<1>3. ASSUME NEW t \in Table, EntRemove(t) PROVE CountInv'
  BY <1>3, RemoveKeepsCount
<1>4. ASSUME NEW t \in Table, NEW u \in Table, Attach(t, u) PROVE CountInv'
  BY <1>4, AttachKeepsCount
<1>5. ASSUME NEW t \in Table, NEW u \in Table, Detach(t, u) PROVE CountInv'
  BY <1>5, DropKeepsCount DEF Detach, Handles, HandlesNameListedEntities, IInv, lists, walk
<1>6. ASSUME NEW t \in Table, AttachInvalid(t) PROVE CountInv'
  BY <1>6, DropKeepsCount DEF AttachInvalid, Handles, HandlesNameListedEntities, IInv, lists, walk
<1>7. ASSUME NEW t \in Time, FrameStart(t) PROVE CountInv'
  BY <1>7, FrameStartKeepsCount
<1>8. CASE Shutdown
  <2>1. Listed' = {} /\ pc' = "down"
    BY <1>8 DEF Shutdown, Listed
  <2> QED
    BY <2>1, FS_EmptySet DEF CountInv, FreshZero, CountNeverExceedsAttachers
<1> QED
  BY <1>1, <1>2, <1>3, <1>4, <1>5, <1>6, <1>7, <1>8
     DEF Next, LuaStep, WalkStep, vars, lists, links, walk, SetZ, SetNextThink, SetLastThink,
         ForceThink, Pass, ThinkCall, ThinkReturn, FrameEnd, Stopped

(* A count above zero always means that attachers exist.                   *)
THEOREM CountsCovered == Spec => []CountNeverExceedsAttachers
<1>1. CountInv => CountNeverExceedsAttachers
  BY DEF CountInv
<1> QED
  BY <1>1, InitCount, NextKeepsCount, Inductive, PTL DEF Spec

-----------------------------------------------------------------------------
(* What careful game code can rely on.  The element saved before a body    *)
(* runs is listed and is not the body's own entity, so the body may remove *)
(* or move its own; and whoever was not visited is that element or after   *)
(* it in the list.                                                         *)
SavedApart == pc \in {"iter", "think"} => nxt = NULL \/ nxt # cur
CareInv == FreshZero /\ AttachmentsListed /\ CursorListed /\ SavedApart

Ahead == {x \in Listed: nxt # NULL /\ (x = nxt \/ Before(nxt, x))}
VisitInv ==
  /\ pc = "think" => pending \subseteq Ahead /\ cur \notin pending
  /\ pc = "iter" => pending \subseteq Ahead \cup {cur} /\ (cur = NULL => nxt = NULL)

LEMMA NextOfListed ==
  ASSUME IInv, NEW e \in Listed
  PROVE  /\ NextOf(e) = NULL \/ (NextOf(e) \in Listed /\ NextOf(e) # e)
         /\ \A x \in Listed: Before(e, x) => NextOf(e) # NULL /\ (x = NextOf(e) \/ Before(NextOf(e), x))
<1>1. /\ entities \in Seq(Ent) /\ Len(entities) \in Nat /\ DOMAIN entities = 1 .. Len(entities)
      /\ IsInjective(entities) /\ Range(entities) = Listed
      /\ e \in Ent /\ heap[e] = "listed" /\ e # NULL
  BY LenProperties, NullAssumption DEF IInv, TypeOK, ListsPartitionHeap, HoldsOnce, Listed
<1> DEFINE i == CHOOSE j \in DOMAIN entities: entities[j] = e
<1>2. i \in DOMAIN entities /\ entities[i] = e
  <2>1. \E j \in DOMAIN entities: entities[j] = e
    BY <1>1 DEF Range
  <2> QED
    BY <2>1
<1>3. NextOf(e) = IF i < Len(entities) THEN entities[i + 1] ELSE NULL
  BY <1>1 DEF NextOf, Successor
<1> HIDE DEF i
<1>4. i < Len(entities) => i + 1 \in DOMAIN entities /\ i + 1 # i
  BY <1>1, <1>2
<1>5. NextOf(e) = NULL \/ (NextOf(e) \in Listed /\ NextOf(e) # e)
  BY <1>1, <1>2, <1>3, <1>4 DEF Range, IsInjective
<1>6. ASSUME NEW x \in Listed, Before(e, x)
      PROVE  NextOf(e) # NULL /\ (x = NextOf(e) \/ Before(NextOf(e), x))
  <2>1. PICK j \in DOMAIN entities, k \in DOMAIN entities: j < k /\ entities[j] = e /\ entities[k] = x
    BY <1>6 DEF Before
  <2>2. j = i
    BY <1>1, <1>2, <2>1 DEF IsInjective
  <2>3. i < Len(entities) /\ (k = i + 1 \/ i + 1 < k)
    BY <1>1, <2>1, <2>2
  <2>4. NextOf(e) = entities[i + 1] /\ i + 1 \in DOMAIN entities
    BY <1>3, <1>4, <2>3
  <2>5. NextOf(e) # NULL
    BY <1>1, <2>4, NullAssumption, ElementOfSeq
  <2> QED
    BY <2>1, <2>3, <2>4, <2>5 DEF Before
<1> QED
  BY <1>5, <1>6

(* From one element of the list to the next.                               *)
LEMMA AdvanceKeepsCare ==
  ASSUME IInv, CareInv, pc \in {"iter", "think"}, pc' = "iter", Advance, heap' = heap,
         entities' = entities
  PROVE  /\ cur' \in Listed' \cup {NULL} /\ nxt' \in Listed' \cup {NULL} /\ SavedApart'
         /\ (cur' = NULL => nxt' = NULL)
         /\ Ahead \subseteq Ahead' \cup {cur'}
<1>1. cur' = nxt /\ nxt' = NextOf(nxt) /\ Listed' = Listed
  BY DEF Advance, Listed
<1>2. nxt \in Listed \cup {NULL}
  BY DEF CareInv, CursorListed
<1>3. CASE nxt = NULL
  BY <1>1, <1>3 DEF NextOf, SavedApart, Ahead
<1>4. CASE nxt \in Listed
  <2>1. NextOf(nxt) = NULL \/ (NextOf(nxt) \in Listed /\ NextOf(nxt) # nxt)
    BY <1>4, NextOfListed
  <2>2. nxt # NULL
    BY <1>4, NullAssumption DEF Listed
  <2>3. ASSUME NEW x \in Ahead, x # nxt PROVE x \in Ahead'
    <3>1. x \in Listed /\ Before(nxt, x)
      BY <2>3 DEF Ahead
    <3>2. NextOf(nxt) # NULL /\ (x = NextOf(nxt) \/ Before(NextOf(nxt), x))
      BY <1>4, <3>1, NextOfListed
    <3>3. nxt' # NULL /\ (x = nxt' \/ Before(nxt, x)')
      BY <1>1, <3>2 DEF Before
    <3> QED
      BY <1>1, <3>1, <3>3 DEF Ahead
  <2>4. Ahead \subseteq Ahead' \cup {cur'}
    BY <1>1, <2>3
  <2>5. SavedApart'
    BY <1>1, <2>1 DEF SavedApart
  <2> QED
    BY <1>1, <1>4, <2>1, <2>2, <2>4, <2>5
<1> QED
  BY <1>2, <1>3, <1>4

(* A step of Lua code in a think that keeps the order keeps what is ahead. *)
LEMMA AheadKept ==
  ASSUME KeepsOrder, VisitInv, pc = "think", pc' = pc, nxt' = nxt, cur' = cur,
         pending' \subseteq pending, nxt = NULL \/ nxt \in Listed,
         \A x \in pending' \cup {nxt}: x \in Listed => x \in Listed' /\ z'[x] = z[x]
  PROVE  VisitInv'
<1>1. pending' \subseteq Ahead /\ cur' \notin pending'
  BY DEF VisitInv
<1>2. ASSUME NEW x \in pending' PROVE x \in Ahead'
  <2>1. x \in Listed /\ nxt # NULL /\ nxt \in Listed /\ (x = nxt \/ Before(nxt, x))
    BY <1>1 DEF Ahead
  <2>2. x \in Listed' /\ nxt \in Listed' /\ z'[x] = z[x] /\ z'[nxt] = z[nxt]
    BY <2>1
  <2>3. x = nxt \/ Before(nxt, x)'
    BY <2>1, <2>2 DEF KeepsOrder, Listed, Before
  <2> QED
    BY <2>1, <2>2, <2>3 DEF Ahead, Before
<1> QED
  BY <1>1, <1>2 DEF VisitInv

LEMMA SpawnKeepsCare ==
  ASSUME IInv, CountInv, CareInv, VisitInv, NEW e \in Ent, NEW t \in Table, EntSpawn(e, t)
  PROVE  CareInv' /\ VisitInv'
<1>1. /\ heap[e] = "free" /\ heap' = [heap EXCEPT ![e] = "listed"] /\ pc \in {"idle", "think"}
      /\ pc' = pc /\ cur' = cur /\ nxt' = nxt /\ num' = num /\ attached' = attached
      /\ pending' = pending /\ z' = z
  BY DEF EntSpawn, InLua, links, walk
<1>2. Listed' = Listed \cup {e}
  BY <1>1 DEF Listed, IInv, TypeOK
<1>3. FreshZero'
  BY SpawnKeepsCount DEF CountInv
<1>4. AttachmentsListed'
  BY <1>1, <1>2 DEF CareInv, AttachmentsListed, FreshZero
<1>5. CursorListed' /\ SavedApart'
  BY <1>1, <1>2 DEF CareInv, CursorListed, SavedApart
<1>6. VisitInv'
  <2>1. CASE pc = "think"
    <3>1. KeepsOrder
      BY SpawnKeepsOrder
    <3>2. nxt = NULL \/ nxt \in Listed
      BY <2>1 DEF CareInv, CursorListed
    <3> QED
      BY <1>1, <1>2, <2>1, <3>1, <3>2, AheadKept
  <2>2. CASE pc = "idle"
    BY <1>1, <2>2 DEF VisitInv
  <2> QED
    BY <1>1, <2>1, <2>2
<1> QED
  BY <1>3, <1>4, <1>5, <1>6 DEF CareInv

LEMMA RemoveKeepsCare ==
  ASSUME Careful, IInv, CountInv, CareInv, VisitInv, NEW t \in Table, EntRemove(t)
  PROVE  CareInv' /\ VisitInv'
<1> DEFINE e == handle[t]
<1>1. /\ e \in Ent /\ heap[e] = "listed" /\ heap' = [heap EXCEPT ![e] = "removed"]
      /\ num' = Decrement(attached[e]) /\ attached' = ClearAttachers(e, num'[e])
      /\ pending' = pending \ {e}
  BY DEF EntRemove, Delete, Retire, Handles, HandlesNameListedEntities, IInv
<1>2. /\ Attachers(e) = {} /\ (pc = "think" => e = cur) /\ pc \in {"idle", "think"}
      /\ pc' = pc /\ cur' = cur /\ nxt' = nxt /\ z' = z
  BY DEF EntRemove, CarefulRemove, InLua, walk
<1> HIDE DEF e
<1>3. Listed' = Listed \ {e}
  BY <1>1 DEF Listed, IInv, TypeOK
<1>4. FreshZero'
  BY RemoveKeepsCount DEF CountInv
<1>5. AttachmentsListed'
  <2> SUFFICES ASSUME NEW x \in Listed' PROVE attached'[x] \in Listed' \cup {NULL}
    BY DEF AttachmentsListed
  <2>1. x \in Listed /\ x \in Ent /\ attached[x] \in Listed \cup {NULL} /\ attached[x] # e
    BY <1>2, <1>3 DEF CareInv, AttachmentsListed, Attachers, Listed
  <2>2. attached'[x] \in {attached[x], NULL}
    BY <1>1, <2>1 DEF ClearAttachers
  <2> QED
    BY <1>3, <2>1, <2>2
<1>6. CursorListed' /\ SavedApart'
  BY <1>2, <1>3, NullAssumption DEF CareInv, CursorListed, SavedApart
<1>7. VisitInv'
  <2>1. CASE pc = "think"
    <3>1. KeepsOrder
      BY RemoveKeepsOrder
    <3>2. nxt = NULL \/ (nxt \in Listed /\ nxt # e)
      BY <1>2, <2>1 DEF CareInv, CursorListed, SavedApart
    <3> QED
      BY <1>1, <1>2, <1>3, <2>1, <3>1, <3>2, NullAssumption, AheadKept DEF Listed
  <2>2. CASE pc = "idle"
    BY <1>2, <2>2 DEF VisitInv
  <2> QED
    BY <1>2, <2>1, <2>2
<1> QED
  BY <1>4, <1>5, <1>6, <1>7 DEF CareInv

LEMMA MoveKeepsCare ==
  ASSUME Careful, IInv, Sorted, CareInv, VisitInv, NEW t \in Table, NEW k \in ZOrder, SetZ(t, k)
  PROVE  CareInv' /\ VisitInv'
<1>1. /\ handle[t] \in Ent /\ z' = [z EXCEPT ![handle[t]] = k]
      /\ (pc = "think" => handle[t] = cur) /\ pc \in {"idle", "think"}
      /\ heap' = heap /\ pc' = pc /\ cur' = cur /\ nxt' = nxt /\ num' = num
      /\ attached' = attached /\ pending' = pending
  BY DEF SetZ, CarefulMove, MoveTo, InLua, Handles, links, walk
<1>2. Listed' = Listed
  BY <1>1 DEF Listed
<1>3. CareInv'
  <2>1. FreshZero' /\ AttachmentsListed'
    BY <1>1, <1>2 DEF CareInv, FreshZero, AttachmentsListed
  <2>2. CursorListed' /\ SavedApart'
    BY <1>1, <1>2 DEF CareInv, CursorListed, SavedApart
  <2> QED
    BY <2>1, <2>2 DEF CareInv
<1>4. VisitInv'
  <2>1. CASE pc = "think"
    <3>1. KeepsOrder
      BY MoveKeepsOrder
    <3>2. nxt = NULL \/ (nxt \in Listed /\ nxt # cur)
      BY <2>1 DEF CareInv, CursorListed, SavedApart
    <3>3. \A x \in Ent: x # cur => z'[x] = z[x]
      BY <1>1, <2>1 DEF IInv, TypeOK
    <3>4. cur \notin pending
      BY <2>1 DEF VisitInv
    <3>5. \A x \in pending' \cup {nxt}: x \in Listed => x \in Listed' /\ z'[x] = z[x]
      BY <1>1, <1>2, <3>2, <3>3, <3>4, NullAssumption DEF Listed
    <3> QED
      BY <1>1, <2>1, <3>1, <3>2, <3>5, AheadKept
  <2>2. CASE pc = "idle"
    BY <1>1, <2>2 DEF VisitInv
  <2> QED
    BY <1>1, <2>1, <2>2
<1> QED
  BY <1>3, <1>4

(* Attaching and detaching lead to listed entities only.                   *)
LEMMA LinksKeepCare ==
  ASSUME IInv, CareInv, VisitInv, FreshZero', UNCHANGED <<lists, walk, pending>>,
         \A x \in Listed: attached'[x] = attached[x] \/ attached'[x] \in Listed \cup {NULL}
  PROVE  CareInv' /\ VisitInv'
<1>1. /\ heap' = heap /\ entities' = entities /\ pc' = pc /\ cur' = cur /\ nxt' = nxt
      /\ pending' = pending
  BY DEF lists, walk
<1>2. Listed' = Listed
  BY <1>1 DEF Listed
<1>3. AttachmentsListed'
  BY <1>2 DEF CareInv, AttachmentsListed
<1>4. CursorListed' /\ SavedApart'
  BY <1>1, <1>2 DEF CareInv, CursorListed, SavedApart
<1>5. Ahead' = Ahead
  BY <1>1, <1>2 DEF Ahead, Before
<1> QED
  BY <1>1, <1>3, <1>4, <1>5 DEF CareInv, VisitInv

LEMMA FrameStartKeepsCare ==
  ASSUME IInv, CountInv, CareInv, NEW t \in Time, FrameStart(t)
  PROVE  CareInv' /\ VisitInv'
<1>1. /\ heap' = [e \in Ent |-> IF heap[e] = "removed" THEN "free" ELSE heap[e]]
      /\ attached' = [e \in Ent |-> IF heap[e] = "removed" THEN NULL ELSE attached[e]]
      /\ pc' = "iter" /\ cur' = HeadOf(entities) /\ nxt' = NextOf(HeadOf(entities))
      /\ pending' = Listed /\ entities' = entities
  BY DEF FrameStart, FreeRemoved, ScrubLinks, Scrub
<1>2. Listed' = Listed
  BY <1>1 DEF Listed
<1>3. FreshZero'
  BY FrameStartKeepsCount DEF CountInv
<1>4. AttachmentsListed'
  BY <1>1, <1>2 DEF CareInv, AttachmentsListed, Listed
<1>5. /\ entities \in Seq(Ent) /\ Len(entities) \in Nat /\ DOMAIN entities = 1 .. Len(entities)
      /\ Range(entities) = Listed
  BY LenProperties DEF IInv, TypeOK, ListsPartitionHeap, HoldsOnce, Listed
<1>6. CASE entities = <<>>
  <2>1. Listed = {} /\ cur' = NULL /\ nxt' = NULL
    BY <1>1, <1>5, <1>6 DEF Range, HeadOf, NextOf
  <2> QED
    BY <1>1, <1>2, <1>3, <1>4, <2>1 DEF CareInv, CursorListed, SavedApart, VisitInv
<1>7. CASE entities # <<>>
  <2> DEFINE h == entities[1]
  <2>1. 1 \in DOMAIN entities /\ HeadOf(entities) = h
    BY <1>5, <1>7 DEF HeadOf
  <2>2. h \in Listed /\ h # NULL
    BY <1>5, <2>1, NullAssumption DEF Range, Listed
  <2>3. \A x \in Listed: x = h \/ Before(h, x)
    BY <1>5, <2>1 DEF Range, Before
  <2> HIDE DEF h
  <2>4. NextOf(h) = NULL \/ (NextOf(h) \in Listed /\ NextOf(h) # h)
    BY <2>2, NextOfListed
  <2>5. CursorListed' /\ SavedApart'
    BY <1>1, <1>2, <2>1, <2>2, <2>4 DEF CursorListed, SavedApart
  <2>6. ASSUME NEW x \in Listed, x # h PROVE x \in Ahead'
    <3>1. NextOf(h) # NULL /\ (x = NextOf(h) \/ Before(NextOf(h), x))
      BY <2>2, <2>3, <2>6, NextOfListed
    <3> QED
      BY <1>1, <1>2, <2>1, <3>1 DEF Ahead, Before
  <2>7. VisitInv'
    BY <1>1, <2>1, <2>2, <2>6 DEF VisitInv
  <2> QED
    BY <1>3, <1>4, <2>5, <2>7 DEF CareInv
<1> QED
  BY <1>6, <1>7

(* The walk's own steps.                                                   *)
LEMMA WalkKeepsCare ==
  ASSUME IInv, CareInv, VisitInv, WalkStep
  PROVE  CareInv' /\ VisitInv'
<1> USE DEF lists, links
<1>1. heap' = heap /\ entities' = entities /\ num' = num /\ attached' = attached
  BY DEF WalkStep, Pass, ThinkCall, ThinkReturn, FrameEnd
<1>2. Listed' = Listed
  BY <1>1 DEF Listed
<1>3. pc # "down" /\ FreshZero' /\ AttachmentsListed'
  BY <1>1, <1>2 DEF WalkStep, Pass, ThinkCall, ThinkReturn, FrameEnd, CareInv, FreshZero, AttachmentsListed
<1>4. CASE Pass \/ ThinkReturn
  <2>1. /\ pc \in {"iter", "think"} /\ pc' = "iter" /\ Advance /\ pending' \subseteq pending
        /\ pending' \subseteq Ahead
    BY <1>4 DEF Pass, ThinkReturn, VisitInv
  <2>2. /\ cur' \in Listed' \cup {NULL} /\ nxt' \in Listed' \cup {NULL} /\ SavedApart'
        /\ (cur' = NULL => nxt' = NULL) /\ Ahead \subseteq Ahead' \cup {cur'}
    BY <1>1, <2>1, AdvanceKeepsCare
  <2>3. CursorListed'
    BY <2>1, <2>2 DEF CursorListed
  <2>4. VisitInv'
    BY <2>1, <2>2 DEF VisitInv
  <2> QED
    BY <1>3, <2>2, <2>3, <2>4 DEF CareInv
<1>5. CASE ThinkCall
  <2>1. /\ pc = "iter" /\ cur # NULL /\ cur' = cur /\ nxt' = nxt /\ pending' = pending \ {cur}
        /\ (ref[cur] # NULL => pc' = "think")
    BY <1>5 DEF ThinkCall
  <2>2. cur \in Listed /\ ref[cur] # NULL
    BY <2>1 DEF CareInv, CursorListed, IInv, ValidMeansListed, Listed
  <2>3. CursorListed' /\ SavedApart'
    BY <1>2, <2>1, <2>2 DEF CareInv, CursorListed, SavedApart
  <2>4. Ahead' = Ahead
    BY <1>1, <1>2, <2>1 DEF Ahead, Before
  <2>5. VisitInv'
    BY <2>1, <2>2, <2>4 DEF VisitInv
  <2> QED
    BY <1>3, <2>3, <2>5 DEF CareInv
<1>6. CASE FrameEnd
  BY <1>3, <1>6 DEF FrameEnd, CareInv, CursorListed, SavedApart, VisitInv
<1> QED
  BY <1>4, <1>5, <1>6 DEF WalkStep

LEMMA NextKeepsCare ==
  ASSUME Careful
  PROVE  IInv /\ CountInv /\ CountInv' /\ Sorted /\ CareInv /\ VisitInv /\ [Next]_vars
         => CareInv' /\ VisitInv'
<1> SUFFICES ASSUME IInv, CountInv, CountInv', Sorted, CareInv, VisitInv, [Next]_vars
             PROVE  CareInv' /\ VisitInv'
  OBVIOUS
<1>0. FreshZero'
  BY DEF CountInv
<1>1. CASE UNCHANGED <<lists, links, walk, pending>>
  BY <1>0, <1>1, LinksKeepCare DEF links
<1>2. ASSUME NEW e \in Ent, NEW t \in Table, EntSpawn(e, t) PROVE CareInv' /\ VisitInv'
  BY <1>2, SpawnKeepsCare
<1>3. ASSUME NEW t \in Table, EntRemove(t) PROVE CareInv' /\ VisitInv'
  BY <1>3, RemoveKeepsCare
<1>4. ASSUME NEW t \in Table, NEW k \in ZOrder, SetZ(t, k) PROVE CareInv' /\ VisitInv'
  BY <1>4, MoveKeepsCare
<1>5. ASSUME NEW t \in Table, NEW u \in Table, Attach(t, u) PROVE CareInv' /\ VisitInv'
  <2>1. attached' = [attached EXCEPT ![handle[t]] = handle[u]] /\ handle[u] \in Listed
    BY <1>5 DEF Attach, Handles, HandlesNameListedEntities, IInv, Listed
  <2>2. \A x \in Listed: attached'[x] = attached[x] \/ attached'[x] \in Listed \cup {NULL}
    BY <2>1 DEF IInv, TypeOK, Listed
  <2> QED
    BY <1>0, <1>5, <2>2, LinksKeepCare DEF Attach
<1>6. ASSUME NEW t \in Table, NEW u \in Table, Detach(t, u) PROVE CareInv' /\ VisitInv'
  <2>1. \A x \in Listed: attached'[x] = attached[x] \/ attached'[x] \in Listed \cup {NULL}
    BY <1>6 DEF Detach, IInv, TypeOK, Listed
  <2> QED
    BY <1>0, <1>6, <2>1, LinksKeepCare DEF Detach
<1>7. ASSUME NEW t \in Table, AttachInvalid(t) PROVE CareInv' /\ VisitInv'
  <2>1. \A x \in Listed: attached'[x] = attached[x] \/ attached'[x] \in Listed \cup {NULL}
    BY <1>7 DEF AttachInvalid
  <2> QED
    BY <1>0, <1>7, <2>1, LinksKeepCare DEF AttachInvalid
<1>8. ASSUME NEW t \in Time, FrameStart(t) PROVE CareInv' /\ VisitInv'
  BY <1>8, FrameStartKeepsCare
<1>9. CASE WalkStep
  BY <1>9, WalkKeepsCare
<1>10. CASE Shutdown
  <2>1. Listed' = {} /\ pc' = "down"
    BY <1>10 DEF Shutdown, Listed
  <2> QED
    BY <1>0, <2>1 DEF CareInv, AttachmentsListed, CursorListed, SavedApart, VisitInv
<1>11. CASE UNCHANGED vars
  BY <1>1, <1>11 DEF vars
<1> QED
  BY <1>1, <1>2, <1>3, <1>4, <1>5, <1>6, <1>7, <1>8, <1>9, <1>10, <1>11
     DEF Next, LuaStep, SetNextThink, SetLastThink, ForceThink, Stopped

LEMMA InitCare == Init => CareInv /\ VisitInv
<1> SUFFICES ASSUME Init PROVE CareInv /\ VisitInv
  OBVIOUS
<1>1. Listed = {} /\ pc = "idle" /\ FreshZero
  BY DEF Init, Listed, FreshZero
<1> QED
  BY <1>1 DEF CareInv, AttachmentsListed, CursorListed, SavedApart, VisitInv

(* What careful game code can rely on, as an inductive invariant.          *)
THEOREM CareInductive == ASSUME Careful PROVE Spec => [](CareInv /\ VisitInv)
<1>1. IInv /\ CountInv /\ CountInv' /\ Sorted /\ CareInv /\ VisitInv /\ [Next]_vars
      => CareInv' /\ VisitInv'
  BY NextKeepsCare
<1> QED
  BY <1>1, InitCare, InitCount, NextKeepsCount, Inductive, DrawOrder, PTL DEF Spec

(* Careful game code never reaches a removed entity, by an attachment or   *)
(* in a walk.                                                              *)
THEOREM CareReachesListed == ASSUME Careful PROVE Spec => []OnlyListedReached
<1>1. CareInv => OnlyListedReached
  BY DEF CareInv, OnlyListedReached
<1> QED
  BY <1>1, CareInductive, PTL

(* And a walk skips none that is still listed at its turn.                 *)
THEOREM CareVisitsAll == ASSUME Careful PROVE Spec => []WalkVisitsAll
<1>1. IInv /\ VisitInv => WalkVisitsAll
  BY NullAssumption DEF IInv, TypeOK, VisitInv, Ahead, WalkVisitsAll
<1> QED
  BY <1>1, CareInductive, Inductive, PTL

=============================================================================
