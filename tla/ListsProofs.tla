---------------------------- MODULE ListsProofs -----------------------------
(* Proofs about the sorted lists of SGLIB (Lists), for lists of any length *)
(* and nodes of any ranks: a node is added, deleted and found where the    *)
(* ranks say, and a list that is sorted keeps its nodes and is in order.   *)
EXTENDS Lists, FiniteSetTheorems, SequenceTheorems, WellFoundedInduction, NaturalsInduction, TLAPS

LEMMA Least ==
  ASSUME NEW T \in SUBSET Nat, T # {}
  PROVE  \E n \in T: \A m \in T: n <= m
<1> DEFINE R == OpToRel(<, Nat)
<1>1. IsWellFoundedOn(R, Nat)
  BY NatLessThanWellFounded, Zenon
<1>2. \A x, y \in Nat: y < x => <<y, x>> \in R
  BY DEF OpToRel
<1> HIDE DEF R
<1>3. PICK x \in T: \A y \in T: ~(<<y, x>> \in R)
  BY <1>1, WFMin
<1>4. ASSUME NEW m \in T PROVE x <= m
  <2>1. x \in Nat /\ m \in Nat /\ ~(<<m, x>> \in R)
    BY <1>3
  <2>2. ~(m < x)
    BY <1>2, <2>1
  <2> QED
    BY <2>1, <2>2
<1> QED
  BY <1>4

-----------------------------------------------------------------------------
(* Lists by their next pointers (Lists).                                   *)

LEMMA ListsKnown ==
  /\ MaxLen \in Nat /\ Node = 1 .. MaxLen + 1 /\ Extra = MaxLen + 1 /\ Extra \in Node /\ 0 \notin Node
  /\ Rank \subseteq Int /\ 0 \in Rank
BY ListsAssumption DEF ListsAssumption, Node, Extra

(* The nodes W[lo + 1], ..., W[hi] are the list that begins with x.        *)
Linked(lk, x, W, lo, hi) ==
  /\ x = IF lo < hi THEN W[lo + 1] ELSE 0
  /\ \A k \in lo + 1 .. hi: lk[W[k]] = IF k < hi THEN W[k + 1] ELSE 0

Piece(W, lo, hi) == [k \in 1 .. hi - lo |-> W[lo + k]]

LEMMA ChainIs ==
  ASSUME NEW n \in 0 .. MaxLen + 1, NEW Z \in [1 .. n -> Node], NEW x, Linked(link, x, Z, 0, n)
  PROVE  Chain(x) = Z
<1> DEFINE g == [k \in Node |-> IF k <= n THEN Z[k] ELSE 0]
           Step(f) == [k \in Node |-> IF k = 1 THEN x ELSE IF f[k - 1] = 0 THEN 0 ELSE link[f[k - 1]]]
           nth == CHOOSE f: f = Step(f)
<1>1. MaxLen \in Nat /\ n \in Nat /\ Node = 1 .. MaxLen + 1 /\ 0 \notin Node
  BY ListsKnown
<1>2. ASSUME NEW k \in Node PROVE g[k] = Step(g)[k]
  <2>1. CASE k = 1
    BY <1>1, <2>1 DEF Linked
  <2>2. CASE k # 1
    <3>1. k - 1 \in Node /\ (k <= n <=> k - 1 < n) /\ k - 1 + 1 = k
      BY <1>1, <2>2
    <3>2. CASE k - 1 <= n
      <4>1. k - 1 \in 1 .. n /\ k - 1 \in 0 + 1 .. n /\ g[k - 1] = Z[k - 1] /\ Z[k - 1] # 0
        BY <1>1, <3>1, <3>2
      <4>2. link[Z[k - 1]] = IF k - 1 < n THEN Z[k] ELSE 0
        BY <3>1, <4>1 DEF Linked
      <4> QED
        BY <2>2, <3>1, <4>1, <4>2
    <3>3. CASE ~(k - 1 <= n)
      BY <1>1, <2>2, <3>1, <3>3
    <3> QED
      BY <3>2, <3>3
  <2> QED
    BY <2>1, <2>2
<1>3. g = Step(g)
  BY <1>2
<1>4. nth = Step(nth)
  BY <1>3
<1>5. \A k \in Node: nth[k] = g[k]
  <2> DEFINE T == {k \in Node: nth[k] # g[k]}
  <2> SUFFICES ASSUME T # {} PROVE FALSE
    OBVIOUS
  <2> HIDE DEF nth, g
  <2>1. T \in SUBSET Nat
    <3>1. \A k \in T: k \in Node
      OBVIOUS
    <3>2. \A k \in Node: k \in Nat
      BY <1>1
    <3> QED
      BY <3>1, <3>2
  <2>2. PICK k \in T: \A m \in T: k <= m
    BY <2>1, Least, Zenon
  <2>3. k \in Node /\ nth[k] # g[k]
    BY <2>2
  <2>4. nth[k] = Step(nth)[k] /\ g[k] = Step(g)[k]
    BY <1>3, <1>4
  <2>5. k # 1
    BY <2>3, <2>4
  <2>6. k - 1 \in Node /\ k - 1 \notin T
    BY <1>1, <2>2, <2>3, <2>5
  <2>7. nth[k - 1] = g[k - 1]
    BY <2>6
  <2> QED
    BY <2>3, <2>4, <2>7
<1>6. Chain(x) = [k \in {j \in Node: nth[j] # 0} |-> nth[k]]
  BY DEF Chain
<1> HIDE DEF nth
<1>7. {j \in Node: nth[j] # 0} = 1 .. n
  BY <1>1, <1>5
<1>8. \A k \in 1 .. n: nth[k] = Z[k]
  BY <1>1, <1>5
<1> QED
  BY <1>6, <1>7, <1>8

LEMMA PieceIs ==
  ASSUME NEW n \in Nat, NEW W \in [1 .. n -> Node], NEW lo \in 0 .. n, NEW hi \in lo .. n
  PROVE  /\ Piece(W, lo, hi) \in [1 .. hi - lo -> Node] /\ Piece(W, lo, hi) \in Seq(Node)
         /\ Len(Piece(W, lo, hi)) = hi - lo /\ hi - lo \in Nat
         /\ \A k \in 1 .. hi - lo: Piece(W, lo, hi)[k] = W[lo + k]
<1>1. hi - lo \in Nat /\ \A k \in 1 .. hi - lo: lo + k \in 1 .. n
  OBVIOUS
<1>2. Piece(W, lo, hi) \in [1 .. hi - lo -> Node]
  BY <1>1 DEF Piece
<1>3. Piece(W, lo, hi) \in Seq(Node)
  BY <1>1, <1>2
<1> QED
  BY <1>1, <1>2, <1>3 DEF Piece

LEMMA PieceChain ==
  ASSUME NEW n \in 0 .. MaxLen + 1, NEW W \in [1 .. n -> Node], NEW lo \in 0 .. n, NEW hi \in lo .. n,
         NEW x, Linked(link, x, W, lo, hi)
  PROVE  Chain(x) = Piece(W, lo, hi)
<1> DEFINE Z == Piece(W, lo, hi)
           m == hi - lo
<1>0. MaxLen \in Nat /\ n \in Nat
  BY ListsKnown
<1>1. /\ Z \in [1 .. m -> Node] /\ m \in Nat /\ \A k \in 1 .. m: Z[k] = W[lo + k]
      /\ MaxLen \in Nat /\ n \in Nat
  BY <1>0, PieceIs
<1>2. m \in 0 .. MaxLen + 1
  BY <1>1
<1> HIDE DEF Z
<1>3. x = IF 0 < m THEN Z[0 + 1] ELSE 0
  BY <1>1 DEF Linked
<1>4. ASSUME NEW k \in 0 + 1 .. m PROVE link[Z[k]] = IF k < m THEN Z[k + 1] ELSE 0
  <2>1. lo + k \in lo + 1 .. hi /\ (k < m <=> lo + k < hi) /\ k \in 1 .. m /\ lo + k + 1 = lo + (k + 1)
    BY <1>1
  <2>2. link[W[lo + k]] = IF lo + k < hi THEN W[lo + k + 1] ELSE 0
    BY <2>1 DEF Linked
  <2>3. k < m => k + 1 \in 1 .. m
    BY <1>1, <2>1
  <2> QED
    BY <1>1, <2>1, <2>2, <2>3
<1>5. Linked(link, x, Z, 0, m)
  BY <1>3, <1>4 DEF Linked
<1> HIDE DEF m
<1> QED
  BY <1>1, <1>2, <1>5, ChainIs DEF Z

LEMMA PiecesJoin ==
  ASSUME NEW n \in Nat, NEW W \in [1 .. n -> Node], NEW lo \in 0 .. n, NEW mi \in lo .. n, NEW hi \in mi .. n
  PROVE  Piece(W, lo, mi) \o Piece(W, mi, hi) = Piece(W, lo, hi)
<1>1. hi \in lo .. n /\ mi \in 0 .. n
  OBVIOUS
<1>2. /\ Piece(W, lo, mi) \in Seq(Node) /\ Len(Piece(W, lo, mi)) = mi - lo /\ mi - lo \in Nat
      /\ \A k \in 1 .. mi - lo: Piece(W, lo, mi)[k] = W[lo + k]
  BY PieceIs
<1>3. /\ Piece(W, mi, hi) \in Seq(Node) /\ Len(Piece(W, mi, hi)) = hi - mi /\ hi - mi \in Nat
      /\ \A k \in 1 .. hi - mi: Piece(W, mi, hi)[k] = W[mi + k]
  BY <1>1, PieceIs, ZenonT(30)
<1>4. /\ Piece(W, lo, hi) \in Seq(Node) /\ Len(Piece(W, lo, hi)) = hi - lo /\ hi - lo \in Nat
      /\ \A k \in 1 .. hi - lo: Piece(W, lo, hi)[k] = W[lo + k]
  BY <1>1, PieceIs, ZenonT(30)
<1> DEFINE s == Piece(W, lo, mi)
           t == Piece(W, mi, hi)
           u == Piece(W, lo, hi)
<1> HIDE DEF s, t, u
<1>5. s \o t \in Seq(Node) /\ Len(s \o t) = hi - lo
  <2>1. s \in Seq(Node) /\ Len(s) = mi - lo /\ t \in Seq(Node) /\ Len(t) = hi - mi
    BY <1>2, <1>3 DEF s, t
  <2>2. s \o t \in Seq(Node) /\ Len(s \o t) = Len(s) + Len(t)
    BY <2>1, ConcatProperties
  <2>3. (mi - lo) + (hi - mi) = hi - lo
    OBVIOUS
  <2> QED
    BY <2>1, <2>2, <2>3
<1>6. ASSUME NEW k \in 1 .. hi - lo PROVE (s \o t)[k] = u[k]
  <2>1. CASE k <= mi - lo
    <3>1. (s \o t)[k] = s[k]
      BY <1>2, <1>3, <2>1 DEF s, t
    <3> QED
      BY <1>2, <1>4, <2>1, <3>1 DEF s, u
  <2>2. CASE k > mi - lo
    <3>1. (s \o t)[k] = t[k - (mi - lo)]
      BY <1>2, <1>3, <2>2 DEF s, t
    <3>2. k - (mi - lo) \in 1 .. hi - mi /\ mi + (k - (mi - lo)) = lo + k
      BY <2>2
    <3> QED
      BY <1>3, <1>4, <3>1, <3>2 DEF t, u
  <2>3. k <= mi - lo \/ k > mi - lo
    BY <1>2
  <2> QED
    BY <2>1, <2>2, <2>3
<1>7. s \o t = u
  <2>1. u \in Seq(Node) /\ Len(u) = hi - lo
    BY <1>4 DEF u
  <2> QED
    BY <1>5, <1>6, <2>1, SeqEqual
<1> QED
  BY <1>7 DEF s, t, u

-----------------------------------------------------------------------------
(* Multiples of the length of a run, where the runs of a pass end.         *)

Multiple(c, r) == \E k \in Nat: c = k * r
Whole(p, q, r) == \A c \in Nat: Multiple(c, r) => ~(p <= c /\ c < q)

LEMMA MultipleZero ==
  ASSUME NEW r \in Nat
  PROVE  Multiple(0, r)
<1>1. 0 = 0 * r
  OBVIOUS
<1> QED
  BY <1>1 DEF Multiple

LEMMA MultipleTwice ==
  ASSUME NEW r \in Nat, NEW c \in Nat, Multiple(c, 2 * r)
  PROVE  Multiple(c, r)
<1>1. PICK k \in Nat: c = k * (2 * r)
  BY DEF Multiple
<1>2. c = (2 * k) * r /\ 2 * k \in Nat
  BY <1>1
<1> QED
  BY <1>2 DEF Multiple

LEMMA MultipleNext ==
  ASSUME NEW r \in Nat, NEW c \in Nat, Multiple(c, r)
  PROVE  Multiple(c + r, r)
<1>1. PICK k \in Nat: c = k * r
  BY DEF Multiple
<1>2. c + r = (k + 1) * r /\ k + 1 \in Nat
  BY <1>1
<1> QED
  BY <1>2 DEF Multiple

LEMMA MultipleApart ==
  ASSUME NEW r \in Nat, NEW c \in Nat, NEW d \in Nat, Multiple(c, r), Multiple(d, r), c < d
  PROVE  c + r <= d
<1>1. PICK k \in Nat: c = k * r
  BY DEF Multiple
<1>2. PICK j \in Nat: d = j * r
  BY DEF Multiple
<1>3. k < j
  <2> SUFFICES ASSUME j <= k PROVE FALSE
    OBVIOUS
  <2>1. PICK u \in Nat: k = j + u
    <3>1. k - j \in Nat /\ k = j + (k - j)
      OBVIOUS
    <3> QED
      BY <3>1
  <2>2. c = d + u * r /\ u * r \in Nat
    BY <1>1, <1>2, <2>1
  <2> QED
    BY <2>2
<1>4. PICK u \in Nat: j = (k + 1) + u
  <2>1. j - (k + 1) \in Nat /\ j = (k + 1) + (j - (k + 1))
    BY <1>3
  <2> QED
    BY <2>1
<1>5. d = c + r + u * r /\ u * r \in Nat
  BY <1>1, <1>2, <1>4
<1> QED
  BY <1>5

(* Nothing ends behind an end before the next.                             *)
LEMMA WholeRun ==
  ASSUME NEW r \in Nat, NEW d \in Nat, Multiple(d, r), NEW p \in Nat, NEW q \in Nat, d < p, q <= d + r
  PROVE  Whole(p, q, r)
BY MultipleApart DEF Whole
-----------------------------------------------------------------------------
(* The inductive invariant.  While a list is sorted, W is its nodes: those *)
(* that have been merged up to p1, the two runs up to p2 and p3, and what  *)
(* is left.                                                                *)

Hangs(W, p1, p2, p3) ==
  /\ first = IF p1 > 0 THEN W[1] ELSE 0
  /\ \A k \in 1 .. p1: k < p1 => link[W[k]] = W[k + 1]
  /\ p1 > 0 => link[W[p1]] \in IF doing = "pass" THEN {0} ELSE {0, na, nb}
  /\ doing = "merge" \/ nleft # 0 => spot = IF p1 > 0 THEN W[p1] ELSE 0
  /\ Linked(link, na, W, p1, p2)
  /\ Linked(link, nb, W, p2, p3)
  /\ Linked(link, nleft, W, p3, many)
  /\ doing = "pass" => p1 = p3

(* Up to p are other nodes than behind it, all in front of them at first.  *)
Cut(W, c) == \A p, q \in 1 .. many: p <= c /\ c < q => W[p] < W[q]
InOrder(W, lo, hi) == \A p, q \in 1 .. many: lo < p /\ p < q /\ q <= hi => Behind(W[p], W[q])

RunsSorted(W, p1, p3, r) ==
  /\ \A c \in Nat: Multiple(c, 2 * r) \/ (p3 <= c /\ Multiple(c, r)) => Cut(W, c)
  /\ \A p, q \in 1 .. many: p < q /\ q <= p1 /\ Whole(p, q, 2 * r) => Behind(W[p], W[q])
  /\ \A p, q \in 1 .. many: p3 < p /\ p < q /\ Whole(p, q, r) => Behind(W[p], W[q])

(* The runs begin behind d; what has been taken from them goes in front of *)
(* the rest.                                                               *)
RunsMerge(W, p1, p2, p3, d, r) ==
  /\ Multiple(d, 2 * r) /\ d <= p1 /\ p3 <= d + 2 * r /\ p3 \in {d + 2 * r, many}
  /\ InOrder(W, p1, p2) /\ InOrder(W, p2, p3)
  /\ \A p, q \in 1 .. many: p1 < p /\ p <= p2 /\ p2 < q /\ q <= p3 => W[p] < W[q]
  /\ \A p, q \in 1 .. many: d < p /\ p <= p1 /\ p1 < q /\ q <= p3 => Behind(W[p], W[q])

Passes(p3, r) ==
  /\ Multiple(p3, 2 * r) \/ p3 = many
  /\ again \/ p3 = 0 \/ many < r

Permutation(W) ==
  /\ W \in [1 .. many -> 1 .. many]
  /\ \A j, k \in 1 .. many: W[j] = W[k] => j = k
  /\ \A x \in 1 .. many: \E k \in 1 .. many: W[k] = x

Sorts(W, p1, p2, p3, d, r) ==
  /\ r = run /\ (again \/ doing = "merge" => r <= many)
  /\ p1 <= p2 /\ p2 <= p3 /\ p3 <= many
  /\ Permutation(W)
  /\ Hangs(W, p1, p2, p3)
  /\ RunsSorted(W, p1, p3, r)
  /\ IF doing = "merge" THEN RunsMerge(W, p1, p2, p3, d, r) ELSE Passes(p3, r)

Sorting ==
  /\ tie = -1
  /\ \E W: \E p1, p2, p3, d \in Nat, r \in Nat \ {0}: Sorts(W, p1, p2, p3, d, r)

(* Before it is changed, the list is as at first, and what is looked for   *)
(* or added or deleted is behind what has been gone past.                  *)
AtFirst ==
  /\ first = IF many = 0 THEN 0 ELSE 1
  /\ link = [k \in Node |-> IF k < many THEN k + 1 ELSE 0]
  /\ \A j, k \in 1 .. many: j < k => rank[j] <= rank[k]
  /\ na = 0 /\ nb = 0 /\ nleft = 0 /\ run = 0 /\ again = FALSE

Walks ==
  /\ AtFirst /\ spot \in 0 .. many
  /\ doing \in {"add", "find"} => \A x \in 1 .. spot: Comparator(x, Extra) < 0
  /\ doing = "find" => tie = 0
  /\ doing = "delete" => gone \in 1 .. many /\ spot < gone
  /\ doing = "none" => spot = 0 /\ gone = 0

LeftNodes == CASE doing = "added"   -> (1 .. many) \cup {Extra}
               [] doing = "deleted" -> (1 .. many) \ {gone}
               [] OTHER             -> 1 .. many
Left(n, Z) ==
  /\ Linked(link, first, Z, 0, n)
  /\ \A p, q \in 1 .. n: p < q => Behind(Z[p], Z[q])
  /\ Nodes(Z) = LeftNodes
FoundFirst ==
  LET named == {x \in 1 .. many: rank[x] = rank[Extra]}
  IN  /\ named = {} => member = 0
      /\ named # {} => member \in named /\ \A x \in named: member <= x

ListsInv ==
  /\ ListsType
  /\ doing \in {"none", "add", "find", "delete"} => Walks
  /\ doing \in {"pass", "merge"} => Sorting
  /\ doing \in Finished => \E n \in 0 .. many + 1: \E Z \in [1 .. n -> Node]: Left(n, Z)
  /\ doing = "found" => FoundFirst

-----------------------------------------------------------------------------
(* The order: what a node that is taken from a run keeps.                  *)

LEMMA BehindIs ==
  ASSUME ListsType, tie = -1
  PROVE  /\ \A x, y, z \in 1 .. many: Behind(x, y) /\ Behind(y, z) => Behind(x, z)
         /\ \A x, y \in 1 .. many: x # y => (Comparator(x, y) < 0 => rank[x] <= rank[y])
         /\ \A x, y \in 1 .. many: x < y /\ Comparator(x, y) < 0 => Behind(x, y)
         /\ \A x, y \in 1 .. many: ~(Comparator(x, y) < 0) => Behind(y, x)
<1>1. many \in Nat /\ \A x \in 1 .. many: x \in Nat /\ rank[x] \in Int
  <2>1. rank \in [Node -> Rank] /\ many \in 0 .. MaxLen
    BY DEF ListsType
  <2>2. 1 .. many \subseteq Node /\ many \in Nat
    BY <2>1, ListsKnown
  <2>3. \A x \in Node: rank[x] \in Int
    BY <2>1, ListsKnown
  <2>4. \A x \in 1 .. many: x \in Nat /\ x \in Node
    BY <2>2
  <2> QED
    BY <2>2, <2>3, <2>4
<1>2. \A x, y \in 1 .. many: Behind(x, y) <=> rank[x] < rank[y] \/ (rank[x] = rank[y] /\ x < y)
  BY DEF Behind
<1>3. \A x, y, z \in 1 .. many: Behind(x, y) /\ Behind(y, z) => Behind(x, z)
  BY <1>1, <1>2
<1>4. \A x, y \in 1 .. many: Comparator(x, y) < 0 <=> rank[x] <= rank[y]
  BY <1>1 DEF Comparator
<1> QED
  BY <1>1, <1>2, <1>3, <1>4

LEMMA TakenFirst ==
  ASSUME ListsType, tie = -1, NEW n \in Nat, n = many,
         NEW p1 \in 0 .. n, NEW p2 \in 0 .. n, NEW p3 \in 0 .. n, NEW d \in 0 .. n, NEW r \in Nat \ {0},
         NEW W, Permutation(W), RunsSorted(W, p1, p3, r), RunsMerge(W, p1, p2, p3, d, r),
         p1 < p2, p2 < p3, Behind(W[p1 + 1], W[p2 + 1])
  PROVE  RunsSorted(W, p1 + 1, p3, r) /\ RunsMerge(W, p1 + 1, p2, p3, d, r)
<1>1. W \in [1 .. n -> 1 .. n] /\ p1 + 1 \in 1 .. n /\ p2 + 1 \in 1 .. n /\ d <= p1
  <2>1. W \in [1 .. n -> 1 .. n] /\ d <= p1
    BY DEF Permutation, RunsMerge
  <2>2. p1 + 1 \in 1 .. n /\ p2 + 1 \in 1 .. n
    OBVIOUS
  <2> QED
    BY <2>1, <2>2
<1>2. \A q \in 1 .. n: p1 + 1 < q /\ q <= p3 => Behind(W[p1 + 1], W[q])
  <2> SUFFICES ASSUME NEW q \in 1 .. n, p1 + 1 < q, q <= p3 PROVE Behind(W[p1 + 1], W[q])
    OBVIOUS
  <2>1. CASE q <= p2
    BY <1>1, <2>1 DEF RunsMerge, InOrder
  <2>2. CASE q = p2 + 1
    BY <2>2
  <2>3. CASE p2 + 1 < q
    <3>1. Behind(W[p2 + 1], W[q])
      BY <1>1, <2>3 DEF RunsMerge, InOrder
    <3>2. W[p1 + 1] \in 1 .. many /\ W[p2 + 1] \in 1 .. many /\ W[q] \in 1 .. many
      BY <1>1
    <3> QED
      BY <3>1, <3>2, BehindIs
  <2> QED
    BY <2>1, <2>2, <2>3
<1>3. ASSUME NEW p \in 1 .. n, NEW q \in 1 .. n, p < q, q <= p1 + 1, Whole(p, q, 2 * r)
      PROVE  Behind(W[p], W[q])
  <2>1. CASE q <= p1
    BY <1>3, <2>1 DEF RunsSorted
  <2>2. CASE q = p1 + 1
    <3>1. d < p
      <4>1. Multiple(d, 2 * r) /\ d \in Nat /\ d < q
        BY <1>1, <2>2 DEF RunsMerge
      <4> QED
        BY <1>3, <4>1 DEF Whole
    <3> QED
      BY <1>3, <2>2, <3>1 DEF RunsMerge
  <2> QED
    BY <1>3, <2>1, <2>2
<1>4. RunsSorted(W, p1 + 1, p3, r)
  <2>1. \A c \in Nat: Multiple(c, 2 * r) \/ (p3 <= c /\ Multiple(c, r)) => Cut(W, c)
    BY DEF RunsSorted
  <2>2. \A p, q \in 1 .. many: p3 < p /\ p < q /\ Whole(p, q, r) => Behind(W[p], W[q])
    BY DEF RunsSorted
  <2>3. \A p, q \in 1 .. many: p < q /\ q <= p1 + 1 /\ Whole(p, q, 2 * r) => Behind(W[p], W[q])
    BY <1>3
  <2> QED
    BY <2>1, <2>2, <2>3, Zenon DEF RunsSorted
<1>5. RunsMerge(W, p1 + 1, p2, p3, d, r)
  <2>1. Multiple(d, 2 * r) /\ p3 <= d + 2 * r /\ p3 \in {d + 2 * r, many}
    BY DEF RunsMerge
  <2>2. d <= p1 + 1
    BY <1>1
  <2>3. InOrder(W, p1 + 1, p2) /\ InOrder(W, p2, p3)
    BY <1>1 DEF RunsMerge, InOrder
  <2>4. \A p, q \in 1 .. many: p1 + 1 < p /\ p <= p2 /\ p2 < q /\ q <= p3 => W[p] < W[q]
    BY <1>1 DEF RunsMerge
  <2>5. \A p, q \in 1 .. many: d < p /\ p <= p1 + 1 /\ p1 + 1 < q /\ q <= p3 => Behind(W[p], W[q])
    <3> SUFFICES ASSUME NEW p \in 1 .. n, NEW q \in 1 .. n, d < p, p <= p1 + 1, p1 + 1 < q, q <= p3
                 PROVE  Behind(W[p], W[q])
      OBVIOUS
    <3>1. CASE p = p1 + 1
      BY <1>2, <3>1
    <3>2. CASE p <= p1
      BY <3>2 DEF RunsMerge
    <3> QED
      BY <3>1, <3>2
  <2> QED
    BY <2>1, <2>2, <2>3, <2>4, <2>5 DEF RunsMerge
<1> QED
  BY <1>4, <1>5

(* What is taken from the second run goes to the end of what has been      *)
(* merged, and the first run moves up by one.                              *)
Turn(lo, hi, p) == IF p = lo + 1 THEN hi + 1 ELSE IF lo + 1 < p /\ p <= hi + 1 THEN p - 1 ELSE p
Turned(W, n, lo, hi) == [p \in 1 .. n |-> W[Turn(lo, hi, p)]]

LEMMA TurnIs ==
  ASSUME NEW n \in Nat, NEW lo \in 0 .. n, NEW hi \in 0 .. n, lo <= hi, hi < n
  PROVE  /\ \A p \in 1 .. n: Turn(lo, hi, p) \in 1 .. n
         /\ \A p, q \in 1 .. n: Turn(lo, hi, p) = Turn(lo, hi, q) => p = q
         /\ \A x \in 1 .. n: \E p \in 1 .. n: Turn(lo, hi, p) = x
         /\ \A p \in 1 .. n: p <= lo \/ p > hi + 1 => Turn(lo, hi, p) = p
         /\ Turn(lo, hi, lo + 1) = hi + 1 /\ lo + 1 \in 1 .. n
         /\ \A p \in 1 .. n: lo + 1 < p /\ p <= hi + 1 => Turn(lo, hi, p) = p - 1
<1>1. ASSUME NEW x \in 1 .. n PROVE \E p \in 1 .. n: Turn(lo, hi, p) = x
  <2>1. CASE x = hi + 1
    <3>1. lo + 1 \in 1 .. n /\ Turn(lo, hi, lo + 1) = x
      BY <2>1 DEF Turn
    <3> QED
      BY <3>1
  <2>2. CASE x <= lo \/ x > hi + 1
    BY <2>2 DEF Turn
  <2>3. CASE lo < x /\ x <= hi
    <3>1. x + 1 \in 1 .. n /\ Turn(lo, hi, x + 1) = x
      BY <2>3 DEF Turn
    <3> QED
      BY <3>1
  <2> QED
    BY <2>1, <2>2, <2>3
<1> QED
  BY <1>1 DEF Turn

LEMMA TurnCut ==
  ASSUME NEW n \in Nat, NEW lo \in 0 .. n, NEW hi \in 0 .. n, lo <= hi, hi < n, NEW c \in Nat, c <= lo \/ hi + 1 <= c,
         NEW p \in 1 .. n, NEW q \in 1 .. n, p <= c, c < q
  PROVE  Turn(lo, hi, p) <= c /\ c < Turn(lo, hi, q)
<1>1. CASE c <= lo
  BY <1>1 DEF Turn
<1>2. CASE hi + 1 <= c
  BY <1>2 DEF Turn
<1> QED
  BY <1>1, <1>2

LEMMA TurnedIs ==
  ASSUME NEW n \in Nat, n = many, NEW lo \in 0 .. n, NEW hi \in 0 .. n, lo <= hi, hi < n,
         NEW W, Permutation(W), NEW V, V = Turned(W, n, lo, hi)
  PROVE  /\ Permutation(V)
         /\ \A p \in 1 .. n: V[p] = W[Turn(lo, hi, p)] /\ (p <= lo \/ p > hi + 1 => V[p] = W[p])
                             /\ (lo + 1 < p /\ p <= hi + 1 => V[p] = W[p - 1])
         /\ V[lo + 1] = W[hi + 1]
<1>1. W \in [1 .. n -> 1 .. n] /\ (\A j, k \in 1 .. n: W[j] = W[k] => j = k)
      /\ \A x \in 1 .. n: \E k \in 1 .. n: W[k] = x
  BY DEF Permutation
<1>2. \A p \in 1 .. n: V[p] = W[Turn(lo, hi, p)] /\ Turn(lo, hi, p) \in 1 .. n
  BY TurnIs DEF Turned
<1>3. V \in [1 .. n -> 1 .. n]
  BY <1>1, <1>2 DEF Turned
<1>4. ASSUME NEW j \in 1 .. n, NEW k \in 1 .. n, V[j] = V[k] PROVE j = k
  <2>1. Turn(lo, hi, j) = Turn(lo, hi, k)
    BY <1>1, <1>2, <1>4, SMTT(30)
  <2> QED
    BY <2>1, TurnIs
<1>5. ASSUME NEW x \in 1 .. n PROVE \E k \in 1 .. n: V[k] = x
  <2>1. PICK j \in 1 .. n: W[j] = x
    BY <1>1
  <2>2. PICK k \in 1 .. n: Turn(lo, hi, k) = j
    BY TurnIs
  <2> QED
    BY <1>2, <2>1, <2>2
<1>6. Permutation(V)
  BY <1>3, <1>4, <1>5 DEF Permutation
<1>7. lo + 1 \in 1 .. n /\ Turn(lo, hi, lo + 1) = hi + 1
  BY TurnIs
<1>8. ASSUME NEW p \in 1 .. n
      PROVE  (p <= lo \/ p > hi + 1 => V[p] = W[p]) /\ (lo + 1 < p /\ p <= hi + 1 => V[p] = W[p - 1])
  <2>1. V[p] = W[Turn(lo, hi, p)]
    BY <1>2
  <2>2. p <= lo \/ p > hi + 1 => Turn(lo, hi, p) = p
    BY TurnIs
  <2>3. lo + 1 < p /\ p <= hi + 1 => Turn(lo, hi, p) = p - 1
    BY TurnIs
  <2> QED
    BY <2>1, <2>2, <2>3
<1> QED
  BY <1>2, <1>6, <1>7, <1>8

LEMMA TakenSecond ==
  ASSUME ListsType, tie = -1, NEW n \in Nat, n = many,
         NEW p1 \in 0 .. n, NEW p2 \in 0 .. n, NEW p3 \in 0 .. n, NEW d \in 0 .. n, NEW r \in Nat \ {0},
         NEW W, Permutation(W), RunsSorted(W, p1, p3, r), RunsMerge(W, p1, p2, p3, d, r),
         p1 < p2, p2 < p3, Behind(W[p2 + 1], W[p1 + 1]),
         NEW V, V = Turned(W, n, p1, p2)
  PROVE  RunsSorted(V, p1 + 1, p3, r) /\ RunsMerge(V, p1 + 1, p2 + 1, p3, d, r)
<1>1. W \in [1 .. n -> 1 .. n] /\ p1 + 1 \in 1 .. n /\ p2 + 1 \in 1 .. n /\ d <= p1 /\ p2 < n /\ p1 <= p2
  <2>1. W \in [1 .. n -> 1 .. n] /\ d <= p1
    BY DEF Permutation, RunsMerge
  <2>2. p1 + 1 \in 1 .. n /\ p2 + 1 \in 1 .. n /\ p2 < n /\ p1 <= p2
    OBVIOUS
  <2> QED
    BY <2>1, <2>2
<1>2. /\ Permutation(V)
      /\ \A p \in 1 .. n: V[p] = W[Turn(p1, p2, p)] /\ (p <= p1 \/ p > p2 + 1 => V[p] = W[p])
                          /\ (p1 + 1 < p /\ p <= p2 + 1 => V[p] = W[p - 1])
      /\ V[p1 + 1] = W[p2 + 1]
  <2> HIDE DEF Permutation
  <2>1. p1 <= p2 /\ p2 < n
    BY <1>1
  <2> QED
    BY <2>1, TurnedIs, SMTT(60)
<1>A. ASSUME NEW p \in 1 .. n, p <= p1 \/ p > p2 + 1 PROVE V[p] = W[p]
  BY <1>2, <1>A
<1>B. ASSUME NEW p \in 1 .. n, p1 + 1 < p, p <= p2 + 1 PROVE p - 1 \in 1 .. n /\ V[p] = W[p - 1]
  <2>1. V[p] = W[p - 1]
    BY <1>2, <1>B
  <2> QED
    BY <2>1, <1>B
<1>3. V[p1 + 1] = W[p2 + 1] /\ \A p \in 1 .. n: p2 < p - 1 => V[p] = W[p]
  <2>1. ASSUME NEW p \in 1 .. n, p2 < p - 1 PROVE V[p] = W[p]
    BY <2>1, <1>A
  <2> QED
    BY <1>2, <2>1
<1>4. \A q \in 1 .. n: p1 + 1 < q /\ q <= p3 => Behind(V[p1 + 1], V[q])
  <2> SUFFICES ASSUME NEW q \in 1 .. n, p1 + 1 < q, q <= p3 PROVE Behind(W[p2 + 1], V[q])
    BY <1>3, <1>A, <1>B
  <2>1. CASE q = p1 + 2
    <3>1. V[q] = W[p1 + 1]
      <4>1. q \in 1 .. n /\ p1 + 1 < q /\ q <= p2 + 1 /\ q - 1 = p1 + 1
        BY <2>1
      <4> QED
        BY <1>B, <4>1
    <3> QED
      BY <3>1
  <2>2. CASE p1 + 2 < q /\ q <= p2 + 1
    <3>1. V[q] = W[q - 1] /\ q - 1 \in 1 .. n /\ p1 < p1 + 1 /\ p1 + 1 < q - 1 /\ q - 1 <= p2
      BY <1>3, <1>A, <1>B, <2>2
    <3>2. Behind(W[p1 + 1], W[q - 1])
      BY <1>1, <3>1 DEF RunsMerge, InOrder
    <3>3. W[p1 + 1] \in 1 .. many /\ W[p2 + 1] \in 1 .. many /\ W[q - 1] \in 1 .. many
      BY <1>1, <3>1
    <3> QED
      BY <3>1, <3>2, <3>3, BehindIs
  <2>3. CASE p2 + 1 < q
    <3>1. V[q] = W[q]
      BY <1>3, <1>A, <1>B, <2>3
    <3> QED
      BY <1>1, <2>3, <3>1 DEF RunsMerge, InOrder
  <2> QED
    BY <1>1, <2>1, <2>2, <2>3
<1>5. ASSUME NEW p \in 1 .. n, NEW q \in 1 .. n, d < p, p <= p1, p1 < q, q <= p3
      PROVE  Behind(V[p], V[q])
  <2>1. V[p] = W[p]
    BY <1>3, <1>A, <1>B, <1>5
  <2>2. \E k \in 1 .. n: p1 < k /\ k <= p3 /\ V[q] = W[k]
    <3>1. CASE q = p1 + 1
      BY <1>1, <1>3, <1>A, <1>B, <3>1
    <3>2. CASE p1 + 1 < q /\ q <= p2 + 1
      <4>1. q - 1 \in 1 .. n /\ p1 < q - 1 /\ q - 1 <= p3 /\ V[q] = W[q - 1]
        BY <1>3, <1>A, <1>B, <1>5, <3>2
      <4> QED
        BY <4>1
    <3>3. CASE p2 + 1 < q
      BY <1>3, <1>A, <1>B, <1>5, <3>3
    <3> QED
      BY <1>1, <1>5, <3>1, <3>2, <3>3
  <2>3. PICK k \in 1 .. n: p1 < k /\ k <= p3 /\ V[q] = W[k]
    BY <2>2
  <2> QED
    BY <1>5, <2>1, <2>3 DEF RunsMerge
<1>6. ASSUME NEW p \in 1 .. n, NEW q \in 1 .. n, p < q, q <= p1 + 1, Whole(p, q, 2 * r)
      PROVE  Behind(V[p], V[q])
  <2>1. CASE q <= p1
    <3>1. Behind(W[p], W[q])
      BY <1>6, <2>1 DEF RunsSorted
    <3> QED
      BY <1>3, <1>A, <1>B, <1>6, <2>1, <3>1
  <2>2. CASE q = p1 + 1
    <3>1. d < p
      <4>1. Multiple(d, 2 * r) /\ d \in Nat /\ d < q
        BY <1>1, <2>2 DEF RunsMerge
      <4> QED
        BY <1>6, <4>1 DEF Whole
    <3>2. p <= p1 /\ p1 < q /\ q <= p3
      BY <1>1, <1>6, <2>2
    <3> QED
      BY <1>5, <3>1, <3>2
  <2> QED
    BY <1>6, <2>1, <2>2
<1>7. RunsSorted(V, p1 + 1, p3, r)
  <2>1. ASSUME NEW c \in Nat, Multiple(c, 2 * r) \/ (p3 <= c /\ Multiple(c, r)) PROVE Cut(V, c)
    <3>1. Cut(W, c)
      BY <2>1 DEF RunsSorted
    <3>2. c <= p1 \/ p2 + 1 <= c
      <4>1. CASE p3 <= c
        BY <1>1, <4>1
      <4>2. CASE Multiple(c, 2 * r)
        <5>1. Multiple(d, 2 * r) /\ p3 <= d + 2 * r /\ 2 * r \in Nat /\ d \in Nat
          BY DEF RunsMerge
        <5>2. d < c => d + 2 * r <= c
          BY <4>2, <5>1, MultipleApart
        <5> QED
          BY <1>1, <5>1, <5>2
      <4> QED
        BY <2>1, <4>1, <4>2
    <3>3. ASSUME NEW p \in 1 .. n, NEW q \in 1 .. n, p <= c, c < q PROVE V[p] < V[q]
      <4>1. V[p] = W[Turn(p1, p2, p)] /\ V[q] = W[Turn(p1, p2, q)]
        BY <1>2
      <4>2. Turn(p1, p2, p) \in 1 .. n /\ Turn(p1, p2, q) \in 1 .. n
        BY <1>1, TurnIs
      <4>3. Turn(p1, p2, p) <= c /\ c < Turn(p1, p2, q)
        BY <1>1, <3>2, <3>3, TurnCut
      <4>4. PICK j \in 1 .. n, k \in 1 .. n: j = Turn(p1, p2, p) /\ k = Turn(p1, p2, q)
        BY <4>2
      <4>5. W[j] < W[k]
        BY <3>1, <4>3, <4>4 DEF Cut
      <4> QED
        BY <4>1, <4>4, <4>5
    <3> QED
      BY <3>3 DEF Cut
  <2>2. \A p, q \in 1 .. many: p3 < p /\ p < q /\ Whole(p, q, r) => Behind(V[p], V[q])
    <3>1. \A p, q \in 1 .. many: p3 < p /\ p < q /\ Whole(p, q, r) => Behind(W[p], W[q])
      BY DEF RunsSorted
    <3>2. ASSUME NEW p \in 1 .. many, p3 < p PROVE V[p] = W[p]
      <4>1. p \in 1 .. n /\ p > p2 + 1
        BY <3>2
      <4> QED
        BY <1>A, <4>1
    <3> QED
      BY <3>1, <3>2
  <2>3. \A p, q \in 1 .. many: p < q /\ q <= p1 + 1 /\ Whole(p, q, 2 * r) => Behind(V[p], V[q])
    BY <1>6
  <2> QED
    BY <2>1, <2>2, <2>3, Zenon DEF RunsSorted
<1>8. RunsMerge(V, p1 + 1, p2 + 1, p3, d, r)
  <2>1. Multiple(d, 2 * r) /\ p3 <= d + 2 * r /\ p3 \in {d + 2 * r, many}
    BY DEF RunsMerge
  <2>2. d <= p1 + 1
    BY <1>1
  <2>3. InOrder(V, p1 + 1, p2 + 1)
    <3> SUFFICES ASSUME NEW p \in 1 .. n, NEW q \in 1 .. n, p1 + 1 < p, p < q, q <= p2 + 1
                 PROVE  Behind(V[p], V[q])
      BY DEF InOrder
    <3>1. p - 1 \in 1 .. n /\ q - 1 \in 1 .. n /\ V[p] = W[p - 1] /\ V[q] = W[q - 1]
      BY <1>B
    <3>2. p1 < p - 1 /\ p - 1 < q - 1 /\ q - 1 <= p2
      OBVIOUS
    <3>3. \A j, k \in 1 .. n: p1 < j /\ j < k /\ k <= p2 => Behind(W[j], W[k])
      BY DEF RunsMerge, InOrder
    <3> QED
      BY <3>1, <3>2, <3>3
  <2>4. InOrder(V, p2 + 1, p3)
    <3> SUFFICES ASSUME NEW p \in 1 .. n, NEW q \in 1 .. n, p2 + 1 < p, p < q, q <= p3
                 PROVE  Behind(V[p], V[q])
      BY DEF InOrder
    <3>1. p > p2 + 1 /\ q > p2 + 1 /\ p2 < p
      OBVIOUS
    <3>2. V[p] = W[p] /\ V[q] = W[q]
      BY <1>A, <3>1
    <3>3. \A j, k \in 1 .. n: p2 < j /\ j < k /\ k <= p3 => Behind(W[j], W[k])
      BY DEF RunsMerge, InOrder
    <3> QED
      BY <3>1, <3>2, <3>3
  <2>5. \A p, q \in 1 .. many: p1 + 1 < p /\ p <= p2 + 1 /\ p2 + 1 < q /\ q <= p3 => V[p] < V[q]
    <3> SUFFICES ASSUME NEW p \in 1 .. n, NEW q \in 1 .. n, p1 + 1 < p, p <= p2 + 1, p2 + 1 < q, q <= p3
                 PROVE  V[p] < V[q]
      OBVIOUS
    <3>1. p1 < p - 1 /\ p - 1 <= p2 /\ p2 < q /\ q > p2 + 1
      OBVIOUS
    <3>2. p - 1 \in 1 .. n /\ V[p] = W[p - 1] /\ V[q] = W[q]
      BY <1>A, <1>B, <3>1
    <3>3. \A j, k \in 1 .. n: p1 < j /\ j <= p2 /\ p2 < k /\ k <= p3 => W[j] < W[k]
      BY DEF RunsMerge
    <3> QED
      BY <3>1, <3>2, <3>3
  <2>6. \A p, q \in 1 .. many: d < p /\ p <= p1 + 1 /\ p1 + 1 < q /\ q <= p3 => Behind(V[p], V[q])
    <3> SUFFICES ASSUME NEW p \in 1 .. n, NEW q \in 1 .. n, d < p, p <= p1 + 1, p1 + 1 < q, q <= p3
                 PROVE  Behind(V[p], V[q])
      OBVIOUS
    <3>1. CASE p = p1 + 1
      BY <1>4, <3>1
    <3>2. CASE p <= p1
      BY <1>5, <3>2
    <3> QED
      BY <3>1, <3>2
  <2> QED
    BY <2>1, <2>2, <2>3, <2>4, <2>5, <2>6 DEF RunsMerge
<1> QED
  BY <1>7, <1>8

-----------------------------------------------------------------------------
(* The links: what a step leaves of them.                                  *)

LEMMA LinkedSame ==
  ASSUME NEW lk, NEW l2, NEW x, NEW n \in Nat, NEW W, NEW V, NEW lo \in 0 .. n, NEW hi \in 0 .. n,
         Linked(lk, x, W, lo, hi), \A k \in lo + 1 .. hi: V[k] = W[k] /\ l2[W[k]] = lk[W[k]]
  PROVE  Linked(l2, x, V, lo, hi)
<1>1. x = IF lo < hi THEN V[lo + 1] ELSE 0
  BY DEF Linked
<1>2. ASSUME NEW k \in lo + 1 .. hi PROVE l2[V[k]] = IF k < hi THEN V[k + 1] ELSE 0
  <2>1. lk[W[k]] = IF k < hi THEN W[k + 1] ELSE 0
    BY DEF Linked
  <2>2. k < hi => k + 1 \in lo + 1 .. hi
    OBVIOUS
  <2> QED
    BY <2>1, <2>2
<1> QED
  BY <1>1, <1>2 DEF Linked

LEMMA LinkedTail ==
  ASSUME NEW lk, NEW x, NEW n \in Nat, NEW W, NEW lo \in 0 .. n, NEW hi \in 0 .. n,
         Linked(lk, x, W, lo, hi), lo < hi
  PROVE  x = W[lo + 1] /\ Linked(lk, lk[x], W, lo + 1, hi)
<1>1. x = W[lo + 1] /\ lk[x] = IF lo + 1 < hi THEN W[lo + 1 + 1] ELSE 0
  BY DEF Linked
<1>2. \A k \in lo + 1 + 1 .. hi: lk[W[k]] = IF k < hi THEN W[k + 1] ELSE 0
  BY DEF Linked
<1> QED
  BY <1>1, <1>2 DEF Linked

LEMMA LinkedFirst ==
  ASSUME NEW lk, NEW x, NEW n \in Nat, NEW W \in [1 .. n -> 1 .. n], NEW lo \in 0 .. n, NEW hi \in 0 .. n,
         Linked(lk, x, W, lo, hi)
  PROVE  (x # 0 <=> lo < hi) /\ (lo < hi => x = W[lo + 1])
BY DEF Linked

LEMMA OrderSame ==
  ASSUME tie' = tie, many' = many, rank' = rank, NEW W, NEW p1, NEW p2, NEW p3, NEW d, NEW r
  PROVE  /\ RunsSorted(W, p1, p3, r) => RunsSorted(W, p1, p3, r)'
         /\ RunsMerge(W, p1, p2, p3, d, r) => RunsMerge(W, p1, p2, p3, d, r)'
         /\ Permutation(W) => Permutation(W)'
<1>1. \A x, y: Behind(x, y)' <=> Behind(x, y)
  BY DEF Behind
<1>2. \A c: Cut(W, c)' <=> Cut(W, c)
  BY DEF Cut
<1>3. InOrder(W, p1, p2) => InOrder(W, p1, p2)'
  BY <1>1 DEF InOrder
<1>4. InOrder(W, p2, p3) => InOrder(W, p2, p3)'
  BY <1>1 DEF InOrder
<1>5. RunsSorted(W, p1, p3, r) => RunsSorted(W, p1, p3, r)'
  BY <1>1, <1>2, Zenon DEF RunsSorted
<1>6. RunsMerge(W, p1, p2, p3, d, r) => RunsMerge(W, p1, p2, p3, d, r)'
  BY <1>1, <1>3, <1>4, Zenon DEF RunsMerge
<1>7. Permutation(W) => Permutation(W)'
  BY DEF Permutation
<1> QED
  BY <1>5, <1>6, <1>7

LEMMA StoreIs ==
  ASSUME ListsType, NEW n \in Nat, n = many, NEW W, Permutation(W), NEW p \in 0 .. n,
         spot = IF p > 0 THEN W[p] ELSE 0, NEW y, Store(spot, y)
  PROVE  /\ first' = IF p > 0 THEN first ELSE y
         /\ \A k \in 1 .. n: k # p => link'[W[k]] = link[W[k]]
         /\ p > 0 => link'[W[p]] = y
<1>1. /\ W \in [1 .. n -> 1 .. n] /\ (\A j, k \in 1 .. n: W[j] = W[k] => j = k)
      /\ link \in [Node -> Node \cup {0}] /\ 1 .. n \subseteq Node
  <2>1. MaxLen \in Nat /\ Node = 1 .. MaxLen + 1 /\ n <= MaxLen
    BY ListsKnown DEF ListsType
  <2>2. 1 .. n \subseteq Node
    BY <2>1
  <2>3. W \in [1 .. n -> 1 .. n] /\ \A j, k \in 1 .. n: W[j] = W[k] => j = k
    BY DEF Permutation
  <2> QED
    BY <2>2, <2>3 DEF ListsType
<1>2. first' = (IF spot = 0 THEN y ELSE first) /\ link' = (IF spot = 0 THEN link ELSE [link EXCEPT ![spot] = y])
  BY DEF Store
<1>3. CASE p = 0
  BY <1>2, <1>3
<1>4. CASE p > 0
  <2>1. spot = W[p] /\ spot \in 1 .. n /\ spot # 0 /\ spot \in Node
    BY <1>1, <1>4
  <2>2. first' = first /\ link' = [link EXCEPT ![spot] = y]
    BY <1>2, <2>1
  <2>3. \A k \in 1 .. n: k # p => W[k] \in Node /\ W[k] # spot
    BY <1>1, <1>4, <2>1, SMTT(30)
  <2> QED
    BY <1>1, <1>4, <2>1, <2>2, <2>3
<1> QED
  BY <1>3, <1>4

LEMMA SortsIs ==
  ASSUME ListsType, NEW n \in Nat, n = many,
         NEW p1 \in Nat, NEW p2 \in Nat, NEW p3 \in Nat, NEW d \in Nat, NEW r \in Nat \ {0},
         NEW W, Sorts(W, p1, p2, p3, d, r)
  PROVE  /\ r = run /\ p1 \in 0 .. n /\ p2 \in 0 .. n /\ p3 \in 0 .. n /\ p1 <= p2 /\ p2 <= p3
         /\ Permutation(W) /\ W \in [1 .. n -> 1 .. n]
<1>1. r = run /\ p1 <= p2 /\ p2 <= p3 /\ p3 <= n /\ Permutation(W)
  BY DEF Sorts
<1>2. p1 \in 0 .. n /\ p2 \in 0 .. n /\ p3 \in 0 .. n /\ n \in 0 .. n
  BY <1>1
<1>3. W \in [1 .. n -> 1 .. n]
  BY <1>1 DEF Permutation
<1> QED
  BY <1>1, <1>2, <1>3

LEMMA SortsHang ==
  ASSUME ListsType, NEW n \in Nat, n = many,
         NEW p1 \in Nat, NEW p2 \in Nat, NEW p3 \in Nat, NEW d \in Nat, NEW r \in Nat \ {0},
         NEW W, Sorts(W, p1, p2, p3, d, r)
  PROVE  /\ first = (IF p1 > 0 THEN W[1] ELSE 0)
         /\ \A k \in 1 .. p1: k < p1 => link[W[k]] = W[k + 1]
         /\ Linked(link, na, W, p1, p2) /\ Linked(link, nb, W, p2, p3) /\ Linked(link, nleft, W, p3, n)
BY DEF Sorts, Hangs

LEMMA SortsSpot ==
  ASSUME ListsType, NEW n \in Nat, n = many,
         NEW p1 \in Nat, NEW p2 \in Nat, NEW p3 \in Nat, NEW d \in Nat, NEW r \in Nat \ {0},
         NEW W, Sorts(W, p1, p2, p3, d, r), doing = "merge" \/ nleft # 0
  PROVE  spot = IF p1 > 0 THEN W[p1] ELSE 0
BY DEF Sorts, Hangs

LEMMA SortsEnds ==
  ASSUME ListsType, NEW n \in Nat, n = many,
         NEW p1 \in Nat, NEW p2 \in Nat, NEW p3 \in Nat, NEW d \in Nat, NEW r \in Nat \ {0},
         NEW W, Sorts(W, p1, p2, p3, d, r)
  PROVE  /\ (na # 0 <=> p1 < p2) /\ (na # 0 => na = W[p1 + 1])
         /\ (nb # 0 <=> p2 < p3) /\ (nb # 0 => nb = W[p2 + 1])
         /\ (nleft # 0 <=> p3 < n) /\ (nleft # 0 => nleft = W[p3 + 1])
<1>1. p1 \in 0 .. n /\ p2 \in 0 .. n /\ p3 \in 0 .. n /\ n \in 0 .. n /\ W \in [1 .. n -> 1 .. n]
  BY SortsIs, SMTT(30)
<1>2. (na # 0 <=> p1 < p2) /\ (na # 0 => na = W[p1 + 1])
  <2>1. Linked(link, na, W, p1, p2)
    BY SortsHang, SMTT(30)
  <2> QED
    BY <1>1, <2>1, LinkedFirst
<1>3. (nb # 0 <=> p2 < p3) /\ (nb # 0 => nb = W[p2 + 1])
  <2>1. Linked(link, nb, W, p2, p3)
    BY SortsHang, SMTT(30)
  <2> QED
    BY <1>1, <2>1, LinkedFirst, SMTT(30)
<1>4. (nleft # 0 <=> p3 < n) /\ (nleft # 0 => nleft = W[p3 + 1])
  <2>1. Linked(link, nleft, W, p3, n)
    BY SortsHang, SMTT(30)
  <2> QED
    BY <1>1, <2>1, LinkedFirst, SMTT(30)
<1> QED
  BY <1>2, <1>3, <1>4

LEMMA SortsMerge ==
  ASSUME ListsType, NEW n \in Nat, n = many,
         NEW p1 \in Nat, NEW p2 \in Nat, NEW p3 \in Nat, NEW d \in Nat, NEW r \in Nat \ {0},
         NEW W, Sorts(W, p1, p2, p3, d, r), doing = "merge"
  PROVE  r <= n /\ RunsSorted(W, p1, p3, r) /\ RunsMerge(W, p1, p2, p3, d, r)
BY DEF Sorts

LEMMA SortsPass ==
  ASSUME ListsType, NEW n \in Nat, n = many,
         NEW p1 \in Nat, NEW p2 \in Nat, NEW p3 \in Nat, NEW d \in Nat, NEW r \in Nat \ {0},
         NEW W, Sorts(W, p1, p2, p3, d, r), doing = "pass"
  PROVE  /\ RunsSorted(W, p1, p3, r) /\ Passes(p3, r) /\ p1 = p3 /\ p2 = p3 /\ (p1 > 0 => link[W[p1]] = 0)
         /\ (again => r <= n)
BY DEF Sorts, Hangs

LEMMA OfNodes ==
  ASSUME ListsType, NEW n \in Nat, n = many, NEW W \in [1 .. n -> 1 .. n]
  PROVE  n \in 0 .. MaxLen + 1 /\ n <= MaxLen /\ W \in [1 .. n -> Node] /\ \A k \in 1 .. n: W[k] \in Node
<1>1. MaxLen \in Nat /\ Node = 1 .. MaxLen + 1 /\ n <= MaxLen
  BY ListsKnown DEF ListsType
<1>2. n \in 0 .. MaxLen + 1 /\ \A k \in 1 .. n: k \in Node
  BY <1>1
<1>3. \A k \in 1 .. n: W[k] \in Node
  BY <1>2
<1> QED
  BY <1>1, <1>2, <1>3

-----------------------------------------------------------------------------
(* Merging.                                                                *)

LEMMA MergeFirst ==
  ASSUME ListsType, tie = -1, doing = "merge", NEW n \in Nat, n = many,
         NEW p1 \in Nat, NEW p2 \in Nat, NEW p3 \in Nat, NEW d \in Nat, NEW r \in Nat \ {0},
         NEW W, Sorts(W, p1, p2, p3, d, r), na # 0, nb # 0, TakesFirst, Merge
  PROVE  Sorts(W, p1 + 1, p2, p3, d, r)'
<1>1. /\ r = run /\ r <= n /\ p1 \in 0 .. n /\ p2 \in 0 .. n /\ p3 \in 0 .. n /\ p1 <= p2 /\ p2 <= p3
      /\ Permutation(W) /\ RunsSorted(W, p1, p3, r) /\ RunsMerge(W, p1, p2, p3, d, r) /\ W \in [1 .. n -> 1 .. n]
  <2>1. r <= n /\ RunsSorted(W, p1, p3, r) /\ RunsMerge(W, p1, p2, p3, d, r)
    BY SortsMerge, SMTT(30)
  <2>2. r = run /\ p1 \in 0 .. n /\ p2 \in 0 .. n /\ p3 \in 0 .. n /\ p1 <= p2 /\ p2 <= p3
        /\ Permutation(W) /\ W \in [1 .. n -> 1 .. n]
    BY SortsIs, SMTT(60)
  <2> QED
    BY <2>1, <2>2
<1>2. /\ first = (IF p1 > 0 THEN W[1] ELSE 0)
      /\ \A k \in 1 .. p1: k < p1 => link[W[k]] = W[k + 1]
  BY SortsHang, SMTT(30)
<1>S. spot = IF p1 > 0 THEN W[p1] ELSE 0
  BY SortsSpot, SMTT(30)
<1>3. Linked(link, na, W, p1, p2) /\ Linked(link, nb, W, p2, p3) /\ Linked(link, nleft, W, p3, n)
  BY SortsHang, SMTT(30)
<1>4. /\ Store(spot, na) /\ spot' = na /\ na' = link[na] /\ nb' = nb
      /\ UNCHANGED <<tie, many, rank, doing, gone, member, nleft, run, again>>
  BY DEF Merge
<1>5. p1 < p2 /\ na = W[p1 + 1] /\ p2 < p3 /\ nb = W[p2 + 1]
  BY SortsEnds
<1>6. /\ first' = (IF p1 > 0 THEN first ELSE na)
      /\ \A k \in 1 .. n: k # p1 => link'[W[k]] = link[W[k]]
      /\ p1 > 0 => link'[W[p1]] = na
  <2>2. Store(spot, na) /\ Permutation(W) /\ p1 \in 0 .. n
    BY <1>1, <1>4
  <2> QED
    BY <1>S, <2>2, StoreIs
<1>7. d \in 0 .. n
  BY <1>1 DEF RunsMerge
<1>8. W[p1 + 1] \in 1 .. n /\ W[p2 + 1] \in 1 .. n /\ W[p1 + 1] < W[p2 + 1]
  <2>1. p1 + 1 \in 1 .. n /\ p2 + 1 \in 1 .. n
    BY <1>1, <1>5
  <2>2. \A p, q \in 1 .. n: p1 < p /\ p <= p2 /\ p2 < q /\ q <= p3 => W[p] < W[q]
    BY <1>1 DEF RunsMerge
  <2>3. p1 < p1 + 1 /\ p1 + 1 <= p2 /\ p2 < p2 + 1 /\ p2 + 1 <= p3
    BY <1>1, <1>5
  <2> QED
    BY <1>1, <2>1, <2>2, <2>3
<1>9. Behind(W[p1 + 1], W[p2 + 1])
  <2>1. Comparator(W[p1 + 1], W[p2 + 1]) < 0
    BY <1>5 DEF TakesFirst
  <2> QED
    BY <1>8, <2>1, BehindIs
<1>10. RunsSorted(W, p1 + 1, p3, r) /\ RunsMerge(W, p1 + 1, p2, p3, d, r)
  BY <1>1, <1>5, <1>7, <1>9, TakenFirst
<1>11. RunsSorted(W, p1 + 1, p3, r)' /\ RunsMerge(W, p1 + 1, p2, p3, d, r)' /\ Permutation(W)'
  BY <1>1, <1>4, <1>10, OrderSame
<1>12. Linked(link', na', W, p1 + 1, p2)
  <2>1. Linked(link, link[na], W, p1 + 1, p2)
    BY <1>1, <1>3, <1>5, LinkedTail
  <2>2. p1 + 1 \in 0 .. n /\ p2 \in 0 .. n
    BY <1>1, <1>5
  <2>3. ASSUME NEW k \in p1 + 1 + 1 .. p2 PROVE link'[W[k]] = link[W[k]]
    <3>1. k \in 1 .. n /\ k # p1
      BY <1>1, <2>3
    <3> QED
      BY <1>6, <3>1
  <2> QED
    BY <1>4, <2>1, <2>2, <2>3, LinkedSame
<1>13. Linked(link', nb', W, p2, p3)
  <2>1. ASSUME NEW k \in p2 + 1 .. p3 PROVE link'[W[k]] = link[W[k]]
    <3>1. k \in 1 .. n /\ k # p1
      BY <1>1, <2>1
    <3> QED
      BY <1>6, <3>1
  <2> QED
    BY <1>1, <1>3, <1>4, <2>1, LinkedSame
<1>14. Linked(link', nleft', W, p3, n)
  <2>1. ASSUME NEW k \in p3 + 1 .. n PROVE link'[W[k]] = link[W[k]]
    <3>1. k \in 1 .. n /\ k # p1
      BY <1>1, <2>1
    <3> QED
      BY <1>6, <3>1
  <2>2. n \in 0 .. n
    OBVIOUS
  <2> QED
    BY <1>1, <1>3, <1>4, <2>1, <2>2, LinkedSame
<1>15. first' = W[1]
  BY <1>1, <1>2, <1>5, <1>6
<1>16. ASSUME NEW k \in 1 .. p1 + 1, k < p1 + 1 PROVE link'[W[k]] = W[k + 1]
  <2>1. CASE k = p1
    BY <1>5, <1>6, <2>1
  <2>2. CASE k < p1
    <3>1. k \in 1 .. p1 /\ k \in 1 .. n /\ k # p1
      BY <1>1, <2>2
    <3> QED
      BY <1>2, <1>6, <2>2, <3>1
  <2> QED
    BY <1>16, <2>1, <2>2
<1>17. link'[W[p1 + 1]] = na'
  <2>1. p1 + 1 \in 1 .. n /\ p1 + 1 # p1
    BY <1>1, <1>5
  <2> QED
    BY <1>4, <1>5, <1>6, <2>1
<1>18. Hangs(W, p1 + 1, p2, p3)'
  <2>1. p1 + 1 > 0 /\ spot' = W[p1 + 1] /\ doing' = "merge"
    BY <1>4, <1>5
  <2> QED
    BY <1>4, <1>12, <1>13, <1>14, <1>15, <1>16, <1>17, <2>1 DEF Hangs
<1>19. p1 + 1 <= p2 /\ p2 <= p3 /\ p3 <= many' /\ doing' = "merge" /\ run' = r /\ many' = n
  BY <1>1, <1>4, <1>5
<1> QED
  BY <1>1, <1>11, <1>18, <1>19 DEF Sorts

LEMMA MergeSecond ==
  ASSUME ListsType, tie = -1, doing = "merge", NEW n \in Nat, n = many,
         NEW p1 \in Nat, NEW p2 \in Nat, NEW p3 \in Nat, NEW d \in Nat, NEW r \in Nat \ {0},
         NEW W, Sorts(W, p1, p2, p3, d, r), na # 0, nb # 0, ~TakesFirst, Merge,
         NEW V, V = Turned(W, n, p1, p2)
  PROVE  Sorts(V, p1 + 1, p2 + 1, p3, d, r)'
<1>1. /\ r = run /\ r <= n /\ p1 \in 0 .. n /\ p2 \in 0 .. n /\ p3 \in 0 .. n /\ p1 <= p2 /\ p2 <= p3
      /\ Permutation(W) /\ RunsSorted(W, p1, p3, r) /\ RunsMerge(W, p1, p2, p3, d, r) /\ W \in [1 .. n -> 1 .. n]
  <2>1. r <= n /\ RunsSorted(W, p1, p3, r) /\ RunsMerge(W, p1, p2, p3, d, r)
    BY SortsMerge, SMTT(30)
  <2>2. r = run /\ p1 \in 0 .. n /\ p2 \in 0 .. n /\ p3 \in 0 .. n /\ p1 <= p2 /\ p2 <= p3
        /\ Permutation(W) /\ W \in [1 .. n -> 1 .. n]
    BY SortsIs, SMTT(60)
  <2> QED
    BY <2>1, <2>2
<1>2. /\ first = (IF p1 > 0 THEN W[1] ELSE 0)
      /\ \A k \in 1 .. p1: k < p1 => link[W[k]] = W[k + 1]
  BY SortsHang, SMTT(30)
<1>S. spot = IF p1 > 0 THEN W[p1] ELSE 0
  BY SortsSpot, SMTT(30)
<1>3. Linked(link, na, W, p1, p2) /\ Linked(link, nb, W, p2, p3) /\ Linked(link, nleft, W, p3, n)
  BY SortsHang, SMTT(30)
<1>4. /\ Store(spot, nb) /\ spot' = nb /\ nb' = link[nb] /\ na' = na
      /\ UNCHANGED <<tie, many, rank, doing, gone, member, nleft, run, again>>
  BY DEF Merge
<1>5. p1 < p2 /\ na = W[p1 + 1] /\ p2 < p3 /\ nb = W[p2 + 1]
  BY SortsEnds
<1>6. /\ first' = (IF p1 > 0 THEN first ELSE nb)
      /\ \A k \in 1 .. n: k # p1 => link'[W[k]] = link[W[k]]
      /\ p1 > 0 => link'[W[p1]] = nb
  <2>2. Store(spot, nb) /\ Permutation(W) /\ p1 \in 0 .. n
    BY <1>1, <1>4
  <2> QED
    BY <1>S, <2>2, StoreIs
<1>7. d \in 0 .. n
  BY <1>1 DEF RunsMerge
<1>8. W[p1 + 1] \in 1 .. n /\ W[p2 + 1] \in 1 .. n /\ p1 + 1 \in 1 .. n /\ p2 + 1 \in 1 .. n
  <2>1. p1 + 1 \in 1 .. n /\ p2 + 1 \in 1 .. n
    BY <1>1, <1>5
  <2> QED
    BY <1>1, <2>1
<1>9. Behind(W[p2 + 1], W[p1 + 1])
  <2>1. ~(Comparator(W[p1 + 1], W[p2 + 1]) < 0)
    BY <1>5 DEF TakesFirst
  <2> QED
    BY <1>8, <2>1, BehindIs
<1>10. RunsSorted(V, p1 + 1, p3, r) /\ RunsMerge(V, p1 + 1, p2 + 1, p3, d, r)
  BY <1>1, <1>5, <1>7, <1>9, TakenSecond
<1>V. /\ Permutation(V) /\ V[p1 + 1] = W[p2 + 1]
      /\ \A p \in 1 .. n: V[p] = W[Turn(p1, p2, p)] /\ (p <= p1 \/ p > p2 + 1 => V[p] = W[p])
                          /\ (p1 + 1 < p /\ p <= p2 + 1 => V[p] = W[p - 1])
  <2>1. p2 < n /\ p1 <= p2
    BY <1>1, <1>5
  <2>2. Permutation(W) /\ p1 \in 0 .. n /\ p2 \in 0 .. n
    BY <1>1
  <2> QED
    BY <2>1, <2>2, TurnedIs, SMTT(60)
<1>11. RunsSorted(V, p1 + 1, p3, r)' /\ RunsMerge(V, p1 + 1, p2 + 1, p3, d, r)' /\ Permutation(V)'
  BY <1>V, <1>4, <1>10, OrderSame
<1>12. Linked(link', na', V, p1 + 1, p2 + 1)
  <2>1. na' = IF p1 + 1 < p2 + 1 THEN V[p1 + 1 + 1] ELSE 0
    <3>1. p1 + 1 + 1 \in 1 .. n /\ p1 + 1 < p1 + 1 + 1 /\ p1 + 1 + 1 <= p2 + 1 /\ p1 + 1 + 1 - 1 = p1 + 1
      BY <1>1, <1>5
    <3>2. V[p1 + 1 + 1] = W[p1 + 1]
      BY <1>V, <3>1
    <3> QED
      BY <1>1, <1>4, <1>5, <3>2
  <2>2. ASSUME NEW k \in p1 + 1 + 1 .. p2 + 1 PROVE link'[V[k]] = IF k < p2 + 1 THEN V[k + 1] ELSE 0
    <3>1. k \in 1 .. n /\ p1 + 1 < k /\ k <= p2 + 1 /\ k - 1 \in p1 + 1 .. p2 /\ k - 1 \in 1 .. n /\ k - 1 # p1
      BY <1>1, <1>5, <2>2
    <3>2. V[k] = W[k - 1] /\ link'[W[k - 1]] = link[W[k - 1]]
      BY <1>V, <1>6, <3>1
    <3>3. link[W[k - 1]] = IF k - 1 < p2 THEN W[k - 1 + 1] ELSE 0
      BY <1>3, <3>1 DEF Linked
    <3>4. k < p2 + 1 => V[k + 1] = W[k]
      <4>1. k < p2 + 1 => k + 1 \in 1 .. n /\ p1 + 1 < k + 1 /\ k + 1 <= p2 + 1 /\ k + 1 - 1 = k
        BY <1>1, <1>5, <3>1
      <4> QED
        BY <1>V, <4>1
    <3>5. (k - 1 < p2 <=> k < p2 + 1) /\ k - 1 + 1 = k
      BY <1>1, <3>1
    <3> QED
      BY <3>2, <3>3, <3>4, <3>5
  <2> QED
    BY <2>1, <2>2 DEF Linked
<1>13. Linked(link', nb', V, p2 + 1, p3)
  <2>1. Linked(link, link[nb], W, p2 + 1, p3)
    BY <1>1, <1>3, <1>5, LinkedTail
  <2>2. p2 + 1 \in 0 .. n /\ p3 \in 0 .. n
    BY <1>1, <1>5
  <2>3. ASSUME NEW k \in p2 + 1 + 1 .. p3 PROVE V[k] = W[k] /\ link'[W[k]] = link[W[k]]
    <3>1. k \in 1 .. n /\ k # p1 /\ k > p2 + 1
      BY <1>1, <2>3
    <3> QED
      BY <1>6, <1>V, <3>1
  <2> QED
    BY <1>4, <2>1, <2>2, <2>3, LinkedSame, ZenonT(30)
<1>14. Linked(link', nleft', V, p3, n)
  <2>1. ASSUME NEW k \in p3 + 1 .. n PROVE V[k] = W[k] /\ link'[W[k]] = link[W[k]]
    <3>1. k \in 1 .. n /\ k # p1 /\ k > p2 + 1
      BY <1>1, <1>5, <2>1
    <3> QED
      BY <1>6, <1>V, <3>1
  <2>2. n \in 0 .. n
    OBVIOUS
  <2> QED
    BY <1>1, <1>3, <1>4, <2>1, <2>2, LinkedSame
<1>15. first' = V[1]
  <2>1. CASE p1 = 0
    <3>1. V[1] = W[p2 + 1]
      BY <1>V, <2>1
    <3> QED
      BY <1>5, <1>6, <2>1, <3>1
  <2>2. CASE p1 > 0
    <3>1. 1 \in 1 .. n /\ 1 <= p1
      BY <1>1, <2>2
    <3>2. V[1] = W[1]
      BY <1>V, <3>1
    <3> QED
      BY <1>2, <1>6, <2>2, <3>2
  <2> QED
    BY <1>1, <2>1, <2>2
<1>16. ASSUME NEW k \in 1 .. p1 + 1, k < p1 + 1 PROVE link'[V[k]] = V[k + 1]
  <2>0. k \in 1 .. n /\ k <= p1 /\ p1 > 0
    BY <1>1, <1>16
  <2>V. V[k] = W[k]
    BY <1>V, <2>0
  <2>1. CASE k = p1
    BY <1>5, <1>6, <1>V, <2>0, <2>V, <2>1
  <2>2. CASE k < p1
    <3>1. k \in 1 .. p1 /\ k # p1 /\ k + 1 \in 1 .. n /\ k + 1 <= p1
      BY <1>1, <2>0, <2>2
    <3>2. V[k + 1] = W[k + 1]
      BY <1>V, <3>1
    <3> QED
      BY <1>2, <1>6, <2>0, <2>V, <2>2, <3>1, <3>2
  <2> QED
    BY <2>0, <2>1, <2>2
<1>17. link'[V[p1 + 1]] = nb'
  <2>1. p2 + 1 \in 1 .. n /\ p2 + 1 # p1
    BY <1>1, <1>5
  <2> QED
    BY <1>4, <1>5, <1>6, <1>V, <2>1
<1>18. Hangs(V, p1 + 1, p2 + 1, p3)'
  <2>1. p1 + 1 > 0 /\ spot' = V[p1 + 1] /\ doing' = "merge"
    BY <1>4, <1>5, <1>V
  <2> QED
    BY <1>4, <1>12, <1>13, <1>14, <1>15, <1>16, <1>17, <2>1 DEF Hangs
<1>19. p1 + 1 <= p2 + 1 /\ p2 + 1 <= p3 /\ p3 <= many' /\ doing' = "merge" /\ run' = r /\ many' = n
  BY <1>1, <1>4, <1>5
<1> QED
  BY <1>1, <1>11, <1>18, <1>19 DEF Sorts

LEMMA RestMerged ==
  ASSUME ListsType, NEW n \in Nat, n = many, NEW W, NEW r \in Nat \ {0},
         NEW p1 \in 0 .. n, NEW p2 \in 0 .. n, NEW p3 \in 0 .. n, NEW d \in 0 .. n, p1 <= p2, p2 <= p3,
         RunsSorted(W, p1, p3, r), RunsMerge(W, p1, p2, p3, d, r), p1 = p2 \/ p2 = p3
  PROVE  RunsSorted(W, p3, p3, r) /\ (Multiple(p3, 2 * r) \/ p3 = many)
<1>1. ASSUME NEW p \in 1 .. n, NEW q \in 1 .. n, p < q, q <= p3, Whole(p, q, 2 * r)
      PROVE  Behind(W[p], W[q])
  <2>1. CASE q <= p1
    BY <1>1, <2>1 DEF RunsSorted
  <2>2. CASE p <= p1 /\ p1 < q
    <3>1. d < p
      <4>1. Multiple(d, 2 * r) /\ d \in Nat /\ d < q
        BY <2>2 DEF RunsMerge
      <4> QED
        BY <1>1, <4>1 DEF Whole
    <3> QED
      BY <1>1, <2>2, <3>1 DEF RunsMerge
  <2>3. CASE p1 < p
    <3>1. InOrder(W, p1, p2) /\ InOrder(W, p2, p3)
      BY DEF RunsMerge
    <3> QED
      BY <1>1, <2>3, <3>1 DEF InOrder
  <2> QED
    BY <2>1, <2>2, <2>3
<1>2. \A c \in Nat: Multiple(c, 2 * r) \/ (p3 <= c /\ Multiple(c, r)) => Cut(W, c)
  BY DEF RunsSorted
<1>3. \A p, q \in 1 .. many: p3 < p /\ p < q /\ Whole(p, q, r) => Behind(W[p], W[q])
  BY DEF RunsSorted
<1>4. \A p, q \in 1 .. many: p < q /\ q <= p3 /\ Whole(p, q, 2 * r) => Behind(W[p], W[q])
  BY <1>1
<1>5. RunsSorted(W, p3, p3, r)
  BY <1>2, <1>3, <1>4, Zenon DEF RunsSorted
<1>6. Multiple(p3, 2 * r) \/ p3 = many
  <2>1. Multiple(d, 2 * r) /\ p3 \in {d + 2 * r, many} /\ 2 * r \in Nat
    BY DEF RunsMerge
  <2>2. Multiple(d + 2 * r, 2 * r)
    BY <2>1, MultipleNext
  <2> QED
    BY <2>1, <2>2
<1> QED
  BY <1>5, <1>6

LEMMA MergeRest ==
  ASSUME ListsType, tie = -1, doing = "merge", NEW n \in Nat, n = many,
         NEW p1 \in Nat, NEW p2 \in Nat, NEW p3 \in Nat, NEW d \in Nat, NEW r \in Nat \ {0},
         NEW W, Sorts(W, p1, p2, p3, d, r), MergeEnds
  PROVE  Sorts(W, p3, p3, p3, d, r)' /\ spot' \in Node \cup {0}
<1>1. /\ r = run /\ r <= n /\ p1 \in 0 .. n /\ p2 \in 0 .. n /\ p3 \in 0 .. n /\ p1 <= p2 /\ p2 <= p3
      /\ Permutation(W) /\ RunsSorted(W, p1, p3, r) /\ RunsMerge(W, p1, p2, p3, d, r) /\ W \in [1 .. n -> 1 .. n]
  <2>1. r <= n /\ RunsSorted(W, p1, p3, r) /\ RunsMerge(W, p1, p2, p3, d, r)
    BY SortsMerge, SMTT(30)
  <2>2. r = run /\ p1 \in 0 .. n /\ p2 \in 0 .. n /\ p3 \in 0 .. n /\ p1 <= p2 /\ p2 <= p3
        /\ Permutation(W) /\ W \in [1 .. n -> 1 .. n]
    BY SortsIs, SMTT(30)
  <2> QED
    BY <2>1, <2>2
<1>2. /\ first = (IF p1 > 0 THEN W[1] ELSE 0)
      /\ \A k \in 1 .. p1: k < p1 => link[W[k]] = W[k + 1]
  BY SortsHang, SMTT(30)
<1>S. spot = IF p1 > 0 THEN W[p1] ELSE 0
  BY SortsSpot, SMTT(30)
<1>3. Linked(link, na, W, p1, p2) /\ Linked(link, nb, W, p2, p3) /\ Linked(link, nleft, W, p3, n)
  BY SortsHang, SMTT(30)
<1>4. /\ na = 0 \/ nb = 0
      /\ na' = 0 /\ nb' = 0 /\ again' = TRUE /\ doing' = "pass"
      /\ UNCHANGED <<tie, many, rank, gone, member, nleft, run>>
  BY DEF MergeEnds
<1>5. (na # 0 <=> p1 < p2) /\ (nb # 0 <=> p2 < p3)
  BY SortsEnds
<1>6. PICK rest: rest = IF na # 0 THEN na ELSE nb
  OBVIOUS
<1>7. Linked(link, rest, W, p1, p3) /\ (p1 = p2 \/ p2 = p3)
  <2>1. CASE na # 0
    <3>1. rest = na /\ p2 = p3
      BY <1>1, <1>4, <1>5, <1>6, <2>1
    <3> QED
      BY <1>3, <3>1
  <2>2. CASE na = 0
    <3>1. rest = nb /\ p1 = p2
      BY <1>1, <1>4, <1>5, <1>6, <2>2
    <3> QED
      BY <1>3, <3>1
  <2> QED
    BY <2>1, <2>2
<1>8. (rest # 0 <=> p1 < p3) /\ (p1 < p3 => rest = W[p1 + 1])
  BY <1>1, <1>7, LinkedFirst
<1>N. n \in 0 .. MaxLen + 1 /\ W \in [1 .. n -> Node] /\ \A k \in 1 .. n: W[k] \in Node
  <2>1. W \in [1 .. n -> 1 .. n]
    BY <1>1
  <2> QED
    BY <2>1, OfNodes
<1>P. p1 \in 0 .. n /\ p3 \in p1 .. n
  BY <1>1
<1>9. /\ Store(spot, rest)
      /\ spot' = IF rest = 0 THEN spot ELSE Chain(rest)[Len(Chain(rest))]
  BY <1>6 DEF MergeEnds
<1>10. /\ first' = (IF p1 > 0 THEN first ELSE rest)
       /\ \A k \in 1 .. n: k # p1 => link'[W[k]] = link[W[k]]
       /\ p1 > 0 => link'[W[p1]] = rest
  <2>2. Store(spot, rest) /\ Permutation(W) /\ p1 \in 0 .. n
    BY <1>1, <1>9
  <2> QED
    BY <1>S, <2>2, StoreIs
<1>11. spot' = IF p3 > 0 THEN W[p3] ELSE 0
  <2>1. CASE rest = 0
    <3>1. p1 = p3
      BY <1>1, <1>8, <2>1
    <3> QED
      BY <1>9, <1>S, <2>1, <3>1
  <2>2. CASE rest # 0
    <3>1. p1 < p3
      BY <1>8, <2>2
    <3>2. Chain(rest) = Piece(W, p1, p3)
      <4>1. Linked(link, rest, W, p1, p3)
        BY <1>7
      <4> QED
        BY <4>1, <1>N, <1>P, PieceChain
    <3>3. Len(Piece(W, p1, p3)) = p3 - p1 /\ \A k \in 1 .. p3 - p1: Piece(W, p1, p3)[k] = W[p1 + k]
      <4>2. Len(Piece(W, p1, p3)) = p3 - p1
        BY <1>N, <1>P, PieceIs
      <4>3. \A k \in 1 .. p3 - p1: Piece(W, p1, p3)[k] = W[p1 + k]
        BY DEF Piece
      <4> QED
        BY <4>2, <4>3
    <3>4. p3 - p1 \in 1 .. p3 - p1 /\ p1 + (p3 - p1) = p3 /\ p3 > 0
      BY <1>1, <3>1
    <3> QED
      BY <1>9, <2>2, <3>2, <3>3, <3>4
  <2> QED
    BY <2>1, <2>2
<1>12. d \in 0 .. n
  BY <1>1 DEF RunsMerge
<1>13. RunsSorted(W, p3, p3, r) /\ (Multiple(p3, 2 * r) \/ p3 = many)
  BY <1>1, <1>7, <1>12, RestMerged, SMTT(30)
<1>14. RunsSorted(W, p3, p3, r)' /\ Permutation(W)'
  BY <1>1, <1>4, <1>13, OrderSame
<1>15. first' = IF p3 > 0 THEN W[1] ELSE 0
  BY <1>1, <1>2, <1>8, <1>10, SMTT(30)
<1>16. ASSUME NEW k \in 1 .. p3, k < p3 PROVE link'[W[k]] = W[k + 1]
  <2>1. k \in 1 .. n
    BY <1>1, <1>16
  <2>2. CASE k < p1
    BY <1>2, <1>10, <2>1, <2>2
  <2>3. CASE k = p1
    BY <1>8, <1>10, <1>16, <2>3
  <2>4. CASE p1 < k
    <3>1. k \in p1 + 1 .. p3 /\ k # p1
      BY <1>1, <2>4
    <3>2. link[W[k]] = W[k + 1]
      BY <1>7, <1>16, <3>1 DEF Linked
    <3> QED
      BY <1>10, <2>1, <3>1, <3>2
  <2> QED
    BY <1>1, <2>2, <2>3, <2>4
<1>17. p3 > 0 => link'[W[p3]] = 0
  <2>1. CASE p1 = p3
    <3>1. rest = 0
      BY <1>1, <1>8, <2>1
    <3> QED
      BY <1>10, <2>1, <3>1
  <2>2. CASE p1 < p3
    <3>1. p3 \in p1 + 1 .. p3 /\ p3 \in 1 .. n /\ p3 # p1 /\ ~(p3 < p3)
      BY <1>1, <2>2
    <3>2. link[W[p3]] = 0
      BY <1>7, <3>1 DEF Linked
    <3> QED
      BY <1>10, <3>1, <3>2
  <2> QED
    BY <1>1, <2>1, <2>2
<1>18. Linked(link', nleft', W, p3, n)
  <2>1. ASSUME NEW k \in p3 + 1 .. n PROVE link'[W[k]] = link[W[k]]
    <3>1. k \in 1 .. n /\ k # p1
      BY <1>1, <2>1
    <3> QED
      BY <1>10, <3>1
  <2>2. n \in 0 .. n
    OBVIOUS
  <2> QED
    BY <1>1, <1>3, <1>4, <2>1, <2>2, LinkedSame
<1>19. Linked(link', na', W, p3, p3) /\ Linked(link', nb', W, p3, p3)
  BY <1>1, <1>4 DEF Linked
<1>20. Hangs(W, p3, p3, p3)'
  BY <1>4, <1>11, <1>15, <1>16, <1>17, <1>18, <1>19 DEF Hangs
<1>21. Passes(p3, r)'
  BY <1>4, <1>13 DEF Passes
<1>22. p3 <= p3 /\ p3 <= many' /\ run' = r /\ many' = n /\ r <= many'
  BY <1>1, <1>4
<1>23. Sorts(W, p3, p3, p3, d, r)'
  BY <1>4, <1>14, <1>20, <1>21, <1>22 DEF Sorts
<1>24. spot' \in Node \cup {0}
  <2>2. p3 > 0 => W[p3] \in Node
    BY <1>N, <1>P
  <2>3. CASE p3 > 0
    BY <1>11, <2>2, <2>3
  <2>4. CASE ~(p3 > 0)
    BY <1>11, <2>4
  <2> QED
    BY <2>3, <2>4
<1> QED
  BY <1>23, <1>24

-----------------------------------------------------------------------------
(* A pass: its runs, the last of them, and its end.                        *)

LEMMA LinkedFrom ==
  ASSUME NEW lk, NEW x, NEW n \in Nat, NEW W, NEW lo \in 0 .. n, NEW hi \in 0 .. n, NEW mi \in 0 .. n,
         Linked(lk, x, W, lo, hi), lo < mi, mi <= hi
  PROVE  Linked(lk, lk[W[mi]], W, mi, hi)
<1>1. lk[W[mi]] = IF mi < hi THEN W[mi + 1] ELSE 0
  <2>1. mi \in lo + 1 .. hi
    OBVIOUS
  <2> QED
    BY <2>1 DEF Linked
<1>2. \A k \in mi + 1 .. hi: lk[W[k]] = IF k < hi THEN W[k + 1] ELSE 0
  <2>1. \A k \in mi + 1 .. hi: k \in lo + 1 .. hi
    OBVIOUS
  <2> QED
    BY <2>1 DEF Linked
<1> QED
  BY <1>1, <1>2 DEF Linked

LEMMA RunEndIs ==
  ASSUME ListsType, NEW n \in Nat, n = many, NEW r \in Nat \ {0}, r = run, NEW W \in [1 .. n -> 1 .. n],
         NEW lo \in 0 .. n, NEW x, Linked(link, x, W, lo, n)
  PROVE  /\ lo + r <= n => RunEnd(x) = W[lo + r] /\ RunEnd(x) # 0 /\ lo + r \in 1 .. n
         /\ ~(lo + r <= n) => RunEnd(x) = 0
<1>1. n \in 0 .. MaxLen + 1 /\ W \in [1 .. n -> Node]
  BY OfNodes
<1>2. n \in lo .. n
  OBVIOUS
<1>3. Chain(x) = Piece(W, lo, n)
  BY <1>1, <1>2, PieceChain
<1>4. Len(Piece(W, lo, n)) = n - lo
  BY <1>1, <1>2, PieceIs, SMTT(30)
<1>5. RunEnd(x) = IF r <= n - lo THEN Piece(W, lo, n)[r] ELSE 0
  BY <1>3, <1>4 DEF RunEnd
<1>6. CASE lo + r <= n
  <2>1. r \in 1 .. n - lo /\ r <= n - lo /\ lo + r \in 1 .. n
    BY <1>6
  <2>2. Piece(W, lo, n)[r] = W[lo + r]
    BY <2>1 DEF Piece
  <2> QED
    BY <1>5, <1>6, <2>1, <2>2
<1>7. CASE ~(lo + r <= n)
  <2>1. ~(r <= n - lo)
    BY <1>7
  <2> QED
    BY <1>5, <1>7, <2>1
<1> QED
  BY <1>6, <1>7

EndsAt(x, W, k) == RunEnd(x) = W[k] /\ RunEnd(x) # 0
LEMMA RunEndIn ==
  ASSUME ListsType, NEW n \in Nat, n = many, NEW r \in Nat \ {0}, r = run, NEW W \in [1 .. n -> 1 .. n],
         NEW lo \in 0 .. n, NEW x, Linked(link, x, W, lo, n), lo + r <= n
  PROVE  EndsAt(x, W, lo + r)
BY RunEndIs DEF EndsAt

LEMMA RunEndOut ==
  ASSUME ListsType, NEW n \in Nat, n = many, NEW r \in Nat \ {0}, r = run, NEW W \in [1 .. n -> 1 .. n],
         NEW lo \in 0 .. n, NEW x, Linked(link, x, W, lo, n), ~(lo + r <= n)
  PROVE  RunEnd(x) = 0
BY RunEndIs

LEMMA RunsOrder ==
  ASSUME ListsType, NEW n \in Nat, n = many, NEW W, NEW r \in Nat \ {0},
         NEW p \in 0 .. n, p < n, RunsSorted(W, p, p, r), Multiple(p, 2 * r),
         NEW p2 \in 0 .. n, p2 = p + r, NEW p3 \in 0 .. n, p3 = IF p2 + r <= n THEN p2 + r ELSE n
  PROVE  RunsSorted(W, p, p3, r) /\ RunsMerge(W, p, p2, p3, p, r)
<1>1. Multiple(p, r) /\ Multiple(p2, r)
  <2>1. Multiple(p, r)
    BY MultipleTwice
  <2>2. Multiple(p + r, r)
    BY <2>1, MultipleNext
  <2> QED
    BY <2>1, <2>2
<1>2. /\ \A c \in Nat: Multiple(c, 2 * r) \/ (p <= c /\ Multiple(c, r)) => Cut(W, c)
      /\ \A j, k \in 1 .. many: j < k /\ k <= p /\ Whole(j, k, 2 * r) => Behind(W[j], W[k])
      /\ \A j, k \in 1 .. many: p < j /\ j < k /\ Whole(j, k, r) => Behind(W[j], W[k])
  BY DEF RunsSorted
<1>3. p <= p2 /\ p2 <= p3 /\ p3 <= p2 + r /\ p3 <= p + 2 * r /\ p3 \in {p + 2 * r, many}
  OBVIOUS
<1>4. InOrder(W, p, p2)
  <2> SUFFICES ASSUME NEW j \in 1 .. n, NEW k \in 1 .. n, p < j, j < k, k <= p2
               PROVE  Behind(W[j], W[k])
    BY DEF InOrder
  <2>1. Whole(j, k, r)
    BY <1>1, WholeRun
  <2> QED
    BY <1>2, <2>1
<1>5. InOrder(W, p2, p3)
  <2> SUFFICES ASSUME NEW j \in 1 .. n, NEW k \in 1 .. n, p2 < j, j < k, k <= p3
               PROVE  Behind(W[j], W[k])
    BY DEF InOrder
  <2>0. k <= p2 + r /\ p < j
    BY <1>3
  <2>1. Whole(j, k, r)
    BY <1>1, <2>0, WholeRun
  <2> QED
    BY <1>2, <2>0, <2>1
<1>6. \A j, k \in 1 .. many: p < j /\ j <= p2 /\ p2 < k /\ k <= p3 => W[j] < W[k]
  <2>1. Cut(W, p2)
    BY <1>1, <1>2, <1>3
  <2> QED
    BY <2>1 DEF Cut
<1>7. RunsMerge(W, p, p2, p3, p, r)
  <2>1. \A j, k \in 1 .. many: p < j /\ j <= p /\ p < k /\ k <= p3 => Behind(W[j], W[k])
    OBVIOUS
  <2>2. p <= p
    OBVIOUS
  <2> QED
    BY <1>3, <1>4, <1>5, <1>6, <2>1, <2>2, Zenon DEF RunsMerge
<1>8. RunsSorted(W, p, p3, r)
  <2>1. \A c \in Nat: p3 <= c => p <= c
    BY <1>3
  <2>2. \A c \in Nat: Multiple(c, 2 * r) \/ (p3 <= c /\ Multiple(c, r)) => Cut(W, c)
    BY <1>2, <2>1
  <2>3. \A j, k \in 1 .. many: p3 < j /\ j < k /\ Whole(j, k, r) => Behind(W[j], W[k])
    <3>1. \A j \in 1 .. many: p3 < j => p < j
      BY <1>3
    <3> QED
      BY <1>2, <3>1
  <2> QED
    BY <1>2, <2>2, <2>3, Zenon DEF RunsSorted
<1> QED
  BY <1>7, <1>8

LEMMA RunsTaken ==
  ASSUME ListsType, tie = -1, doing = "pass", NEW n \in Nat, n = many,
         NEW p1 \in Nat, NEW p2 \in Nat, NEW p3 \in Nat, NEW d \in Nat, NEW r \in Nat \ {0},
         NEW W, Sorts(W, p1, p2, p3, d, r), TakeRuns
  PROVE  /\ \E q2, q3 \in Nat: Sorts(W, p1, q2, q3, p1, r)'
         /\ {na', nb', nleft'} \subseteq Node \cup {0} /\ link' \in [Node -> Node \cup {0}]
<1>1. /\ r = run /\ p1 \in 0 .. n /\ p1 = p3 /\ p2 = p3
      /\ Permutation(W) /\ W \in [1 .. n -> 1 .. n]
      /\ RunsSorted(W, p1, p1, r) /\ Passes(p1, r) /\ (p1 > 0 => link[W[p1]] = 0)
  <2>1. r = run /\ p1 \in 0 .. n /\ Permutation(W) /\ W \in [1 .. n -> 1 .. n]
    BY SortsIs, SMTT(30)
  <2>2. RunsSorted(W, p1, p3, r) /\ Passes(p3, r) /\ p1 = p3 /\ p2 = p3 /\ (p1 > 0 => link[W[p1]] = 0)
    BY SortsPass, SMTT(30)
  <2> QED
    BY <2>1, <2>2
<1>2. /\ first = (IF p1 > 0 THEN W[1] ELSE 0)
      /\ \A k \in 1 .. p1: k < p1 => link[W[k]] = W[k + 1]
  BY SortsHang, SMTT(30)
<1>S. nleft # 0 => spot = IF p1 > 0 THEN W[p1] ELSE 0
  BY SortsSpot, SMTT(30)
<1>3. Linked(link, nleft, W, p1, n)
  BY <1>1, SortsHang
<1>N. n \in 0 .. MaxLen + 1 /\ W \in [1 .. n -> Node] /\ \A k \in 1 .. n: W[k] \in Node
  <2>1. W \in [1 .. n -> 1 .. n]
    BY <1>1
  <2> QED
    BY <2>1, OfNodes
<1>L. link \in [Node -> Node \cup {0}] /\ nleft \in Node \cup {0} /\ 0 \notin Node
  BY ListsKnown DEF ListsType
<1>4. /\ nleft # 0 /\ RunEnd(nleft) # 0
      /\ na' = nleft /\ doing' = "merge"
      /\ UNCHANGED <<tie, many, rank, first, spot, gone, member, run, again>>
  BY DEF TakeRuns
<1>5. p1 < n /\ nleft = W[p1 + 1] /\ p1 + r <= n /\ p1 + r \in 1 .. n /\ RunEnd(nleft) = W[p1 + r]
  <2>1. p1 < n /\ nleft = W[p1 + 1]
    BY <1>1, <1>4, SortsEnds
  <2>2. n \in 0 .. n
    OBVIOUS
  <2>3. p1 + r <= n
    BY <1>1, <1>3, <1>4, RunEndOut
  <2>4. RunEnd(nleft) = W[p1 + r] /\ p1 + r \in 1 .. n
    <3>1. r = run /\ W \in [1 .. n -> 1 .. n] /\ p1 \in 0 .. n
      BY <1>1
    <3>2. EndsAt(nleft, W, p1 + r)
      BY <3>1, <1>3, <2>3, RunEndIn
    <3>3. p1 + r \in 1 .. n
      BY <1>1, <2>3
    <3> QED
      BY <3>2, <3>3 DEF EndsAt
  <2> QED
    BY <2>1, <2>3, <2>4
<1>6. PICK q2 \in 1 .. n: q2 = p1 + r
  BY <1>5
<1>7. PICK b: b = link[W[q2]]
  OBVIOUS
<1>8. Linked(link, b, W, q2, n) /\ (b # 0 <=> q2 < n) /\ (q2 < n => b = W[q2 + 1])
  <2>1. q2 \in 0 .. n /\ n \in 0 .. n /\ p1 < q2 /\ q2 <= n
    BY <1>1, <1>6
  <2>2. Linked(link, b, W, q2, n)
    BY <1>1, <1>3, <1>7, <2>1, LinkedFrom
  <2> QED
    BY <1>1, <2>1, <2>2, LinkedFirst, SMTT(30)
<1>9. PICK end: end = IF b = 0 THEN 0 ELSE RunEnd(b)
  OBVIOUS
<1>10. PICK q3 \in 1 .. n: q3 = IF q2 + r <= n THEN q2 + r ELSE n
  <2>1. (IF q2 + r <= n THEN q2 + r ELSE n) \in 1 .. n
    BY <1>6
  <2> QED
    BY <2>1
<1>11. (q2 + r <= n => end = W[q3] /\ end # 0) /\ (~(q2 + r <= n) => end = 0 /\ q3 = n)
  <2>1. q2 \in 0 .. n
    OBVIOUS
  <2>2. /\ q2 + r <= n => RunEnd(b) = W[q2 + r] /\ RunEnd(b) # 0 /\ q2 + r \in 1 .. n
        /\ ~(q2 + r <= n) => RunEnd(b) = 0
    <3>1. Linked(link, b, W, q2, n)
      BY <1>8
    <3>2. r = run /\ W \in [1 .. n -> 1 .. n]
      BY <1>1
    <3>3. q2 + r <= n => EndsAt(b, W, q2 + r) /\ q2 + r \in 1 .. n
      <4>1. q2 + r <= n => EndsAt(b, W, q2 + r)
        BY <2>1, <3>1, <3>2, RunEndIn
      <4> QED
        BY <4>1
    <3>4. ~(q2 + r <= n) => RunEnd(b) = 0
      BY <2>1, <3>1, <3>2, RunEndOut
    <3> QED
      BY <3>3, <3>4 DEF EndsAt
  <2>3. q2 + r <= n => b # 0
    BY <1>8
  <2> QED
    BY <1>9, <1>10, <2>2, <2>3
<1>12. /\ nb' = b /\ nleft' = (IF end = 0 THEN 0 ELSE link[end])
       /\ link' = [p \in Node |-> IF p \in {W[q2], end} THEN 0 ELSE link[p]]
  BY <1>5, <1>6, <1>7, <1>9 DEF TakeRuns
<1>13. Linked(link, nleft', W, q3, n)
  <2>1. CASE q2 + r <= n
    <3>1. nleft' = link[W[q3]]
      BY <1>11, <1>12, <2>1
    <3>2. q3 \in 0 .. n /\ n \in 0 .. n /\ p1 < q3 /\ q3 <= n
      BY <1>1, <1>6, <1>10
    <3> QED
      BY <1>3, <1>1, <3>1, <3>2, LinkedFrom
  <2>2. CASE ~(q2 + r <= n)
    <3>1. nleft' = 0 /\ q3 = n
      BY <1>11, <1>12, <2>2
    <3> QED
      BY <3>1 DEF Linked
  <2> QED
    BY <2>1, <2>2
<1>14. \A k \in 1 .. n: k # q2 /\ k # q3 => link'[W[k]] = link[W[k]]
  <2> SUFFICES ASSUME NEW k \in 1 .. n, k # q2, k # q3 PROVE link'[W[k]] = link[W[k]]
    OBVIOUS
  <2>1. W[k] # W[q2] /\ W[k] # W[q3] /\ W[k] # 0
    <3>1. \A i, j \in 1 .. n: W[i] = W[j] => i = j
      BY <1>1 DEF Permutation
    <3> QED
      BY <1>1, <3>1, SMTT(30)
  <2>2. W[k] # end
    BY <1>11, <2>1
  <2> QED
    BY <1>N, <1>12, <2>1, <2>2
<1>15. link'[W[q2]] = 0
  BY <1>N, <1>12
<1>16. link'[W[q3]] = 0
  <2>1. CASE q2 + r <= n
    BY <1>N, <1>11, <1>12, <2>1
  <2>2. CASE ~(q2 + r <= n)
    <3>1. q3 = n /\ n \in p1 + 1 .. n /\ ~(n < n)
      BY <1>5, <1>11, <2>2
    <3>2. link[W[n]] = 0
      BY <1>3, <3>1 DEF Linked
    <3> QED
      BY <1>N, <1>12, <3>1, <3>2
  <2> QED
    BY <2>1, <2>2
<1>17. p1 < q2 /\ q2 <= q3 /\ q3 <= n /\ (q2 < q3 <=> q2 < n)
  BY <1>1, <1>6, <1>10
<1>18. Linked(link', na', W, p1, q2)
  <2>1. na' = IF p1 < q2 THEN W[p1 + 1] ELSE 0
    BY <1>4, <1>5, <1>17
  <2>2. ASSUME NEW k \in p1 + 1 .. q2 PROVE link'[W[k]] = IF k < q2 THEN W[k + 1] ELSE 0
    <3>1. CASE k < q2
      <4>1. k \in 1 .. n /\ k # q2 /\ k # q3 /\ k \in p1 + 1 .. n /\ k < n
        BY <1>1, <1>17, <2>2, <3>1
      <4>2. link[W[k]] = W[k + 1]
        BY <1>3, <4>1 DEF Linked
      <4> QED
        BY <1>14, <3>1, <4>1, <4>2
    <3>2. CASE k = q2
      BY <1>15, <3>2
    <3> QED
      BY <1>1, <2>2, <3>1, <3>2
  <2> QED
    BY <2>1, <2>2 DEF Linked
<1>19. Linked(link', nb', W, q2, q3)
  <2>1. nb' = IF q2 < q3 THEN W[q2 + 1] ELSE 0
    BY <1>8, <1>12, <1>17
  <2>2. ASSUME NEW k \in q2 + 1 .. q3 PROVE link'[W[k]] = IF k < q3 THEN W[k + 1] ELSE 0
    <3>1. CASE k < q3
      <4>1. k \in 1 .. n /\ k # q2 /\ k # q3 /\ k \in p1 + 1 .. n /\ k < n
        BY <1>1, <1>17, <2>2, <3>1
      <4>2. link[W[k]] = W[k + 1]
        BY <1>3, <4>1 DEF Linked
      <4> QED
        BY <1>14, <3>1, <4>1, <4>2
    <3>2. CASE k = q3
      BY <1>16, <3>2
    <3> QED
      BY <1>1, <2>2, <3>1, <3>2
  <2> QED
    BY <2>1, <2>2 DEF Linked
<1>20. Linked(link', nleft', W, q3, n)
  <2>1. ASSUME NEW k \in q3 + 1 .. n PROVE link'[W[k]] = link[W[k]]
    <3>1. k \in 1 .. n /\ k # q2 /\ k # q3
      BY <1>17, <2>1
    <3> QED
      BY <1>14, <3>1
  <2>2. q3 \in 0 .. n /\ n \in 0 .. n
    OBVIOUS
  <2> QED
    BY <1>13, <2>1, <2>2, LinkedSame
<1>21. \A k \in 1 .. p1: link'[W[k]] = link[W[k]]
  <2>1. \A k \in 1 .. p1: k \in 1 .. n /\ k # q2 /\ k # q3
    BY <1>1, <1>17, SMTT(30)
  <2> QED
    BY <1>14, <2>1
<1>22. Hangs(W, p1, q2, q3)'
  <2>1. first' = IF p1 > 0 THEN W[1] ELSE 0
    BY <1>2, <1>4
  <2>2. \A k \in 1 .. p1: k < p1 => link'[W[k]] = W[k + 1]
    BY <1>2, <1>21
  <2>3. p1 > 0 => link'[W[p1]] = 0
    <3>1. p1 > 0 => p1 \in 1 .. p1
      BY <1>1
    <3> QED
      BY <1>1, <1>21, <3>1
  <2>4. spot' = (IF p1 > 0 THEN W[p1] ELSE 0) /\ doing' = "merge" /\ many' = n
    BY <1>4, <1>S
  <2> QED
    BY <1>18, <1>19, <1>20, <2>1, <2>2, <2>3, <2>4 DEF Hangs
<1>23. RunsSorted(W, p1, q3, r) /\ RunsMerge(W, p1, q2, q3, p1, r)
  <2>1. Multiple(p1, 2 * r)
    <3>1. Multiple(p1, 2 * r) \/ p1 = n
      BY <1>1 DEF Passes
    <3> QED
      BY <1>1, <1>5, <3>1
  <2>2. q2 \in 0 .. n /\ q3 \in 0 .. n
    OBVIOUS
  <2> QED
    BY <1>1, <1>5, <1>6, <1>10, <2>1, <2>2, RunsOrder
<1>24. RunsSorted(W, p1, q3, r)' /\ RunsMerge(W, p1, q2, q3, p1, r)' /\ Permutation(W)'
  BY <1>1, <1>4, <1>23, OrderSame
<1>25. p1 <= q2 /\ q2 <= q3 /\ q3 <= many' /\ run' = r /\ many' = n /\ r <= many' /\ doing' = "merge"
  BY <1>1, <1>4, <1>5, <1>17
<1>26. Sorts(W, p1, q2, q3, p1, r)'
  BY <1>22, <1>24, <1>25 DEF Sorts
<1>27. link' \in [Node -> Node \cup {0}]
  BY <1>L, <1>12
<1>28. {na', nb', nleft'} \subseteq Node \cup {0}
  <2>1. b \in Node \cup {0}
    BY <1>L, <1>N, <1>7
  <2>2. end # 0 => end \in Node
    BY <1>N, <1>11
  <2>3. nleft' \in Node \cup {0}
    BY <1>L, <1>12, <2>2
  <2> QED
    BY <1>L, <1>4, <1>12, <2>1, <2>3
<1> QED
  BY <1>26, <1>27, <1>28

LEMMA LastOrder ==
  ASSUME NEW n \in Nat, n = many, NEW W, NEW r \in Nat \ {0},
         NEW p \in 0 .. n, RunsSorted(W, p, p, r), Multiple(p, 2 * r), n < p + r
  PROVE  RunsSorted(W, n, n, r)
<1>1. /\ \A c \in Nat: Multiple(c, 2 * r) \/ (p <= c /\ Multiple(c, r)) => Cut(W, c)
      /\ \A j, k \in 1 .. many: j < k /\ k <= p /\ Whole(j, k, 2 * r) => Behind(W[j], W[k])
      /\ \A j, k \in 1 .. many: p < j /\ j < k /\ Whole(j, k, r) => Behind(W[j], W[k])
  BY DEF RunsSorted
<1>2. ASSUME NEW j \in 1 .. n, NEW k \in 1 .. n, j < k, k <= n, Whole(j, k, 2 * r)
      PROVE  Behind(W[j], W[k])
  <2>1. CASE k <= p
    BY <1>1, <1>2, <2>1
  <2>2. CASE j <= p /\ p < k
    <3>1. p \in Nat
      OBVIOUS
    <3> QED
      BY <1>2, <2>2, <3>1 DEF Whole
  <2>3. CASE p < j
    <3>1. Multiple(p, r)
      BY MultipleTwice
    <3>2. k <= p + r
      BY <1>2
    <3>3. Whole(j, k, r)
      BY <2>3, <3>1, <3>2, WholeRun
    <3> QED
      BY <1>1, <1>2, <2>3, <3>3
  <2> QED
    BY <2>1, <2>2, <2>3
<1>3. \A c \in Nat: Multiple(c, 2 * r) \/ (n <= c /\ Multiple(c, r)) => Cut(W, c)
  <2>1. \A c \in Nat: n <= c => p <= c
    OBVIOUS
  <2> QED
    BY <1>1, <2>1
<1>4. \A j, k \in 1 .. many: j < k /\ k <= n /\ Whole(j, k, 2 * r) => Behind(W[j], W[k])
  BY <1>2
<1>5. \A j, k \in 1 .. many: n < j /\ j < k /\ Whole(j, k, r) => Behind(W[j], W[k])
  OBVIOUS
<1> QED
  BY <1>3, <1>4, <1>5, Zenon DEF RunsSorted

LEMMA LastTaken ==
  ASSUME ListsType, tie = -1, doing = "pass", NEW n \in Nat, n = many,
         NEW p1 \in Nat, NEW p2 \in Nat, NEW p3 \in Nat, NEW d \in Nat, NEW r \in Nat \ {0},
         NEW W, Sorts(W, p1, p2, p3, d, r), LastRun
  PROVE  Sorts(W, n, n, n, d, r)'
<1>1. /\ r = run /\ p1 \in 0 .. n /\ p1 = p3 /\ p2 = p3
      /\ Permutation(W) /\ W \in [1 .. n -> 1 .. n]
      /\ RunsSorted(W, p1, p1, r) /\ Passes(p1, r) /\ (again => r <= n)
  <2>1. r = run /\ p1 \in 0 .. n /\ Permutation(W) /\ W \in [1 .. n -> 1 .. n]
    BY SortsIs, SMTT(30)
  <2>2. RunsSorted(W, p1, p3, r) /\ Passes(p3, r) /\ p1 = p3 /\ p2 = p3 /\ (again => r <= n)
    BY SortsPass, SMTT(30)
  <2> QED
    BY <2>1, <2>2
<1>2. /\ first = (IF p1 > 0 THEN W[1] ELSE 0)
      /\ \A k \in 1 .. p1: k < p1 => link[W[k]] = W[k + 1]
  BY SortsHang, SMTT(30)
<1>4. /\ nleft # 0 /\ RunEnd(nleft) = 0 /\ Store(spot, nleft) /\ nleft' = 0
      /\ UNCHANGED <<tie, many, rank, spot, doing, gone, member, na, nb, run, again>>
  BY DEF LastRun
<1>S. spot = IF p1 > 0 THEN W[p1] ELSE 0
  BY <1>4, SortsSpot
<1>3. Linked(link, nleft, W, p1, n)
  BY <1>1, SortsHang
<1>5. p1 < n /\ nleft = W[p1 + 1] /\ na = 0 /\ nb = 0
  <2>1. (na # 0 <=> p1 < p2) /\ (nb # 0 <=> p2 < p3)
    BY SortsEnds
  <2>2. p1 < n /\ nleft = W[p1 + 1]
    BY <1>1, <1>4, SortsEnds
  <2> QED
    BY <1>1, <2>1, <2>2
<1>6. n < p1 + r
  <2> SUFFICES ASSUME p1 + r <= n PROVE FALSE
    BY <1>1
  <2>1. r = run /\ W \in [1 .. n -> 1 .. n] /\ p1 \in 0 .. n
    BY <1>1
  <2>2. EndsAt(nleft, W, p1 + r)
    BY <2>1, <1>3, RunEndIn
  <2> QED
    BY <1>4, <2>2 DEF EndsAt
<1>7. /\ first' = (IF p1 > 0 THEN first ELSE nleft)
      /\ \A k \in 1 .. n: k # p1 => link'[W[k]] = link[W[k]]
      /\ p1 > 0 => link'[W[p1]] = nleft
  <2>2. Store(spot, nleft) /\ Permutation(W) /\ p1 \in 0 .. n
    BY <1>1, <1>4
  <2> QED
    BY <1>S, <2>2, StoreIs
<1>8. first' = W[1] /\ n > 0
  BY <1>1, <1>2, <1>5, <1>7
<1>9. ASSUME NEW k \in 1 .. n, k < n PROVE link'[W[k]] = W[k + 1]
  <2>1. CASE k < p1
    BY <1>2, <1>7, <2>1
  <2>2. CASE k = p1
    BY <1>5, <1>7, <2>2
  <2>3. CASE p1 < k
    <3>1. k \in p1 + 1 .. n /\ k # p1
      BY <1>1, <2>3
    <3>2. link[W[k]] = W[k + 1]
      BY <1>3, <1>9, <3>1 DEF Linked
    <3> QED
      BY <1>7, <3>1, <3>2
  <2> QED
    BY <1>1, <2>1, <2>2, <2>3
<1>10. link'[W[n]] = 0
  <2>1. n \in p1 + 1 .. n /\ n \in 1 .. n /\ n # p1 /\ ~(n < n)
    BY <1>1, <1>5
  <2>2. link[W[n]] = 0
    BY <1>3, <2>1 DEF Linked
  <2> QED
    BY <1>7, <2>1, <2>2
<1>11. Linked(link', na', W, n, n) /\ Linked(link', nb', W, n, n) /\ Linked(link', nleft', W, n, n)
  BY <1>4, <1>5 DEF Linked
<1>12. Hangs(W, n, n, n)'
  <2>1. doing' = "pass" /\ nleft' = 0 /\ many' = n
    BY <1>4
  <2> QED
    BY <1>8, <1>9, <1>10, <1>11, <2>1 DEF Hangs
<1>13. RunsSorted(W, n, n, r)
  <2>1. Multiple(p1, 2 * r)
    <3>1. Multiple(p1, 2 * r) \/ p1 = n
      BY <1>1 DEF Passes
    <3> QED
      BY <1>1, <1>5, <3>1
  <2> QED
    BY <1>1, <1>6, <2>1, LastOrder
<1>14. RunsSorted(W, n, n, r)' /\ Permutation(W)'
  BY <1>1, <1>4, <1>13, OrderSame
<1>15. Passes(n, r)'
  <2>1. again \/ p1 = 0 \/ n < r
    BY <1>1 DEF Passes
  <2>2. again \/ n < r
    BY <1>6, <2>1
  <2> QED
    BY <1>4, <2>2 DEF Passes
<1>16. n <= n /\ n <= many' /\ run' = r /\ many' = n /\ doing' = "pass" /\ (again' => r <= many')
  BY <1>1, <1>4
<1> QED
  BY <1>12, <1>14, <1>15, <1>16 DEF Sorts

LEMMA PassOrder ==
  ASSUME NEW n \in Nat, n = many, NEW W, NEW r \in Nat \ {0}, RunsSorted(W, n, n, r)
  PROVE  RunsSorted(W, 0, 0, 2 * r)
<1>1. /\ \A c \in Nat: Multiple(c, 2 * r) \/ (n <= c /\ Multiple(c, r)) => Cut(W, c)
      /\ \A j, k \in 1 .. many: j < k /\ k <= n /\ Whole(j, k, 2 * r) => Behind(W[j], W[k])
  BY DEF RunsSorted
<1>2. \A c \in Nat: Multiple(c, 2 * (2 * r)) \/ (0 <= c /\ Multiple(c, 2 * r)) => Cut(W, c)
  <2>1. 2 * r \in Nat
    OBVIOUS
  <2>2. \A c \in Nat: Multiple(c, 2 * (2 * r)) => Multiple(c, 2 * r)
    BY <2>1, MultipleTwice
  <2> QED
    BY <1>1, <2>2
<1>3. \A j, k \in 1 .. many: j < k /\ k <= 0 /\ Whole(j, k, 2 * (2 * r)) => Behind(W[j], W[k])
  OBVIOUS
<1>4. \A j, k \in 1 .. many: 0 < j /\ j < k /\ Whole(j, k, 2 * r) => Behind(W[j], W[k])
  BY <1>1
<1> QED
  BY <1>2, <1>3, <1>4, Zenon DEF RunsSorted

(* The list that has been passed.                                          *)
LEMMA PassedList ==
  ASSUME ListsType, doing = "pass", NEW n \in Nat, n = many,
         NEW p1 \in Nat, NEW p2 \in Nat, NEW p3 \in Nat, NEW d \in Nat, NEW r \in Nat \ {0},
         NEW W, Sorts(W, p1, p2, p3, d, r)
  PROVE  Linked(link, first, W, 0, p1)
<1>1. p1 \in 0 .. n
  BY SortsIs, SMTT(30)
<1>2. /\ first = (IF p1 > 0 THEN W[1] ELSE 0)
      /\ \A k \in 1 .. p1: k < p1 => link[W[k]] = W[k + 1]
  BY SortsHang, SMTT(30)
<1>3. p1 > 0 => link[W[p1]] = 0
  BY SortsPass, SMTT(30)
<1>4. ASSUME NEW k \in 0 + 1 .. p1 PROVE link[W[k]] = IF k < p1 THEN W[k + 1] ELSE 0
  <2>1. CASE k < p1
    BY <1>2, <2>1
  <2>2. CASE k = p1
    BY <1>1, <1>3, <2>2
  <2> QED
    BY <1>1, <2>1, <2>2
<1> QED
  BY <1>1, <1>2, <1>4 DEF Linked

LEMMA PassAgain ==
  ASSUME ListsType, tie = -1, doing = "pass", again, NEW n \in Nat, n = many,
         NEW p1 \in Nat, NEW p2 \in Nat, NEW p3 \in Nat, NEW d \in Nat, NEW r \in Nat \ {0},
         NEW W, Sorts(W, p1, p2, p3, d, r), PassEnds
  PROVE  Sorts(W, 0, 0, 0, d, 2 * r)' /\ run' <= 2 * n
<1>1. /\ r = run /\ p1 \in 0 .. n /\ p1 = p3 /\ p2 = p3
      /\ Permutation(W) /\ W \in [1 .. n -> 1 .. n]
      /\ RunsSorted(W, p1, p1, r) /\ r <= n
  <2>1. r = run /\ p1 \in 0 .. n /\ Permutation(W) /\ W \in [1 .. n -> 1 .. n]
    BY SortsIs, SMTT(30)
  <2>2. RunsSorted(W, p1, p3, r) /\ p1 = p3 /\ p2 = p3 /\ r <= n
    BY SortsPass, SMTT(30)
  <2> QED
    BY <2>1, <2>2
<1>2. /\ nleft = 0 /\ run' = 2 * run /\ nleft' = first /\ first' = 0 /\ doing' = "pass"
      /\ spot' = 0 /\ again' = FALSE
      /\ UNCHANGED <<tie, many, rank, link, gone, member, na, nb>>
  BY DEF PassEnds
<1>3. p1 = n /\ na = 0 /\ nb = 0
  <2>1. (na # 0 <=> p1 < p2) /\ (nb # 0 <=> p2 < p3) /\ (nleft # 0 <=> p3 < n)
    BY SortsEnds
  <2> QED
    BY <1>1, <1>2, <2>1
<1>4. Linked(link', nleft', W, 0, n)
  BY <1>2, <1>3, PassedList
<1>5. Linked(link', na', W, 0, 0) /\ Linked(link', nb', W, 0, 0)
  BY <1>2, <1>3 DEF Linked
<1>6. Hangs(W, 0, 0, 0)'
  <2>1. many' = n
    BY <1>2
  <2> QED
    BY <1>2, <1>4, <1>5, <2>1 DEF Hangs
<1>7. RunsSorted(W, 0, 0, 2 * r)
  BY <1>1, <1>3, PassOrder
<1>8. PICK u \in Nat \ {0}: u = 2 * r
  <2>1. 2 * r \in Nat \ {0}
    OBVIOUS
  <2> QED
    BY <2>1
<1>9. RunsSorted(W, 0, 0, u)' /\ Permutation(W)'
  BY <1>1, <1>2, <1>7, <1>8, OrderSame
<1>10. Passes(0, u)'
  <2>1. Multiple(0, 2 * u)
    BY MultipleZero
  <2> QED
    BY <2>1 DEF Passes
<1>11. u = run' /\ doing' = "pass" /\ again' = FALSE /\ 0 <= 0 /\ 0 <= many'
  BY <1>1, <1>2, <1>8
<1>12. Sorts(W, 0, 0, 0, d, u)'
  BY <1>6, <1>9, <1>10, <1>11 DEF Sorts
<1> QED
  BY <1>1, <1>8, <1>11, <1>12

(* The end: less than a run, or nothing, was there to be sorted.           *)
LEMMA PassLast ==
  ASSUME ListsType, tie = -1, doing = "pass", ~again, NEW n \in Nat, n = many,
         NEW p1 \in Nat, NEW p2 \in Nat, NEW p3 \in Nat, NEW d \in Nat, NEW r \in Nat \ {0},
         NEW W, Sorts(W, p1, p2, p3, d, r), PassEnds
  PROVE  Left(n, W)' /\ doing' = "sorted" /\ W \in [1 .. n -> Node] /\ UNCHANGED <<run, nleft, first>>
<1>1. /\ r = run /\ p1 \in 0 .. n /\ p1 = p3 /\ p2 = p3
      /\ Permutation(W) /\ W \in [1 .. n -> 1 .. n]
      /\ RunsSorted(W, p1, p1, r) /\ Passes(p1, r)
  <2>1. r = run /\ p1 \in 0 .. n /\ Permutation(W) /\ W \in [1 .. n -> 1 .. n]
    BY SortsIs, SMTT(30)
  <2>2. RunsSorted(W, p1, p3, r) /\ Passes(p3, r) /\ p1 = p3 /\ p2 = p3
    BY SortsPass, SMTT(30)
  <2> QED
    BY <2>1, <2>2
<1>2. /\ nleft = 0 /\ doing' = "sorted" /\ UNCHANGED <<run, nleft, first>>
      /\ UNCHANGED <<tie, many, rank, link, gone, member, na, nb>>
  BY DEF PassEnds
<1>3. p1 = n
  <2>1. nleft # 0 <=> p3 < n
    BY SortsEnds
  <2> QED
    BY <1>1, <1>2, <2>1
<1>4. Linked(link, first, W, 0, n)
  BY <1>3, PassedList
<1>5. n = 0 \/ n < r
  BY <1>1, <1>3 DEF Passes
<1>6. ASSUME NEW p \in 1 .. n, NEW q \in 1 .. n, p < q PROVE Behind(W[p], W[q])
  <2>1. Multiple(0, 2 * r) /\ 2 * r \in Nat /\ 0 < p /\ q <= 0 + 2 * r
    BY <1>5, MultipleZero
  <2>2. Whole(p, q, 2 * r)
    BY <2>1, WholeRun
  <2> QED
    BY <1>1, <1>3, <1>6, <2>2 DEF RunsSorted
<1>7. Nodes(W) = 1 .. n
  <2>1. DOMAIN W = 1 .. n /\ \A x \in 1 .. n: \E k \in 1 .. n: W[k] = x
    BY <1>1 DEF Permutation
  <2>2. \A x: x \in Nodes(W) <=> \E k \in 1 .. n: x = W[k]
    BY <2>1 DEF Nodes
  <2>3. \A x: x \in Nodes(W) <=> x \in 1 .. n
    BY <1>1, <2>1, <2>2
  <2> QED
    BY <2>3
<1>8. \A p, q \in 1 .. n: p < q => Behind(W[p], W[q])'
  BY <1>2, <1>6 DEF Behind
<1>9. LeftNodes' = 1 .. n
  BY <1>2 DEF LeftNodes
<1>10. Left(n, W)'
  BY <1>2, <1>4, <1>7, <1>8, <1>9 DEF Left
<1> QED
  BY <1>1, <1>2, <1>10, OfNodes

-----------------------------------------------------------------------------
(* Adding, finding and deleting, and how a sort begins.                    *)

LEMMA TypeIs ==
  ASSUME ListsType
  PROVE  /\ MaxLen \in Nat /\ many \in 0 .. MaxLen /\ many \in Nat /\ Extra = MaxLen + 1 /\ many < Extra
         /\ Node = 1 .. MaxLen + 1 /\ 1 .. many \subseteq Node /\ Extra \in Node /\ Extra \notin 1 .. many
         /\ \A x \in Node: rank[x] \in Int
<1>1. /\ MaxLen \in Nat /\ many \in 0 .. MaxLen /\ Extra = MaxLen + 1 /\ Node = 1 .. MaxLen + 1
      /\ Rank \subseteq Int /\ rank \in [Node -> Rank]
  BY ListsKnown DEF ListsType
<1>2. many \in Nat /\ many < Extra /\ 1 .. many \subseteq Node /\ Extra \in Node /\ Extra \notin 1 .. many
  BY <1>1
<1>3. \A x \in Node: rank[x] \in Int
  BY <1>1
<1> QED
  BY <1>1, <1>2, <1>3

LEMMA WalkIs ==
  ASSUME ListsType, Walks, NEW n \in Nat, n = many
  PROVE  /\ spot \in 0 .. n /\ Deref(spot) = (IF spot < n THEN spot + 1 ELSE 0)
         /\ \A k \in 1 .. n: link[k] = IF k < n THEN k + 1 ELSE 0
         /\ first = IF n = 0 THEN 0 ELSE 1
         /\ \A j, k \in 1 .. n: j < k => rank[j] <= rank[k]
<1>1. AtFirst /\ spot \in 0 .. n
  BY DEF Walks
<1>2. \A k \in 1 .. n: k \in Node
  BY TypeIs
<1>3. \A k \in 1 .. n: link[k] = IF k < n THEN k + 1 ELSE 0
  BY <1>1, <1>2 DEF AtFirst
<1>4. first = IF n = 0 THEN 0 ELSE 1
  BY <1>1 DEF AtFirst
<1>5. Deref(spot) = IF spot < n THEN spot + 1 ELSE 0
  BY <1>1, <1>3, <1>4 DEF Deref
<1>6. \A j, k \in 1 .. n: j < k => rank[j] <= rank[k]
  BY <1>1 DEF AtFirst
<1> QED
  BY <1>1, <1>3, <1>4, <1>5, <1>6

LEMMA ListBegins ==
  ASSUME ListsType, Walks, doing = "none", NEW k \in Rank, NEW x \in Node,
         AddBegins(k) \/ FindBegins(k) \/ DeleteBegins(x)
  PROVE  ListsType' /\ Walks' /\ doing' \in {"add", "find", "delete"}
<1>1. /\ doing' \in {"add", "find", "delete"}
      /\ UNCHANGED <<tie, many, link, first, spot, member, sorting>>
  BY DEF AddBegins, FindBegins, DeleteBegins, Starts
<1>2. UNCHANGED <<na, nb, nleft, run, again>>
  BY <1>1 DEF sorting
<1>3. /\ doing' # "delete" => rank' = [rank EXCEPT ![Extra] = k] /\ gone' = gone
      /\ doing' = "delete" => rank' = rank /\ gone' = x /\ x <= many
      /\ doing' = "find" => tie = 0
  BY DEF AddBegins, FindBegins, DeleteBegins, Starts
<1>4. AtFirst /\ spot = 0 /\ gone = 0
  BY DEF Walks
<1>5. /\ MaxLen \in Nat /\ many \in 0 .. MaxLen /\ many \in Nat /\ Extra = MaxLen + 1 /\ many < Extra
      /\ Node = 1 .. MaxLen + 1 /\ 1 .. many \subseteq Node /\ Extra \in Node /\ Extra \notin 1 .. many
  BY TypeIs
<1>6. rank \in [Node -> Rank]
  BY DEF ListsType
<1>7. rank' \in [Node -> Rank] /\ \A j \in 1 .. many: rank'[j] = rank[j]
  <2>1. CASE doing' = "delete"
    BY <1>3, <1>6, <2>1
  <2>2. CASE doing' # "delete"
    <3>1. rank' = [rank EXCEPT ![Extra] = k]
      BY <1>3, <2>2
    <3>2. \A j \in 1 .. many: j \in Node /\ j # Extra
      BY <1>5
    <3> QED
      BY <1>5, <1>6, <3>1, <3>2
  <2> QED
    BY <2>1, <2>2
<1>8. gone' \in Node \cup {0}
  BY <1>3, <1>4
<1>9. ListsType'
  BY <1>1, <1>2, <1>7, <1>8 DEF ListsType
<1>10. AtFirst'
  <2>1. \A j, m \in 1 .. many: j < m => rank'[j] <= rank'[m]
    BY <1>4, <1>7 DEF AtFirst
  <2> QED
    BY <1>1, <1>2, <1>4, <2>1 DEF AtFirst
<1>11. spot' = 0 /\ many' = many /\ many \in Nat
  BY <1>1, <1>4, <1>5
<1>12. doing' = "delete" => gone' \in 1 .. many /\ 0 < gone'
  <2>1. x \in Nat /\ x >= 1
    BY <1>5
  <2> QED
    BY <1>3, <1>5, <2>1
<1>13. Walks'
  <2>1. spot' \in 0 .. many' /\ \A z \in 1 .. spot': FALSE
    BY <1>11
  <2>2. doing' = "find" => tie' = 0
    BY <1>1, <1>3
  <2>3. doing' = "delete" => gone' \in 1 .. many' /\ spot' < gone'
    BY <1>11, <1>12
  <2>4. doing' # "none"
    BY <1>1
  <2> QED
    BY <1>10, <2>1, <2>2, <2>3, <2>4 DEF Walks
<1> QED
  BY <1>1, <1>9, <1>13

LEMMA Advances ==
  ASSUME ListsType, Walks, Advance
  PROVE  ListsType' /\ Walks' /\ doing' = doing /\ doing \in {"add", "find", "delete"}
<1>1. /\ doing \in {"add", "find", "delete"} /\ Deref(spot) # 0 /\ Past(Deref(spot)) /\ spot' = Deref(spot)
      /\ UNCHANGED <<tie, many, rank, link, first, doing, gone, member, sorting>>
  BY DEF Advance
<1>2. UNCHANGED <<na, nb, nleft, run, again>>
  BY <1>1 DEF sorting
<1>3. PICK n \in Nat: n = many
  BY TypeIs
<1>4. spot \in 0 .. n /\ Deref(spot) = (IF spot < n THEN spot + 1 ELSE 0)
  BY <1>3, WalkIs
<1>5. spot < n /\ spot' = spot + 1 /\ Past(spot + 1) /\ spot' \in 1 .. n
  BY <1>1, <1>3, <1>4
<1>6. ListsType'
  <2>1. spot' \in Node
    BY <1>3, <1>5, TypeIs
  <2> QED
    BY <1>1, <1>2, <2>1 DEF ListsType
<1>7. AtFirst'
  BY <1>1, <1>2 DEF Walks, AtFirst
<1>8. doing' \in {"add", "find"} => \A x \in 1 .. spot': Comparator(x, Extra)' < 0
  <2> SUFFICES ASSUME doing \in {"add", "find"}, NEW x \in 1 .. spot' PROVE Comparator(x, Extra) < 0
    BY <1>1 DEF Comparator
  <2>1. CASE x = spot + 1
    BY <1>5, <2>1 DEF Past
  <2>2. CASE x # spot + 1
    <3>1. x \in 1 .. spot
      BY <1>4, <1>5, <2>2
    <3> QED
      BY <3>1 DEF Walks
  <2> QED
    BY <2>1, <2>2
<1>9. doing = "delete" => spot' < gone /\ gone \in 1 .. n
  <2>1. doing = "delete" => gone \in 1 .. n /\ spot < gone /\ spot + 1 # gone
    BY <1>3, <1>5 DEF Walks, Past
  <2> QED
    BY <1>4, <1>5, <2>1
<1>10. Walks'
  <2>1. spot' \in 0 .. many'
    BY <1>1, <1>3, <1>5
  <2>2. doing' = "find" => tie' = 0
    BY <1>1 DEF Walks
  <2>3. doing' = "delete" => gone' \in 1 .. many' /\ spot' < gone'
    BY <1>1, <1>3, <1>9
  <2>4. doing' # "none"
    BY <1>1
  <2> QED
    BY <1>7, <1>8, <2>1, <2>2, <2>3, <2>4 DEF Walks
<1> QED
  BY <1>1, <1>6, <1>10

(* Of two nodes of the list, one behind the other.                         *)
LEMMA BehindInList ==
  ASSUME ListsType, Walks, NEW j \in 1 .. many, NEW k \in 1 .. many, j < k
  PROVE  Behind(j, k)
<1>1. PICK n \in Nat: n = many
  BY TypeIs
<1>2. rank[j] <= rank[k]
  BY <1>1, WalkIs
<1>3. rank[j] \in Int /\ rank[k] \in Int /\ j # Extra /\ k # Extra
  BY TypeIs
<1> QED
  BY <1>2, <1>3 DEF Behind

LEMMA Added ==
  ASSUME ListsType, Walks, AddEnds
  PROVE  /\ ListsType' /\ doing' = "added"
         /\ \E n \in 0 .. many' + 1: \E Z \in [1 .. n -> Node]: Left(n, Z)'
<1>1. /\ doing = "add" /\ doing' = "added" /\ (Deref(spot) # 0 => ~Past(Deref(spot)))
      /\ first' = (IF spot = 0 THEN Extra ELSE first)
      /\ link' = [p \in Node |-> IF p = Extra THEN Deref(spot) ELSE IF p = spot THEN Extra ELSE link[p]]
      /\ UNCHANGED <<tie, many, rank, spot, gone, member, sorting>>
  BY DEF AddEnds, Arrived
<1>2. UNCHANGED <<na, nb, nleft, run, again>>
  BY <1>1 DEF sorting
<1>3. PICK n \in Nat: n = many
  BY TypeIs
<1>4. /\ spot \in 0 .. n /\ Deref(spot) = (IF spot < n THEN spot + 1 ELSE 0)
      /\ \A k \in 1 .. n: link[k] = IF k < n THEN k + 1 ELSE 0
      /\ first = IF n = 0 THEN 0 ELSE 1
      /\ \A j, k \in 1 .. n: j < k => rank[j] <= rank[k]
  BY <1>3, WalkIs
<1>5. PICK s \in 0 .. n: s = spot
  BY <1>4
<1>6. /\ MaxLen \in Nat /\ n \in 0 .. MaxLen /\ Extra = MaxLen + 1 /\ n < Extra
      /\ Node = 1 .. MaxLen + 1 /\ (\A k \in 1 .. n: k \in Node /\ k # Extra) /\ Extra \in Node /\ 0 \notin Node
      /\ \A x \in Node: rank[x] \in Int
  BY <1>3, TypeIs
<1>7. PICK Z: Z = [k \in 1 .. n + 1 |-> IF k <= s THEN k ELSE IF k = s + 1 THEN Extra ELSE k - 1]
  OBVIOUS
<1>Z. ASSUME NEW k \in 1 .. n + 1
      PROVE  (k <= s => Z[k] = k) /\ (k = s + 1 => Z[k] = Extra) /\ (k > s + 1 => Z[k] = k - 1)
  <2>1. Z[k] = IF k <= s THEN k ELSE IF k = s + 1 THEN Extra ELSE k - 1
    BY <1>7
  <2>2. (k = s + 1 => ~(k <= s)) /\ (k > s + 1 => ~(k <= s) /\ k # s + 1)
    OBVIOUS
  <2> QED
    BY <2>1, <2>2, Zenon
<1>8. Z \in [1 .. n + 1 -> Node]
  <2>1. \A k \in 1 .. n + 1: k <= s => k \in 1 .. n
    OBVIOUS
  <2>2. \A k \in 1 .. n + 1: ~(k <= s) /\ k # s + 1 => k - 1 \in 1 .. n
    OBVIOUS
  <2>3. \A k \in 1 .. n + 1: (IF k <= s THEN k ELSE IF k = s + 1 THEN Extra ELSE k - 1) \in Node
    BY <1>6, <2>1, <2>2
  <2> QED
    BY <1>7, <2>3
<1>9. /\ link'[Extra] = IF s < n THEN s + 1 ELSE 0
      /\ \A k \in 1 .. n: link'[k] = IF k = s THEN Extra ELSE IF k < n THEN k + 1 ELSE 0
  <2>1. link'[Extra] = Deref(spot)
    BY <1>1, <1>6
  <2>2. \A k \in 1 .. n: link'[k] = IF k = spot THEN Extra ELSE link[k]
    BY <1>1, <1>6
  <2> QED
    BY <1>4, <1>5, <2>1, <2>2
<1>10. Linked(link', first', Z, 0, n + 1)
  <2>1. first' = Z[1]
    <3>1. CASE s = 0
      BY <1>1, <1>5, <1>7, <3>1
    <3>2. CASE s > 0
      BY <1>1, <1>4, <1>5, <1>7, <3>2
    <3> QED
      BY <3>1, <3>2
  <2>2. ASSUME NEW k \in 0 + 1 .. n + 1 PROVE link'[Z[k]] = IF k < n + 1 THEN Z[k + 1] ELSE 0
    <3>1. CASE k < s
      <4>1. Z[k] = k /\ Z[k + 1] = k + 1 /\ k \in 1 .. n /\ k # s /\ k < n
        BY <1>7, <3>1
      <4> QED
        BY <1>9, <4>1
    <3>2. CASE k = s
      <4>1. Z[k] = k /\ Z[k + 1] = Extra /\ k \in 1 .. n
        BY <1>7, <3>2
      <4> QED
        BY <1>9, <3>2, <4>1
    <3>3. CASE k = s + 1
      <4>1. Z[k] = Extra /\ (k < n + 1 => Z[k + 1] = k)
        BY <1>7, <3>3
      <4> QED
        BY <1>9, <3>3, <4>1
    <3>4. CASE k > s + 1
      <4>0. k \in 1 .. n + 1 /\ k - 1 \in 1 .. n /\ k - 1 # s
        BY <3>4
      <4>1. Z[k] = k - 1
        BY <1>Z, <3>4
      <4>2. k < n + 1 => Z[k + 1] = k
        <5>1. k < n + 1 => k + 1 \in 1 .. n + 1 /\ k + 1 > s + 1 /\ k + 1 - 1 = k
          BY <3>4
        <5> QED
          BY <1>Z, <5>1
      <4>3. k - 1 < n <=> k < n + 1
        BY <4>0
      <4>4. k - 1 + 1 = k
        BY <4>0
      <4> QED
        BY <1>9, <4>0, <4>1, <4>2, <4>3, <4>4
    <3> QED
      BY <3>1, <3>2, <3>3, <3>4
  <2> QED
    BY <2>1, <2>2 DEF Linked
<1>11. \A x \in 1 .. s: rank[x] < rank[Extra] \/ (rank[x] = rank[Extra] /\ tie = -1)
  <2> SUFFICES ASSUME NEW x \in 1 .. s PROVE rank[x] < rank[Extra] \/ (rank[x] = rank[Extra] /\ tie = -1)
    OBVIOUS
  <2>1. Comparator(x, Extra) < 0
    BY <1>1, <1>5 DEF Walks
  <2>2. rank[x] \in Int /\ rank[Extra] \in Int /\ tie \in {-1, 0}
    BY <1>6 DEF ListsType
  <2> QED
    BY <2>1, <2>2 DEF Comparator
<1>12. \A y \in 1 .. n: y > s => rank[Extra] < rank[y] \/ (rank[Extra] = rank[y] /\ tie = 0)
  <2> SUFFICES ASSUME NEW y \in 1 .. n, y > s PROVE rank[Extra] < rank[y] \/ (rank[Extra] = rank[y] /\ tie = 0)
    OBVIOUS
  <2>1. s + 1 \in 1 .. n /\ Deref(spot) = s + 1
    BY <1>4, <1>5
  <2>2. ~(Comparator(s + 1, Extra) < 0)
    BY <1>1, <2>1 DEF Past
  <2>3. rank[s + 1] \in Int /\ rank[Extra] \in Int /\ rank[y] \in Int /\ tie \in {-1, 0}
    BY <1>6, <2>1 DEF ListsType
  <2>4. rank[Extra] < rank[s + 1] \/ (rank[Extra] = rank[s + 1] /\ tie = 0)
    BY <2>2, <2>3 DEF Comparator
  <2>5. rank[s + 1] <= rank[y]
    <3>1. CASE y = s + 1
      BY <2>3, <3>1
    <3>2. CASE s + 1 < y
      BY <1>4, <2>1, <3>2
    <3> QED
      BY <3>1, <3>2
  <2> QED
    BY <2>3, <2>4, <2>5
<1>13. ASSUME NEW p \in 1 .. n + 1, NEW q \in 1 .. n + 1, p < q PROVE Behind(Z[p], Z[q])
  <2>0. /\ p <= s => Z[p] = p /\ p \in 1 .. n
        /\ q <= s => Z[q] = q /\ q \in 1 .. n
        /\ p > s + 1 => Z[p] = p - 1 /\ p - 1 \in 1 .. n
        /\ q > s + 1 => Z[q] = q - 1 /\ q - 1 \in 1 .. n /\ q - 1 > s
        /\ p = s + 1 => Z[p] = Extra
        /\ q = s + 1 => Z[q] = Extra
    <3>1. /\ p <= s => p \in 1 .. n
          /\ q <= s => q \in 1 .. n
          /\ p > s + 1 => p - 1 \in 1 .. n
          /\ q > s + 1 => q - 1 \in 1 .. n /\ q - 1 > s
      OBVIOUS
    <3> QED
      BY <1>Z, <3>1
  <2>1. CASE q # s + 1 /\ p # s + 1
    <3>1. Z[p] \in 1 .. n /\ Z[q] \in 1 .. n /\ Z[p] < Z[q]
      BY <1>13, <2>0, <2>1
    <3> QED
      BY <1>3, <3>1, BehindInList
  <2>2. CASE q = s + 1
    <3>1. Z[p] = p /\ p \in 1 .. s /\ p \in 1 .. n /\ Z[q] = Extra /\ p < Extra
      BY <1>6, <1>13, <2>0, <2>2
    <3> QED
      BY <1>11, <3>1 DEF Behind
  <2>3. CASE p = s + 1
    <3>1. Z[q] = q - 1 /\ q - 1 \in 1 .. n /\ q - 1 > s /\ Z[p] = Extra
      BY <1>13, <2>0, <2>3
    <3> QED
      BY <1>12, <3>1 DEF Behind
  <2> QED
    BY <2>1, <2>2, <2>3
<1>14. Nodes(Z) = (1 .. n) \cup {Extra}
  <2>1. \A x: x \in Nodes(Z) <=> \E k \in 1 .. n + 1: x = Z[k]
    BY <1>7 DEF Nodes
  <2>2. ASSUME NEW k \in 1 .. n + 1 PROVE Z[k] \in (1 .. n) \cup {Extra}
    BY <1>7
  <2>3. ASSUME NEW x \in (1 .. n) \cup {Extra} PROVE \E k \in 1 .. n + 1: x = Z[k]
    <3>1. CASE x = Extra
      <4>1. s + 1 \in 1 .. n + 1 /\ Z[s + 1] = Extra
        BY <1>7
      <4> QED
        BY <3>1, <4>1
    <3>2. CASE x \in 1 .. s
      <4>1. x \in 1 .. n + 1 /\ Z[x] = x
        BY <1>7, <3>2
      <4> QED
        BY <4>1
    <3>3. CASE x \in s + 1 .. n
      <4>1. x + 1 \in 1 .. n + 1 /\ Z[x + 1] = x
        BY <1>7, <3>3
      <4> QED
        BY <4>1
    <3> QED
      BY <3>1, <3>2, <3>3
  <2>4. ASSUME NEW x PROVE x \in Nodes(Z) <=> x \in (1 .. n) \cup {Extra}
    <3>1. ASSUME x \in Nodes(Z) PROVE x \in (1 .. n) \cup {Extra}
      <4>1. PICK k \in 1 .. n + 1: x = Z[k]
        BY <2>1, <3>1
      <4> QED
        BY <2>2, <4>1
    <3>2. ASSUME x \in (1 .. n) \cup {Extra} PROVE x \in Nodes(Z)
      <4>1. \E k \in 1 .. n + 1: x = Z[k]
        BY <2>3, <3>2
      <4> QED
        BY <2>1, <4>1
    <3> QED
      BY <3>1, <3>2
  <2> QED
    BY <2>4
<1>15. Left(n + 1, Z)'
  <2>1. \A p, q \in 1 .. n + 1: p < q => Behind(Z[p], Z[q])'
    BY <1>1, <1>13 DEF Behind
  <2>2. LeftNodes' = (1 .. n) \cup {Extra}
    BY <1>1, <1>3 DEF LeftNodes
  <2> QED
    BY <1>10, <1>14, <2>1, <2>2 DEF Left
<1>16. ListsType'
  <2>1. link' \in [Node -> Node \cup {0}]
    <3>1. link \in [Node -> Node \cup {0}] /\ Deref(spot) \in Node \cup {0}
      BY <1>4, <1>6 DEF ListsType
    <3> QED
      BY <1>1, <1>6, <3>1
  <2>2. first' \in Node \cup {0}
    BY <1>1, <1>6 DEF ListsType
  <2>3. doing' = "added" /\ UNCHANGED <<tie, many, rank, spot, gone, member>>
    BY <1>1
  <2> QED
    BY <1>2, <2>1, <2>2, <2>3 DEF ListsType, Finished
<1>17. n + 1 \in 0 .. many' + 1
  BY <1>1, <1>3
<1> QED
  BY <1>1, <1>8, <1>15, <1>16, <1>17

LEMMA FindIs ==
  ASSUME ListsType, Walks, FindEnds
  PROVE  /\ ListsType' /\ doing' = "found" /\ FoundFirst'
         /\ \E n \in 0 .. many' + 1: \E Z \in [1 .. n -> Node]: Left(n, Z)'
<1>1. /\ doing = "find" /\ doing' = "found" /\ (Deref(spot) # 0 => ~Past(Deref(spot)))
      /\ member' = (IF Deref(spot) # 0 /\ Comparator(Deref(spot), Extra) = 0 THEN Deref(spot) ELSE 0)
      /\ UNCHANGED <<tie, many, rank, link, first, spot, gone, sorting>>
  BY DEF FindEnds, Arrived
<1>2. UNCHANGED <<na, nb, nleft, run, again>>
  BY <1>1 DEF sorting
<1>3. PICK n \in Nat: n = many
  BY TypeIs
<1>4. /\ spot \in 0 .. n /\ Deref(spot) = (IF spot < n THEN spot + 1 ELSE 0)
      /\ \A k \in 1 .. n: link[k] = IF k < n THEN k + 1 ELSE 0
      /\ first = IF n = 0 THEN 0 ELSE 1
      /\ \A j, k \in 1 .. n: j < k => rank[j] <= rank[k]
  BY <1>3, WalkIs
<1>5. /\ n \in 0 .. MaxLen /\ MaxLen \in Nat
      /\ (\A k \in 1 .. n: k \in Node /\ k # Extra) /\ Extra \in Node /\ 0 \notin Node
      /\ \A x \in Node: rank[x] \in Int
  BY <1>3, TypeIs
<1>6. PICK Z: Z = [k \in 1 .. n |-> k]
  OBVIOUS
<1>7. Z \in [1 .. n -> Node] /\ \A k \in 1 .. n: Z[k] = k
  BY <1>5, <1>6
<1>8. Linked(link, first, Z, 0, n)
  BY <1>4, <1>6, <1>7 DEF Linked
<1>9. \A p, q \in 1 .. n: p < q => Behind(Z[p], Z[q])
  BY <1>3, <1>7, BehindInList
<1>10. Nodes(Z) = 1 .. n
  BY <1>6 DEF Nodes
<1>11. Left(n, Z)'
  <2>1. \A p, q \in 1 .. n: p < q => Behind(Z[p], Z[q])'
    BY <1>1, <1>9 DEF Behind
  <2>2. LeftNodes' = 1 .. n
    BY <1>1, <1>3 DEF LeftNodes
  <2>3. Linked(link', first', Z, 0, n)
    BY <1>1, <1>8
  <2> QED
    BY <1>10, <2>1, <2>2, <2>3 DEF Left
<1>12. n \in 0 .. many' + 1
  BY <1>1, <1>3
<1>13. Deref(spot) \in Node \cup {0}
  BY <1>4, <1>5
<1>14. ListsType'
  <2>1. member' \in Node \cup {0}
    BY <1>1, <1>13
  <2> QED
    BY <1>1, <1>2, <2>1 DEF ListsType, Finished
<1>15. tie = 0 /\ \A x \in 1 .. spot: Comparator(x, Extra) < 0
  BY <1>1 DEF Walks
<1>16. \A x \in 1 .. spot: rank[x] < rank[Extra]
  <2> SUFFICES ASSUME NEW x \in 1 .. spot PROVE rank[x] < rank[Extra]
    OBVIOUS
  <2>1. Comparator(x, Extra) < 0 /\ x \in 1 .. n
    BY <1>4, <1>15
  <2>2. rank[x] \in Int /\ rank[Extra] \in Int
    BY <1>5, <2>1
  <2> QED
    BY <1>15, <2>1, <2>2 DEF Comparator
<1>17. CASE spot < n
  <2>1. spot + 1 \in 1 .. n /\ Deref(spot) = spot + 1
    BY <1>4, <1>17
  <2>2. rank[spot + 1] \in Int /\ rank[Extra] \in Int
    BY <1>5, <2>1
  <2>3. rank[spot + 1] >= rank[Extra] /\ (Comparator(spot + 1, Extra) = 0 <=> rank[spot + 1] = rank[Extra])
    <3>1. ~(Comparator(spot + 1, Extra) < 0)
      BY <1>1, <2>1 DEF Past
    <3> QED
      BY <1>15, <2>2, <3>1 DEF Comparator
  <2>4. member' = IF rank[spot + 1] = rank[Extra] THEN spot + 1 ELSE 0
    BY <1>1, <2>1, <2>3
  <2>5. ASSUME NEW x \in 1 .. n, rank[x] = rank[Extra] PROVE rank[spot + 1] = rank[Extra] /\ spot + 1 <= x
    <3>1. ~(x \in 1 .. spot) /\ x > spot
      BY <1>4, <1>16, <2>2, <2>5
    <3>2. rank[spot + 1] <= rank[x]
      <4>1. CASE x = spot + 1
        BY <2>2, <4>1
      <4>2. CASE spot + 1 < x
        BY <1>4, <2>1, <4>2
      <4> QED
        BY <1>4, <3>1, <4>1, <4>2
    <3> QED
      BY <1>4, <2>2, <2>3, <2>5, <3>1, <3>2
  <2>6. FoundFirst'
    <3>1. many' = n /\ rank' = rank
      BY <1>1, <1>3
    <3>2. CASE rank[spot + 1] = rank[Extra]
      BY <2>1, <2>4, <2>5, <3>1, <3>2 DEF FoundFirst
    <3>3. CASE rank[spot + 1] # rank[Extra]
      BY <2>4, <2>5, <3>1, <3>3 DEF FoundFirst
    <3> QED
      BY <3>2, <3>3
  <2> QED
    BY <1>1, <1>7, <1>11, <1>12, <1>14, <2>6
<1>18. CASE ~(spot < n)
  <2>1. spot = n /\ member' = 0
    BY <1>1, <1>4, <1>18
  <2>2. \A x \in 1 .. n: rank[x] # rank[Extra]
    <3> SUFFICES ASSUME NEW x \in 1 .. n PROVE rank[x] # rank[Extra]
      OBVIOUS
    <3>1. rank[x] < rank[Extra] /\ rank[x] \in Int /\ rank[Extra] \in Int
      BY <1>5, <1>16, <2>1
    <3> QED
      BY <3>1
  <2>3. FoundFirst'
    <3>1. many' = n /\ rank' = rank
      BY <1>1, <1>3
    <3> QED
      BY <2>1, <2>2, <3>1 DEF FoundFirst
  <2> QED
    BY <1>1, <1>7, <1>11, <1>12, <1>14, <2>3
<1> QED
  BY <1>17, <1>18

LEMMA Deleted ==
  ASSUME ListsType, Walks, DeleteEnds
  PROVE  /\ ListsType' /\ doing' = "deleted"
         /\ \E n \in 0 .. many' + 1: \E Z \in [1 .. n -> Node]: Left(n, Z)'
<1>1. /\ doing = "delete" /\ doing' = "deleted" /\ (Deref(spot) # 0 => ~Past(Deref(spot))) /\ Deref(spot) # 0
      /\ first' = (IF spot = 0 THEN link[Deref(spot)] ELSE first)
      /\ link' = (IF spot = 0 THEN link ELSE [link EXCEPT ![spot] = link[Deref(spot)]])
      /\ UNCHANGED <<tie, many, rank, spot, gone, member, sorting>>
  BY DEF DeleteEnds, Arrived, Store
<1>2. UNCHANGED <<na, nb, nleft, run, again>>
  BY <1>1 DEF sorting
<1>3. PICK n \in Nat: n = many
  BY TypeIs
<1>4. /\ spot \in 0 .. n /\ Deref(spot) = (IF spot < n THEN spot + 1 ELSE 0)
      /\ \A k \in 1 .. n: link[k] = IF k < n THEN k + 1 ELSE 0
      /\ first = IF n = 0 THEN 0 ELSE 1
  BY <1>3, WalkIs
<1>5. /\ n \in 0 .. MaxLen /\ MaxLen \in Nat
      /\ (\A k \in 1 .. n: k \in Node) /\ Extra \in Node /\ 0 \notin Node
      /\ link \in [Node -> Node \cup {0}]
  <2>1. link \in [Node -> Node \cup {0}]
    BY DEF ListsType
  <2>2. n \in 0 .. MaxLen /\ MaxLen \in Nat /\ (\A k \in 1 .. n: k \in Node) /\ Extra \in Node /\ 0 \notin Node
    BY <1>3, TypeIs
  <2> QED
    BY <2>1, <2>2
<1>6. PICK s \in 0 .. n: s = spot
  BY <1>4
<1>7. s < n /\ Deref(spot) = s + 1 /\ gone = s + 1 /\ s + 1 \in 1 .. n /\ link[s + 1] = (IF s + 1 < n THEN s + 2 ELSE 0)
  <2>1. s < n /\ Deref(spot) = s + 1 /\ s + 1 \in 1 .. n
    BY <1>1, <1>4, <1>6
  <2>2. gone = s + 1
    BY <1>1, <2>1 DEF Past
  <2>3. link[s + 1] = IF s + 1 < n THEN s + 1 + 1 ELSE 0
    BY <1>4, <2>1
  <2> QED
    BY <2>1, <2>2, <2>3
<1>8. PICK m \in 0 .. n: m = n - 1
  BY <1>7
<1>9. PICK Z: Z = [k \in 1 .. m |-> IF k <= s THEN k ELSE k + 1]
  OBVIOUS
<1>Z. \A k \in 1 .. m: Z[k] = (IF k <= s THEN k ELSE k + 1) /\ Z[k] \in 1 .. n
  BY <1>7, <1>8, <1>9
<1>10. Z \in [1 .. m -> Node]
  BY <1>5, <1>9, <1>Z
<1>11. /\ first' = (IF s = 0 THEN (IF 1 < n THEN 2 ELSE 0) ELSE 1)
       /\ \A k \in 1 .. n: link'[k] = IF k = s THEN (IF s + 1 < n THEN s + 2 ELSE 0) ELSE IF k < n THEN k + 1 ELSE 0
  <2>1. CASE s = 0
    BY <1>1, <1>4, <1>6, <1>7, <2>1
  <2>2. CASE s > 0
    <3>1. link' = [link EXCEPT ![s] = link[s + 1]] /\ first' = first /\ s \in Node /\ s # 0
      BY <1>1, <1>5, <1>6, <1>7, <2>2
    <3>2. ASSUME NEW k \in 1 .. n
          PROVE  link'[k] = IF k = s THEN (IF s + 1 < n THEN s + 2 ELSE 0) ELSE IF k < n THEN k + 1 ELSE 0
      <4>1. link'[k] = IF k = s THEN link[s + 1] ELSE link[k]
        BY <1>5, <3>1
      <4> QED
        BY <1>4, <1>7, <4>1
    <3> QED
      BY <1>4, <1>7, <2>2, <3>1, <3>2
  <2> QED
    BY <2>1, <2>2
<1>12. Linked(link', first', Z, 0, m)
  <2>1. first' = IF 0 < m THEN Z[0 + 1] ELSE 0
    <3>1. CASE 0 < m
      <4>1. 1 \in 1 .. m /\ 1 < n
        BY <1>8, <3>1
      <4>2. Z[1] = IF 1 <= s THEN 1 ELSE 2
        BY <1>Z, <4>1
      <4> QED
        BY <1>11, <3>1, <4>1, <4>2
    <3>2. CASE ~(0 < m)
      <4>1. n = 1 /\ s = 0
        BY <1>7, <1>8, <3>2
      <4> QED
        BY <1>11, <3>2, <4>1
    <3> QED
      BY <3>1, <3>2
  <2>2. ASSUME NEW k \in 0 + 1 .. m PROVE link'[Z[k]] = IF k < m THEN Z[k + 1] ELSE 0
    <3>0. k \in 1 .. m /\ k \in 1 .. n /\ k + 1 \in 1 .. n /\ (k < m => k + 1 \in 1 .. m) /\ (k < m <=> k + 1 < n)
      BY <1>8
    <3>1. CASE k < s
      <4>1. Z[k] = k /\ Z[k + 1] = k + 1 /\ k < m /\ k # s /\ k < n
        <5>1. k < m /\ k + 1 <= s /\ k <= s /\ k # s /\ k < n
          BY <1>7, <1>8, <3>1
        <5> QED
          BY <1>Z, <3>0, <5>1
      <4> QED
        BY <1>11, <3>0, <4>1
    <3>2. CASE k = s
      <4>1. Z[k] = k /\ (k < m => Z[k + 1] = k + 2)
        <5>1. k <= s /\ ~(k + 1 <= s) /\ k + 1 + 1 = k + 2
          BY <3>2
        <5> QED
          BY <1>Z, <3>0, <5>1
      <4> QED
        BY <1>11, <3>0, <3>2, <4>1
    <3>3. CASE k > s
      <4>1. Z[k] = k + 1 /\ (k < m => Z[k + 1] = k + 2) /\ k + 1 # s /\ k + 1 + 1 = k + 2
        <5>1. ~(k <= s) /\ ~(k + 1 <= s) /\ k + 1 # s /\ k + 1 + 1 = k + 2
          BY <3>3
        <5> QED
          BY <1>Z, <3>0, <5>1
      <4>2. link'[k + 1] = IF k + 1 < n THEN k + 1 + 1 ELSE 0
        BY <1>11, <3>0, <4>1
      <4> QED
        BY <3>0, <4>1, <4>2
    <3> QED
      BY <3>1, <3>2, <3>3
  <2> QED
    BY <2>1, <2>2 DEF Linked
<1>13. ASSUME NEW p \in 1 .. m, NEW q \in 1 .. m, p < q PROVE Behind(Z[p], Z[q])
  <2>1. Z[p] \in 1 .. n /\ Z[q] \in 1 .. n /\ Z[p] < Z[q]
    BY <1>Z, <1>13
  <2> QED
    BY <1>3, <2>1, BehindInList
<1>14. Nodes(Z) = (1 .. n) \ {s + 1}
  <2>1. \A x: x \in Nodes(Z) <=> \E k \in 1 .. m: x = Z[k]
    BY <1>9 DEF Nodes
  <2>2. ASSUME NEW k \in 1 .. m PROVE Z[k] \in (1 .. n) \ {s + 1}
    BY <1>Z
  <2>3. ASSUME NEW x \in (1 .. n) \ {s + 1} PROVE \E k \in 1 .. m: x = Z[k]
    <3>1. CASE x <= s
      <4>1. x \in 1 .. m /\ Z[x] = x
        BY <1>7, <1>8, <1>Z, <3>1
      <4> QED
        BY <4>1
    <3>2. CASE x > s
      <4>1. x - 1 \in 1 .. m /\ ~(x - 1 <= s) /\ x - 1 + 1 = x
        BY <1>7, <1>8, <3>2
      <4>2. Z[x - 1] = x
        BY <1>Z, <4>1
      <4> QED
        BY <4>1, <4>2
    <3> QED
      BY <3>1, <3>2
  <2>4. ASSUME NEW x PROVE x \in Nodes(Z) <=> x \in (1 .. n) \ {s + 1}
    <3>1. ASSUME x \in Nodes(Z) PROVE x \in (1 .. n) \ {s + 1}
      <4>1. PICK k \in 1 .. m: x = Z[k]
        BY <2>1, <3>1
      <4> QED
        BY <2>2, <4>1
    <3>2. ASSUME x \in (1 .. n) \ {s + 1} PROVE x \in Nodes(Z)
      <4>1. \E k \in 1 .. m: x = Z[k]
        BY <2>3, <3>2
      <4> QED
        BY <2>1, <4>1
    <3> QED
      BY <3>1, <3>2
  <2> QED
    BY <2>4
<1>15. Left(m, Z)'
  <2>1. \A p, q \in 1 .. m: p < q => Behind(Z[p], Z[q])'
    BY <1>1, <1>13 DEF Behind
  <2>2. LeftNodes' = (1 .. n) \ {s + 1}
    BY <1>1, <1>3, <1>7 DEF LeftNodes
  <2> QED
    BY <1>12, <1>14, <2>1, <2>2 DEF Left
<1>16. ListsType'
  <2>1. link[Deref(spot)] \in Node \cup {0}
    BY <1>5, <1>7
  <2>2. link' \in [Node -> Node \cup {0}]
    BY <1>1, <1>5, <2>1
  <2>3. first' \in Node \cup {0}
    BY <1>1, <2>1 DEF ListsType
  <2>4. doing' = "deleted" /\ UNCHANGED <<tie, many, rank, spot, gone, member>>
    BY <1>1
  <2> QED
    BY <1>2, <2>2, <2>3, <2>4 DEF ListsType, Finished
<1>17. m \in 0 .. many' + 1
  BY <1>1, <1>3
<1> QED
  BY <1>1, <1>10, <1>15, <1>16, <1>17

-----------------------------------------------------------------------------
(* The sort begins with the list as it is, in runs of one.                 *)

LEMMA SortStarts ==
  ASSUME ListsType, Walks, doing = "none", NEW x \in Node, NEW k \in Rank, SortBegins(x, k)
  PROVE  ListsType' /\ Sorting' /\ doing' = "pass"
<1>1. /\ doing' = "pass" /\ tie = -1 /\ rank' = [rank EXCEPT ![x] = k]
      /\ run' = 1 /\ nleft' = first /\ first' = 0 /\ again' = FALSE
      /\ UNCHANGED <<tie, many, link, spot, gone, member, na, nb>>
  BY DEF SortBegins
<1>2. PICK n \in Nat: n = many
  BY TypeIs
<1>3. /\ spot \in 0 .. n
      /\ \A j \in 1 .. n: link[j] = IF j < n THEN j + 1 ELSE 0
      /\ first = IF n = 0 THEN 0 ELSE 1
  BY <1>2, WalkIs
<1>4. na = 0 /\ nb = 0 /\ spot = 0 /\ x <= n
  BY <1>2 DEF Walks, AtFirst, SortBegins
<1>5. PICK W: W = [j \in 1 .. n |-> j]
  OBVIOUS
<1>6. Permutation(W)'
  <2>1. many' = n
    BY <1>1, <1>2
  <2>2. W \in [1 .. n -> 1 .. n] /\ \A j \in 1 .. n: W[j] = j
    BY <1>5
  <2> QED
    BY <2>1, <2>2 DEF Permutation
<1>7. Hangs(W, 0, 0, 0)'
  <2>1. Linked(link', nleft', W, 0, n)
    BY <1>1, <1>3, <1>5 DEF Linked
  <2>2. Linked(link', na', W, 0, 0) /\ Linked(link', nb', W, 0, 0)
    BY <1>1, <1>4 DEF Linked
  <2>3. many' = n /\ spot' = 0
    BY <1>1, <1>2, <1>4
  <2> QED
    BY <1>1, <2>1, <2>2, <2>3 DEF Hangs
<1>8. RunsSorted(W, 0, 0, 1)'
  <2>1. \A c \in Nat: Cut(W, c)'
    <3>1. many' = n /\ \A j \in 1 .. n: W[j] = j
      BY <1>1, <1>2, <1>5
    <3> QED
      BY <3>1 DEF Cut
  <2>2. ASSUME NEW p \in 1 .. n, NEW q \in 1 .. n, p < q PROVE ~Whole(p, q, 1)
    <3>1. p = p * 1 /\ p \in Nat
      OBVIOUS
    <3>2. Multiple(p, 1)
      BY <3>1 DEF Multiple
    <3> QED
      BY <2>2, <3>1, <3>2 DEF Whole
  <2>3. many' = n
    BY <1>1, <1>2
  <2> QED
    BY <2>1, <2>2, <2>3 DEF RunsSorted
<1>9. Passes(0, 1)'
  <2>1. Multiple(0, 2 * 1)
    BY MultipleZero
  <2> QED
    BY <2>1 DEF Passes
<1>10. Sorts(W, 0, 0, 0, 0, 1)'
  <2>1. many' = n /\ 0 <= n /\ 0 <= 0
    BY <1>1, <1>2
  <2> QED
    BY <1>1, <1>6, <1>7, <1>8, <1>9, <2>1 DEF Sorts
<1>11. Sorting'
  <2>1. 0 \in Nat /\ 1 \in Nat \ {0}
    OBVIOUS
  <2> QED
    BY <1>1, <1>10, <2>1 DEF Sorting
<1>12. ListsType'
  <2>1. rank' \in [Node -> Rank]
    BY <1>1 DEF ListsType
  <2>2. run' \in 0 .. 2 * MaxLen
    <3>1. x \in Node /\ n <= MaxLen /\ MaxLen \in Nat /\ Node = 1 .. MaxLen + 1
      BY <1>2, TypeIs
    <3> QED
      BY <1>1, <1>2, <1>4, <3>1
  <2>3. {first', nleft'} \subseteq Node \cup {0} /\ again' \in BOOLEAN
    BY <1>1 DEF ListsType
  <2> QED
    BY <1>1, <2>1, <2>2, <2>3 DEF ListsType
<1> QED
  BY <1>1, <1>11, <1>12

-----------------------------------------------------------------------------
(* Every step of a sort.                                                   *)

LEMMA SortingWith ==
  ASSUME tie' = -1, NEW W, NEW p1 \in Nat, NEW p2 \in Nat, NEW p3 \in Nat, NEW d \in Nat, NEW r \in Nat \ {0},
         Sorts(W, p1, p2, p3, d, r)'
  PROVE  Sorting'
BY DEF Sorting

LEMMA StoreType ==
  ASSUME ListsType, NEW y \in Node \cup {0}, Store(spot, y)
  PROVE  first' \in Node \cup {0} /\ link' \in [Node -> Node \cup {0}]
BY DEF Store, ListsType

LEMMA SortSteps ==
  ASSUME ListsType, Sorting, doing \in {"pass", "merge"},
         TakeRuns \/ LastRun \/ Merge \/ MergeEnds \/ PassEnds
  PROVE  /\ ListsType' /\ doing' \in {"pass", "merge", "sorted"}
         /\ doing' # "sorted" => Sorting'
         /\ doing' = "sorted" => \E n \in 0 .. many' + 1: \E Z \in [1 .. n -> Node]: Left(n, Z)'
<1>1. PICK n \in Nat: n = many
  BY TypeIs
<1>2. tie = -1 /\ \E W: \E p1, p2, p3, d \in Nat, r \in Nat \ {0}: Sorts(W, p1, p2, p3, d, r)
  BY DEF Sorting
<1>3. PICK W: \E p1, p2, p3, d \in Nat, r \in Nat \ {0}: Sorts(W, p1, p2, p3, d, r)
  BY <1>2
<1>4. PICK p1 \in Nat, p2 \in Nat, p3 \in Nat, d \in Nat, r \in Nat \ {0}: Sorts(W, p1, p2, p3, d, r)
  BY <1>3
<1>5. MaxLen \in Nat /\ n <= MaxLen /\ n \in 0 .. n
  BY <1>1, TypeIs
<1>6. CASE TakeRuns
  <2>1. doing = "pass" /\ doing' = "merge" /\ UNCHANGED <<tie, many, rank, first, spot, gone, member, run, again>>
    BY <1>6 DEF TakeRuns
  <2>2. /\ \E q2, q3 \in Nat: Sorts(W, p1, q2, q3, p1, r)'
        /\ {na', nb', nleft'} \subseteq Node \cup {0} /\ link' \in [Node -> Node \cup {0}]
    BY <1>1, <1>2, <1>4, <1>6, <2>1, RunsTaken
  <2>3. Sorting'
    BY <1>2, <2>1, <2>2, SortingWith
  <2>4. ListsType'
    BY <2>1, <2>2 DEF ListsType
  <2> QED
    BY <2>1, <2>3, <2>4
<1>7. CASE LastRun
  <2>1. doing = "pass" /\ Store(spot, nleft) /\ nleft' = 0
        /\ UNCHANGED <<tie, many, rank, spot, doing, gone, member, na, nb, run, again>>
    BY <1>7 DEF LastRun
  <2>2. Sorts(W, n, n, n, d, r)'
    BY <1>1, <1>2, <1>4, <1>7, <2>1, LastTaken
  <2>3. Sorting'
    BY <1>2, <2>1, <2>2, SortingWith
  <2>4. first' \in Node \cup {0} /\ link' \in [Node -> Node \cup {0}]
    <3>1. nleft \in Node \cup {0}
      BY DEF ListsType
    <3> QED
      BY <2>1, <3>1, StoreType
  <2>5. ListsType'
    BY <2>1, <2>4 DEF ListsType
  <2> QED
    BY <2>1, <2>3, <2>5
<1>8. CASE Merge
  <2>1. doing = "merge" /\ na # 0 /\ nb # 0 /\ UNCHANGED <<tie, many, rank, doing, gone, member, nleft, run, again>>
    BY <1>8 DEF Merge
  <2>2. {na, nb} \subseteq Node /\ link \in [Node -> Node \cup {0}]
    BY <2>1 DEF ListsType
  <2>3. CASE TakesFirst
    <3>1. Store(spot, na) /\ spot' = na /\ na' = link[na] /\ nb' = nb
      BY <1>8, <2>3 DEF Merge
    <3>2. Sorts(W, p1 + 1, p2, p3, d, r)' /\ p1 + 1 \in Nat
      <4>1. tie = -1 /\ doing = "merge" /\ na # 0 /\ nb # 0
        BY <1>2, <2>1
      <4>2. Sorts(W, p1 + 1, p2, p3, d, r)'
        BY <1>1, <1>4, <1>8, <2>3, <4>1, MergeFirst
      <4> QED
        BY <4>2
    <3>3. Sorting'
      BY <1>2, <2>1, <3>2, SortingWith
    <3>4. first' \in Node \cup {0} /\ link' \in [Node -> Node \cup {0}]
      BY <2>2, <3>1, StoreType
    <3>5. {spot', na', nb'} \subseteq Node \cup {0}
      BY <2>2, <3>1
    <3>6. ListsType'
      BY <2>1, <3>4, <3>5 DEF ListsType
    <3> QED
      BY <2>1, <3>3, <3>6
  <2>4. CASE ~TakesFirst
    <3>1. Store(spot, nb) /\ spot' = nb /\ nb' = link[nb] /\ na' = na
      BY <1>8, <2>4 DEF Merge
    <3>2. PICK V: V = Turned(W, n, p1, p2)
      OBVIOUS
    <3>3. Sorts(V, p1 + 1, p2 + 1, p3, d, r)' /\ p1 + 1 \in Nat /\ p2 + 1 \in Nat
      <4>1. tie = -1 /\ doing = "merge" /\ na # 0 /\ nb # 0
        BY <1>2, <2>1
      <4>2. Sorts(V, p1 + 1, p2 + 1, p3, d, r)'
        BY <1>1, <1>4, <1>8, <2>4, <3>2, <4>1, MergeSecond
      <4> QED
        BY <4>2
    <3>4. Sorting'
      BY <1>2, <2>1, <3>3, SortingWith
    <3>5. first' \in Node \cup {0} /\ link' \in [Node -> Node \cup {0}]
      BY <2>2, <3>1, StoreType
    <3>6. {spot', na', nb'} \subseteq Node \cup {0}
      BY <2>2, <3>1
    <3>7. ListsType'
      BY <2>1, <3>5, <3>6 DEF ListsType
    <3> QED
      BY <2>1, <3>4, <3>7
  <2> QED
    BY <2>3, <2>4
<1>9. CASE MergeEnds
  <2>1. /\ doing = "merge" /\ na' = 0 /\ nb' = 0 /\ again' = TRUE /\ doing' = "pass"
        /\ UNCHANGED <<tie, many, rank, gone, member, nleft, run>>
    BY <1>9 DEF MergeEnds
  <2>2. Sorts(W, p3, p3, p3, d, r)' /\ spot' \in Node \cup {0}
    BY <1>1, <1>2, <1>4, <1>9, <2>1, MergeRest
  <2>3. Sorting'
    BY <1>2, <2>1, <2>2, SortingWith
  <2>4. first' \in Node \cup {0} /\ link' \in [Node -> Node \cup {0}]
    <3>1. PICK rest: rest = IF na # 0 THEN na ELSE nb
      OBVIOUS
    <3>2. Store(spot, rest)
      BY <1>9, <3>1 DEF MergeEnds
    <3>3. rest \in Node \cup {0}
      BY <3>1 DEF ListsType
    <3> QED
      BY <3>2, <3>3, StoreType
  <2>5. ListsType'
    BY <2>1, <2>2, <2>4 DEF ListsType
  <2> QED
    BY <2>1, <2>3, <2>5
<1>10. CASE PassEnds
  <2>1. /\ doing = "pass" /\ spot' = 0 /\ again' = FALSE
        /\ UNCHANGED <<tie, many, rank, link, gone, member, na, nb>>
    BY <1>10 DEF PassEnds
  <2>2. CASE again
    <3>1. run' = 2 * run /\ nleft' = first /\ first' = 0 /\ doing' = "pass"
      BY <1>10, <2>2 DEF PassEnds
    <3>2. Sorts(W, 0, 0, 0, d, 2 * r)' /\ run' <= 2 * n
      BY <1>1, <1>2, <1>4, <1>10, <2>1, <2>2, PassAgain
    <3>3. Sorting'
      <4>1. 2 * r \in Nat \ {0} /\ 0 \in Nat
        OBVIOUS
      <4> QED
        BY <1>2, <2>1, <3>2, <4>1, SortingWith
    <3>4. run' \in 0 .. 2 * MaxLen
      <4>1. run \in Nat
        BY <1>5 DEF ListsType
      <4> QED
        BY <1>5, <3>1, <3>2, <4>1
    <3>5. {first', nleft'} \subseteq Node \cup {0}
      BY <3>1 DEF ListsType
    <3>6. ListsType'
      BY <2>1, <3>1, <3>4, <3>5 DEF ListsType
    <3> QED
      BY <3>1, <3>3, <3>6
  <2>3. CASE ~again
    <3>1. Left(n, W)' /\ doing' = "sorted" /\ W \in [1 .. n -> Node] /\ UNCHANGED <<run, nleft, first>>
      BY <1>1, <1>2, <1>4, <1>10, <2>1, <2>3, PassLast
    <3>2. n \in 0 .. many' + 1
      BY <1>1, <2>1
    <3>3. ListsType'
      BY <2>1, <3>1 DEF ListsType, Finished
    <3> QED
      BY <3>1, <3>2, <3>3
  <2> QED
    BY <2>2, <2>3
<1> QED
  BY <1>6, <1>7, <1>8, <1>9, <1>10

-----------------------------------------------------------------------------
(* The invariant holds, and says what ListKept says.                       *)

LEMMA ListsInitInv ==
  ASSUME ListsInit
  PROVE  ListsInv
<1>1. /\ tie \in {-1, 0} /\ many \in 0 .. MaxLen
      /\ rank \in [Node -> Rank] /\ (\A j, k \in 1 .. many: j < k => rank[j] <= rank[k])
      /\ link = [k \in Node |-> IF k < many THEN k + 1 ELSE 0]
      /\ first = IF many = 0 THEN 0 ELSE 1
  BY DEF ListsInit
<1>2. /\ spot = 0 /\ doing = "none" /\ gone = 0 /\ member = 0
      /\ na = 0 /\ nb = 0 /\ nleft = 0 /\ run = 0 /\ again = FALSE
  BY DEF ListsInit
<1>3. MaxLen \in Nat /\ Node = 1 .. MaxLen + 1
  BY ListsKnown
<1>4. link \in [Node -> Node \cup {0}]
  <2>1. \A k \in Node: (IF k < many THEN k + 1 ELSE 0) \in Node \cup {0}
    BY <1>1, <1>3
  <2> QED
    BY <1>1, <2>1
<1>5. first \in Node \cup {0} /\ run \in 0 .. 2 * MaxLen
  BY <1>1, <1>2, <1>3
<1>6. ListsType
  BY <1>1, <1>2, <1>4, <1>5 DEF ListsType
<1>7. Walks
  <2>1. AtFirst
    BY <1>1, <1>2 DEF AtFirst
  <2>2. spot \in 0 .. many
    BY <1>1, <1>2, <1>3
  <2> QED
    BY <1>2, <2>1, <2>2 DEF Walks
<1> QED
  BY <1>2, <1>6, <1>7 DEF ListsInv, Finished

LEMMA LeftSame ==
  ASSUME UNCHANGED listsVars, NEW n, NEW Z, Left(n, Z)
  PROVE  Left(n, Z)'
<1>1. UNCHANGED <<tie, many, rank, link, first, doing, gone>>
  BY DEF listsVars
<1>2. \A x, y: Behind(x, y)' <=> Behind(x, y)
  BY <1>1 DEF Behind
<1>3. LeftNodes' = LeftNodes
  BY <1>1 DEF LeftNodes
<1> QED
  BY <1>1, <1>2, <1>3 DEF Left

LEMMA ListsStepInv ==
  ASSUME ListsInv, [ListsNext]_listsVars
  PROVE  ListsInv'
<1>1. ListsType
  BY DEF ListsInv
<1>2. CASE doing = "none"
  <2>1. Walks
    BY <1>2 DEF ListsInv
  <2>2. ASSUME NEW k \in Rank, NEW x \in Node, AddBegins(k) \/ FindBegins(k) \/ DeleteBegins(x) PROVE ListsInv'
    <3>1. ListsType' /\ Walks' /\ doing' \in {"add", "find", "delete"}
      BY <1>1, <1>2, <2>1, <2>2, ListBegins
    <3> QED
      BY <3>1 DEF ListsInv, Finished
  <2>3. ASSUME NEW x \in Node, NEW k \in Rank, SortBegins(x, k) PROVE ListsInv'
    <3>1. ListsType' /\ Sorting' /\ doing' = "pass"
      BY <1>1, <1>2, <2>1, <2>3, SortStarts
    <3> QED
      BY <3>1 DEF ListsInv, Finished
  <2>4. CASE UNCHANGED listsVars
    <3>1. ListsType' /\ Walks'
      BY <1>1, <2>1, <2>4 DEF ListsType, Walks, AtFirst, Comparator, listsVars, sorting
    <3>2. doing' = "none"
      BY <1>2, <2>4 DEF listsVars
    <3> QED
      BY <3>1, <3>2 DEF ListsInv, Finished
  <2>5. ~(Advance \/ AddEnds \/ FindEnds \/ DeleteEnds \/ TakeRuns \/ LastRun \/ Merge \/ MergeEnds \/ PassEnds)
    BY <1>2 DEF Advance, AddEnds, FindEnds, DeleteEnds, TakeRuns, LastRun, Merge, MergeEnds, PassEnds
  <2>6. 0 \in Rank /\ Extra \in Node
    BY ListsKnown
  <2> QED
    BY <2>2, <2>3, <2>4, <2>5, <2>6 DEF ListsNext
<1>3. CASE doing \in {"add", "find", "delete"}
  <2>1. Walks
    BY <1>3 DEF ListsInv
  <2>2. CASE Advance
    <3>1. ListsType' /\ Walks' /\ doing' = doing
      BY <1>1, <2>1, <2>2, Advances
    <3> QED
      BY <1>3, <3>1 DEF ListsInv, Finished
  <2>3. CASE AddEnds
    <3>1. /\ ListsType' /\ doing' = "added"
          /\ \E n \in 0 .. many' + 1: \E Z \in [1 .. n -> Node]: Left(n, Z)'
      BY <1>1, <2>1, <2>3, Added
    <3> QED
      BY <3>1 DEF ListsInv
  <2>4. CASE FindEnds
    <3>1. /\ ListsType' /\ doing' = "found" /\ FoundFirst'
          /\ \E n \in 0 .. many' + 1: \E Z \in [1 .. n -> Node]: Left(n, Z)'
      BY <1>1, <2>1, <2>4, FindIs
    <3> QED
      BY <3>1 DEF ListsInv
  <2>5. CASE DeleteEnds
    <3>1. /\ ListsType' /\ doing' = "deleted"
          /\ \E n \in 0 .. many' + 1: \E Z \in [1 .. n -> Node]: Left(n, Z)'
      BY <1>1, <2>1, <2>5, Deleted
    <3> QED
      BY <3>1 DEF ListsInv
  <2>6. CASE UNCHANGED listsVars
    <3>1. ListsType' /\ Walks'
      BY <1>1, <2>1, <2>6 DEF ListsType, Walks, AtFirst, Comparator, listsVars, sorting
    <3>2. doing' = doing
      BY <2>6 DEF listsVars
    <3> QED
      BY <1>3, <3>1, <3>2 DEF ListsInv, Finished
  <2>7. ~(TakeRuns \/ LastRun \/ Merge \/ MergeEnds \/ PassEnds)
    BY <1>3 DEF TakeRuns, LastRun, Merge, MergeEnds, PassEnds
  <2>8. ~(\E k \in Rank: AddBegins(k)) /\ ~(\E k \in Rank: FindBegins(k)) /\ ~(\E x \in Node: DeleteBegins(x))
        /\ ~(\E x \in Node, k \in Rank: SortBegins(x, k))
    BY <1>3 DEF AddBegins, FindBegins, DeleteBegins, SortBegins, Starts
  <2> QED
    BY <2>2, <2>3, <2>4, <2>5, <2>6, <2>7, <2>8 DEF ListsNext
<1>4. CASE doing \in {"pass", "merge"}
  <2>1. Sorting
    BY <1>4 DEF ListsInv
  <2>2. CASE TakeRuns \/ LastRun \/ Merge \/ MergeEnds \/ PassEnds
    <3>1. /\ ListsType' /\ doing' \in {"pass", "merge", "sorted"}
          /\ doing' # "sorted" => Sorting'
          /\ doing' = "sorted" => \E n \in 0 .. many' + 1: \E Z \in [1 .. n -> Node]: Left(n, Z)'
      BY <1>1, <1>4, <2>1, <2>2, SortSteps
    <3> QED
      BY <3>1 DEF ListsInv, Finished
  <2>3. CASE UNCHANGED listsVars
    <3>1. UNCHANGED <<tie, many, rank, link, first, spot, doing, gone, member, na, nb, nleft, run, again>>
      BY <2>3 DEF listsVars, sorting
    <3>2. ListsType'
      BY <1>1, <3>1 DEF ListsType
    <3>3. Sorting'
      <4>1. PICK W: \E p1, p2, p3, d \in Nat, r \in Nat \ {0}: Sorts(W, p1, p2, p3, d, r)
        BY <2>1 DEF Sorting
      <4>2. PICK p1 \in Nat, p2 \in Nat, p3 \in Nat, d \in Nat, r \in Nat \ {0}: Sorts(W, p1, p2, p3, d, r)
        BY <4>1
      <4>3. Hangs(W, p1, p2, p3) => Hangs(W, p1, p2, p3)'
        BY <3>1 DEF Hangs
      <4>4. Passes(p3, r) => Passes(p3, r)'
        BY <3>1 DEF Passes
      <4>5. /\ RunsSorted(W, p1, p3, r) => RunsSorted(W, p1, p3, r)'
            /\ RunsMerge(W, p1, p2, p3, d, r) => RunsMerge(W, p1, p2, p3, d, r)'
            /\ Permutation(W) => Permutation(W)'
        BY <3>1, OrderSame
      <4>6. Sorts(W, p1, p2, p3, d, r)'
        BY <3>1, <4>2, <4>3, <4>4, <4>5 DEF Sorts
      <4>7. tie' = -1
        BY <2>1, <3>1 DEF Sorting
      <4> QED
        BY <4>6, <4>7, SortingWith
    <3> QED
      BY <1>4, <3>1, <3>2, <3>3 DEF ListsInv, Finished
  <2>4. ~(Advance \/ AddEnds \/ FindEnds \/ DeleteEnds)
    BY <1>4 DEF Advance, AddEnds, FindEnds, DeleteEnds
  <2>5. ~(\E k \in Rank: AddBegins(k)) /\ ~(\E k \in Rank: FindBegins(k)) /\ ~(\E x \in Node: DeleteBegins(x))
        /\ ~(\E x \in Node, k \in Rank: SortBegins(x, k))
    BY <1>4 DEF AddBegins, FindBegins, DeleteBegins, SortBegins, Starts
  <2> QED
    BY <2>2, <2>3, <2>4, <2>5 DEF ListsNext
<1>5. CASE doing \in Finished
  <2>1. UNCHANGED listsVars
    <3>1. ~(Advance \/ AddEnds \/ FindEnds \/ DeleteEnds \/ TakeRuns \/ LastRun \/ Merge \/ MergeEnds \/ PassEnds)
      BY <1>5 DEF Advance, AddEnds, FindEnds, DeleteEnds, TakeRuns, LastRun, Merge, MergeEnds, PassEnds, Finished
    <3>2. ~(\E k \in Rank: AddBegins(k)) /\ ~(\E k \in Rank: FindBegins(k)) /\ ~(\E x \in Node: DeleteBegins(x))
          /\ ~(\E x \in Node, k \in Rank: SortBegins(x, k))
      BY <1>5 DEF AddBegins, FindBegins, DeleteBegins, SortBegins, Starts, Finished
    <3> QED
      BY <3>1, <3>2 DEF ListsNext
  <2>2. UNCHANGED <<tie, many, rank, link, first, spot, doing, gone, member, na, nb, nleft, run, again>>
    BY <2>1 DEF listsVars, sorting
  <2>3. ListsType'
    BY <1>1, <2>2 DEF ListsType
  <2>4. \E n \in 0 .. many' + 1: \E Z \in [1 .. n -> Node]: Left(n, Z)'
    <3>1. PICK n \in 0 .. many + 1: \E Z \in [1 .. n -> Node]: Left(n, Z)
      BY <1>5 DEF ListsInv
    <3>2. PICK Z \in [1 .. n -> Node]: Left(n, Z)
      BY <3>1
    <3>3. Left(n, Z)'
      BY <2>1, <3>2, LeftSame
    <3> QED
      BY <2>2, <3>3
  <2>5. doing = "found" => FoundFirst'
    BY <2>2 DEF ListsInv, FoundFirst
  <2> QED
    BY <1>5, <2>2, <2>3, <2>4, <2>5 DEF ListsInv, Finished
<1> QED
  BY <1>1, <1>2, <1>3, <1>4, <1>5 DEF ListsType

(* What has been merged, up to the pointer to it.                          *)
LEMMA MergedIs ==
  ASSUME ListsType, doing \in {"pass", "merge"}, NEW n \in Nat, n = many,
         NEW p1 \in Nat, NEW p2 \in Nat, NEW p3 \in Nat, NEW d \in Nat, NEW r \in Nat \ {0},
         NEW W, Sorts(W, p1, p2, p3, d, r)
  PROVE  Merged = Piece(W, 0, p1)
<1>1. /\ p1 \in 0 .. n /\ p2 \in 0 .. n /\ p3 \in 0 .. n /\ p1 <= p2 /\ p2 <= p3
      /\ Permutation(W) /\ W \in [1 .. n -> 1 .. n]
  BY SortsIs, SMTT(30)
<1>2. n \in 0 .. MaxLen + 1 /\ W \in [1 .. n -> Node]
  BY <1>1, OfNodes
<1>3. CASE doing = "pass"
  <2>1. Linked(link, first, W, 0, p1)
    BY <1>3, PassedList
  <2>2. 0 \in 0 .. n /\ p1 \in 0 .. n
    BY <1>1
  <2>3. Chain(first) = Piece(W, 0, p1)
    BY <1>2, <2>1, <2>2, PieceChain
  <2> QED
    BY <1>3, <2>3 DEF Merged
<1>4. CASE doing = "merge" /\ p1 = 0
  <2>1. spot = 0
    BY <1>4, SortsSpot
  <2>2. Piece(W, 0, 0) = <<>>
    BY DEF Piece
  <2> QED
    BY <1>4, <2>1, <2>2 DEF Merged
<1>5. CASE doing = "merge" /\ p1 > 0
  <2>1. spot = W[p1] /\ spot # 0
    <3>1. spot = W[p1]
      BY <1>5, SortsSpot
    <3> QED
      BY <1>1, <1>5, <3>1
  <2>2. /\ first = W[1]
        /\ \A k \in 1 .. p1: k < p1 => link[W[k]] = W[k + 1]
        /\ Linked(link, na, W, p1, p2) /\ Linked(link, nb, W, p2, p3)
    BY <1>5, SortsHang
  <2>3. link[W[p1]] \in {0, na, nb}
    BY <1>5 DEF Sorts, Hangs
  <2>4. \E m \in p1 .. n: \E Z \in [1 .. m -> Node]:
          /\ Linked(link, first, Z, 0, m)
          /\ \A k \in 1 .. p1: Z[k] = W[k]
          /\ \A j, k \in 1 .. m: Z[j] = Z[k] => j = k
    <3>1. \E lo \in p1 .. n, hi \in p1 .. n: lo <= hi /\ Linked(link, link[W[p1]], W, lo, hi)
      <4>1. CASE link[W[p1]] = 0
        <5>1. Linked(link, link[W[p1]], W, p1, p1)
          BY <1>1, <4>1 DEF Linked
        <5> QED
          BY <1>1, <5>1
      <4>2. CASE link[W[p1]] = na
        BY <1>1, <2>2, <4>2
      <4>3. CASE link[W[p1]] = nb
        <5>1. p2 \in p1 .. n /\ p3 \in p1 .. n
          BY <1>1
        <5> QED
          BY <1>1, <2>2, <4>3, <5>1
      <4> QED
        BY <2>3, <4>1, <4>2, <4>3
    <3>2. PICK lo \in p1 .. n, hi \in p1 .. n: lo <= hi /\ Linked(link, link[W[p1]], W, lo, hi)
      BY <3>1
    <3>3. PICK m \in p1 .. n: m = p1 + (hi - lo)
      <4>1. p1 + (hi - lo) \in p1 .. n
        BY <3>2
      <4> QED
        BY <4>1
    <3>4. PICK Z: Z = [k \in 1 .. m |-> IF k <= p1 THEN W[k] ELSE W[k - p1 + lo]]
      OBVIOUS
    <3>5. \A k \in 1 .. m: Z[k] = (IF k <= p1 THEN W[k] ELSE W[k - p1 + lo])
                           /\ (IF k <= p1 THEN k ELSE k - p1 + lo) \in 1 .. n
      BY <1>1, <3>2, <3>3, <3>4
    <3>6. Z \in [1 .. m -> Node]
      BY <1>2, <3>4, <3>5
    <3>7. ASSUME NEW j \in 1 .. m, NEW k \in 1 .. m, Z[j] = Z[k] PROVE j = k
      <4>1. \A a, c \in 1 .. n: W[a] = W[c] => a = c
        BY <1>1 DEF Permutation
      <4>2. (IF j <= p1 THEN j ELSE j - p1 + lo) = (IF k <= p1 THEN k ELSE k - p1 + lo)
        <5>1. PICK a \in 1 .. n: a = IF j <= p1 THEN j ELSE j - p1 + lo
          BY <3>5
        <5>2. PICK c \in 1 .. n: c = IF k <= p1 THEN k ELSE k - p1 + lo
          BY <3>5
        <5>3. Z[j] = W[a] /\ Z[k] = W[c]
          BY <3>5, <5>1, <5>2
        <5> QED
          BY <3>7, <4>1, <5>1, <5>2, <5>3
      <4> QED
        BY <1>1, <3>2, <4>2
    <3>8. Linked(link, first, Z, 0, m)
      <4>1. first = IF 0 < m THEN Z[0 + 1] ELSE 0
        <5>1. 1 \in 1 .. m /\ 1 <= p1 /\ 0 < m
          BY <1>5, <3>3
        <5>2. Z[1] = W[1]
          BY <3>5, <5>1
        <5> QED
          BY <2>2, <5>1, <5>2
      <4>2. ASSUME NEW k \in 0 + 1 .. m PROVE link[Z[k]] = IF k < m THEN Z[k + 1] ELSE 0
        <5>0. k \in 1 .. m /\ (k < m => k + 1 \in 1 .. m)
          BY <3>3
        <5>1. CASE k < p1
          <6>1. k \in 1 .. p1 /\ k < m /\ k <= p1 /\ k + 1 <= p1
            BY <1>5, <3>3, <5>1
          <6>2. Z[k] = W[k] /\ Z[k + 1] = W[k + 1]
            BY <3>5, <5>0, <6>1
          <6> QED
            BY <2>2, <5>1, <6>1, <6>2
        <5>2. CASE k = p1
          <6>1. Z[k] = W[p1]
            BY <3>5, <5>0, <5>2
          <6>2. link[W[p1]] = IF lo < hi THEN W[lo + 1] ELSE 0
            BY <3>2 DEF Linked
          <6>3. (k < m <=> lo < hi) /\ (k < m => ~(k + 1 <= p1) /\ k + 1 - p1 + lo = lo + 1)
            BY <1>5, <3>2, <3>3, <5>2
          <6>4. k < m => Z[k + 1] = W[lo + 1]
            BY <3>5, <5>0, <6>3
          <6> QED
            BY <6>1, <6>2, <6>3, <6>4
        <5>3. CASE k > p1
          <6>1. PICK t \in lo + 1 .. hi: t = k - p1 + lo
            <7>1. k - p1 + lo \in lo + 1 .. hi
              BY <3>2, <3>3, <5>0, <5>3
            <7> QED
              BY <7>1
          <6>2. ~(k <= p1) /\ ~(k + 1 <= p1) /\ (k < m <=> t < hi) /\ k + 1 - p1 + lo = t + 1
            BY <3>2, <3>3, <5>0, <5>3, <6>1
          <6>3. Z[k] = W[t] /\ (k < m => Z[k + 1] = W[t + 1])
            BY <3>5, <5>0, <6>1, <6>2
          <6>4. link[W[t]] = IF t < hi THEN W[t + 1] ELSE 0
            BY <3>2, <6>1 DEF Linked
          <6> QED
            BY <6>2, <6>3, <6>4
        <5> QED
          BY <1>5, <5>0, <5>1, <5>2, <5>3
      <4> QED
        BY <4>1, <4>2 DEF Linked
    <3>9. \A k \in 1 .. p1: Z[k] = W[k]
      <4>1. \A k \in 1 .. p1: k \in 1 .. m /\ k <= p1
        BY <3>3
      <4> QED
        BY <3>5, <4>1
    <3> QED
      BY <3>6, <3>7, <3>8, <3>9
  <2>5. PICK m \in p1 .. n: \E Z \in [1 .. m -> Node]:
          /\ Linked(link, first, Z, 0, m)
          /\ \A k \in 1 .. p1: Z[k] = W[k]
          /\ \A j, k \in 1 .. m: Z[j] = Z[k] => j = k
    BY <2>4
  <2>6. PICK Z \in [1 .. m -> Node]:
          /\ Linked(link, first, Z, 0, m)
          /\ \A k \in 1 .. p1: Z[k] = W[k]
          /\ \A j, k \in 1 .. m: Z[j] = Z[k] => j = k
    BY <2>5
  <2>7. Chain(first) = Z
    <3>1. m \in 0 .. MaxLen + 1
      <4>1. n <= MaxLen + 1 /\ MaxLen \in Nat
        BY <1>2, ListsKnown
      <4>2. m \in Nat /\ m <= n
        BY <1>1, <2>5
      <4> QED
        BY <4>1, <4>2
    <3>2. Linked(link, first, Z, 0, m)
      BY <2>6
    <3> QED
      BY <3>1, <3>2, ChainIs
  <2>8. p1 \in 1 .. m /\ Z[p1] = spot /\ DOMAIN Z = 1 .. m /\ p1 \in 1 .. p1
    BY <1>1, <1>5, <2>1, <2>6
  <2>9. (CHOOSE k \in DOMAIN Z: Z[k] = spot) = p1
    <3>1. \A k \in DOMAIN Z: Z[k] = spot <=> k = p1
      BY <2>6, <2>8
    <3> QED
      BY <2>8, <3>1
  <2>10. Merged = SubSeq(Z, 1, p1)
    BY <1>5, <2>1, <2>7, <2>9 DEF Merged
  <2>11. SubSeq(Z, 1, p1) = [k \in 1 .. p1 |-> Z[k]]
    BY <2>8
  <2>12. Piece(W, 0, p1) = [k \in 1 .. p1 |-> W[k]]
    BY <1>1 DEF Piece
  <2>13. [k \in 1 .. p1 |-> Z[k]] = [k \in 1 .. p1 |-> W[k]]
    BY <2>6
  <2> QED
    BY <2>10, <2>11, <2>12, <2>13, Zenon
<1> QED
  BY <1>1, <1>3, <1>4, <1>5

LEMMA ListsEnd ==
  ASSUME ListsInv
  PROVE  ListKept
<1>1. ListsType
  BY DEF ListsInv
<1>2. PICK n \in Nat: n = many
  BY <1>1, TypeIs
<1>3. OperationDone
  <2> SUFFICES ASSUME doing \in Finished PROVE OperationDone
    BY DEF OperationDone
  <2>1. PICK m \in 0 .. many + 1: \E Z \in [1 .. m -> Node]: Left(m, Z)
    BY DEF ListsInv
  <2>2. PICK Z \in [1 .. m -> Node]: Left(m, Z)
    BY <2>1
  <2>3. m \in 0 .. MaxLen + 1
    BY <1>1, TypeIs
  <2>4. Chain(first) = Z
    BY <2>2, <2>3, ChainIs DEF Left
  <2>5. DOMAIN Z = 1 .. m
    OBVIOUS
  <2>6. \A j, k \in DOMAIN Z: j < k => Behind(Z[j], Z[k])
    BY <2>2, <2>5 DEF Left
  <2>7. Nodes(Z) = LeftNodes
    BY <2>2 DEF Left
  <2>8. doing = "found" => FoundFirst
    BY DEF ListsInv
  <2> QED
    BY <2>4, <2>6, <2>7, <2>8 DEF OperationDone, LeftNodes, FoundFirst
<1>4. NothingLost
  <2> SUFFICES ASSUME doing \in {"pass", "merge"} PROVE NothingLost
    BY DEF NothingLost
  <2>1. PICK W: \E p1, p2, p3, d \in Nat, r \in Nat \ {0}: Sorts(W, p1, p2, p3, d, r)
    BY DEF ListsInv, Sorting
  <2>2. PICK p1 \in Nat, p2 \in Nat, p3 \in Nat, d \in Nat, r \in Nat \ {0}: Sorts(W, p1, p2, p3, d, r)
    BY <2>1
  <2>3. /\ p1 \in 0 .. n /\ p2 \in 0 .. n /\ p3 \in 0 .. n /\ p1 <= p2 /\ p2 <= p3
        /\ Permutation(W) /\ W \in [1 .. n -> 1 .. n]
    BY <1>1, <1>2, <2>2, SortsIs
  <2>4. Linked(link, na, W, p1, p2) /\ Linked(link, nb, W, p2, p3) /\ Linked(link, nleft, W, p3, n)
    BY <1>1, <1>2, <2>2, SortsHang
  <2>5. n \in 0 .. MaxLen + 1 /\ W \in [1 .. n -> Node]
    BY <1>1, <1>2, <2>3, OfNodes
  <2>6. Chain(na) = Piece(W, p1, p2)
    <3>1. p2 \in p1 .. n
      BY <2>3
    <3> QED
      BY <2>3, <2>4, <2>5, <3>1, PieceChain
  <2>7. Chain(nb) = Piece(W, p2, p3)
    <3>1. p3 \in p2 .. n
      BY <2>3
    <3> QED
      BY <2>3, <2>4, <2>5, <3>1, PieceChain
  <2>8. Chain(nleft) = Piece(W, p3, n)
    <3>1. n \in p3 .. n
      BY <2>3
    <3> QED
      BY <2>3, <2>4, <2>5, <3>1, PieceChain, SMTT(30)
  <2>9. Merged = Piece(W, 0, p1)
    BY <1>1, <1>2, <2>2, MergedIs
  <2>10. Merged \o Chain(na) \o Chain(nb) \o Chain(nleft) = Piece(W, 0, n)
    <3>1. Piece(W, 0, p1) \o Piece(W, p1, p2) = Piece(W, 0, p2)
      <4>1. 0 \in 0 .. n /\ p1 \in 0 .. n /\ p2 \in p1 .. n
        BY <2>3
      <4> QED
        BY <2>5, <4>1, PiecesJoin
    <3>2. Piece(W, 0, p2) \o Piece(W, p2, p3) = Piece(W, 0, p3)
      <4>1. 0 \in 0 .. n /\ p2 \in 0 .. n /\ p3 \in p2 .. n
        BY <2>3
      <4> QED
        BY <2>5, <4>1, PiecesJoin, SMTT(30)
    <3>3. Piece(W, 0, p3) \o Piece(W, p3, n) = Piece(W, 0, n)
      <4>1. 0 \in 0 .. n /\ p3 \in 0 .. n /\ n \in p3 .. n
        BY <2>3
      <4> QED
        BY <2>5, <4>1, PiecesJoin
    <3> QED
      BY <2>6, <2>7, <2>8, <2>9, <3>1, <3>2, <3>3, Zenon
  <2>11. PICK Z: Z = Piece(W, 0, n)
    OBVIOUS
  <2>12. DOMAIN Z = 1 .. n /\ \A k \in 1 .. n: Z[k] = W[k]
    BY <2>11 DEF Piece
  <2>13. \A j, k \in DOMAIN Z: Z[j] = Z[k] => j = k
    BY <2>3, <2>12 DEF Permutation
  <2>14. Nodes(Z) = 1 .. many
    <3>1. \A x: x \in Nodes(Z) <=> \E k \in 1 .. n: x = W[k]
      BY <2>12 DEF Nodes
    <3>2. \A x \in 1 .. n: \E k \in 1 .. n: W[k] = x
      BY <1>2, <2>3 DEF Permutation
    <3>3. \A x: x \in Nodes(Z) <=> x \in 1 .. n
      BY <2>3, <3>1, <3>2
    <3> QED
      BY <1>2, <3>3
  <2> QED
    BY <2>10, <2>11, <2>13, <2>14 DEF NothingLost
<1> QED
  BY <1>1, <1>3, <1>4 DEF ListKept

(* A list in which something is added, found or deleted, or which is       *)
(* sorted, loses nothing and ends in order, for any list.                  *)
THEOREM ListsStayKept == ListsSpec => []ListKept
<1>1. ListsInit => ListsInv
  BY ListsInitInv
<1>2. ListsInv /\ [ListsNext]_listsVars => ListsInv'
  BY ListsStepInv
<1>3. ListsInv => ListKept
  BY ListsEnd
<1> QED
  BY <1>1, <1>2, <1>3, PTL DEF ListsSpec
=============================================================================
