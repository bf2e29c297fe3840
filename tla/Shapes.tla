------------------------------- MODULE Shapes -------------------------------
(***************************************************************************)
(* How the shapes of a body are made from the table that game code assigns *)
(* to it (src/src/game/g_physics.c, g_physics_polygon.c, _circle.c,        *)
(* _segment.c): one pass through the table, inside the frame that Lua has  *)
(* made for __newindex, which has room for a number of values that nobody  *)
(* checks.  A polygon copies its vertices twice and gives both copies      *)
(* back; Chipmunk ends the program if they are not convex and clockwise    *)
(* (src/3rd/chipmunk/cpPolyShape.c), and the program ends itself when      *)
(* there is no memory for the body.                                        *)
(*                                                                         *)
(* Numbers are left out; a polygon has vertices.  That the space and the   *)
(* entities agree on the shapes is in Physics.                             *)
(***************************************************************************)
EXTENDS Integers, FiniteSets, Sequences, Functions

CONSTANTS
  MaxTable,   (* Bound: entries of a table.                                  *)
  Room        (* The values that may be pushed in the frame: LUA_MINSTACK    *)
              (* less the __ref of the entity.                               *)

ASSUME ShapesAssumption == MaxTable \in Nat \ {0} /\ Room \in Nat \ {0}

VARIABLES
  given,      (* The table: what its entries describe,                       *)
  bad,        (* and which of its polygons are concave or wound the wrong way. *)
  entry,      (* The entry that is read, i + 1 of the loop.                  *)
  doing,      (* Where in the pass the code is.                              *)
  pushed,     (* What stands in the frame.                                   *)
  copies,     (* The copies of a polygon's coordinates that are allocated.   *)
  mades,      (* data->shapes: the entries that became shapes.               *)
  refused,    (* History: the entries whose copies could not be allocated.   *)
  has         (* ent->physics_data is there.                                 *)

shapesVars == <<given, bad, entry, doing, pushed, copies, mades, refused, has>>

(* The pass and the program end.                                           *)
Halted == {"overrun", "aborted", "crashed"}

Known == {"polygon", "circle", "segment"}
Kind  == Known \cup {"unknown", "no table"}
Tables == UNION {[1 .. n -> Kind]: n \in 0 .. MaxTable}

ShapesInit ==
  /\ given = <<>> /\ bad = {} /\ entry = 1 /\ doing = "lua"
  /\ pushed = <<>> /\ copies = {} /\ mades = <<>> /\ refused = {} /\ has = FALSE

-----------------------------------------------------------------------------
(* body = a table, or nil, or something else.                              *)

(* The body before is freed; the data of the new one, if the table has     *)
(* entries, may find no memory, and is written to all the same.            *)
Polygons(t) == {i \in DOMAIN t: t[i] = "polygon"}

AssignTable(t, b, found) ==
  /\ doing = "lua" /\ b \subseteq Polygons(t)
  /\ given' = t /\ bad' = b /\ entry' = 1
  /\ mades' = <<>> /\ refused' = {}
  /\ has' = (t # <<>> /\ found)
  /\ doing' = IF t = <<>> THEN "lua" ELSE IF found THEN "loop" ELSE "crashed"
  /\ UNCHANGED <<pushed, copies>>

(* The entry is pushed, and later at most a vector above it and a number   *)
(* above that.                                                             *)
Fits == Len(pushed) + 3 <= Room

FetchEntry ==
  /\ doing = "loop" /\ entry <= Len(given) /\ Fits
  /\ pushed' = Append(pushed, "entry")
  /\ doing' = given[entry]
  /\ UNCHANGED <<given, bad, entry, copies, mades, refused, has>>

(* Lua's stack goes on behind ci->top or it does not: the model stops.     *)
Overrun ==
  /\ doing = "loop" /\ entry <= Len(given) /\ ~Fits
  /\ doing' = "overrun"
  /\ UNCHANGED <<given, bad, entry, pushed, copies, mades, refused, has>>

(* Fault: nothing is popped.                                               *)
Unpopped == pushed

(* The lua_pop that ends the round, of whatever is on top.                 *)
Popped == SubSeq(pushed, 1, Len(pushed) - 1)
EndRound ==
  /\ entry' = entry + 1 /\ doing' = "loop"

SkipEntry ==
  /\ doing \in {"unknown", "no table"}
  /\ EndRound /\ pushed' = Popped
  /\ UNCHANGED <<given, bad, copies, mades, refused, has>>

(* Circle and segment pop all they push.                                   *)
MakeRound ==
  /\ doing \in {"circle", "segment"}
  /\ EndRound /\ pushed' = Popped
  /\ mades' = Append(mades, entry)
  /\ UNCHANGED <<given, bad, copies, refused, has>>

(* The vertices are pushed, and nobody pops them.                          *)
CopyData ==
  /\ doing = "polygon" /\ copies = {}
  /\ copies' = {"data"} /\ pushed' = Append(pushed, "vertices")
  /\ UNCHANGED <<given, bad, entry, doing, mades, refused, has>>

CopyVertices ==
  /\ doing = "polygon" /\ copies = {"data"}
  /\ copies' = {"data", "vertices"}
  /\ UNCHANGED <<given, bad, entry, doing, pushed, mades, refused, has>>

(* cpPolyShapeInit asserts cpPolyValidate before it makes the shape.       *)
MakePolygon ==
  /\ doing = "polygon" /\ copies = {"data", "vertices"} /\ entry \notin bad
  /\ EndRound /\ pushed' = Popped
  /\ copies' = {} /\ mades' = Append(mades, entry)
  /\ UNCHANGED <<given, bad, refused, has>>

Invalid ==
  /\ doing = "polygon" /\ copies = {"data", "vertices"} /\ entry \in bad
  /\ doing' = "aborted"
  /\ UNCHANGED <<given, bad, entry, pushed, copies, mades, refused, has>>

(* Either of the copies cannot be allocated; the first is given back.      *)
NoCopy ==
  /\ doing = "polygon" /\ copies \in {{}, {"data"}}
  /\ EndRound /\ pushed' = IF copies = {} THEN pushed ELSE Popped
  /\ copies' = {} /\ refused' = refused \cup {entry}
  /\ UNCHANGED <<given, bad, mades, has>>

(* A body without shapes is freed; the frame ends with __newindex.         *)
EndTable ==
  /\ doing = "loop" /\ entry > Len(given)
  /\ has' = (mades # <<>>)
  /\ doing' = "lua" /\ pushed' = <<>>
  /\ UNCHANGED <<given, bad, entry, copies, mades, refused>>

ShapesNext ==
  \/ \E t \in Tables: \E b \in SUBSET Polygons(t), found \in BOOLEAN: AssignTable(t, b, found)
  \/ FetchEntry
  \/ Overrun
  \/ SkipEntry
  \/ MakeRound
  \/ CopyData
  \/ CopyVertices
  \/ MakePolygon
  \/ Invalid
  \/ NoCopy
  \/ EndTable
  \/ doing \in Halted /\ UNCHANGED shapesVars

ShapesSpec == ShapesInit /\ [][ShapesNext]_shapesVars

-----------------------------------------------------------------------------
(* Properties.                                                             *)

(* The entries before this one of a kind.                                  *)
Before(kinds) == {i \in 1 .. (entry - 1): given[i] \in kinds}

(* Whatever the table has, each entry of a known kind becomes one shape,   *)
(* in the order of the table, but for those that found no memory; no       *)
(* polygon that Chipmunk refuses becomes one: the pass gets by it only for *)
(* want of memory, and ends at the first it has copied.  A body without    *)
(* shapes is not kept.  Between the rounds no copy is allocated, and what  *)
(* stands in the frame is one value for each polygon, so that only a body  *)
(* with more polygons than the frame has room for overruns it              *)
(* (g_physics_polygon.c:40; api_incr_top of lapi.c:45 asserts the room).   *)
(* The program crashes with the old body gone and no new one.              *)
ShapesMade ==
  /\ doing \in {"lua", "loop"} \cup Halted =>
       /\ Range(mades) = Before(Known) \ refused
       /\ \A i, j \in DOMAIN mades: i < j => mades[i] < mades[j]
       /\ bad \cap 1 .. (entry - 1) \subseteq refused
       /\ copies = {} \/ doing = "aborted"
  /\ doing = "loop" => Len(pushed) = Cardinality(Before({"polygon"}))
  /\ doing = "lua" => has = (mades # <<>>)
  /\ doing = "overrun" => Cardinality(Before({"polygon"})) > Room - 3
  /\ doing = "aborted" => entry \in bad \ refused
  /\ doing = "crashed" => mades = <<>> /\ ~has
  /\ Len(pushed) <= Room
=============================================================================
