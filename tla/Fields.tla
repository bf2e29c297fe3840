------------------------------- MODULE Fields -------------------------------
(***************************************************************************)
(* The fields of an entity as game code sees them (src/src/game/g_main.c,  *)
(* g_field.c, g_entity.c, g_render.c).  A field that belongs to the        *)
(* renderer that is set lives in a C structure; any other assignment goes  *)
(* into the Lua table __data.  When the renderer changes, the fields move. *)
(*                                                                         *)
(* A value is <<"n", x>>, <<"v", x, y ...>>, WORD or NONE.  Numbers count  *)
(* halves, so that a field of whole numbers can be told from one that is   *)
(* not.  Strings, which leave pointers behind, are in Sprites and Fonts,   *)
(* what the callbacks do in the modules of the renderers.                  *)
(***************************************************************************)
EXTENDS Integers, Sequences, Shared

CONSTANTS
  Table,      (* Table[p]: the fields of renderer p in order; Table["common"]*)
              (* those that all have.  A field has a name, the scalar fields *)
              (* it covers (itself, or the components of a vector), a        *)
              (* default (of a scalar) and whether it is whole (INTEGER).    *)
  Given,      (* Given[n]: the values that game code assigns to name n.      *)
  WORD        (* A value of any other type, nil among them.                  *)

Rends  == DOMAIN Table \ {"common"}
FieldSet(tab) == {tab[j]: j \in DOMAIN tab}
AllFields == UNION {FieldSet(Table[p]): p \in DOMAIN Table}
FieldName == {f.name: f \in AllFields}
Scalar    == UNION {{f.covers[j]: j \in DOMAIN f.covers}: f \in AllFields}
Vector(f) == f.covers # <<f.name>>
Covered(f) == {f.covers[j]: j \in DOMAIN f.covers}
CommonScalar == UNION {Covered(f): f \in FieldSet(Table["common"])}

IsNumber(v) == v \notin {NONE, WORD} /\ v[1] = "n"
IsVector(v) == v \notin {NONE, WORD} /\ v[1] = "v"

(* Its value has the type of the field, as check asks.                     *)
Fits(f, v) == IF Vector(f) THEN IsVector(v) ELSE IsNumber(v)

(* The tables as they are written: a name is there once; the components of *)
(* a vector are doubles, each a field behind the vector; renderers share   *)
(* only names of scalars, and none with the common fields, of which none   *)
(* is whole.                                                               *)
Known(tab) ==
  /\ tab \in Seq(AllFields)
  /\ \A i, j \in DOMAIN tab:
       /\ tab[i].name = tab[j].name => i = j
       /\ Vector(tab[i]) /\ Vector(tab[j]) /\ Covered(tab[i]) \cap Covered(tab[j]) # {} => i = j
  /\ \A i \in DOMAIN tab: Vector(tab[i]) =>
       /\ ~tab[i].whole
       /\ \A c \in Covered(tab[i]): \E j \in DOMAIN tab:
            i < j /\ tab[j].name = c /\ ~Vector(tab[j]) /\ ~tab[j].whole
Names(f) == {f.name} \cup Covered(f)
Shares(p, q) ==
  \A f \in FieldSet(Table[p]), g \in FieldSet(Table[q]):
    Names(f) \cap Names(g) # {} => "common" \notin {p, q} /\ ~Vector(f) /\ ~Vector(g)

ASSUME FieldsAssumption ==
  /\ "common" \in DOMAIN Table /\ NONE \notin DOMAIN Table /\ NONE \notin Int
  /\ NONE \notin Seq(Int \cup {"n", "v"}) /\ WORD \notin Seq(Int \cup {"n", "v"})
  /\ \A f \in AllFields:
       /\ f.default \in Int /\ f.whole \in BOOLEAN /\ f.covers \in Seq(FieldName)
       /\ \A i, j \in DOMAIN f.covers: f.covers[i] = f.covers[j] => i = j
       /\ \A v \in Given[f.name]: Fits(f, v) => \A j \in DOMAIN f.covers: v[j + 1] \in Int
  /\ \A p \in DOMAIN Table: Known(Table[p])
  /\ \A p, q \in DOMAIN Table: p # q => Shares(p, q)
  /\ \A f \in FieldSet(Table["common"]): ~f.whole

VARIABLES
  rend,       (* The renderer, NONE without render_data.                     *)
  rdata,      (* render_data: the scalars of the renderer's and common fields*)
  udata,      (* __data.                                                     *)
  wish,       (* History: what each scalar was last given; NONE.             *)
  reverts,    (* History: common scalars given while there was a renderer.   *)
  broken      (* History: scalars that are not as wished, for a reason.      *)

fieldsVars == <<rend, rdata, udata, wish, reverts, broken>>

FieldsInit ==
  /\ rend = NONE
  /\ rdata = [c \in Scalar |-> 0]
  /\ udata = [n \in FieldName |-> NONE]
  /\ wish = [c \in Scalar |-> NONE]
  /\ reverts = {} /\ broken = {}

-----------------------------------------------------------------------------
(* One field.                                                              *)

(* The search through ent_fields for the first field of that name whose    *)
(* data is there; renderers share names.                                   *)
Located(n) == IF rend = NONE THEN {}
              ELSE {f \in FieldSet(Table[rend]) \cup FieldSet(Table["common"]): f.name = n}

(* lua_tonumber, lua_tointeger and g_pop_vector: 0 for what does not fit.  *)
Whole(f, x) == IF f.whole THEN 2 * (x \div 2) ELSE x
Part(f, v, j) == IF Fits(f, v) THEN Whole(f, v[j + 1]) ELSE 0

(* g_pop_field into the cells.                                             *)
Popped(cells, f, v) ==
  [c \in Scalar |-> IF \E j \in DOMAIN f.covers: f.covers[j] = c
                    THEN Part(f, v, CHOOSE j \in DOMAIN f.covers: f.covers[j] = c)
                    ELSE cells[c]]

(* g_push_field.                                                           *)
Pushed(cells, f) ==
  <<IF Vector(f) THEN "v" ELSE "n">> \o [j \in DOMAIN f.covers |-> cells[f.covers[j]]]

(* ent.n = v, ent_lua_newindex.                                            *)
AssignData(n, v) ==
  \E f \in Located(n):
    /\ rdata' = Popped(rdata, f, v)
    /\ wish' = [c \in Scalar |-> IF c \in Covered(f) THEN rdata'[c] ELSE wish[c]]
    /\ reverts' = reverts \cup (Covered(f) \cap CommonScalar)
    /\ broken' = broken \ Covered(f)
    /\ UNCHANGED <<rend, udata>>

(* History: a vector does not reach a renderer past a component that is    *)
(* there already, and a value of the wrong type reaches none.              *)
Shadowed(f, v) ==
  \/ ~Fits(f, v)
  \/ Vector(f) /\ \E c \in Covered(f): udata[c] # NONE

AssignUnset(n, v) ==
  /\ Located(n) = {}
  /\ udata' = [udata EXCEPT ![n] = v]
  /\ LET f == CHOOSE g \in AllFields: g.name = n
         given == [c \in Scalar |->
                     IF c \in Covered(f) THEN v[1 + CHOOSE j \in DOMAIN f.covers: f.covers[j] = c]
                     ELSE wish[c]]
     IN  IF Shadowed(f, v)
         THEN broken' = broken \cup Covered(f) /\ wish' = wish
         ELSE broken' = broken \ Covered(f) /\ wish' = given
  /\ UNCHANGED <<rend, rdata, reverts>>

-----------------------------------------------------------------------------
(* The renderer.                                                           *)

(* Fault: the first field of the table is not pushed.                      *)
PushedBut(old) ==
  [n \in FieldName |->
     IF old # NONE /\ \E j \in DOMAIN Table[old] \ {1}: Table[old][j].name = n
     THEN Pushed(rdata, CHOOSE f \in FieldSet(Table[old]): f.name = n)
     ELSE udata[n]]

(* g_fields_push of the old renderer's own fields.                         *)
PushedAll(old) ==
  [n \in FieldName |->
     IF old # NONE /\ \E f \in FieldSet(Table[old]): f.name = n
     THEN Pushed(rdata, CHOOSE f \in FieldSet(Table[old]): f.name = n)
     ELSE udata[n]]

(* g_fields_set_default_values and g_fields_pop with check, field by field *)
(* in the order of the table: of those that write to a cell and have a     *)
(* value, the last one stays: a component's own, else its vector's.        *)
Defaults(cells, tab) ==
  [c \in Scalar |-> IF \E f \in FieldSet(tab): f.name = c /\ ~Vector(f)
                    THEN (CHOOSE f \in FieldSet(tab): f.name = c).default
                    ELSE cells[c]]
Writes(tab, kept, c) == {j \in DOMAIN tab: c \in Covered(tab[j]) /\ Fits(tab[j], kept[tab[j].name])}
PoppedAll(cells, tab, kept) ==
  [c \in Scalar |->
     IF Writes(tab, kept, c) = {} THEN cells[c]
     ELSE LET last == CHOOSE j \in Writes(tab, kept, c): \A i \in Writes(tab, kept, c): i <= j
          IN  Popped(cells, tab[last], kept[tab[last].name])[c]]

(* The cells after mem_alloc, the defaults and __data.                     *)
Fresh(p, kept) ==
  LET zero == [c \in Scalar |-> 0]
      dflt == Defaults(Defaults(zero, Table["common"]), Table[p])
  IN  PoppedAll(PoppedAll(dflt, Table["common"], kept), Table[p], kept)

(* render_set_callback.  History: a scalar never given is now what the     *)
(* first renderer that has it makes it, and in whole numbers from the      *)
(* first on that keeps it so; the common ones go back to what they were    *)
(* before there was a renderer.                                            *)
Owned(p) == IF p = NONE THEN {} ELSE UNION {Covered(f): f \in FieldSet(Table[p])}
WholeIn(p, c, x) ==
  IF \E f \in FieldSet(Table[p]): f.name = c THEN Whole(CHOOSE f \in FieldSet(Table[p]): f.name = c, x)
  ELSE x

ChangeRender(p) ==
  /\ rend' = p
  /\ udata' = PushedAll(rend)
  /\ rdata' = IF p = NONE THEN [c \in Scalar |-> 0] ELSE Fresh(p, udata')
  /\ LET left == [c \in Scalar |-> IF wish[c] = NONE /\ c \in Owned(rend) \ broken
                                   THEN rdata[c] ELSE wish[c]]
     IN  wish' = [c \in Scalar |-> IF left[c] # NONE /\ c \in Owned(p)
                                   THEN WholeIn(p, c, left[c]) ELSE left[c]]
  /\ broken' = IF rend = NONE THEN broken ELSE broken \cup reverts
  /\ reverts' = IF rend = NONE THEN reverts ELSE {}

FieldsNext ==
  \/ \E n \in FieldName: \E v \in Given[n]: AssignData(n, v)
  \/ \E n \in FieldName: \E v \in Given[n]: AssignUnset(n, v)
  \/ \E p \in Rends \cup {NONE}: ChangeRender(p)

FieldsSpec == FieldsInit /\ [][FieldsNext]_fieldsVars

-----------------------------------------------------------------------------
(* Properties.                                                             *)

FieldsType ==
  /\ rend \in Rends \cup {NONE}
  /\ rdata \in [Scalar -> Int] /\ DOMAIN udata = FieldName
  /\ DOMAIN wish = Scalar /\ reverts \subseteq Scalar /\ broken \subseteq Scalar

(* Whatever renderers an entity has had and whenever the field was set, a  *)
(* scalar of the renderer it has now is what game code gave it last, alone *)
(* or as part of a vector, or its default; but for the losses in broken.   *)
FieldsKept ==
  /\ FieldsType
  /\ rend # NONE =>
    \A f \in FieldSet(Table[rend]) \cup FieldSet(Table["common"]):
      f.name \in Scalar \ broken =>
        rdata[f.name] = IF wish[f.name] = NONE THEN f.default ELSE wish[f.name]
=============================================================================
