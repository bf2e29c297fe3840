------------------------------ MODULE LuaStack ------------------------------
(***************************************************************************)
(* The stack over which the engine and Lua pass values                     *)
(* (src/src/game/g_main.c and whoever uses g_lua_call).  Every C function  *)
(* that Lua calls has a frame of its own; the engine itself has the lowest *)
(* one, which outlives all calls: what a call leaves there, or takes too   *)
(* much, the next call finds.  In a frame, cell 1 is the base, cell 0 the  *)
(* function that the frame belongs to, and below is memory of somebody     *)
(* else.  Cells above the top keep what they held, and are read once.      *)
(*                                                                         *)
(* Left out: C functions other than execute, whose frames nobody calls     *)
(* from; coroutines; g_shutdown, the last call of all.                     *)
(***************************************************************************)
EXTENDS Integers, SequencesExt, Shared

CONSTANTS
  MainReturns,    (* How many values main.lua may return.                    *)
  MaxFrames,      (* Bound: calls of execute within each other.              *)
  MaxLeft         (* Bound: values that calls have left on a stack.          *)

ASSUME LuaStackAssumption ==
  MainReturns \subseteq 0..2 /\ MaxFrames \in Nat /\ MaxLeft \in Nat \ {0}

Site  == {"main", "mouse", "touch", "think", "cmd"}
Value == Site \cup {"nil", "data", "ent", "arg", "yes", "no", "traceback", "message", "junk"}
Cells == 0..(MaxLeft + 8)

VARIABLES
  stack,      (* The engine's frame and those of execute, the last one runs. *)
  gUp,        (* g_i.                                                        *)
  missed,     (* History: the sites whose function was not what was called.  *)
  said,       (* History: what the last touch function returned, or NONE,    *)
  answer      (* and what g_physics_touch made of it.                        *)

stackVars == <<stack, gUp, missed, said, answer>>

(* No call under way.                                                      *)
Idle == [site |-> "none", args |-> 0, base |-> 0]

Fresh(args) ==
  [top |-> Len(args), call |-> Idle,
   cell |-> [i \in Cells |-> IF i \in DOMAIN args THEN args[i] ELSE "junk"]]

StackInit ==
  /\ stack = <<Fresh(<<>>)>> /\ gUp = FALSE
  /\ missed = {} /\ said = NONE /\ answer = NONE

-----------------------------------------------------------------------------
(* Lua's functions on a frame.                                             *)

Push(f, v) == [f EXCEPT !.top = @ + 1, !.cell[f.top + 1] = v]
PushAll(f, vs) ==
  [f EXCEPT !.top = @ + Len(vs),
            !.cell = [k \in Cells |-> IF k - f.top \in DOMAIN vs THEN vs[k - f.top] ELSE @[k]]]
Pop(f, n) == [f EXCEPT !.top = @ - n]

(* index2adr: 0 is the cell above the top.                                 *)
Address(f, i) == IF i > 0 THEN i ELSE f.top + 1 + i

(* lua_insert.                                                             *)
LuaInsert(f, i) ==
  LET p == Address(f, i)
  IN  [f EXCEPT !.cell = [k \in Cells |->
         CASE k = p /\ p <= f.top         -> f.cell[f.top]
           [] p < k /\ k <= f.top + 1     -> f.cell[k - 1]
           [] OTHER                       -> f.cell[k]]]

(* lua_remove.                                                             *)
LuaRemove(f, i) ==
  LET p == Address(f, i)
  IN  [f EXCEPT !.top = @ - 1,
                !.cell = [k \in Cells |-> IF p <= k /\ k < f.top THEN f.cell[k + 1] ELSE f.cell[k]]]

(* What lua_pcall leaves: results or an error's message where the function *)
(* was, and above them whatever the function left there.                   *)
AfterPcall(f, args, vs) ==
  LET at == f.top - args
  IN  [f EXCEPT !.top = at + Len(vs) - 1, !.call = Idle,
                !.cell = [k \in Cells |->
                   IF k < at THEN f.cell[k] ELSE IF k < at + Len(vs) THEN vs[k - at + 1] ELSE "junk"]]

-----------------------------------------------------------------------------
(* The engine's part of a call.                                            *)

Current == Last(stack)
Replace(f) == stack' = Append(Front(stack), f)

(* The engine may go on in a frame until it writes below cell 0.           *)
Ready == Current.call = Idle /\ Current.top >= -1
ByFrame == Ready /\ Len(stack) = 1 /\ gUp

(* g_call_func has no handler for errors.                                  *)
Handled(site) == site # "mouse"

(* g_lua_call until lua_pcall, with the function and its arguments pushed. *)
Called(f, site, args) ==
  LET base == f.top - args
      g == IF Handled(site) THEN LuaInsert(Push(f, "traceback"), base) ELSE f
  IN  [g EXCEPT !.call = [site |-> site, args |-> args, base |-> base]]

(* g_lua_call after lua_pcall: g_error takes the message away.             *)
After(f, call, failed) ==
  LuaRemove(IF failed THEN Pop(f, 1) ELSE f, call.base)

(* Fault: g_physics_touch pops first.                                      *)
ReadLate(f) == f.cell[Address(Pop(f, 2), 0)]

(* lua_toboolean(lua_state, 0): true unless nil or false is read.          *)
Read(f) == f.cell[Address(f, 0)]

(* What a site takes away in the end.                                      *)
Popped(site) == CASE site = "touch" -> 2 [] site = "mouse" -> 0 [] OTHER -> 1

(* The call and, when what stands there is no function, the error at once. *)
Begin(f, site, args) ==
  LET g == Called(f, site, args)
      callee == g.cell[g.top - args]
  IN  /\ missed' = missed \cup (IF callee = site THEN {} ELSE {site})
      /\ IF callee \in Site THEN Replace(g)
         ELSE Replace(Pop(After(AfterPcall(g, args, <<"message">>), g.call, TRUE), Popped(site)))
      /\ UNCHANGED <<gUp, said, answer>>

-----------------------------------------------------------------------------
(* The sites.                                                              *)

(* g_init.                                                                 *)
Main ==
  /\ Ready /\ Len(stack) = 1 /\ ~gUp /\ Current.top = 0
  /\ Begin(Push(Current, "main"), "main", 0)

(* mouse_event, through g_call_func.                                       *)
Mouse ==
  /\ ByFrame
  /\ Begin(PushAll(Current, <<"mouse", "arg", "arg", "arg", "arg">>), "mouse", 4)

(* g_physics_touch of an entity that has a function; another gets back the *)
(* stack as it was.                                                        *)
Touch(other) ==
  /\ ByFrame
  /\ Begin(PushAll(Current, <<"data", "touch", "ent", other, "arg", "arg">>), "touch", 4)

(* g_entity_think.                                                         *)
Think ==
  /\ ByFrame
  /\ Begin(PushAll(Current, <<"data", "think", "ent">>), "think", 1)

(* An entity without a think, which leaves the data on the stack.          *)
NoThink ==
  /\ ByFrame /\ Current.top < MaxLeft
  /\ Replace(Pop(PushAll(Current, <<"data", "nil">>), 1))
  /\ UNCHANGED <<gUp, missed, said, answer>>

(* g_call_cmd, of the frame or of execute.                                 *)
CallCmd ==
  /\ Ready /\ gUp
  /\ Begin(PushAll(Current, <<"cmd", "arg", "arg", "arg", "arg">>), "cmd", 4)

-----------------------------------------------------------------------------
(* Lua's part.                                                             *)

InLua == Current.call # Idle

(* game_lua_execute: its commands run in its frame.                        *)
LuaExecute ==
  /\ InLua /\ Len(stack) < MaxFrames
  /\ stack' = Append(stack, Fresh(<<"arg">>))
  /\ UNCHANGED <<gUp, missed, said, answer>>

LuaExecuted ==
  /\ Len(stack) > 1 /\ ~InLua
  /\ stack' = Front(stack)
  /\ UNCHANGED <<gUp, missed, said, answer>>

(* The number of values a site asks for; LUA_MULTRET for main.lua.         *)
Results(site) ==
  CASE site = "touch" -> {<<v>>: v \in {"yes", "no", "nil"}}
    [] site = "main"  -> {[i \in 1..n |-> "arg"]: n \in MainReturns}
    [] OTHER          -> {<<>>}

(* The function ends, or fails, and the site finishes.                     *)
Finish(vs, failed) ==
  LET call == Current.call
      left == AfterPcall(Current, call.args, vs)
      g == IF Handled(call.site) THEN After(left, call, failed) ELSE left
  IN  /\ Replace(Pop(g, Popped(call.site)))
      /\ gUp' = (gUp \/ call.site = "main")
      /\ said' = IF call.site # "touch" THEN said ELSE IF failed THEN NONE ELSE vs[1]
      /\ answer' = IF call.site # "touch" THEN answer ELSE Read(g)
      /\ UNCHANGED missed

Return == InLua /\ \E vs \in Results(Current.call.site): Finish(vs, FALSE)

Fail ==
  /\ InLua
  /\ Handled(Current.call.site) \/ Current.top - Current.call.args <= MaxLeft
  /\ Finish(<<"message">>, TRUE)

(* The next call would write below the engine's frame.                     *)
Underflow == ~InLua /\ Len(stack) = 1 /\ ~Ready /\ UNCHANGED stackVars

StackNext ==
  \/ Main
  \/ Mouse
  \/ \E other \in {"ent", "nil"}: Touch(other)
  \/ Think
  \/ NoThink
  \/ CallCmd
  \/ LuaExecute
  \/ LuaExecuted
  \/ Return
  \/ Fail
  \/ Underflow

StackSpec == StackInit /\ [][StackNext]_stackVars

-----------------------------------------------------------------------------
(* Properties.                                                             *)

StackType ==
  /\ stack \in Seq([top: -2..(MaxLeft + 7), cell: [Cells -> Value],
                     call: [site: Site \cup {"none"}, args: 0..4, base: -1..(MaxLeft + 3)]])
  /\ gUp \in BOOLEAN /\ missed \subseteq Site
  /\ said \in Value \cup {NONE} /\ answer \in Value \cup {NONE}

(* Whatever calls before have left on the stack or taken from it, a think, *)
(* a touch and a mouse event call the function they have fetched, and a    *)
(* touch that did not fail is answered as its function has answered, which *)
(* g_physics_touch reads from above the top of the stack.                  *)
CallsRight ==
  /\ StackType
  /\ missed \subseteq {"cmd"}
  /\ said # NONE => answer = said

(* No call takes more from a frame than there is: what lua_settop asserts  *)
(* (src/3rd/lua/lapi.c:173).                                               *)
NothingBelow == \A i \in DOMAIN stack: stack[i].top >= 0

=============================================================================
