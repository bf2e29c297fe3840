------------------------------ MODULE Contacts ------------------------------
(***************************************************************************)
(* What a step of the space remembers of the pairs of shapes that touch    *)
(* (src/3rd/chipmunk/cpSpace.c, cpArbiter.c): an arbiter for each pair, in *)
(* contactSet from the first step in which they touch to the last, and     *)
(* contacts in a ring of buffers that are used again.                      *)
(*                                                                         *)
(* Only the default collision handler exists, g_physics_collision as its   *)
(* begin function; no shape is a sensor.  A stamp counts by its age: steps *)
(* since then, at most Old.  Forces, and what the contacts are, are left   *)
(* out.                                                                    *)
(***************************************************************************)
EXTENDS Integers, Sequences, FiniteSets, Shared

CONSTANTS
  Pairs,      (* Pairs of shapes, sets of two, that may touch.               *)
  Many,       (* Those that may in more places than there are contacts for:  *)
              (* two polygons, or one and a segment.                         *)
  BufSize,    (* CP_CONTACTS_BUFFER_SIZE.                                    *)
  MaxPer,     (* CP_MAX_CONTACTS_PER_ARBITER.                                *)
  MaxBuf      (* Bound: contact buffers.                                     *)

ASSUME ContactsAssumption ==
  /\ MaxPer \in Nat \ {0} /\ BufSize \in Nat /\ BufSize >= MaxPer /\ MaxBuf \in Nat \ {0}
  /\ NONE \notin Pairs /\ Many \subseteq Pairs
  /\ NONE \notin [age: -1 .. 2, ignored: BOOLEAN, buf: 0 .. MaxBuf, from: 0 .. BufSize, num: 0 .. MaxPer]

VARIABLES
  inside,     (* "idle", "collide", "begin" in the begin function, "end", or *)
              (* "overrun": memory behind a buffer has been written.         *)
  arb,        (* contactSet: the arbiter of each pair, or NONE.              *)
  ring,       (* The buffers from contactBuffersTail to contactBuffersHead.  *)
  bage,       (* The age of each buffer's stamp,                             *)
  bnum,       (* its numContacts,                                            *)
  bwrit,      (* and, until it may be used again, whom each place is for.    *)
  solve,      (* space->arbiters: how often each pair is in it.              *)
  new,        (* The pair that has just met.                                 *)
  metNow,     (* History: the pairs that have met in this step,              *)
  twice,      (* those that have met in it again,                            *)
  begun,      (* those that have begun to,                                   *)
  touching,   (* those that met in the step before, both shapes still there, *)
  accepted    (* and those that the begin function accepted when they began. *)

buffers      == <<ring, bage, bnum, bwrit>>
chronicle    == <<metNow, twice, begun, touching, accepted>>
contactsVars == <<inside, arb, buffers, solve, new, chronicle>>

Old == 2
Buf == 1 .. MaxBuf
ContactShape == UNION Pairs

ContactsInit ==
  /\ inside = "idle" /\ arb = [p \in Pairs |-> NONE]
  /\ ring = <<1>> /\ bage = [b \in Buf |-> 0] /\ bnum = [b \in Buf |-> 0]
  /\ bwrit = [b \in Buf |-> [k \in 1 .. BufSize |-> NONE]]
  /\ solve = [p \in Pairs |-> 0] /\ new = NONE
  /\ metNow = {} /\ twice = {} /\ begun = {} /\ touching = {} /\ accepted = {}

-----------------------------------------------------------------------------
(* The ring.                                                               *)

(* Fault: a buffer is used again one step too soon.                        *)
Unused == bage[ring[1]] >= 1

(* The oldest buffer's contacts are older than cp_contact_persistence.     *)
Expired == bage[ring[1]] > 1

(* cpSpaceGetFreeContactBuffer, cpSpacePushNewContactBuffer.               *)
FreeBuffer == IF Expired THEN ring[1] ELSE Len(ring) + 1
Pushed(b)  == (IF Expired THEN Tail(ring) ELSE ring) \o <<b>>

RingHead == ring[Len(ring)]
Full     == bnum[RingHead] + MaxPer > BufSize

-----------------------------------------------------------------------------
(* A step.                                                                 *)

StepStarts ==
  /\ inside = "idle" /\ inside' = "collide"
  /\ FreeBuffer \in Buf /\ ring' = Pushed(FreeBuffer)
  /\ bage' = [bage EXCEPT ![FreeBuffer] = 0] /\ bnum' = [bnum EXCEPT ![FreeBuffer] = 0]
  /\ solve' = [p \in Pairs |-> 0]
  /\ metNow' = {} /\ twice' = {} /\ begun' = {}
  /\ UNCHANGED <<arb, bwrit, new, touching, accepted>>

(* queryFunc for two shapes that touch in m places, up to the begin        *)
(* function: cpCollideShapes writes the contacts, contactSet finds or      *)
(* makes the arbiter, cpArbiterUpdate gives it the new contacts.  A pair   *)
(* meets again (bound: once) if game code has asked for a point in a begin *)
(* function.                                                               *)
First(p) == arb[p] = NONE

(* nextContactPoint counts no further than MaxPer, and what is more it has *)
(* written one place further, in the buffer or behind it.                  *)
Limited(m) == IF m > MaxPer THEN MaxPer ELSE m

Meet(p, m) ==
  /\ inside = "collide"
  /\ p \notin twice /\ (p \in metNow => begun # {})
  /\ \E b \in {IF Full THEN FreeBuffer ELSE RingHead} \cap Buf:
       /\ IF Full
          THEN ring' = Pushed(b) /\ bage' = [bage EXCEPT ![b] = 0]
          ELSE UNCHANGED <<ring, bage>>
       /\ LET from == IF Full THEN 0 ELSE bnum[b]
          IN  /\ bnum' = [bnum EXCEPT ![b] = from + Limited(m)]
              /\ bwrit' = [bwrit EXCEPT ![b] = [k \in 1 .. BufSize |->
                             IF k \in from + 1 .. from + m THEN p ELSE bwrit[b][k]]]
              /\ arb' = [arb EXCEPT ![p] =
                           [age |-> IF First(p) THEN -1 ELSE arb[p].age,
                            ignored |-> ~First(p) /\ arb[p].ignored,
                            buf |-> b, from |-> from, num |-> Limited(m)]]
              /\ inside' = IF from + m > BufSize THEN "overrun" ELSE IF First(p) THEN "begin" ELSE "end"
  /\ new' = p
  /\ metNow' = metNow \cup {p} /\ twice' = twice \cup ({p} \cap metNow)
  /\ begun' = IF First(p) THEN begun \cup {p} ELSE begun
  /\ UNCHANGED <<solve, touching, accepted>>

(* g_physics_collision returns, cpArbiterIgnore if it has not accepted.    *)
BeginReturns(ok) ==
  /\ inside = "begin" /\ inside' = "end"
  /\ arb' = [arb EXCEPT ![new].ignored = ~ok]
  /\ accepted' = IF ok THEN accepted \cup {new} ELSE accepted \ {new}
  /\ UNCHANGED <<buffers, solve, new, metNow, twice, begun, touching>>

(* The rest of queryFunc: solved in this step, or its contacts dropped.    *)
Concludes ==
  /\ inside = "end" /\ inside' = "collide"
  /\ IF arb[new].ignored
     THEN /\ bnum' = [bnum EXCEPT ![RingHead] = @ - arb[new].num]
          /\ arb' = [arb EXCEPT ![new] = [@ EXCEPT !.age = 0, !.buf = 0, !.num = 0]]
          /\ UNCHANGED solve
     ELSE /\ solve' = [solve EXCEPT ![new] = @ + 1]
          /\ arb' = [arb EXCEPT ![new].age = 0]
          /\ UNCHANGED bnum
  /\ new' = NONE
  /\ UNCHANGED <<ring, bage, bwrit, chronicle>>

(* Fault: an arbiter outlives the contact by a step.                       *)
StaysOnce(p) == arb[p] # NONE /\ arb[p].age > 1

(* contactSetFilter drops what has not met in this step.                   *)
Dropped(p) == arb[p] # NONE /\ arb[p].age >= 1

(* The filter, the solver, and the stamp counts on.                        *)
Older(age) == IF age < Old THEN age + 1 ELSE Old

StepEnds ==
  /\ inside = "collide" /\ inside' = "idle"
  /\ arb' = [p \in Pairs |-> IF arb[p] = NONE \/ Dropped(p) THEN NONE
                             ELSE [arb[p] EXCEPT !.age = Older(@)]]
  /\ bage' = [b \in Buf |-> Older(bage[b])]
  /\ touching' = metNow
  /\ bwrit' = [b \in Buf |-> IF bage'[b] < Old THEN bwrit[b] ELSE [k \in 1 .. BufSize |-> NONE]]
  /\ UNCHANGED <<ring, bnum, solve, new, metNow, twice, begun, accepted>>

(* cpSpaceRemoveShape between steps, contactSetFilterRemovedShape.  The    *)
(* list of the last step keeps its arbiters, and nobody reads it.          *)
RemoveShape(s) ==
  /\ inside = "idle"
  /\ arb' = [p \in Pairs |-> IF s \in p THEN NONE ELSE arb[p]]
  /\ touching' = {p \in touching: s \notin p}
  /\ UNCHANGED <<inside, buffers, solve, new, metNow, twice, begun, accepted>>

ContactsNext ==
  \/ StepStarts
  \/ \E p \in Pairs, m \in 1 .. MaxPer: Meet(p, m)
  \/ \E p \in Many: Meet(p, MaxPer + 1)
  \/ \E ok \in BOOLEAN: BeginReturns(ok)
  \/ Concludes
  \/ StepEnds
  \/ \E s \in ContactShape: RemoveShape(s)
  \/ inside = "overrun" /\ UNCHANGED contactsVars

ContactsSpec == ContactsInit /\ [][ContactsNext]_contactsVars

-----------------------------------------------------------------------------
(* Properties.                                                             *)

ContactsType ==
  /\ inside \in {"idle", "collide", "begin", "end", "overrun"}
  /\ \A p \in Pairs: arb[p] = NONE \/
       (arb[p].age \in -1 .. Old /\ arb[p].buf \in 0 .. MaxBuf /\ arb[p].num \in 0 .. MaxPer)
  /\ \A i \in DOMAIN ring: ring[i] \in Buf
  /\ \A b \in Buf: bage[b] \in 0 .. Old /\ bnum[b] \in 0 .. BufSize
  /\ new \in Pairs \cup {NONE}

(* A pair's contacts are in a buffer as they were written for it as long   *)
(* as the step solves them or the next one looks back at them: no buffer   *)
(* is used again too soon and no two pairs share a place.                  *)
Intact ==
  \A p \in Pairs: arb[p] # NONE /\ arb[p].buf # 0 =>
    \A k \in 1 .. arb[p].num: bwrit[arb[p].buf][arb[p].from + k] = p

(* The touch functions hear of a pair once: in the first step in which it  *)
(* meets, and again only after a step in which it did not, or with another *)
(* shape; what they said then decides until the pair separates whether it  *)
(* is solved, once in each step, or twice if it met twice.                 *)
BeginsOnce ==
  /\ inside # "idle" => begun = metNow \ touching
  /\ inside = "collide" =>
       \A p \in Pairs: solve[p] = IF p \notin metNow \cap accepted THEN 0
                                   ELSE IF p \in twice THEN 2 ELSE 1

(* Nothing behind a buffer is written but by two shapes that have more     *)
(* contacts than there is room for, where that room is the last of it:     *)
(* what cpSpace.c:716 is to prevent.                                       *)
OverrunByMany == inside = "overrun" => new \in Many /\ bnum[RingHead] = BufSize

(* Contacts stay those of their pair, touch functions hear of each touch   *)
(* once, and a buffer is run over only as OverrunByMany says.              *)
ContactsKept == ContactsType /\ Intact /\ BeginsOnce /\ OverrunByMany
=============================================================================
