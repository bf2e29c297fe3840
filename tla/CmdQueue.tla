------------------------------ MODULE CmdQueue ------------------------------
(***************************************************************************)
(* What the command buffer promises: a queue of commands.  Each runs once, *)
(* in the order they came, for the source that sent it; a text is taken    *)
(* whole or refused whole, a file up to some point.                        *)
(***************************************************************************)
EXTENDS CmdText

CONSTANTS Text, File, Exec, Engine

VARIABLES
  queue,      (* The commands to run.                                       *)
  last        (* The command that ran last.                                 *)

Nothing == [src |-> Engine, text |-> <<>>]

Init == queue = <<>> /\ last = Nothing

Post(c, s) ==
  /\ "bad" \notin Range(c)
  /\ queue' = queue \o Commands(c, s, FALSE)
  /\ UNCHANGED last

Included(n) == Commands(SubSeq(File, 1, n), Engine, FALSE)

Run ==
  /\ queue # <<>>
  /\ last' = Head(queue)
  /\ IF Head(Head(queue).text) = Exec
     THEN \E n \in 0 .. Len(File): queue' = Tail(queue) \o Included(n)
     ELSE queue' = Tail(queue)

Next == Run \/ \E c \in Text, s \in Source: Post(c, s)

Spec == Init /\ [][Next]_<<queue, last>>
=============================================================================
