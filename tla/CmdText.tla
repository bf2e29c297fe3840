------------------------------ MODULE CmdText -------------------------------
(***************************************************************************)
(* Command text.  A cell stands for a word of the text, for one of the     *)
(* characters the command buffer gives a meaning to, or for the byte that  *)
(* tells who sent the text (src/src/cmdbuf.c).                             *)
(***************************************************************************)
EXTENDS Integers, SequencesExt

CONSTANTS
  Source,     (* cmd_sources_e: who sent a text.                            *)
  Name        (* Words.                                                     *)

Mark == {"nl", "semi", "quote", "nul", "bad"}
Cell == Name \cup Source \cup Mark

ASSUME CellAssumption == Source \cap Mark = {} /\ Name \cap Mark = {} /\ Source \cap Name = {}

(* What a text says: commands, separated by newlines and by semicolons     *)
(* outside quotes.  A source byte begins a text.  Empty commands do not    *)
(* count.  (These are functions so that TLC evaluates arguments once.)     *)
Command == [src: Source, text: Seq(Cell)]
Reader  == [src: Source, quoted: BOOLEAN, text: Seq(Cell), said: Seq(Command)]

Close ==
  [r \in Reader |->
     IF r.text = <<>> THEN r
     ELSE [r EXCEPT !.text = <<>>, !.said = Append(@, [src |-> r.src, text |-> r.text])]]

ReadCell(c) ==
  [r \in Reader |->
     CASE c = "nl" \/ (c = "semi" /\ ~r.quoted) -> Close[r]
       [] c \in Source /\ r.text = <<>>         -> [r EXCEPT !.src = c]
       [] OTHER -> [r EXCEPT !.text = Append(@, c), !.quoted = (@ # (c = "quote"))]]

Commands(cells, src, quoted) ==
  LET read[i \in 0 .. Len(cells)] ==
        IF i = 0 THEN [src |-> src, quoted |-> quoted, text |-> <<>>, said |-> <<>>]
        ELSE ReadCell(cells[i])[read[i - 1]]
  IN  Close[read[Len(cells)]].said
=============================================================================
