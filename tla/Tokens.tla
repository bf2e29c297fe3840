------------------------------- MODULE Tokens -------------------------------
(***************************************************************************)
(* How a command is taken apart into its name and its arguments:           *)
(* string_tokenize and parse_token (src/src/misc.c), as cmdbuf_exec        *)
(* (src/src/cmdbuf.c) calls them on the text of one command.               *)
(*                                                                         *)
(* A character is what the tokenizer tells apart: a letter, a slash, a     *)
(* quote, a carriage return, or a blank.  A char is signed, so whatever is *)
(* not ASCII is a blank, outside quotes.  Line feeds end commands before   *)
(* they get here.                                                          *)
(***************************************************************************)
EXTENDS Integers, Sequences, FiniteSets

CONSTANTS
  MaxText,    (* Bound: the length of any text at all,                       *)
  MaxTokens,  (* MAX_TOKARGS.                                                *)
  TokLen      (* MISC_MAX_TOKLEN, with the NUL.                              *)

ASSUME TokensAssumption == MaxText \in Nat /\ MaxTokens \in Nat \ {0} /\ TokLen \in Nat \ {0}

VARIABLES
  text,       (* The command.                                                *)
  place,      (* text, the pointer: 1 is the first character.                *)
  argv,       (* tok_argv, tok_argc its length.                              *)
  filled,     (* tok_bufferpos.                                              *)
  result      (* -1 while it goes on.                                        *)

tokensVars == <<text, place, argv, filled, result>>

Char  == {"a", "/", "quote", "cr", "blank"}
White == {"blank", "cr", "nul"}            (* <= ' '. *)

At(p) == IF p <= Len(text) THEN text[p] ELSE "nul"
Places == 1 .. Len(text) + 1

(* The first place from p on where there is one of C, or the end.          *)
FirstOf(C, p) == CHOOSE q \in p .. Len(text) + 1:
  /\ At(q) \in C \cup {"nul"}
  /\ \A r \in p .. q - 1: At(r) \notin C

-----------------------------------------------------------------------------
(* The lines that somebody writes: words, bare or in quotes, with blanks   *)
(* between them.  A bare word has no blank, does not begin with a quote or *)
(* with two slashes, and is not empty.                                     *)

TextsOf(C, n) == UNION {[1 .. i -> C]: i \in 0 .. n}
Bare ==
  {w \in TextsOf(Char \ White, 2): w # <<>> /\ w[1] # "quote" /\ w # <<"/", "/">>}
Enclosed == TextsOf({"a", "blank", "/"}, 1) \cup {<<"/", "/">>, <<"cr", "a">>}
Word == {[as |-> w, to |-> w]: w \in Bare}
          \cup {[as |-> <<"quote">> \o w \o <<"quote">>, to |-> w]: w \in Enclosed}

Leading == {<<>>, <<"blank">>}
Trailing == {<<>>, <<"blank">>, <<"cr">>, <<"cr", "a">>}

(* A comment, a quote that is not closed, a word that is too long.         *)
Comment ==
  {<<"blank", "/", "/">>, <<"blank", "/", "/", "a">>, <<"blank", "blank", "/", "/", "quote", "blank", "cr">>}
Unclosed == {<<"blank", "quote">>, <<"blank", "quote", "a", "cr", "a">>}
TooLong == {<<"blank">> \o [i \in 1 .. TokLen |-> "a"]}
Spoiling == Comment \cup Unclosed \cup TooLong

FirstWord(B, W) == {[text |-> b \o w.as, words |-> <<w.to>>]: b \in B, w \in W}
With(l, w) == [text |-> l.text \o <<"blank">> \o w.as, words |-> Append(l.words, w.to)]
ThenWord(L, W) == {With(l, w): l \in L, w \in W}

Brief == {[as |-> <<"a">>, to |-> <<"a">>], [as |-> <<"quote", "quote">>, to |-> <<>>]}
OneWord == FirstWord(Leading, Word)
FourWords == ThenWord(ThenWord(ThenWord(FirstWord({<<>>}, Brief), Brief), Brief), Brief)
LinesOf(L, T, spoilt) ==
  {[text |-> l.text \o e, words |-> l.words, spoilt |-> spoilt]: l \in L, e \in T}
Lines ==
  LinesOf(OneWord \cup ThenWord(OneWord, Word) \cup FourWords, Trailing, FALSE)
    \cup LinesOf(OneWord \cup FourWords, Spoiling, TRUE)

TokensInit ==
  /\ text \in {l.text: l \in Lines} \cup TextsOf(Char, MaxText)
  /\ place = 1 /\ argv = <<>> /\ filled = 0 /\ result = -1

-----------------------------------------------------------------------------
(* string_tokenize.                                                        *)

(* The next character that is not a blank, where it looks for the end.     *)
Ahead == FirstOf(Char \ {"blank"}, place)

LineEnds ==
  /\ result = -1 /\ At(Ahead) \in {"cr", "nul"}
  /\ result' = Len(argv)
  /\ UNCHANGED <<text, place, argv, filled>>

(* parse_token begins here, behind any comments and what is blank.         *)
Commented(p) == At(p) = "/" /\ At(p + 1) = "/"
Begins ==
  LET from[n \in 0 .. Len(text)] ==
        IF n = 0 THEN Ahead
        ELSE LET p == from[n - 1]
             IN  IF Commented(p) THEN FirstOf(Char \ White, FirstOf({"cr"}, p)) ELSE p
  IN  from[Len(text)]

Parses == result = -1 /\ At(Ahead) \notin {"cr", "nul"}

(* What is in quotes, and what is not.                                     *)
Closing == FirstOf({"quote"}, Begins + 1)
InQuotes == At(Begins) = "quote" /\ At(Closing) = "quote"
TokenEnd == IF At(Begins) = "quote" THEN Closing ELSE FirstOf(White, Begins)
Token == SubSeq(text, IF At(Begins) = "quote" THEN Begins + 1 ELSE Begins, TokenEnd - 1)

(* A comment behind the words, a quote that is not closed and a token that *)
(* is too long each end it with nothing, whatever stood in front of it; a  *)
(* carriage return ends a comment and not the line.                        *)
Refused == At(Begins) = "nul" \/ (At(Begins) = "quote" /\ ~InQuotes) \/ Len(Token) >= TokLen

ParseFails ==
  /\ Parses /\ Refused
  /\ result' = 0
  /\ UNCHANGED <<text, place, argv, filled>>

(* Fault: the NUL behind a token is not counted.                           *)
RoomForLetters == filled + Len(Token) <= TokLen

Room == filled + Len(Token) + 1 <= TokLen

AfterToken == IF At(Begins) = "quote" THEN TokenEnd + 1 ELSE TokenEnd

TakeToken ==
  /\ Parses /\ ~Refused
  /\ place' = AfterToken
  /\ IF Len(argv) >= MaxTokens THEN UNCHANGED <<argv, filled, result>>
     ELSE IF ~Room THEN result' = Len(argv) /\ UNCHANGED <<argv, filled>>
     ELSE argv' = Append(argv, Token) /\ filled' = filled + Len(Token) + 1 /\ UNCHANGED result
  /\ UNCHANGED text

TokensNext ==
  \/ LineEnds
  \/ ParseFails
  \/ TakeToken
  \/ result # -1 /\ UNCHANGED tokensVars

TokensSpec == TokensInit /\ [][TokensNext]_tokensVars

-----------------------------------------------------------------------------
(* Properties.                                                             *)

(* The tokens lie in the buffer one behind the other, each with its NUL,   *)
(* whatever the text is.  The words of a line that somebody wrote are the  *)
(* tokens of it, as many as there are or as there is room for, and those   *)
(* in front of what there is no room for.  But the line is not heard at    *)
(* all if a comment is behind its words, or a quote that is not closed, or *)
(* a word that is too long, unless the buffer was full before.             *)
BufferCells(ws) == UNION {{n} \X (0 .. Len(ws[n])): n \in DOMAIN ws}
SizeOf(ws) == Cardinality(BufferCells(ws))
Held(ws) == {n \in 0 .. Len(ws): n <= MaxTokens /\ SizeOf(SubSeq(ws, 1, n)) <= TokLen}
Most(ws) == CHOOSE n \in Held(ws): \A k \in Held(ws): k <= n
TokensRight ==
  /\ filled = SizeOf(argv) /\ filled <= TokLen /\ Len(argv) <= MaxTokens
  /\ result \in {-1, 0, Len(argv)}
  /\ result # -1 =>
       \A l \in {l \in Lines: l.text = text}:
         (\A i \in DOMAIN l.words: Len(l.words[i]) < TokLen) =>
           LET most == Most(l.words)
           IN  /\ argv = SubSeq(l.words, 1, most)
               /\ result = IF l.spoilt /\ most \in {Len(l.words), MaxTokens} THEN 0 ELSE most
=============================================================================
