----------------------------- MODULE MCCmdBuf ------------------------------
(* Small instances of CmdBuf for TLC.                                      *)
EXTENDS CmdBuf

CONSTANTS a, x, f

(* One command, two in a text, a quoted separator, a file, an invalid      *)
(* character.                                                              *)
BalancedText ==
  {<<a>>, <<a, "semi", a, "nl">>, <<a, "quote", "semi", "quote">>, <<x>>, <<x, "nl", a, "bad">>}

(* A file that executes itself again, last line without a newline.         *)
SelfFile == <<a, "nl", x, "nl", a, a>>

(* Also a quote that is never closed, and an empty command.                *)
WildText == {<<a>>, <<f, "nl">>, <<"nl">>, <<"quote", a, "semi">>, <<x, "semi", a>>}
=============================================================================
