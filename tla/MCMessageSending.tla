-------------------------- MODULE MCMessageSending --------------------------
(* Small instances of MessageSending for TLC: one command sends any text of at
   most three runes, the other one a text of two pieces. *)
EXTENDS MessageSending

ShortTexts == <<SeqOf(Rune, 3), {<<"colon", "letter", "newline", "space", "newline", "wide">>}>>
=============================================================================
