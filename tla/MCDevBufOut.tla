---------------------------- MODULE MCDevBufOut ----------------------------
(* Instances of DevBufOut for TLC.                                         *)
EXTENDS DevBufOut

AllModes == [crlf : BOOLEAN, esc : Esc]

(* Single characters, a sequence in two writes or one, and texts longer    *)
(* than the buffer or with a sequence that ends in a later write.          *)
SomeTexts ==
  { <<c>> : c \in {"m", "LF", "ESC"} } \union
  { <<"[", "m">>, <<"m", "LF", "LF", "m">>, <<"LF", "ESC", "[", "0">> }

=============================================================================
