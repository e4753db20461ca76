------------------------------ MODULE JsonDoc ------------------------------
(***************************************************************************)
(* json::read and json::write on one document: the lexer reads any text by *)
(* itself, for any program that calls lex(); the parser reads any tokens,  *)
(* and read() makes a value of them; the value is written, and the text    *)
(* that was written is read again, by the parser from the lexer from a     *)
(* buffer with borders anywhere.                                           *)
(***************************************************************************)
EXTENDS JsonLex, JsonWrite

CONSTANTS
  Rereads,  \* bound on the tokens of a document that is read again
  Borders,  \* bound on the borders it is read again with
  Spelling  \* the characters of a scalar: "v", and the units of a string: "s"

ASSUME DocAssumption ==
  /\ Rereads \in 0 .. MaxTokens /\ Borders \in Nat
  /\ Kind(Spelling.v) # "none" /\ Spelling.s \in Seq({"a", "esc", "N"})

VARIABLES
  source, \* what is read: "text" by the lexer, "tokens", or "again"
  before  \* history: the tokens of the document that is read again

docVars == <<lexVars, readVars, wvars, source, before>>

DocInit ==
  /\ LexStart /\ WriteInit /\ before = <<>>
  /\ \/ source = "tokens" /\ text = <<>> /\ cuts = {}
     \/ /\ source = "text" /\ Given
        /\ client = (CHOOSE c \in Clients : TRUE)
        /\ style = (CHOOSE s \in Styles : TRUE)

-----------------------------------------------------------------------------
(* Mutant: a quote is written as it is.                                    *)
WriteText_Bare(units) ==
  LET escaped(u) == CASE u = "esc" -> <<"q">> [] u = "N" -> <<"bs", "u", "N">> [] OTHER -> <<u>>
  IN <<"q">> \o FlattenSeq([k \in DOMAIN units |-> escaped(units[k])]) \o <<"q">>

(* write_text: quotes, and escapes for what a string must not have.        *)
WriteText(units) ==
  LET escaped(u) == CASE u = "esc" -> <<"bs", "q">> [] u = "N" -> <<"bs", "u", "N">> [] OTHER -> <<u>>
  IN <<"q">> \o FlattenSeq([k \in DOMAIN units |-> escaped(units[k])]) \o <<"q">>

(* The characters of what was written.                                     *)
Chars(o) ==
  LET spelled(x) == CASE x.sym = "s" -> WriteText(Spelling.s)
                      [] x.sym = "v" -> Spelling.v
                      [] x.sym = "sp" -> <<"w">>
                      [] x.sym = "nl" -> <<"nl">> \o [i \in 1 .. x.indent |-> "w"]
                      [] OTHER -> <<x.sym>>
  IN FlattenSeq([i \in DOMAIN o |-> spelled(o[i])])

(* What the parser takes a token of the lexer for; a character that means  *)
(* nothing is as bad as the end of the text.                               *)
TokenOf(t) ==
  CASE t.tok = "string" -> "s"
    [] t.tok \in {"keyword", "integer", "negative", "real"} -> "v"
    [] t.tok = "char" /\ t.val[1] \in TokenTypes -> t.val[1]
    [] OTHER -> "eof"

-----------------------------------------------------------------------------
LexText == source = "text" /\ Lex /\ UNCHANGED <<readVars, wvars, source, before>>

ReadTokens ==
  /\ source = "tokens"
  /\ ReadOn \/ BeginWrite \/ WriteElement \/ WriteClose
  /\ UNCHANGED <<lexVars, source, before>>

(* A program gives what it has written to read().                          *)
ReadAgain ==
  /\ source = "tokens" /\ writing = "done" /\ Len(seen) <= Rereads
  /\ source' = "again" /\ before' = seen
  /\ text' = Chars(out) /\ cuts' \in Divided(text', Borders)
  /\ step' = "start" /\ current' = "" /\ stack' = <<>> /\ comma' = FALSE /\ seen' = <<>>
  /\ mem' = [a \in {Root} |-> Value("null", 0)] /\ val' = Root /\ open' = <<>> /\ blocks' = 0
  /\ UNCHANGED <<buffer, lexer, pc, toks, lost, wvars, client, skipped>>

(* The parser takes what lex() returns, and calls it until it is done.     *)
ReadText ==
  /\ source = "again" /\ step \notin {"accepted", "refused"}
  /\ Lex
  /\ IF toks' = toks THEN UNCHANGED readVars ELSE Read(TokenOf(Last(toks')))
  /\ UNCHANGED <<wvars, source, before>>

DocDone ==
  /\ \/ source = "text" /\ pc = "stopped"
     \/ source = "again" /\ step \in {"accepted", "refused"}
  /\ UNCHANGED docVars

DocNext == LexText \/ ReadTokens \/ ReadAgain \/ ReadText \/ DocDone

(* A lexer that is called goes on until it returns.                        *)
DocSpec == DocInit /\ [][DocNext]_docVars /\ WF_docVars(LexText \/ ReadText)

-----------------------------------------------------------------------------
(* The type invariants; lost characters, see LostOnlyInBadText; the        *)
(* parser's stack and the client's, see PointersAgree; the layout of the   *)
(* text, see Layout.                                                       *)
DocInv == LexTypeOK /\ ReadTypeOK /\ WriteTypeOK /\ LostOnlyInBadText /\ PointersAgree /\ Layout

(* The tokens and the verdict are the text's, however it came in.          *)
ReadExact == TokensExact /\ VerdictExact

(* A value that was read is written token by token as it was, and what was *)
(* written is read again as the same tokens with the same strings, however *)
(* the text is laid out and wherever its blocks end.                       *)
RoundTrip ==
  /\ source = "tokens" => SameTokens
  /\ source = "again" =>
       /\ step # "refused" /\ ~lost
       /\ step = "accepted" => seen = before
       /\ \A t \in ToSet(toks) : t.tok = "string" => t.val = Spelling.s

(* The lexer reaches the end of the text or an error, and the parser that  *)
(* calls it a verdict.                                                     *)
Ends == source \in {"text", "again"} ~> (pc = "stopped" \/ step \in {"accepted", "refused"})
=============================================================================
