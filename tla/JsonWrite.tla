----------------------------- MODULE JsonWrite -----------------------------
(***************************************************************************)
(* json::write and json::write_formatted                                   *)
(* (include/uxs/impl/db/json_impl.h) on the value that JsonRead has made:  *)
(* a loop over a stack of iterators, where the flag is_first_element tells *)
(* an opening bracket from a comma.  Text is tokens and white space: "sp"  *)
(* is a blank, "nl" a line feed with the indent behind it.                 *)
(***************************************************************************)
EXTENDS JsonRead, FiniteSets

CONSTANTS
  Styles,  \* which function, and its options' white space characters
  Size,    \* opts.indent_size
  Base     \* the argument `indent`

ASSUME WriteAssumption ==
  /\ Styles \subseteq [formatted : BOOLEAN, obj : {"sp", "nl"}, arr : {"sp", "nl"}]
  /\ Size \in Nat /\ Base \in Nat

VARIABLES
  style,   \* the function and `opts`
  writing, \* "no", "loop", "done"
  items,   \* `stack`: the containers and how far they are written
  isFirst, \* is_first_element
  indent,  \* `indent`
  out      \* the tokens and white space written

wvars == <<style, writing, items, isFirst, indent, out>>

WriteTypeOK ==
  /\ writing \in {"no", "loop", "done"}
  /\ \A i \in DOMAIN items : items[i].at \in DOMAIN mem /\ items[i].next \in Nat
  /\ isFirst \in BOOLEAN
  /\ indent \in Nat

-----------------------------------------------------------------------------
WriteInit ==
  /\ ReadInit
  /\ style \in Styles
  /\ writing = "no" /\ items = <<>> /\ isFirst = TRUE /\ indent = Base /\ out = <<>>

Top == Last(items)
TopKind == mem[Top.at].kind
Exhausted == Top.next > mem[Top.at].n
Formatted == style.formatted
Breaks(kind) == Formatted /\ (IF kind = "{" THEN style.obj ELSE style.arr) = "nl"
Symbol(x) == [sym |-> x, indent |-> 0]
Symbols(s) == [i \in DOMAIN s |-> Symbol(s[i])]
NewLine(n) == <<[sym |-> "nl", indent |-> n]>>

(* value_visitor: scalars and empty containers are written; others go on   *)
(* the stack.                                                              *)
Pushes(a) == mem[a].kind \in Opening /\ mem[a].n > 0
Visited(a) ==
  IF Pushes(a) THEN <<>>
  ELSE Symbols(IF mem[a].kind \in Opening THEN <<mem[a].kind, Closing(mem[a].kind)>> ELSE <<mem[a].kind>>)
Pushed(a) == IF Pushes(a) THEN <<[at |-> a, next |-> 1]>> ELSE <<>>

BeginWrite ==
  /\ client = "dom" /\ step = "accepted" /\ writing = "no"
  /\ out' = Visited(Root) /\ items' = Pushed(Root)
  /\ writing' = IF Pushes(Root) THEN "loop" ELSE "done"
  /\ UNCHANGED <<readVars, style, isFirst, indent>>

(* What goes before an element: a bracket or a comma, white space, a key.  *)
Lead ==
  LET more == indent + IF Breaks(TopKind) THEN Size ELSE 0
      begin == <<Symbol(TopKind)>> \o IF Breaks(TopKind) THEN NewLine(more) ELSE <<>>
      next == <<Symbol(",")>> \o IF Breaks(TopKind) THEN NewLine(indent)
                               ELSE IF Formatted THEN <<Symbol("sp")>> ELSE <<>>
  IN (IF isFirst THEN begin ELSE next) \o
     Symbols(IF TopKind = "[" THEN <<>> ELSE IF Formatted THEN <<"s", ":", "sp">> ELSE <<"s", ":">>)

WriteElement ==
  /\ writing = "loop" /\ ~Exhausted
  /\ LET a == <<mem[Top.at].blk, Top.next>>
     IN /\ out' = out \o Lead \o Visited(a)
        /\ items' = [items EXCEPT ![Len(items)].next = @ + 1] \o Pushed(a)
        /\ isFirst' = Pushes(a)
  /\ indent' = indent + IF isFirst /\ Breaks(TopKind) THEN Size ELSE 0
  /\ UNCHANGED <<readVars, style, writing>>

WriteClose ==
  /\ writing = "loop" /\ Exhausted
  /\ indent' = indent - IF Breaks(TopKind) THEN Size ELSE 0
  /\ out' = out \o (IF Breaks(TopKind) THEN NewLine(indent') ELSE <<>>) \o <<Symbol(Closing(TopKind))>>
  /\ items' = Front(items)
  /\ writing' = IF Len(items) = 1 THEN "done" ELSE "loop"
  /\ UNCHANGED <<readVars, style, isFirst>>

ReadOn == ReadNext /\ UNCHANGED wvars

-----------------------------------------------------------------------------
Text(o) == SelectSeq([i \in DOMAIN o |-> o[i].sym], LAMBDA x : x \in TokenTypes)

(* What was read and written again is what was read: the value lost        *)
(* nothing, and brackets and commas stand where the nesting has them.      *)
SameTokens == writing = "done" => Text(out) = seen

(* Every line of formatted text is indented by the containers it is in     *)
(* that break lines, and the indent is back where it was at the end.       *)
Layout ==
  writing = "done" =>
    /\ indent = Base
    /\ \A i \in DOMAIN out : out[i].sym = "nl" =>
         LET count(k, c) == Cardinality({j \in 1 .. k : out[j].sym = c})
             inside(c) == IF Breaks(c) THEN count(i, c) - count(i + 1, Closing(c)) ELSE 0
         IN out[i].indent = Base + Size * (inside("[") + inside("{"))

=============================================================================
