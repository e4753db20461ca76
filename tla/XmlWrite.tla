------------------------------- MODULE XmlWrite -------------------------------
(***************************************************************************)
(* xml::write (include/uxs/impl/db/xml_impl.h): a loop over a stack of     *)
(* iterators.  A member's tag is opened when it is reached and closed when *)
(* the next one is, unless the member is an array: its elements have tags  *)
(* of the array's name, and it has none.                                   *)
(***************************************************************************)
EXTENDS XmlText

-----------------------------------------------------------------------------
(***************************************************************************)
(* What XML text means as a value: the classes of src/db/xml.lex by which  *)
(* a text becomes a scalar (text_to_value, impl/db/xml_impl.h), the value  *)
(* of an element by recursion over its tokens, and what is left of a value *)
(* that is written and read again.  XmlDom is checked against it.          *)
(*                                                                         *)
(* Numbers are their digits; how wide an integer they need is left out.    *)
(***************************************************************************)
Value(kind, text, items) == [kind |-> kind, text |-> text, items |-> items]
Null == Value("null", <<>>, <<>>)
Number(text) == Value("number", text, <<>>)
Record(items) == Value("record", <<>>, items)
Array(vals) == Value("array", <<>>, [i \in DOMAIN vals |-> [key |-> <<>>, val |-> vals[i]]])
Entry(key, val) == [key |-> key, val |-> val]

Trimmed(s) ==
    LET ink == {i \in DOMAIN s : s[i] # "w"}
    IN  IF ink = {} THEN <<>> ELSE SubSeq(s, Min(ink), Max(ink))

(* Blanks, but no line feeds, may stand around a word or a number. *)
Classify(s) ==
    LET t == Trimmed(s)
    IN  CASE s = <<>> -> "empty"
          [] t \in {<<"null">>, <<"true">>, <<"false">>} -> t[1]
          [] IsNumber(t) \/ (t # <<>> /\ t[1] = "-" /\ IsNumber(Tail(t))) -> "number"
          [] ToSet(s) \subseteq Blank /\ "nl" \in ToSet(s) -> "ws_with_nl"
          [] OTHER -> "other"

(* from_string() knows no blanks: in front of a number they make it zero. *)
TextValue(s) ==
    LET class == Classify(s)
    IN  CASE class \in {"empty", "null"} -> Null
          [] class \in {"true", "false"} -> Value(class, <<>>, <<>>)
          [] class = "number" -> Number(IF s[1] = "w" THEN <<"0">> ELSE Trimmed(s))
          [] class = "ws_with_nl" -> Record(<<>>)
          [] OTHER -> Value("string", s, <<>>)

(* Elements of one name are an array, in which a null that was there first *)
(* has no place.                                                           *)
Folded(vals) ==
    CASE Len(vals) = 1 -> vals[1]
      [] vals[1] = Null -> Array(Tail(vals))
      [] OTHER -> Array(vals)

Grouped(entries) ==
    LET first == {i \in DOMAIN entries : \A j \in 1..i - 1 : entries[j].key # entries[i].key}
        order == SetToSortSeq(first, <)
        of(key) == SelectSeq(entries, LAMBDA e : e.key = key)
        vals(es) == [i \in DOMAIN es |-> es[i].val]
    IN  [i \in DOMAIN order |-> Entry(entries[order[i]].key, Folded(vals(of(entries[order[i]].key))))]

AttrEntries(attrs) ==
    LET names == SetToSeq(DOMAIN attrs)
    IN  [i \in DOMAIN names |-> Entry(names[i], TextValue(attrs[names[i]]))]

(* Inside an element: its entries and text up to its end, or no end. *)
ElementValue(c) == IF c.entries = <<>> THEN TextValue(c.text) ELSE Record(Grouped(c.entries))

RECURSIVE Content(_, _, _), ReadAll(_, _, _)
Content(ts, i, c) ==
    LET t == ts[i]
        inner == Content(ts, i + 1, [name |-> t.val, entries |-> AttrEntries(t.attrs), text |-> <<>>, end |-> 0])
    IN  CASE t.tok = "end_element" /\ t.val = c.name -> [c EXCEPT !.end = i]
          [] t.tok = "plain_text" -> Content(ts, i + 1, [c EXCEPT !.text = @ \o t.val])
          [] t.tok = "start_element" ->
                IF inner.end = 0 THEN inner
                ELSE Content(ts, inner.end + 1,
                             [c EXCEPT !.entries = Append(@, Entry(t.val, ElementValue(inner)))])
          [] OTHER -> [c EXCEPT !.end = 0]

(* The elements with a name, each read from where the one before ended. *)
ReadAll(ts, i, root) ==
    LET starts == {j \in i..Len(ts) : ts[j].tok = "start_element" /\ ts[j].val = root}
        c == Content(ts, Min(starts) + 1, [name |-> root, entries |-> <<>>, text |-> <<>>, end |-> 0])
    IN  IF starts = {} \/ c.end = 0 THEN <<>>
        ELSE <<ElementValue(c)>> \o ReadAll(ts, c.end + 1, root)

(* A value written and read again: arrays in arrays are one array, what is *)
(* left of an array is what its elements fold to, an empty one is nothing. *)
RECURSIVE Normal(_), Elements(_)
Elements(v) ==
    IF v.kind = "array" THEN FlattenSeq([i \in DOMAIN v.items |-> Elements(v.items[i].val)]) ELSE <<Normal(v)>>
Named(key, vals) == [i \in DOMAIN vals |-> Entry(key, vals[i])]
Normal(v) ==
    CASE v.kind = "record" ->
            Record(Grouped(FlattenSeq([i \in DOMAIN v.items |-> Named(v.items[i].key, Elements(v.items[i].val))])))
      [] v.kind = "string" -> TextValue(v.text)
      [] OTHER -> v
NormalRoot(root, v) ==
    CASE v.kind # "array" -> Normal(v)
      [] Elements(v) = <<>> -> Null
      [] OTHER -> Record(Grouped(Named(root, Elements(v))))

-----------------------------------------------------------------------------
CONSTANTS
    Size,  \* opts.indent_size
    Base   \* the argument `indent`

ASSUME WriteAssumption == Size \in Nat /\ Base \in Nat

VARIABLES
    writing,  \* "no", "loop", "done"
    items,    \* `stack`
    isFirst,  \* is_first_element
    indent,   \* `indent`
    element,  \* `element`
    out       \* what has been written

wvars == <<writing, items, isFirst, indent, element, out>>

WriteTypeOK ==
    /\ writing \in {"no", "loop", "done"}
    /\ \A i \in DOMAIN items : items[i].next \in 1..Len(items[i].of.items) + 1
    /\ isFirst \in BOOLEAN
    /\ indent \in Nat
    /\ element \in Seq(Letters) /\ out \in Seq(Char)

WriteInit ==
    /\ writing = "no" /\ items = <<>> /\ isFirst = TRUE /\ indent = Base
    /\ element = <<>> /\ out = <<>>

Escaped(s) ==
    LET esc(c) == {n \in DOMAIN Predefined : Predefined[n] = c}
    IN  FlattenSeq([i \in DOMAIN s |->
            IF esc(s[i]) = {} THEN <<s[i]>> ELSE <<"&", CHOOSE n \in esc(s[i]) : TRUE, ";">>])

IsContainer(v) == v.kind \in {"record", "array"}

(* value_visitor: scalars are written, containers go on the stack. *)
Visited(v) ==
    CASE IsContainer(v) -> <<>>
      [] v.kind = "number" -> v.text
      [] v.kind = "string" -> Escaped(v.text)
      [] OTHER -> <<v.kind>>
Pushed(v, name) == IF IsContainer(v) THEN <<[of |-> v, next |-> 1, element |-> name]>> ELSE <<>>

Opened(name) == <<"<">> \o name \o <<">">>
Closed(name) == <<"<", "/">> \o name \o <<">">>
NewLine(n) == <<"nl">> \o [i \in 1..n |-> "w"]

BeginWrite(v, root) ==
    /\ writing = "no"
    /\ out' = Opened(root) \o Visited(v) \o IF IsContainer(v) THEN <<>> ELSE Closed(root)
    /\ items' = Pushed(v, root) /\ element' = root
    /\ writing' = IF IsContainer(v) THEN "loop" ELSE "done"
    /\ UNCHANGED <<isFirst, indent>>

WTop == Last(items)
InRecord == WTop.of.kind = "record"
Exhausted == WTop.next > Len(WTop.of.items)
Deeper == indent + IF isFirst /\ InRecord THEN Size ELSE 0
CloseMember ==
    IF ~isFirst /\ WTop.of.items[WTop.next - 1].val.kind # "array" THEN Closed(element) ELSE <<>>

WriteMember ==
    /\ writing = "loop" /\ ~Exhausted
    /\ LET m == WTop.of.items[WTop.next]
           key == IF InRecord THEN m.key ELSE element
           tag == IF m.val.kind = "array" THEN <<>> ELSE NewLine(Deeper) \o Opened(key)
       IN  /\ out' = out \o CloseMember \o tag \o Visited(m.val)
           /\ items' = [items EXCEPT ![Len(items)].next = @ + 1] \o Pushed(m.val, key)
           /\ isFirst' = IsContainer(m.val)
           /\ element' = key
    /\ indent' = Deeper
    /\ UNCHANGED writing

(* Mutant: the name is not that of the container that is left.             *)
WriteEnd_KeepsName ==
    /\ writing = "loop" /\ Exhausted
    /\ indent' = IF InRecord THEN Deeper - Size ELSE Deeper
    /\ out' = out \o CloseMember \o (IF InRecord THEN NewLine(indent') ELSE <<>>)
                  \o IF Len(items) = 1 THEN Closed(element) ELSE <<>>
    /\ items' = Front(items)
    /\ isFirst' = FALSE
    /\ writing' = IF Len(items) = 1 THEN "done" ELSE "loop"
    /\ UNCHANGED element

WriteEnd ==
    /\ writing = "loop" /\ Exhausted
    /\ indent' = IF InRecord THEN Deeper - Size ELSE Deeper
    /\ element' = WTop.element
    /\ out' = out \o CloseMember \o (IF InRecord THEN NewLine(indent') ELSE <<>>)
                  \o IF Len(items) = 1 THEN Closed(element') ELSE <<>>
    /\ items' = Front(items)
    /\ isFirst' = FALSE
    /\ writing' = IF Len(items) = 1 THEN "done" ELSE "loop"

=============================================================================
