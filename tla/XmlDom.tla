-------------------------------- MODULE XmlDom --------------------------------
(***************************************************************************)
(* xml::parser::read (include/uxs/impl/db/xml_impl.h) over the tokens that *)
(* XmlParse returns, and xml::write before it: a program reads every       *)
(* element with the name Root, from a text that it was given, or from what *)
(* it has itself written.                                                  *)
(*                                                                         *)
(* The value under construction is a memory of nodes.  An open element is  *)
(* known by its node; a node that becomes an array moves its value into    *)
(* another node, as convert_to_array() does.                               *)
(***************************************************************************)
EXTENDS XmlParse, XmlWrite

CONSTANTS
    Root,    \* root_element, also the argument `element` of write()
    Written  \* sets of values that are written, each with the number of
             \* blocks (less one) their text is read in, at most

ASSUME DomAssumption == Root \in Seq(Letters) /\ \A w \in Written : w.borders \in Nat

VARIABLES
    value,   \* what is written, if `writing` is not "no"
    reading, \* "no", "search" for the root, "inside" it, or "thrown"
    txt,     \* `txt`
    open,    \* `stack`: the open elements, node and name
    mem,     \* the nodes of `result`
    results  \* what read() has returned

reader == <<reading, txt, open, mem, results>>
domVars == <<vars, wvars, value, reader>>

Node(kind, chars, members) == [kind |-> kind, text |-> chars, items |-> members]
NullNode == Node("null", <<>>, <<>>)

ReadTypeOK ==
    /\ reading \in {"no", "search", "inside", "thrown"}
    /\ txt \in Seq(Char)
    /\ \A i \in DOMAIN open : open[i].node \in DOMAIN mem /\ open[i].name \in Seq(Letters \cup {"d", "-"})
    /\ \A n \in DOMAIN mem : \A i \in DOMAIN mem[n].items : mem[n].items[i].node \in DOMAIN mem
    /\ reading = "inside" <=> open # <<>>

DomInit ==
    /\ Start /\ WriteInit
    /\ \/ Given /\ value = Null /\ reading = "search"
       \/ text = <<>> /\ cuts = {} /\ (\E w \in Written : value \in w.values) /\ reading = "no"
    /\ txt = <<>> /\ open = <<>> /\ mem = <<>> /\ results = <<>>

---------------------------------------------------------------------------
(* emplace_unique(key), and emplace_back() on what it finds: the memory    *)
(* with a new null node at its end.                                        *)
Emplaced(m, p, key) ==
    LET found == {i \in DOMAIN m[p].items : m[p].items[i].key = key}
        e == m[p].items[CHOOSE i \in found : TRUE].node
        n == Len(m) + 1
        item(i) == [key |-> <<>>, node |-> i]
    IN  CASE found = {} ->
                Append([m EXCEPT ![p] = Node("record", <<>>, Append(@.items, [key |-> key, node |-> n]))], NullNode)
          [] found # {} /\ m[e].kind = "array" ->
                Append([m EXCEPT ![e].items = Append(@, item(n))], NullNode)
          [] found # {} /\ m[e].kind = "null" ->
                Append([m EXCEPT ![e] = Node("array", <<>>, <<item(n)>>)], NullNode)
          [] OTHER ->
                [m EXCEPT ![e] = Node("array", <<>>, <<item(n), item(n + 1)>>)] \o <<m[e], NullNode>>

(* A scalar, or an empty record, in a node. *)
Scalar(v) == Node(v.kind, v.text, <<>>)

WithAttributes(m, p, as) ==
    FoldLeft(LAMBDA acc, a :
                LET new == Emplaced(acc, p, a.key) IN [new EXCEPT ![Len(new)] = Scalar(a.val)], m, as)

(* The tree whose root a node is. *)
RECURSIVE Tree(_, _)
Tree(m, n) ==
    Value(m[n].kind, m[n].text,
          [i \in DOMAIN m[n].items |-> Entry(m[n].items[i].key, Tree(m, m[n].items[i].node))])

Top == Last(open)
Refused == reading' = "thrown" /\ open' = <<>> /\ UNCHANGED <<txt, mem, results>>

Search(t) ==
    CASE t.tok = "start_element" /\ t.val = Root ->
            /\ reading' = "inside" /\ mem' = <<NullNode>> /\ open' = <<[node |-> 1, name |-> Root]>>
            /\ txt' = <<>> /\ UNCHANGED results
      [] t.tok \in {"eof", "throw"} -> Refused
      [] OTHER -> UNCHANGED reader

Text(t) ==
    /\ txt' = IF mem[Top.node].kind = "record" THEN txt ELSE txt \o t.val
    /\ UNCHANGED <<reading, open, mem, results>>

(* Mutant: the text in front of an element goes into the element.          *)
StartElement_KeepsText(t) ==
    LET new == Emplaced(mem, Top.node, t.val)
    IN  /\ mem' = WithAttributes(new, Len(new), AttrEntries(t.attrs))
        /\ open' = Append(open, [node |-> Len(new), name |-> t.val])
        /\ UNCHANGED <<reading, results, txt>>

StartElement(t) ==
    LET new == Emplaced(mem, Top.node, t.val)
    IN  /\ txt' = <<>>
        /\ mem' = WithAttributes(new, Len(new), AttrEntries(t.attrs))
        /\ open' = Append(open, [node |-> Len(new), name |-> t.val])
        /\ UNCHANGED <<reading, results>>

EndElement(t) ==
    IF t.val # Top.name THEN Refused
    ELSE /\ mem' = IF mem[Top.node].kind = "record" \/ txt = <<>> THEN mem
                   ELSE [mem EXCEPT ![Top.node] = Scalar(TextValue(txt))]
         /\ open' = Front(open)
         /\ IF Len(open) = 1
            THEN reading' = "search" /\ results' = Append(results, Tree(mem', 1))
            ELSE UNCHANGED <<reading, results>>
         /\ UNCHANGED txt

Inside(t) ==
    CASE t.tok = "plain_text" -> Text(t)
      [] t.tok = "start_element" -> StartElement(t)
      [] t.tok = "end_element" -> EndElement(t)
      [] OTHER -> Refused

(* The parser goes on; if it has a token, read() takes it. *)
Read ==
    /\ reading # "no" /\ Next
    /\ CASE toks' = toks \/ reading = "thrown" -> UNCHANGED reader
         [] toks' # toks /\ reading = "search" -> Search(Last(toks'))
         [] toks' # toks /\ reading = "inside" -> Inside(Last(toks'))
    /\ UNCHANGED <<wvars, value>>

---------------------------------------------------------------------------
Write ==
    /\ reading = "no"
    /\ BeginWrite(value, Root) \/ WriteMember \/ WriteEnd
    /\ UNCHANGED <<vars, value, reader>>

(* What was written is read again. *)
ReadAgain ==
    /\ reading = "no" /\ writing = "done"
    /\ reading' = "search"
    /\ text' = out
    /\ \E w \in Written : value \in w.values /\ Divided(text', cuts', w.borders)
    /\ UNCHANGED <<buffer, pc, lexer, parser, toks, lost, wvars, value, txt, open, mem, results>>

DomNext == Read \/ Write \/ ReadAgain

DomSpec == DomInit /\ [][DomNext]_domVars

---------------------------------------------------------------------------
(* An element that is open is the last one of its parent, or of the array  *)
(* it belongs to: nothing is put behind it that could move it while read() *)
(* has a pointer to it.                                                    *)
OpenIsLast ==
    \A i \in 1..Len(open) - 1 :
        LET last(n) == Last(mem[n].items).node
            p == open[i].node
            in == mem[p].items[CHOOSE j \in DOMAIN mem[p].items : mem[p].items[j].key = open[i + 1].name].node
        IN  open[i + 1].node \in {in} \cup (IF mem[in].kind = "array" THEN {last(in)} ELSE {})

(* The type invariants, and what read() relies on.                         *)
DomInv == Inv /\ WriteTypeOK /\ ReadTypeOK /\ OpenIsLast

(* read() returns what the text means, element after element: attributes   *)
(* and elements are members, repeated ones arrays, and the rest is text;   *)
(* and so it has its tokens from next().                                   *)
ReadExact ==
    /\ TokensExact
    /\ pc = "stopped" /\ ~lost /\ ~stale =>
          results = ReadAll(SelectSeq(Expected, LAMBDA t : ~IsBare(t)), 1, Root)

(* A value that is written and read again is the same but for what XML has *)
(* no place for, wherever the text is cut, and with nothing lost or stale: *)
(* tags are closed in order and with their own names, and special          *)
(* characters come back.                                                   *)
RoundTrip ==
    pc = "stopped" /\ writing = "done" =>
        /\ ~lost /\ ~stale
        /\ results = <<NormalRoot(Root, value)>>
        /\ indent = Base
===============================================================================
