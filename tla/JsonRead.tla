----------------------------- MODULE JsonRead ------------------------------
(***************************************************************************)
(* json::read (include/uxs/db/json.h): the parser between the lexer and    *)
(* four callbacks, and the callbacks by which read() makes a basic_value   *)
(* (include/uxs/impl/db/json_impl.h).  The tokens are arbitrary.           *)
(*                                                                         *)
(* The value under construction is a memory: the elements of an array are  *)
(* at <<block, i>> and move to a new block when the array grows; those of  *)
(* a record are nodes that stay.  The callbacks keep pointers: `val` to    *)
(* the value to be set, `open` to the containers being filled.             *)
(***************************************************************************)
EXTENDS Integers, Sequences, SequencesExt

-----------------------------------------------------------------------------
(***************************************************************************)
(* Which sequences of tokens are a JSON value, and which begin one: the    *)
(* language JsonRead is to accept, told by the grammar and not by an       *)
(* automaton.  "s" is a string, "v" any other scalar.                      *)
(***************************************************************************)
Join(A, B) == {a \o b : a \in A, b \in B}

(* By number of tokens: the values, the `value ,` lists, the `member ,`    *)
(* lists and the beginnings of a value.                                    *)
RECURSIVE Values(_), ItemList(_), MemberList(_), Begun(_)
Members(n) == IF n < 3 THEN {} ELSE Join({<<"s", ":">>}, Values(n - 2))

Values(n) ==
  IF n < 2 THEN IF n = 1 THEN {<<"s">>, <<"v">>} ELSE {}
  ELSE (IF n = 2 THEN {<<"[", "]">>, <<"{", "}">>} ELSE {})
       \cup UNION {Join(Join(Join({<<"[">>}, ItemList(i)), Values(n - 2 - i)), {<<"]">>}) : i \in 0 .. n - 3}
       \cup UNION {Join(Join(Join({<<"{">>}, MemberList(i)), Members(n - 2 - i)), {<<"}">>}) : i \in 0 .. n - 3}

ItemList(n) ==
  IF n = 0 THEN {<<>>}
  ELSE UNION {Join(Join(Values(i), {<<",">>}), ItemList(n - 1 - i)) : i \in 1 .. n - 1}

MemberList(n) ==
  IF n = 0 THEN {<<>>}
  ELSE UNION {Join(Join(Members(i), {<<",">>}), MemberList(n - 1 - i)) : i \in 1 .. n - 1}

MemberBegun(n) ==
  CASE n = 0 -> {<<>>} [] n = 1 -> {<<"s">>} [] OTHER -> Join({<<"s", ":">>}, Begun(n - 2))

Begun(n) ==
  IF n = 0 THEN {<<>>}
  ELSE Values(n)
       \cup UNION {Join(Join({<<"[">>}, ItemList(i)), Begun(n - 1 - i)) : i \in 0 .. n - 1}
       \cup UNION {Join(Join({<<"{">>}, MemberList(i)), MemberBegun(n - 1 - i)) : i \in 0 .. n - 1}

-----------------------------------------------------------------------------
CONSTANTS
  Clients,   \* "dom": the callbacks of read(); "sax": any, which may say over or stop
  MaxTokens, \* bound on the tokens read
  Grow       \* the sizes at which an array's block is full

ASSUME ReadAssumption ==
  /\ Clients \subseteq {"dom", "sax"}
  /\ MaxTokens \in Nat
  /\ Grow \subseteq Nat

TokenTypes == {"[", "]", "{", "}", ",", ":", "s", "v", "eof"}
Scalars == {"s", "v"}
Opening == {"[", "{"}
Closing(c) == IF c = "[" THEN "]" ELSE "}"

VARIABLES
  client,
  step,     \* which lexer.lex() comes next
  current,  \* `current`: the container the loop is in
  stack,    \* `stack`: the containers around it
  comma,    \* `comma`: the container goes on after a popped one
  mem,      \* the values by address
  val,      \* `val` of read(ibuf&)
  open,     \* `stack` of read(ibuf&)
  blocks,   \* how many blocks have been allocated
  seen,     \* history: the tokens read
  skipped   \* history: a client said `over` of a container

parser == <<step, current, stack, comma>>
dom == <<mem, val, open, blocks>>
readVars == <<client, parser, dom, seen, skipped>>

Root == <<0, 0>>
Value(kind, blk) == [kind |-> kind, blk |-> blk, n |-> 0]

ReadTypeOK ==
  /\ client \in {"dom", "sax"}
  /\ step \in {"start", "loop", "item", "key", "colon", "value", "after", "popped",
             "accepted", "refused", "stopped"}
  /\ current \in Opening \cup {""}
  /\ stack \in Seq(Opening)
  /\ comma \in BOOLEAN /\ skipped \in BOOLEAN
  /\ DOMAIN mem \subseteq Nat \X Nat
  /\ \A a \in DOMAIN mem : mem[a].kind \in Opening \cup Scalars \cup {"null"}
  /\ val \in Nat \X Nat /\ open \in Seq(Nat \X Nat)
  /\ blocks \in Nat
  /\ seen \in Seq(TokenTypes)

-----------------------------------------------------------------------------
ReadInit ==
  /\ client \in Clients
  /\ step = "start" /\ current = "" /\ stack = <<>> /\ comma = FALSE
  /\ mem = [a \in {Root} |-> Value("null", 0)] /\ val = Root /\ open = <<>> /\ blocks = 0
  /\ seen = <<>> /\ skipped = FALSE

(* A new element at the end of the container `open` ends with: an array    *)
(* that is full takes its elements to a new block first.                   *)
Emplace(m, b) ==
  LET p == Last(open)
      c == m[p]
      moves == c.kind = "[" /\ c.n \in Grow
      blk == IF moves THEN b + 1 ELSE c.blk
      old == {a \in DOMAIN m : moves /\ a[1] = c.blk}
      moved == {<<blk, a[2]>> : a \in old}
      at == <<blk, c.n + 1>>
  IN [at |-> at, blocks |-> IF moves THEN b + 1 ELSE b,
      mem |-> [a \in ((DOMAIN m \ old) \cup moved \cup {at}) |->
                 CASE a = at -> Value("null", 0)
                   [] a = p -> [c EXCEPT !.blk = blk, !.n = @ + 1]
                   [] a \in moved -> m[<<c.blk, a[2]>>]
                   [] OTHER -> m[a]]]

(* fn_arr_item and fn_obj_item: `val` is a new element.                    *)
NewItem ==
  IF client = "sax" THEN [at |-> val, blocks |-> blocks, mem |-> mem] ELSE Emplace(mem, blocks)

(* fn_value of read(): a scalar is set, a container is set and opened.     *)
SetValue(tt, m, at, b) ==
  IF client = "sax" THEN UNCHANGED dom
  ELSE /\ mem' = [m EXCEPT ![at] = Value(tt, IF tt \in Opening THEN b + 1 ELSE 0)]
       /\ blocks' = IF tt \in Opening THEN b + 1 ELSE b
       /\ open' = IF tt \in Opening THEN Append(open, at) ELSE open
       /\ val' = at

Refuse == step' = "refused" /\ UNCHANGED <<current, stack, comma, dom, skipped>>

(* Mutant: the comma flag of the container outside stays set inside.       *)
HandleValue_KeepsComma(tt, m, at, b, outer) ==
  IF tt \notin Opening \cup Scalars THEN Refuse
  ELSE /\ SetValue(tt, m, at, b)
       /\ \/ /\ tt \in Opening
             /\ stack' = outer /\ current' = tt
             /\ step' = "loop" /\ UNCHANGED <<skipped, comma>>
          \/ /\ tt \in Scalars
             /\ step' = IF step = "start" THEN "accepted" ELSE "after"
             /\ UNCHANGED <<current, stack, comma, skipped>>

(* fn_value_checked(tt), and what follows it: `into` of a container makes  *)
(* it the current one, with `outer` on the stack.                          *)
HandleValue(tt, m, at, b, outer) ==
  IF tt \notin Opening \cup Scalars THEN Refuse
  ELSE /\ SetValue(tt, m, at, b)
       /\ \/ /\ tt \in Opening
             /\ stack' = outer /\ current' = tt /\ comma' = FALSE
             /\ step' = "loop" /\ UNCHANGED skipped
          \/ /\ tt \in Scalars
             /\ step' = IF step = "start" THEN "accepted" ELSE "after"
             /\ UNCHANGED <<current, stack, comma, skipped>>
          \/ /\ client = "sax"
             /\ step' \in {IF step = "start" THEN "accepted" ELSE "after", "stopped"}
             /\ skipped' = (skipped \/ (tt \in Opening /\ step' # "stopped"))
             /\ UNCHANGED <<current, stack, comma>>

(* The value that is to come is one of the current container.              *)
Item(tt) ==
  LET new == NewItem
  IN HandleValue(tt, new.mem, new.at, new.blocks, Append(stack, current))

(* fn_obj_item(key): the value is emplaced before it is read.              *)
Key(tt) ==
  IF tt # "s" THEN Refuse
  ELSE /\ step' = "colon"
       /\ LET new == NewItem
          IN mem' = new.mem /\ val' = new.at /\ blocks' = new.blocks
       /\ UNCHANGED <<current, stack, comma, open, skipped>>

(* Mutant: fn_pop is called only when the loop goes on with a comma.       *)
CloseCurrent_NoPop ==
  IF stack = <<>>
  THEN step' = "accepted" /\ UNCHANGED <<current, stack, comma, dom, skipped>>
  ELSE /\ current' = Last(stack) /\ stack' = Front(stack)
       /\ step' = "popped" /\ UNCHANGED <<comma, dom, skipped>>

(* The while loop over the stack: the container that closed is popped, and *)
(* read() is done when it was the outermost.                               *)
CloseCurrent ==
  IF stack = <<>>
  THEN step' = "accepted" /\ UNCHANGED <<current, stack, comma, dom, skipped>>
  ELSE /\ current' = Last(stack) /\ stack' = Front(stack)
       /\ open' = IF client = "dom" THEN Front(open) ELSE open
       /\ step' = "popped" /\ UNCHANGED <<comma, mem, val, blocks, skipped>>

-----------------------------------------------------------------------------
Start(tt) ==
  /\ step = "start"
  /\ HandleValue(tt, mem, val, blocks, <<>>)

Loop(tt) ==
  /\ step = "loop"
  /\ IF ~comma /\ tt = Closing(current) THEN CloseCurrent
     ELSE IF current = "[" THEN Item(tt) ELSE Key(tt)

NextItem(tt) == step = "item" /\ Item(tt)
NextKey(tt) == step = "key" /\ Key(tt)

Colon(tt) ==
  /\ step = "colon"
  /\ IF tt # ":" THEN Refuse
     ELSE step' = "value" /\ UNCHANGED <<current, stack, comma, dom, skipped>>

MemberValue(tt) ==
  /\ step = "value"
  /\ HandleValue(tt, mem, val, blocks, Append(stack, current))

(* After a value inside the loop: a comma, or the container's end.         *)
After(tt) ==
  /\ step = "after"
  /\ IF tt = Closing(current) THEN CloseCurrent
     ELSE IF tt # "," THEN Refuse
     ELSE /\ step' = IF current = "[" THEN "item" ELSE "key"
          /\ UNCHANGED <<current, stack, comma, dom, skipped>>

(* After a popped container: the same, but the loop is entered anew.       *)
Popped(tt) ==
  /\ step = "popped"
  /\ IF tt = Closing(current) THEN CloseCurrent
     ELSE IF tt # "," THEN Refuse
     ELSE /\ comma' = TRUE /\ step' = "loop"
          /\ UNCHANGED <<current, stack, dom, skipped>>

Read(tt) ==
  /\ Len(seen) < MaxTokens
  /\ seen' = Append(seen, tt)
  /\ UNCHANGED client
  /\ \/ Start(tt) \/ Loop(tt) \/ NextItem(tt) \/ NextKey(tt) \/ Colon(tt)
     \/ MemberValue(tt) \/ After(tt) \/ Popped(tt)

ReadDone ==
  /\ step \in {"accepted", "refused", "stopped"} \/ Len(seen) = MaxTokens
  /\ UNCHANGED readVars

ReadNext == (\E tt \in TokenTypes : Read(tt)) \/ ReadDone

-----------------------------------------------------------------------------
Complete == UNION {Values(n) : n \in 1 .. MaxTokens}
Viable == UNION {Begun(n) : n \in 0 .. MaxTokens}

(* read() refuses a token exactly when no JSON text goes on with it, and   *)
(* returns exactly when a value is complete, whatever was nested in what   *)
(* and wherever commas stand.  A client that stops ends it anywhere; one   *)
(* that steps over a container leaves its contents to be read as if they   *)
(* were the outer one's, so nothing is said of it.                         *)
VerdictExact ==
  ~skipped =>
    CASE step = "refused" -> seen \notin Viable
      [] step = "accepted" -> seen \in Complete
      [] OTHER -> seen \in Viable /\ (step # "stopped" => seen \notin Complete)

(* The callbacks' stack is the parser's: they fill the container the       *)
(* parser is in, through pointers that growing arrays have not left behind *)
(* dangling.                                                               *)
PointersAgree ==
  client = "dom" =>
    /\ step \notin {"start", "accepted", "refused"} =>
         LET containers == Append(stack, current)
         IN /\ Len(open) = Len(containers)
            /\ \A i \in DOMAIN open : open[i] \in DOMAIN mem /\ mem[open[i]].kind = containers[i]
    /\ step \in {"colon", "value"} => val \in DOMAIN mem /\ mem[val].kind = "null"

(* The type invariant, and the agreement of the two stacks.                *)
ReadInv == ReadTypeOK /\ PointersAgree

=============================================================================
