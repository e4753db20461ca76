------------------------------- MODULE CliParse -------------------------------
(***************************************************************************)
(* basic_command::parse(): the arguments are divided, from left to right   *)
(* and without going back, among subcommands, options with their values    *)
(* and positional values; then the options that were given are checked     *)
(* against the groups they were declared in.  One action is one turn of a  *)
(* loop.  Every handler call that counts is noted in "calls": a handler    *)
(* has run, whatever the result turns out to be.                           *)
(***************************************************************************)
EXTENDS Integers, FiniteSets, Sequences, SequencesExt

-----------------------------------------------------------------------------
(***************************************************************************)
(* How a command line is declared (uxs/cli/parser.h): options, groups of   *)
(* options joined by & and |, the values they take, the map from a key to  *)
(* its option, and the search of that map by an argument.                  *)
(*                                                                         *)
(* A text is a sequence of characters (numbers, in the order of their      *)
(* codes).  A tree of options is the sequence of its nodes in post-order,  *)
(* which is the order traverse_options visits them in; the last node is    *)
(* the root and a group names its children by position.                    *)
(***************************************************************************)
CONSTANT Digits           \* the characters a number may start with

(* A value: its handler takes any text, or (the handler calls from_string) *)
(* any text that starts as a number; what follows the number is ignored.   *)
Value(number, isOptional, isMultiple) ==
    [number |-> number, optional |-> isOptional, multiple |-> isMultiple]

Accepts(val, text) == val.number => text # <<>> /\ text[1] \in Digits

Option(keys, vals, isOptional) ==
    << [group |-> FALSE, exclusive |-> FALSE, optional |-> isOptional,
        kids |-> <<>>, keys |-> keys, vals |-> vals] >>

Group(isExclusive) ==
    << [group |-> TRUE, exclusive |-> isExclusive, optional |-> FALSE,
        kids |-> <<>>, keys |-> <<>>, vals |-> <<>>] >>

Shift(tree, k) ==
    [i \in DOMAIN tree |->
        [tree[i] EXCEPT !.kids = [j \in DOMAIN @ |-> @[j] + k]]]

(* add_child(): an exclusive group takes the option's being optional upon *)
(* itself.                                                                *)
AddChild(tree, child) ==
    LET root  == Last(tree)
        moved == root.exclusive /\ Last(child).optional
        body  == Front(tree) \o Shift(child, Len(tree) - 1)
        kid   == Len(body)
    IN  Append([body EXCEPT ![kid].optional = @ /\ ~moved],
               [root EXCEPT !.kids = Append(@, kid),
                            !.optional = @ \/ moved])

(* operator&= and operator|= of an option wrapper. *)
And(tree, child) ==
    LET root == Last(tree)
    IN  IF root.group /\ ~root.optional /\ ~root.exclusive
        THEN AddChild(tree, child)
        ELSE AddChild(AddChild(Group(FALSE), tree), child)

Or(tree, child) ==
    LET root == Last(tree)
    IN  IF root.group /\ root.exclusive
        THEN AddChild(tree, child)
        ELSE AddChild(AddChild(Group(TRUE), tree), child)

MadeOptional(tree) == [tree EXCEPT ![Len(tree)].optional = TRUE]

(* opt_map_: every key of every option; emplace() keeps the first owner. *)
OptMap(tree) ==
    FoldLeft(LAMBDA map, i : map @@ [k \in ToSet(tree[i].keys) |-> i],
             <<>>, [i \in DOMAIN tree |-> i])

CommonPrefix(s, t) ==
    Max({n \in 0..Min({Len(s), Len(t)}) :
            \A i \in 1..n : s[i] = t[i]})

Less(s, t) ==
    LET n == CommonPrefix(s, t)
    IN  n < Len(t) /\ (n = Len(s) \/ s[n + 1] < t[n + 1])

(* A command with the options added to it, its values, and the name it     *)
(* gives each of its subcommands; opt_map_ is sorted by key.               *)
Command(options, values, subcommands) ==
    LET opts == FoldLeft(AddChild, Group(FALSE), options)
        map  == OptMap(opts)
    IN  [opts |-> opts, map |-> map, keys |-> SetToSortSeq(DOMAIN map, Less),
         values |-> values, subcommands |-> subcommands]

(* find_option_by_key(): the key itself, or, walking back through the      *)
(* sorted keys and cutting the argument to what it shares with each, the   *)
(* first key that is all of what is left and whose option takes values.    *)
(* The result is the set of that key, or empty.                            *)
FindKey(cmd, arg) ==
    LET keys == cmd.keys
        shared(i) == CommonPrefix(keys[i], arg)
        fits == {i \in DOMAIN keys :
                    /\ shared(i) = Len(keys[i]) /\ Less(keys[i], arg)
                    /\ cmd.opts[cmd.map[keys[i]]].vals # <<>>
                    /\ \A j \in i + 1..Len(keys) :
                          Less(keys[j], arg) => shared(j) > 0 /\ shared(j) >= Len(keys[i])}
    IN  IF arg \in DOMAIN cmd.map THEN {arg}
        ELSE IF fits = {} THEN {} ELSE {keys[Max(fits)]}

-----------------------------------------------------------------------------
CONSTANTS Commands,       \* the commands of the program, subcommands among them
          Inputs          \* those it may be called as, each with arguments

Values == [number : BOOLEAN, optional : BOOLEAN, multiple : BOOLEAN]
OptionNodes == [group : BOOLEAN, exclusive : BOOLEAN, optional : BOOLEAN,
                kids : Seq(Nat), keys : Seq(Seq(Nat)), vals : Seq(Values)]

(* The nodes of a tree in post-order: options, and groups of earlier ones. *)
IsTree(tree) ==
    /\ tree \in Seq(OptionNodes) /\ tree # <<>>
    /\ \A i \in DOMAIN tree :
          /\ ToSet(tree[i].kids) \subseteq 1..(i - 1)
          /\ IF tree[i].group THEN tree[i].keys = <<>> ELSE tree[i].kids = <<>>

(* A command is a tree of options, a map of their keys in their order, and *)
(* subcommands.  The order is that of std::map.                            *)
IsCommand(c) ==
    /\ IsTree(c.opts) /\ c.values \in Seq(Values)
    /\ DOMAIN c.map \subseteq Seq(Nat)
    /\ \A k \in DOMAIN c.map :
          /\ c.map[k] \in DOMAIN c.opts
          /\ k \in ToSet(c.opts[c.map[k]].keys)
    /\ c.keys \in Seq(DOMAIN c.map) /\ ToSet(c.keys) = DOMAIN c.map
    /\ \A i, j \in DOMAIN c.keys : i < j => Less(c.keys[i], c.keys[j])
    /\ DOMAIN c.subcommands \subseteq Seq(Nat)
    /\ \A name \in DOMAIN c.subcommands : c.subcommands[name] \in Commands

ASSUME CommandsAssumption == \A c \in Commands : IsCommand(c)
ASSUME InputsAssumption ==
    \A in \in Inputs : in.cmd \in Commands /\ in.args \in Seq(Seq(Nat))

VARIABLES args,           \* what parse() is called with, without argv[0]
          pc,             \* the loop it is in
          cmd,            \* the command whose arguments are being read
          pos,            \* arguments read
          key,            \* the key of the option whose values are read
          prefix,         \* n_prefix: the part of the argument the key took
          val,            \* the value of the option being read
          took,           \* parse_value(): a multiple value has got one
          valIt,          \* val_it: the next positional value
          count,          \* count_multiple
          specified, optional,
          node,           \* the node traverse_options is at
          status,         \* the result, "" while there is none
          culprit,        \* the node in it: {}, or a position in a list
          calls

reading == <<cmd, pos, key, prefix, val, took, valIt, count>>
vars == <<args, pc, reading, specified, optional, node, status, culprit, calls>>

Statuses == {"", "ok", "unspecified_value", "invalid_value", "unknown_option",
             "unspecified_option", "conflicting_option"}

TypeOK ==
    /\ args \in Seq(Seq(Nat))
    /\ pc \in {"commands", "args", "option", "rest", "check", "done"}
    /\ pos \in 0..Len(args)
    /\ pc = "option" => /\ key \in DOMAIN cmd.map
                        /\ prefix \in {0, Len(key)}
                        /\ val \in 1..(Len(cmd.opts[cmd.map[key]].vals) + 1)
    /\ took \in BOOLEAN
    /\ valIt \in 1..(Len(cmd.values) + 1)
    /\ count \in 0..Len(args)
    /\ specified \cup optional \subseteq DOMAIN cmd.opts
    /\ node \in 1..(Len(cmd.opts) + 1)
    /\ status \in Statuses /\ (status = "" <=> pc # "done")

---------------------------------------------------------------------------
Init ==
    /\ \E in \in Inputs : cmd = in.cmd /\ args = in.args
    /\ pc = "commands" /\ pos = 0
    /\ key = <<>> /\ prefix = 0 /\ val = 1 /\ took = FALSE
    /\ valIt = 1 /\ count = 0
    /\ specified = {} /\ optional = {} /\ node = 1
    /\ status = "" /\ culprit = <<>>
    /\ calls = << [by |-> "command", text |-> <<>>, at |-> 0] >>

More == pos < Len(args)
Arg == args[pos + 1]
Text == SubSeq(Arg, prefix + 1, Len(Arg))

Call(by, text, at) == calls' = Append(calls, [by |-> by, text |-> text, at |-> at])

Fail(why, who) ==
    /\ pc' = "done" /\ status' = why /\ culprit' = who
    /\ UNCHANGED <<specified, optional, node, calls>>

Stays == UNCHANGED args
NotChecking == UNCHANGED <<specified, optional, node, status, culprit>>

(* An argument that names a subcommand: its handler is called at once. *)
Descend ==
    /\ pc = "commands" /\ More /\ Arg \in DOMAIN cmd.subcommands
    /\ cmd' = cmd.subcommands[Arg]
    /\ pos' = pos + 1
    /\ Call("command", Arg, pos + 1)
    /\ Stays /\ NotChecking /\ UNCHANGED <<pc, key, prefix, val, took, valIt, count>>

CommandFound ==
    /\ pc = "commands" /\ ~(More /\ Arg \in DOMAIN cmd.subcommands)
    /\ pc' = "args"
    /\ Stays /\ NotChecking /\ UNCHANGED <<reading, calls>>

---------------------------------------------------------------------------
(* An option, by itself or with its first value in the same argument. *)
OptionKey ==
    /\ pc = "args" /\ More
    /\ \E k \in FindKey(cmd, Arg) :
          /\ key' = k
          /\ IF Len(k) = Len(Arg)
             THEN prefix' = 0 /\ pos' = pos + 1
             ELSE prefix' = Len(k) /\ UNCHANGED pos
          /\ Call("key", k, pos + 1)
    /\ pc' = "option" /\ val' = 1 /\ took' = FALSE
    /\ Stays /\ NotChecking /\ UNCHANGED <<cmd, valIt, count>>

CurrentOption == cmd.opts[cmd.map[key]]
CurrentValue == CurrentOption.vals[val]

(* parse_value(): an optional or multiple value leaves an argument that is *)
(* an option alone, unless it is the rest of the key's own.                *)
Offered ==
    /\ More
    /\ (CurrentValue.optional \/ CurrentValue.multiple)
          => (prefix # 0 \/ FindKey(cmd, Text) = {})

(* Mutant: the key's length is still skipped in the arguments after it. *)
OptionValue_KeepsPrefix ==
    /\ pc = "option" /\ val <= Len(CurrentOption.vals)
    /\ Offered /\ Accepts(CurrentValue, Text)
    /\ Call("value", Text, pos + 1)
    /\ pos' = pos + 1
    /\ IF CurrentValue.multiple THEN took' = TRUE /\ UNCHANGED val
                                ELSE took' = FALSE /\ val' = val + 1
    /\ Stays /\ NotChecking /\ UNCHANGED <<pc, cmd, key, prefix, valIt, count>>

OptionValue ==
    /\ pc = "option" /\ val <= Len(CurrentOption.vals)
    /\ Offered /\ Accepts(CurrentValue, Text)
    /\ Call("value", Text, pos + 1)
    /\ pos' = pos + 1 /\ prefix' = 0
    /\ IF CurrentValue.multiple THEN took' = TRUE /\ UNCHANGED val
                                ELSE took' = FALSE /\ val' = val + 1
    /\ Stays /\ NotChecking /\ UNCHANGED <<pc, cmd, key, valIt, count>>

(* Mutant: a value that is missing is passed over, required or not. *)
OptionValueEnds_Forgives ==
    /\ pc = "option" /\ val <= Len(CurrentOption.vals)
    /\ ~(Offered /\ Accepts(CurrentValue, Text))
    /\ Stays
    /\ IF took \/ prefix = 0
       THEN /\ took' = FALSE /\ val' = val + 1
            /\ NotChecking
            /\ UNCHANGED <<pc, cmd, pos, key, prefix, valIt, count, calls>>
       ELSE /\ Fail("invalid_value", <<"option", cmd.map[key], val>>)
            /\ UNCHANGED reading

OptionValueEnds ==
    /\ pc = "option" /\ val <= Len(CurrentOption.vals)
    /\ ~(Offered /\ Accepts(CurrentValue, Text))
    /\ Stays
    /\ IF took \/ (prefix = 0 /\ CurrentValue.optional)
       THEN /\ took' = FALSE /\ val' = val + 1
            /\ NotChecking
            /\ UNCHANGED <<pc, cmd, pos, key, prefix, valIt, count, calls>>
       ELSE /\ Fail("invalid_value", <<"option", cmd.map[key], val>>)
            /\ UNCHANGED reading

(* Its handler is called, and the option counts as given, after its values. *)
OptionDone ==
    /\ pc = "option" /\ val > Len(CurrentOption.vals)
    /\ Call("option", key, pos)
    /\ specified' = specified \cup {cmd.map[key]}
    /\ pc' = "args"
    /\ Stays /\ UNCHANGED <<reading, optional, node, status, culprit>>

---------------------------------------------------------------------------
Positional ==
    /\ pc = "args" /\ More /\ FindKey(cmd, Arg) = {}
    /\ valIt <= Len(cmd.values)

PositionalTaken ==
    /\ Positional /\ Accepts(cmd.values[valIt], Arg)
    /\ Call("positional", Arg, valIt)
    /\ pos' = pos + 1
    /\ IF cmd.values[valIt].multiple THEN count' = count + 1 /\ UNCHANGED valIt
                                     ELSE valIt' = valIt + 1 /\ UNCHANGED count
    /\ Stays /\ NotChecking /\ UNCHANGED <<pc, cmd, key, prefix, val, took>>

(* Mutant: the same value is offered the argument again. *)
PositionalRefused_Again ==
    /\ Positional /\ ~Accepts(cmd.values[valIt], Arg)
    /\ Stays
    /\ IF cmd.values[valIt].optional \/ count > 0
       THEN /\ count' = 0
            /\ NotChecking /\ UNCHANGED <<pc, cmd, pos, key, prefix, val, took, valIt, calls>>
       ELSE Fail("invalid_value", <<"value", valIt>>) /\ UNCHANGED reading

(* The argument is offered to the next value when this one can do without. *)
PositionalRefused ==
    /\ Positional /\ ~Accepts(cmd.values[valIt], Arg)
    /\ Stays
    /\ IF cmd.values[valIt].optional \/ count > 0
       THEN /\ valIt' = valIt + 1 /\ count' = 0
            /\ NotChecking /\ UNCHANGED <<pc, cmd, pos, key, prefix, val, took, calls>>
       ELSE Fail("invalid_value", <<"value", valIt>>) /\ UNCHANGED reading

UnknownOption ==
    /\ pc = "args" /\ More /\ FindKey(cmd, Arg) = {}
    /\ valIt > Len(cmd.values)
    /\ Fail("unknown_option", <<"command">>)
    /\ Stays /\ UNCHANGED reading

ArgsRead ==
    /\ pc = "args" /\ ~More
    /\ pc' = "rest"
    /\ valIt' = IF count > 0 THEN valIt + 1 ELSE valIt
    /\ Stays /\ NotChecking
    /\ UNCHANGED <<cmd, pos, key, prefix, val, took, count, calls>>

Rest ==
    /\ pc = "rest" /\ valIt <= Len(cmd.values)
    /\ Stays
    /\ IF cmd.values[valIt].optional
       THEN /\ valIt' = valIt + 1
            /\ NotChecking /\ UNCHANGED <<pc, cmd, pos, key, prefix, val, took, count, calls>>
       ELSE Fail("unspecified_value", <<"value", valIt>>) /\ UNCHANGED reading

ValuesFilled ==
    /\ pc = "rest" /\ valIt > Len(cmd.values)
    /\ pc' = "check"
    /\ Stays /\ NotChecking /\ UNCHANGED <<reading, calls>>

---------------------------------------------------------------------------
Node == cmd.opts[node]
Kids == ToSet(Node.kids)
Checking == pc = "check" /\ node <= Len(cmd.opts) /\ Stays /\ UNCHANGED reading

CheckOption ==
    /\ Checking /\ ~Node.group
    /\ optional' = IF Node.optional THEN optional \cup {node} ELSE optional
    /\ node' = node + 1
    /\ UNCHANGED <<pc, specified, status, culprit, calls>>

(* The end of a group that has no conflict: it is given, or can do without. *)
GroupEnds(isSpecified, isOptional) ==
    IF isSpecified \/ isOptional
    THEN /\ specified' = IF isSpecified THEN specified \cup {node} ELSE specified
         /\ optional' = IF isOptional THEN optional \cup {node} ELSE optional
         /\ node' = node + 1
         /\ UNCHANGED <<pc, status, culprit, calls>>
    ELSE Fail("unspecified_option", <<"node", node>>)

FirstIn(ids) ==
    Node.kids[Min({i \in DOMAIN Node.kids : Node.kids[i] \in ids})]

(* One of an exclusive group, the second that was given being a conflict. *)
CheckExclusive ==
    /\ Checking /\ Node.group /\ Node.exclusive
    /\ LET given == Kids \cap specified
       IN  IF Cardinality(given) > 1
           THEN Fail("conflicting_option",
                     <<"node", LET first == FirstIn(given)
                               IN  FirstIn(given \ {first})>>)
           ELSE GroupEnds(given # {}, Kids \cap optional # {} \/ Node.optional)

(* Mutant: the group is complete with any one of its options. *)
CheckGroup_Any ==
    /\ Checking /\ Node.group /\ ~Node.exclusive
    /\ GroupEnds(Kids \cap specified # {}, Kids \subseteq optional \/ Node.optional)

(* All of a group that are not optional, once any of it was given. *)
CheckGroup ==
    /\ Checking /\ Node.group /\ ~Node.exclusive
    /\ LET given   == Kids \cap specified
           missing == Kids \ (specified \cup optional)
       IN  IF given # {} /\ missing # {}
           THEN Fail("unspecified_option", <<"node", FirstIn(missing)>>)
           ELSE GroupEnds(given # {}, Kids \subseteq optional \/ Node.optional)

Return ==
    /\ pc = "check" /\ node > Len(cmd.opts)
    /\ pc' = "done" /\ status' = "ok" /\ culprit' = <<"command">>
    /\ Stays /\ UNCHANGED <<reading, specified, optional, node, calls>>

Next ==
    \/ Descend \/ CommandFound
    \/ OptionKey \/ OptionValue \/ OptionValueEnds \/ OptionDone
    \/ PositionalTaken \/ PositionalRefused \/ UnknownOption \/ ArgsRead
    \/ Rest \/ ValuesFilled
    \/ CheckOption \/ CheckExclusive \/ CheckGroup \/ Return

Spec == Init /\ [][Next]_vars /\ WF_vars(Next)

---------------------------------------------------------------------------
IsPrefixOf(k, text) == Len(k) <= Len(text) /\ SubSeq(text, 1, Len(k)) = k

(* The option an argument is taken for is the one whose key it is, or else *)
(* that of the longest key it begins with among the options with values;   *)
(* the search stops at the first candidate it meets walking back.  (All    *)
(* arguments begin with an empty key, but the search ends where nothing is *)
(* left of the argument, and may not get to it.)                           *)
KeyIsLongest ==
    pc = "args" /\ More /\ <<>> \notin DOMAIN cmd.map =>
        LET full  == {k \in DOMAIN cmd.map : k = Arg}
            glued == {k \in DOMAIN cmd.map :
                         IsPrefixOf(k, Arg) /\ cmd.opts[cmd.map[k]].vals # <<>>}
        IN  FindKey(cmd, Arg) =
                IF full # {} THEN full
                ELSE {k \in glued : \A l \in glued : Len(l) <= Len(k)}

(* The calls in s by the members of `by`, and the texts of some calls.     *)
Picked(s, by) ==
    LET left[i \in 0..Len(s)] ==
            IF i = 0 THEN <<>>
            ELSE IF s[i].by \in by THEN Append(left[i - 1], s[i]) ELSE left[i - 1]
    IN  left[Len(s)]
TextsOf(s) == [i \in DOMAIN s |-> s[i].text]
CallsBy(by) == Picked(calls, by)

(* The handlers have been given the text of the arguments read, each       *)
(* character once and in order: nothing is skipped between a key and the   *)
(* value in the same argument, and nothing is read twice.                  *)
NothingLost ==
    LET half == IF pc = "option" /\ prefix > 0 THEN key
                ELSE IF status = "invalid_value" /\ prefix > 0 /\ culprit[1] = "option"
                THEN key ELSE <<>>
    IN  FlattenSeq(TextsOf(CallsBy({"command", "key", "value", "positional"})))
            = FlattenSeq(SubSeq(args, 1, pos)) \o half

(* The type invariant, and what has been handed out.                       *)
Inv == TypeOK /\ NothingLost

(* When the parse succeeds the positional values have been filled in the   *)
(* order of their declaration: one argument each, more only where the      *)
(* value is multiple, none only where it is optional.                      *)
PositionalsExact ==
    status = "ok" =>
        LET got == CallsBy({"positional"})
            of(i) == {j \in DOMAIN got : got[j].at = i}
        IN  /\ \A i, j \in DOMAIN got : i < j => got[i].at <= got[j].at
            /\ \A i \in DOMAIN cmd.values :
                  /\ of(i) = {} => cmd.values[i].optional
                  /\ Cardinality(of(i)) > 1 => cmd.values[i].multiple

(* A node was given when it, or anything under it, was; a node can be left *)
(* out when it is declared so or nothing under it has to be given.         *)
Given[i \in DOMAIN cmd.opts] ==
    \/ \E c \in DOMAIN calls : calls[c].by = "option" /\ cmd.map[calls[c].text] = i
    \/ \E k \in ToSet(cmd.opts[i].kids) : Given[k]

CanOmit[i \in DOMAIN cmd.opts] ==
    LET n == cmd.opts[i]
    IN  \/ n.optional
        \/ n.group /\ n.exclusive  /\ \E k \in ToSet(n.kids) : CanOmit[k]
        \/ n.group /\ ~n.exclusive /\ \A k \in ToSet(n.kids) : CanOmit[k]

Fits(i) ==
    LET n     == cmd.opts[i]
        given == {k \in ToSet(n.kids) : Given[k]}
    IN  n.group =>
          /\ Given[i] \/ CanOmit[i]
          /\ n.exclusive => Cardinality(given) <= 1
          /\ ~n.exclusive /\ given # {}
                => \A k \in ToSet(n.kids) : Given[k] \/ CanOmit[k]

(* With the arguments read, the parse succeeds just when every group fits  *)
(* what was given: at most one of alternatives, all that is required of a  *)
(* group in use, and every group that cannot be left out.                  *)
GroupsExact ==
    status \in {"ok", "unspecified_option", "conflicting_option"}
        => (status = "ok" <=> \A i \in DOMAIN cmd.opts : Fits(i))

(* Every option is found by its key; a parse that succeeds has filled in   *)
(* the values in order, and succeeds just when the groups fit what was     *)
(* given.                                                                  *)
ParseExact == KeyIsLongest /\ PositionalsExact /\ GroupsExact

(* An option's own handler is called once for each time the option was     *)
(* given, in that order and only when its values are complete; when the    *)
(* parse ends well none is left uncalled.                                  *)
OptionCalls ==
    LET texts(by) == TextsOf(CallsBy({by}))
    IN  /\ IsPrefix(texts("option"), texts("key"))
        /\ Len(texts("key")) <= Len(texts("option")) + 1
        /\ status = "ok" =>
              /\ texts("option") = texts("key")
              /\ pos = Len(args)
              /\ \A i \in DOMAIN calls :
                    calls[i].by = "key" =>
                      LET vals == cmd.opts[cmd.map[calls[i].text]].vals
                          required == {j \in DOMAIN vals : ~vals[j].optional}
                      IN  \A n \in 1..Cardinality(required) : calls[i + n].by = "value"

(* The parse of any arguments returns: every turn of a loop reads an       *)
(* argument, passes a value or ends.                                       *)
Returns == <>(pc = "done")

=============================================================================
