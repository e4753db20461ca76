# A verification project for uxs

uxs is a C++ utility library (`include/uxs`, `src`, `platform`).  This directory
holds TLA+ models of its stateful parts, TLC configurations that check them on
small instances, and TLAPS proofs of what matters most for every instance.

    tlc -workers 2 -config MCCowPtr.cfg MCCowPtr      checks one instance
    tlapm CowPtrProofs.tla                            checks the proofs

Contents: 1 inventory, 2 conventions, 3 to 15 the models, 16 the proofs, 17 what
the models say against the code, 18 what is not modelled, 19 plan.

## 1. Inventory

| Component | State it keeps | Operations | How it meets the others | What is hard |
|---|---|---|---|---|
| `cow_ptr` (`include/uxs/cow_ptr.h`) | a pointer to a body with an atomic count | copy, move, destroy, read, write | the same protocol is inside `db::value` | several threads drop, copy and write one body |
| buffered I/O (`io/ibuf.h`, `iobuf.h`, `devbuf.h`, `impl/io/*_impl.h`) | first/curr/last pointers, mode and state bits, a pending CR, a half-written escape | get, read, unget, put, write, flush, seek, sync | over an `iodevice` (file, zip, byte sequence) or a flat buffer | errors and short writes, text conversion at a buffer border, seek with something pending |
| `byteseq` (`byteseq.h`, `io/byteseqdev.h`) | a ring of chunks | append, resize, assign, scan; device read, write, map, advance, seek | the device under `obytebuf`/`ibytebuf` | device position against chunk borders |
| `db::value` (`db/value.h`, `impl/db/value_impl.h`) | a tagged value; strings, arrays and records live in shared bodies | assign, copy, index, insert, erase, resize, clear, convert, compare | filled by the JSON and XML readers | an operation whose argument lives inside its own target; sharing of subtrees; a test that sharing makes stale |
| `record_t` (`db/value.h`, `impl/db/value_impl.h`) | nodes on a list in insertion order and in hash buckets | emplace, find, count, erase, rehash, copy | the object type of `db::value` | two structures over the same nodes must agree after every step |
| JSON (`db/json.h`, `impl/db/json_impl.h`, `src/db/json.cpp`) | lexer state and stash, parser stack, pointers into the value being built | `read`, `write`, `write_formatted` | pulls from an `ibuf`, builds a `db::value` | a token that straddles buffers, malformed nesting, pointers into arrays that grow |
| XML (`db/xml.h`, `impl/db/xml_impl.h`, `src/db/xml.cpp`) | lexer state, name and attributes, a delayed end of element | `next`, DOM reader and writer | pulls from an `ibuf` | views into a buffer that is refilled |
| red-black tree (`rbtree.h`, `src/rbtree.cpp`) | parent/left/right links and colours, a head that caches the ends | insert, remove, next, prev, find, bounds | algorithms for containers | rebalancing cases |
| CLI parser (`cli/parser.h`, `impl/cli/parser_impl.h`) | a tree of commands, option groups and values | parse | standalone | which option an argument belongs to, optional and exclusive groups |
| lists (`dllist.h`, `intrusive/list.h`) | links | insert, erase, splice, merge, sort | `record_t`, `intrusive::list` | splice within one list |
| growing buffers (`membuffer.h`, `dynarray.h`, `io/oflatbuf.h`) | pointer, size, capacity; inline or heap | append, resize, grow | under `format`, the lexers' stacks and the string streams | growth at the maximal size; whose memory it is |
| string conversion (`string_cvt.h`, `impl/string_cvt_impl.h`, `src/string_cvt.cpp`) | none between calls | `to_string`, `from_string` of integers, floating point numbers, truth values, characters, strings | under formatting, JSON, XML and command lines; writes into a growing buffer | exact rounding in both directions; lengths computed before the characters; escapes cut off by a width |
| UTF, string algorithms (`utf.h`, `string_alg.h`, `src/string_alg.cpp`) | none between calls | encode, decode; split, section, join, words, replace, pack, escape | under the readers and string conversion | malformed text; what masks a separator; empty fields |
| formatting (`format_base.h`, `impl/format_impl.h`) | a place in the format string, the next argument | `format`, `format_to`, `format_to_n`, `basic_format_string` | parses at compile time and again at run time, calls string conversion | the two parses must agree |

What makes each of them correct:

- **cow_ptr**: a body lives exactly as long as someone refers to it, is deleted
  once, is never written while another thread may read it, and sharing cannot be
  observed: each handle is a variable with a value of its own.
- **output**: the device receives exactly the converted text, in order, up to
  the point of a failure; conversion inside the buffer never overwrites text it
  has not read; after a failure nothing is sent until the program says so; every
  call returns.
- **input**: the program receives exactly the decoded file from where it
  stands, however the device cuts it; the position it is told is that place
  (what CR LF translation makes of both is in section 17).
- **byteseq**: a chunked ring with a cursor is a flat file with a position.
- **value, record**: values are trees, records lists of entries, independent of
  each other although their memory is shared; counts, capacities and hash chains
  are right at every moment.
- **JSON, XML**: the tokens do not depend on where the buffer ends; a text is
  accepted exactly when it is a JSON text; pointers held by the reader never
  dangle; what is written is read back the same.
- **rbtree**: a sorted list, balanced, whatever the order of operations.
- **CLI**: every character of the command line goes to one handler, and the
  verdict is what the declared groups demand.
- **numbers**: the text of a number is that of its exact value, correctly
  rounded; the shortest text is read back as the same number; a text whose
  exponent is an `int` is read as the number nearest to it.
- **texts**: code points survive every encoding; what is split and what is
  joined agree on what a separator is; a text is cut off at the precision and
  filled up to the width.
- **formatting**: a string that the compiler has accepted fails at run time only
  for the value of an argument, and says what it looks like it says.
- **buffers**: all that was appended and no more, in memory given back once.

All other files (chrono, variants, GUID, CRC32, files and zip, small templates)
are listed with reasons under "components" in `PROJECT.json`, and in section 18.

Threads: only `cow_ptr` and the value's blocks have atomic counters; every other
class is used by one thread at a time.  Elsewhere the hard interleavings are
those of calls in any order, of buffer borders that fall anywhere, and of
devices that fail or deliver less than was asked.

## 2. Conventions

- A component's module (`CowPtr`, `DevBufOut`, ...) has its state, one action
  per operation or loop turn of the code, and its properties.  The module it is
  compared with, an abstract specification or a grammar, is one of its own
  (`CowValues`, `ByteFile`, `ValueTree`, `EntryList`, `XmlText`) or the first part of the component's.  `...Proofs` modules hold
  theorems; `MC...` modules give the constants their values.
- Names are the source's where it has one: `Underflow`, `EraseKey`, `MakeUnique`.
  `PROJECT.json` "map" gives file and lines of every definition.
- Variables marked "history" are not in the program; they remember what a
  property compares with (what was written, whether a device has failed).
- Text is a sequence over a small alphabet in which a letter stands for all
  characters the code treats alike (`"d"` for the digits 1 to 9, `"m"` for an
  ordinary character, `"bs"` for the backslash).
- A definition introduced by "Mutant:" is a plausible mistake in the code it
  stands next to.  It is not part of the model: "mutants" in `PROJECT.json` names
  the property that finds it when it takes the place of the right definition.
- A module's `Inv` is the conjunction of `TypeOK` and of those of its safety
  properties that hold in every state and lean on each other; each has a
  definition and a comment of its own.
- `CHECK_DEADLOCK FALSE` stands only where a program may come to its end: after
  a crash, an assertion, a closed device or the end of the text.

| Run | Module | States | What it asks |
|---|---|---|---|
| `cow_ptr` | `MCCowPtr` | 70 thousand | is sharing between threads safe and invisible? |
| `devbuf_out` | `MCDevBufOut` | 1.8 million | does the device get the converted text? |
| `devbuf_in` | `MCDevBufIn` | 128 thousand | does the program get the decoded file? |
| `byteseq` | `ByteSeq` | 84 thousand | is the ring of chunks a file? |
| `value` | `DbValue` | 27 thousand | are shared arrays independent trees? |
| `record` | `MCRecord` | 68 thousand | are shared hash tables independent lists? |
| `json` | `MCJsonDoc` | 1.0 million | do tokens depend on the buffer's borders, is the grammar obeyed, is written text read back? |
| `xml` | `MCXmlDom` | 2.0 million | do tokens depend on the borders, what does a text mean, what comes back of a value? |
| `xml_stale` | `MCXmlDom` | 200 | is the name of an end tag its own? (No.) |
| `rbtree` | `MCRbTree` | 138 thousand | is the tree a balanced sorted list? |
| `cli` | `MCCliParse` | 265 thousand | does every argument go where it was declared? |
| `text` | `MCText` | 414 thousand | are numbers, texts, format strings and converted values what they say they are? |

## 3. Copy-on-write pointers: `CowValues`, `CowPtr`, `CowPtrProofs`

`CowPtr` models `cow_ptr` used by several threads.  `ptr` is what each handle
points to, `refCount`, `alive` and the bodies' values are the heap, and each
thread has a program counter, the handle it works on, and the body it holds or is
about to delete between two steps.  One action is one access to memory that
threads share, because that is what other threads can come between:

| Code | Actions |
|---|---|
| constructor | `Make` (allocation; may throw, then nothing happens) |
| copy constructor | `CopyConstruct` (one increment) |
| `operator=(const cow_ptr&)` | `AssignRef`, then `AssignReset` (decrement), then `Delete` if it reached zero |
| move assignment, destructor | `MoveAssign`, `Destroy`, then `Delete` |
| `operator*` const | `BeginRead`, `EndRead` |
| `operator*`, `reset(nullptr)` ... | `Deref` (load of the count), `Clone` or `CloneThrows`, `CloneReset`, `Delete`, `Write` |

What C++ itself demands of a program is a guard: a handle is an ordinary object,
so no two threads touch one handle unless both read it (`Unused`,
`Unchanging`).  Accesses are sequentially consistent; the code uses the default
order of `std::atomic`.

Properties: `CountsExact` (the counter of a body is the number of handles and
half-finished operations that own it, and nobody refers to freed memory),
`OneDeleter` (a body with no owner has exactly one thread that will delete it),
`NoDataRace` (while a thread writes in place nobody else accesses that body),
`Progress` (liveness: `OperationsEnd` and `GarbageFreed`), and `ValueSemantics`: under the
mapping `view` from handles to values, `CowPtr` implements `CowValues`, in which
a handle is a variable with a value of its own and sharing does not exist.  `Inv`
is the inductive invariant of section 16, with `CountsExact` and `OneDeleter`
among its parts; TLC checks what was proved.

Bounds: two threads, three handles, three bodies, two values.  Three handles let
one body be shared by two while the third is copied into; three bodies are fewer
than what three handles and two clones can want, so an allocation fails in every
place.  Threads, handles, bodies and values are symmetric (the liveness
properties are checked without symmetry).  Fairness: `FairSpec` has weak fairness
of `Continue(t)` for each thread that has begun an operation, which is what an
operating system's scheduler gives; nothing obliges a program to begin one.

## 4. Buffered streams: `DevBufOut`, `DevBufIn`

`DevBufOut` is `basic_devbuf` writing.  `buf` and `pos` are the buffer, with a
reserved gap before `first()` if line feeds are to be expanded, `state` is the `iostate`, `dev` what the device
has received.  The program's calls are `Write`, `Reserve`, `Flush`, `FreeBuf`
(close and destructor), `Clear` and `InitBuf`; `flush_buffer` runs one turn of its
loop at a time: an ordinary character (`Scan_Char`), a line feed that fits
(`Scan_Newline`) or does not (`Scan_NoRoom`), an escape sequence (`Scan_Escape`,
`Scan_Unfinished`), the end (`Scan_End`), or, without conversion, one block
(`Scan_Plain`); then `Store_Again` or `Sync`.  Every write to the device may
instead take a part and fail (`WriteAll_Fails`).

`want` is what a terminal would show of everything accepted: `SeeText` is the
reference definition, one character at a time without any buffer.  `TextIntact`
compares it with what is on the device, converted in the buffer, and waiting, at
every turn.  (With `DeviceExact` it is `OutputExact`.)  `NeverOvertakes` (in `Inv`) keeps the write position behind the read
position; `DeviceExact` says that a successful flush leaves nothing behind, that a
failure leaves a prefix on the device, and that nothing is sent while the stream
is bad; `FailsOnlyInEscape` when a stream fails although its device works (after a
failure of the device and a `clear()`, text that is converted already is converted
again, and there is nothing that could be said of it); `OperationsEnd` that every
call returns.

Bounds: a buffer of four, of which CR LF translation takes one for its gap, so
that line feeds use the gap up; texts that together have five characters, so that
every buffer overflows and a whole colour sequence fits; all six
combinations of modes; one device failure, after which the program may `clear()`
and go on.  Fairness: weak fairness of `Continue`, since a call that has been
made is straight-line code and loops without waiting.

`DevBufIn` is `basic_devbuf` and `basic_ibuf` reading: `Read` (get, read, skip)
turn by turn, `Peek`, `Unget`, `Seek`, `Clear`, over `Underflow`, which takes a
block of any size the device chooses, joins a CR held back from the block before,
removes CR before LF in place (`RemoveCrLf` follows the code's moving pointer)
and holds back a CR at the end.  The reference is `Decode`, on the file as a
whole.  `TextIntact` says that what was read, what is in the buffer and what is
still to come is the decoded file from `start` on.  `start` is where the last seek
went or, if `underflow` has lost the CR it held back since then, the place behind
that CR; `prior` is what was read before the loss, and `carried` says that a CR held back
before the seek has come along.  So nothing is excepted: a CR is missing or out of
place exactly where the code loses or carries one.  `TellExact` says which place the
program is told in every mode: without translation that of its next character, and
with it one further for each CR that was taken out of the text ahead of it, and for the one
held back.  (The two are `InputExact`.)  `EndAfterEverything`: when the end of input is
reported, everything that the device gave has been read, which is the whole file if no
read failed, except a CR at its very end.
`AbortsOnlyOnLoneCr` (in `Inv`) says where the assertion in `underflow`
fails, `HeldIsLast` when a CR is held back, `Ungettable` what `unget` can give back.
Files are all those of up to four characters of
CR, LF and another one: enough for a CR before, at and after a block's border
with text on both sides, and at the end, in blocks of one to three.

## 5. Byte sequences: `ByteFile`, `ByteSeq`, `ByteSeqProofs`

`ByteSeq` has the ring as the sequence of its chunks and the device over it with
its chunk pointer, chunk start and position.  `Write` and `Read` run one turn of
their loops per action; `Seek` walks forwards (creating chunks in a writable
device) and backwards as the code does; `Truncate`, `ResizeSeq`, `Assign`,
`ClearSeq`, `ClearDev`, `Release`, `Open` and `Close` are the other calls.

`ByteFile` is what it should be: bytes and a cursor.  `IsAFile` is the
refinement; `CursorInChunk` and `SizeExact` (in `Inv`) are the agreements it rests
on, and
`CrashOnlyWithoutChunks` (also in `Inv`) names the one state in which the code
dereferences a null `head_` (a sequence that never had a chunk).  Chunks of two bytes, up to
five bytes in three chunks: seeks and resizes end inside a chunk, at its end and
one behind.  For every size of a chunk, both are proved (section 16).

## 6. Values and arrays: `ValueTree`, `DbValue`

`heap` has the blocks of `flexarray_t` with counter, capacity and items, `var` the
program's variables.  An action is one call on a variable or on any item reached
through the non-const `operator[]`, which makes every block on the way unique
(`Reach`); each is composed of the code's own steps: `Ref`, `Unref`,
`MakeUnique`, `Grow`, `MakeRoom`, `Construct`, `AssignItems` and so on, in the
code's order, because the order is what aliasing depends on.  A step that would
access a freed or missing block ends the behaviour (`crashed`).

`IsATree` is the refinement to `ValueTree`, where variables hold trees and every
call is one assignment to a place in a tree.  It holds of calls whose arguments
are not parts of what they change; `BreaksOnly` (in `Inv`; `OnlyOwnPartsBreak` and
`LostOnlyWhenEmpty`) says precisely which calls break something, and that all
others break nothing.  `RefExact` and `CapacityHolds` (in `Inv`) are the invariants
of the memory.  Bounds: four
blocks, arrays of up to two items, two levels; `Weight` limits the items that
several blocks have together.  Two variables suffice to share a block, to share
one inside another, and to have the last copy outlive the first.

## 7. Records: `EntryList`, `Record`, `RecordProofs`

`rec` has blocks with counter, list of nodes in insertion order and hash chains.
`Rehash` throws the chains away and adds the nodes again; `CopyOf` copies list
and chains; `WithoutKey` walks a chain, erasing as it goes.  `ChainsExact` relates
the two structures node by node; `LoadHolds` says that the table is never
overfull, and never without a bucket, by whose number a hash is divided (both in
`Inv`, with `RefExact`); `IsAList` is the refinement to lists of entries, one per
variable, independent of each other; `CrashOnlyOnOwnKey` (in `Inv`) names the call
that reads a node it has destroyed: erasing a key given as a view of a node's own
key.  Three keys of which two collide, tables of two buckets that grow to five,
four entries; the variables are symmetric.  For every number of them, every hash and every size of a table, `Inv`
and `IsAList` are proved (section 16).

## 8. JSON: `JsonLex`, `JsonRead`, `JsonWrite`, `JsonDoc`

`JsonLex` is `lexer::lex` over a text whose blocks end anywhere: the automaton
of `json_lex_analyzer.inl` (`Arcs`, `Accept`) with its state stack, the stash for
a token that spans blocks, the put back of characters read too far, strings with
escapes and surrogates, comments, and the count of lines.  Its first part is the
reference: tokens of the text as a whole by longest match, from the rules of
`json.lex`.  `TokensExact` compares them for all short texts and all borders;
excepted are lone surrogates, of which it says what becomes of them, and texts out
of which characters were lost, which `LostOnlyInBadText` confines to texts that
are no JSON.

`JsonRead` is the parser, `Read(tt)` being one token: its stack and `comma` flag,
and the callbacks of `read()` with their pointers into a value whose arrays move
when they grow; the client `"sax"` may say `over` or `stop` anywhere.
Its first part is a grammar that generates JSON texts; `VerdictExact` says that a token is refused
exactly when no text goes on with it (with `TokensExact` it is `ReadExact`).  `TokensExact`
is about every string: one whose surrogates are all paired is what it says, and `Late` says
where the code puts lone ones.
`PointersAgree`: the two stacks
agree and no pointer dangles.  `JsonWrite` is `write` and `write_formatted` on
the value that was read; `Layout`: every line is indented by its nesting.

`JsonDoc` puts them together.  A behaviour reads one of three sources: any text,
by the lexer alone; any tokens, by the parser alone, after which the value is
written; or `"again"`, what was written, character by character (`Chars`, with
the escapes of `write_text`), by the parser that calls the lexer over a buffer
cut anywhere.  `RoundTrip` says that the tokens and the strings come back.
`Ends`: the lexer reaches the end, the parser a verdict (weak fairness of the
two: they are loops that do not wait, and the input is finite).  `DocInv` has the
type invariants and the parts named above.  Token sequences of up to nine reach
three levels of nesting and a container after a closed one; documents of up to
seven tokens are read again with one border.

## 9. XML: `XmlText`, `XmlParse`, `XmlWrite`, `XmlDom`

`XmlParse` is `parser::next_impl` with `lexer::lex` below it: blanks, tags,
attributes, comments, entities, broken attribute values, the delayed end of an
empty element, the stash and the put back.  `XmlText` is the reference on the
whole text.  `TokensExact` (in `ReadExact`) and `LostOnlyInBadText` (in `Inv`, and so in `DomInv`)
are as for JSON.  `lval`
carries the place in the buffer its characters come from: `Load` overwrites
them, as the code's `string_view` would be.  `StaleOnlyBeforeBlank` says when
that happens, and the run `xml_stale` shows that it does.

`XmlDom` is `read()` over those tokens and `write()` before it.  `mem` are the
nodes of the value being built, `open` the stack of pointers to them:
`Emplaced` is what a repeated name does, turning a member into an array, whose
value moves.  `OpenIsLast` (in `DomInv`) is why the pointers survive that: the
node of an open element is the last of its parent's.  The first part of
`XmlWrite` says what a text means by recursion over its tokens, `ReadExact` that `read()` builds it.
`XmlWrite` writes a value with its stack of places; `RoundTrip` compares what
comes back with `NormalRoot`, the value less what XML text cannot carry (nested
and empty arrays, arrays of one, strings that look like something else).

Inputs: up to three document pieces, four characters of markup in any order,
attributes with three parts, comments, up to four parts inside an element, and
texts of every class; up to two buffer borders anywhere (one or none in the
longest).  Values of two levels, with containers in each other, are written and
read with one border.

## 10. Red-black tree: `RbTree`

Links and colours as in the code, with a side as a parameter where the code has
every case twice.  The loops of `rbtree_insert` and `rbtree_remove` take one turn
per action (`InsertFix`, `RemoveFix`).  A sorted list says where a node belongs
among equals for each search and hint; `TreeIsList` compares, also during
rebalancing; `Balanced` holds between calls (both in `Inv`); `AnswersExact` checks what iterators,
searches and calls give back (`Walks`, `SearchesExact`, `CallsReturn`).  Nine nodes in key
groups of one, two and three reach every case of both loops.

## 11. Command line: `CliParse`

Its first part builds the declarations by the code's own operators (`And`, `Or`,
`MadeOptional`) and the sorted option map; the second is `parse()`, one action
per turn of each of its loops: subcommands, an option's key and its values,
positional values, then the post-order walk over the groups.  `calls` notes every
handler that ran.  `NothingLost` (in `Inv`): the characters of the arguments read are those
the handlers and keys took, in order.  `ParseExact` (what was said of positional values, and the
verdict over the groups) and `OptionCalls` say what the result means in terms of
the declaration;
`KeyIsLongest` (in `ParseExact`) what the backward search finds; `Returns` that parsing ends.
Commands and inputs are constants.  `CommandsAssumption` says of a command what its
declaration makes of it: its options in post-order, children before their
group (`IsTree`), and every key with its option, in the order of `std::map`.
Thirty-six commands with all argument lists of up to three, and all sets of three
keys of up to three characters.

## 12. Numbers as text: `IntText`, `FloatRead`, `FloatShow`, `Numbers`, `DbScalar`

The arithmetic of `src/string_cvt.cpp` is on words of 64 bits, which TLC cannot
count through.  What can go wrong in it does not depend on that size: the number
of bits that a product loses, the bound on that loss, the carry out of a
mantissa, a quotient guessed from leading words.  So the words are `WordBits`
wide, the packs of digits `Digs` long, a floating point number has `Mantissa` bits
and exponents up to `ExpMax`, all parameters, and the code's other constants
follow from these as they do there.

- `IntText`: integers in all bases, with the groups of a locale, which are put
  down from the end backwards into a buffer whose length was computed before, from the number's
  bits (`DigitCount`, `calc_len_with_grouping`): `Printed` notes what was written of it, so that a gap or an overrun shows.
  `adjust_numeric`, `fmt_boolean`, `append_adjusted`.
- `FloatRead`: numbers of several words, with `DivMod` (a quotient digit guessed and
  corrected) and the tables of powers of ten (exact ones, and `get_cached_pow10`,
  the first word and a half of one, rounded); then a decimal number, by one product (`fp10_to_fp2`) if the error of
  that cannot matter, and else exactly (`fp10_to_fp2_slow`).
- `FloatShow`: the digits of a number in four ways (`format_short_decimal`, its
  slow form, `format_long_decimal` and `shortest`), then their layout
  (`generate_fixed`, `generate_scientific`).
- `Numbers`: the steps (`ShowFloat`, `GetText`, `ReadFloat`, ...) and the reference:
  exact decimal expansions (`Expansion`), `IsNearest`, `RoundDigits`.

`ShowExact`: text is the exact value rounded to the digits asked for, a tie to
the even digit.  `ReadsBack`: the shortest text is read as the same number.
`ReadExact`: a text is read as the nearest number, however many digits it has, if its
exponent is one of an `int` with the places behind the point counted in; beyond that it
is another number or ends before the exponent (`ReadAs`, and section 17).
`IntegersExact`: an integer has its digits, its sign, prefix, groups and filling in their places.
`TypeOK`: every buffer is filled exactly.

Bounds: words of 14 bits, two digits to a pack, numbers from 2^-19 to
63 * 2^10; all of them are shown and read back, all middles between two of them
and texts a little beside are read, the latter with so many digits that some are
cut off (`zeros`, `above`); and exponents at both ends of an `int` of eight bits, of its unsigned
numbers, and beyond.  Integers are at both ends of every number of digits.  Nine cached powers and three exact ones make every
branch of the searches in the tables happen.

`DbScalar` stands on these: what `db::value` answers to `get_int` and its seven
sisters, `is_int` and its four, and `operator==`.  What matters of 32, 64 and 53 bits
is their order: the narrow integers (5 bits) fit into the mantissa (6), the wide ones
(8) do not, so the greatest wide number becomes the double behind it, which the
code excludes.  Every integer of the four types, every double and some texts are
asked (`Ask`), and the text that a value gives is asked again.
`ConversionsExact` has four parts: `IntegersExact`; `IntegersGiven` (a getter gives the
number, cut off, if it is in the type, and `is_int` holds for just these);
`TextsGiven` (`get_double` is the nearest double, and the text of a value gives what
the value gave); `EqualExact` (integers of two types are equal if they are the same
number, either way round; the pairs are at the ends of all types).

## 13. Texts: `Strings`, `StringAlg`

`Strings` has UTF-8, UTF-16 and wide characters, escaped text
(`append_escaped_text`, with its pending part and its width), and strings and
characters brought to a width (`fmt_string`, `fmt_character`).  `StringAlg` has the
finders, `split_string`, `string_section` and `reversed_section`,
`replace_strings`, `join_strings`, `string_to_words` with its three states,
`pack_strings`, `parse_flag_string`, `encode_escapes`, `trim_string` and
`compare_strings_nocase`.  A behaviour does one of these, and undoes it if there
is a way (`Make`, `MakeAgain`).

`TextsExact`: code points are encoded as the standards' tables say and come back
the same; a limited text is a prefix that fits, and no longer one does; an
escaped one, read by the rules of a literal, is the text, as far as it fits by the count
that the code keeps of it.  Where that count is not the columns taken, and where a part of
the text stands twice, is said exactly (`Cost`, `EscapedShown`).  `WordsExact`: sections are the
fields that splitting gives; joining undoes splitting, unpacking packing and
decoding encoding; words are the texts between blanks and separators.

Bounds: strings up to four to six characters of the kinds that matter (letter,
separator, backslash, blank), code points at both ends of each length of encoding.

## 14. Format strings: `Format`

`parse_format` one brace at a time, first with the context of the compiler, which
knows the types, then with that of the run, which knows the values: `TextToTheEnd`,
`DoubledBrace`, `Field`, `LoneBrace`.  `Field` is all that happens between
two braces: the index, the standard specification (`parse_standard`, whose order
of options is a level that only grows), the formatter's refusals, and the dynamic
parameters.  Errors are kinds, not wordings.

The reference goes the other way: a plan of literal texts and fields is written
down (`Written`), and `Meaning` says what it asks for.  `FormatExact`: the compiler
accepts exactly the plans that are `Valid`, and the run then does what the plan
means unless a value forbids it.  `CheckedNeverFails` is about any string, not only
written ones: what the compiler accepts does not fail for its form.

Bounds: one field with any two options over six types of arguments; plans of up
to three items with automatic and manual indices; all strings of up to five
characters of `{`, `}`, `:`, `0`, `.`; an `int` of eight bits, so that widths and
precisions out of range are small numbers.  A precision that is written out is
taken not to overflow (signed overflow is undefined; the code does not test for
it in a way that a compiler must respect).

## 15. Buffers: `MemBuf`

The fixed buffer, the one that counts what did not fit (`tracked_size`) and the
growing one, which knows from its capacity being odd that its memory is from the
heap.  `BufferExact`: the text is what was appended, or as much as there was room
for; `format_to_n` gives the same whichever of the two it uses; the block that will be
given back is the one that was taken, with its size.  Blocks of up to 15
characters, appended up to six at a time, six calls: growth from inside to the heap,
twice on the heap, up to the largest size and beyond.

## 16. What is proved

For every value of the constants that satisfies the assumption its module names,
and from nothing else:

| Module | Theorems | For every |
|---|---|---|
| `CowPtrProofs` | `Invariance`, its parts `TypeCorrect`, `CountsAreExact`, `DeletedOnce`, `RaceFree`; `IndependentValues`: `CowPtr` implements `CowValues` | number of threads, handles, bodies, values |
| `DevBufInProofs` | `InvHolds`, `InputExactHolds`, `EndAfterEverythingHolds`; `RemoveCrLfDecodes` | file, size of the buffer, blocks, number of failures |
| `DevBufOutProofs` | `OutInvHolds`, `OutputExactHolds`, `FailsOnlyInEscapeHolds` | text, size of the buffer and its gap, modes, number of failures |
| `ByteSeqProofs` | `InvHolds`; `ImplementsFile`: `ByteSeq` implements `ByteFile` | set of bytes, size of a chunk, size of the sequence |
| `MemBufProofs` | `BufferExactHolds` | size and largest size of a buffer, lengths appended |
| `RecordProofs` | `InvHolds`; `ImplementsList`: `Record` implements `EntryList` | variables, keys and values, hash, size of a table, bounds |
| `CliParseProofs` | `InvHolds`, `OptionCallsHolds`, `ParseExactHolds`; `DeclaredTrees` | set of commands, with any trees of options, and lists of arguments |
| `FoldProofs` | (lemmas the others use) | sequence, and step that is a function |

**Pointers.** `CountsExact` alone is not inductive: that a thread may write in place follows
from the count it loaded earlier, so one has to know that no other owner can
appear in between.  `Inv` adds to `TypeOK`, `CountsExact` and `OneDeleter`: what each program
counter says about a thread's variables (`Shape`), that a handle being changed
belongs to one thread (`Exclusive`), that a fresh clone is known to its thread
only (`Private`), that a thread that writes is, itself or by its handle, the only
owner (`WriterAlone`), and that what it read earlier is still so (`Snapshot`).
The proof has a lemma per action.  The arithmetic of owners (`OwnersAdd`,
`OwnersRemove`, `OwnersReplace`, `SoleOwner`) rests on the library's theorems on
finite sets.

**Folds.** What the streams are compared with (`Decode`, `SeeText`) is a fold over
a text.  The library's induction and fold theorems take an operator as a
parameter and cannot be instantiated by the provers here.  `FoldProofs` goes
around that: induction is the least element of a set of naturals (`LeastNat`),
the step of a fold is a function, and each fold of a specification is shown once
to be the `Fold` of such a function (`DecodeIsFold`, `SeeTextIsFold`,
`MoveIsFold`).  From then on its laws are plain facts: the empty text, one more
character, and the text cut in two (`FoldEmpty`, `FoldAppend`, `FoldConcat`).

**Input** (`InAssumption`: a buffer of two characters or more).  The inductive
invariant is `Inv` with `TextNow`: what the program got and what is in the buffer are what was
got before `start` and then the translation of all the device has given since, without a CR
at its end.  It speaks of what has happened only; `TextIntact` follows by putting
the CR held back and the rest of the file behind it.  Three facts carry it.
`DecodeConcat`: decoding a text in two parts gives the same unless the
cut is between CR and LF, which is why the CR is held back.  `RemoveCrLfDecodes`: the code's
pointer that moves down in place computes `Decode` (`MovedNext` is the loop's
invariant: what lies below the pointer is the decoded text, what it still has to
read has not been touched).  And taking characters from the buffer changes no text,
only who has it.  Three parts had to be added to make `Inv` inductive: what `unget`
can give back is the end of what was got (`Ungettable`), a CR is held back exactly when the
device gave it last (`HeldIsLast`), and without translation
nothing is held back (`Untranslated`).  `TellExact` needs a count besides: what was got is the
decoding of a beginning of the text, cut inside no pair (`GotIsDecoded`, `CutExists`), and a text
is longer than its decoding by its CRs before LF (`RemovedCount`, `AheadCount`).
`EndAfterEverything` is `TextNow` with an empty buffer.

**Output** (`OutAssumption`).  `OInv` has `TypeOK`; where the loop may be
(`Turn`: the write position is behind the read position, and at the front only if
nothing was read); that a device that has failed sees no further call before
`clear()` (`Quiet`); that as long as it has not, `Conv` of what it has, what is
converted, and what waits is all that was accepted (`Intact`); and that what it
has is a beginning of that (`Sent`).  Each turn of the loop leaves `Conv` as it is:
`ConvChar`, `ConvNewline`, `ConvEscape`, each from the fact that text is seen the
same in one piece or two (`SeeTextConcat`), and that the write position does not
touch what is still to be read (`Put`).  `EndOfEscIs` shows that the code's search for the end
of a sequence finds what a terminal takes for its end.  That a screen only grows
(`SeeTextGrows`) gives the beginning after a failure.

The first form of `FailsOnlyInEscape` allowed for any number of failures of the device, and
the proof did not go through: after a failure the part of the buffer that is
converted already is converted again.  Text that moved to the front may by then
have overwritten half of a sequence that was taken out; the other half is read as
the start of a sequence, and a stream on a device that works again can fail although
the text was complete.  TLC confirmed it (a gap of one, a buffer
of four, two escapes in a row, one failure in the middle and a `clear()`), and the property
now says what is true.

**Byte sequence** (`ByteSeqAssumption`: a chunk has room for a byte, and 0 is a byte).
`Flat`, what the ring holds, is a fold over the chunks, so the bytes of a ring are
those ahead of any chunk, its own, and those behind it (`FlatAround`), and a chunk
starts where the one before it ends (`StartNext`).  A store inside of a chunk, or past the
end of the last one, is then the same store in the flat bytes (`Overwritten`,
`StoredIs`); create_next_chunk and the loop around it append zeros (`NextChunk`,
`GrownBy`, `GrownIs`); deleting chunks from the back and cutting one leaves the first bytes
(`ShrunkIs`); and the walks of `seek` end in the chunk that the position lies
in (`ReachedAt`, `BackAt`).  `SInv` is inductive: `Inv` as a fact about the ring (`Packed`)
and one about the cursor (`Cursor`), with two additions: without a device there is
no cursor (`NoCursor`), and a call that has not returned has a device, has
not crashed, and what it has still to write fits (`Calling`).  Each action has one
lemma, with both results: `SInv` afterwards, and a step or a stutter of `ByteFile`.
A further turn of `write` or `read` is a step of its own there, which moves the
position by what that turn has done.

**Buffers** (`BufferAssumption`: inside of an object there is an even number of
characters).  `MemInv` says how much of the text is in the buffer (`Held`) and that a
growing one owns just the block that its capacity tells (`Owned`): `GrownTo` is odd, and
large enough, and not above the limit, whatever was asked for; and a block's name is the
call that made it, so that a new one is never one that is there.

**Records** (`EntryAssumption`: an entry is a key and a value; `HashAssumption`: a hash
code is a number; `LayoutAssumption`: a block has a header and room for a bucket;
`MemoryAssumption`: there is a block for the call besides those of the variables).
`Inv` is inductive as it stands, once `LoadHolds` says that no table is empty: rehash
and copy divide by the number of buckets.  The proof is in three parts.  Of sequences:
what is left of one (`Only`; `OnlyIsFold`) when it is extended, reversed, cut in two or
filtered again, and that filtering nodes is filtering their entries
(`OnlyAppend`, `OnlyReverse`, `OnlyTwice`, `MappedRemove`).  Of one record, `Good` when its
chains are what hashing its list gives: a node put at the head of its chain is the one
last in the list (`InsertNodeIs`), adding a list's nodes in order makes the whole
table, whatever its size (`FillOne`, `RehashIs`), taking the same nodes out of list and
chains leaves them in step (`WithoutIs`), and the first match of a chain is
the newest entry of the key (`FoundIs`).  Of blocks: every call is a variable moved
to another block (`MovedIs`), or a record held by one variable replaced (`PutIs`), and
both change one list and no other; a new block is there because more are than
variables (`NewIs`, a pigeonhole).  `Has(r, n, es)` links the parts: a sound record of n
references whose entries are es.  Each action then has one lemma, with both results.

**Command line** (`CommandsAssumption`, `InputsAssumption`).  The trees that the first
assumes are those the code can declare: `DeclaredTrees` goes through every operator
that makes one, and through the options added to a command.  (That its keys are
in order comes from `SetToSortSeq`, whose definition the prover does not have; the
run evaluates it.)  The inductive invariant says in five parts what each property knows
of a parse that is half done.  `BaseInv`: part of an argument is held by a key only while
the first value of its option is due, a positional value is counted only while it is
being filled, and nothing is read before the command is found; `HandedInv` is then
`NothingLost`, each call moving one text from what is to be read to what was handed out.
`OptionsInv`: every key has the call of its option but the one in hand, and behind a
key come as many calls of values as the values passed required.  `PlacesInv`: the
positional values up to the one in hand have what they need.  `NodesInv`, of the walk: what
is in the sets `specified` and `optional` of the nodes passed follows from their children
in the sets; the verdict is about the node that was reached.  `Given` and `CanOmit`, which
`GroupsExact` is stated with, are recursive over the tree, and a tree has one
solution of such a recursion (`SettlesExists`, `SettlesSame`), so that the walk, which visits
each node once, has found it (`WalkAgrees`, `WalkFits`).  `KeyIsLongest` is a fact about two
texts and the order of keys (`KeysExact`): the key that the argument begins with and that
is last in the order is the longest (`BothPrefixes`), and every key between it and the
argument shares that much with the argument (`BetweenShares`), so that the search, which cuts
the argument down as it walks back, gets there.  That proof needs that no key is
empty (section 17).

Only model-checked: liveness (`Progress`, `OperationsEnd`, `Returns`, `Ends`) and
whatever needs ENABLED, which the provers do not have; everything in a module
with a recursive operator (`DbValue` with its trees, `DbScalar`, `RbTree`, and the readers and
writers with their grammars), where the arithmetic prover is not available; and the
algorithms on numbers, texts and format strings (12 to 14), which loop over data and are
compared with a definition for each input of a bounded set.

## 17. What the models say against the code

Checked by the run `xml_stale`:

- `src/db/xml.cpp:68` says of a token "`</name>`", but the name returned is a view
  of the input buffer, kept while the lexer reads on for the bracket.  A blank
  behind the name at the end of a block lets the next block take its place.

Held by a property that says exactly when it happens:

- `impl/io/devbuf_impl.h:421`: `assert(n_read)` fails when a block is a lone CR
  (`AbortsOnlyOnLoneCr`).  A file that ends with CR, or a pipe, will do it.
- `impl/io/devbuf_impl.h:353`, "too long escape sequence": any unfinished
  sequence at the start of the buffer fails a flush, however short
  (`FailsOnlyInEscape`).
- `impl/io/devbuf_impl.h:411`: a held back CR is lost by a read that fails or meets
  the end of the file, so that the last character of a file that ends with CR never arrives;
  `unget()` then gives back a CR in place of the buffer's first character.  At `:478`
  a held back CR survives a seek and comes before the text there (`TextIntact` and
  `EndAfterEverything`, by the history `start`, `prior`, `carried`).
- `impl/io/devbuf_impl.h:467`: with CR LF translation `tell()`, and where a relative seek
  goes, is too far by each CR that was removed from the unread text in the buffer and by the
  one held back: the length of the translated text is taken off the device's place
  (`TellExact`).
- `impl/byteseq_impl.h:75`: `resize(0)`, `truncate()` and a forward seek on a
  sequence that never had a chunk use a null `head_`
  (`CrashOnlyWithoutChunks`).
- `db/value.h:139`: a call tests `p_` and then makes the block unique, which
  leaves `p_` null if the shared block is empty (`LostOnlyWhenEmpty`): copy a
  value that was emptied by `pop_back()`, then push to either copy.
- `db/value.h:917`, `:140`: assigning a value one of its own items, or pushing
  one while the array grows, reads a freed block (`OnlyOwnPartsBreak`).
- `impl/db/value_impl.h:459`: `erase(key)` with a view of the entry's own key
  reads it after it has been destroyed (`CrashOnlyOnOwnKey`).
- `src/db/json.cpp:118`, "put unused chars back": `unget()` cannot go behind the
  start of the buffer, so characters of an earlier block are dropped; `[1.]` cut
  behind the point is read as `[1]` (`LostOnlyInBadText`); the same in
  `src/db/xml.cpp:288`.
- `src/db/json.cpp:17`: a lone high surrogate comes out late or not at all, and makes a
  pair with a low one that is not next to it (`Late` in `TokensExact`).
- `impl/string_cvt_impl.h:214`: the exponent of a text is read up to the limit of an
  `unsigned` and then taken for an `int`: "1e3000000000" is 0, not infinity; a negative one
  beyond the `int` is not read, so that "1e-3000000000" is 1 and a rest; and 0.1e-2147483648
  goes round in the sum, which is undefined (`ReadAs` in `ReadExact`).  An exponent of
  more than 32 bits may do either.
- `string_cvt.h:156`: an escape in braces, as `\u{80}`, is counted for one column more than it
  takes: a text with a precision is cut off one column early, and one with a width filled with
  one character too few, for each of them (`Cost` in `TextsExact`).
- `string_cvt.h:101`: escaped text with a precision may repeat what was pending and exceed the
  precision: `{:.3?}` of `a`, line feed gives `"aa` (`twice` in `EscapedShown`).
- `impl/db/xml_impl.h:47`: blanks in front of a number are accepted by the class
  of the text but not by `from_string`, so that " 5 " is read as zero
  (`TextValue`).
- `impl/db/xml_impl.h`, `read()`: attributes of the root are dropped; text beside
  child elements is dropped; the first element of a repeated name is forgotten if
  it is empty; arrays of one, empty and nested arrays do not survive a round trip
  (`Content`, `Folded`, `Normal`).

Excluded from a property, and so not held by one:

- `impl/cli/parser_impl.h:75`: walking back through the keys ends when nothing is left
  of the argument, so that an option with an empty key may be passed over
  (`KeyIsLongest` speaks of commands without one).  Where it is found and its value is
  optional, the value leaves the argument to the option it has just been taken for
  (line 100), and `parse()` comes to the same argument for ever; the commands of the run
  for `Returns` have no such option.
- `src/string_cvt.cpp:840`, `impl/string_cvt_impl.h:793`: a general format with 18
  digits or more whose digits behind the first are zeroes prints the number of the
  first digits, which is zero: `{:.20g}` of 1e22 is "0e+22" (`LosesDigit`).
- `impl/string_cvt_impl.h:141`: whether an integer has become too large is seen
  from its having become smaller, so that 6000000000 is read as 1705032704 by
  `from_string<unsigned>` (`IntegersExact` speaks of numbers of one word).
- `string_cvt.h:278`: a signed type is read up to the limit of the unsigned one, so
  that `get_int` of the text "3000000000" is -1294967296 where that of the number is
  refused (`TextsGiven` speaks of numbers in the type).
- `format_base.h:486`: the same test for widths; `{:5000000000}` is accepted.
- `utf.h:79`: the test of `WCHAR_MAX` is the wrong way round: 32-bit wide characters
  are put down as UTF-16 pairs, 16-bit ones cut off.  The model has the code's form.
- `utf.h:9`: overlong forms of UTF-8 are decoded; a byte that belongs to nothing is
  taken for the character of that number.
- `string_alg.h:35`: searching backwards, a backslash masks a separator even if it is
  masked itself (`TwoBackslashes` in `SectionExact`).  An empty text to search for is
  found for ever; the model is not given one.

## 18. What is not modelled, and why

Files, zip and zlib are system calls and foreign libraries; what streams need of
a device is modelled with the streams.  The tables of the lexers, of character
widths and of printable characters are generated data.  The products of two
words of 64 bits, made of four, are below the level of `FloatRead`'s numbers.
`format_chrono.h` is a long list of the fields of a calendar, each put down by a
conversion of section 12, and the names a C++ locale gives them; the formatters of
ranges, optional values and paths call those of their parts.  The store of
arguments is a layout of memory.  `variant`, `span`, `optional`, iterators,
`functional` and the metaprogramming headers keep no state of their own.  Shared
strings inside `db::value`, lists, `dynarray` and the flat streams are not modelled yet.

## 19. Plan

Done, in the order of importance: shared ownership (3), streams (4), the byte
sequence (5), values and records (6, 7), readers and writers (8, 9), the tree
(10), the command line (11), numbers, texts, formatting and buffers (12 to 15),
proofs of (3), (4), (5), (7), (11) and (15).

Next, to extend the model:

1. Strings in `DbValue` (`flexarray_t` of characters).
2. References kept from `operator[]` while the array is copied (`db/value.h:1154`).
3. Lists: `dllist.h` links, `intrusive::list` splice, merge and sort, against
   sequences.
4. Streams that change between input and output (`iodevbuf`), composing
   `DevBufIn` and `DevBufOut` over one device; the flat streams against `ByteFile`.

To prove more:

1. `Strings`: that decoding undoes encoding for every code point.
2. `RbTree`, with its operators on subtrees as functions in place of recursive ones.
