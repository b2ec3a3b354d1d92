# A TLA+ verification of tabnas/csv

`tabnas/csv` is a CSV grammar plugin for the tabnas parser engine, in three
ports: TypeScript (`ts/src/csv.ts`, the canonical one), Go (`go/csv.go`, with a
C library in `go/clib/`) and Rust (`rs/src/lib.rs`). The lexer and the rule
engine are external (`tabnas/parser`, `tabnas/jsonic`); the plugin gives them a
grammar, callbacks, and a matcher for quoted fields.

This directory holds TLA+ modules of the plugin, the TLC configurations that
check them on small instances, and TLAPS proofs of the theorems that matter
most for every instance.

    tlc -config CsvParse.cfg MCCsvParse       # one run; PROJECT.json lists them all
    tlapm ClibHandlesProofs.tla               # one module of proofs

## 1. Inventory

### The parse (strict mode)

*State.* A stack of rule instances, each with a node, its child's node, a text
counter and a `done` mark; the lexer's position; the arrays the callbacks
allocate (one for the document, one for each line), shared by reference;
`ctx.u.fields`, the header's array; `ctx.u.recordI`, the lines read; the calls
the stream callback has received.

*Operations.* The `bo` and `bc` callbacks of the rules csv, record, list, elem,
val and text; the alternates of their open and close phases; the alternates'
actions (`@elem-open-empty`, `@elem-close-trailing`, `@text-follows`,
`@text-leads`, `@text-end`, `@text-space`); the wrapper around `parser.start`.

*Hard.* It is sequential, and still hard: the same array is reachable from the
rule that fills it, the rule above it, the document, the callback and
`ctx.u.fields`; rules replace one another and keep a node that their parent saw
when the first of them was pushed; an empty field is pushed by any of three
alternates; a failure ends the parse between two records.

*Correct when* every source becomes the records of its lines, each field the
text of its tokens; records share no array and do not change once handed out;
a refused line is handed out by no route; the callback sees a well-formed
protocol; every parse returns.

### The C library's handle registry (`go/clib/core.go`, `tabnas_c.go`)

*State.* `nextID`, the map `loaded` of parsers, the `sync.RWMutex` around them,
and a mutex in every parser.

*Operations.* `tabnas_grammar` builds a parser outside the lock and registers it
under the write lock; `tabnas_parse` looks a handle up under the read lock,
releases it, and runs the engine under the parser's own mutex;
`tabnas_grammar_free` deletes under the write lock. Panics of the construction
and of the engine become reply documents.

*Hard.* Any number of host threads call at once; a handle can be freed between
the lookup and the parse; locks are released by hand, without `defer`.

*Correct when* each call acts as if at one instant on a table of handles; no
engine is used by two threads; no handle comes back; no lock outlives its call.

### The quoted-field matchers

*State.* An index, row and column that run ahead of the lexer's cursor, the text
read so far, and the cursor (`pnt`), which TypeScript and Go write while they
scan. In Rust no counters: the window, the part of the source the lexer holds.

*Operations.* One call from a quote to an answer: a string token, an error, or
nothing. TypeScript and Go loop over the source; Rust scans the window, asks for
more if it ended inside the field, and scans again.

*Hard.* A quote closes the field or is half of an escaped pair, which the next
character tells, and that may be past the window; each of the loop's branches
moves three counters; Go scans bytes where quotes and line ends are characters.

*Correct when* the field ends at the quote that closes it and says what stands
between; the cursor's row and column are right; the window changes nothing but
the cost, and the cost is linear; the loop ends.

### The walks over values that may contain themselves

*State.* A call stack; the path, the containers being looked into, by identity;
for the options (`tagOptions`) the objects seen.

*Operations.* A recursive call for each part; `defer delete` when it returns.

*Hard.* A value may contain itself, or hold one part twice without containing
itself; map entries come in random order; unbounded recursion is fatal in Go.

*Correct when* the walk ends, refuses exactly the cyclic values, knows every
object (options), and lets nothing through that JSON would corrupt (results).

### The nodes of a parse, in Go and in Rust

*State.* The same rules, but in Go an array is a slice, a value: backing array,
length, capacity; in Rust a rule's node is a cell, shared with the rule it came
from until the rule assigns its own.

*Operations.* `append` and the hand-over to the parent (Go); `set_node`,
`list_push`, `assign_text` (Rust).

*Hard.* In Go every append makes another slice, which the other holders do not
see, and may write into a backing array they share; in Rust a write through the
cell is seen by every rule that shares it.

*Correct when* no cell and no record is lost between two rules, and no append or
write reaches what was handed out already or belongs to another level.

### Installing the plugin (`Csv`, `go/csv.go`)

*State.* The engine's options, its alternates, the decoration that marks the
plugin as installed; the plugin runs under way.

*Operations.* Reading the option bag; `tagOptions`; three `SetOptions` and the
grammar document; the reshaping of list, elem and val.

*Hard.* Each `SetOptions` runs the installed plugins again, from inside the run
that called it, and puts back the engine's IGNORE set; the guard is set before
the options are looked at; an option's value may be of any type.

*Correct when* the engine ends as its first use's bag asks, if that use was
accepted; each of the plugin's alternates is in its list once, open and close, with
none of jsonic's beside it in strict mode and jsonic's on its right side otherwise;
and a refused first use has changed neither options nor rules.

### The names of columns (`@record-bc`, `jsKey` and below, `go/csv.go`)

*State.* The field list, the record being named, the objects an option supplied.

*Operations.* One column after another gets a key; one that has none refuses the
document.

*Hard.* A name may be a value of any Go type, nested; JavaScript spells numbers
in four forms, drops nil in an array and names it outside one, and cannot name
an object without a prototype.

*Correct when* the names are those JavaScript gives the values, and no record is
handed out with half of its columns.

### The other components

| component | state and operations |
|---|---|
| non-strict mode | alternates put before jsonic's own; depends on jsonic's grammar, which is not in this repository |
| translation parts, embedding scripts, suite tools, CI | generated constants; build-time file I/O |

### Interactions

The engine calls the plugin's callbacks in rule order; the callbacks call the
user's stream callback; the C library calls the Go port through one engine per
handle. Nothing is persisted and nothing travels over a network: there are no
crashes to recover from and no lost messages. Concurrency exists in the C
library only. `PROJECT.json` lists under "hazards" each place where this code
is hard to test, with the properties that cover it.

## 2. The modules

| module | what it is |
|---|---|
| `CsvGrammar` | the strict grammar as data: each rule's open and close alternates |
| `CsvRows` | tokens, cells, records; how cells become an object |
| `CsvParse` | the parse: the engine's rule machine, the callbacks, the properties |
| `CsvRecords` | what a parse promises, with no rule, stack or array in it |
| `MCCsvParse` | alphabets of tokens, all sources up to a length, option sets |
| `CsvParseProofs` | theorems about `CsvParse`: types, where a cell lands, what was handed out and that it stays, what the stream callback is told, and that it implements `CsvRecords` |
| `CsvParseGo`, `MCCsvParseGo` | the parse of the Go port: its nodes are slices; implements `CsvRecords` |
| `CsvParseGoProofs` | a theorem about `CsvParseGo`: what its appends leave alone |
| `CsvParseRs`, `MCCsvParseRs` | the parse of the Rust port: its nodes are shared cells; implements `CsvRecords` |
| `CsvParseRsProofs` | a theorem about `CsvParseRs`: who shares a cell |
| `CsvInstall`, `MCCsvInstall` | installing the Go plugin; every option with every kind of value |
| `CsvInstallProofs` | theorems about `CsvInstall` |
| `ColumnNames`, `MCColumnNames` | how a value names a column in Go; numbers of every form, lists of every shape |
| `HandleTable` | what the C library promises: an atomic table of handles |
| `ClibHandles` | the C library: threads, registry, the two kinds of lock |
| `MCClibHandles` | its instance |
| `ClibHandlesProofs` | theorems about `ClibHandles` |
| `QuotedText` | what a quoted field is, defined without a scan: the quote that closes it, its text, the row and column after it |
| `QuotedField` | what a matcher promises: one step from being asked to the answer |
| `QuotedTs`, `QuotedGo`, `QuotedRs` | the three matchers, each an implementation of `QuotedField` |
| `MCQuotedText`, `MCQuotedTs`, `MCQuotedGo`, `MCQuotedRs` | alphabets, sources and quotes for them |
| `QuotedProofs` | theorems about `QuotedTs` and `QuotedRs` |
| `QuotedGoProofs` | theorems about `QuotedGo` |
| `ValueWalk` | the walks over the Go options and over a parse result |
| `MCValueWalk` | all values of three parts, for either walk |
| `ValueWalkProofs` | theorems about `ValueWalk` |

### CsvGrammar, CsvRows, CsvParse

`CsvGrammar` holds each alternate as a record `[s, b, p, r, a, n]`: the kinds of
token it wants, how many it gives back, the rule it pushes or is replaced by,
its action and its count. A condition of the code (`@not-record-empty`,
`@record-close-next`) is the argument `recordEmpty`.

| variable of `CsvParse` | in the code |
|---|---|
| `opts` | the options `Csv` has normalised (csv.ts:147-159) |
| `src`, `pos` | the lexer; comment tokens, which are in the IGNORE set, are left out |
| `stack` | the engine's rule stack; a frame's `at` is the phase it is in |
| `heap` | JavaScript arrays, by reference: `heap[1]` is `ctx.root().node` |
| `fields`, `recordI` | `ctx.u.fields`, `ctx.u.recordI` |
| `events` | the calls of `options.stream` |
| `outcome` | `"run"`, `"done"`, or the code of the error |

Every action is one callback or one alternate, whole. `CsvBO`, `ListBO`, `ValBO`
are the `bo` callbacks; `TextBC`, `ValBC`, `ElemBC` the `bc` callbacks;
`RecordHeader`, `RecordRefused`, `RecordRow` the three ways through `@record-bc`.
`OpenPush`, `OpenReplace`, `OpenStay`, `CloseReplace`, `ClosePop` take the first
alternate that matches: they read its tokens, run its action and change the
stack. `CsvClose` ends the parse, `Unexpected` refuses a token.

Two things about nodes decide whether the model is faithful. A pushed rule is
seeded with its parent's node, so list would push cells onto the document were
it not to allocate (the comment at csv.ts:437-446). And a parent's `child` is
the instance it pushed: when that is replaced, the parent goes on seeing the
first instance's node, except that the second rule of a text chain assigns its
predecessor's node too (`r.prev.node`; in Go and Rust the same by propagation).
`Seen` is that rule.

`CallbackThrows` is the stream callback throwing on any event. The TypeScript
wrapper catches that too and calls the callback once more, with an error event,
also after `"end"`; the other ports let it pass.

`Port` selects what the ports do differently where these rules reach: Go joins
the source of a token that is no string (`tokenStr`), and only TypeScript turns
an error into an event. `CsvParse` itself models nodes as TypeScript has them;
the two modules that follow extend it and replace the actions that touch nodes.

### CsvParseGo

A node is a slice `[a, n]`: a backing array of `heap` and a length. `HeapWith`
and `Longer` are `append`: in place while the capacity lasts, otherwise into a
new array of twice the capacity (the sizes Go gives the short slices of a line
and of the small instances; the properties ask only that there is sometimes
room and sometimes none). `SharedNode` is `r.Parent.Node = r.Node`, which every
appending callback must do. A record handed out and `ctx.Meta["fields"]` hold
slices too, so `AppendsSpareTheHeld` says what Go code can get wrong here and
JavaScript cannot: an append through another slice overwrites what they see.
The document that `Parse` returns is the root rule's node, so a hand-over that
is forgotten loses records and breaks `GoImplementsRecords`.

### CsvParseRs

`heap` holds the values of the node cells, a frame's `node` the index of its
cell. `SetNode` takes a fresh cell, `ListPush` writes through the shared one,
`AssignText` does both: past the first rule of a chain the text goes into the
predecessor's cell and then into the rule's own. What a child leaves in its
parent (`kid`) is a copy. `CellsSharedInLevel` says that document, line and
field never share a cell, `RsImplementsRecords` that the outcome is the same.

### CsvInstall

`runs` is the Go call stack, reduced to the stages of the plugin runs on it: a
`SetOptions` moves the run under way on and starts another one on top. `Guard` is
the `csv-init` decoration, `Tag` the refusal of a cyclic bag, and the stages
after it the calls in their order: matcher, excluded alternates, the grammar
document, the overrides, and list, elem and val. `Set` is the engine's side, with
the IGNORE set that goes back to its default. The alternates are the records of
`CsvGrammar`; `Jsonic` stands for those the engine had before. What a bag asks of
an engine, `Wanted`, is written from the options alone, without the
stages. `MaxRuns` bounds the nesting, which a guard that is set too late would
make endless; the plugin itself never nests more than two runs, which is proved.
`Settled` says what the lists are to hold once a use was accepted, by what the
grammar lists and not by how it got there: in strict mode, and in the plugin's own
rules, the lists of `CsvGrammar` and nothing else; otherwise `Jsonic` between the
plugin's alternates that take a token and those that take none (`AroundJsonic`), less
those that jsonic's own do (`LeftToJsonic`). The order of the plugin's among
themselves is then left open: no two of one list can take the same tokens.
`RefusalIsClean` says of a refused first use that it changes neither options nor
rules. It says so of every later state too, since that is what the code does: the
mark stays (section 6).

### ColumnNames

A value is a record whose `go` is its Go type: the branches of `jsKey` look at
nothing else. A number is its sign, its shortest digits and its magnitude, which
is what `strconv` gives `jsNumberToString`. `JsKey` follows the Go code case by
case; the properties say the same of JavaScript's side: `Meaning` is the value
that JavaScript has, `Leaves` flattens nested arrays as `join` does, and `Reads`
takes a spelled number apart again.

### CsvRecords

The abstract specification cuts the tokens into lines, the lines into fields,
takes each field's text from the tokens that make it, and reads line after
line: header, record, or refusal. It says nothing of how. `CsvParse` implements
it under the refinement mapping of `Doc`: `line <- recordI`, `rows <-` the
records handed out, by value, and `result <- outcome`. Lines and fields are
given by the places where they start, as sets, and numbered by counting (`Nth`), so
that what the specification says of a part of the source can be reasoned about
without recursion over the tokens. The property is a
refinement, so it also says that records appear one at a time, in order, and
that nothing follows a refusal.

### ClibHandles, HandleTable

One thread's `pc` walks the entry points statement by statement. `reg` is
modelled by `writer` and `readers`: `Lock()` is two steps, since a Go writer
announces itself (which holds new readers back) and then waits for the readers
inside. `holder[h]` is the mutex of parser `h`; it is taken after the registry
lock was given back, as `parseWith` does. The engine's verdict is
nondeterministic, a panic included (`"internal"`). Handles passed by callers
include 0 and numbers never issued.

`HandleTable` has one step between a call and its return: `Issue`, `Bind`, `Free`.
`Bind` is where a parse is tied to its parser; a `Free` after it does not
matter. `ClibHandles` implements it with the linearisation points `Register`,
`Lookup` and `Delete`.

### QuotedText, QuotedField, QuotedTs, QuotedGo, QuotedRs

Characters are code points; index 1 is the quote the lexer stands at. In
`QuotedTs` and `QuotedGo` an action is one turn of the loop, with every counter
it moves: `EscapedQuote`, `ClosingQuote`, `LineChar`, `ControlKept`,
`ControlRefused`, `Body`, `Exhausted`; the inner loop, which moves nothing but an
index and a column, is the operator `BodyStop`. `QuotedGo` scans the UTF-8 bytes
of the source (`Encoded`), and its answer is read back as characters (`Decoded`,
byte by byte) by the refinement mapping; a character past U+FFFF is written in
three numbers where Go writes four bytes. In `QuotedRs` a scan of the window is the function
`ScanQuoted`, and an action is one scan with what the matcher makes of it; a
fill brings what was asked for, any of `Surplus` more, or the rest of the source.

`QuotedField` is the promise, with two parameters for what the ports do
differently: Go's matcher fires at the start of a field only
(`FieldStartOnly`), and leaves a source with a control character it may not
take to other matchers (`Refusal`). It says what an answer is, not that one is
given: `ImplementsField` is the refinement and `ScanEnds` that the matcher
answers.

### ValueWalk

A call is a record of the part it looks at and the parts it has still to look
at; `Enter` is a call, `Leave` a return with its deferred delete. `Walker` says
which of the two recursions it is: the options' one tags objects, takes map
entries in any order and does not look into pointers and structs; the result's
one looks for what JSON would corrupt. `done` is a history variable. What lies
inside a part (`Below`) is defined without a walk, as the smallest closed set.

## 3. What the runs check

| run | instance | shows |
|---|---|---|
| `parse` | four families of sources with settings (`MCCsvParse`). Text: up to 5 tokens over text, quoted text, number, space, separator, line end; trim on and off. Rows: up to 5 tokens over text, separator, line end; header, object, exact, empty, names in every combination. Names: up to 6 tokens whose texts are a name and a generated column name. Stream: up to 4 tokens, streamed or not, some refused, the callback throwing at any event | where a line is refused; lines become the records promised; no array is shared, or changed after it is handed out; exact means exact; the callback's protocol; every parse returns |
| `parse_go`, `parse_rs` | the same families without names, text up to 4 tokens | the slices of Go and the cells of Rust give the same records; no append and no write reaches what it should not |
| `clib` | 2 threads, 3 parsers | exclusion of engines and of the map, no lock kept, handles handed once; each call acts at one instant; a freed handle stays dead; every call returns |
| `quoted_ts` | sources of up to 6 characters that begin with a quote or a tab, over quote, letter, tab, line feed, carriage return; quotes of no, one and two characters, a tab, an astral character; allowControl on and off | the answer and the row of the TypeScript matcher, and that it returns |
| `quoted_go` | the same up to 5 characters, after each kind of text that may stand before; and with a quote and a letter of two bytes | the answer, row and column of the Go matcher; no character is split; it returns, as no other character there begins with the quote's first byte (section 6) |
| `quoted_rs` | up to 7 characters, every first window, fills of up to 3 more than asked | the window changes nothing, and the matcher returns |
| `walks` | both walks on every value of three parts with up to two parts each | cycles, objects, corrupt parts; the walk ends |
| `install` | two uses on one engine, each with one option of every kind of value next to strict on or off, cyclic or not | the engine as the bag of an accepted first use asks; every open and close list holds what the mode asks, once, on its side of jsonic's; after a refused first use options and rules stay as they were for good, since the mark stays |
| `names` | numbers at the edges of all four forms; lists of up to two columns over every Go type and eight nested arrays; records shorter, equal and longer | names as JavaScript gives them; refused where it gives none |
| `claim_go_errors`, `claim_go_quotes` | see section 6 | the code departs from a statement of the documentation |

**Bounds.** `MaxText`, `MaxRows`, `MaxNames` and `MaxStream` bound the sources of
each family, `MaxLength` those of the matchers; `MaxHandles` the parsers built in one
behaviour. Five tokens hold two lines with a separator in each, or a field of
five tokens: every pair of consecutive alternates of the grammar, a text chain
of every shape up to a replacement of a replacement, a header with a longer and
a shorter line after it, and blank lines first, between and last. The grammar
has no counter but the text counter, which is compared with 1 and 2 only.
Names need six: `x , y LN a ,` has a header of two columns and a line of two
cells, and `x LN a , b` a cell that no name covers. A streamed parse of four
tokens can hand out a record and then fail, by a token or by a line's width. In Go five tokens make lines of up to three
cells beside others, or six empty ones, so appends with and without room alternate, and a document
of up to five rows. Two threads and three parsers let a lookup hit the wrong
parser, a handle be freed between a lookup and its parse, and a writer wait
for a reader; what more threads could do is covered by the theorems, which hold
for any number. Two uses of the plugin are enough, since the second meets all
that the first left behind and changes nothing itself.

The matchers' loops look at one
character and the next; six characters hold an escaped pair, a line end, a
control character and a closing quote with something after it, in any order.
Three parts are a cycle of every length up to three, a part held twice, and a
cycle beside or below a part that is none.

**Sources.** All token sequences a source can produce: no two spaces in a row,
since the lexer takes a run of spaces as one token, and two values in a row only
where the first is a quoted string and the second is none (`Deliverable` in
`MCCsvParse`): a text or a number runs up to the next separator, space or line
end, and two quoted strings in a row are one, with an escaped quote. A source with no
token at all stands for one of comments; the empty string never reaches the
rules.

**Fairness.** `CsvParse` is sequential: `WF_vars(Step)` says that the engine goes
on. In `ClibHandles` a thread inside the library keeps running
(`WF_vars(Proceeds(t))`), which holds of the Go scheduler and of an engine that
returns (`Terminates`, above, is why it does), and a thread that waits for a
lock that is free again and again obtains it (`SF_vars(Waits(t))`): Go's RWMutex
holds new readers back from a waiting writer and lets waiting readers in before
the next writer, and its Mutex hands itself over to a waiter after 1 ms. No
fairness is assumed of the callers, who need never call. The matchers and the
walks are sequential code: `WF_vars(Turn)`, `WF_vars(Match)` and `WF_vars(Step)`
say that it goes on.

**Mutants.** Each property of a passing run is paired with a bug a maintainer
could make in a definition it depends on (list keeps its seed, one array for
every line, the exact check for objects only, the newline given back, ids
drawn from the size of the map, a panic that leaves the mutex locked ...); TLC
finds the property violated under that bug. They stand beside the definitions
they change, marked "Mutant".

## 4. What is proved

### CsvParseProofs

For every set of sources, every set of options, every port, every
`field.empty` and prefix, from the assumptions named in `CsvParse` and `CsvRows`
(sources are sequences of tokens, options have their types, `EmptyCell` is a
cell, and `LexerAssumption`, which only the last theorem uses).

- `TypeCorrect`: `Spec => []TypeOK`.
- `CellsStayInTheirLine`: `Spec => []NoLeak`.
- `RecordsAreSeparate`: `Spec => []RowsAreSeparate`.
- `RowsExact`: `Spec => []ExactRows`.
- `HandedRecordsFinal`: `Spec => [][HandedIsFinal]_vars`.
- `StreamKept`: `Port = "ts"` implies `Spec => []StreamProtocol`, with a callback
  that may throw at any event.
- `RecordsImplemented`: `Spec => ImplementsRecords`: the rule machine refines
  `CsvRecords`, so every record is, by value, what the text of its line calls
  for, and the parse ends where and how the source says.

The first two are not inductive. That a cell pushed by elem lands in a line's array
depends on what elem's node refers to, hence on list having allocated when it
pushed elem, hence on which rule stands below which. The invariant `Inv` says
it in one place: `ShapeOf` - the rule at depth *i* is one of those that run at
depth *i* (`Level`), all but the top one have opened, and each frame holds what
its rule reads (`FrameOK`: the line rules the document, list after `bo` and elem
an array from 2 up, val and text a value); `RecordReady` - a record about to be
closed has seen its line's array; `HeapOK` - array 1 holds rows, the others
cells. The proof has three layers:

1. `AltTypes`: every alternate of the grammar pushes and replaces at the right
   depth, and acts only in the rule that its action belongs to;
2. the stack: `ShapeSet`, `ShapePush`, `ShapePop` for what the engine does to a
   stack, `ActedType` and `SeenType` for what an alternate does to the running
   frame and the one below it, `ChildOK` and `HeirOK` for the frames it makes;
3. one lemma for each action, put together in `StepInv`.

`HandedInv` strengthens `Inv` by what the callbacks rely on without saying so.
`Separate`: the arrays handed out are distinct, and none is the header's.
`StackFresh`: what list and elem fill, and what record is about to hand out, is
not among what was taken already, the header included. `HeaderFirst`: no record is handed out before
the header is known, so the field list that names a record's columns is the one
that `ExactRows` compares it with later. A step that writes to the heap then
either writes to the line's array, which nobody else holds, or adds one.

`StreamInv` adds to `HandedInv` that what was said so far fits where the parse
is: one `"start"` and then records only while it runs, one record for each line
read (the header apart, and the line whose record made the callback throw), and
`"end"` or `"error"` only as the step that leaves `"run"`. The assumption on the
port is needed: in Go and Rust an error is no event, and a callback that throws is
not called again.

`ReadingInv` adds what `CsvRecords` says of the source up to `pos`. Every rule on
the stack has its own part of it, by its phase (`CsvSays`, `NewlineSays`,
`RecordSays`, `ListSays`, `ElemSays`, `ValSays`, `TextSays`): record and list that
`pos` is in the line that `recordI` counts to and that the line's array holds the
cells of the fields passed (`InLine`, `InField`); elem which field is being read and
whether its cell is already in the array (`Pending`); val and text that the
tokens from the field's start to `pos` give the text in their nodes (`FieldRead`,
`TextRead`). A rule that waits for the one above has its child's part to go by
(`Waiting`). `HeaderSays` keeps the names. The argument has these steps:

1. *Places* (`Least` to `LineNext`). `CsvRecords` numbers lines and fields by
   counting places in the source (`Nth`, `Until`), with no recursion over it;
   `NthIs` and `BeforeNext` say what one more place does to the count.
2. *Values* (`CellsNext`, `TextBegins` to `TextStops`, `ObjectIs`). A field's text and an
   object's properties are recursive functions; that they are defined, and what one
   more token or one more assignment adds, is proved from a least counterexample
   (`CourseExists`) in place of an induction theorem. `ObjectIs` is that assigning
   column after column, the last value of a name where the name came first, leaves
   what `ObjectOf` says by counting first uses.
3. *Alternates* (`CsvOpens` to `TextOpens`). Which alternate a rule takes, as
   a condition on the tokens ahead.
4. *Steps* (`CsvGoes` to `TextGoes`). For each rule and phase: if its part
   holds before, the part of the rule that runs next holds afterwards.
5. *Refusals* (`UnexpectedLine`). That no alternate matches means that the line
   has a field that is not `WellFormed`, and the parse meets it before the line is
   handed out.
6. *The map* (`StepRefines`). The callback that closes a record is `ReadHeader`,
   `ReadRecord`, `RefuseWidth` or, if the stream callback throws, `Interrupt`; a
   missing match is `RefuseLine`; the end is `Finish`; every other step leaves
   the records as they are (`CollectedKept` needs `HandedInv` for that: nothing
   handed out is written to again).

`LexerAssumption` says of the tokens what the engine's lexer makes true: a run of
spaces is one token, an unquoted text is its own source, and the end of the source is
no token of it. The first matters because an alternate of the text rule reads one
space token together with the value behind it.

### CsvParseGoProofs

For every set of sources and every set of options:

- `AppendsSpare`: `GoSpec => AppendsSpareTheHeld`, an action property: no step
  changes the elements of a slice that was handed out, in the document or to the
  callback, or that the header keeps, and the document only gets longer.

A Go slice is a backing array and a length, and an append writes into the array
while it has room, so it would change what another slice of the same array shows.
That it never does depends on who holds a slice of which array, which the code
says nowhere. `GoInv` says it: `Sound` keeps three owners apart - the document;
`Reading`, the slices of the line under way, which list has once it opened and
record has seen once list has closed (`Mine`); and `Held`, whatever was given
away. No two of them have an array in common, and every slice fits its array
(`Within`), so an append to the line's slice spares what is held (`SoundLine`),
and so does one to the document's (`SoundDocument`). `GoShape` says which rule stands at
which depth, that a line rule has the document's slice and elem list's - the
callbacks pass each longer slice up themselves, and a rule that kept an old one
would append over what its parent has - and `GoReady` that a record that is about
to close has seen its line. The step that hands a line out moves its array from
`Reading` to `Held`, and the same step leaves no rule that appends to it.

### CsvParseRsProofs

For every set of sources and every set of options:

- `CellsApart`: `RsSpec => []CellsSharedInLevel`.

`CellsOK` says of the stack what the property needs to survive a push: every rule
runs at its depth, all but the running one have opened, and every cell exists, so
that a cell taken next is nobody's. A pushed rule gets its parent's cell; then it is
of its parent's level, or it has a before-open callback that gives it a cell of its
own before it does anything else (`TierBelow`). The facts about the grammar are
`AltTypes` of `CsvParseProofs`.

### CsvInstallProofs

For every set of bags, every number of uses and every depth of nested runs:

- `ConfiguredAsAsked`: `Spec => []StandsAsAsked`.
- `AlternatesOnce`: `Spec => []InstalledOnce`.
- `RefusedUntouched`: `Spec => []RefusalIsClean`.

The invariant describes the engine at every stage of the outermost run: which of the
`SetOptions` have been made, so which options stand and whether IGNORE is the
plugin's or the engine's default again. A nested run finds the guard set and
ends, so a stack of runs has one run that works and at most one above it.
The rules are the engine's own until the document joins them, then those and the
document's (`Grown`), and from the last stage on what the setting asks for
(`Settled`, in `CsvInstall`). That no list of alternates holds one twice is shown
list by list, from what tells two of them apart (`OneOf` to `FourOf`, `Behind1` to
`Behind3`); that `Jsonic` stands where it should, from the shapes a list of one to
three alternates around it can have (`AroundNone` to `AroundBoth`).

### QuotedProofs

For every source, quote, setting of `allowControl` and set of row characters:

- `RowsFollow`: `Spec => []RowFollows`.
- `EndsRightly`: `Spec => []Verdict`: the answer ends where `QuotedText` says, or
  is the error that it calls for.
- `ReadsTheField`: `Spec => ImplementsField`: the loop refines `QuotedField`, so
  the text is the field's too, character for character.
- `RsReadsTheField`: the same of the Rust matcher, `Rs!Spec => Rs!ImplementsField`,
  for every first window and every surplus a fill may bring (`Surplus \subseteq
  Nat`, as `QuotedRs` assumes).

`QuotedText` counts quotes over the whole field; the code looks at one
character and the next. What joins them is `Passed`: in what was passed, the
quotes come in pairs, so their number up to any passed place that is followed by
a quote is even only before a pair; hence none of them closes the field, and no
character barred from it is among them. While it scans, the cursor stays at the
opening quote but for its row, which counts what was passed (`Home`). The lemmas
below are about `Cardinality` over a prefix of the source: what one more
character adds to a count.

The text adds to this that what was read is what the field says of the part
passed (`Text`). `QuotedText` says which characters a field keeps and finds the
k-th of them by counting (`KeptAt`), with no recursion; that the count tells the
place follows from its growing with every character kept (`KeptPlace`). A
pair of quotes adds its second quote (`SaidNext`, `SaidSkip`); a stretch without
quotes adds itself (`SaidStretch`, from the least place where it would not).
Then every turn maps to a step of `QuotedField`, `Decline`, `Refuse` or `Read`,
or to none.

The Rust matcher is an instance beside the TypeScript one, with the same source
and a window of its own, so `Passed` and `SaidUpTo` serve both. A scan is a
recursive function that returns at the place it stops, and puts the characters in
front of the text on its way back; the proof reads it forwards. `Past` says that
the scan of the rest, behind *m* passed characters, with what the field says of
those *m* in front of it, is the scan of the whole; each turn keeps it (`ScanTurn`), so
at the last *m* that has it the scan stops (`ScanStops`). That a function with
such a definition exists is proved from a least counterexample (`ScanExists`).
What remains is that a stop means for the source what it means for the window: a
quote with another character behind it closes the field wherever the window ends; a
window that ends in text or at a quote says nothing as long as a fill makes it
longer (`FillGrows`), and if none does it is the whole source.

### QuotedGoProofs

For every source, quote, setting of `allowControl` and set of line, row and space
characters and fixed tokens, from the assumptions that no byte of a quote is the
code of a line character (`QuoteBytesAssumption`; it follows from the one that
`QuotedTs` makes as long as the quote or the line characters are ASCII) and that
fixed tokens are texts (`FixedTokensAssumption`):

- `CursorIsRight`: `Spec => []CursorFollows`.
- `GoReadsTheField`: `Spec => ImplementsField`: the loop over bytes refines
  `QuotedField` over characters.

The matcher counts as it goes, in four branches that each add to the column
differently; `CursorFollows` counts from the start of the source. The invariant says
that the two agree wherever the loop stands (`At`). A stretch without a line character
moves the column by its length (`SameLine`), which is what the quotes, the pairs
of them, the control characters and the inner loop have in common (`Passes`); a
line character starts the count again (`NextLine`). The bytes of a
source are a recursive function over its characters (`FlattenSeq`); that it is
defined and makes a sequence of numbers is proved from a least counterexample
(`FlattenExists`, `FlattenType`), in place of an induction theorem.

The refinement rests on what UTF-8 is for: a later byte of a character is never the
first byte of one (`Utf8Is`). So a quote is found at the start of a character or
not at all (`QuoteAtChar`, `NoQuoteWithin`), a control byte is a whole
character (`AtControl`), and the bytes of a fixed token stand before the quote
where its characters do (`EndsInBytes`), which makes the byte test of the field's
start the one `QuotedField` has (`OpensWhere`). The inner loop, though, does stop within a
character, at any byte the quote begins with; so the invariant (`GoAt`) has
the loop at *m* whole characters and *k* bytes of the next, and says that what
it read is the bytes of what those *m* say and the *k* bytes behind them. Every
answer is given at *k* = 0 (`AtQuote`, `AtControl`, `AtEnd`), where the bytes
are those of a text, and read back they are that text (`ReadsBack`). From there on
it is the argument of the TypeScript matcher: `Passed`, `SaidUpTo` and
`FieldRead` are those of `QuotedProofs`, of which the module takes an instance
with the answer in characters (`Chars`).

### ClibHandlesProofs

For any finite set of threads and any number of parsers:

- `TypeCorrect`, `EnginesExclude`, `RegistryExcludes`, `LocksReturned`,
  `HandlesHandedOnce`, `FreedForGood`, and
- `RegistryIsTable`: `Spec => Table!Spec`, the registry implements the atomic
  table.

The invariant ties the locks to the program counters (`LocksHeld`: a thread
holds exactly the lock of the section it is in), a thread's call to where it is
(`CallAt`, `AnswerAt`: what it found, what it will answer), and handles to ids
(`HandlesIssued`: a handle handed out was issued, and to one thread). `Bounded`
accounts for the parsers being built, whose number is part of the bound. The
refinement is then a step by step match: the linearisation points map to
steps of the table, all others to stutters.

### ValueWalkProofs

For any set of parts, any set of values and both walks:

- `CyclesRefused`, `ObjectsTagged`, `CorruptionReported`, and
- `PathIsTheWay`: `Spec => []TypeOK`, whose last conjunct says that the path holds
  exactly the containers being looked into.

The invariant: every call looks at a part below those of the calls before it
(`Nested`), so a part found on the path contains itself; what a call has been
past is done, but for the part the next call is at (`PassedOK`), so when it
returns all its parts are done and the set of done parts stays closed
(`DoneOK`). A closed set that holds a part's parts holds all that lies below it
(`BelowLeast`): hence a part that returns does not lie below itself, for then it
would have been done before (`Left`), and when the root returns everything is
done (`WalkedAll`). No induction over the value is needed. For the path, in
addition: no two calls under way look at the same container (`PathFull`), so the
delete of one that returns takes nothing off that another needs.

### What stays with TLC

- Liveness (`Terminates`, `CallsReturn`, `Ends`, `ScanEnds`): TLAPS does not
  reason about fairness.
- `GoImplementsRecords` and `RsImplementsRecords`. What the rules read of the
  source is the same in the three ports, and proved for the first
  (`RecordsImplemented`); what is not proved is that Go's slices and Rust's cells
  hold at every step what TypeScript's arrays hold, for which `AppendsSpare` and
  `CellsApart` are the part that says nobody else writes to them.
- The three properties of `ColumnNames`: `Leaves` and `ValueIn` are
  defined by recursion over the value, in `RECURSIVE` operators, and what these
  compute for every input needs induction with an operator parameter, which the
  provers cannot instantiate.

## 5. What is abstracted

- The engine is external and modelled from how the plugin uses it: rule phases,
  first match, push, replace, pop, node seeding.
- `CsvParse` sees tokens, not characters: of lexing, only the quoted-field
  matchers are modelled, and what they answer reaches `CsvParse` as the kind of
  token; lexing errors and block comments do not. A number is its spelling and
  its spelling by value.
- An object is the list of its assignments, compared by the properties they
  leave, in order. JavaScript's habit of listing integer-like keys first is left
  out.
- `true`, `false`, `null` under `value: true` behave as the number kind does: a
  value that is no string.
- The stream callback returns or throws; that it changes the options or the
  records it is given is not modelled.
- The shortest digits of a double are taken as given (`strconv`); only their
  layout is modelled. Rust's `key_text` is not.
- Installation is modelled for Go, whose engine runs plugins again; TypeScript
  and Rust install in one pass. The copying of nested option maps
  (`asOptionMap`) is left out, so every option has a value of its own.
- Go's reflection: a part of a value has a kind and parts of its own. Two
  containers are one when they are the same part; that a kind, a pointer and, for a
  slice, a length identify a container (`optionRefOf`, go/csv.go:1160-1179) is taken
  from the code's comments.
- The sites of tokens beyond the cursor's row and column. Two things the matchers
  do are seen in their models and stated as no property, since no documentation
  speaks of them: TypeScript counts the closing quote's column twice, and after
  Go refuses a control character the rows its cursor has passed stay counted.
- Messages and details of errors; reply documents of the C library beyond
  their kind.

## 6. Where the code departs from its documentation

Met while modelling; each has a run whose counterexample shows it.

- `FailureIsAnEvent`: the Go documentation promises `"error"` events to the
  stream callback. The Go plugin never sends one: `Parse` returns the error.
- `ScanEnds`: "every other character is text ... The quote character is set by
  `string.quote`". In Go, a character between the quotes that begins with the
  same byte as the quote but is another (° between « and «) is passed by neither
  loop: the matcher never returns.

More were seen while modelling and have no run of their own; each can be read
off the definition named.

- "Leading and trailing blank lines are always skipped" is also said of
  `record.empty: true`. A leading blank line then becomes an empty record
  (`CsvOpen` with `recordEmpty`).
- "stray quotes in an unquoted field are literal text". A quote after a space
  inside a field opens a quoted string, and the field may be refused
  (`Unexpected` after a string token).
- "a long field costs its length, not its square", of the Rust matcher. The
  window is doubled when it ends in text; when it ends at a quote one character
  more is asked for, and a field of quotes can be scanned again for every
  second character (`QuotedRs`).
- A cyclic option bag is refused, and DIVERGENCE.md:220-222 says so without
  condition; but the mark against a second installation is set before the bag
  is walked, so the same bag given to the same engine again, and any other bag, returns no
  error and installs nothing (`Guard` before `Tag` in `CsvInstall`;
  `RefusalIsClean` holds because of it, and after a second use too).
- The Go documentation names extra columns `field~0`, `field~1`
  (go/doc/concepts.md:134); `Unnamed` in `CsvRows` is what the code does, which
  names them by their index in the row.
- With `number: true` a number followed by a space keeps its source spelling in
  Go where TypeScript spells it by value (`FollowsText`, by `Port`), against
  "Successful parses produce equivalent results across both runtimes".

## 7. Not modelled

- *Non-strict mode*, as a parse. The plugin's alternates stand before those of
  jsonic, and what happens to an embedded value is decided by jsonic's rules, which
  are not in this repository; the engine hooks that strict mode uses can be
  read off the plugin, those rules cannot. The installation of the alternates is
  modelled (`CsvInstall`).
- *Installation in TypeScript and Rust*: one pass, no run within a run, and no
  options whose reading can be refused.
- *`asOptionMap`* (Go): copies nested maps; what matters of it, which
  objects are known and which bag is cyclic, is the walk of `ValueWalk`.
- *`key_text`* (Rust): the same naming as `ColumnNames` for a smaller set of types.
- *Lexing* but for quoted fields: the matchers for text, numbers, spaces and comments are the engine's.
- *Translation parts* (`translate.ts`, `translate.go`): generated constants without control flow.
- *`nocgo.go`*: stubs of a build without C; the embedding scripts, suite tools
  and CI: file input and output at build time.

## 8. Plan

Done, in the order planned: the strict parse and its abstract specification; the C
library; their proofs; the proofs of what is handed out, of the stream protocol
and of Rust's cells; the quoted fields and the proofs for the three matchers; the
installation (`CsvInstall`) and its proofs; the Go and Rust parses (`CsvParseGo`,
`CsvParseRs`); the walks and their proofs; the names of columns and numbers
(`ColumnNames`).

Left, in order of importance:

1. `GoImplementsRecords` and `RsImplementsRecords` for every source: that a slice and a
   cell hold what the array of `CsvParse` holds, so that `RecordsImplemented` carries
   over;
2. the Rust `key_text`, as another reading of `ColumnNames`.
