------------------------------ MODULE CsvParse ------------------------------
(***************************************************************************)
(* One strict-mode parse: the engine's rule machine driving the CSV        *)
(* grammar of CsvGrammar and the plugin's callbacks.                       *)
(*                                                                         *)
(* The engine keeps a stack of rule instances.  It works on the top one:   *)
(* before-open callback, open alternates, before-close callback, close     *)
(* alternates, where an alternate may push a child, replace the instance,  *)
(* or let it end.  The callbacks build the result out of arrays that are   *)
(* shared by reference: heap[1] is the document, every later array holds   *)
(* the cells of one line.                                                  *)
(***************************************************************************)
EXTENDS Naturals, Sequences, SequencesExt, CsvGrammar, CsvRows

CONSTANTS
  Port,      \* "ts", "go" or "rs": the runtime
  Inputs     \* the token sequences a parse may be given, each with the option
             \* settings the plugin is installed with

VARIABLES
  opts,      \* the plugin's normalised options
  src,       \* the tokens of the source, comments already ignored
  pos,       \* index of the next token (ctx.t0)
  stack,     \* the rule instances, the running one last
  heap,      \* the arrays allocated so far
  fields,    \* ctx.u.fields: a reference, or 0
  recordI,   \* ctx.u.recordI
  events,    \* what the stream callback has been called with
  outcome    \* how the parse ended: its error code, "done", or "run"

vars == <<opts, src, pos, stack, heap, fields, recordI, events, outcome>>

ASSUME PortAssumption   == Port \in {"ts", "go", "rs"}
Options == [header : BOOLEAN, object : BOOLEAN, exact : BOOLEAN,
            empty : BOOLEAN, trim : BOOLEAN, stream : BOOLEAN,
            names : Seq(Cell) \union {NoNames}]

ASSUME InputAssumption == Inputs \subseteq [src : Seq(Token), opts : Options]

\* What the lexer delivers: a run of spaces is one token, a text is its own
\* source, and the end of the source is no token of it.
Lexed(tokens) ==
  \A i \in DOMAIN tokens :
    /\ tokens[i].k # "ZZ"
    /\ tokens[i].k = "TX" => tokens[i].val = tokens[i].src
    /\ tokens[i].k = "SP" /\ i < Len(tokens) => tokens[i + 1].k # "SP"

ASSUME LexerAssumption == \A input \in Inputs : Lexed(input.src)

-----------------------------------------------------------------------------
(* Rule instances.                                                         *)

Undef  == [k |-> "undef"]
Ref(a) == [k |-> "ref", a |-> a]
Node   == {Undef} \union Cell \union [k : {"ref"}, a : Nat]

NoToken == EndOfSource   \* r.o0 while no open token has been matched

Phase == {"bo", "open", "bc", "close"}

Frame == [rule   : Rules,
          at     : Phase,
          node   : Node,       \* r.node
          kid    : Node,       \* r.child.node
          n      : Nat,        \* r.n.text
          done   : BOOLEAN,    \* r.u.done
          o0     : Token,      \* r.o0, when r.os is not 0
          pushed : BOOLEAN]    \* the instance its parent pushed, not one
                               \* that replaced it

HasBO == {"csv", "list", "val"}
HasBC == {"record", "elem", "val", "text"}

FirstPhase(rule) == IF rule \in HasBO THEN "bo" ELSE "open"
AfterOpen(rule)  == IF rule \in HasBC THEN "bc" ELSE "close"

NewFrame(rule, node, n, pushed) ==
  [rule |-> rule, at |-> FirstPhase(rule), node |-> node, kid |-> Undef, n |-> n,
   done |-> FALSE, o0 |-> NoToken, pushed |-> pushed]

Depth == Len(stack)
Top   == stack[Depth]

\* The token i places ahead; the end of the source repeats.
Tok(i) == IF pos + i - 1 <= Len(src) THEN src[pos + i - 1] ELSE EndOfSource

Matches(alt) == \A i \in DOMAIN alt.s : Tok(i).k \in alt.s[i]

\* The engine takes the first alternate that matches.
IsFirstMatch(alts, i) == Matches(alts[i]) /\ \A j \in 1 .. i - 1 : ~Matches(alts[j])

Running(phase) == outcome = "run" /\ Top.at = phase

Advance(frame, phase) == [stack EXCEPT ![Depth] = [frame EXCEPT !.at = phase]]

-----------------------------------------------------------------------------
(* The callbacks of csv and list.                                          *)

Emit(event) == IF opts.stream THEN Append(events, event) ELSE events

\* @csv-bo
CsvBO ==
  /\ Running("bo") /\ Top.rule = "csv"
  /\ recordI' = 0
  /\ events' = Emit([ev |-> "start"])
  /\ heap' = Append(heap, <<>>)
  /\ stack' = Advance([Top EXCEPT !.node = Ref(Len(heap) + 1)], "open")
  /\ UNCHANGED <<opts, src, pos, fields, outcome>>

\* Mutant: list keeps the array it is seeded with.
ListBOInherits ==
  /\ Running("bo") /\ Top.rule = "list"
  /\ stack' = Advance(Top, "open")
  /\ UNCHANGED <<opts, src, pos, heap, fields, recordI, events, outcome>>

\* Mutant: one array serves every line.
ListBOReuses ==
  /\ Running("bo") /\ Top.rule = "list"
  /\ heap' = IF Len(heap) = 1 THEN Append(heap, <<>>) ELSE [heap EXCEPT ![2] = <<>>]
  /\ stack' = Advance([Top EXCEPT !.node = Ref(2)], "open")
  /\ UNCHANGED <<opts, src, pos, fields, recordI, events, outcome>>

\* list allocates its own array, in place of the one its parent seeded it with
ListBO ==
  /\ Running("bo") /\ Top.rule = "list"
  /\ heap' = Append(heap, <<>>)
  /\ stack' = Advance([Top EXCEPT !.node = Ref(Len(heap) + 1)], "open")
  /\ UNCHANGED <<opts, src, pos, fields, recordI, events, outcome>>

\* val forgets the array its parent seeded it with
ValBO ==
  /\ Running("bo") /\ Top.rule = "val"
  /\ stack' = Advance([Top EXCEPT !.node = Undef], "open")
  /\ UNCHANGED <<opts, src, pos, heap, fields, recordI, events, outcome>>

-----------------------------------------------------------------------------
(* The before-close callbacks.                                             *)

PushCell(cell) == [heap EXCEPT ![Top.node.a] = Append(@, cell)]

\* A matched token as a value.  Only the tokens of VAL carry one.
ResolveVal(tok) ==
  CASE tok.k \in {"TX", "ST"} -> Text(tok.val)
    [] tok.k = "NR"           -> Num(tok.val)
    [] OTHER                  -> Undef

TextBC ==
  /\ Running("bc") /\ Top.rule = "text"
  /\ LET value == IF Top.kid = Undef THEN Top.node ELSE Top.kid
     IN stack' = [Advance(Top, "close") EXCEPT ![Depth - 1].node = value]
  /\ UNCHANGED <<opts, src, pos, heap, fields, recordI, events, outcome>>

\* A child's text wins, else the matched token's value, else nothing.
ValBC ==
  /\ Running("bc") /\ Top.rule = "val"
  /\ LET value == IF Top.node # Undef      THEN Top.node
                  ELSE IF Top.kid # Undef  THEN Top.kid
                  ELSE IF Top.o0 # NoToken THEN ResolveVal(Top.o0)
                  ELSE Undef
     IN stack' = Advance([Top EXCEPT !.node = value], "close")
  /\ UNCHANGED <<opts, src, pos, heap, fields, recordI, events, outcome>>

\* Mutant: pushes without looking at done or at the child.
ElemBCAlways ==
  /\ Running("bc") /\ Top.rule = "elem"
  /\ heap' = PushCell(Top.kid)
  /\ stack' = Advance(Top, "close")
  /\ UNCHANGED <<opts, src, pos, fields, recordI, events, outcome>>

ElemBC ==
  /\ Running("bc") /\ Top.rule = "elem"
  /\ heap' = IF ~Top.done /\ Top.kid # Undef THEN PushCell(Top.kid) ELSE heap
  /\ stack' = Advance(Top, "close")
  /\ UNCHANGED <<opts, src, pos, fields, recordI, events, outcome>>

-----------------------------------------------------------------------------
(* @record-bc: the header row names the columns; every later row is        *)
(* checked, shaped, and streamed or collected.                             *)

HasFields == fields # 0 \/ opts.names # NoNames
FieldList == IF fields # 0 THEN heap[fields]
             ELSE IF opts.names # NoNames THEN opts.names ELSE <<>>
Record    == heap[Top.kid.a]
IsHeader  == recordI = 0 /\ opts.header

\* Mutant: only object records are counted.
WrongCountOfObjects ==
  HasFields /\ opts.exact /\ opts.object /\ Len(Record) # Len(FieldList)

WrongCount == HasFields /\ opts.exact /\ Len(Record) # Len(FieldList)
CountError == IF Len(Record) > Len(FieldList) THEN "csv_extra_field"
                                              ELSE "csv_missing_field"

Shaped == IF opts.object THEN ObjectRow(Assignments(Record, FieldList))
                         ELSE ArrayRow(Top.kid.a)

\* Mutant: the wrapper is not installed.
ErrorEventsNever(code) == events

\* The wrapper around parser.start in ts/src/csv.ts turns an error into an
\* event; the other ports return the error and install no such wrapper.
ErrorEvents(code) ==
  IF opts.stream /\ Port = "ts" THEN Append(events, [ev |-> "error", code |-> code])
                                ELSE events

Fail(code) ==
  /\ outcome' = code
  /\ events' = ErrorEvents(code)
  /\ UNCHANGED <<opts, src, pos, stack, heap, fields, recordI>>

RecordHeader ==
  /\ Running("bc") /\ Top.rule = "record" /\ IsHeader
  /\ fields' = Top.kid.a
  /\ recordI' = recordI + 1
  /\ stack' = Advance(Top, "close")
  /\ UNCHANGED <<opts, src, pos, heap, events, outcome>>

RecordRefused ==
  /\ Running("bc") /\ Top.rule = "record" /\ ~IsHeader /\ WrongCount
  /\ Fail(CountError)

RecordRow ==
  /\ Running("bc") /\ Top.rule = "record" /\ ~IsHeader /\ ~WrongCount
  /\ IF opts.stream
     THEN /\ events' = Append(events, [ev |-> "record", row |-> Shaped])
          /\ heap' = heap
     ELSE /\ heap' = [heap EXCEPT ![Top.node.a] = Append(@, Shaped)]
          /\ events' = events
  /\ recordI' = recordI + 1
  /\ stack' = Advance(Top, "close")
  /\ UNCHANGED <<opts, src, pos, fields, outcome>>

-----------------------------------------------------------------------------
(* The alternates' actions.                                                *)

TextActions  == {"text-follows", "text-leads", "text-end", "text-space"}
EmptyActions == {"elem-open-empty", "elem-close-trailing"}

\* The Go port joins the source of a token that is no quoted string; the
\* others join its value.
FollowsText(tok) == IF Port = "go" /\ tok.k # "ST" THEN tok.src ELSE tok.val

\* Mutant: the leading space is never trimmed.
TextPieceLeading(action, n) ==
  CASE action = "text-follows" -> FollowsText(Tok(1))
    [] action = "text-leads"   -> Tok(1).src \o Tok(2).src
    [] OTHER                   -> IF opts.trim THEN <<>> ELSE Tok(1).src

\* What a text action adds to the text: leading and trailing space only when
\* it is not trimmed, inner space always.
TextPiece(action, n) ==
  CASE action = "text-follows" -> FollowsText(Tok(1))
    [] action = "text-leads"   -> (IF n >= 2 \/ ~opts.trim THEN Tok(1).src ELSE <<>>)
                                    \o Tok(2).src
    [] OTHER                   -> IF opts.trim THEN <<>> ELSE Tok(1).src

\* The first rule of a chain starts a text; the others go on with the text of
\* the rule they replaced, which they were seeded with.
JoinedText(action, n) ==
  Text((IF n = 1 THEN <<>> ELSE Top.node.t) \o TextPiece(action, n))

\* The running instance after an alternate's count and action.
Acted(alt) ==
  LET n == Top.n + alt.n
  IN [Top EXCEPT !.n    = n,
                 !.o0   = IF alt.s = <<>> THEN NoToken ELSE Tok(1),
                 !.done = @ \/ alt.a = "elem-open-empty",
                 !.node = IF alt.a \in TextActions THEN JoinedText(alt.a, n) ELSE @]

\* The instance below keeps seeing its child's node: the instance it pushed,
\* whose node the second rule of a text chain also assigns.
Seen(alt, left) ==
  LET frame == Acted(alt)
  IN IF Depth > 1 /\ \/ left /\ frame.pushed
                     \/ alt.a \in TextActions /\ frame.n = 2
     THEN [stack EXCEPT ![Depth - 1].kid = frame.node]
     ELSE stack

Consumed(alt)   == pos + Len(alt.s) - alt.b
HeapAfter(alt)  == IF alt.a \in EmptyActions THEN PushCell(EmptyCell) ELSE heap

Take(alt) ==
  /\ pos' = Consumed(alt)
  /\ heap' = HeapAfter(alt)
  /\ UNCHANGED <<opts, src, fields, recordI>>

Replaced(alt) ==
  [Seen(alt, TRUE) EXCEPT ![Depth] = NewFrame(alt.r, Acted(alt).node, Acted(alt).n, FALSE)]

Choose(alts, alt) == \E i \in DOMAIN alts : alt = alts[i] /\ IsFirstMatch(alts, i)

TopOpenAlts  == OpenAlts(Top.rule, opts.empty)
TopCloseAlts == CloseAlts(Top.rule, opts.empty)
AltsOf(alts) == {alts[i] : i \in DOMAIN alts}

OpenPush ==
  /\ Running("open")
  /\ \E alt \in AltsOf(TopOpenAlts) :
       /\ Choose(TopOpenAlts, alt) /\ alt.p # ""
       /\ Take(alt)
       /\ stack' = Append([Seen(alt, FALSE) EXCEPT
                             ![Depth] = [Acted(alt) EXCEPT !.at = AfterOpen(Top.rule)]],
                          NewFrame(alt.p, Acted(alt).node, Acted(alt).n, TRUE))
  /\ UNCHANGED <<events, outcome>>

OpenReplace ==
  /\ Running("open")
  /\ \E alt \in AltsOf(TopOpenAlts) :
       /\ Choose(TopOpenAlts, alt) /\ alt.r # ""
       /\ Take(alt)
       /\ stack' = Replaced(alt)
  /\ UNCHANGED <<events, outcome>>

OpenStay ==
  /\ Running("open")
  /\ \E alt \in AltsOf(TopOpenAlts) :
       /\ Choose(TopOpenAlts, alt) /\ alt.p = "" /\ alt.r = ""
       /\ Take(alt)
       /\ stack' = [Seen(alt, FALSE) EXCEPT
                      ![Depth] = [Acted(alt) EXCEPT !.at = AfterOpen(Top.rule)]]
  /\ UNCHANGED <<events, outcome>>

CloseReplace ==
  /\ Running("close")
  /\ \E alt \in AltsOf(TopCloseAlts) :
       /\ Choose(TopCloseAlts, alt) /\ alt.r # ""
       /\ Take(alt)
       /\ stack' = Replaced(alt)
  /\ UNCHANGED <<events, outcome>>

ClosePop ==
  /\ Running("close") /\ Depth > 1
  /\ \E alt \in AltsOf(TopCloseAlts) :
       /\ Choose(TopCloseAlts, alt) /\ alt.r = ""
       /\ Take(alt)
       /\ stack' = SubSeq(Seen(alt, TRUE), 1, Depth - 1)
  /\ UNCHANGED <<events, outcome>>

\* The csv rule ends the parse; @csv-ac reports the end.
CsvClose ==
  /\ Running("close") /\ Depth = 1
  /\ events' = Emit([ev |-> "end"])
  /\ outcome' = "done"
  /\ UNCHANGED <<opts, src, pos, stack, heap, fields, recordI>>

\* The stream callback throws on the event it is called with.  Where the
\* wrapper is installed it catches that too, and calls the callback again; it
\* does not catch what that last call throws.
Thrown(event) ==
  /\ outcome' = "thrown"
  /\ events' = IF Port = "ts" THEN events \o <<event, [ev |-> "error", code |-> "thrown"]>>
                               ELSE Append(events, event)
  /\ UNCHANGED <<opts, src, pos, stack, heap, fields>>

CallbackThrows ==
  /\ opts.stream
  /\ \/ /\ Running("bo") /\ Top.rule = "csv"
        /\ Thrown([ev |-> "start"])
        /\ recordI' = 0
     \/ /\ Running("bc") /\ Top.rule = "record" /\ ~IsHeader /\ ~WrongCount
        /\ Thrown([ev |-> "record", row |-> Shaped])
        /\ recordI' = recordI
     \/ /\ Running("close") /\ Depth = 1
        /\ Thrown([ev |-> "end"])
        /\ recordI' = recordI

NoMatch(alts) == \A i \in DOMAIN alts : ~Matches(alts[i])

\* No alternate matches: the engine refuses the token.
Unexpected ==
  /\ \/ Running("open") /\ NoMatch(TopOpenAlts)
     \/ Running("close") /\ NoMatch(TopCloseAlts)
  /\ Fail("unexpected")

-----------------------------------------------------------------------------

Init ==
  /\ \E input \in Inputs : opts = input.opts /\ src = input.src
  /\ pos = 1
  /\ stack = <<NewFrame("csv", Undef, 0, FALSE)>>
  /\ heap = <<>>
  /\ fields = 0
  /\ recordI = 0
  /\ events = <<>>
  /\ outcome = "run"

RecordBC == RecordHeader \/ RecordRefused \/ RecordRow

Step ==
  \/ CsvBO \/ ListBO \/ ValBO
  \/ TextBC \/ ValBC \/ ElemBC \/ RecordBC
  \/ OpenPush \/ OpenReplace \/ OpenStay
  \/ CloseReplace \/ ClosePop \/ CsvClose
  \/ CallbackThrows \/ Unexpected

\* The parse has returned.
Returned == outcome # "run" /\ UNCHANGED vars

Next == Step \/ Returned

Spec     == Init /\ [][Next]_vars
FairSpec == Spec /\ WF_vars(Step)

-----------------------------------------------------------------------------
(* Properties.                                                             *)

Codes == {"unexpected", "csv_extra_field", "csv_missing_field", "thrown"}
Event == [ev : {"start", "end"}] \union [ev : {"record"}, row : Row]
           \union [ev : {"error"}, code : Codes]

\* The records handed out so far, to the callback or in the document, at the
\* places they were handed out.
RowPlaces ==
  IF opts.stream THEN {i \in DOMAIN events : events[i].ev = "record"}
  ELSE IF heap = <<>> THEN {} ELSE DOMAIN heap[1]

RowAt(i) == IF opts.stream THEN events[i].row ELSE heap[1][i]

\* The same as one sequence.
Handed == [n \in 1 .. Cardinality(RowPlaces) |-> RowAt(Nth(RowPlaces, n))]

\* Every variable has the type its declaration says.
TypeOK ==
  /\ opts \in Options
  /\ src \in Seq(Token)
  /\ pos \in Nat \ {0}
  /\ stack \in Seq(Frame) /\ stack # <<>>
  /\ heap \in Seq(Seq(Cell \union Row))
  /\ fields \in Nat
  /\ recordI \in Nat
  /\ events \in Seq(Event)
  /\ outcome \in {"run", "done"} \union Codes

\* The comment above the strict rules of ts/src/csv.ts: were list not to
\* allocate its own array, cells would be pushed onto the document it is
\* seeded with.  The document holds records only, and the array of a line
\* cells only.
NoLeak ==
  \A a \in DOMAIN heap : \A i \in DOMAIN heap[a] :
    heap[a][i] \in (IF a = 1 THEN Row ELSE Cell)

\* No two records share an array, and none is the document's or the header's:
\* a caller may change one record without changing another.
RowsAreSeparate ==
  \A i, j \in RowPlaces :
    RowAt(i).k = "array" =>
      /\ RowAt(i).a \notin {1, fields}
      /\ i # j => RowAt(j) # RowAt(i)

\* A record the callback has seen, or the document holds, is finished: no
\* later step of the parse changes its cells, nor those of the header.
Final(a) == a = fields \/ \E i \in RowPlaces : RowAt(i) = ArrayRow(a)

HandedIsFinal == [][\A a \in DOMAIN heap : Final(a) => heap'[a] = heap[a]]_vars

\* The streaming protocol of ts/src/csv.ts: "start" first and once; "end"
\* when the parse comes to its end, and nothing after it unless the callback
\* throws on it; an error last, exactly when the parse fails; one record for
\* each line read but the header, and for the one the callback threw on; and
\* nothing collected.
HeardEnd    == \E i \in DOMAIN events : events[i].ev = "end"
ThrewOn(ev) == outcome = "thrown" /\ events[Len(events) - 1].ev = ev

StreamProtocol ==
  IF ~opts.stream THEN events = <<>>
  ELSE /\ \A i \in DOMAIN events :
            /\ events[i].ev = "start" <=> i = 1
            /\ events[i].ev = "end" => i = IF ThrewOn("end") THEN Len(events) - 1
                                                            ELSE Len(events)
            /\ events[i].ev = "error" => i = Len(events)
       /\ HeardEnd <=> outcome = "done" \/ ThrewOn("end")
       /\ outcome \in Codes <=> events # <<>> /\ Last(events).ev = "error"
       /\ Cardinality(RowPlaces) = (IF opts.header /\ recordI > 0 THEN recordI - 1 ELSE recordI)
                                     + (IF ThrewOn("record") THEN 1 ELSE 0)
       /\ heap # <<>> => heap[1] = <<>>

\* Under field.exact every record handed out has the columns of the known
\* field list, neither fewer nor more, whatever its shape.
ExactRows ==
  opts.exact /\ HasFields =>
    \A i \in RowPlaces :
      IF RowAt(i).k = "array"
      THEN Len(heap[RowAt(i).a]) = Len(FieldList)
      ELSE /\ Len(RowAt(i).o) = Len(FieldList)
           /\ \A j \in DOMAIN FieldList : RowAt(i).o[j][1] = NamedBy(FieldList[j])

\* Every parse returns: no cycle of pushes and replacements that reads
\* nothing.
Terminates == <>(outcome # "run")

\* The parse implements CsvRecords: records by value, in order, up to the
\* first line that must be refused, with the code that line calls for.
RowValue(row) ==
  IF row.k = "array" THEN [k |-> "array", cells |-> heap[row.a]]
                     ELSE [k |-> "object", properties |-> Properties(row.o)]

Doc == INSTANCE CsvRecords
         WITH line   <- recordI,
              rows   <- [i \in DOMAIN Handed |-> RowValue(Handed[i])],
              result <- outcome

ImplementsRecords == Doc!Spec
=============================================================================
