----------------------------- MODULE CsvRecords -----------------------------
(***************************************************************************)
(* What a strict-mode parse promises, without a grammar: the source is cut *)
(* at line ends, a line at separators, and the parse hands out one record  *)
(* for every line but the header, in order, until it reaches the end or a  *)
(* line it must refuse.                                                    *)
(***************************************************************************)
EXTENDS Naturals, Sequences, FiniteSets, CsvRows

CONSTANTS
  Port,     \* the runtime: Go spells a number that begins a text as it is written
  Inputs    \* the sources a parse may be given, each with option settings

VARIABLES
  opts,     \* the option settings
  src,      \* the tokens of the source
  line,     \* how many lines have been read
  rows,     \* the records handed out
  result    \* "run", "done" or the code of the error that ended the parse

absVars == <<opts, src, line, rows, result>>

-----------------------------------------------------------------------------
(* Lines and fields, by the places in the source where they start.         *)

\* The first place from i on with a token of one of the kinds, else the place
\* after the source.
Until(i, kinds) ==
  CHOOSE e \in i .. Len(src) + 1 :
    /\ e = Len(src) + 1 \/ src[e].k \in kinds
    /\ \A j \in i .. e - 1 : src[j].k \notin kinds

\* A line starts where the source does and after a line end, unless that ends
\* the source; blank lines count only when record.empty keeps them.
LineStarts ==
  {s \in DOMAIN src : /\ s = 1 \/ src[s - 1].k = "LN"
                      /\ opts.empty \/ src[s].k # "LN"}

LineCount    == Cardinality(LineStarts)
LineStart(n) == Nth(LineStarts, n)
LineEnd(s)   == Until(s, {"LN"})

\* A line that is not blank has a field where it starts and after each
\* separator.
FieldStarts(s) ==
  IF LineEnd(s) = s THEN {}
  ELSE {f \in s .. LineEnd(s) : f = s \/ src[f - 1].k = "CA"}

FieldAt(f)  == SubSeq(src, f, Until(f, {"CA", "LN"}) - 1)
FieldsOf(s) == [n \in 1 .. Cardinality(FieldStarts(s)) |-> FieldAt(Nth(FieldStarts(s), n))]

\* Text may run on after a quoted string only past a space, and only as far
\* as the next space.
WellFormed(field) ==
  \A i \in 1 .. Len(field) - 1 :
    field[i].k \in VAL /\ field[i + 1].k \in VAL =>
      i >= 2 /\ i + 2 <= Len(field) /\ field[i + 2].k = "SP"

\* What a token adds to the text of its field: outer space only when it is
\* kept, a value by its value where a field or a run of text begins and as it
\* is written after a space.
AsWritten(field, i) ==
  \/ i > 1 /\ field[i - 1].k = "SP"
  \/ Port = "go" /\ field[i].k # "ST"

Piece(field, i) ==
  IF field[i].k = "SP"
  THEN IF opts.trim /\ i \in {1, Len(field)} THEN <<>> ELSE field[i].src
  ELSE IF AsWritten(field, i) THEN field[i].src ELSE field[i].val

FieldText(field) ==
  LET text[i \in 0 .. Len(field)] == IF i = 0 THEN <<>> ELSE text[i - 1] \o Piece(field, i)
  IN text[Len(field)]

CellOf(field) ==
  CASE field = <<>> -> EmptyCell
    [] Len(field) = 1 /\ field[1].k = "NR" -> Num(field[1].val)
    [] OTHER -> Text(FieldText(field))

CellsOf(s) == [n \in DOMAIN FieldsOf(s) |-> CellOf(FieldsOf(s)[n])]

-----------------------------------------------------------------------------
(* Records.                                                                *)

NameList ==
  IF opts.header THEN IF LineCount = 0 THEN <<>> ELSE CellsOf(LineStart(1))
  ELSE IF opts.names # NoNames THEN opts.names ELSE <<>>

NamesKnown == opts.header \/ opts.names # NoNames

\* Columns that share a name are one property, placed where the name is first
\* used and holding the last column's value.
ObjectOf(cells, names) ==
  LET width    == IF Len(cells) > Len(names) THEN Len(cells) ELSE Len(names)
      name(i)  == IF i <= Len(names) THEN names[i].t
                                     ELSE NoNamePrefix \o Decimal[i - 1]
      firsts   == {i \in 1 .. width : \A j \in 1 .. i - 1 : name(j) # name(i)}
      last(i)  == CHOOSE j \in 1 .. width :
                    /\ name(j) = name(i)
                    /\ \A m \in j + 1 .. width : name(m) # name(i)
  IN [p \in 1 .. Cardinality(firsts) |->
        <<name(Nth(firsts, p)), CellAt(cells, last(Nth(firsts, p)))>>]

RecordOf(s) ==
  IF opts.object
  THEN [k |-> "object", properties |-> ObjectOf(CellsOf(s), NameList)]
  ELSE [k |-> "array", cells |-> CellsOf(s)]

WrongWidth(s) ==
  NamesKnown /\ opts.exact /\ Len(CellsOf(s)) # Len(NameList)

WidthError(s) ==
  IF Len(CellsOf(s)) > Len(NameList) THEN "csv_extra_field" ELSE "csv_missing_field"

-----------------------------------------------------------------------------

Init ==
  /\ [src |-> src, opts |-> opts] \in Inputs
  /\ line = 0
  /\ rows = <<>>
  /\ result = "run"

NextLine == LineStart(line + 1)
Readable == /\ line < LineCount
            /\ \A i \in DOMAIN FieldsOf(NextLine) : WellFormed(FieldsOf(NextLine)[i])
AtHeader == line = 0 /\ opts.header

\* A step reads one line, or ends the parse.
Reading == result = "run" /\ line' = line + 1 /\ UNCHANGED <<opts, src, result>>
Ending  == result = "run" /\ result' # "run" /\ UNCHANGED <<opts, src, line, rows>>

ReadHeader ==
  /\ Reading
  /\ Readable /\ AtHeader
  /\ rows' = rows

ReadRecord ==
  /\ Reading
  /\ Readable /\ ~AtHeader /\ ~WrongWidth(NextLine)
  /\ rows' = Append(rows, RecordOf(NextLine))

RefuseWidth ==
  /\ Ending
  /\ Readable /\ ~AtHeader /\ WrongWidth(NextLine)
  /\ result' = WidthError(NextLine)

RefuseLine ==
  /\ Ending
  /\ line < LineCount /\ ~Readable
  /\ result' = "unexpected"

Finish ==
  /\ Ending
  /\ line = LineCount
  /\ result' = "done"

\* The stream callback ends the parse: on the start, on a record it has been
\* handed, or on the end.
Interrupt ==
  /\ result = "run" /\ result' = "thrown" /\ UNCHANGED <<opts, src, line>>
  /\ opts.stream
  /\ \/ /\ rows' = rows
        /\ line \in {0, LineCount}
     \/ /\ rows' # rows
        /\ Readable /\ ~AtHeader /\ ~WrongWidth(NextLine)
        /\ rows' = Append(rows, RecordOf(NextLine))

Next == Interrupt \/ ReadHeader \/ ReadRecord \/ RefuseWidth \/ RefuseLine \/ Finish

Spec == Init /\ [][Next]_absVars
=============================================================================
