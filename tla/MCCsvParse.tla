----------------------------- MODULE MCCsvParse -----------------------------
(***************************************************************************)
(* Small instances of CsvParse.  Each source is a sequence of tokens the   *)
(* lexer can deliver; each run picks an alphabet, a length and the options *)
(* its question is about.                                                  *)
(***************************************************************************)
EXTENDS CsvParse

CONSTANTS MaxText, MaxRows, MaxNames, MaxStream   \* the longest sources of each family

MCAtom == {"a", "b", "c", "q", "1e2", "100", " ", ",", "\n", "~", "1"}

MCNoNamePrefix == <<"~">>

\* field.empty: a value of its own, so that it is never mistaken for a text
MCEmptyCell == [k |-> "empty", t |-> <<>>]

Lit(kind, atom) == [k |-> kind, src |-> <<atom>>, val |-> <<atom>>]
TxtA  == Lit("TX", "a")
TxtB  == Lit("TX", "b")
\* a cell spelled like a generated name
TxtNN == [k |-> "TX", src |-> <<"~", "1">>, val |-> <<"~", "1">>]
Space == Lit("SP", " ")
Comma == Lit("CA", ",")
Line  == Lit("LN", "\n")
Quoted  == [k |-> "ST", src |-> <<"q", "c", "q">>, val |-> <<"c">>]
Quoted100 == [k |-> "ST", src |-> <<"q", "100", "q">>, val |-> <<"100">>]
Number  == [k |-> "NR", src |-> <<"1e2">>, val |-> <<"100">>]

\* The lexer's cuts: a run of spaces is one token; a text or a number runs to
\* the next space, separator or line end; only a quoted string can be followed
\* at once by text, and not by another quoted string, whose quote would have
\* been an escape.
Deliverable(s) ==
  \A i \in 1 .. Len(s) - 1 :
    /\ ~(s[i].k = "SP" /\ s[i + 1].k = "SP")
    /\ s[i].k \in VAL /\ s[i + 1].k \in VAL => s[i].k = "ST" /\ s[i + 1].k # "ST"

Setting(header, object, exact, empty, trim, stream, names) ==
  [header |-> header, object |-> object, exact |-> exact, empty |-> empty,
   trim |-> trim, stream |-> stream, names |-> names]

NameLists == {NoNames, <<Text(<<"a">>), Text(<<"b">>)>>, <<>>}

Family(alphabet, max, settings) ==
  {input \in [src : UNION {[1 .. n -> alphabet] : n \in 0 .. max}, opts : settings] :
     Deliverable(input.src)}

\* How the tokens of a field become its value.
TextInputs ==
  Family({TxtA, Quoted, Number, Space, Comma, Line}, MaxText,
         {Setting(FALSE, FALSE, FALSE, FALSE, trim, FALSE, NoNames) : trim \in BOOLEAN})

\* How lines become records.
RowInputs ==
  Family({TxtA, Comma, Line}, MaxRows,
         {Setting(h, o, x, e, FALSE, FALSE, ns) :
            h \in BOOLEAN, o \in BOOLEAN, x \in BOOLEAN, e \in BOOLEAN, ns \in NameLists})

\* How columns that share a name become one property.
NameInputs ==
  Family({TxtA, TxtNN, Comma, Line}, MaxNames,
         {Setting(TRUE, TRUE, FALSE, FALSE, FALSE, FALSE, NoNames)})

\* Streamed, or not, and failing: by a quoted string that text follows, or by
\* a line of the wrong width.
StreamInputs ==
  Family({TxtA, Quoted, Comma, Line}, MaxStream,
         {Setting(h, o, x, e, FALSE, s, NoNames) :
            h \in BOOLEAN, o \in BOOLEAN, x \in BOOLEAN, e \in BOOLEAN, s \in BOOLEAN})

ParseInputs == TextInputs \union RowInputs \union NameInputs \union StreamInputs
=============================================================================
