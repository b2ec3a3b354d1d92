----------------------------- MODULE ColumnNames -----------------------------
(***************************************************************************)
(* How the Go port names the columns of an object record (@record-bc,      *)
(* jsKey and the functions under it in go/csv.go).  A column is named by a *)
(* cell of the header, which outside strict mode is any parsed value, or   *)
(* by an option, which is any Go value; the name is what JavaScript gives  *)
(* that value as a property key.  A value JavaScript cannot name refuses   *)
(* the document, in the middle of a record.                                *)
(***************************************************************************)
EXTENDS Integers, Sequences, SequencesExt, CsvRows

CONSTANTS
  Inputs      \* the field lists with the records they are to name

VARIABLES
  columns,    \* the field list, as Go values
  record,     \* the cells of the line
  tagged,     \* optionObjects: the objects an option supplied
  object,     \* the record's properties so far
  fI,         \* how many columns have been named
  handed,     \* the records handed out
  result      \* "run", "done", or the code the parse fails with

vars == <<columns, record, tagged, object, fI, handed, result>>

Undefined == [go |-> "undefined"]

-----------------------------------------------------------------------------
(* Numbers.  A finite one is 0.d1d2... times ten to the power n, without   *)
(* zeros at either end of its digits.                                      *)

Number(neg, digits, n) == [form |-> "finite", neg |-> neg, digits |-> digits, n |-> n]
Special(form, neg)     == [form |-> form, neg |-> neg, digits |-> <<>>, n |-> 0]
NotANumber             == Special("none", FALSE)

Spelled(digits) == [i \in DOMAIN digits |-> Digit[digits[i] + 1]]
Zeros(count)    == [i \in 1 .. count |-> "0"]

\* Mutant: the exponent form begins at 1e20.
MaxPlainEarly == 20

MaxPlain == 21     \* the largest magnitude spelled without an exponent

\* The four forms of Number::toString.
Body(digits, n) ==
  LET k    == Len(digits)
      text == Spelled(digits)
      e    == n - 1
  IN CASE k <= n /\ n <= MaxPlain          -> text \o Zeros(n - k)
       [] k > n /\ 0 < n /\ n <= MaxPlain -> SubSeq(text, 1, n) \o <<".">> \o SubSeq(text, n + 1, k)
       [] -6 < n /\ n <= 0                -> <<"0", ".">> \o Zeros(-n) \o text
       [] OTHER -> (IF k > 1 THEN <<text[1], ".">> \o Tail(text) ELSE text)
                     \o <<"e", IF e < 0 THEN "-" ELSE "+">> \o Decimal[IF e < 0 THEN -e ELSE e]

Signed(num, text) == IF num.neg THEN <<"-">> \o text ELSE text

JsNumberToString(num) ==
  CASE num.form = "NaN"      -> <<"NaN">>
    [] num.form = "infinity" -> Signed(num, <<"Infinity">>)
    [] num.form = "zero"     -> <<"0">>
    [] OTHER                 -> Signed(num, Body(num.digits, num.n))

-----------------------------------------------------------------------------
(* Keys.  go is the Go type of a value; one that is declared over another  *)
(* keeps its kind only.                                                    *)

NumberTypes == {"float64", "int", "declared number", "json.Number"}
StringTypes == {"string", "declared string", "json.Number"}
BoolTypes   == {"bool", "declared bool"}
SliceTypes  == {"[]any", "[]T"}

\* jsNumber: a json.Number may hold text that is no double.
JsNumber(val) == IF val.go \in NumberTypes THEN val.num ELSE NotANumber

\* Mutant: an element that is nil is named as a cell that is nil.
IsHole(item) == item.go = "undefined"

\* What join leaves out of an array.
LeftOut(item) == item.go \in {"nil", "undefined"}

NoKey == <<"no key">>
RECURSIVE JsKey(_)

\* jsArrayKey: the keys of the items joined by commas.
JsArrayKey(items) ==
  LET part(i) == IF LeftOut(items[i]) THEN <<>> ELSE JsKey(items[i])
  IN IF \E i \in DOMAIN items : part(i) = NoKey THEN NoKey
     ELSE FlattenSeq([i \in DOMAIN items |-> (IF i > 1 THEN <<",">> ELSE <<>>) \o part(i)])

JsKey(val) ==
  CASE val.go = "nil"                   -> <<"null">>
    [] val.go \in SliceTypes            -> JsArrayKey(val.items)
    [] val.go = "*OrderedMap"           -> IF val.id \in tagged THEN <<"[object Object]">> ELSE NoKey
    [] val.go \in {"OrderedMap", "map"} -> <<"[object Object]">>
    [] JsNumber(val) # NotANumber       -> JsNumberToString(JsNumber(val))
    [] val.go \in StringTypes /\ JsNumber(val) = NotANumber -> val.t
    [] val.go \in BoolTypes             -> IF val.b THEN <<"true">> ELSE <<"false">>
    [] OTHER                            -> NoKey

-----------------------------------------------------------------------------
(* The loops of @record-bc under objres.                                   *)

Filled(i) == IF i <= Len(record) /\ record[i] # Undefined THEN record[i] ELSE EmptyCell

Init ==
  /\ \E input \in Inputs :
       columns = input.columns /\ record = input.record /\ tagged = input.tagged
  /\ object = <<>>
  /\ fI = 0
  /\ handed = <<>>
  /\ result = "run"

Named(key) ==
  /\ object' = Assign(object, <<NamedBy([t |-> key]), Filled(fI + 1)>>)
  /\ fI' = fI + 1
  /\ UNCHANGED <<columns, record, tagged, handed, result>>

NameField ==
  /\ result = "run" /\ fI < Len(columns)
  /\ JsKey(columns[fI + 1]) # NoKey
  /\ Named(JsKey(columns[fI + 1]))

\* Mutant: a column that cannot be named is left out.
SkipName ==
  /\ result = "run" /\ fI < Len(columns)
  /\ JsKey(columns[fI + 1]) = NoKey
  /\ fI' = fI + 1
  /\ UNCHANGED <<columns, record, tagged, object, handed, result>>

RefuseName ==
  /\ result = "run" /\ fI < Len(columns)
  /\ JsKey(columns[fI + 1]) = NoKey
  /\ result' = "unexpected"
  /\ UNCHANGED <<columns, record, tagged, object, fI, handed>>

NameExtra ==
  /\ result = "run" /\ fI >= Len(columns) /\ fI < Len(record)
  /\ Named(NoNamePrefix \o Decimal[fI])

HandOut ==
  /\ result = "run" /\ fI >= Len(columns) /\ fI >= Len(record)
  /\ handed' = Append(handed, object)
  /\ result' = "done"
  /\ UNCHANGED <<columns, record, tagged, object, fI>>

Next == NameField \/ RefuseName \/ NameExtra \/ HandOut
Spec == Init /\ [][Next]_vars

-----------------------------------------------------------------------------
(* Properties.                                                             *)

\* What JavaScript has for a Go value.
Meaning(val) ==
  CASE val.go \in SliceTypes -> "array"
    [] val.go \in {"nil", "undefined"} -> val.go
    [] val.go = "*OrderedMap" -> IF val.id \in tagged THEN "object" ELSE "null prototype"
    [] val.go \in {"OrderedMap", "map"} -> "object"
    [] val.go \in NumberTypes /\ val.num # NotANumber -> "number"
    [] val.go \in StringTypes /\ (val.go \in NumberTypes => val.num = NotANumber) -> "string"
    [] val.go \in BoolTypes -> "boolean"
    [] OTHER -> "nothing"

\* The values an array joins: those of the arrays in it, in place.
RECURSIVE Leaves(_)
Leaves(val) ==
  IF Meaning(val) # "array" THEN <<val>>
  ELSE IF val.items = <<>> THEN <<[go |-> "string", t |-> <<>>]>>
  ELSE FlattenSeq([i \in DOMAIN val.items |-> Leaves(val.items[i])])

\* Number::toString, backwards: the number a text is the decimal spelling of.
IndexIn(text, atom) == SelectInSeq(text, LAMBDA other : other = atom)
DigitsOf(text)      == [i \in DOMAIN text |-> IndexIn(Digit, text[i]) - 1]
RECURSIVE ValueIn(_)
ValueIn(digits) == IF digits = <<>> THEN 0 ELSE 10 * ValueIn(Front(digits)) + Last(digits)

Reads(text) ==
  LET neg   == text[1] = "-"
      body  == IF neg THEN Tail(text) ELSE text
      e     == IndexIn(body, "e")
      mant  == IF e = 0 THEN body ELSE SubSeq(body, 1, e - 1)
      exp   == IF e = 0 THEN 0
               ELSE (IF body[e + 1] = "-" THEN -1 ELSE 1)
                      * ValueIn(DigitsOf(SubSeq(body, e + 2, Len(body))))
      dot   == IndexIn(mant, ".")
      whole == IF dot = 0 THEN mant ELSE SubSeq(mant, 1, dot - 1)
      all   == DigitsOf(SelectSeq(mant, LAMBDA atom : atom # "."))
      first == SelectInSeq(all, LAMBDA digit : digit # 0)
      last  == SelectLastInSeq(all, LAMBDA digit : digit # 0)
  IN Number(neg, SubSeq(all, first, last), Len(whole) + exp - (first - 1))

\* The spelling JavaScript gives a number: one that reads back as it, with an
\* exponent outside 1e-6 .. 1e21 only, and no zero that says nothing.
SpellsNumber(text, num) ==
  IF num.form # "finite" THEN text = JsNumberToString(num)
  ELSE LET body  == IF num.neg THEN Tail(text) ELSE text
           e     == IndexIn(body, "e")
           mant  == IF e = 0 THEN body ELSE SubSeq(body, 1, e - 1)
       IN /\ Reads(text) = num
          /\ e # 0 <=> num.n \notin -5 .. 21
          /\ mant[1] = "0" => Len(mant) > 1 /\ mant[2] = "."
          /\ IndexIn(mant, ".") # 0 => Last(mant) \notin {"0", "."}

\* A number that names a column names it as the canonical's String does: the
\* name reads back as that number, at the magnitudes where its form changes too.
NumbersReadBack ==
  result = "done" /\ Len(columns) = 1 /\ Meaning(columns[1]) = "number" =>
    SpellsNumber(object[1][1], columns[1].num)

\* The text of a value that is no array: alone, or between the commas of one.
Primitive(val, alone) ==
  CASE Meaning(val) = "nil"       -> IF alone THEN <<"null">> ELSE <<>>
    [] Meaning(val) = "undefined" -> <<>>
    [] Meaning(val) = "string"    -> val.t
    [] Meaning(val) = "boolean"   -> <<IF val.b THEN "true" ELSE "false">>
    [] Meaning(val) = "number"    -> JsNumberToString(val.num)
    [] OTHER                      -> <<"[object Object]">>

CanBeNamed(val) ==
  \A i \in DOMAIN Leaves(val) : Meaning(Leaves(val)[i]) \notin {"null prototype", "nothing"}

NameOf(i) ==
  IF i > Len(columns) THEN NoNamePrefix \o Decimal[i - 1]
  ELSE LET leaves == Leaves(columns[i])
           text(j) == Primitive(leaves[j], Meaning(columns[i]) # "array")
       IN FlattenSeq([j \in DOMAIN leaves |-> (IF j > 1 THEN <<",">> ELSE <<>>) \o text(j)])

Width == IF Len(columns) > Len(record) THEN Len(columns) ELSE Len(record)

\* A record that is handed out has each column under the name JavaScript gives
\* it, a repeated name at its first column with its last value, whatever route
\* and Go type the value came by.
NamedAsCanonical ==
  \A h \in DOMAIN handed :
    /\ {handed[h][p][1] : p \in DOMAIN handed[h]} = {NameOf(i) : i \in 1 .. Width}
    /\ \A p, q \in DOMAIN handed[h] : p < q =>
         \E i \in 1 .. Width : NameOf(i) = handed[h][p][1]
           /\ \A j \in 1 .. i : NameOf(j) # handed[h][q][1]
    /\ \A p \in DOMAIN handed[h] : \E i \in 1 .. Width :
         /\ NameOf(i) = handed[h][p][1] /\ handed[h][p][2] = Filled(i)
         /\ \A j \in i + 1 .. Width : NameOf(j) # NameOf(i)

\* The document is refused when a column of it has no name, at that column,
\* and never with half a record handed out.
RefusedWithoutARecord ==
  /\ result = "unexpected" => handed = <<>> /\ ~CanBeNamed(columns[fI + 1])
  /\ result = "done" => \A i \in DOMAIN columns : CanBeNamed(columns[i])
=============================================================================
