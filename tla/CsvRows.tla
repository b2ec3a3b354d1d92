------------------------------- MODULE CsvRows -------------------------------
(***************************************************************************)
(* The values of a strict-mode parse: tokens, cells and the records the    *)
(* record rule shapes from the cells of a line.  A text is a sequence of   *)
(* atoms, so that joining two texts is \o and two texts that are spelled   *)
(* alike are equal.                                                        *)
(***************************************************************************)
EXTENDS Naturals, Sequences, FiniteSets, CsvGrammar

CONSTANTS
  Atom,           \* the smallest pieces of text told apart
  EmptyCell,      \* options.field.empty
  NoNames,        \* options.field.names when it is null
  NoNamePrefix    \* options.field.nonameprefix

Texts == Seq(Atom)
Token == [k : Kind, src : Texts, val : Texts]
EndOfSource == [k |-> "ZZ", src |-> <<>>, val |-> <<>>]

\* A field value: a string, a value that is no string (its t is how it is
\* spelled when it is joined to a text or names a column), or field.empty.
Cell    == [k : {"text", "num", "empty"}, t : Texts]
Text(t) == [k |-> "text", t |-> t]
Num(t)  == [k |-> "num", t |-> t]

ASSUME EmptyCellAssumption == EmptyCell \in Cell

\* The n-th smallest member of a set of numbers.
Nth(S, n) == CHOOSE x \in S : Cardinality({y \in S : y < x}) = n - 1

-----------------------------------------------------------------------------
(* Objects.  An object is kept as the property assignments that built it,  *)
(* in order; Properties is the value they leave.                           *)

\* A column is named by a cell, or by its index when no field names it.
ColumnName     == [by : {"cell"}, t : Texts] \union [by : {"index"}, i : Nat]
NamedBy(cell)  == [by |-> "cell", t |-> cell.t]
Unnamed(index) == [by |-> "index", i |-> index]

\* record[i], with field.empty where the record has no such cell
CellAt(cells, i) == IF i <= Len(cells) THEN cells[i] ELSE EmptyCell

\* The two loops of @record-bc: an assignment for every known field, then one
\* for every cell beyond them.
Assignments(cells, fields) ==
  LET extra == IF Len(cells) > Len(fields) THEN Len(cells) - Len(fields) ELSE 0
  IN [i \in 1 .. Len(fields) |-> <<NamedBy(fields[i]), CellAt(cells, i)>>]
       \o [j \in 1 .. extra |->
             <<Unnamed(Len(fields) + j - 1), cells[Len(fields) + j]>>]

Digit == <<"0", "1", "2", "3", "4", "5", "6", "7", "8", "9">>
Decimal[n \in Nat] ==
  IF n < 10 THEN <<Digit[n + 1]>> ELSE Append(Decimal[n \div 10], Digit[(n % 10) + 1])

\* obj[cell] = ... applies ToPropertyKey; the others are nonameprefix + index
Key(name) == IF name.by = "cell" THEN name.t ELSE NoNamePrefix \o Decimal[name.i]

\* Mutant: a repeated name keeps its first value.
AssignFirst(object, assignment) ==
  LET pair == <<Key(assignment[1]), assignment[2]>>
  IN IF \E i \in DOMAIN object : object[i][1] = pair[1] THEN object ELSE Append(object, pair)

\* A repeated name keeps its first place and takes the last value.
Assign(object, assignment) ==
  LET pair == <<Key(assignment[1]), assignment[2]>>
  IN IF \E i \in DOMAIN object : object[i][1] = pair[1]
     THEN [i \in DOMAIN object |-> IF object[i][1] = pair[1] THEN pair ELSE object[i]]
     ELSE Append(object, pair)

Properties(assignments) ==
  LET object[n \in 0 .. Len(assignments)] == IF n = 0 THEN <<>> ELSE Assign(object[n - 1], assignments[n])
  IN object[Len(assignments)]

-----------------------------------------------------------------------------
(* A member of the document array: an object, or the record's own array,   *)
(* by reference.                                                           *)

Row == [k : {"object"}, o : Seq(ColumnName \X Cell)] \union [k : {"array"}, a : Nat]
ObjectRow(assignments) == [k |-> "object", o |-> assignments]
ArrayRow(a)            == [k |-> "array", a |-> a]
=============================================================================
