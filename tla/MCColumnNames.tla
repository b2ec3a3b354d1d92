---------------------------- MODULE MCColumnNames ----------------------------
(* Small instances of ColumnNames.                                         *)
EXTENDS ColumnNames

MCAtom == {"a", "~"}
MCEmptyCell == [k |-> "empty", t |-> <<>>]
MCNoNamePrefix == <<"~">>

Doubles ==
  {Number(neg, digits, n) :
     neg \in BOOLEAN, n \in {-8, -7, -6, -5, -4, -1, 0, 1, 2, 3, 20, 21, 22, 23, 101},
     digits \in {<<1>>, <<9, 5>>, <<1, 0, 5>>, <<1, 2, 3, 4>>}}
  \union {Special(form, FALSE) : form \in {"NaN", "infinity", "zero"}}
  \union {Special("infinity", TRUE), Special("zero", TRUE)}

One == Number(FALSE, <<1>>, 1)
A   == [go |-> "string", t |-> <<"a">>]
Nl  == [go |-> "nil"]
Map(id) == [go |-> "*OrderedMap", id |-> id]
List(go, items) == [go |-> go, items |-> items]

Plain ==
  {A, Nl, [go |-> "declared string", t |-> <<"a">>], [go |-> "bool", b |-> TRUE],
   [go |-> "declared bool", b |-> FALSE], [go |-> "int", num |-> One],
   [go |-> "string", t |-> <<"1">>], [go |-> "declared number", num |-> One],
   [go |-> "json.Number", num |-> One, t |-> <<"1">>],
   [go |-> "json.Number", num |-> NotANumber, t |-> <<"a">>],
   [go |-> "string", t |-> <<"~", "1">>],
   Map("option"), Map("parsed"), [go |-> "OrderedMap"], [go |-> "map"], [go |-> "func"]}

Lists ==
  {List(go, items) : go \in SliceTypes,
     items \in {<<>>, <<Nl>>, <<A, Nl>>, <<Undefined, A>>, <<Map("option")>>, <<A, Map("parsed")>>,
                <<List("[]any", <<>>), A>>, <<List("[]T", <<A, Nl>>), List("[]any", <<Nl>>)>>}}

Cells  == {Text(<<"a">>), Num(<<"1">>), Undefined}
Naming(lists, records) ==
  {[columns |-> list, record |-> rec, tagged |-> {"option"}] : list \in lists, rec \in records}

MCInputs ==
  Naming({<<[go |-> "float64", num |-> num]>> : num \in Doubles}, {<<>>})
  \union Naming(UNION {[1 .. n -> Plain \union Lists] : n \in 0 .. 2},
                 {<<>>, <<Text(<<"a">>), Undefined>>, <<Num(<<"1">>), Text(<<"a">>), Undefined>>})
=============================================================================
