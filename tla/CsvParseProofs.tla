--------------------------- MODULE CsvParseProofs ---------------------------
(***************************************************************************)
(* The safety of a strict-mode parse for every source, every option        *)
(* setting and every port.  The inductive invariant says which rule runs   *)
(* at which depth of the stack and which array each of them holds: the csv *)
(* rule and the line rules the document, list and elem the array of the    *)
(* line, val and text a value.  On top of it: what was handed out and that *)
(* it stays, what the stream callback is told, and last that a parse does  *)
(* what CsvRecords says of the document as a whole.                        *)
(***************************************************************************)
EXTENDS CsvParse, SequenceTheorems, FiniteSetTheorems, NaturalsInduction, WellFoundedInduction,
        TLAPS

USE PortAssumption, InputAssumption, EmptyCellAssumption

-----------------------------------------------------------------------------
(* The alternates.                                                         *)

\* How deep in the stack each rule runs.
Level(rule) ==
  CASE rule = "csv"                   -> 1
    [] rule \in {"newline", "record"} -> 2
    [] rule = "list"                  -> 3
    [] rule = "elem"                  -> 4
    [] rule = "val"                   -> 5
    [] rule = "text"                  -> 6

\* What every alternate of a rule satisfies: it gives back no more than it
\* read, counts and acts on text in the text rule only, adds empty cells in
\* elem only, and pushes or replaces at the right depth.
AltOK(rule, alt) ==
  /\ Len(alt.s) \in Nat /\ alt.b \in 0 .. Len(alt.s)
  /\ alt.n \in {0, 1} /\ (alt.n = 1 <=> alt.a \in TextActions)
  /\ alt.a \in TextActions => rule = "text"
  /\ alt.a \in EmptyActions => rule = "elem"
  /\ alt.p # "" => /\ alt.p \in Rules /\ Level(alt.p) = Level(rule) + 1
                   /\ alt.a = "" /\ alt.r = ""
  /\ alt.r # "" => /\ alt.r \in Rules \ {"csv", "list"} /\ Level(alt.r) = Level(rule)
                   /\ rule = "text" => alt.n = 1
  /\ rule = "text" => alt.p = ""

LEMMA LevelOf ==
  ASSUME NEW rule \in Rules
  PROVE  /\ Level(rule) \in 1 .. 6
         /\ Level(rule) = 1 <=> rule = "csv"
         /\ Level(rule) = 2 <=> rule \in {"newline", "record"}
         /\ Level(rule) = 3 <=> rule = "list"
         /\ Level(rule) = 4 <=> rule = "elem"
         /\ Level(rule) = 5 <=> rule = "val"
         /\ Level(rule) = 6 <=> rule = "text"
<1>1. /\ Level("csv") = 1 /\ Level("newline") = 2 /\ Level("record") = 2
      /\ Level("list") = 3 /\ Level("elem") = 4 /\ Level("val") = 5 /\ Level("text") = 6
  BY DEF Level
<1>2. QED
  BY <1>1 DEF Rules

\* What runs one deeper.
LEMMA LevelBelow ==
  ASSUME NEW rule \in Rules, NEW child \in Rules, Level(child) = Level(rule) + 1
  PROVE  /\ rule = "record" => child = "list"
         /\ rule = "elem" => child = "val"
         /\ rule = "val" => child = "text"
         /\ rule # "text"
<1>1. /\ Level("record") = 2 /\ Level("elem") = 4 /\ Level("val") = 5 /\ Level("text") = 6
  BY DEF Level
<1>2. /\ Level(child) = 3 => child = "list"
      /\ Level(child) = 5 => child = "val"
      /\ Level(child) = 6 => child = "text"
      /\ Level(child) # 7
  BY LevelOf
<1>3. QED
  BY <1>1, <1>2

LEMMA AltTypes ==
  ASSUME NEW re \in BOOLEAN, NEW rule \in Rules
  PROVE  /\ \A alt \in AltsOf(OpenAlts(rule, re)) : AltOK(rule, alt)
         /\ \A alt \in AltsOf(CloseAlts(rule, re)) : AltOK(rule, alt)
<1>1. CASE rule = "csv"
  <2>1. /\ AltOK("csv", Alt(<<{"ZZ"}>>, 0))
        /\ AltOK("csv", Push(Alt(<<{"LN"}>>, 0), "newline"))
        /\ AltOK("csv", Push(Otherwise, "record"))
        /\ AltOK("csv", Otherwise)
    BY DEF AltOK, Level, Rules, TextActions, EmptyActions, Alt, Push, Swap, Do, Count, Otherwise
  <2>2. QED
    BY <1>1, <2>1 DEF AltsOf, OpenAlts, CloseAlts, CsvOpen
<1>2. CASE rule = "newline"
  <2>1. /\ AltOK("newline", Swap(Alt(<<{"LN"}, {"LN"}>>, 0), "newline"))
        /\ AltOK("newline", Swap(Alt(<<{"LN"}>>, 0), "newline"))
        /\ AltOK("newline", Alt(<<{"ZZ"}>>, 0))
        /\ AltOK("newline", Swap(Otherwise, "record"))
    BY DEF AltOK, Level, Rules, TextActions, EmptyActions, Alt, Push, Swap, Do, Count, Otherwise
  <2>2. QED
    BY <1>2, <2>1 DEF AltsOf, OpenAlts, CloseAlts, NewlineOpen, NewlineClose
<1>3. CASE rule = "record"
  <2>1. /\ AltOK("record", Push(Otherwise, "list"))
        /\ AltOK("record", Alt(<<{"ZZ"}>>, 0))
        /\ AltOK("record", Alt(<<{"LN"}, {"ZZ"}>>, 1))
        /\ AltOK("record", Swap(Alt(<<{"LN"}>>, 0), "record"))
        /\ AltOK("record", Swap(Alt(<<{"LN"}>>, 0), "newline"))
    BY DEF AltOK, Level, Rules, TextActions, EmptyActions, Alt, Push, Swap, Do, Count, Otherwise
  <2>2. QED
    BY <1>3, <2>1 DEF AltsOf, OpenAlts, CloseAlts, RecordOpen, RecordClose, RecordCloseNext
<1>4. CASE rule = "list"
  <2>1. /\ AltOK("list", Alt(<<{"LN"}>>, 1))
        /\ AltOK("list", Push(Otherwise, "elem"))
        /\ AltOK("list", Alt(<<{"ZZ"}>>, 0))
    BY DEF AltOK, Level, Rules, TextActions, EmptyActions, Alt, Push, Swap, Do, Count, Otherwise
  <2>2. QED
    BY <1>4, <2>1 DEF AltsOf, OpenAlts, CloseAlts, ListOpen, ListClose
<1>5. CASE rule = "elem"
  <2>1. /\ AltOK("elem", Do(Alt(<<{"CA"}>>, 1), "elem-open-empty"))
        /\ AltOK("elem", Push(Otherwise, "val"))
        /\ AltOK("elem", Do(Alt(<<{"CA"}, {"LN", "ZZ"}>>, 1), "elem-close-trailing"))
        /\ AltOK("elem", Swap(Alt(<<{"CA"}>>, 0), "elem"))
        /\ AltOK("elem", Alt(<<{"LN"}>>, 1))
        /\ AltOK("elem", Alt(<<{"ZZ"}>>, 0))
    BY DEF AltOK, Level, Rules, TextActions, EmptyActions, Alt, Push, Swap, Do, Count, Otherwise
  <2>2. QED
    BY <1>5, <2>1 DEF AltsOf, OpenAlts, CloseAlts, ElemOpen, ElemClose
<1>6. CASE rule = "val"
  <2>1. /\ AltOK("val", Push(Alt(<<VAL, {"SP"}>>, 2), "text"))
        /\ AltOK("val", Push(Alt(<<{"SP"}>>, 1), "text"))
        /\ AltOK("val", Alt(<<VAL>>, 0))
        /\ AltOK("val", Alt(<<{"LN"}>>, 1))
        /\ AltOK("val", Otherwise)
    BY DEF AltOK, Level, Rules, TextActions, EmptyActions, Alt, Push, Swap, Do, Count, Otherwise
  <2>2. QED
    BY <1>6, <2>1 DEF AltsOf, OpenAlts, CloseAlts, ValOpen
<1>7. CASE rule = "text"
  <2>1. /\ AltOK("text", Swap(Do(Count(Alt(<<VAL, {"SP"}>>, 1)), "text-follows"), "text"))
        /\ AltOK("text", Swap(Do(Count(Alt(<<{"SP"}, VAL>>, 0)), "text-leads"), "text"))
        /\ AltOK("text", Do(Count(Alt(<<{"SP"}, {"CA", "LN", "ZZ"}>>, 1)), "text-end"))
        /\ AltOK("text", Do(Count(Alt(<<{"SP"}>>, 0)), "text-space"))
        /\ AltOK("text", Otherwise)
    BY DEF AltOK, Level, Rules, TextActions, EmptyActions, Alt, Push, Swap, Do, Count, Otherwise
  <2>2. QED
    BY <1>7, <2>1 DEF AltsOf, OpenAlts, CloseAlts, TextOpen
<1>8. QED
  BY <1>1, <1>2, <1>3, <1>4, <1>5, <1>6, <1>7 DEF Rules

-----------------------------------------------------------------------------
(* The values.                                                             *)

LEMMA FunctionIsSeq ==
  ASSUME NEW S, NEW n \in Nat, NEW f \in [1 .. n -> S]
  PROVE  f \in Seq(S) /\ Len(f) = n
BY SeqDef

LEMMA TokType ==
  ASSUME src \in Seq(Token), pos \in Nat \ {0}, NEW i \in Nat \ {0}
  PROVE  Tok(i) \in Token
<1>1. EndOfSource \in Token
  BY DEF EndOfSource, Token, Kind, VAL, Texts
<1>2. src \in Seq(Token)
  OBVIOUS
<1>3. CASE pos + i - 1 <= Len(src)
  <2>1. pos + i - 1 \in 1 .. Len(src)
    BY <1>2, <1>3
  <2>2. QED
    BY <1>2, <1>3, <2>1, ElementOfSeq DEF Tok
<1>4. QED
  BY <1>1, <1>3 DEF Tok

LEMMA ResolveType ==
  ASSUME NEW tok \in Token
  PROVE  ResolveVal(tok) \in {Undef} \union Cell
BY DEF ResolveVal, Token, Cell, Text, Num

\* Every assignment of an object record has a name and a cell.
LEMMA AssignmentsType ==
  ASSUME NEW cells \in Seq(Cell), NEW names \in Seq(Cell)
  PROVE  Assignments(cells, names) \in Seq(ColumnName \X Cell)
<1> DEFINE extra == IF Len(cells) > Len(names) THEN Len(cells) - Len(names) ELSE 0
           known == [i \in 1 .. Len(names) |-> <<NamedBy(names[i]), CellAt(cells, i)>>]
           beyond == [j \in 1 .. extra |-> <<Unnamed(Len(names) + j - 1), cells[Len(names) + j]>>]
<1>1. extra \in Nat
  OBVIOUS
<1>2. known \in Seq(ColumnName \X Cell)
  <2>1. ASSUME NEW i \in 1 .. Len(names)
        PROVE  NamedBy(names[i]) \in ColumnName /\ CellAt(cells, i) \in Cell
    <3>1. names[i] \in Cell
      OBVIOUS
    <3>2. NamedBy(names[i]) \in ColumnName
      BY <3>1 DEF NamedBy, ColumnName, Cell
    <3>3. CellAt(cells, i) \in Cell
      BY DEF CellAt
    <3>4. QED
      BY <3>2, <3>3
  <2>2. QED
    BY <2>1, FunctionIsSeq, LenProperties
<1>3. beyond \in Seq(ColumnName \X Cell)
  <2>1. ASSUME NEW j \in 1 .. extra
        PROVE  Unnamed(Len(names) + j - 1) \in ColumnName /\ cells[Len(names) + j] \in Cell
    BY DEF Unnamed, ColumnName
  <2>2. QED
    BY <1>1, <2>1, FunctionIsSeq
<1>4. QED
  BY <1>2, <1>3, ConcatProperties DEF Assignments

\* The text an action joins is a text, when the text it goes on with is one.
LEMMA JoinedType ==
  ASSUME src \in Seq(Token), pos \in Nat \ {0}, NEW action, NEW n \in Nat,
         n = 1 \/ Top.node \in Cell
  PROVE  JoinedText(action, n) \in Cell
<1> DEFINE before == IF n = 1 THEN <<>> ELSE Top.node.t
<1>1. Tok(1) \in Token /\ Tok(2) \in Token
  BY TokType
<1>2. /\ Tok(1).src \in Seq(Atom) /\ Tok(1).val \in Seq(Atom) /\ Tok(2).src \in Seq(Atom)
      /\ <<>> \in Seq(Atom)
  BY <1>1 DEF Token, Texts
<1>3. TextPiece(action, n) \in Seq(Atom)
  BY <1>2, ConcatProperties DEF TextPiece, FollowsText
<1>4. before \in Seq(Atom)
  BY DEF Cell, Texts
<1>5. before \o TextPiece(action, n) \in Seq(Atom)
  BY <1>3, <1>4, ConcatProperties
<1>6. QED
  BY <1>5 DEF JoinedText, Text, Cell, Texts

-----------------------------------------------------------------------------
(* The stack.  len is the number of arrays allocated.                      *)

ArraysUpTo(len) == {Ref(a) : a \in 2 .. len}
Value == {Undef} \union Cell

\* What each rule instance holds: the line rules the document, list (once it
\* has allocated) and elem the array of a line, val and text a value; and what
\* it has seen of its child.
FrameOK(f, len) ==
  /\ f.rule = "csv" => f.at = "bo" \/ f.node = Ref(1)
  /\ f.rule \in {"newline", "record"} => f.node = Ref(1)
  /\ f.rule = "record" => f.kid \in {Undef} \union ArraysUpTo(len)
  /\ f.rule = "list" => f.pushed /\ (f.at = "bo" \/ f.node \in ArraysUpTo(len))
  /\ f.rule = "elem" => f.node \in ArraysUpTo(len) /\ f.kid \in Value
  /\ f.rule = "val" => (f.at = "bo" \/ f.node \in Value) /\ f.kid \in Value
  /\ f.rule = "text" => /\ f.node \in Value /\ f.kid = Undef
                        /\ f.n # 0 => f.node \in Cell
  /\ f.rule # "text" => f.n = 0

\* The rules stand at their depths, and all but the running one have opened.
ShapeOf(stk, len) ==
  /\ stk \in Seq(Frame) /\ stk # <<>>
  /\ \A i \in 1 .. Len(stk) : Level(stk[i].rule) = i /\ FrameOK(stk[i], len)
  /\ \A i \in 1 .. Len(stk) - 1 : stk[i].at \in {"bc", "close"}
  /\ len = 0 <=> stk[1].at = "bo"

\* The running record has seen the array of its line when it is to close.
RecordReady(stk, len) ==
  LET top == stk[Len(stk)]
  IN top.rule = "record" /\ top.at = "bc" => top.kid \in ArraysUpTo(len)

LEMMA FrameKept ==
  ASSUME NEW f \in Frame, NEW len \in Nat, NEW len2 \in Nat, len <= len2, FrameOK(f, len)
  PROVE  FrameOK(f, len2)
<1>1. ArraysUpTo(len) \subseteq ArraysUpTo(len2)
  BY DEF ArraysUpTo
<1>2. QED
  BY <1>1 DEF FrameOK

\* An instance gives way to another of its depth.
LEMMA ShapeSet ==
  ASSUME NEW stk, NEW len \in Nat, ShapeOf(stk, len), NEW len2 \in Nat, len <= len2,
         NEW i \in 1 .. Len(stk), NEW f \in Frame, Level(f.rule) = i, FrameOK(f, len2),
         i < Len(stk) => f.at \in {"bc", "close"},
         i = 1 => (len2 = 0 <=> f.at = "bo")
  PROVE  ShapeOf([stk EXCEPT ![i] = f], len2)
<1> DEFINE new == [stk EXCEPT ![i] = f]
<1>1. /\ new \in Seq(Frame) /\ Len(new) = Len(stk)
      /\ \A j \in 1 .. Len(stk) : new[j] = IF j = i THEN f ELSE stk[j]
  BY ExceptSeq DEF ShapeOf
<1>2. Len(stk) \in Nat \ {0} /\ \A j \in 1 .. Len(stk) : stk[j] \in Frame
  BY EmptySeq DEF ShapeOf
<1>3. new # <<>>
  BY <1>1, <1>2
<1>4. ASSUME NEW j \in 1 .. Len(new) PROVE Level(new[j].rule) = j /\ FrameOK(new[j], len2)
  BY <1>1, <1>2, FrameKept DEF ShapeOf
<1>5. \A j \in 1 .. Len(new) - 1 : new[j].at \in {"bc", "close"}
  BY <1>1, <1>2 DEF ShapeOf
<1>6. len2 = 0 <=> new[1].at = "bo"
  <2>1. CASE i = 1
    BY <1>1, <1>2, <2>1
  <2>2. CASE i # 1
    <3>1. new[1] = stk[1] /\ stk[1].at \in {"bc", "close"}
      BY <1>1, <1>2, <2>2 DEF ShapeOf
    <3>2. QED
      BY <3>1 DEF ShapeOf
  <2>3. QED
    BY <2>1, <2>2
<1>7. QED
  BY <1>1, <1>3, <1>4, <1>5, <1>6 DEF ShapeOf

\* An instance that has opened gets a child.
LEMMA ShapePush ==
  ASSUME NEW stk, NEW len \in Nat, ShapeOf(stk, len), stk[Len(stk)].at \in {"bc", "close"},
         NEW f \in Frame, Level(f.rule) = Len(stk) + 1, FrameOK(f, len)
  PROVE  /\ ShapeOf(Append(stk, f), len)
         /\ Len(Append(stk, f)) = Len(stk) + 1 /\ Append(stk, f)[Len(stk) + 1] = f
<1> DEFINE new == Append(stk, f)
<1>1. /\ new \in Seq(Frame) /\ new # <<>> /\ Len(new) = Len(stk) + 1
      /\ \A j \in 1 .. Len(stk) : new[j] = stk[j]
      /\ new[Len(stk) + 1] = f
  BY AppendProperties DEF ShapeOf
<1>2. Len(stk) \in Nat \ {0}
  BY EmptySeq DEF ShapeOf
<1>3. \A j \in 1 .. Len(new) : Level(new[j].rule) = j /\ FrameOK(new[j], len)
  BY <1>1, <1>2 DEF ShapeOf
<1>4. \A j \in 1 .. Len(new) - 1 : new[j].at \in {"bc", "close"}
  BY <1>1, <1>2 DEF ShapeOf
<1>5. len = 0 <=> new[1].at = "bo"
  BY <1>1, <1>2 DEF ShapeOf
<1>6. QED
  BY <1>1, <1>3, <1>4, <1>5 DEF ShapeOf

\* The running instance ends.
LEMMA ShapePop ==
  ASSUME NEW stk, NEW len \in Nat, ShapeOf(stk, len), Len(stk) > 1
  PROVE  /\ ShapeOf(SubSeq(stk, 1, Len(stk) - 1), len)
         /\ Len(SubSeq(stk, 1, Len(stk) - 1)) = Len(stk) - 1
         /\ SubSeq(stk, 1, Len(stk) - 1)[Len(stk) - 1] = stk[Len(stk) - 1]
<1> DEFINE new == SubSeq(stk, 1, Len(stk) - 1)
<1>1. Len(stk) \in Nat /\ \A j \in 1 .. Len(stk) : stk[j] \in Frame
  BY DEF ShapeOf
<1>2. /\ new \in Seq(Frame) /\ Len(new) = Len(stk) - 1
      /\ \A j \in 1 .. Len(stk) - 1 : new[j] = stk[j]
  BY <1>1, SubSeqProperties
<1>3. \A j \in 1 .. Len(new) - 1 : new[j].at \in {"bc", "close"}
  BY <1>1, <1>2 DEF ShapeOf
<1>4. \A j \in 1 .. Len(new) : Level(new[j].rule) = j /\ FrameOK(new[j], len)
  BY <1>1, <1>2 DEF ShapeOf
<1>5. len = 0 <=> new[1].at = "bo"
  BY <1>1, <1>2 DEF ShapeOf
<1>6. new # <<>>
  <2>1. Len(new) # 0
    BY <1>1, <1>2
  <2> HIDE DEF new
  <2>2. QED
    BY <1>2, <2>1, EmptySeq
<1>7. QED
  BY <1>1, <1>2, <1>3, <1>4, <1>5, <1>6 DEF ShapeOf

-----------------------------------------------------------------------------
(* The invariant.                                                          *)

HeapOK ==
  /\ heap \in Seq(Seq(Cell \union Row))
  /\ \A a \in 1 .. Len(heap) : heap[a] \in Seq(IF a = 1 THEN Row ELSE Cell)

Inv ==
  /\ opts \in Options /\ src \in Seq(Token) /\ pos \in Nat \ {0}
  /\ ShapeOf(stack, Len(heap)) /\ RecordReady(stack, Len(heap))
  /\ HeapOK
  /\ fields = 0 \/ fields \in 2 .. Len(heap)
  /\ recordI \in Nat
  /\ events \in Seq(Event)
  /\ outcome \in {"run", "done"} \union Codes

LEMMA TopType ==
  ASSUME Inv
  PROVE  /\ Depth \in Nat \ {0} /\ Top \in Frame /\ Len(heap) \in Nat
         /\ Level(Top.rule) = Depth /\ FrameOK(Top, Len(heap))
         /\ Depth > 1 => stack[1].at \in {"bc", "close"}
         /\ heap = <<>> <=> Len(heap) = 0
<1>1. stack \in Seq(Frame) /\ stack # <<>> /\ heap \in Seq(Seq(Cell \union Row))
  BY DEF Inv, ShapeOf, HeapOK
<1>2. Depth \in Nat \ {0} /\ Depth \in 1 .. Len(stack)
  BY <1>1, EmptySeq, LenProperties DEF Depth
<1>3. Top \in Frame
  BY <1>1, <1>2, ElementOfSeq DEF Top
<1>4. Len(heap) \in Nat /\ (heap = <<>> <=> Len(heap) = 0)
  BY <1>1, EmptySeq, LenProperties
<1>5. QED
  BY <1>2, <1>3, <1>4 DEF Inv, ShapeOf, Top, Depth

\* A new array, for the document or for a line.
LEMMA HeapGrows ==
  ASSUME HeapOK, heap' = Append(heap, <<>>)
  PROVE  HeapOK' /\ Len(heap') = Len(heap) + 1
<1>1. <<>> \in Seq(Cell) /\ <<>> \in Seq(Row) /\ <<>> \in Seq(Cell \union Row)
  BY EmptySeq
<1>2. /\ heap' \in Seq(Seq(Cell \union Row)) /\ Len(heap') = Len(heap) + 1
      /\ Len(heap) \in Nat
      /\ \A a \in 1 .. Len(heap) : heap'[a] = heap[a]
      /\ heap'[Len(heap) + 1] = <<>>
  BY <1>1, AppendProperties, LenProperties DEF HeapOK
<1>3. ASSUME NEW a \in 1 .. Len(heap')
      PROVE  heap'[a] \in Seq(IF a = 1 THEN Row ELSE Cell)
  <2>1. CASE a = Len(heap) + 1
    BY <1>1, <1>2, <2>1
  <2>2. CASE a # Len(heap) + 1
    <3>1. a \in 1 .. Len(heap)
      BY <1>2, <2>2
    <3>2. QED
      BY <1>2, <3>1 DEF HeapOK
  <2>3. QED
    BY <2>1, <2>2
<1>4. QED
  BY <1>2, <1>3 DEF HeapOK

\* A row for the document, or a cell for the array of a line.
LEMMA HeapPushed ==
  ASSUME HeapOK, NEW a \in 1 .. Len(heap), NEW value \in IF a = 1 THEN Row ELSE Cell,
         heap' = [heap EXCEPT ![a] = Append(@, value)]
  PROVE  HeapOK' /\ Len(heap') = Len(heap)
<1>1. heap[a] \in Seq(IF a = 1 THEN Row ELSE Cell)
  BY DEF HeapOK
<1>2. Append(heap[a], value) \in Seq(IF a = 1 THEN Row ELSE Cell)
  BY <1>1, AppendProperties
<1>3. Append(heap[a], value) \in Seq(Cell \union Row)
  BY <1>2, SeqMonotonic
<1>4. /\ heap' \in Seq(Seq(Cell \union Row)) /\ Len(heap') = Len(heap)
      /\ \A b \in 1 .. Len(heap) : heap'[b] = IF b = a THEN Append(heap[a], value) ELSE heap[b]
  BY <1>3, ExceptSeq DEF HeapOK
<1>5. QED
  BY <1>2, <1>4 DEF HeapOK

\* An action that gives the running instance a new state, and the heap no
\* fewer arrays, keeps the shape of the stack.
LEMMA Advanced ==
  ASSUME Inv, NEW f \in Frame, f.rule = Top.rule, Len(heap') \in Nat, Len(heap) <= Len(heap'),
         FrameOK(f, Len(heap')), f.at # "bo", Len(heap') > 0,
         f.rule = "record" /\ f.at = "bc" => f.kid \in ArraysUpTo(Len(heap')),
         stack' = [stack EXCEPT ![Depth] = f]
  PROVE  ShapeOf(stack', Len(heap')) /\ RecordReady(stack', Len(heap'))
<1>1. Depth \in 1 .. Len(stack) /\ Level(f.rule) = Depth /\ Len(heap) \in Nat
  BY TopType DEF Depth
<1>2. ShapeOf([stack EXCEPT ![Depth] = f], Len(heap'))
  <2>1. ShapeOf(stack, Len(heap)) /\ ~(Depth < Len(stack)) /\ Len(heap') # 0
    BY TopType DEF Inv, Depth
  <2>2. QED
    BY <1>1, <2>1, ShapeSet
<1>3. Len(stack') = Depth /\ stack'[Depth] = f
  BY <1>1, ExceptSeq DEF Inv, ShapeOf, Depth
<1>4. QED
  BY <1>2, <1>3 DEF RecordReady

-----------------------------------------------------------------------------
(* The engine's steps: what an alternate does to the running instance, to  *)
(* the one below it and to the arrays.                                     *)

\* What the running instance is allowed to hold does not depend on its phase.
LEMMA FrameAt ==
  ASSUME NEW f \in Frame, NEW len \in Nat, FrameOK(f, len), f.at # "bo",
         NEW phase \in Phase
  PROVE  /\ [f EXCEPT !.at = phase] \in Frame
         /\ FrameOK([f EXCEPT !.at = phase], len)
BY DEF Frame, FrameOK

LEMMA ActedType ==
  ASSUME Inv, Top.at # "bo", NEW alt, AltOK(Top.rule, alt)
  PROVE  /\ Acted(alt) \in Frame /\ FrameOK(Acted(alt), Len(heap))
         /\ Acted(alt).rule = Top.rule /\ Acted(alt).at = Top.at
         /\ Acted(alt).kid = Top.kid /\ Acted(alt).pushed = Top.pushed
         /\ alt.n = 1 => Acted(alt).node \in Cell
         /\ alt.n = 0 => Acted(alt).node = Top.node /\ Acted(alt).n = Top.n
<1> DEFINE count == Top.n + alt.n
           first == IF alt.s = <<>> THEN NoToken ELSE Tok(1)
           closed == Top.done \/ alt.a = "elem-open-empty"
           held == IF alt.a \in TextActions THEN JoinedText(alt.a, count) ELSE Top.node
<1>1. /\ Top \in Frame /\ FrameOK(Top, Len(heap))
      /\ src \in Seq(Token) /\ pos \in Nat \ {0}
  BY TopType DEF Inv
<1>3. Top.n \in Nat /\ alt.n \in {0, 1} /\ count \in Nat
  <2>1. Top.n \in Nat
    BY <1>1 DEF Frame
  <2>2. alt.n \in {0, 1}
    BY DEF AltOK
  <2>3. QED
    BY <2>1, <2>2
<1>4. first \in Token
  BY <1>1, TokType DEF NoToken, EndOfSource, Token, Kind, Texts
<1>5. alt.n = 1 => held \in Cell
  <2>1. SUFFICES ASSUME alt.n = 1 PROVE held \in Cell
    OBVIOUS
  <2>2. alt.a \in TextActions /\ Top.rule = "text"
    BY <2>1 DEF AltOK
  <2>3. count = 1 \/ Top.node \in Cell
    BY <1>1, <1>3, <2>1, <2>2 DEF FrameOK
  <2>4. QED
    BY <1>1, <1>3, <2>2, <2>3, JoinedType
<1>6. alt.n = 0 => held = Top.node /\ count = Top.n
  <2>1. SUFFICES ASSUME alt.n = 0 PROVE held = Top.node /\ count = Top.n
    OBVIOUS
  <2>2. alt.n # 1
    BY <2>1
  <2>3. alt.a \notin TextActions
    BY <2>2 DEF AltOK
  <2>4. QED
    BY <1>1, <1>3, <2>1, <2>3
<1>2. held \in Node /\ closed \in BOOLEAN
  BY <1>1, <1>3, <1>5, <1>6 DEF Frame, Node
<1>7. /\ Acted(alt) \in Frame /\ Acted(alt).n = count /\ Acted(alt).node = held
      /\ Acted(alt).rule = Top.rule /\ Acted(alt).at = Top.at
      /\ Acted(alt).kid = Top.kid /\ Acted(alt).pushed = Top.pushed
  <2>1. Acted(alt) = [Top EXCEPT !.n = count, !.o0 = first, !.done = closed, !.node = held]
    BY DEF Acted
  <2> HIDE DEF count, first, closed, held
  <2>2. QED
    <3>1. Top \in Frame /\ count \in Nat /\ first \in Token /\ closed \in BOOLEAN /\ held \in Node
      BY <1>1, <1>2, <1>3, <1>4
    <3>2. QED
      BY <2>1, <3>1 DEF Frame
<1>8. FrameOK(Acted(alt), Len(heap))
  <2>1. CASE alt.n = 0
    BY <1>1, <1>6, <1>7, <2>1 DEF FrameOK
  <2>2. CASE alt.n = 1
    <3>1. Top.rule = "text" /\ held \in Cell
      BY <1>5, <2>2 DEF AltOK
    <3>2. QED
      BY <1>1, <1>7, <3>1 DEF FrameOK, Value
  <2>3. QED
    BY <1>3, <2>1, <2>2
<1>9. QED
  BY <1>5, <1>6, <1>7, <1>8

LEMMA SeenType ==
  ASSUME Inv, Top.at # "bo", NEW alt, AltOK(Top.rule, alt), NEW left \in BOOLEAN
  PROVE  /\ ShapeOf(Seen(alt, left), Len(heap))
         /\ Len(Seen(alt, left)) = Depth /\ Seen(alt, left)[Depth] = Top
         /\ Depth > 1 => /\ Seen(alt, left)[Depth - 1].rule = stack[Depth - 1].rule
                         /\ Seen(alt, left)[Depth - 1].at = stack[Depth - 1].at
                         /\ left /\ Top.pushed =>
                              Seen(alt, left)[Depth - 1].kid = Acted(alt).node
<1> DEFINE below == [stack[Depth - 1] EXCEPT !.kid = Acted(alt).node]
<1>1. /\ Depth \in Nat \ {0} /\ Depth = Len(stack) /\ Len(heap) \in Nat
      /\ stack \in Seq(Frame) /\ Top = stack[Depth] /\ Top \in Frame
      /\ ShapeOf(stack, Len(heap)) /\ Level(Top.rule) = Depth
  BY TopType DEF Inv, ShapeOf, Depth, Top
<1>2. CASE Seen(alt, left) = stack /\ ~(Depth > 1 /\ left /\ Top.pushed)
  BY <1>1, <1>2
<1>3. CASE Depth > 1 /\ Seen(alt, left) = [stack EXCEPT ![Depth - 1].kid = Acted(alt).node]
  <2>1. /\ Depth - 1 \in 1 .. Len(stack) /\ stack[Depth - 1] \in Frame
        /\ Level(stack[Depth - 1].rule) = Depth - 1
        /\ FrameOK(stack[Depth - 1], Len(heap))
        /\ stack[Depth - 1].at \in {"bc", "close"}
    BY <1>1, <1>3 DEF ShapeOf
  <2>2. /\ Acted(alt) \in Frame /\ FrameOK(Acted(alt), Len(heap))
        /\ Acted(alt).rule = Top.rule /\ Acted(alt).at # "bo"
    BY ActedType
  <2>3. /\ below \in Frame /\ below.rule = stack[Depth - 1].rule
        /\ below.at = stack[Depth - 1].at /\ below.kid = Acted(alt).node
    BY <2>1, <2>2 DEF Frame
  <2>4. FrameOK(below, Len(heap))
    <3>1. stack[Depth - 1].rule \in Rules /\ Top.rule \in Rules
      BY <1>1, <2>1 DEF Frame
    <3>2. Level(Top.rule) = Level(stack[Depth - 1].rule) + 1
      BY <1>1, <2>1
    <3>3. /\ stack[Depth - 1].rule = "record" => Top.rule = "list"
          /\ stack[Depth - 1].rule = "elem" => Top.rule = "val"
          /\ stack[Depth - 1].rule = "val" => Top.rule = "text"
          /\ stack[Depth - 1].rule # "text"
      BY <3>1, <3>2, LevelBelow
    <3>4. QED
      BY <2>1, <2>2, <2>3, <3>3 DEF FrameOK, Frame
  <2>5. Seen(alt, left) = [stack EXCEPT ![Depth - 1] = below]
    BY <1>3
  <2>6. ShapeOf([stack EXCEPT ![Depth - 1] = below], Len(heap))
    <3>1. below.at \in {"bc", "close"} /\ Len(heap) <= Len(heap)
      BY <1>1, <2>1, <2>3
    <3>2. Depth - 1 = 1 => (Len(heap) = 0 <=> below.at = "bo")
      BY <1>1, <2>1, <3>1 DEF ShapeOf
    <3>3. QED
      BY <1>1, <2>1, <2>3, <2>4, <3>1, <3>2, ShapeSet
  <2>7. /\ Len([stack EXCEPT ![Depth - 1] = below]) = Depth
        /\ [stack EXCEPT ![Depth - 1] = below][Depth] = Top
        /\ [stack EXCEPT ![Depth - 1] = below][Depth - 1] = below
    BY <1>1, <2>1, <2>3, ExceptSeq
  <2>8. QED
    BY <2>3, <2>5, <2>6, <2>7
<1>4. QED
  BY <1>2, <1>3, ActedType DEF Seen

-----------------------------------------------------------------------------
(* The callbacks.                                                          *)

LEMMA EmitType ==
  ASSUME Inv, NEW event \in Event
  PROVE  Emit(event) \in Seq(Event) /\ Append(events, event) \in Seq(Event)
BY AppendProperties DEF Emit, Inv

\* The array the running instance holds as a reference.
LEMMA HeldArray ==
  ASSUME NEW node \in ArraysUpTo(Len(heap)), HeapOK
  PROVE  /\ node.a \in 2 .. Len(heap) /\ node = Ref(node.a)
         /\ heap[node.a] \in Seq(Cell)
<1>1. PICK a \in 2 .. Len(heap) : node = Ref(a)
  BY DEF ArraysUpTo
<1>2. node.a = a
  BY <1>1 DEF Ref
<1>3. Len(heap) \in Nat
  BY LenProperties DEF HeapOK
<1>4. a \in 1 .. Len(heap) /\ a # 1
  BY <1>3
<1>5. QED
  BY <1>1, <1>2, <1>4 DEF HeapOK

LEMMA CsvBOInv ==
  ASSUME Inv, CsvBO
  PROVE  Inv'
<1> DEFINE f == [Top EXCEPT !.node = Ref(Len(heap) + 1), !.at = "open"]
<1>1. /\ Depth \in Nat \ {0} /\ Top \in Frame /\ Len(heap) \in Nat
      /\ Level(Top.rule) = Depth /\ FrameOK(Top, Len(heap))
      /\ Top.at = "bo" /\ Top.rule = "csv"
  BY TopType DEF CsvBO, Running
<1>2. Depth = 1
  BY <1>1, LevelOf DEF Frame
<1>3. Len(heap) = 0
  BY <1>1, <1>2 DEF Inv, ShapeOf, Top
<1>4. HeapOK' /\ Len(heap') = 1
  BY <1>3, HeapGrows DEF Inv, CsvBO
<1>5. f \in Frame /\ f.rule = "csv" /\ f.at = "open" /\ f.node = Ref(1)
  <2>1. Ref(Len(heap) + 1) = Ref(1) /\ Ref(1) \in Node
    BY <1>3 DEF Ref, Node
  <2>2. QED
    BY <1>1, <2>1 DEF Frame, Phase
<1>6. FrameOK(f, Len(heap'))
  <2>1. f.n = Top.n
    BY <1>1 DEF Frame
  <2>2. QED
    BY <1>1, <1>5, <2>1 DEF FrameOK
<1>7. stack' = [stack EXCEPT ![Depth] = f]
  BY DEF CsvBO, Advance
<1>8. ShapeOf(stack', Len(heap')) /\ RecordReady(stack', Len(heap'))
  <2> HIDE DEF f
  <2>1. /\ f \in Frame /\ f.rule = Top.rule /\ f.at # "bo" /\ f.rule # "record"
        /\ Len(heap') \in Nat /\ Len(heap) <= Len(heap') /\ Len(heap') > 0
    BY <1>1, <1>3, <1>4, <1>5
  <2>2. QED
    BY <1>6, <1>7, <2>1, Advanced
<1>9. events' \in Seq(Event)
  <2>1. [ev |-> "start"] \in Event
    BY DEF Event
  <2>2. QED
    BY <2>1, EmitType DEF CsvBO
<1>10. fields' = 0 \/ fields' \in 2 .. Len(heap')
  BY <1>3 DEF Inv, CsvBO
<1>11. QED
  BY <1>4, <1>8, <1>9, <1>10 DEF Inv, CsvBO

LEMMA ListBOInv ==
  ASSUME Inv, ListBO
  PROVE  Inv'
<1> DEFINE f == [Top EXCEPT !.node = Ref(Len(heap) + 1), !.at = "open"]
<1>1. /\ Depth \in Nat \ {0} /\ Top \in Frame /\ Len(heap) \in Nat
      /\ Level(Top.rule) = Depth /\ FrameOK(Top, Len(heap))
      /\ Top.at = "bo" /\ Top.rule = "list"
  BY TopType DEF ListBO, Running
<1>2. Depth = 3
  BY <1>1, LevelOf DEF Frame
<1>3. Len(heap) # 0
  BY <1>2, TopType DEF Inv, ShapeOf
<1>4. HeapOK' /\ Len(heap') = Len(heap) + 1
  BY HeapGrows DEF Inv, ListBO
<1>5. f \in Frame /\ f.rule = "list" /\ f.at = "open" /\ f.node = Ref(Len(heap) + 1)
  <2>1. Ref(Len(heap) + 1) \in Node
    BY <1>1 DEF Ref, Node
  <2>2. QED
    BY <1>1, <2>1 DEF Frame, Phase
<1>6. FrameOK(f, Len(heap'))
  <2>1. f.n = Top.n /\ f.pushed = Top.pushed
    BY <1>1 DEF Frame
  <2>2. Len(heap) + 1 \in 2 .. Len(heap')
    BY <1>1, <1>3, <1>4
  <2>3. f.node \in ArraysUpTo(Len(heap'))
    BY <1>5, <2>2 DEF ArraysUpTo
  <2>4. QED
    BY <1>1, <1>5, <2>1, <2>3 DEF FrameOK
<1>7. stack' = [stack EXCEPT ![Depth] = f]
  BY DEF ListBO, Advance
<1>8. ShapeOf(stack', Len(heap')) /\ RecordReady(stack', Len(heap'))
  <2> HIDE DEF f
  <2>1. /\ f \in Frame /\ f.rule = Top.rule /\ f.at # "bo" /\ f.rule # "record"
        /\ Len(heap') \in Nat /\ Len(heap) <= Len(heap') /\ Len(heap') > 0
    BY <1>1, <1>3, <1>4, <1>5
  <2>2. QED
    BY <1>6, <1>7, <2>1, Advanced
<1>9. fields' = 0 \/ fields' \in 2 .. Len(heap')
  BY <1>1, <1>4 DEF Inv, ListBO
<1>10. QED
  BY <1>4, <1>8, <1>9 DEF Inv, ListBO

\* A callback that only gives the running instance a new state, other than
\* before-open, and leaves the arrays or adds to one.
LEMMA Kept ==
  ASSUME Inv, NEW f \in Frame, f.rule = Top.rule, FrameOK(f, Len(heap)), f.at # "bo", Depth > 1,
         f.rule = "record" /\ f.at = "bc" => f.kid \in ArraysUpTo(Len(heap)),
         stack' = [stack EXCEPT ![Depth] = f],
         HeapOK', Len(heap') = Len(heap),
         opts' \in Options, src' \in Seq(Token), pos' \in Nat \ {0}, recordI' \in Nat,
         fields' = 0 \/ fields' \in 2 .. Len(heap),
         events' \in Seq(Event), outcome' \in {"run", "done"} \union Codes
  PROVE  Inv'
<1>1. Len(heap) \in Nat /\ Len(heap) # 0
  BY TopType DEF Inv, ShapeOf
<1>2. ShapeOf(stack', Len(heap')) /\ RecordReady(stack', Len(heap'))
  <2>1. /\ FrameOK(f, Len(heap')) /\ Len(heap') \in Nat /\ Len(heap) <= Len(heap')
        /\ Len(heap') > 0
        /\ f.rule = "record" /\ f.at = "bc" => f.kid \in ArraysUpTo(Len(heap'))
    BY <1>1
  <2>2. QED
    BY <2>1, Advanced
<1>3. QED
  BY <1>2 DEF Inv

LEMMA ValBOInv ==
  ASSUME Inv, ValBO
  PROVE  Inv'
<1> DEFINE f == [Top EXCEPT !.node = Undef, !.at = "open"]
<1>1. /\ Depth \in Nat \ {0} /\ Top \in Frame /\ Len(heap) \in Nat
      /\ Level(Top.rule) = Depth /\ FrameOK(Top, Len(heap)) /\ Top.rule = "val"
  BY TopType DEF ValBO
<1>2. Depth > 1
  BY <1>1, LevelOf DEF Frame
<1>3. /\ f \in Frame /\ f.rule = "val" /\ f.at = "open" /\ f.node = Undef
      /\ f.n = Top.n /\ f.kid = Top.kid
  BY <1>1 DEF Frame, Node, Phase
<1>4. FrameOK(f, Len(heap))
  BY <1>1, <1>3 DEF FrameOK, Value
<1>5. stack' = [stack EXCEPT ![Depth] = f]
  BY DEF ValBO, Advance
<1>6. HeapOK' /\ Len(heap') = Len(heap)
  BY DEF ValBO, Inv, HeapOK
<1> HIDE DEF f
<1>7. QED
  BY <1>1, <1>2, <1>3, <1>4, <1>5, <1>6, Kept DEF ValBO, Inv

\* The instance below the running one is given a new state.
LEMMA ShapeBelow ==
  ASSUME NEW stk, NEW len \in Nat, ShapeOf(stk, len), NEW depth \in Nat, Len(stk) = depth,
         depth > 1, NEW f \in Frame, FrameOK(f, len),
         NEW i \in Nat, i = depth - 1, Level(f.rule) = i, f.at \in {"bc", "close"}
  PROVE  /\ ShapeOf([stk EXCEPT ![i] = f], len)
         /\ Len([stk EXCEPT ![i] = f]) = depth
         /\ [stk EXCEPT ![i] = f][depth] = stk[depth]
<1>1. /\ i \in 1 .. Len(stk) /\ depth \in 1 .. Len(stk) /\ depth # i
      /\ stk \in Seq(Frame) /\ len <= len
  BY DEF ShapeOf
<1>2. stk[1].at \in {"bc", "close"} /\ len # 0
  BY DEF ShapeOf
<1>3. ShapeOf([stk EXCEPT ![i] = f], len)
  BY <1>1, <1>2, ShapeSet
<1>4. QED
  BY <1>1, <1>3, ExceptSeq

LEMMA TextBCInv ==
  ASSUME Inv, TextBC
  PROVE  Inv'
<1> DEFINE value == IF Top.kid = Undef THEN Top.node ELSE Top.kid
           f == [Top EXCEPT !.at = "close"]
           below == [stack[Depth - 1] EXCEPT !.node = value]
           mid == [stack EXCEPT ![Depth - 1] = below]
<1>1. /\ Depth \in Nat \ {0} /\ Depth = Len(stack) /\ Top \in Frame /\ Len(heap) \in Nat
      /\ Level(Top.rule) = Depth /\ FrameOK(Top, Len(heap)) /\ Top = stack[Depth]
      /\ Top.rule = "text" /\ Top.at = "bc"
      /\ ShapeOf(stack, Len(heap)) /\ stack \in Seq(Frame)
  BY TopType DEF TextBC, Running, Depth, Top, Inv, ShapeOf
<1>2. Depth = 6
  BY <1>1, LevelOf DEF Frame
<1>3. value \in Value
  BY <1>1 DEF FrameOK
<1>4. f \in Frame /\ f.rule = "text" /\ f.at = "close" /\ FrameOK(f, Len(heap))
  BY <1>1, FrameAt DEF Frame, Phase
<1>5. /\ Depth - 1 \in 1 .. Len(stack) /\ Depth - 1 \in 1 .. Len(stack) - 1 /\ Depth - 1 = 5
      /\ Depth \in 1 .. Len(stack)
  BY <1>1, <1>2
<1>6. /\ stack[Depth - 1] \in Frame /\ stack[Depth - 1].at \in {"bc", "close"}
      /\ Level(stack[Depth - 1].rule) = Depth - 1 /\ FrameOK(stack[Depth - 1], Len(heap))
  BY <1>1, <1>5, SMTT(30) DEF ShapeOf
<1>7. /\ below \in Frame /\ Level(below.rule) = Depth - 1 /\ FrameOK(below, Len(heap))
      /\ below.at \in {"bc", "close"}
  <2> HIDE DEF value
  <2>1. stack[Depth - 1].rule = "val"
    BY <1>5, <1>6, LevelOf DEF Frame
  <2>2. value \in Node
    BY <1>3 DEF Value, Node
  <2>3. /\ below \in Frame /\ below.rule = "val" /\ below.at = stack[Depth - 1].at
        /\ below.node = value /\ below.kid = stack[Depth - 1].kid
        /\ below.n = stack[Depth - 1].n
    BY <1>6, <2>1, <2>2 DEF Frame
  <2> HIDE DEF below
  <2>4. QED
    BY <1>3, <1>6, <2>1, <2>3 DEF FrameOK
<1>8. ShapeOf(mid, Len(heap)) /\ Len(mid) = Depth /\ mid[Depth] = Top
  <2> HIDE DEF below
  <2>1. Depth > 1 /\ Depth \in Nat /\ Len(stack) = Depth /\ Depth - 1 \in Nat
    BY <1>1, <1>2
  <2>2. ShapeOf([stack EXCEPT ![Depth - 1] = below], Len(heap))
    BY <1>1, <1>7, <2>1, ShapeBelow
  <2>3. Len(mid) = Depth
    BY <1>1, <1>5, <1>7, ExceptSeq
  <2>4. mid[Depth] = Top
    BY <1>1, <1>5, <1>7, ExceptSeq
  <2>5. QED
    BY <2>2, <2>3, <2>4
<1>9. stack' = [mid EXCEPT ![Depth] = f]
  <2>1. stack' = [[stack EXCEPT ![Depth] = f] EXCEPT ![Depth - 1].node = value]
    BY DEF TextBC, Advance
  <2> HIDE DEF f, value
  <2>2. /\ [stack EXCEPT ![Depth] = f][Depth - 1] = stack[Depth - 1]
        /\ DOMAIN stack = 1 .. Depth /\ Depth # Depth - 1
        /\ stack = [j \in 1 .. Depth |-> stack[j]]
    BY <1>1, <1>5
  <2>3. stack' = [[stack EXCEPT ![Depth] = f] EXCEPT ![Depth - 1] = below]
    BY <2>1, <2>2
  <2> HIDE DEF below
  <2>4. QED
    BY <1>5, <2>2, <2>3
<1>10. /\ ShapeOf(stack', Len(heap)) /\ Len(stack') = Depth /\ stack'[Depth] = f
  <2> HIDE DEF mid, f
  <2>1. /\ Depth \in 1 .. Len(mid) /\ Len(heap) <= Len(heap)
        /\ Level(f.rule) = Depth /\ ~(Depth < Len(mid)) /\ ~(Depth = 1)
        /\ mid \in Seq(Frame)
    BY <1>1, <1>2, <1>4, <1>8 DEF ShapeOf
  <2>2. ShapeOf([mid EXCEPT ![Depth] = f], Len(heap))
    BY <1>1, <1>4, <1>8, <2>1, ShapeSet
  <2>3. QED
    BY <1>4, <1>8, <1>9, <2>1, <2>2, ExceptSeq
<1>11. ShapeOf(stack', Len(heap')) /\ RecordReady(stack', Len(heap')) /\ HeapOK'
  BY <1>4, <1>10 DEF TextBC, RecordReady, Inv, HeapOK
<1>12. QED
  BY <1>11 DEF TextBC, Inv

LEMMA ValBCInv ==
  ASSUME Inv, ValBC
  PROVE  Inv'
<1> DEFINE value == IF Top.node # Undef      THEN Top.node
                    ELSE IF Top.kid # Undef  THEN Top.kid
                    ELSE IF Top.o0 # NoToken THEN ResolveVal(Top.o0)
                    ELSE Undef
           f == [Top EXCEPT !.node = value, !.at = "close"]
<1>1. /\ Depth \in Nat \ {0} /\ Top \in Frame /\ Len(heap) \in Nat
      /\ Level(Top.rule) = Depth /\ FrameOK(Top, Len(heap))
      /\ Top.rule = "val" /\ Top.at = "bc"
  BY TopType DEF ValBC, Running
<1>2. Depth > 1
  BY <1>1, LevelOf DEF Frame
<1>3. value \in Value
  <2>1. Top.node \in Value /\ Top.kid \in Value /\ Undef \in Value
    BY <1>1 DEF FrameOK, Value
  <2>2. Top.o0 \in Token
    BY <1>1 DEF Frame
  <2>3. ResolveVal(Top.o0) \in Value
    BY <2>2, ResolveType DEF Value
  <2>4. QED
    BY <2>1, <2>3
<1>4. /\ f \in Frame /\ f.rule = "val" /\ f.at = "close" /\ f.node = value
      /\ f.n = Top.n /\ f.kid = Top.kid
  <2>1. value \in Node
    BY <1>3 DEF Value, Node
  <2> HIDE DEF value
  <2>2. QED
    BY <1>1, <2>1 DEF Frame, Phase
<1> HIDE DEF value
<1>5. FrameOK(f, Len(heap))
  BY <1>1, <1>3, <1>4 DEF FrameOK
<1>6. stack' = [stack EXCEPT ![Depth] = f]
  BY DEF ValBC, Advance, value
<1>7. HeapOK' /\ Len(heap') = Len(heap)
  BY DEF ValBC, Inv, HeapOK
<1> HIDE DEF f
<1>8. QED
  BY <1>1, <1>2, <1>4, <1>5, <1>6, <1>7, Kept DEF ValBC, Inv

LEMMA ElemBCInv ==
  ASSUME Inv, ElemBC
  PROVE  Inv'
<1> DEFINE f == [Top EXCEPT !.at = "close"]
<1>1. /\ Depth \in Nat \ {0} /\ Top \in Frame /\ Len(heap) \in Nat
      /\ Level(Top.rule) = Depth /\ FrameOK(Top, Len(heap))
      /\ Top.rule = "elem" /\ Top.at = "bc"
  BY TopType DEF ElemBC, Running
<1>2. Depth > 1
  BY <1>1, LevelOf DEF Frame
<1>3. f \in Frame /\ f.rule = "elem" /\ f.at = "close" /\ FrameOK(f, Len(heap))
  BY <1>1, FrameAt DEF Frame, Phase
<1>4. stack' = [stack EXCEPT ![Depth] = f]
  BY DEF ElemBC, Advance
<1>5. HeapOK' /\ Len(heap') = Len(heap)
  <2>1. CASE heap' = heap
    BY <2>1 DEF Inv, HeapOK
  <2>2. CASE Top.kid # Undef /\ heap' = PushCell(Top.kid)
    <3>1. Top.node.a \in 2 .. Len(heap) /\ Top.kid \in Cell
      BY <1>1, <2>2, HeldArray DEF FrameOK, Value, Inv
    <3>2. Top.node.a \in 1 .. Len(heap) /\ Top.node.a # 1
      BY <1>1, <3>1
    <3>3. heap' = [heap EXCEPT ![Top.node.a] = Append(@, Top.kid)]
      BY <2>2 DEF PushCell
    <3>4. QED
      BY <3>1, <3>2, <3>3, HeapPushed DEF Inv
  <2>3. QED
    BY <2>1, <2>2 DEF ElemBC
<1> HIDE DEF f
<1>6. QED
  BY <1>1, <1>2, <1>3, <1>4, <1>5, Kept DEF ElemBC, Inv

\* A record that is to be closed has seen the array of its line.
LEMMA RecordSeen ==
  ASSUME Inv, Running("bc"), Top.rule = "record"
  PROVE  /\ Depth = 2 /\ Top \in Frame /\ Len(heap) \in Nat /\ FrameOK(Top, Len(heap))
         /\ Top.at = "bc" /\ Top.node = Ref(1)
         /\ Top.kid.a \in 2 .. Len(heap) /\ heap[Top.kid.a] \in Seq(Cell)
<1>1. /\ Top \in Frame /\ Len(heap) \in Nat /\ FrameOK(Top, Len(heap)) /\ Level(Top.rule) = Depth
  BY TopType
<1>2. Top.at = "bc"
  BY DEF Running
<1>3. Top.kid \in ArraysUpTo(Len(heap))
  BY <1>2 DEF Inv, RecordReady, Top, Depth
<1>4. Depth = 2 /\ Top.node = Ref(1)
  BY <1>1, LevelOf DEF FrameOK, Frame
<1>5. QED
  BY <1>1, <1>2, <1>3, <1>4, HeldArray DEF Inv

LEMMA RecordHeaderInv ==
  ASSUME Inv, RecordHeader
  PROVE  Inv'
<1> DEFINE f == [Top EXCEPT !.at = "close"]
<1>1. /\ Depth = 2 /\ Top \in Frame /\ Len(heap) \in Nat /\ FrameOK(Top, Len(heap))
      /\ Top.at = "bc" /\ Top.rule = "record" /\ Top.kid.a \in 2 .. Len(heap)
  BY RecordSeen DEF RecordHeader
<1>2. f \in Frame /\ f.rule = "record" /\ f.at = "close" /\ FrameOK(f, Len(heap))
  BY <1>1, FrameAt DEF Frame, Phase
<1>3. stack' = [stack EXCEPT ![Depth] = f]
  BY DEF RecordHeader, Advance
<1>4. HeapOK' /\ Len(heap') = Len(heap)
  BY DEF RecordHeader, Inv, HeapOK
<1>5. recordI' \in Nat /\ fields' \in 2 .. Len(heap)
  BY <1>1 DEF RecordHeader, Inv
<1> HIDE DEF f
<1>6. QED
  BY <1>1, <1>2, <1>3, <1>4, <1>5, Kept DEF RecordHeader, Inv

\* A refused source leaves the rules and the arrays as they are.
LEMMA FailInv ==
  ASSUME Inv, NEW code \in Codes, Fail(code)
  PROVE  Inv'
<1>1. [ev |-> "error", code |-> code] \in Event
  BY DEF Event
<1>2. events' \in Seq(Event) /\ outcome' \in Codes
  BY <1>1, EmitType DEF Fail, ErrorEvents, Inv
<1>3. QED
  BY <1>2 DEF Fail, Inv, HeapOK

LEMMA RecordRefusedInv ==
  ASSUME Inv, RecordRefused
  PROVE  Inv'
<1>1. CountError \in Codes
  BY DEF CountError, Codes
<1>2. QED
  BY <1>1, FailInv DEF RecordRefused

\* A line is shaped into a row.
LEMMA ShapedType ==
  ASSUME Inv, Running("bc"), Top.rule = "record"
  PROVE  Shaped \in Row
<1>1. Record \in Seq(Cell) /\ Top.kid.a \in Nat
  BY RecordSeen DEF Record
<1>2. FieldList \in Seq(Cell)
  <2>1. CASE fields # 0
    <3>1. fields \in 2 .. Len(heap) /\ Len(heap) \in Nat
      BY <2>1, TopType DEF Inv
    <3>2. fields \in 1 .. Len(heap) /\ fields # 1
      BY <3>1
    <3>3. QED
      BY <2>1, <3>2 DEF FieldList, Inv, HeapOK
  <2>2. CASE fields = 0 /\ opts.names # NoNames
    BY <2>2 DEF FieldList, Inv, Options
  <2>3. CASE fields = 0 /\ opts.names = NoNames
    BY <2>3, EmptySeq DEF FieldList
  <2>4. QED
    BY <2>1, <2>2, <2>3
<1>3. Assignments(Record, FieldList) \in Seq(ColumnName \X Cell)
  BY <1>1, <1>2, AssignmentsType
<1>4. QED
  BY <1>1, <1>3 DEF Shaped, ObjectRow, ArrayRow, Row

LEMMA RecordRowInv ==
  ASSUME Inv, RecordRow
  PROVE  Inv'
<1> DEFINE f == [Top EXCEPT !.at = "close"]
<1>1. /\ Depth = 2 /\ Top \in Frame /\ Len(heap) \in Nat /\ FrameOK(Top, Len(heap))
      /\ Top.at = "bc" /\ Top.rule = "record" /\ Top.node = Ref(1)
      /\ Running("bc") /\ Top.kid.a \in 2 .. Len(heap)
  BY RecordSeen DEF RecordRow
<1>2. f \in Frame /\ f.rule = "record" /\ f.at = "close" /\ FrameOK(f, Len(heap))
  BY <1>1, FrameAt DEF Frame, Phase
<1>3. stack' = [stack EXCEPT ![Depth] = f]
  BY DEF RecordRow, Advance
<1>4. Shaped \in Row
  BY <1>1, ShapedType
<1>5. HeapOK' /\ Len(heap') = Len(heap)
  <2>1. CASE opts.stream
    BY <2>1 DEF RecordRow, Inv, HeapOK
  <2>2. CASE ~opts.stream
    <3>1. Top.node.a = 1 /\ 1 \in 1 .. Len(heap)
      BY <1>1 DEF Ref
    <3>2. heap' = [heap EXCEPT ![1] = Append(@, Shaped)]
      BY <2>2, <3>1 DEF RecordRow
    <3>3. QED
      BY <1>4, <3>1, <3>2, HeapPushed DEF Inv
  <2>3. QED
    BY <2>1, <2>2
<1>6. events' \in Seq(Event)
  <2>1. [ev |-> "record", row |-> Shaped] \in Event
    BY <1>4 DEF Event
  <2>2. QED
    BY <2>1, EmitType DEF RecordRow, Inv
<1>7. recordI' \in Nat
  BY DEF RecordRow, Inv
<1> HIDE DEF f
<1>8. QED
  BY <1>1, <1>2, <1>3, <1>5, <1>6, <1>7, Kept DEF RecordRow, Inv

-----------------------------------------------------------------------------
(* The alternates.                                                         *)

\* What a chosen alternate reads and what it pushes onto the arrays.
LEMMA TakenType ==
  ASSUME Inv, Top.at # "bo", NEW alt, AltOK(Top.rule, alt), Take(alt)
  PROVE  /\ pos' \in Nat \ {0} /\ HeapOK' /\ Len(heap') = Len(heap)
         /\ opts' = opts /\ src' = src /\ fields' = fields /\ recordI' = recordI
<1>1. pos' \in Nat \ {0}
  <2>1. pos \in Nat \ {0}
    BY DEF Inv
  <2>2. Len(alt.s) \in Nat /\ alt.b \in 0 .. Len(alt.s)
    BY DEF AltOK
  <2>3. pos' = pos + Len(alt.s) - alt.b
    BY DEF Take, Consumed
  <2>4. QED
    BY <2>1, <2>2, <2>3
<1>2. HeapOK' /\ Len(heap') = Len(heap)
  <2>1. CASE alt.a \notin EmptyActions
    BY <2>1 DEF Inv, HeapOK, Take, HeapAfter
  <2>2. CASE alt.a \in EmptyActions
    <3>1. Top.rule = "elem" /\ FrameOK(Top, Len(heap)) /\ Len(heap) \in Nat
      BY <2>2, TopType DEF AltOK
    <3>2. Top.node.a \in 2 .. Len(heap)
      BY <3>1, HeldArray DEF FrameOK, Inv
    <3>3. Top.node.a \in 1 .. Len(heap) /\ Top.node.a # 1
      BY <3>1, <3>2
    <3>4. heap' = [heap EXCEPT ![Top.node.a] = Append(@, EmptyCell)]
      BY <2>2 DEF Take, HeapAfter, PushCell
    <3>5. QED
      BY <3>3, <3>4, HeapPushed, EmptyCellAssumption DEF Inv
  <2>3. QED
    BY <2>1, <2>2
<1>3. QED
  BY <1>1, <1>2 DEF Take

LEMMA OpenAltOK ==
  ASSUME Inv, NEW alt, alt \in AltsOf(TopOpenAlts) \/ alt \in AltsOf(TopCloseAlts)
  PROVE  AltOK(Top.rule, alt)
<1>1. Top.rule \in Rules /\ opts.empty \in BOOLEAN
  BY TopType DEF Frame, Inv, Options
<1>2. QED
  BY <1>1, AltTypes DEF TopOpenAlts, TopCloseAlts

\* record always pushes list.
LEMMA RecordPushes ==
  ASSUME Top.rule = "record", NEW alt \in AltsOf(TopOpenAlts)
  PROVE  alt.p = "list"
<1>1. Push(Otherwise, "list").p = "list"
  BY DEF Push, Otherwise, Alt
<1>2. QED
  BY <1>1 DEF AltsOf, TopOpenAlts, OpenAlts, RecordOpen

\* The running instance after an alternate, in its next phase.
Moved(alt, phase) == [Acted(alt) EXCEPT !.at = phase]

\* The running instance goes on to a later phase.
LEMMA StaysType ==
  ASSUME Inv, Top.at # "bo", NEW alt, AltOK(Top.rule, alt), NEW left \in BOOLEAN,
         NEW phase \in {"bc", "close"}
  PROVE  /\ ShapeOf([Seen(alt, left) EXCEPT ![Depth] = Moved(alt, phase)], Len(heap))
         /\ Len([Seen(alt, left) EXCEPT ![Depth] = Moved(alt, phase)]) = Depth
         /\ [Seen(alt, left) EXCEPT ![Depth] = Moved(alt, phase)][Depth] = Moved(alt, phase)
         /\ Moved(alt, phase) \in Frame /\ FrameOK(Moved(alt, phase), Len(heap))
         /\ Moved(alt, phase).rule = Top.rule /\ Moved(alt, phase).at = phase
         /\ Moved(alt, phase).node = Acted(alt).node
         /\ Moved(alt, phase).n = Acted(alt).n
<1> DEFINE f == Moved(alt, phase)
<1>1. /\ Depth \in Nat \ {0} /\ Len(heap) \in Nat /\ Level(Top.rule) = Depth
      /\ Depth = 1 => Len(heap) # 0
  BY TopType DEF Inv, ShapeOf, Top
<1>2. /\ Acted(alt) \in Frame /\ FrameOK(Acted(alt), Len(heap))
      /\ Acted(alt).rule = Top.rule /\ Acted(alt).at # "bo"
  BY ActedType
<1>3. phase \in Phase
  BY DEF Phase
<1>4. /\ f \in Frame /\ FrameOK(f, Len(heap)) /\ f.rule = Top.rule /\ f.at = phase
      /\ f.node = Acted(alt).node /\ f.n = Acted(alt).n
  <2>1. f \in Frame /\ FrameOK(f, Len(heap))
    BY <1>1, <1>2, <1>3, FrameAt DEF Moved
  <2>2. QED
    BY <1>2, <2>1 DEF Frame, Moved
<1> HIDE DEF f
<1>5. ShapeOf(Seen(alt, left), Len(heap)) /\ Len(Seen(alt, left)) = Depth
  BY SeenType
<1>6. /\ Depth \in 1 .. Len(Seen(alt, left)) /\ Len(heap) <= Len(heap)
      /\ Level(f.rule) = Depth
      /\ Depth < Len(Seen(alt, left)) => f.at \in {"bc", "close"}
      /\ Depth = 1 => (Len(heap) = 0 <=> f.at = "bo")
  BY <1>1, <1>4, <1>5
<1>7. ShapeOf([Seen(alt, left) EXCEPT ![Depth] = f], Len(heap))
  BY <1>1, <1>4, <1>5, <1>6, ShapeSet
<1>8. /\ Len([Seen(alt, left) EXCEPT ![Depth] = f]) = Depth
      /\ [Seen(alt, left) EXCEPT ![Depth] = f][Depth] = f
  BY <1>4, <1>5, <1>6, ExceptSeq DEF ShapeOf
<1>9. QED
  BY <1>4, <1>7, <1>8 DEF f

\* A pushed child may hold what it is seeded with.
LEMMA ChildOK ==
  ASSUME NEW f \in Frame, NEW len \in Nat, FrameOK(f, len), f.at # "bo",
         NEW child \in Rules, Level(child) = Level(f.rule) + 1
  PROVE  /\ NewFrame(child, f.node, f.n, TRUE) \in Frame
         /\ FrameOK(NewFrame(child, f.node, f.n, TRUE), len)
         /\ NewFrame(child, f.node, f.n, TRUE).rule = child
         /\ NewFrame(child, f.node, f.n, TRUE).at # "bc"
<1> DEFINE g == NewFrame(child, f.node, f.n, TRUE)
<1>1. f.rule \in Rules /\ f.rule # "text"
  BY LevelBelow DEF Frame
<1>2. /\ g \in Frame /\ g.rule = child /\ g.at = FirstPhase(child) /\ g.node = f.node
      /\ g.kid = Undef /\ g.n = 0 /\ g.pushed
  <2>1. f.n = 0 /\ f.node \in Node
    BY <1>1 DEF FrameOK, Frame
  <2>2. FirstPhase(child) \in Phase /\ Undef \in Node /\ NoToken \in Token
    BY DEF FirstPhase, Phase, Node, NoToken, EndOfSource, Token, Kind, Texts
  <2>3. QED
    BY <2>1, <2>2 DEF NewFrame, Frame
<1>3. g.at \in {"bo", "open"} /\ (child \in {"csv", "list", "val"} => g.at = "bo")
  BY <1>2 DEF FirstPhase, HasBO
<1>4. /\ child # "csv"
      /\ child \in {"newline", "record"} => f.rule = "csv"
      /\ child = "elem" => f.rule = "list"
      /\ child = "text" => f.rule = "val"
  BY <1>1, LevelOf
<1>5. QED
  BY <1>2, <1>3, <1>4 DEF FrameOK, Value

\* So may the instance that replaces the running one.
LEMMA HeirOK ==
  ASSUME NEW f \in Frame, NEW len \in Nat, FrameOK(f, len), f.at # "bo",
         f.rule = "text" => f.node \in Cell,
         NEW heir \in Rules \ {"csv", "list"}, Level(heir) = Level(f.rule)
  PROVE  /\ NewFrame(heir, f.node, f.n, FALSE) \in Frame
         /\ FrameOK(NewFrame(heir, f.node, f.n, FALSE), len)
         /\ NewFrame(heir, f.node, f.n, FALSE).rule = heir
         /\ NewFrame(heir, f.node, f.n, FALSE).at # "bc"
<1> DEFINE g == NewFrame(heir, f.node, f.n, FALSE)
<1>1. f.rule \in Rules
  BY DEF Frame
<1>2. /\ g \in Frame /\ g.rule = heir /\ g.at = FirstPhase(heir) /\ g.node = f.node
      /\ g.kid = Undef /\ g.n = f.n
  <2>1. f.n \in Nat /\ f.node \in Node
    BY DEF Frame
  <2>2. FirstPhase(heir) \in Phase /\ Undef \in Node /\ NoToken \in Token
    BY DEF FirstPhase, Phase, Node, NoToken, EndOfSource, Token, Kind, Texts
  <2>3. QED
    BY <2>1, <2>2 DEF NewFrame, Frame
<1>3. g.at \in {"bo", "open"} /\ (heir = "val" => g.at = "bo")
  BY <1>2 DEF FirstPhase, HasBO
<1>4. /\ heir \in {"newline", "record"} <=> f.rule \in {"newline", "record"}
      /\ heir = "elem" <=> f.rule = "elem"
      /\ heir = "val" <=> f.rule = "val"
      /\ heir = "text" <=> f.rule = "text"
  BY <1>1, LevelOf
<1>5. QED
  BY <1>2, <1>3, <1>4 DEF FrameOK, Value

LEMMA OpenPushInv ==
  ASSUME Inv, OpenPush
  PROVE  Inv'
<1>1. PICK alt \in AltsOf(TopOpenAlts) :
        /\ alt.p # "" /\ Take(alt)
        /\ stack' = Append([Seen(alt, FALSE) EXCEPT
                              ![Depth] = [Acted(alt) EXCEPT !.at = AfterOpen(Top.rule)]],
                           NewFrame(alt.p, Acted(alt).node, Acted(alt).n, TRUE))
  BY DEF OpenPush
<1> DEFINE f == Moved(alt, AfterOpen(Top.rule))
           g == NewFrame(alt.p, Acted(alt).node, Acted(alt).n, TRUE)
           below == [Seen(alt, FALSE) EXCEPT ![Depth] = f]
<1>2. /\ Top.at # "bo" /\ AltOK(Top.rule, alt) /\ AfterOpen(Top.rule) \in {"bc", "close"}
  BY OpenAltOK DEF OpenPush, Running, AfterOpen
<1>3. /\ ShapeOf(below, Len(heap)) /\ Len(below) = Depth /\ below[Depth] = f
      /\ f \in Frame /\ FrameOK(f, Len(heap)) /\ f.rule = Top.rule /\ f.at \in {"bc", "close"}
      /\ f.node = Acted(alt).node /\ f.n = Acted(alt).n
  BY <1>2, StaysType
<1>4. Depth \in Nat /\ Len(heap) \in Nat /\ Level(Top.rule) = Depth
  BY TopType
<1>5. g \in Frame /\ FrameOK(g, Len(heap)) /\ g.rule = alt.p /\ g.at # "bc"
      /\ Level(g.rule) = Depth + 1
  <2>1. alt.p \in Rules /\ Level(alt.p) = Level(f.rule) + 1
    BY <1>1, <1>2, <1>3 DEF AltOK
  <2>2. g = NewFrame(alt.p, f.node, f.n, TRUE)
    BY <1>3
  <2> HIDE DEF f, g
  <2>3. QED
    BY <1>3, <1>4, <2>1, <2>2, ChildOK
<1>6. stack' = Append(below, g)
  BY <1>1 DEF Moved
<1> HIDE DEF f, g, below
<1>7. /\ ShapeOf(stack', Len(heap)) /\ Len(stack') = Depth + 1 /\ stack'[Depth + 1] = g
  BY <1>3, <1>4, <1>5, <1>6, ShapePush
<1>8. RecordReady(stack', Len(heap))
  BY <1>5, <1>7 DEF RecordReady
<1>9. QED
  BY <1>1, <1>2, <1>7, <1>8, TakenType DEF OpenPush, Inv

\* An instance of the same depth takes the place of the running one.
LEMMA ShapeTop ==
  ASSUME NEW stk, NEW len \in Nat, ShapeOf(stk, len),
         NEW i \in Nat, i > 1, Len(stk) = i,
         NEW f \in Frame, Level(f.rule) = i, FrameOK(f, len)
  PROVE  /\ ShapeOf([stk EXCEPT ![i] = f], len)
         /\ Len([stk EXCEPT ![i] = f]) = i /\ [stk EXCEPT ![i] = f][i] = f
<1>1. i \in 1 .. Len(stk) /\ len <= len /\ ~(i < Len(stk)) /\ i # 1 /\ stk \in Seq(Frame)
  BY DEF ShapeOf
<1>2. ShapeOf([stk EXCEPT ![i] = f], len)
  BY <1>1, ShapeSet
<1>3. Len([stk EXCEPT ![i] = f]) = Len(stk) /\ [stk EXCEPT ![i] = f][i] = f
  BY <1>1, ExceptSeq
<1>4. QED
  BY <1>2, <1>3

\* The running instance gives way to another.
LEMMA ReplacedType ==
  ASSUME Inv, Top.at # "bo", NEW alt, AltOK(Top.rule, alt), NEW heir \in Rules, alt.r = heir
  PROVE  ShapeOf(Replaced(alt), Len(heap)) /\ RecordReady(Replaced(alt), Len(heap))
<1> DEFINE g == NewFrame(alt.r, Acted(alt).node, Acted(alt).n, FALSE)
           seen == Seen(alt, TRUE)
<1>1. /\ Depth \in Nat \ {0} /\ Len(heap) \in Nat /\ Level(Top.rule) = Depth /\ Top \in Frame
  BY TopType
<1>2. /\ Acted(alt) \in Frame /\ FrameOK(Acted(alt), Len(heap))
      /\ Acted(alt).rule = Top.rule /\ Acted(alt).at # "bo"
      /\ alt.n = 1 => Acted(alt).node \in Cell
  BY ActedType
<1>3. /\ alt.r \in Rules \ {"csv", "list"} /\ Level(alt.r) = Level(Acted(alt).rule)
      /\ Acted(alt).rule = "text" => Acted(alt).node \in Cell
  <2>1. alt.r # ""
    BY DEF Rules
  <2>2. QED
    BY <1>2, <2>1 DEF AltOK
<1>4. g \in Frame /\ FrameOK(g, Len(heap)) /\ g.rule = alt.r /\ g.at # "bc"
  BY <1>1, <1>2, <1>3, HeirOK
<1>5. ShapeOf(seen, Len(heap)) /\ Len(seen) = Depth
  BY SeenType
<1>6. Replaced(alt) = [seen EXCEPT ![Depth] = g]
  BY DEF Replaced
<1> HIDE DEF g, seen
<1>7. Level(g.rule) = Depth /\ Depth # 1
  BY <1>1, <1>2, <1>3, <1>4, LevelOf DEF Frame
<1>8. Depth \in Nat \ {0} /\ Depth \in Nat /\ Depth > 1
  BY <1>1, <1>7
<1>9. /\ ShapeOf([seen EXCEPT ![Depth] = g], Len(heap))
      /\ Len([seen EXCEPT ![Depth] = g]) = Depth
      /\ [seen EXCEPT ![Depth] = g][Depth] = g
  <2>1. ShapeOf([seen EXCEPT ![Depth] = g], Len(heap))
    BY <1>1, <1>4, <1>5, <1>7, <1>8, ShapeTop
  <2>2. Depth \in 1 .. Len(seen)
    BY <1>5, <1>8
  <2>3. seen \in Seq(Frame)
    BY <1>5 DEF ShapeOf
  <2>4. QED
    BY <1>4, <1>5, <2>1, <2>2, <2>3, ExceptSeq
<1>10. QED
  BY <1>4, <1>6, <1>9 DEF RecordReady

LEMMA ReplacedInv ==
  ASSUME Inv, Top.at # "bo", NEW alt, AltOK(Top.rule, alt), alt.r # "", Take(alt),
         stack' = Replaced(alt), events' = events, outcome' = outcome
  PROVE  Inv'
<1>1. ShapeOf(stack', Len(heap)) /\ RecordReady(stack', Len(heap))
  <2>1. alt.r \in Rules
    BY DEF AltOK
  <2>2. QED
    BY <2>1, ReplacedType
<1>2. QED
  BY <1>1, TakenType DEF Inv

LEMMA OpenReplaceInv ==
  ASSUME Inv, OpenReplace
  PROVE  Inv'
<1>1. PICK alt \in AltsOf(TopOpenAlts) : alt.r # "" /\ Take(alt) /\ stack' = Replaced(alt)
  BY DEF OpenReplace
<1>2. Top.at # "bo" /\ AltOK(Top.rule, alt)
  BY OpenAltOK DEF OpenReplace, Running
<1>3. QED
  BY <1>1, <1>2, ReplacedInv DEF OpenReplace

LEMMA CloseReplaceInv ==
  ASSUME Inv, CloseReplace
  PROVE  Inv'
<1>1. PICK alt \in AltsOf(TopCloseAlts) : alt.r # "" /\ Take(alt) /\ stack' = Replaced(alt)
  BY DEF CloseReplace
<1>2. Top.at # "bo" /\ AltOK(Top.rule, alt)
  BY OpenAltOK DEF CloseReplace, Running
<1>3. QED
  BY <1>1, <1>2, ReplacedInv DEF CloseReplace

LEMMA OpenStayInv ==
  ASSUME Inv, OpenStay
  PROVE  Inv'
<1>1. PICK alt \in AltsOf(TopOpenAlts) :
        /\ alt.p = "" /\ Take(alt)
        /\ stack' = [Seen(alt, FALSE) EXCEPT
                       ![Depth] = [Acted(alt) EXCEPT !.at = AfterOpen(Top.rule)]]
  BY DEF OpenStay
<1> DEFINE f == Moved(alt, AfterOpen(Top.rule))
<1>2. /\ Top.at # "bo" /\ AltOK(Top.rule, alt) /\ AfterOpen(Top.rule) \in {"bc", "close"}
  BY OpenAltOK DEF OpenStay, Running, AfterOpen
<1>3. /\ ShapeOf(stack', Len(heap)) /\ Len(stack') = Depth /\ stack'[Depth] = f
      /\ f.rule = Top.rule
  BY <1>1, <1>2, StaysType DEF Moved
<1>4. Top.rule # "record"
  BY <1>1, RecordPushes
<1>5. RecordReady(stack', Len(heap))
  BY <1>3, <1>4 DEF RecordReady
<1>6. QED
  BY <1>1, <1>2, <1>3, <1>5, TakenType DEF OpenStay, Inv

LEMMA ClosePopInv ==
  ASSUME Inv, ClosePop
  PROVE  Inv'
<1>1. PICK alt \in AltsOf(TopCloseAlts) :
        Take(alt) /\ stack' = SubSeq(Seen(alt, TRUE), 1, Depth - 1)
  BY DEF ClosePop
<1>2. /\ Top.at # "bo" /\ Depth > 1 /\ AltOK(Top.rule, alt)
  BY OpenAltOK DEF ClosePop, Running
<1>3. /\ Depth \in Nat /\ Len(heap) \in Nat /\ Level(Top.rule) = Depth /\ Top \in Frame
      /\ FrameOK(Top, Len(heap)) /\ Depth = Len(stack) /\ ShapeOf(stack, Len(heap))
  BY TopType DEF Depth, Inv
<1>4. /\ ShapeOf(Seen(alt, TRUE), Len(heap)) /\ Len(Seen(alt, TRUE)) = Depth
      /\ Seen(alt, TRUE)[Depth - 1].rule = stack[Depth - 1].rule
      /\ Top.pushed => Seen(alt, TRUE)[Depth - 1].kid = Acted(alt).node
  BY <1>2, SeenType
<1>5. /\ ShapeOf(stack', Len(heap)) /\ Len(stack') = Depth - 1
      /\ stack'[Depth - 1] = Seen(alt, TRUE)[Depth - 1]
  BY <1>1, <1>2, <1>3, <1>4, ShapePop
<1>6. ASSUME stack'[Depth - 1].rule = "record"
      PROVE  stack'[Depth - 1].kid \in ArraysUpTo(Len(heap))
  <2>1. Depth - 1 \in 1 .. Len(stack) /\ stack[Depth - 1].rule = "record"
    <3>1. Depth - 1 \in 1 .. Len(stack)
      BY <1>2, <1>3
    <3>2. QED
      BY <1>4, <1>5, <1>6, <3>1
  <2>2. Level(stack[Depth - 1].rule) = Depth - 1 /\ stack[Depth - 1] \in Frame
    BY <1>3, <2>1 DEF ShapeOf
  <2>3. Level(Top.rule) = Level(stack[Depth - 1].rule) + 1
    BY <1>3, <2>2
  <2>4. Top.rule = "list"
    BY <1>3, <2>1, <2>2, <2>3, LevelBelow DEF Frame
  <2>5. alt.n # 1
    BY <1>2, <2>4 DEF AltOK
  <2>6. Acted(alt).node = Top.node
    BY <1>2, <2>5, ActedType DEF AltOK
  <2>7. QED
    BY <1>2, <1>3, <1>4, <1>5, <2>4, <2>6 DEF FrameOK
<1>7. RecordReady(stack', Len(heap))
  BY <1>5, <1>6 DEF RecordReady
<1>8. QED
  BY <1>1, <1>2, <1>5, <1>7, TakenType DEF ClosePop, Inv

LEMMA CsvCloseInv ==
  ASSUME Inv, CsvClose
  PROVE  Inv'
<1>1. [ev |-> "end"] \in Event
  BY DEF Event
<1>2. events' \in Seq(Event) /\ outcome' = "done"
  BY <1>1, EmitType DEF CsvClose
<1>3. QED
  BY <1>2 DEF CsvClose, Inv, HeapOK

LEMMA UnexpectedInv ==
  ASSUME Inv, Unexpected
  PROVE  Inv'
<1>1. "unexpected" \in Codes
  BY DEF Codes
<1>2. QED
  BY <1>1, FailInv DEF Unexpected

LEMMA ThrownInv ==
  ASSUME Inv, NEW event \in Event, Thrown(event), recordI' \in Nat
  PROVE  Inv'
<1>1. [ev |-> "error", code |-> "thrown"] \in Event /\ "thrown" \in Codes
  BY DEF Event, Codes
<1>2. events \in Seq(Event)
  BY DEF Inv
<1>3. events \o <<event, [ev |-> "error", code |-> "thrown"]>> \in Seq(Event)
  BY <1>1, <1>2
<1>4. Append(events, event) \in Seq(Event)
  BY <1>2
<1>5. events' \in Seq(Event) /\ outcome' \in Codes
  BY <1>1, <1>3, <1>4 DEF Thrown
<1>6. QED
  BY <1>5 DEF Thrown, Inv, HeapOK

LEMMA CallbackThrowsInv ==
  ASSUME Inv, CallbackThrows
  PROVE  Inv'
<1>1. CASE Thrown([ev |-> "start"]) /\ recordI' = 0
  <2>1. [ev |-> "start"] \in Event
    BY DEF Event
  <2>2. QED
    BY <1>1, <2>1, ThrownInv
<1>2. CASE /\ Running("bc") /\ Top.rule = "record"
           /\ Thrown([ev |-> "record", row |-> Shaped]) /\ recordI' = recordI
  <2>1. [ev |-> "record", row |-> Shaped] \in Event
    BY <1>2, ShapedType DEF Event
  <2>2. recordI' \in Nat
    BY <1>2 DEF Inv
  <2>3. QED
    BY <1>2, <2>1, <2>2, ThrownInv
<1>3. CASE Thrown([ev |-> "end"]) /\ recordI' = recordI
  <2>1. [ev |-> "end"] \in Event /\ recordI' \in Nat
    BY <1>3 DEF Event, Inv
  <2>2. QED
    BY <1>3, <2>1, ThrownInv
<1>4. QED
  BY <1>1, <1>2, <1>3 DEF CallbackThrows

-----------------------------------------------------------------------------
(* The theorems.                                                           *)

LEMMA InitInv ==
  ASSUME Init
  PROVE  Inv
<1> DEFINE f == NewFrame("csv", Undef, 0, FALSE)
<1>1. /\ f \in Frame /\ f.rule = "csv" /\ f.at = "bo" /\ f.n = 0
  <2>1. /\ FirstPhase("csv") = "bo" /\ "bo" \in Phase /\ Undef \in Node /\ NoToken \in Token
        /\ "csv" \in Rules
    BY DEF FirstPhase, HasBO, Phase, Node, NoToken, EndOfSource, Token, Kind, Texts, Rules
  <2>2. QED
    BY <2>1 DEF NewFrame, Frame
<1>2. Level("csv") = 1
  BY DEF Level
<1>3. stack = <<f>> /\ heap = <<>> /\ Len(heap) = 0
  BY DEF Init
<1> HIDE DEF f
<1>4. stack \in Seq(Frame) /\ stack # <<>> /\ Len(stack) = 1 /\ stack[1] = f
  BY <1>1, <1>3
<1>5. FrameOK(f, Len(heap))
  BY <1>1 DEF FrameOK
<1>6. ShapeOf(stack, Len(heap)) /\ RecordReady(stack, Len(heap))
  BY <1>1, <1>2, <1>3, <1>4, <1>5 DEF ShapeOf, RecordReady
<1>7. HeapOK /\ events \in Seq(Event)
  BY <1>3 DEF HeapOK, Init
<1>8. QED
  BY <1>6, <1>7 DEF Init, Inv

LEMMA StepInv ==
  ASSUME Inv, [Next]_vars
  PROVE  Inv'
<1>1. CASE CsvBO
  BY <1>1, CsvBOInv
<1>2. CASE ListBO
  BY <1>2, ListBOInv
<1>3. CASE ValBO
  BY <1>3, ValBOInv
<1>4. CASE TextBC
  BY <1>4, TextBCInv
<1>5. CASE ValBC
  BY <1>5, ValBCInv
<1>6. CASE ElemBC
  BY <1>6, ElemBCInv
<1>7. CASE RecordBC
  BY <1>7, RecordHeaderInv, RecordRefusedInv, RecordRowInv DEF RecordBC
<1>8. CASE OpenPush
  BY <1>8, OpenPushInv
<1>9. CASE OpenReplace
  BY <1>9, OpenReplaceInv
<1>10. CASE OpenStay
  BY <1>10, OpenStayInv
<1>11. CASE CloseReplace
  BY <1>11, CloseReplaceInv
<1>12. CASE ClosePop
  BY <1>12, ClosePopInv
<1>13. CASE CsvClose
  BY <1>13, CsvCloseInv
<1>14. CASE Unexpected
  BY <1>14, UnexpectedInv
<1>15. CASE CallbackThrows
  BY <1>15, CallbackThrowsInv
<1>16. CASE UNCHANGED vars
  BY <1>16 DEF vars, Inv, HeapOK
<1>17. QED
  BY <1>1, <1>2, <1>3, <1>4, <1>5, <1>6, <1>7, <1>8, <1>9, <1>10, <1>11, <1>12, <1>13,
     <1>14, <1>15, <1>16 DEF Next, Step, Returned

LEMMA Invariance == Spec => []Inv
<1>1. Init => Inv
  BY InitInv
<1>2. Inv /\ [Next]_vars => Inv'
  BY StepInv
<1>3. QED
  BY <1>1, <1>2, PTL DEF Spec

\* Every variable keeps its type, whatever the source, the options and the port.
THEOREM TypeCorrect == Spec => []TypeOK
<1>1. Inv => TypeOK
  <2>1. ASSUME Inv PROVE fields \in Nat
    BY <2>1, TopType DEF Inv
  <2>2. QED
    BY <2>1 DEF Inv, TypeOK, ShapeOf, HeapOK
<1>2. QED
  BY <1>1, Invariance, PTL

\* The document array holds records and the array of a line cells: no cell is
\* ever pushed onto the document list is seeded with, whatever the source, the
\* options and the port.
THEOREM CellsStayInTheirLine == Spec => []NoLeak
<1>1. Inv => NoLeak
  <2>1. SUFFICES ASSUME Inv, NEW a \in DOMAIN heap, NEW i \in DOMAIN heap[a]
                 PROVE  heap[a][i] \in (IF a = 1 THEN Row ELSE Cell)
    BY DEF NoLeak
  <2>2. heap[a] \in Seq(IF a = 1 THEN Row ELSE Cell)
    <3>1. heap \in Seq(Seq(Cell \union Row))
      BY <2>1 DEF Inv, HeapOK
    <3>2. a \in 1 .. Len(heap)
      BY <3>1, LenProperties
    <3>3. QED
      BY <2>1, <3>2 DEF Inv, HeapOK
  <2>3. QED
    BY <2>1, <2>2, ElementOfSeq
<1>2. QED
  BY <1>1, Invariance, PTL

-----------------------------------------------------------------------------
(* What a caller may rely on once it has a record: the records share no    *)
(* array, nothing changes one that was handed out, and under field.exact   *)
(* each has the columns of the header.  On top of Inv, it takes that the   *)
(* array of the line being read is nobody else's.                          *)

\* The arrays that were handed out, and the header's (or 0).
GivenAway == {fields} \union {RowAt(i).a : i \in {j \in RowPlaces : RowAt(j).k = "array"}}

\* What a rule fills, or is about to hand out, was not handed out.
FrameFresh(f, taken) ==
  /\ f.rule \in {"list", "elem"} /\ f.at # "bo" => f.node.a \notin taken
  /\ f.rule = "record" /\ f.at # "close" /\ f.kid # Undef => f.kid.a \notin taken

StackFresh(stk, taken) == \A i \in 1 .. Len(stk) : FrameFresh(stk[i], taken)

Separate ==
  /\ \A i \in RowPlaces :
       RowAt(i).k = "array" => RowAt(i).a \in 2 .. Len(heap) /\ RowAt(i).a # fields
  /\ \A i, j \in RowPlaces : i # j /\ RowAt(i).k = "array" => RowAt(j) # RowAt(i)

\* No record before the header is read.
HeaderFirst == outcome = "run" /\ (recordI = 0 \/ heap = <<>>) => RowPlaces = {}

HandedInv ==
  /\ Inv
  /\ Separate
  /\ outcome = "run" => StackFresh(stack, GivenAway)
  /\ HeaderFirst
  /\ ExactRows

-----------------------------------------------------------------------------
(* The records.                                                            *)

LEMMA HeapType ==
  ASSUME Inv
  PROVE  /\ Len(heap) \in Nat /\ DOMAIN heap = 1 .. Len(heap)
         /\ heap \in Seq(Seq(Cell \union Row))
         /\ heap = <<>> <=> Len(heap) = 0
         /\ heap # <<>> => heap[1] \in Seq(Row)
<1>1. heap \in Seq(Seq(Cell \union Row)) /\ Len(heap) \in Nat /\ (heap = <<>> <=> Len(heap) = 0)
  BY TopType DEF Inv, HeapOK
<1>2. ASSUME heap # <<>> PROVE heap[1] \in Seq(Row)
  <2>1. 1 \in 1 .. Len(heap)
    BY <1>1, <1>2
  <2>2. QED
    BY <2>1 DEF Inv, HeapOK
<1>3. QED
  BY <1>1, <1>2

LEMMA RowType ==
  ASSUME Inv, NEW i \in RowPlaces
  PROVE  RowAt(i) \in Row /\ (RowAt(i).k = "array" => RowAt(i) = ArrayRow(RowAt(i).a))
<1>1. CASE opts.stream
  <2>1. i \in DOMAIN events /\ events[i].ev = "record" /\ events \in Seq(Event)
    BY <1>1 DEF RowPlaces, Inv
  <2>2. events[i] \in Event
    BY <2>1, ElementOfSeq, LenProperties
  <2>3. events[i].row \in Row
    BY <2>1, <2>2 DEF Event
  <2>4. QED
    BY <1>1, <2>3 DEF RowAt, Row, ArrayRow
<1>2. CASE ~opts.stream
  <2>1. heap # <<>> /\ i \in DOMAIN heap[1] /\ heap[1] \in Seq(Row)
    BY <1>2, HeapType DEF RowPlaces
  <2>2. heap[1][i] \in Row
    BY <2>1, ElementOfSeq, LenProperties
  <2>3. QED
    BY <1>2, <2>2 DEF RowAt, Row, ArrayRow
<1>3. QED
  BY <1>1, <1>2

\* Calls of the callback add the records they hand out.
LEMMA CallsAdd ==
  ASSUME Inv, opts.stream, opts' = opts, NEW calls \in Seq(Event), events' = events \o calls
  PROVE  /\ RowPlaces' = RowPlaces \union
              {Len(events) + j : j \in {k \in DOMAIN calls : calls[k].ev = "record"}}
         /\ \A i \in RowPlaces : i \in 1 .. Len(events) /\ RowAt(i)' = RowAt(i)
         /\ \A j \in DOMAIN calls, i \in Nat : i = Len(events) + j => RowAt(i)' = calls[j].row
<1>1. /\ events \in Seq(Event) /\ Len(events) \in Nat /\ Len(calls) \in Nat
      /\ DOMAIN events = 1 .. Len(events) /\ DOMAIN calls = 1 .. Len(calls)
  BY LenProperties DEF Inv
<1>2. /\ Len(events') = Len(events) + Len(calls)
      /\ DOMAIN events' = 1 .. (Len(events) + Len(calls))
      /\ \A i \in 1 .. Len(events) : events'[i] = events[i]
      /\ \A j \in 1 .. Len(calls) : events'[Len(events) + j] = calls[j]
  BY <1>1
<1>3. RowPlaces = {i \in 1 .. Len(events) : events[i].ev = "record"}
  BY <1>1 DEF RowPlaces
<1>4. RowPlaces' = {i \in 1 .. (Len(events) + Len(calls)) : events'[i].ev = "record"}
  BY <1>2 DEF RowPlaces
<1>5. RowPlaces' = RowPlaces \union
        {Len(events) + j : j \in {k \in 1 .. Len(calls) : calls[k].ev = "record"}}
  <2>1. ASSUME NEW i \in RowPlaces', i \notin 1 .. Len(events)
        PROVE  \E j \in 1 .. Len(calls) : calls[j].ev = "record" /\ i = Len(events) + j
    <3>1. i - Len(events) \in 1 .. Len(calls) /\ i = Len(events) + (i - Len(events))
      BY <1>1, <1>4, <2>1
    <3>2. QED
      BY <1>2, <1>4, <3>1
  <2>2. ASSUME NEW i \in RowPlaces', i \in 1 .. Len(events) PROVE i \in RowPlaces
    BY <1>2, <1>3, <1>4, <2>2
  <2>3. ASSUME NEW i \in RowPlaces PROVE i \in RowPlaces'
    BY <1>1, <1>2, <1>3, <1>4
  <2>4. ASSUME NEW j \in 1 .. Len(calls), calls[j].ev = "record"
        PROVE  Len(events) + j \in RowPlaces'
    BY <1>1, <1>2, <1>4, <2>4
  <2>5. QED
    BY <2>1, <2>2, <2>3, <2>4
<1>6. ASSUME NEW i \in RowPlaces PROVE i \in 1 .. Len(events) /\ RowAt(i)' = RowAt(i)
  BY <1>2, <1>3 DEF RowAt
<1>7. ASSUME NEW j \in DOMAIN calls, NEW i \in Nat, i = Len(events) + j
      PROVE  RowAt(i)' = calls[j].row
  <2>1. events'[i] = calls[j]
    BY <1>1, <1>2, <1>7
  <2>2. QED
    BY <2>1 DEF RowAt
<1>8. QED
  BY <1>1, <1>5, <1>6, <1>7

\* Where no record is handed out, the records stay: the callback is told
\* something else, and the document keeps its rows.
RowsKept == RowPlaces' = RowPlaces /\ \A i \in RowPlaces : RowAt(i)' = RowAt(i)

\* One record more.
RowAdded(row) ==
  /\ \A i \in RowPlaces : RowAt(i)' = RowAt(i)
  /\ \E place \in Nat : /\ place \notin RowPlaces /\ RowPlaces' = RowPlaces \union {place}
                        /\ \A i \in RowPlaces : i < place
                        /\ RowAt(place)' = row

LEMMA CallsWithout ==
  ASSUME Inv, opts.stream, opts' = opts, NEW calls \in Seq(Event), events' = events \o calls,
         \A j \in DOMAIN calls : calls[j].ev # "record"
  PROVE  RowsKept
<1>1. {Len(events) + j : j \in {k \in DOMAIN calls : calls[k].ev = "record"}} = {}
  OBVIOUS
<1>2. QED
  BY <1>1, CallsAdd DEF RowsKept

LEMMA CallsWith ==
  ASSUME Inv, opts.stream, opts' = opts, NEW calls \in Seq(Event), events' = events \o calls,
         1 \in DOMAIN calls, calls[1].ev = "record",
         \A j \in DOMAIN calls \ {1} : calls[j].ev # "record"
  PROVE  RowAdded(calls[1].row)
<1>1. {k \in DOMAIN calls : calls[k].ev = "record"} = {1}
  OBVIOUS
<1>2. Len(events) \in Nat
  BY LenProperties DEF Inv
<1>3. /\ RowPlaces' = RowPlaces \union {Len(events) + 1}
      /\ \A i \in RowPlaces : i \in 1 .. Len(events) /\ RowAt(i)' = RowAt(i)
      /\ \A i \in Nat : i = Len(events) + 1 => RowAt(i)' = calls[1].row
  BY <1>1, CallsAdd
<1>4. PICK place \in Nat : place = Len(events) + 1
  BY <1>2
<1>5. place \notin RowPlaces /\ \A i \in RowPlaces : i < place
  BY <1>2, <1>3, <1>4
<1>6. QED
  BY <1>3, <1>4, <1>5 DEF RowAdded

\* What Emit and Append make of the calls.
LEMMA OneCall ==
  ASSUME Inv, NEW event \in Event
  PROVE  /\ <<event>> \in Seq(Event) /\ Append(events, event) = events \o <<event>>
         /\ DOMAIN <<event>> = {1} /\ <<event>>[1] = event
BY DEF Inv

LEMMA OneCallWithout ==
  ASSUME Inv, opts.stream, opts' = opts, NEW event \in Event, event.ev # "record",
         events' = Append(events, event)
  PROVE  RowsKept
<1>1. PICK calls \in Seq(Event) : calls = <<event>> /\ events' = events \o calls
  BY OneCall
<1>2. \A j \in DOMAIN calls : calls[j].ev # "record"
  BY <1>1
<1>3. QED
  BY <1>1, <1>2, CallsWithout

\* A parse that collects its records keeps them while the document stays.
LEMMA DocumentKept ==
  ASSUME Inv, ~opts.stream, opts' = opts,
         heap = <<>> => heap' = <<>> \/ heap'[1] = <<>>,
         heap # <<>> => heap' # <<>> /\ heap'[1] = heap[1]
  PROVE  RowsKept
BY DEF RowsKept, RowPlaces, RowAt

LEMMA DocumentLonger ==
  ASSUME Inv, ~opts.stream, opts' = opts, NEW row, heap # <<>>,
         heap' = [heap EXCEPT ![1] = Append(@, row)]
  PROVE  RowAdded(row)
<1>1. heap[1] \in Seq(Row) /\ 1 \in DOMAIN heap
  BY HeapType
<1>2. heap'[1] = Append(heap[1], row) /\ heap' # <<>>
  BY <1>1, HeapType
<1>3. /\ Len(heap[1]) \in Nat /\ DOMAIN heap[1] = 1 .. Len(heap[1])
      /\ DOMAIN heap'[1] = 1 .. (Len(heap[1]) + 1)
      /\ \A i \in 1 .. Len(heap[1]) : heap'[1][i] = heap[1][i]
      /\ heap'[1][Len(heap[1]) + 1] = row
  BY <1>1, <1>2
<1>4. RowPlaces = 1 .. Len(heap[1]) /\ RowPlaces' = 1 .. (Len(heap[1]) + 1)
  BY <1>2, <1>3 DEF RowPlaces
<1>5. \A i \in RowPlaces : RowAt(i)' = RowAt(i)
  BY <1>3, <1>4 DEF RowAt
<1>6. PICK place \in Nat : place = Len(heap[1]) + 1
  BY <1>3
<1>7. /\ place \notin RowPlaces /\ RowPlaces' = RowPlaces \union {place} /\ RowAt(place)' = row
      /\ \A i \in RowPlaces : i < place
  BY <1>3, <1>4, <1>6 DEF RowAt
<1>8. QED
  BY <1>5, <1>7 DEF RowAdded

-----------------------------------------------------------------------------
(* The arrays.                                                             *)

\* A step leaves the arrays that were handed out as they are, and the document
\* its rows.
HeapSpared ==
  /\ Len(heap') \in Nat /\ Len(heap) <= Len(heap')
  /\ \A a \in 2 .. Len(heap) : a \in GivenAway => heap'[a] = heap[a]
  /\ heap = <<>> => heap' = <<>> \/ heap'[1] = <<>>
  /\ heap # <<>> => heap' # <<>> /\ heap'[1] = heap[1]

LEMMA HeapSame ==
  ASSUME Inv, heap' = heap
  PROVE  HeapSpared
BY HeapType DEF HeapSpared

LEMMA HeapLonger ==
  ASSUME Inv, heap' = Append(heap, <<>>)
  PROVE  HeapSpared
<1>1. heap \in Seq(Seq(Cell \union Row)) /\ Len(heap) \in Nat /\ (heap = <<>> <=> Len(heap) = 0)
  BY HeapType
<1>2. /\ Len(heap') = Len(heap) + 1 /\ heap' # <<>>
      /\ \A a \in 1 .. Len(heap) : heap'[a] = heap[a]
      /\ heap'[Len(heap) + 1] = <<>>
  BY <1>1
<1>3. heap = <<>> => heap'[1] = <<>>
  BY <1>1, <1>2
<1>4. QED
  BY <1>1, <1>2, <1>3 DEF HeapSpared

\* A cell goes into the array of the running elem, which is nobody else's.
LEMMA HeapFilled ==
  ASSUME HandedInv, outcome = "run", Top.rule = "elem", Top.at # "bo",
         NEW cell, heap' = PushCell(cell)
  PROVE  HeapSpared
<1>1. /\ Inv /\ FrameOK(Top, Len(heap)) /\ HeapOK /\ Depth \in 1 .. Len(stack)
  BY TopType DEF HandedInv, Inv, Depth
<1>2. Top.node.a \in 2 .. Len(heap)
  BY <1>1, HeldArray DEF FrameOK
<1>3. Top.node.a \notin GivenAway
  BY <1>1 DEF HandedInv, StackFresh, FrameFresh, Top
<1>4. Len(heap) \in Nat /\ heap \in Seq(Seq(Cell \union Row)) /\ DOMAIN heap = 1 .. Len(heap)
  BY <1>1, HeapType
<1>5. /\ Len(heap') = Len(heap)
      /\ \A a \in 1 .. Len(heap) : a # Top.node.a => heap'[a] = heap[a]
  BY <1>4 DEF PushCell
<1>6. heap # <<>> /\ heap' # <<>>
  BY <1>2, <1>4, <1>5
<1>7. QED
  BY <1>2, <1>3, <1>4, <1>5, <1>6 DEF HeapSpared

LEMMA TakeSpares ==
  ASSUME HandedInv, outcome = "run", Top.at # "bo", NEW alt, AltOK(Top.rule, alt), Take(alt)
  PROVE  HeapSpared
<1>1. CASE alt.a \in EmptyActions
  BY <1>1, HeapFilled DEF AltOK, Take, HeapAfter
<1>2. CASE alt.a \notin EmptyActions
  BY <1>2, HeapSame DEF HandedInv, Take, HeapAfter
<1>3. QED
  BY <1>1, <1>2

LEMMA QuietRows ==
  ASSUME Inv, opts' = opts, HeapSpared, events' = events
  PROVE  RowsKept
<1>1. CASE opts.stream
  BY <1>1 DEF RowsKept, RowPlaces, RowAt
<1>2. CASE ~opts.stream
  BY <1>2, DocumentKept DEF HeapSpared
<1>3. QED
  BY <1>1, <1>2

LEMMA EmitRows ==
  ASSUME Inv, opts' = opts, HeapSpared, NEW event \in Event, event.ev # "record",
         events' = Emit(event)
  PROVE  RowsKept
<1>1. CASE opts.stream
  BY <1>1, OneCallWithout DEF Emit
<1>2. CASE ~opts.stream
  BY <1>2, QuietRows DEF Emit
<1>3. QED
  BY <1>1, <1>2

LEMMA FailRows ==
  ASSUME Inv, NEW code \in Codes, Fail(code)
  PROVE  HeapSpared /\ RowsKept
<1>1. HeapSpared
  BY HeapSame DEF Fail
<1>2. [ev |-> "error", code |-> code] \in Event
  BY DEF Event
<1>3. CASE opts.stream /\ Port = "ts"
  <2>1. events' = Append(events, [ev |-> "error", code |-> code]) /\ opts' = opts
    BY <1>3 DEF Fail, ErrorEvents
  <2>2. QED
    BY <1>1, <1>2, <1>3, <2>1, OneCallWithout
<1>4. CASE ~(opts.stream /\ Port = "ts")
  <2>1. events' = events /\ opts' = opts
    BY <1>4 DEF Fail, ErrorEvents
  <2>2. QED
    BY <1>1, <2>1, QuietRows
<1>5. QED
  BY <1>1, <1>3, <1>4

-----------------------------------------------------------------------------
(* The invariant.                                                          *)

LEMMA TakenKept ==
  ASSUME RowsKept, fields' = fields
  PROVE  GivenAway' = GivenAway
BY DEF RowsKept, GivenAway

\* The field list stands once a row was shaped by it.
LEMMA FieldListKept ==
  ASSUME Inv, opts' = opts, fields' = fields, \A a \in 2 .. Len(heap) : a \in GivenAway => heap'[a] = heap[a]
  PROVE  FieldList' = FieldList /\ (HasFields' <=> HasFields)
<1>1. fields # 0 => fields \in 2 .. Len(heap)
  BY DEF Inv
<1>2. fields # 0 => heap'[fields] = heap[fields]
  BY <1>1 DEF GivenAway
<1>3. QED
  BY <1>2 DEF FieldList, HasFields

\* What ExactRows asks of one record.
ExactRow(row) ==
  IF row.k = "array" THEN Len(heap[row.a]) = Len(FieldList)
  ELSE /\ Len(row.o) = Len(FieldList)
       /\ \A j \in DOMAIN FieldList : row.o[j][1] = NamedBy(FieldList[j])

LEMMA ExactRowKept ==
  ASSUME HandedInv, NEW i \in RowPlaces, HeapSpared, FieldList' = FieldList,
         NEW row, row = RowAt(i), ExactRow(row)
  PROVE  ExactRow(row)'
<1>1. CASE row.k = "array"
  <2>1. row.a \in 2 .. Len(heap) /\ row.a \in GivenAway
    BY <1>1 DEF HandedInv, Separate, GivenAway
  <2>2. heap'[row.a] = heap[row.a]
    BY <2>1 DEF HeapSpared
  <2>3. QED
    BY <1>1, <2>2 DEF ExactRow
<1>2. CASE row.k # "array"
  BY <1>2 DEF ExactRow
<1>3. QED
  BY <1>1, <1>2

\* A step that hands out no record and does not read the header.
LEMMA QuietInv ==
  ASSUME HandedInv, Inv', opts' = opts, HeapSpared, RowsKept, fields' = fields,
         recordI' = recordI \/ heap = <<>>,
         outcome' = "run" => outcome = "run" /\ StackFresh(stack', GivenAway)
  PROVE  HandedInv'
<1>1. GivenAway' = GivenAway
  BY TakenKept
<1>2. Separate'
  <2>1. Len(heap) \in Nat /\ Len(heap') \in Nat /\ Len(heap) <= Len(heap')
    BY HeapType DEF HandedInv, HeapSpared
  <2>2. QED
    BY <2>1 DEF HandedInv, Separate, RowsKept
<1>3. outcome' = "run" => StackFresh(stack, GivenAway)'
  BY <1>1 DEF StackFresh
<1>4. HeaderFirst'
  <2>1. heap' = <<>> => heap = <<>>
    BY DEF HeapSpared
  <2>2. QED
    BY <2>1 DEF HandedInv, HeaderFirst, RowsKept
<1>5. ExactRows'
  <2>1. FieldList' = FieldList /\ (HasFields' <=> HasFields)
    BY FieldListKept DEF HandedInv, HeapSpared
  <2>2. SUFFICES ASSUME opts.exact, HasFields, NEW i \in RowPlaces
                 PROVE  ExactRow(RowAt(i))'
    BY <2>1 DEF ExactRows, RowsKept, ExactRow
  <2>3. ExactRow(RowAt(i))
    BY <2>2 DEF HandedInv, ExactRows, ExactRow
  <2>4. PICK row : row = RowAt(i)
    OBVIOUS
  <2>5. ExactRow(row)'
    BY <2>1, <2>3, <2>4, ExactRowKept
  <2>6. QED
    BY <2>4, <2>5 DEF RowsKept
<1>6. QED
  BY <1>2, <1>3, <1>4, <1>5 DEF HandedInv

-----------------------------------------------------------------------------
(* The rules.                                                              *)

LEMMA ShapeSeq ==
  ASSUME NEW stk, NEW len, ShapeOf(stk, len)
  PROVE  /\ stk \in Seq(Frame) /\ Len(stk) \in Nat
         /\ \A i \in 1 .. Len(stk) : stk[i] \in Frame /\ Level(stk[i].rule) = i
BY LenProperties, ElementOfSeq DEF ShapeOf

\* The running instance's place in the stack an alternate leaves.
LEMMA SeenSeq ==
  ASSUME Inv, Top.at # "bo", NEW alt, AltOK(Top.rule, alt), NEW left \in BOOLEAN
  PROVE  Seen(alt, left) \in Seq(Frame) /\ Depth \in 1 .. Len(Seen(alt, left))
<1>1. ShapeOf(Seen(alt, left), Len(heap)) /\ Len(Seen(alt, left)) = Depth
  BY SeenType
<1>2. Depth \in Nat \ {0}
  BY TopType
<1>3. QED
  BY <1>1, <1>2, ShapeSeq

LEMMA TopFresh ==
  ASSUME HandedInv, outcome = "run"
  PROVE  FrameFresh(Top, GivenAway)
BY TopType DEF HandedInv, StackFresh, Top, Depth

\* The running instance is given a new state.
LEMMA TopSetFresh ==
  ASSUME NEW stk \in Seq(Frame), NEW taken, StackFresh(stk, taken), NEW i \in 1 .. Len(stk),
         NEW f, FrameFresh(f, taken)
  PROVE  StackFresh([stk EXCEPT ![i] = f], taken)
<1>1. /\ Len([stk EXCEPT ![i] = f]) = Len(stk)
      /\ \A j \in 1 .. Len(stk) : [stk EXCEPT ![i] = f][j] = IF j = i THEN f ELSE stk[j]
  OBVIOUS
<1>2. QED
  BY <1>1 DEF StackFresh

\* The array of a line is none of those that were handed out.
LEMMA NextUntaken ==
  ASSUME HandedInv
  PROVE  Len(heap) + 1 \notin GivenAway
<1>1. Len(heap) \in Nat /\ (fields = 0 \/ fields \in 2 .. Len(heap))
  BY HeapType DEF HandedInv, Inv
<1>2. QED
  BY <1>1 DEF HandedInv, Separate, GivenAway

LEMMA ActedFresh ==
  ASSUME HandedInv, outcome = "run", Top.at # "bo", NEW alt, AltOK(Top.rule, alt)
  PROVE  /\ FrameFresh(Acted(alt), GivenAway)
         /\ Top.rule \in {"list", "elem"} => Acted(alt).node.a \notin GivenAway
<1>1. /\ Acted(alt).rule = Top.rule /\ Acted(alt).at = Top.at /\ Acted(alt).kid = Top.kid
      /\ alt.n = 0 => Acted(alt).node = Top.node
  BY ActedType DEF HandedInv
<1>2. Top.rule \in {"list", "elem"} => alt.n = 0
  BY DEF AltOK
<1>3. QED
  BY <1>1, <1>2, TopFresh DEF FrameFresh

LEMMA SeenFresh ==
  ASSUME HandedInv, outcome = "run", Top.at # "bo", NEW alt, AltOK(Top.rule, alt),
         NEW left \in BOOLEAN
  PROVE  StackFresh(Seen(alt, left), GivenAway)
<1>1. StackFresh(stack, GivenAway) /\ Inv
  BY DEF HandedInv
<1>2. CASE Seen(alt, left) = stack
  BY <1>1, <1>2
<1>3. CASE Depth > 1 /\ Seen(alt, left) = [stack EXCEPT ![Depth - 1].kid = Acted(alt).node]
  <2> DEFINE below == [stack[Depth - 1] EXCEPT !.kid = Acted(alt).node]
  <2>1. /\ stack \in Seq(Frame) /\ Depth - 1 \in 1 .. Len(stack) /\ stack[Depth - 1] \in Frame
        /\ Level(stack[Depth - 1].rule) = Depth - 1 /\ Level(Top.rule) = Depth
        /\ Top \in Frame
    <3>1. ShapeOf(stack, Len(heap)) /\ Depth = Len(stack) /\ Depth \in Nat /\ Level(Top.rule) = Depth
          /\ Top \in Frame
      BY <1>1, TopType DEF Inv, Depth
    <3>2. Depth - 1 \in 1 .. Len(stack)
      BY <1>3, <3>1
    <3>3. QED
      BY <3>1, <3>2, ShapeSeq
  <2>2. Acted(alt).node \in Node
    BY <1>1, ActedType DEF Frame
  <2>3. /\ below \in Frame /\ below.rule = stack[Depth - 1].rule
        /\ below.at = stack[Depth - 1].at /\ below.node = stack[Depth - 1].node
        /\ below.kid = Acted(alt).node
    BY <2>1, <2>2 DEF Frame
  <2>4. stack[Depth - 1].rule = "record" => Top.rule = "list"
    <3>1. Level(Top.rule) = Level(stack[Depth - 1].rule) + 1
      BY <2>1, <1>1, TopType
    <3>2. QED
      BY <2>1, <3>1, LevelBelow DEF Frame
  <2>5. FrameFresh(below, GivenAway)
    <3> HIDE DEF below
    <3>1. FrameFresh(stack[Depth - 1], GivenAway)
      BY <1>1, <2>1 DEF StackFresh
    <3>2. QED
      BY <2>3, <2>4, <3>1, ActedFresh DEF FrameFresh
  <2>6. Seen(alt, left) = [stack EXCEPT ![Depth - 1] = below]
    BY <1>3
  <2> HIDE DEF below
  <2>7. StackFresh([stack EXCEPT ![Depth - 1] = below], GivenAway)
    BY <1>1, <2>1, <2>5, TopSetFresh
  <2>8. QED
    BY <2>6, <2>7
<1>4. QED
  BY <1>2, <1>3 DEF Seen

LEMMA MovedFresh ==
  ASSUME HandedInv, outcome = "run", Top.at = "open", NEW alt, AltOK(Top.rule, alt),
         NEW phase \in {"bc", "close"}
  PROVE  /\ Moved(alt, phase) \in Frame
         /\ StackFresh([Seen(alt, FALSE) EXCEPT ![Depth] = Moved(alt, phase)], GivenAway)
<1>1. Top.at # "bo" /\ Inv
  BY DEF HandedInv
<1>2. /\ Moved(alt, phase) \in Frame /\ Moved(alt, phase).rule = Top.rule
      /\ Moved(alt, phase).node = Acted(alt).node
  BY <1>1, StaysType
<1>3. Moved(alt, phase).kid = Top.kid
  BY <1>1, ActedType DEF Moved, Frame
<1>4. FrameFresh(Moved(alt, phase), GivenAway)
  BY <1>1, <1>2, <1>3, ActedFresh, TopFresh DEF FrameFresh
<1>5. Seen(alt, FALSE) \in Seq(Frame) /\ Depth \in 1 .. Len(Seen(alt, FALSE))
  BY <1>1, SeenSeq
<1>6. QED
  BY <1>1, <1>2, <1>4, <1>5, SeenFresh, TopSetFresh

LEMMA ReplacedFresh ==
  ASSUME HandedInv, outcome = "run", Top.at # "bo", NEW alt, AltOK(Top.rule, alt),
         NEW heir \in Rules, alt.r = heir
  PROVE  StackFresh(Replaced(alt), GivenAway)
<1> DEFINE g == NewFrame(alt.r, Acted(alt).node, Acted(alt).n, FALSE)
<1>1. Inv /\ alt.r # ""
  BY DEF HandedInv, Rules
<1>2. /\ Acted(alt) \in Frame /\ FrameOK(Acted(alt), Len(heap))
      /\ Acted(alt).rule = Top.rule /\ Acted(alt).at # "bo"
      /\ alt.n = 1 => Acted(alt).node \in Cell
  BY <1>1, ActedType
<1>3. /\ alt.r \in Rules \ {"csv", "list"} /\ Level(alt.r) = Level(Acted(alt).rule)
      /\ Acted(alt).rule = "text" => Acted(alt).node \in Cell
  BY <1>1, <1>2 DEF AltOK
<1>4. g \in Frame /\ g.rule = alt.r /\ g.kid = Undef /\ g.node = Acted(alt).node
  <2>1. Len(heap) \in Nat
    BY <1>1, HeapType
  <2>2. g \in Frame /\ g.rule = alt.r
    BY <1>2, <1>3, <2>1, HeirOK
  <2>3. QED
    BY <2>2 DEF NewFrame
<1>5. alt.r = "elem" => Top.rule = "elem"
  BY <1>2, <1>3, LevelOf DEF Frame
<1>6. FrameFresh(g, GivenAway)
  <2> HIDE DEF g
  <2>1. QED
    BY <1>3, <1>4, <1>5, ActedFresh DEF FrameFresh
<1>7. Seen(alt, TRUE) \in Seq(Frame) /\ Depth \in 1 .. Len(Seen(alt, TRUE))
  BY <1>1, SeenSeq
<1>8. Replaced(alt) = [Seen(alt, TRUE) EXCEPT ![Depth] = g]
  BY DEF Replaced
<1> HIDE DEF g
<1>9. QED
  <2>1. PICK left, below : left \in BOOLEAN /\ left = TRUE /\ below = Seen(alt, left)
    OBVIOUS
  <2>2. StackFresh(below, GivenAway)
    BY <2>1, SeenFresh
  <2>3. below \in Seq(Frame) /\ Depth \in 1 .. Len(below)
    BY <1>7, <2>1
  <2>4. PICK d, f, taken : d = Depth /\ f = g /\ taken = GivenAway
    OBVIOUS
  <2>5. Replaced(alt) = [below EXCEPT ![d] = f]
    BY <1>8, <2>1, <2>4
  <2>6. /\ below \in Seq(Frame) /\ StackFresh(below, taken)
        /\ d \in 1 .. Len(below) /\ FrameFresh(f, taken)
    BY <1>6, <2>2, <2>3, <2>4
  <2>7. StackFresh([below EXCEPT ![d] = f], taken)
    BY <2>6, TopSetFresh
  <2>8. QED
    BY <2>4, <2>5, <2>7

-----------------------------------------------------------------------------
(* The steps.                                                              *)

\* A callback gives the running instance a new state and hands out nothing.
LEMMA CallbackFresh ==
  ASSUME HandedInv, outcome = "run", NEW f, FrameFresh(f, GivenAway),
         stack' = [stack EXCEPT ![Depth] = f]
  PROVE  StackFresh(stack', GivenAway)
<1>1. stack \in Seq(Frame) /\ Depth \in 1 .. Len(stack) /\ StackFresh(stack, GivenAway)
  BY TopType DEF HandedInv, Inv, ShapeOf, Depth
<1>2. QED
  BY <1>1, TopSetFresh

LEMMA CsvBOHanded ==
  ASSUME HandedInv, CsvBO
  PROVE  HandedInv'
<1> DEFINE f == [Top EXCEPT !.node = Ref(Len(heap) + 1), !.at = "open"]
<1>1. Inv /\ Inv' /\ outcome = "run" /\ opts' = opts /\ fields' = fields /\ outcome' = outcome
  BY CsvBOInv DEF HandedInv, CsvBO, Running
<1>2. HeapSpared
  BY <1>1, HeapLonger DEF CsvBO
<1>3. RowsKept
  <2>1. [ev |-> "start"] \in Event /\ [ev |-> "start"].ev # "record"
    BY DEF Event
  <2>2. QED
    BY <1>1, <1>2, <2>1, EmitRows DEF CsvBO
<1>4. heap = <<>>
  <2>1. Top \in Frame /\ Top.at = "bo" /\ Level(Top.rule) = Depth /\ Top.rule = "csv"
    BY <1>1, TopType DEF CsvBO, Running
  <2>2. Depth = 1
    BY <2>1, LevelOf DEF Frame
  <2>3. QED
    BY <1>1, <2>1, <2>2, HeapType DEF Inv, ShapeOf, Top
<1>5. StackFresh(stack', GivenAway)
  <2>1. stack' = [stack EXCEPT ![Depth] = f]
    BY DEF CsvBO, Advance
  <2>2. f.rule = "csv"
    BY <1>1, TopType DEF CsvBO, Frame
  <2> HIDE DEF f
  <2>3. QED
    BY <1>1, <2>1, <2>2, CallbackFresh DEF FrameFresh
<1>6. QED
  BY <1>1, <1>2, <1>3, <1>4, <1>5, QuietInv

LEMMA ListBOHanded ==
  ASSUME HandedInv, ListBO
  PROVE  HandedInv'
<1> DEFINE f == [Top EXCEPT !.node = Ref(Len(heap) + 1), !.at = "open"]
<1>1. /\ Inv /\ Inv' /\ outcome = "run" /\ opts' = opts /\ fields' = fields
      /\ outcome' = outcome /\ recordI' = recordI /\ events' = events
  BY ListBOInv DEF HandedInv, ListBO, Running
<1>2. HeapSpared
  BY <1>1, HeapLonger DEF ListBO
<1>3. RowsKept
  BY <1>1, <1>2, QuietRows
<1>4. StackFresh(stack', GivenAway)
  <2>1. stack' = [stack EXCEPT ![Depth] = f]
    BY DEF ListBO, Advance
  <2>2. f.rule = "list" /\ f.node.a = Len(heap) + 1
    BY <1>1, TopType DEF ListBO, Frame, Ref
  <2> HIDE DEF f
  <2>3. QED
    BY <1>1, <2>1, <2>2, CallbackFresh, NextUntaken DEF FrameFresh
<1>5. QED
  BY <1>1, <1>2, <1>3, <1>4, QuietInv

\* val and text hold no array.
LEMMA ValBOHanded ==
  ASSUME HandedInv, ValBO
  PROVE  HandedInv'
<1> DEFINE f == [Top EXCEPT !.node = Undef, !.at = "open"]
<1>1. /\ Inv /\ Inv' /\ outcome = "run" /\ opts' = opts /\ fields' = fields
      /\ outcome' = outcome /\ recordI' = recordI /\ events' = events /\ heap' = heap
  BY ValBOInv DEF HandedInv, ValBO, Running
<1>2. HeapSpared /\ RowsKept
  BY <1>1, HeapSame, QuietRows
<1>3. StackFresh(stack', GivenAway)
  <2>1. stack' = [stack EXCEPT ![Depth] = f]
    BY DEF ValBO, Advance
  <2>2. f.rule = "val"
    BY <1>1, TopType DEF ValBO, Frame
  <2> HIDE DEF f
  <2>3. QED
    BY <1>1, <2>1, <2>2, CallbackFresh DEF FrameFresh
<1>4. QED
  BY <1>1, <1>2, <1>3, QuietInv

LEMMA ValBCHanded ==
  ASSUME HandedInv, ValBC
  PROVE  HandedInv'
<1>1. /\ Inv /\ Inv' /\ outcome = "run" /\ opts' = opts /\ fields' = fields
      /\ outcome' = outcome /\ recordI' = recordI /\ events' = events /\ heap' = heap
  BY ValBCInv DEF HandedInv, ValBC, Running
<1>2. HeapSpared /\ RowsKept
  BY <1>1, HeapSame, QuietRows
<1>3. StackFresh(stack', GivenAway)
  <2>1. PICK value : stack' = Advance([Top EXCEPT !.node = value], "close")
    BY DEF ValBC
  <2>2. PICK f : f = [[Top EXCEPT !.node = value] EXCEPT !.at = "close"]
    OBVIOUS
  <2>3. stack' = [stack EXCEPT ![Depth] = f]
    BY <2>1, <2>2 DEF Advance
  <2>4. f.rule = "val"
    BY <1>1, <2>2, TopType DEF ValBC, Frame
  <2>5. QED
    BY <1>1, <2>3, <2>4, CallbackFresh DEF FrameFresh
<1>4. QED
  BY <1>1, <1>2, <1>3, QuietInv

LEMMA TextBCHanded ==
  ASSUME HandedInv, TextBC
  PROVE  HandedInv'
<1>1. /\ Inv /\ Inv' /\ outcome = "run" /\ opts' = opts /\ fields' = fields
      /\ outcome' = outcome /\ recordI' = recordI /\ events' = events /\ heap' = heap
  BY TextBCInv DEF HandedInv, TextBC, Running
<1>2. HeapSpared /\ RowsKept
  BY <1>1, HeapSame, QuietRows
<1>3. /\ stack \in Seq(Frame) /\ Depth = Len(stack) /\ Depth = 6 /\ StackFresh(stack, GivenAway)
  <2>1. ShapeOf(stack, Len(heap)) /\ Depth = Len(stack) /\ StackFresh(stack, GivenAway)
    BY <1>1 DEF HandedInv, Inv, Depth
  <2>2. Level(Top.rule) = Depth /\ Top \in Frame /\ Top.rule = "text"
    BY <1>1, TopType DEF TextBC
  <2>3. QED
    BY <2>1, <2>2, ShapeSeq, LevelOf DEF Frame
<1>4. StackFresh(stack', GivenAway)
  <2>1. ShapeOf(stack', Len(heap'))
    BY <1>1 DEF Inv
  <2>2. /\ Len(stack') = 6
        /\ \A i \in 1 .. 4 : stack'[i] = stack[i]
    <3>1. PICK mid : mid = Advance(Top, "close")
      OBVIOUS
    <3>2. PICK value : stack' = [mid EXCEPT ![Depth - 1].node = value]
      BY <3>1 DEF TextBC
    <3>3. /\ DOMAIN stack = 1 .. 6 /\ DOMAIN stack' = 1 .. 6
          /\ \A i \in 1 .. 4 : mid[i] = stack[i]
      <4>1. DOMAIN stack = 1 .. 6
        <5>1. DOMAIN stack = 1 .. Len(stack)
          BY <1>3, LenProperties
        <5>2. QED
          BY <1>3, <5>1
      <4>2. DOMAIN mid = DOMAIN stack /\ \A i \in 1 .. 4 : mid[i] = stack[i]
        BY <1>3, <3>1, <4>1 DEF Advance
      <4>3. DOMAIN stack' = DOMAIN mid
        BY <3>2
      <4>4. QED
        BY <4>1, <4>2, <4>3
    <3>4. stack' \in Seq(Frame)
      <4>1. PICK stk, len : stk = stack' /\ len = Len(heap') /\ ShapeOf(stk, len)
        BY <2>1
      <4>2. QED
        BY <4>1, ShapeSeq
    <3>5. Len(stack') = 6
      BY <3>3, <3>4
    <3>6. \A i \in 1 .. 4 : stack'[i] = stack[i]
      BY <1>3, <3>2, <3>3
    <3>7. QED
      BY <3>5, <3>6
  <2>3. /\ stack'[5] \in Frame /\ Level(stack'[5].rule) = 5
        /\ stack'[6] \in Frame /\ Level(stack'[6].rule) = 6
    <3>1. PICK stk, len : stk = stack' /\ len = Len(heap') /\ ShapeOf(stk, len)
      BY <2>1
    <3>2. \A i \in 1 .. Len(stk) : stk[i] \in Frame /\ Level(stk[i].rule) = i
      BY <3>1, ShapeSeq
    <3>3. Len(stk) = 6 /\ stk = stack'
      BY <2>2, <3>1
    <3>4. QED
      BY <3>2, <3>3
  <2>4. stack'[5].rule = "val" /\ stack'[6].rule = "text"
    BY <2>3, LevelOf DEF Frame
  <2>5. ASSUME NEW i \in 1 .. 6 PROVE FrameFresh(stack'[i], GivenAway)
    <3>1. CASE i \in 1 .. 4
      BY <1>3, <2>2, <3>1 DEF StackFresh
    <3>2. CASE i \in {5, 6}
      BY <2>4, <3>2 DEF FrameFresh
    <3>3. QED
      BY <3>1, <3>2
  <2>6. QED
    BY <2>2, <2>5 DEF StackFresh
<1>5. QED
  BY <1>1, <1>2, <1>4, QuietInv

LEMMA ElemBCHanded ==
  ASSUME HandedInv, ElemBC
  PROVE  HandedInv'
<1> DEFINE f == [Top EXCEPT !.at = "close"]
<1>1. /\ Inv /\ Inv' /\ outcome = "run" /\ opts' = opts /\ fields' = fields
      /\ outcome' = outcome /\ recordI' = recordI /\ events' = events
      /\ Top.rule = "elem" /\ Top.at = "bc"
  BY ElemBCInv DEF HandedInv, ElemBC, Running
<1>2. HeapSpared
  BY <1>1, HeapSame, HeapFilled DEF ElemBC
<1>3. RowsKept
  BY <1>1, <1>2, QuietRows
<1>4. StackFresh(stack', GivenAway)
  <2>1. stack' = [stack EXCEPT ![Depth] = f]
    BY DEF ElemBC, Advance
  <2>2. f.rule = "elem" /\ f.node = Top.node
    BY <1>1, TopType DEF Frame
  <2>3. Top.node.a \notin GivenAway
    BY <1>1, TopFresh DEF FrameFresh
  <2> HIDE DEF f
  <2>4. QED
    BY <1>1, <2>1, <2>2, <2>3, CallbackFresh DEF FrameFresh
<1>5. QED
  BY <1>1, <1>2, <1>3, <1>4, QuietInv

\* An alternate hands out nothing.
LEMMA AltHanded ==
  ASSUME HandedInv, Inv', outcome = "run", Top.at # "bo", NEW alt, AltOK(Top.rule, alt),
         Take(alt), events' = events, outcome' = outcome, StackFresh(stack', GivenAway)
  PROVE  HandedInv'
<1>1. /\ Inv /\ HeapSpared /\ opts' = opts /\ fields' = fields /\ recordI' = recordI
  BY TakeSpares DEF HandedInv, Take
<1>2. RowsKept
  BY <1>1, QuietRows
<1>3. QED
  BY <1>1, <1>2, QuietInv

LEMMA OpenPushHanded ==
  ASSUME HandedInv, OpenPush
  PROVE  HandedInv'
<1>1. PICK alt \in AltsOf(TopOpenAlts) :
        /\ alt.p # "" /\ Take(alt)
        /\ stack' = Append([Seen(alt, FALSE) EXCEPT
                              ![Depth] = [Acted(alt) EXCEPT !.at = AfterOpen(Top.rule)]],
                           NewFrame(alt.p, Acted(alt).node, Acted(alt).n, TRUE))
  BY DEF OpenPush
<1>2. /\ Inv /\ Inv' /\ outcome = "run" /\ Top.at = "open" /\ AltOK(Top.rule, alt)
      /\ AfterOpen(Top.rule) \in {"bc", "close"} /\ events' = events /\ outcome' = outcome
  BY OpenPushInv, OpenAltOK DEF HandedInv, OpenPush, Running, AfterOpen
<1> DEFINE f == Moved(alt, AfterOpen(Top.rule))
           g == NewFrame(alt.p, Acted(alt).node, Acted(alt).n, TRUE)
           below == [Seen(alt, FALSE) EXCEPT ![Depth] = f]
<1>3. StackFresh(below, GivenAway)
  BY <1>2, MovedFresh
<1>4. below \in Seq(Frame)
  <2>1. ShapeOf(below, Len(heap))
    BY <1>2, StaysType
  <2>2. QED
    BY <2>1, ShapeSeq
<1>5. g.rule = alt.p /\ g.kid = Undef /\ g.node = Acted(alt).node /\ g.at = FirstPhase(alt.p)
  BY DEF NewFrame
<1>6. FrameFresh(g, GivenAway)
  <2>1. alt.p \in Rules /\ Level(alt.p) = Level(Top.rule) + 1 /\ Top.rule \in Rules
    BY <1>1, <1>2, TopType DEF AltOK, Frame
  <2>2. alt.p = "elem" => Top.rule = "list"
    BY <2>1, LevelOf
  <2>3. alt.p = "list" => g.at = "bo"
    BY <1>5 DEF FirstPhase, HasBO
  <2>4. Top.rule = "list" => Acted(alt).node.a \notin GivenAway
    BY <1>2, ActedFresh
  <2> HIDE DEF g
  <2>5. QED
    BY <1>5, <2>2, <2>3, <2>4 DEF FrameFresh
<1>7. stack' = Append(below, g)
  BY <1>1 DEF Moved
<1> HIDE DEF f, g, below
<1>8. StackFresh(Append(below, g), GivenAway)
  <2>1. /\ Len(Append(below, g)) = Len(below) + 1 /\ Len(below) \in Nat
        /\ \A i \in 1 .. Len(below) : Append(below, g)[i] = below[i]
        /\ Append(below, g)[Len(below) + 1] = g
    BY <1>4
  <2>2. ASSUME NEW i \in 1 .. Len(below) + 1 PROVE FrameFresh(Append(below, g)[i], GivenAway)
    <3>1. i \in 1 .. Len(below) \/ i = Len(below) + 1
      BY <2>1
    <3>2. QED
      BY <1>3, <1>6, <2>1, <3>1 DEF StackFresh
  <2>3. QED
    BY <2>1, <2>2 DEF StackFresh
<1>9. QED
  BY <1>1, <1>2, <1>7, <1>8, AltHanded

LEMMA OpenStayHanded ==
  ASSUME HandedInv, OpenStay
  PROVE  HandedInv'
<1>1. PICK alt \in AltsOf(TopOpenAlts) :
        /\ Take(alt)
        /\ stack' = [Seen(alt, FALSE) EXCEPT
                       ![Depth] = [Acted(alt) EXCEPT !.at = AfterOpen(Top.rule)]]
  BY DEF OpenStay
<1>2. /\ Inv /\ Inv' /\ outcome = "run" /\ Top.at = "open" /\ AltOK(Top.rule, alt)
      /\ AfterOpen(Top.rule) \in {"bc", "close"} /\ events' = events /\ outcome' = outcome
  BY OpenStayInv, OpenAltOK DEF HandedInv, OpenStay, Running, AfterOpen
<1>3. stack' = [Seen(alt, FALSE) EXCEPT ![Depth] = Moved(alt, AfterOpen(Top.rule))]
  BY <1>1 DEF Moved
<1>4. StackFresh(stack', GivenAway)
  BY <1>2, <1>3, MovedFresh
<1>5. QED
  BY <1>1, <1>2, <1>4, AltHanded

LEMMA OpenReplaceHanded ==
  ASSUME HandedInv, OpenReplace
  PROVE  HandedInv'
<1>1. PICK alt \in AltsOf(TopOpenAlts) : alt.r # "" /\ Take(alt) /\ stack' = Replaced(alt)
  BY DEF OpenReplace
<1>2. /\ Inv /\ Inv' /\ outcome = "run" /\ Top.at # "bo" /\ AltOK(Top.rule, alt)
      /\ events' = events /\ outcome' = outcome
  BY OpenReplaceInv, OpenAltOK DEF HandedInv, OpenReplace, Running
<1>3. StackFresh(stack', GivenAway)
  <2>1. alt.r \in Rules
    BY <1>1, <1>2 DEF AltOK
  <2>2. QED
    BY <1>1, <1>2, <2>1, ReplacedFresh
<1>4. QED
  BY <1>1, <1>2, <1>3, AltHanded

LEMMA CloseReplaceHanded ==
  ASSUME HandedInv, CloseReplace
  PROVE  HandedInv'
<1>1. PICK alt \in AltsOf(TopCloseAlts) : alt.r # "" /\ Take(alt) /\ stack' = Replaced(alt)
  BY DEF CloseReplace
<1>2. /\ Inv /\ Inv' /\ outcome = "run" /\ Top.at # "bo" /\ AltOK(Top.rule, alt)
      /\ events' = events /\ outcome' = outcome
  BY CloseReplaceInv, OpenAltOK DEF HandedInv, CloseReplace, Running
<1>3. StackFresh(stack', GivenAway)
  <2>1. alt.r \in Rules
    BY <1>1, <1>2 DEF AltOK
  <2>2. QED
    BY <1>1, <1>2, <2>1, ReplacedFresh
<1>4. QED
  BY <1>1, <1>2, <1>3, AltHanded

LEMMA ClosePopHanded ==
  ASSUME HandedInv, ClosePop
  PROVE  HandedInv'
<1>1. PICK alt \in AltsOf(TopCloseAlts) :
        Take(alt) /\ stack' = SubSeq(Seen(alt, TRUE), 1, Depth - 1)
  BY DEF ClosePop
<1>2. /\ Inv /\ Inv' /\ outcome = "run" /\ Top.at # "bo" /\ AltOK(Top.rule, alt)
      /\ events' = events /\ outcome' = outcome
  BY ClosePopInv, OpenAltOK DEF HandedInv, ClosePop, Running
<1>3. PICK seen : seen = Seen(alt, TRUE)
  OBVIOUS
<1>4. seen \in Seq(Frame) /\ Depth \in 1 .. Len(seen) /\ StackFresh(seen, GivenAway)
  BY <1>2, <1>3, SeenSeq, SeenFresh
<1>5. StackFresh(stack', GivenAway)
  <2>1. /\ Len(SubSeq(seen, 1, Depth - 1)) = Depth - 1
        /\ \A i \in 1 .. Depth - 1 : SubSeq(seen, 1, Depth - 1)[i] = seen[i]
    BY <1>4, SubSeqProperties
  <2>2. stack' = SubSeq(seen, 1, Depth - 1)
    BY <1>1, <1>3
  <2>3. \A i \in 1 .. Depth - 1 : i \in 1 .. Len(seen) /\ FrameFresh(seen[i], GivenAway)
    BY <1>4 DEF StackFresh
  <2>4. \A i \in 1 .. Len(stack') : FrameFresh(stack'[i], GivenAway)
    BY <2>1, <2>2, <2>3
  <2>5. QED
    BY <2>4 DEF StackFresh
<1>6. QED
  BY <1>1, <1>2, <1>5, AltHanded

\* A parse that ends, or is refused, hands out nothing.
LEMMA CsvCloseHanded ==
  ASSUME HandedInv, CsvClose
  PROVE  HandedInv'
<1>1. /\ Inv /\ Inv' /\ opts' = opts /\ fields' = fields /\ recordI' = recordI
      /\ heap' = heap /\ outcome' = "done"
  BY CsvCloseInv DEF HandedInv, CsvClose
<1>2. HeapSpared
  BY <1>1, HeapSame
<1>3. RowsKept
  <2>1. [ev |-> "end"] \in Event /\ [ev |-> "end"].ev # "record"
    BY DEF Event
  <2>2. QED
    BY <1>1, <1>2, <2>1, EmitRows DEF CsvClose
<1>4. QED
  BY <1>1, <1>2, <1>3, QuietInv

LEMMA FailHanded ==
  ASSUME HandedInv, NEW code \in Codes, Fail(code)
  PROVE  HandedInv'
<1>1. /\ Inv /\ Inv' /\ opts' = opts /\ fields' = fields /\ recordI' = recordI
      /\ outcome' # "run"
  BY FailInv DEF HandedInv, Fail, Codes
<1>2. QED
  BY <1>1, FailRows, QuietInv

LEMMA RecordRefusedHanded ==
  ASSUME HandedInv, RecordRefused
  PROVE  HandedInv'
<1>1. CountError \in Codes
  BY DEF CountError, Codes
<1>2. QED
  BY <1>1, FailHanded DEF RecordRefused

LEMMA UnexpectedHanded ==
  ASSUME HandedInv, Unexpected
  PROVE  HandedInv'
<1>1. "unexpected" \in Codes
  BY DEF Codes
<1>2. QED
  BY <1>1, FailHanded DEF Unexpected

\* Under a closing record there is only the csv rule.
LEMMA RecordClosed ==
  ASSUME Inv, Running("bc"), Top.rule = "record", stack' = Advance(Top, "close"), NEW taken
  PROVE  StackFresh(stack', taken)
<1> DEFINE f == [Top EXCEPT !.at = "close"]
<1>1. /\ stack \in Seq(Frame) /\ Len(stack) = 2 /\ Depth = 2 /\ Top \in Frame
      /\ stack[1] \in Frame /\ Level(stack[1].rule) = 1
  BY RecordSeen, ShapeSeq DEF Inv, Depth
<1>2. stack[1].rule = "csv" /\ f.at = "close" /\ f.rule = "record"
  BY <1>1, LevelOf DEF Frame
<1>3. stack' = [stack EXCEPT ![2] = f]
  BY <1>1 DEF Advance
<1> HIDE DEF f
<1>4. FrameFresh(f, taken) /\ FrameFresh(stack[1], taken)
  BY <1>2 DEF FrameFresh
<1>5. Len(stack') = 2 /\ stack'[1] = stack[1] /\ stack'[2] = f
  BY <1>1, <1>3
<1>6. QED
  BY <1>4, <1>5 DEF StackFresh

LEMMA RecordHeaderHanded ==
  ASSUME HandedInv, RecordHeader
  PROVE  HandedInv'
<1>1. /\ Inv /\ Inv' /\ outcome = "run" /\ opts' = opts /\ events' = events /\ heap' = heap
      /\ recordI = 0 /\ recordI' = 1
  BY RecordHeaderInv DEF HandedInv, RecordHeader, Running, IsHeader
<1>2. RowPlaces' = {}
  BY <1>1, HeapSame, QuietRows DEF HandedInv, HeaderFirst, RowsKept
<1>3. Separate' /\ HeaderFirst' /\ ExactRows'
  BY <1>2 DEF Separate, HeaderFirst, ExactRows
<1>4. StackFresh(stack, GivenAway)'
  <2>1. PICK taken : taken = GivenAway'
    OBVIOUS
  <2>2. StackFresh(stack', taken)
    BY <1>1, RecordClosed DEF RecordHeader
  <2>3. QED
    BY <2>1, <2>2 DEF StackFresh
<1>5. QED
  BY <1>1, <1>3, <1>4 DEF HandedInv

\* An object record of the right width has the columns of the field list.
LEMMA ExactColumns ==
  ASSUME NEW cells \in Seq(Cell), NEW names \in Seq(Cell), Len(cells) = Len(names)
  PROVE  /\ Len(Assignments(cells, names)) = Len(names)
         /\ \A j \in 1 .. Len(names) : Assignments(cells, names)[j][1] = NamedBy(names[j])
<1> DEFINE known == [i \in 1 .. Len(names) |-> <<NamedBy(names[i]), CellAt(cells, i)>>]
           beyond == [j \in 1 .. 0 |-> <<Unnamed(Len(names) + j - 1), cells[Len(names) + j]>>]
<1>1. Len(names) \in Nat
  OBVIOUS
<1>2. Assignments(cells, names) = known \o beyond
  BY DEF Assignments
<1>3. beyond = <<>>
  OBVIOUS
<1>4. known \in Seq(ColumnName \X Cell) /\ Len(known) = Len(names)
  <2>1. ASSUME NEW i \in 1 .. Len(names)
        PROVE  NamedBy(names[i]) \in ColumnName /\ CellAt(cells, i) \in Cell
    <3>1. names[i] \in Cell
      OBVIOUS
    <3>2. NamedBy(names[i]) \in ColumnName
      BY <3>1 DEF NamedBy, ColumnName, Cell
    <3>3. CellAt(cells, i) \in Cell
      BY DEF CellAt
    <3>4. QED
      BY <3>2, <3>3
  <2>2. known \in [1 .. Len(names) -> ColumnName \X Cell]
    BY <2>1
  <2> HIDE DEF known
  <2>3. QED
    BY <1>1, <2>2, FunctionIsSeq
<1>5. \A j \in 1 .. Len(names) : known[j][1] = NamedBy(names[j])
  OBVIOUS
<1> HIDE DEF known, beyond
<1>6. Assignments(cells, names) = known
  BY <1>2, <1>3, <1>4
<1>7. QED
  BY <1>4, <1>5, <1>6

LEMMA FieldListType ==
  ASSUME Inv
  PROVE  FieldList \in Seq(Cell)
<1>1. CASE fields # 0
  <2>1. fields \in 1 .. Len(heap) /\ fields # 1
    BY <1>1, HeapType DEF Inv
  <2>2. heap[fields] \in Seq(Cell)
    BY <2>1 DEF Inv, HeapOK
  <2>3. QED
    BY <1>1, <2>2 DEF FieldList
<1>2. CASE fields = 0 /\ opts.names # NoNames
  BY <1>2 DEF FieldList, Inv, Options
<1>3. CASE fields = 0 /\ opts.names = NoNames
  BY <1>3, EmptySeq DEF FieldList
<1>4. QED
  BY <1>1, <1>2, <1>3

\* The row of the line that was read is exact, if it has to be.
LEMMA ShapedExact ==
  ASSUME Inv, Running("bc"), Top.rule = "record", ~WrongCount, HasFields, opts.exact
  PROVE  ExactRow(Shaped)
<1>1. Len(Record) = Len(FieldList)
  BY DEF WrongCount
<1>2. Record \in Seq(Cell) /\ FieldList \in Seq(Cell)
  BY RecordSeen, FieldListType DEF Record
<1>3. CASE opts.object
  <2>1. Shaped = ObjectRow(Assignments(Record, FieldList))
    BY <1>3 DEF Shaped
  <2>2. Shaped.k = "object" /\ Shaped.o = Assignments(Record, FieldList)
    BY <2>1 DEF ObjectRow
  <2>3. DOMAIN FieldList = 1 .. Len(FieldList)
    BY <1>2, LenProperties
  <2>4. QED
    BY <1>1, <1>2, <2>2, <2>3, ExactColumns DEF ExactRow
<1>4. CASE ~opts.object
  BY <1>1, <1>4 DEF Shaped, ArrayRow, ExactRow, Record
<1>5. QED
  BY <1>3, <1>4

\* A step that hands out the record of the line that was read.
LEMMA AddedInv ==
  ASSUME HandedInv, Inv', opts' = opts, fields' = fields, Running("bc"), Top.rule = "record",
         ~WrongCount, RowAdded(Shaped),
         Len(heap') = Len(heap), \A a \in 2 .. Len(heap) : heap'[a] = heap[a],
         outcome' = "run" => recordI' = recordI + 1 /\ stack' = Advance(Top, "close")
  PROVE  HandedInv'
<1>1. /\ Inv /\ Separate /\ Len(heap) \in Nat /\ recordI \in Nat
      /\ Top.at = "bc" /\ outcome = "run"
  BY HeapType DEF HandedInv, Inv, Running
<1>2. Top.kid.a \in 2 .. Len(heap) /\ Top.kid.a \notin GivenAway
  <2>1. Top.kid.a \in 2 .. Len(heap) /\ Top.kid \in ArraysUpTo(Len(heap))
    BY <1>1, RecordSeen DEF Inv, RecordReady, Top, Depth
  <2>2. Top.kid # Undef
    BY <2>1 DEF ArraysUpTo, Ref, Undef
  <2>3. QED
    BY <1>1, <2>1, <2>2, TopFresh DEF FrameFresh
<1>3. Shaped.k = "array" => Shaped.a = Top.kid.a
  BY DEF Shaped, ArrayRow, ObjectRow
<1>4. PICK row : row = Shaped
  OBVIOUS
<1>5. PICK place \in Nat :
        /\ place \notin RowPlaces /\ RowPlaces' = RowPlaces \union {place}
        /\ RowAt(place)' = row /\ \A i \in RowPlaces : RowAt(i)' = RowAt(i)
  BY <1>4 DEF RowAdded
<1>6. \A i \in RowPlaces : RowAt(i).k = "array" => RowAt(i).a \in GivenAway
  BY DEF GivenAway
<1>7. Separate'
  <2>1. ASSUME NEW i \in RowPlaces', RowAt(i)'.k = "array"
        PROVE  RowAt(i)'.a \in 2 .. Len(heap') /\ RowAt(i)'.a # fields'
    BY <1>1, <1>2, <1>3, <1>4, <1>5, <2>1 DEF Separate, GivenAway
  <2>2. ASSUME NEW i \in RowPlaces', NEW j \in RowPlaces', i # j, RowAt(i)'.k = "array"
        PROVE  RowAt(j)' # RowAt(i)'
    <3>1. CASE i \in RowPlaces /\ j \in RowPlaces
      BY <1>1, <1>5, <2>2, <3>1 DEF Separate
    <3>2. CASE i = place /\ j \in RowPlaces
      BY <1>2, <1>3, <1>4, <1>5, <1>6, <2>2, <3>2
    <3>3. CASE i \in RowPlaces /\ j = place
      BY <1>2, <1>3, <1>4, <1>5, <1>6, <2>2, <3>3
    <3>4. QED
      BY <1>5, <2>2, <3>1, <3>2, <3>3
  <2>3. QED
    BY <2>1, <2>2 DEF Separate
<1>8. outcome' = "run" => StackFresh(stack, GivenAway)'
  <2>1. PICK taken : taken = GivenAway'
    OBVIOUS
  <2>2. outcome' = "run" => StackFresh(stack', taken)
    BY <1>1, RecordClosed
  <2>3. QED
    BY <2>1, <2>2 DEF StackFresh
<1>9. HeaderFirst'
  <2>1. heap' # <<>>
    BY <1>1, <1>2
  <2>2. outcome' = "run" => recordI' # 0
    BY <1>1
  <2>3. QED
    BY <2>1, <2>2 DEF HeaderFirst
<1>10. ExactRows'
  <2>1. FieldList' = FieldList /\ (HasFields' <=> HasFields)
    BY <1>1, FieldListKept
  <2>2. SUFFICES ASSUME opts.exact, HasFields, NEW i \in RowPlaces'
                 PROVE  ExactRow(RowAt(i))'
    BY <2>1 DEF ExactRows, ExactRow
  <2>3. CASE i \in RowPlaces
    <3>1. ExactRow(RowAt(i))
      BY <2>2, <2>3 DEF HandedInv, ExactRows, ExactRow
    <3>2. PICK old : old = RowAt(i)
      OBVIOUS
    <3>3. old.k = "array" => old.a \in 2 .. Len(heap)
      BY <1>1, <2>3, <3>2 DEF Separate
    <3>4. ExactRow(old)'
      BY <2>1, <3>1, <3>2, <3>3 DEF ExactRow
    <3>5. QED
      BY <1>5, <2>3, <3>2, <3>4
  <2>4. CASE i = place
    <3>1. ExactRow(row)
      BY <1>1, <1>4, <2>2, ShapedExact
    <3>2. row.k = "array" => row.a \in 2 .. Len(heap)
      BY <1>2, <1>3, <1>4
    <3>3. ExactRow(row)'
      BY <2>1, <3>1, <3>2 DEF ExactRow
    <3>4. QED
      BY <1>5, <2>4, <3>3
  <2>5. QED
    BY <1>5, <2>2, <2>3, <2>4
<1>11. QED
  BY <1>7, <1>8, <1>9, <1>10 DEF HandedInv

LEMMA RecordRowHanded ==
  ASSUME HandedInv, RecordRow
  PROVE  HandedInv'
<1>1. /\ Inv /\ Inv' /\ Running("bc") /\ Top.rule = "record" /\ ~WrongCount
      /\ opts' = opts /\ fields' = fields /\ recordI' = recordI + 1
      /\ stack' = Advance(Top, "close")
  BY RecordRowInv DEF HandedInv, RecordRow
<1>2. /\ heap \in Seq(Seq(Cell \union Row)) /\ heap # <<>> /\ Top.node.a = 1
      /\ Shaped \in Row
  BY <1>1, HeapType, RecordSeen, ShapedType DEF Ref
<1>3. CASE opts.stream
  <2>1. heap' = heap /\ events' = Append(events, [ev |-> "record", row |-> Shaped])
    BY <1>3 DEF RecordRow
  <2>2. [ev |-> "record", row |-> Shaped] \in Event
    BY <1>2 DEF Event
  <2>3. PICK calls \in Seq(Event) :
          calls = <<[ev |-> "record", row |-> Shaped]>> /\ events' = events \o calls
    BY <1>1, <2>1, <2>2, OneCall
  <2>4. /\ DOMAIN calls = {1} /\ calls[1] = [ev |-> "record", row |-> Shaped]
        /\ \A j \in DOMAIN calls \ {1} : calls[j].ev # "record"
    BY <1>1, <2>2, <2>3, OneCall
  <2>5. calls[1].ev = "record" /\ calls[1].row = Shaped
    BY <2>4
  <2>6. RowAdded(calls[1].row)
    BY <1>1, <1>3, <2>3, <2>4, <2>5, CallsWith
  <2>7. QED
    BY <1>1, <2>1, <2>5, <2>6, AddedInv
<1>4. CASE ~opts.stream
  <2>1. heap' = [heap EXCEPT ![1] = Append(@, Shaped)]
    BY <1>2, <1>4 DEF RecordRow
  <2>2. RowAdded(Shaped)
    BY <1>1, <1>2, <1>4, <2>1, DocumentLonger
  <2>3. Len(heap') = Len(heap) /\ \A a \in 2 .. Len(heap) : heap'[a] = heap[a]
    BY <1>2, <2>1
  <2>4. QED
    BY <1>1, <2>2, <2>3, AddedInv
<1>5. QED
  BY <1>3, <1>4

\* The calls of a callback that throws: the event, and in TypeScript the error.
LEMMA ThrownCalls ==
  ASSUME Inv, NEW event \in Event, Thrown(event)
  PROVE  \E calls \in Seq(Event) :
           /\ events' = events \o calls /\ 1 \in DOMAIN calls /\ calls[1] = event
           /\ \A j \in DOMAIN calls \ {1} : calls[j].ev # "record"
<1> DEFINE error == [ev |-> "error", code |-> "thrown"]
<1>1. error \in Event /\ error.ev # "record"
  BY DEF Event, Codes
<1> HIDE DEF error
<1>2. CASE Port = "ts"
  <2>1. events' = events \o <<event, error>>
    BY <1>2 DEF Thrown, error
  <2>2. <<event, error>> \in Seq(Event)
    BY <1>1
  <2>3. DOMAIN <<event, error>> = {1, 2} /\ <<event, error>>[1] = event /\ <<event, error>>[2] = error
    OBVIOUS
  <2>4. QED
    BY <1>1, <2>1, <2>2, <2>3
<1>3. CASE Port # "ts"
  BY <1>3, OneCall DEF Thrown
<1>4. QED
  BY <1>2, <1>3

LEMMA ThrownWithout ==
  ASSUME HandedInv, opts.stream, NEW event \in Event, event.ev # "record", Thrown(event), Inv',
         recordI' = recordI \/ heap = <<>>
  PROVE  HandedInv'
<1>1. /\ Inv /\ opts' = opts /\ heap' = heap /\ fields' = fields /\ outcome' # "run"
  BY DEF HandedInv, Thrown
<1>2. PICK calls \in Seq(Event) :
        /\ events' = events \o calls /\ 1 \in DOMAIN calls /\ calls[1] = event
        /\ \A j \in DOMAIN calls \ {1} : calls[j].ev # "record"
  BY <1>1, ThrownCalls
<1>3. RowsKept
  BY <1>1, <1>2, CallsWithout
<1>4. QED
  BY <1>1, <1>3, HeapSame, QuietInv

LEMMA CallbackThrowsHanded ==
  ASSUME HandedInv, CallbackThrows
  PROVE  HandedInv'
<1>1. Inv /\ Inv' /\ opts.stream
  BY CallbackThrowsInv DEF HandedInv, CallbackThrows
<1>2. CASE Running("bo") /\ Top.rule = "csv" /\ Thrown([ev |-> "start"])
  <2>1. [ev |-> "start"] \in Event /\ [ev |-> "start"].ev # "record"
    BY DEF Event
  <2>2. heap = <<>>
    <3>1. Top \in Frame /\ Top.at = "bo" /\ Level(Top.rule) = Depth
      BY <1>1, <1>2, TopType DEF Running
    <3>2. Depth = 1
      BY <1>2, <3>1, LevelOf DEF Frame
    <3>3. QED
      BY <1>1, <3>1, <3>2, HeapType DEF Inv, ShapeOf, Top
  <2>3. QED
    BY <1>1, <1>2, <2>1, <2>2, ThrownWithout
<1>3. CASE /\ Running("bc") /\ Top.rule = "record" /\ ~WrongCount
           /\ Thrown([ev |-> "record", row |-> Shaped])
  <2>1. Shaped \in Row
    BY <1>1, <1>3, ShapedType
  <2>2. [ev |-> "record", row |-> Shaped] \in Event
    BY <2>1 DEF Event
  <2>3. PICK calls \in Seq(Event) :
          /\ events' = events \o calls /\ 1 \in DOMAIN calls
          /\ calls[1] = [ev |-> "record", row |-> Shaped]
          /\ \A j \in DOMAIN calls \ {1} : calls[j].ev # "record"
    BY <1>1, <1>3, <2>2, ThrownCalls
  <2>4. opts' = opts /\ heap' = heap /\ fields' = fields /\ outcome' # "run"
    BY <1>3 DEF Thrown
  <2>5. RowAdded(calls[1].row) /\ calls[1].row = Shaped
    <3>1. calls[1].ev = "record" /\ calls[1].row = Shaped
      BY <2>3
    <3>2. /\ events' = events \o calls /\ 1 \in DOMAIN calls
          /\ \A j \in DOMAIN calls \ {1} : calls[j].ev # "record"
      BY <2>3
    <3>3. RowAdded(calls[1].row)
      BY <1>1, <2>4, <3>1, <3>2, CallsWith
    <3>4. QED
      BY <3>1, <3>3
  <2>6. QED
    BY <1>1, <1>3, <2>4, <2>5, AddedInv
<1>4. CASE Thrown([ev |-> "end"]) /\ recordI' = recordI
  <2>1. [ev |-> "end"] \in Event /\ [ev |-> "end"].ev # "record"
    BY DEF Event
  <2>2. QED
    BY <1>1, <1>4, <2>1, ThrownWithout
<1>5. QED
  BY <1>2, <1>3, <1>4 DEF CallbackThrows

LEMMA InitHanded ==
  ASSUME Init
  PROVE  HandedInv
<1>1. Inv /\ RowPlaces = {} /\ fields = 0 /\ stack = <<NewFrame("csv", Undef, 0, FALSE)>>
  BY InitInv DEF Init, RowPlaces
<1>2. Len(stack) = 1 /\ stack[1].rule = "csv"
  BY <1>1 DEF NewFrame
<1>3. StackFresh(stack, GivenAway)
  BY <1>2 DEF StackFresh, FrameFresh
<1>4. QED
  BY <1>1, <1>3 DEF HandedInv, Separate, HeaderFirst, ExactRows

LEMMA StepHanded ==
  ASSUME HandedInv, [Next]_vars
  PROVE  HandedInv'
<1>1. CASE CsvBO \/ ListBO \/ ValBO
  BY <1>1, CsvBOHanded, ListBOHanded, ValBOHanded
<1>2. CASE TextBC \/ ValBC \/ ElemBC
  BY <1>2, TextBCHanded, ValBCHanded, ElemBCHanded
<1>3. CASE RecordBC
  BY <1>3, RecordHeaderHanded, RecordRefusedHanded, RecordRowHanded DEF RecordBC
<1>4. CASE OpenPush \/ OpenReplace \/ OpenStay
  BY <1>4, OpenPushHanded, OpenReplaceHanded, OpenStayHanded
<1>5. CASE CloseReplace \/ ClosePop \/ CsvClose
  BY <1>5, CloseReplaceHanded, ClosePopHanded, CsvCloseHanded
<1>6. CASE CallbackThrows \/ Unexpected
  BY <1>6, CallbackThrowsHanded, UnexpectedHanded
<1>7. CASE UNCHANGED vars
  <2>1. Inv'
    BY <1>7, StepInv DEF HandedInv
  <2>2. RowPlaces' = RowPlaces /\ \A i : RowAt(i)' = RowAt(i)
    BY <1>7 DEF vars, RowPlaces, RowAt
  <2>3. GivenAway' = GivenAway
    BY <1>7, <2>2 DEF vars, GivenAway
  <2>4. Separate' /\ HeaderFirst'
    BY <1>7, <2>2 DEF vars, HandedInv, Separate, HeaderFirst
  <2>5. (outcome = "run" => StackFresh(stack, GivenAway))'
    BY <1>7, <2>3 DEF vars, HandedInv, StackFresh, FrameFresh
  <2>6. ExactRows'
    BY <1>7, <2>2 DEF vars, HandedInv, ExactRows, HasFields, FieldList
  <2>7. QED
    BY <2>1, <2>4, <2>5, <2>6 DEF HandedInv
<1>8. QED
  BY <1>1, <1>2, <1>3, <1>4, <1>5, <1>6, <1>7 DEF Next, Step, Returned

LEMMA HandedInvariance == Spec => []HandedInv
<1>1. Init => HandedInv
  BY InitHanded
<1>2. HandedInv /\ [Next]_vars => HandedInv'
  BY StepHanded
<1>3. QED
  BY <1>1, <1>2, PTL DEF Spec

-----------------------------------------------------------------------------
(* The theorems.                                                           *)

\* No step touches an array that was handed out, nor the header's.
LEMMA StepSpares ==
  ASSUME HandedInv, Step
  PROVE  \A a \in 2 .. Len(heap) : a \in GivenAway => heap'[a] = heap[a]
<1>1. Inv
  BY DEF HandedInv
<1>2. CASE heap' = heap
  BY <1>2
<1>3. CASE heap' = Append(heap, <<>>)
  BY <1>1, <1>3, HeapLonger DEF HeapSpared
<1>4. CASE RecordRow
  <2>1. heap' = heap \/ heap' = [heap EXCEPT ![Top.node.a] = Append(@, Shaped)]
    BY <1>4 DEF RecordRow
  <2>2. Top.node.a = 1
    BY <1>1, <1>4, RecordSeen DEF RecordRow, Ref
  <2>3. PICK row : heap' = heap \/ heap' = [heap EXCEPT ![1] = row]
    BY <2>1, <2>2
  <2>4. DOMAIN heap = 1 .. Len(heap) /\ Len(heap) \in Nat
    BY <1>1, HeapType
  <2>5. ASSUME NEW a \in 2 .. Len(heap) PROVE heap'[a] = heap[a]
    <3>1. a # 1 /\ a \in DOMAIN heap
      BY <2>4
    <3>2. QED
      BY <2>3, <3>1
  <2>6. QED
    BY <2>5
<1>5. CASE ElemBC
  BY <1>1, <1>2, <1>5, HeapFilled DEF ElemBC, Running, HeapSpared
<1>6. CASE OpenPush \/ OpenReplace \/ OpenStay \/ CloseReplace \/ ClosePop
  <2>1. PICK alt : AltOK(Top.rule, alt) /\ Take(alt) /\ outcome = "run" /\ Top.at # "bo"
    <3>1. CASE OpenPush \/ OpenReplace \/ OpenStay
      BY <1>1, <3>1, OpenAltOK DEF OpenPush, OpenReplace, OpenStay, Running
    <3>2. CASE CloseReplace \/ ClosePop
      BY <1>1, <3>2, OpenAltOK DEF CloseReplace, ClosePop, Running
    <3>3. QED
      BY <1>6, <3>1, <3>2
  <2>2. HeapSpared
    BY <2>1, TakeSpares
  <2>3. QED
    BY <2>2 DEF HeapSpared
<1>7. CASE CsvBO \/ ListBO
  BY <1>3, <1>7 DEF CsvBO, ListBO
<1>8. CASE ValBO \/ TextBC \/ ValBC \/ RecordHeader \/ RecordRefused \/ Unexpected \/ CsvClose
  BY <1>2, <1>8 DEF ValBO, TextBC, ValBC, RecordHeader, RecordRefused, Unexpected, CsvClose, Fail
<1>9. CASE CallbackThrows
  BY <1>2, <1>9 DEF CallbackThrows, Thrown
<1>10. QED
  BY <1>4, <1>5, <1>6, <1>7, <1>8, <1>9 DEF Step, RecordBC

\* Records share no array, with each other, with the header or with the
\* document (ts/src/csv.ts:409-500: the list rule makes an array for each
\* line, and a line with no list an empty one).
THEOREM RecordsAreSeparate == Spec => []RowsAreSeparate
<1>1. HandedInv => RowsAreSeparate
  <2>1. ASSUME HandedInv, NEW i \in RowPlaces, NEW j \in RowPlaces, RowAt(i).k = "array"
        PROVE  RowAt(i).a \notin {1, fields} /\ (i # j => RowAt(j) # RowAt(i))
    BY <2>1 DEF HandedInv, Separate
  <2>2. QED
    BY <2>1 DEF RowsAreSeparate
<1>2. QED
  BY <1>1, HandedInvariance, PTL

\* Under field.exact every record that was handed out has the columns of the
\* header, in its order (ts/src/csv.ts:409-469).
THEOREM RowsExact == Spec => []ExactRows
<1>1. HandedInv => ExactRows
  BY DEF HandedInv
<1>2. QED
  BY <1>1, HandedInvariance, PTL

\* No step changes a record the callback was given, or the document holds, nor
\* the header the next lines are named by (ts/src/csv.ts:380-500: the rules
\* of the next line write through the node they inherited).
THEOREM HandedRecordsFinal == Spec => HandedIsFinal
<1>1. HandedInv /\ Step => \A a \in DOMAIN heap : Final(a) => heap'[a] = heap[a]
  <2>1. SUFFICES ASSUME HandedInv, Step, NEW a \in DOMAIN heap, Final(a)
                 PROVE  heap'[a] = heap[a]
    OBVIOUS
  <2>2. Inv /\ DOMAIN heap = 1 .. Len(heap)
    BY <2>1, HeapType DEF HandedInv
  <2>3. a \in 2 .. Len(heap) /\ a \in GivenAway
    <3>1. CASE a = fields
      BY <2>2, <3>1 DEF Inv, GivenAway
    <3>2. CASE \E i \in RowPlaces : RowAt(i) = ArrayRow(a)
      <4>1. PICK i \in RowPlaces : RowAt(i) = ArrayRow(a)
        BY <3>2
      <4>2. RowAt(i).k = "array" /\ RowAt(i).a = a
        BY <4>1 DEF ArrayRow
      <4>3. QED
        BY <2>1, <4>2 DEF HandedInv, Separate, GivenAway
    <3>3. QED
      BY <2>1, <3>1, <3>2 DEF Final
  <2>4. QED
    BY <2>1, <2>3, StepSpares
<1>2. HandedInv /\ [Next]_vars => [\A a \in DOMAIN heap : Final(a) => heap'[a] = heap[a]]_vars
  BY <1>1 DEF Next, Returned
<1>3. QED
  BY <1>2, HandedInvariance, PTL DEF Spec, HandedIsFinal

-----------------------------------------------------------------------------
(* The stream callback of the TypeScript port: one call after another that *)
(* keeps to the protocol, however the parse ends, and wherever the         *)
(* callback throws.                                                        *)

\* The callback has heard the start, and nothing but records since.
Opened(evs) ==
  /\ Len(evs) >= 1 /\ evs[1].ev = "start"
  /\ \A i \in 2 .. Len(evs) : evs[i].ev = "record"

\* The lines read that are no header.
Lines == IF opts.header /\ recordI > 0 THEN recordI - 1 ELSE recordI

\* While the parse runs.
WhileRunning ==
  outcome = "run" /\ opts.stream =>
    IF heap = <<>> THEN events = <<>> /\ recordI = 0
    ELSE Opened(events) /\ heap[1] = <<>> /\ Cardinality(RowPlaces) = Lines

StreamInv ==
  /\ HandedInv
  /\ WhileRunning
  /\ outcome # "run" \/ ~opts.stream => StreamProtocol

-----------------------------------------------------------------------------

LEMMA PlacesFinite ==
  ASSUME Inv, opts.stream
  PROVE  /\ RowPlaces \subseteq 1 .. Len(events) /\ Len(events) \in Nat
         /\ IsFiniteSet(RowPlaces) /\ Cardinality(RowPlaces) \in Nat
<1>1. RowPlaces \subseteq 1 .. Len(events) /\ Len(events) \in Nat
  BY LenProperties DEF RowPlaces, Inv
<1>2. IsFiniteSet(1 .. Len(events))
  BY <1>1, FS_Interval
<1>3. QED
  BY <1>1, <1>2, FS_Subset, FS_CardinalityType

\* The csv rule opens first, and the document's array is there from then on.
LEMMA AtStart ==
  ASSUME Inv, Top.rule = "csv", Top.at = "bo"
  PROVE  heap = <<>>
<1>1. Top \in Frame /\ Level(Top.rule) = Depth
  BY TopType
<1>2. Depth = 1
  BY <1>1, LevelOf DEF Frame
<1>3. QED
  BY <1>2, HeapType DEF Inv, ShapeOf, Top

LEMMA Begun ==
  ASSUME Inv, ~(Top.rule = "csv" /\ Top.at = "bo")
  PROVE  heap # <<>>
<1>1. Top \in Frame /\ Level(Top.rule) = Depth /\ Depth \in Nat \ {0}
  BY TopType
<1>2. CASE Depth = 1
  <2>1. Top.rule = "csv" /\ Top = stack[1]
    BY <1>1, <1>2, LevelOf DEF Frame, Top
  <2>2. QED
    BY <2>1, HeapType DEF Inv, ShapeOf
<1>3. CASE Depth # 1
  <2>1. stack[1].at \in {"bc", "close"}
    BY <1>1, <1>3, TopType
  <2>2. QED
    BY <2>1, HeapType DEF Inv, ShapeOf
<1>4. QED
  BY <1>2, <1>3

\* While the parse runs, what has been said so far keeps to the protocol.
LEMMA SoFar ==
  ASSUME Inv, WhileRunning, outcome = "run", opts.stream
  PROVE  StreamProtocol
<1>1. outcome \notin Codes /\ outcome # "done" /\ ~ThrewOn("end") /\ ~ThrewOn("record")
  BY DEF Codes, ThrewOn
<1>2. events \in Seq(Event) /\ Len(events) \in Nat /\ DOMAIN events = 1 .. Len(events)
  BY LenProperties DEF Inv
<1>3. CASE heap = <<>>
  <2>1. events = <<>> /\ recordI = 0
    BY <1>3 DEF WhileRunning
  <2>2. RowPlaces = {} /\ DOMAIN events = {}
    BY <2>1 DEF RowPlaces
  <2>3. Cardinality(RowPlaces) = 0
    BY <2>2, FS_EmptySet
  <2>4. ~HeardEnd
    BY <2>2 DEF HeardEnd
  <2>5. QED
    BY <1>1, <1>3, <2>1, <2>2, <2>3, <2>4 DEF StreamProtocol
<1>4. CASE heap # <<>>
  <2>1. Opened(events) /\ heap[1] = <<>> /\ Cardinality(RowPlaces) = Lines
    BY <1>4 DEF WhileRunning
  <2>2. \A i \in DOMAIN events : events[i].ev = IF i = 1 THEN "start" ELSE "record"
    BY <1>2, <2>1 DEF Opened
  <2>3. ~HeardEnd
    BY <2>2 DEF HeardEnd
  <2>4. events # <<>> /\ Len(events) \in DOMAIN events
    BY <1>2, <2>1 DEF Opened
  <2>5. Last(events).ev # "error"
    BY <2>2, <2>4 DEF Last
  <2>6. Cardinality(RowPlaces) = Lines + 0
    BY <2>1 DEF Lines, Inv
  <2>7. QED
    BY <1>1, <2>1, <2>2, <2>3, <2>5, <2>6 DEF StreamProtocol, Lines
<1>5. QED
  BY <1>3, <1>4

\* The steps that say nothing and finish no line.
LEMMA QuietStream ==
  ASSUME StreamInv, HandedInv', opts.stream, HeapSpared, heap # <<>>, outcome = "run",
         UNCHANGED <<opts, events, recordI, outcome>>
  PROVE  StreamInv'
<1>1. Inv /\ Inv'
  BY DEF StreamInv, HandedInv
<1>2. RowsKept
  BY <1>1, QuietRows
<1>3. heap' # <<>> /\ heap'[1] = heap[1]
  BY DEF HeapSpared
<1>4. WhileRunning'
  BY <1>2, <1>3 DEF StreamInv, WhileRunning, RowsKept, Lines
<1>5. QED
  BY <1>4 DEF StreamInv

\* A callback that is not there is never called.
LEMMA SilentStep ==
  ASSUME StreamInv, HandedInv', ~opts.stream, Step
  PROVE  StreamInv'
<1>1. events = <<>>
  BY DEF StreamInv, StreamProtocol
<1>2. opts' = opts /\ events' = events
  <2>1. CASE CsvBO \/ ListBO \/ ValBO \/ TextBC \/ ValBC \/ ElemBC
    BY <2>1 DEF CsvBO, ListBO, ValBO, TextBC, ValBC, ElemBC, Emit
  <2>2. CASE RecordBC
    BY <2>2 DEF RecordBC, RecordHeader, RecordRefused, RecordRow, Fail, ErrorEvents
  <2>3. CASE OpenPush \/ OpenReplace \/ OpenStay \/ CloseReplace \/ ClosePop
    BY <2>3 DEF OpenPush, OpenReplace, OpenStay, CloseReplace, ClosePop, Take
  <2>4. CASE CsvClose \/ CallbackThrows \/ Unexpected
    BY <2>4 DEF CsvClose, CallbackThrows, Unexpected, Emit, Fail, ErrorEvents
  <2>5. QED
    BY <2>1, <2>2, <2>3, <2>4 DEF Step
<1>3. WhileRunning' /\ StreamProtocol'
  BY <1>1, <1>2 DEF WhileRunning, StreamProtocol
<1>4. QED
  BY <1>3 DEF StreamInv

LEMMA CsvBOStream ==
  ASSUME StreamInv, HandedInv', opts.stream, CsvBO
  PROVE  StreamInv'
<1>1. Inv /\ outcome = "run" /\ opts' = opts /\ outcome' = outcome /\ recordI' = 0
  BY DEF StreamInv, HandedInv, CsvBO, Running
<1>2. heap = <<>> /\ heap' = Append(heap, <<>>)
  BY <1>1, AtStart DEF CsvBO, Running
<1>3. events = <<>>
  BY <1>1, <1>2 DEF StreamInv, WhileRunning
<1>4. [ev |-> "start"] \in Event /\ [ev |-> "start"].ev = "start"
  BY DEF Event
<1>5. HeapSpared /\ heap' # <<>> /\ heap'[1] = <<>>
  BY <1>1, <1>2, HeapLonger DEF HeapSpared
<1>6. RowPlaces' = RowPlaces /\ RowPlaces = {}
  <2>1. RowsKept
    BY <1>1, <1>4, <1>5, EmitRows DEF CsvBO
  <2>2. QED
    BY <1>1, <1>2, <2>1 DEF RowsKept, StreamInv, HandedInv, HeaderFirst
<1>7. Cardinality(RowPlaces') = 0
  BY <1>6, FS_EmptySet
<1>8. Opened(events')
  <2>1. events' = Append(events, [ev |-> "start"]) /\ events \in Seq(Event)
    BY <1>1 DEF CsvBO, Emit, Inv
  <2>2. Len(events') = 1 /\ events'[1] = [ev |-> "start"]
    BY <1>3, <1>4, <2>1
  <2>3. QED
    BY <1>4, <2>2 DEF Opened
<1>9. Lines' = 0
  BY <1>1 DEF Lines
<1>10. QED
  BY <1>1, <1>5, <1>7, <1>8, <1>9 DEF StreamInv, WhileRunning

\* The header is a line that is read and not handed out.
LEMMA HeaderStream ==
  ASSUME StreamInv, HandedInv', opts.stream, RecordHeader
  PROVE  StreamInv'
<1>1. /\ Inv /\ outcome = "run" /\ opts' = opts /\ outcome' = outcome /\ events' = events
      /\ heap' = heap /\ recordI = 0 /\ recordI' = 1 /\ opts.header
  BY DEF StreamInv, HandedInv, RecordHeader, Running, IsHeader
<1>2. heap # <<>>
  BY <1>1, Begun DEF RecordHeader
<1>3. RowPlaces' = RowPlaces
  BY <1>1 DEF RowPlaces
<1>4. Lines = 0 /\ Lines' = 0
  BY <1>1 DEF Lines
<1>5. QED
  BY <1>1, <1>2, <1>3, <1>4 DEF StreamInv, WhileRunning

LEMMA RowStream ==
  ASSUME StreamInv, HandedInv', opts.stream, RecordRow
  PROVE  StreamInv'
<1>1. /\ Inv /\ outcome = "run" /\ opts' = opts /\ outcome' = outcome /\ heap' = heap
      /\ recordI' = recordI + 1 /\ recordI \in Nat
      /\ events' = Append(events, [ev |-> "record", row |-> Shaped])
      /\ opts.header => recordI # 0
  BY DEF StreamInv, HandedInv, RecordRow, Running, IsHeader, Inv
<1>2. heap # <<>> /\ Opened(events) /\ heap[1] = <<>> /\ Cardinality(RowPlaces) = Lines
  BY <1>1, Begun DEF RecordRow, StreamInv, WhileRunning
<1>3. Shaped \in Row
  BY <1>1, ShapedType DEF RecordRow
<1>4. PICK row \in Row : row = Shaped
  BY <1>3
<1>5. [ev |-> "record", row |-> row] \in Event
  BY DEF Event
<1>6. PICK call \in Event : call = [ev |-> "record", row |-> row]
  BY <1>5
<1>7. events' = Append(events, call) /\ events \in Seq(Event) /\ call.ev = "record"
  BY <1>1, <1>4, <1>6 DEF Inv
<1>8. /\ Len(events') = Len(events) + 1 /\ Len(events) \in Nat
      /\ \A i \in 1 .. Len(events) : events'[i] = events[i]
      /\ events'[Len(events) + 1] = call
  BY <1>7
<1>9. Opened(events')
  BY <1>2, <1>7, <1>8 DEF Opened
<1>10. PICK place : place = Len(events) + 1
  OBVIOUS
<1>11. RowPlaces' = RowPlaces \union {place} /\ place \notin RowPlaces
  <2>1. RowPlaces' = {i \in 1 .. Len(events) + 1 : events'[i].ev = "record"}
    <3>1. DOMAIN events' = 1 .. Len(events) + 1
      BY <1>7, <1>8
    <3>2. QED
      BY <1>1, <3>1 DEF RowPlaces
  <2>2. RowPlaces = {i \in 1 .. Len(events) : events[i].ev = "record"}
    BY <1>7, LenProperties DEF RowPlaces
  <2>3. QED
    BY <1>7, <1>8, <1>10, <2>1, <2>2
<1>12. Cardinality(RowPlaces') = Cardinality(RowPlaces) + 1
  BY <1>1, <1>11, PlacesFinite, FS_AddElement
<1>13. Lines' = Lines + 1
  BY <1>1 DEF Lines
<1>14. QED
  BY <1>1, <1>2, <1>9, <1>12, <1>13 DEF StreamInv, WhileRunning

-----------------------------------------------------------------------------
(* The end of a parse.                                                     *)

\* What a streamed parse has said before the step that ends it.
LEMMA Before ==
  ASSUME StreamInv, opts.stream, outcome = "run", heap # <<>>
  PROVE  /\ Inv /\ events \in Seq(Event) /\ Len(events) \in Nat /\ Len(events) >= 1
         /\ \A i \in 1 .. Len(events) : events[i].ev = IF i = 1 THEN "start" ELSE "record"
         /\ heap[1] = <<>> /\ Cardinality(RowPlaces) = Lines
         /\ RowPlaces = 2 .. Len(events) /\ Lines \in Nat
<1>1. /\ Inv /\ Opened(events) /\ heap[1] = <<>> /\ Cardinality(RowPlaces) = Lines
  BY DEF StreamInv, HandedInv, WhileRunning
<1>2. events \in Seq(Event) /\ Len(events) \in Nat /\ DOMAIN events = 1 .. Len(events)
  BY <1>1, LenProperties DEF Inv
<1>3. \A i \in 1 .. Len(events) : events[i].ev = IF i = 1 THEN "start" ELSE "record"
  BY <1>1, <1>2 DEF Opened
<1>4. RowPlaces = 2 .. Len(events)
  BY <1>2, <1>3 DEF RowPlaces
<1>5. QED
  BY <1>1, <1>2, <1>3, <1>4 DEF Opened, Lines, Inv

\* One call more, the last.
LEMMA LastCall ==
  ASSUME StreamInv, opts.stream, outcome = "run", heap # <<>>,
         NEW call \in Event, call.ev # "record", events' = Append(events, call), opts' = opts
  PROVE  /\ Len(events') = Len(events) + 1 /\ DOMAIN events' = 1 .. Len(events')
         /\ events' # <<>> /\ Last(events)' = call /\ events'[Len(events')] = call
         /\ \A i \in 1 .. Len(events) :
              events'[i].ev = IF i = 1 THEN "start" ELSE "record"
         /\ RowPlaces' = RowPlaces
<1>1. events \in Seq(Event) /\ Len(events) \in Nat /\ RowPlaces = 2 .. Len(events)
  BY Before
<1>2. /\ Len(events') = Len(events) + 1 /\ DOMAIN events' = 1 .. Len(events) + 1
      /\ \A i \in 1 .. Len(events) : events'[i] = events[i]
      /\ events'[Len(events) + 1] = call /\ events' # <<>>
  BY <1>1
<1>3. \A i \in 1 .. Len(events) : events'[i].ev = IF i = 1 THEN "start" ELSE "record"
  BY <1>2, Before
<1>4. Last(events)' = call
  BY <1>2 DEF Last
<1>5. RowPlaces' = {i \in 1 .. Len(events) + 1 : events'[i].ev = "record"}
  BY <1>2 DEF RowPlaces
<1>6. QED
  BY <1>1, <1>2, <1>3, <1>4, <1>5

LEMMA FailStream ==
  ASSUME StreamInv, HandedInv', opts.stream, outcome = "run", heap # <<>>, Port = "ts",
         NEW code \in Codes, code # "thrown", Fail(code)
  PROVE  StreamInv'
<1>1. PICK call \in Event : call.ev = "error" /\ call = [ev |-> "error", code |-> code]
  BY DEF Event
<1>2. /\ events' = Append(events, call) /\ opts' = opts /\ heap' = heap
      /\ recordI' = recordI /\ outcome' = code
  BY <1>1 DEF Fail, ErrorEvents
<1>3. /\ Len(events') = Len(events) + 1 /\ DOMAIN events' = 1 .. Len(events')
      /\ events' # <<>> /\ Last(events)' = call /\ events'[Len(events')] = call
      /\ \A i \in 1 .. Len(events) : events'[i].ev = IF i = 1 THEN "start" ELSE "record"
      /\ RowPlaces' = RowPlaces
  BY <1>1, <1>2, LastCall
<1>4. /\ Len(events) \in Nat /\ Len(events) >= 1 /\ heap'[1] = <<>>
      /\ Cardinality(RowPlaces') = Lines' + 0
  BY <1>2, <1>3, Before DEF Lines
<1>5. \A i \in DOMAIN events' :
        events'[i].ev = IF i = 1 THEN "start" ELSE IF i = Len(events') THEN "error" ELSE "record"
  BY <1>1, <1>3, <1>4
<1>6. outcome' \in Codes /\ outcome' # "run" /\ outcome' # "done" /\ outcome' # "thrown"
  BY <1>2 DEF Codes
<1>7. ~ThrewOn("end")' /\ ~ThrewOn("record")' /\ ~HeardEnd'
  BY <1>5, <1>6 DEF ThrewOn, HeardEnd
<1>8. StreamProtocol'
  BY <1>1, <1>2, <1>3, <1>4, <1>5, <1>6, <1>7 DEF StreamProtocol, Lines
<1>9. QED
  BY <1>6, <1>8 DEF StreamInv, WhileRunning

LEMMA CloseStream ==
  ASSUME StreamInv, HandedInv', opts.stream, CsvClose
  PROVE  StreamInv'
<1>1. Inv /\ outcome = "run"
  BY DEF StreamInv, HandedInv, CsvClose, Running
<1>2. heap # <<>>
  BY <1>1, Begun DEF CsvClose, Running
<1>3. PICK call \in Event : call.ev = "end" /\ call = [ev |-> "end"]
  BY DEF Event
<1>4. /\ events' = Append(events, call) /\ opts' = opts /\ heap' = heap
      /\ recordI' = recordI /\ outcome' = "done"
  BY <1>3 DEF CsvClose, Emit
<1>5. /\ Len(events') = Len(events) + 1 /\ DOMAIN events' = 1 .. Len(events')
      /\ events' # <<>> /\ Last(events)' = call /\ events'[Len(events')] = call
      /\ \A i \in 1 .. Len(events) : events'[i].ev = IF i = 1 THEN "start" ELSE "record"
      /\ RowPlaces' = RowPlaces
  BY <1>1, <1>2, <1>3, <1>4, LastCall
<1>6. /\ Len(events) \in Nat /\ Len(events) >= 1 /\ heap'[1] = <<>>
      /\ Cardinality(RowPlaces') = Lines' + 0
  BY <1>1, <1>2, <1>4, <1>5, Before DEF Lines
<1>7. \A i \in DOMAIN events' :
        events'[i].ev = IF i = 1 THEN "start" ELSE IF i = Len(events') THEN "end" ELSE "record"
  BY <1>3, <1>5, <1>6
<1>8. outcome' \notin Codes
  BY <1>4 DEF Codes
<1>9. ~ThrewOn("end")' /\ ~ThrewOn("record")'
  BY <1>4 DEF ThrewOn
<1>10. HeardEnd'
  <2>1. Len(events') \in DOMAIN events'
    BY <1>5, <1>6
  <2>2. QED
    BY <1>3, <1>5, <2>1 DEF HeardEnd
<1>11. StreamProtocol'
  BY <1>3, <1>4, <1>5, <1>6, <1>7, <1>8, <1>9, <1>10 DEF StreamProtocol, Lines
<1>12. QED
  BY <1>4, <1>11 DEF StreamInv, WhileRunning

\* The callback throws, and is called once more.
LEMMA TwoCalls ==
  ASSUME Inv, Port = "ts", NEW call \in Event, Thrown(call)
  PROVE  /\ outcome' = "thrown" /\ opts' = opts /\ heap' = heap
         /\ Len(events') = Len(events) + 2 /\ DOMAIN events' = 1 .. Len(events) + 2
         /\ Len(events) \in Nat /\ events' # <<>>
         /\ \A i \in 1 .. Len(events) : events'[i] = events[i]
         /\ events'[Len(events) + 1] = call /\ events'[Len(events) + 2].ev = "error"
         /\ Last(events)'.ev = "error"
<1>1. PICK error \in Event : error.ev = "error" /\ error = [ev |-> "error", code |-> "thrown"]
  BY DEF Event, Codes
<1>2. /\ events' = events \o <<call, error>> /\ outcome' = "thrown" /\ opts' = opts
      /\ heap' = heap /\ events \in Seq(Event)
  BY <1>1 DEF Thrown, Inv
<1>3. /\ <<call, error>> \in Seq(Event) /\ Len(<<call, error>>) = 2
      /\ <<call, error>>[1] = call /\ <<call, error>>[2] = error
  OBVIOUS
<1>4. PICK calls \in Seq(Event) : calls = <<call, error>>
  BY <1>3
<1>5. /\ Len(calls) = 2 /\ calls[1] = call /\ calls[2] = error /\ events' = events \o calls
  BY <1>2, <1>3, <1>4
<1>6. /\ Len(events') = Len(events) + 2 /\ Len(events) \in Nat
      /\ DOMAIN events' = 1 .. Len(events) + 2
      /\ \A i \in 1 .. Len(events) : events'[i] = events[i]
      /\ events'[Len(events) + 1] = call /\ events'[Len(events) + 2] = error
  BY <1>2, <1>5
<1>7. events' # <<>>
  BY <1>6
<1>8. QED
  BY <1>1, <1>2, <1>6, <1>7 DEF Last

LEMMA ThrownStream ==
  ASSUME StreamInv, HandedInv', opts.stream, outcome = "run", heap # <<>>, Port = "ts",
         NEW call \in Event, call.ev \in {"record", "end"}, Thrown(call), recordI' = recordI
  PROVE  StreamInv'
<1> DEFINE n == Len(events)
<1>1. /\ Inv /\ n \in Nat /\ n >= 1
      /\ \A i \in 1 .. n : events[i].ev = IF i = 1 THEN "start" ELSE "record"
      /\ heap[1] = <<>> /\ Cardinality(RowPlaces) = Lines
      /\ RowPlaces = 2 .. n /\ Lines \in Nat
  BY Before
<1>2. /\ outcome' = "thrown" /\ opts' = opts /\ heap' = heap
      /\ Len(events') = n + 2 /\ DOMAIN events' = 1 .. n + 2 /\ events' # <<>>
      /\ \A i \in 1 .. n : events'[i] = events[i]
      /\ events'[n + 1] = call /\ events'[n + 2].ev = "error"
      /\ Last(events)'.ev = "error"
  BY <1>1, TwoCalls
<1> HIDE DEF n
<1>3. \A i \in DOMAIN events' :
        events'[i].ev = IF i = 1 THEN "start" ELSE IF i = n + 2 THEN "error"
                        ELSE IF i = n + 1 THEN call.ev ELSE "record"
  BY <1>1, <1>2
<1>4. ThrewOn("end")' <=> call.ev = "end"
  BY <1>1, <1>2 DEF ThrewOn
<1>5. ThrewOn("record")' <=> call.ev = "record"
  BY <1>1, <1>2 DEF ThrewOn
<1>6. HeardEnd' <=> call.ev = "end"
  <2>1. n + 1 \in DOMAIN events' /\ n + 1 # 1 /\ n + 1 # n + 2
    BY <1>1, <1>2
  <2>2. call.ev = "end" => HeardEnd'
    BY <1>2, <2>1 DEF HeardEnd
  <2>3. HeardEnd' => call.ev = "end"
    BY <1>3 DEF HeardEnd
  <2>4. QED
    BY <2>2, <2>3
<1>7. Cardinality(RowPlaces') = Lines + (IF call.ev = "record" THEN 1 ELSE 0)
  <2>1. RowPlaces' = {i \in 1 .. n + 2 : events'[i].ev = "record"}
    BY <1>2 DEF RowPlaces
  <2>2. CASE call.ev = "record"
    <3>1. PICK place : place = n + 1
      OBVIOUS
    <3>2. RowPlaces' = RowPlaces \union {place} /\ place \notin RowPlaces
      BY <1>1, <1>2, <1>3, <2>1, <2>2, <3>1
    <3>3. IsFiniteSet(RowPlaces)
      BY <1>1, PlacesFinite
    <3>4. Cardinality(RowPlaces \union {place}) = Cardinality(RowPlaces) + 1
      BY <3>2, <3>3, FS_AddElement
    <3>5. QED
      BY <1>1, <2>2, <3>2, <3>4
  <2>3. CASE call.ev # "record"
    <3>1. RowPlaces' = RowPlaces
      BY <1>1, <1>2, <1>3, <2>1, <2>3
    <3>2. QED
      BY <1>1, <2>3, <3>1
  <2>4. QED
    BY <2>2, <2>3
<1>8. Lines' = Lines
  BY <1>2 DEF Lines
<1>9. outcome' \in Codes /\ outcome' # "run" /\ outcome' # "done"
  BY <1>2 DEF Codes
<1>10. StreamProtocol'
  <2>1. /\ opts'.stream
        /\ HeardEnd' <=> outcome' = "done" \/ ThrewOn("end")'
        /\ outcome' \in Codes <=> events' # <<>> /\ Last(events)'.ev = "error"
    BY <1>2, <1>4, <1>6, <1>9
  <2>2. \A i \in DOMAIN events' :
          /\ events'[i].ev = "start" <=> i = 1
          /\ events'[i].ev = "end" => i = IF ThrewOn("end")' THEN Len(events') - 1 ELSE Len(events')
          /\ events'[i].ev = "error" => i = Len(events')
    BY <1>1, <1>2, <1>3, <1>4
  <2>3. Cardinality(RowPlaces') = Lines' + (IF ThrewOn("record")' THEN 1 ELSE 0)
    BY <1>5, <1>7, <1>8
  <2>4. heap' # <<>> => heap'[1] = <<>>
    BY <1>1, <1>2
  <2>5. QED
    BY <2>1, <2>2, <2>3, <2>4 DEF StreamProtocol, Lines
<1>11. QED
  BY <1>9, <1>10 DEF StreamInv, WhileRunning

\* It throws on its first call.
LEMMA ThrownAtOnce ==
  ASSUME StreamInv, HandedInv', opts.stream, outcome = "run", heap = <<>>, Port = "ts",
         Thrown([ev |-> "start"]), recordI' = 0
  PROVE  StreamInv'
<1>1. Inv /\ events = <<>> /\ Len(events) = 0
  BY DEF StreamInv, HandedInv, WhileRunning
<1>2. PICK call \in Event : call.ev = "start" /\ call = [ev |-> "start"]
  BY DEF Event
<1>3. Thrown(call)
  BY <1>2
<1>4. /\ outcome' = "thrown" /\ opts' = opts /\ heap' = heap
      /\ Len(events') = 2 /\ DOMAIN events' = 1 .. 2 /\ events' # <<>>
      /\ events'[1] = call /\ events'[2].ev = "error" /\ Last(events)'.ev = "error"
  BY <1>1, <1>3, TwoCalls
<1>5. RowPlaces' = {}
  BY <1>2, <1>4 DEF RowPlaces
<1>6. Cardinality(RowPlaces') = 0
  BY <1>5, FS_EmptySet
<1>7. ~ThrewOn("end")' /\ ~ThrewOn("record")'
  BY <1>2, <1>4 DEF ThrewOn
<1>8. ~HeardEnd'
  BY <1>2, <1>4 DEF HeardEnd
<1>9. outcome' \in Codes /\ outcome' # "run" /\ outcome' # "done"
  BY <1>4 DEF Codes
<1>10. \A i \in DOMAIN events' : events'[i].ev = IF i = 1 THEN "start" ELSE "error"
  BY <1>2, <1>4
<1>11. StreamProtocol'
  BY <1>4, <1>6, <1>7, <1>8, <1>9, <1>10 DEF StreamProtocol
<1>12. QED
  BY <1>9, <1>11 DEF StreamInv, WhileRunning

LEMMA CallbackThrowsStream ==
  ASSUME StreamInv, HandedInv', Port = "ts", CallbackThrows
  PROVE  StreamInv'
<1>1. Inv /\ opts.stream /\ outcome = "run"
  BY DEF StreamInv, HandedInv, CallbackThrows, Running
<1>2. CASE /\ Running("bo") /\ Top.rule = "csv" /\ Thrown([ev |-> "start"]) /\ recordI' = 0
  BY <1>1, <1>2, AtStart, ThrownAtOnce DEF Running
<1>3. CASE /\ Running("bc") /\ Top.rule = "record" /\ ~WrongCount
           /\ Thrown([ev |-> "record", row |-> Shaped]) /\ recordI' = recordI
  <2>1. Shaped \in Row
    BY <1>1, <1>3, ShapedType
  <2>2. PICK call \in Event : call.ev = "record" /\ call = [ev |-> "record", row |-> Shaped]
    BY <2>1 DEF Event
  <2>3. heap # <<>>
    BY <1>1, <1>3, Begun
  <2>4. QED
    BY <1>1, <1>3, <2>2, <2>3, ThrownStream
<1>4. CASE Running("close") /\ Thrown([ev |-> "end"]) /\ recordI' = recordI
  <2>1. PICK call \in Event : call.ev = "end" /\ call = [ev |-> "end"]
    BY DEF Event
  <2>2. heap # <<>>
    BY <1>1, <1>4, Begun DEF Running
  <2>3. QED
    BY <1>1, <1>4, <2>1, <2>2, ThrownStream
<1>5. QED
  BY <1>2, <1>3, <1>4 DEF CallbackThrows

-----------------------------------------------------------------------------
(* The protocol holds throughout.                                          *)

LEMMA EngineStream ==
  ASSUME StreamInv, HandedInv', opts.stream,
         OpenPush \/ OpenReplace \/ OpenStay \/ CloseReplace \/ ClosePop
  PROVE  StreamInv'
<1>1. HandedInv /\ Inv
  BY DEF StreamInv, HandedInv
<1>2. PICK alt : /\ AltOK(Top.rule, alt) /\ Take(alt) /\ outcome = "run" /\ Top.at # "bo"
                 /\ events' = events /\ outcome' = outcome
  <2>1. CASE OpenPush \/ OpenReplace \/ OpenStay
    BY <1>1, <2>1, OpenAltOK DEF OpenPush, OpenReplace, OpenStay, Running
  <2>2. CASE CloseReplace \/ ClosePop
    BY <1>1, <2>2, OpenAltOK DEF CloseReplace, ClosePop, Running
  <2>3. QED
    BY <2>1, <2>2
<1>3. HeapSpared /\ opts' = opts /\ recordI' = recordI
  BY <1>1, <1>2, TakeSpares DEF Take
<1>4. QED
  BY <1>1, <1>2, <1>3, Begun, QuietStream

LEMMA CallbackStream ==
  ASSUME StreamInv, HandedInv', opts.stream, ListBO \/ ValBO \/ TextBC \/ ValBC \/ ElemBC
  PROVE  StreamInv'
<1>1. /\ HandedInv /\ Inv /\ outcome = "run"
      /\ UNCHANGED <<opts, events, recordI, outcome>>
  BY DEF StreamInv, HandedInv, ListBO, ValBO, TextBC, ValBC, ElemBC, Running
<1>2. heap # <<>>
  BY <1>1, Begun DEF ListBO, ValBO, TextBC, ValBC, ElemBC
<1>3. HeapSpared
  BY <1>1, HeapSame, HeapLonger, HeapFilled DEF ListBO, ValBO, TextBC, ValBC, ElemBC, Running
<1>4. QED
  BY <1>1, <1>2, <1>3, QuietStream

LEMMA StepStream ==
  ASSUME StreamInv, HandedInv', Port = "ts", Step
  PROVE  StreamInv'
<1>1. CASE ~opts.stream
  BY <1>1, SilentStep
<1>2. CASE opts.stream
  <2>1. CASE CsvBO
    BY <1>2, <2>1, CsvBOStream
  <2>2. CASE ListBO \/ ValBO \/ TextBC \/ ValBC \/ ElemBC
    BY <1>2, <2>2, CallbackStream
  <2>3. CASE OpenPush \/ OpenReplace \/ OpenStay \/ CloseReplace \/ ClosePop
    BY <1>2, <2>3, EngineStream
  <2>4. CASE RecordHeader \/ RecordRow
    BY <1>2, <2>4, HeaderStream, RowStream
  <2>5. CASE RecordRefused
    <3>1. CountError \in Codes /\ CountError # "thrown"
      BY DEF CountError, Codes
    <3>2. Inv /\ outcome = "run" /\ heap # <<>>
      BY <2>5, Begun DEF StreamInv, HandedInv, RecordRefused, Running
    <3>3. QED
      BY <1>2, <2>5, <3>1, <3>2, FailStream DEF RecordRefused
  <2>6. CASE Unexpected
    <3>1. "unexpected" \in Codes /\ "unexpected" # "thrown"
      BY DEF Codes
    <3>2. Inv /\ outcome = "run" /\ heap # <<>>
      BY <2>6, Begun DEF StreamInv, HandedInv, Unexpected, Running
    <3>3. QED
      BY <1>2, <2>6, <3>1, <3>2, FailStream DEF Unexpected
  <2>7. CASE CsvClose
    BY <1>2, <2>7, CloseStream
  <2>8. CASE CallbackThrows
    BY <2>8, CallbackThrowsStream
  <2>9. QED
    BY <2>1, <2>2, <2>3, <2>4, <2>5, <2>6, <2>7, <2>8 DEF Step, RecordBC
<1>3. QED
  BY <1>1, <1>2

LEMMA InitStream ==
  ASSUME Init, HandedInv
  PROVE  StreamInv
<1>1. outcome = "run" /\ events = <<>> /\ heap = <<>> /\ recordI = 0
  BY DEF Init
<1>2. QED
  BY <1>1 DEF StreamInv, WhileRunning, StreamProtocol

\* The stream callback of the TypeScript port hears "start" first and once, then
\* the records, one for each line read; "end" when the parse comes to its end,
\* and an error, last, exactly when it fails - also when the failure is its own,
\* which the wrapper around parser.start catches (ts/src/csv.ts:197-208).
THEOREM StreamKept ==
  ASSUME Port = "ts"
  PROVE  Spec => []StreamProtocol
<1>1. Init /\ HandedInv => StreamInv
  BY InitStream
<1>2. StreamInv /\ HandedInv' /\ [Next]_vars => StreamInv'
  <2>1. SUFFICES ASSUME StreamInv, HandedInv', [Next]_vars PROVE StreamInv'
    OBVIOUS
  <2>2. CASE Step
    BY <2>1, <2>2, StepStream
  <2>3. CASE UNCHANGED vars
    BY <2>1, <2>3 DEF vars, StreamInv, WhileRunning, StreamProtocol, Opened, Lines, RowPlaces,
       HeardEnd, ThrewOn, Last
  <2>4. QED
    BY <2>1, <2>2, <2>3 DEF Next, Returned
<1>3. StreamInv => StreamProtocol
  <2>1. StreamInv /\ outcome = "run" /\ opts.stream => StreamProtocol
    BY SoFar DEF StreamInv, HandedInv
  <2>2. QED
    BY <2>1 DEF StreamInv
<1>4. QED
  BY <1>1, <1>2, <1>3, HandedInvariance, PTL DEF Spec

-----------------------------------------------------------------------------
(* The parse implements CsvRecords.  From here on: counting the places of  *)
(* a set, lines and fields among them.                                     *)

\* A set of numbers has a least one.
LEMMA Least ==
  ASSUME NEW T \in SUBSET Nat, T # {}
  PROVE  \E m \in T : \A y \in T : m <= y
<1> DEFINE R == OpToRel(<, Nat)
<1>1. IsWellFoundedOn(R, Nat)
  BY NatLessThanWellFounded
<1>2. ASSUME NEW x \in Nat, NEW y \in Nat, y < x PROVE <<y, x>> \in R
  BY <1>2 DEF OpToRel
<1>3. PICK m \in T : \A y \in T : ~(<<y, m>> \in R)
  <2> HIDE DEF R
  <2>1. QED
    BY <1>1, WFMin
<1>4. ASSUME NEW y \in T PROVE m <= y
  <2>1. m \in Nat /\ y \in Nat
    OBVIOUS
  <2>2. <<y, m>> \notin R
    BY <1>3
  <2>3. ~(y < m)
    BY <1>2, <2>1, <2>2
  <2>4. QED
    BY <2>1, <2>3
<1>5. QED
  BY <1>4

\* The members of S before place p.
Preceding(S, p) == {x \in S : x < p}
CountBefore(S, p) == Cardinality(Preceding(S, p))

LEMMA EarlierFinite ==
  ASSUME NEW S \in SUBSET Nat, IsFiniteSet(S), NEW p \in Nat
  PROVE  /\ IsFiniteSet(Preceding(S, p)) /\ CountBefore(S, p) \in Nat
         /\ Cardinality(S) \in Nat /\ CountBefore(S, p) <= Cardinality(S)
         /\ (\A x \in S : x < p) => CountBefore(S, p) = Cardinality(S)
<1>1. Preceding(S, p) \in SUBSET S
  BY DEF Preceding
<1>2. /\ IsFiniteSet(Preceding(S, p)) /\ Cardinality(Preceding(S, p)) <= Cardinality(S)
  BY <1>1, FS_Subset
<1>3. Cardinality(Preceding(S, p)) \in Nat /\ Cardinality(S) \in Nat
  BY <1>2, FS_CardinalityType
<1>4. ASSUME \A x \in S : x < p PROVE Preceding(S, p) = S
  <2>1. \A x : x \in Preceding(S, p) <=> x \in S
    BY <1>4 DEF Preceding
  <2>2. QED
    BY <2>1
<1>5. QED
  BY <1>2, <1>3, <1>4 DEF CountBefore

\* Past a member, and past no other, there is one more.
LEMMA BeforeNext ==
  ASSUME NEW S \in SUBSET Nat, IsFiniteSet(S), NEW x \in S, NEW p \in Nat, x < p,
         \A y \in S : y <= x \/ p <= y
  PROVE  CountBefore(S, p) = CountBefore(S, x) + 1
<1>1. Preceding(S, p) = Preceding(S, x) \union {x}
  <2>1. \A y \in Nat : y \in Preceding(S, p) <=> y \in Preceding(S, x) \/ y = x
    BY DEF Preceding
  <2>2. Preceding(S, p) \in SUBSET Nat /\ Preceding(S, x) \in SUBSET Nat /\ x \in Nat
    BY DEF Preceding
  <2>3. QED
    BY <2>1, <2>2
<1>2. x \notin Preceding(S, x)
  BY DEF Preceding
<1>3. x \in Nat
  OBVIOUS
<1>4. IsFiniteSet(Preceding(S, x))
  BY <1>3, EarlierFinite
<1>5. Cardinality(Preceding(S, x) \union {x}) = Cardinality(Preceding(S, x)) + 1
  BY <1>2, <1>4, FS_AddElement
<1>6. QED
  BY <1>1, <1>5 DEF CountBefore

\* Where none lies between, there are as many.
LEMMA BeforeSame ==
  ASSUME NEW S \in SUBSET Nat, NEW p \in Nat, NEW r \in Nat, p <= r,
         \A y \in S : y < p \/ r <= y
  PROVE  CountBefore(S, r) = CountBefore(S, p)
<1>1. Preceding(S, r) = Preceding(S, p)
  <2>1. \A y \in Nat : y \in Preceding(S, p) <=> y \in Preceding(S, r)
    BY DEF Preceding
  <2>2. Preceding(S, p) \in SUBSET Nat /\ Preceding(S, r) \in SUBSET Nat
    BY DEF Preceding
  <2>3. QED
    BY <2>1, <2>2
<1>2. QED
  BY <1>1 DEF CountBefore

LEMMA BeforeGrows ==
  ASSUME NEW S \in SUBSET Nat, IsFiniteSet(S), NEW x \in S, NEW p \in Nat, x < p
  PROVE  CountBefore(S, x) < CountBefore(S, p)
<1>1. x \in Nat
  OBVIOUS
<1>2. Preceding(S, x) \in SUBSET Preceding(S, p) /\ x \in Preceding(S, p) /\ x \notin Preceding(S, x)
  <2>1. \A y \in Nat : y \in Preceding(S, x) => y \in Preceding(S, p)
    BY <1>1 DEF Preceding
  <2>2. Preceding(S, x) \in SUBSET Nat
    BY DEF Preceding
  <2>4. x \in Preceding(S, p)
    BY DEF Preceding
  <2>5. x \notin Preceding(S, x)
    BY <1>1 DEF Preceding
  <2>3. QED
    BY <2>1, <2>2, <2>4, <2>5
<1>3. IsFiniteSet(Preceding(S, p)) /\ CountBefore(S, p) \in Nat /\ CountBefore(S, x) \in Nat
  BY <1>1, EarlierFinite
<1>4. /\ Cardinality(Preceding(S, x)) <= Cardinality(Preceding(S, p))
      /\ Cardinality(Preceding(S, p)) = Cardinality(Preceding(S, x)) => Preceding(S, p) = Preceding(S, x)
  BY <1>2, <1>3, FS_Subset
<1>5. QED
  BY <1>2, <1>3, <1>4 DEF CountBefore

\* A member is known by how many come before it.
LEMMA NthIs ==
  ASSUME NEW S \in SUBSET Nat, IsFiniteSet(S), NEW x \in S
  PROVE  /\ Nth(S, CountBefore(S, x) + 1) = x
         /\ CountBefore(S, x) \in Nat /\ CountBefore(S, x) + 1 \in 1 .. Cardinality(S)
<1>1. x \in Nat /\ CountBefore(S, x) \in Nat /\ Cardinality(S) \in Nat
  BY EarlierFinite
<1>2. CountBefore(S, x) < Cardinality(S)
  <2>1. Preceding(S, x) \in SUBSET S /\ x \notin Preceding(S, x)
    BY DEF Preceding
  <2>2. /\ Cardinality(Preceding(S, x)) <= Cardinality(S)
        /\ Cardinality(S) = Cardinality(Preceding(S, x)) => S = Preceding(S, x)
    BY <2>1, FS_Subset
  <2>3. QED
    BY <1>1, <2>1, <2>2 DEF CountBefore
<1>3. \A y \in S : CountBefore(S, y) = (CountBefore(S, x) + 1) - 1 <=> y = x
  <2>1. ASSUME NEW y \in S, CountBefore(S, y) = CountBefore(S, x), y # x PROVE FALSE
    <3>1. y \in Nat
      OBVIOUS
    <3>2. x < y \/ y < x
      BY <1>1, <2>1, <3>1
    <3>3. CountBefore(S, x) < CountBefore(S, y) \/ CountBefore(S, y) < CountBefore(S, x)
      BY <1>1, <3>1, <3>2, BeforeGrows
    <3>4. QED
      BY <1>1, <2>1, <3>3
  <2>2. QED
    BY <1>1, <2>1
<1>4. PICK n : n = CountBefore(S, x) + 1
  OBVIOUS
<1>5. Nth(S, n) = CHOOSE y \in S : CountBefore(S, y) = n - 1
  BY DEF Nth, CountBefore, Preceding
<1>6. Nth(S, n) = x
  BY <1>3, <1>4, <1>5
<1>7. QED
  BY <1>1, <1>2, <1>4, <1>6

\* For every number up to the size of S there is a member.
LEMMA NthExists ==
  ASSUME NEW S \in SUBSET Nat, IsFiniteSet(S), NEW n \in 1 .. Cardinality(S)
  PROVE  \E x \in S : CountBefore(S, x) = n - 1 /\ Nth(S, n) = x
<1>1. PICK c \in Nat : c = Cardinality(S)
  BY FS_CardinalityType
<1>2. PICK T : T = 0 .. c - 1
  OBVIOUS
<1>3. IsFiniteSet(T) /\ Cardinality(T) = c
  BY <1>1, <1>2, FS_Interval
<1>4. PICK f : f = [x \in S |-> CountBefore(S, x)]
  OBVIOUS
<1>5. \A x \in S : f[x] \in T
  BY <1>1, <1>2, <1>4, NthIs
<1>6. \A x, y \in S : f[x] = f[y] => x = y
  <2>1. SUFFICES ASSUME NEW x \in S, NEW y \in S, CountBefore(S, x) = CountBefore(S, y)
                 PROVE  x = y
    BY <1>4
  <2>2. QED
    BY <2>1, NthIs
<1>7. f \in Injection(S, T)
  <2>1. f \in [S -> T]
    BY <1>4, <1>5
  <2>2. IsInjective(f)
    BY <1>4, <1>6 DEF IsInjective
  <2>3. QED
    BY <2>1, <2>2 DEF Injection
<1>8. f \in Surjection(S, T)
  BY <1>1, <1>3, <1>7, FS_Injection
<1>9. n - 1 \in T
  BY <1>1, <1>2
<1>10. PICK x \in S : f[x] = n - 1
  BY <1>8, <1>9 DEF Surjection
<1>11. CountBefore(S, x) = n - 1
  BY <1>4, <1>10
<1>12. Nth(S, CountBefore(S, x) + 1) = x /\ CountBefore(S, x) + 1 = n
  BY <1>1, <1>11, NthIs
<1>13. QED
  BY <1>11, <1>12

\* A number past all of S becomes its last.
IsAddedLast(S, p, more) ==
  /\ Cardinality(more) = Cardinality(S) + 1 /\ Cardinality(S) \in Nat
  /\ Nth(more, Cardinality(S) + 1) = p
  /\ \A n \in 1 .. Cardinality(S) : Nth(more, n) = Nth(S, n) /\ Nth(S, n) \in S

LEMMA NthLast ==
  ASSUME NEW S \in SUBSET Nat, IsFiniteSet(S), NEW p \in Nat, \A x \in S : x < p,
         NEW more, more = S \union {p}
  PROVE  IsAddedLast(S, p, more)
<1>1. p \notin S
  OBVIOUS
<1>2. IsFiniteSet(more) /\ Cardinality(more) = Cardinality(S) + 1 /\ Cardinality(S) \in Nat
  BY <1>1, FS_AddElement, FS_CardinalityType
<1>3. more \in SUBSET Nat /\ p \in more
  OBVIOUS
<1>4. Preceding(more, p) = S
  <2>1. \A x \in Nat : x \in Preceding(more, p) <=> x \in S
    BY DEF Preceding
  <2>2. Preceding(more, p) \in SUBSET Nat
    BY <1>3 DEF Preceding
  <2>3. QED
    BY <2>1, <2>2
<1>5. CountBefore(more, p) = Cardinality(S)
  BY <1>4 DEF CountBefore
<1>6. Nth(more, Cardinality(S) + 1) = p
  BY <1>2, <1>3, <1>5, NthIs
<1>7. ASSUME NEW n \in 1 .. Cardinality(S)
      PROVE  Nth(more, n) = Nth(S, n) /\ Nth(S, n) \in S
  <2>1. PICK x \in S : CountBefore(S, x) = n - 1 /\ Nth(S, n) = x
    BY NthExists
  <2>2. Preceding(more, x) = Preceding(S, x)
    <3>1. \A y \in Nat : y \in Preceding(more, x) <=> y \in Preceding(S, x)
      BY DEF Preceding
    <3>2. Preceding(more, x) \in SUBSET Nat /\ Preceding(S, x) \in SUBSET Nat
      BY <1>3 DEF Preceding
    <3>3. QED
      BY <3>1, <3>2
  <2>3. CountBefore(more, x) = n - 1 /\ x \in more
    BY <2>1, <2>2 DEF CountBefore
  <2>4. Nth(more, CountBefore(more, x) + 1) = x
    BY <1>2, <1>3, <2>3, NthIs
  <2>5. CountBefore(more, x) + 1 = n
    BY <1>2, <2>3
  <2>6. QED
    BY <2>1, <2>4, <2>5
<1>8. QED
  BY <1>2, <1>6, <1>7 DEF IsAddedLast

\* CsvRecords counts and picks with the same operators.
LEMMA SameOps ==
  /\ \A S : Doc!Cardinality(S) = Cardinality(S)
  /\ \A S, n : Doc!Nth(S, n) = Nth(S, n)
<1>1. \A S : Doc!Cardinality(S) = Cardinality(S)
  BY Zenon DEF Doc!Cardinality, Cardinality
<1>2. \A S, n : Doc!Nth(S, n) = Nth(S, n)
  BY Zenon, <1>1 DEF Doc!Nth, Nth
<1>3. QED
  BY <1>1, <1>2

-----------------------------------------------------------------------------
(* Places in the source.                                                   *)

\* What Until promises.
StopsAt(i, kinds, e) ==
  /\ e \in i .. Len(src) + 1
  /\ e = Len(src) + 1 \/ src[e].k \in kinds
  /\ \A j \in i .. e - 1 : src[j].k \notin kinds

LEMMA UntilIs ==
  ASSUME Len(src) \in Nat, NEW i \in 1 .. Len(src) + 1, NEW kinds, NEW e, StopsAt(i, kinds, e)
  PROVE  Doc!Until(i, kinds) = e
<1>1. \A f \in i .. Len(src) + 1 : StopsAt(i, kinds, f) <=> f = e
  <2>1. ASSUME NEW f \in i .. Len(src) + 1, StopsAt(i, kinds, f), f # e PROVE FALSE
    <3>1. f < e \/ e < f
      BY <2>1 DEF StopsAt
    <3>2. CASE f < e
      <4>1. f \in i .. e - 1 /\ f # Len(src) + 1
        BY <2>1, <3>2 DEF StopsAt
      <4>2. QED
        BY <2>1, <4>1 DEF StopsAt
    <3>3. CASE e < f
      <4>1. e \in i .. f - 1 /\ e # Len(src) + 1
        BY <2>1, <3>3 DEF StopsAt
      <4>2. QED
        BY <2>1, <4>1 DEF StopsAt
    <3>4. QED
      BY <3>1, <3>2, <3>3
  <2>2. QED
    BY <2>1
<1>2. e \in i .. Len(src) + 1
  BY DEF StopsAt
<1>3. Doc!Until(i, kinds) = CHOOSE f \in i .. Len(src) + 1 : StopsAt(i, kinds, f)
  BY DEF Doc!Until, StopsAt
<1>4. QED
  BY <1>1, <1>2, <1>3

LEMMA UntilStops ==
  ASSUME Len(src) \in Nat, NEW i \in 1 .. Len(src) + 1, NEW kinds
  PROVE  StopsAt(i, kinds, Doc!Until(i, kinds))
<1> DEFINE T == {e \in i .. Len(src) + 1 : e = Len(src) + 1 \/ src[e].k \in kinds}
<1>1. T \in SUBSET Nat /\ Len(src) + 1 \in T
  OBVIOUS
<1>2. PICK e \in T : \A y \in T : e <= y
  <2> HIDE DEF T
  <2>1. QED
    BY <1>1, Least
<1>3. StopsAt(i, kinds, e)
  BY <1>2 DEF StopsAt
<1>4. QED
  BY <1>3, UntilIs

\* The kind of the token at place i; past the source it is the end's.
KindAt(i) == IF i \in 1 .. Len(src) THEN src[i].k ELSE "ZZ"

SourceOK == src \in Seq(Token) /\ Lexed(src)

LEMMA KindIs ==
  ASSUME SourceOK, NEW i \in Nat \ {0}
  PROVE  /\ Len(src) \in Nat
         /\ KindAt(i) \in Kind
         /\ KindAt(i) = "ZZ" <=> i > Len(src)
         /\ i <= Len(src) => i \in DOMAIN src /\ src[i] \in Token /\ KindAt(i) = src[i].k
<1>1. Len(src) \in Nat /\ DOMAIN src = 1 .. Len(src)
  BY LenProperties DEF SourceOK
<1>2. CASE i <= Len(src)
  <2>1. i \in DOMAIN src /\ src[i] \in Token
    BY <1>1, <1>2, ElementOfSeq DEF SourceOK
  <2>2. KindAt(i) = src[i].k /\ src[i].k # "ZZ"
    BY <1>1, <2>1 DEF KindAt, SourceOK, Lexed
  <2>3. QED
    BY <1>1, <1>2, <2>1, <2>2 DEF Token
<1>3. CASE i > Len(src)
  BY <1>1, <1>3 DEF KindAt, Kind
<1>4. QED
  BY <1>1, <1>2, <1>3

LEMMA SourceLen ==
  ASSUME SourceOK
  PROVE  Len(src) \in Nat
BY LenProperties DEF SourceOK

\* The first place from i on with a token of one of the kinds, or with none.
EndsAt(i, kinds, e) ==
  /\ e \in i .. Len(src) + 1
  /\ KindAt(e) \in kinds \/ KindAt(e) = "ZZ"
  /\ \A j \in i .. e - 1 : KindAt(j) \notin kinds /\ KindAt(j) # "ZZ"

LEMMA EndsIs ==
  ASSUME SourceOK, NEW i \in 1 .. Len(src) + 1, NEW kinds, NEW e
  PROVE  Doc!Until(i, kinds) = e <=> EndsAt(i, kinds, e)
<1>1. Len(src) \in Nat
  BY SourceLen
<1>2. StopsAt(i, kinds, e) <=> EndsAt(i, kinds, e)
  <2>1. ASSUME e \in i .. Len(src) + 1 PROVE StopsAt(i, kinds, e) <=> EndsAt(i, kinds, e)
    <3>1. \A j \in i .. e - 1 : KindAt(j) # "ZZ" /\ KindAt(j) = src[j].k
      BY <1>1, <2>1, KindIs
    <3>2. e \in Nat \ {0} /\ (KindAt(e) = "ZZ" <=> e = Len(src) + 1)
      BY <1>1, <2>1, KindIs
    <3>3. e # Len(src) + 1 => KindAt(e) = src[e].k
      BY <1>1, <2>1, KindIs
    <3>4. QED
      BY <2>1, <3>1, <3>2, <3>3 DEF StopsAt, EndsAt
  <2>2. QED
    BY <2>1 DEF StopsAt, EndsAt
<1>3. StopsAt(i, kinds, Doc!Until(i, kinds))
  BY <1>1, UntilStops
<1>4. QED
  BY <1>1, <1>2, <1>3, UntilIs

\* A line runs to its end, and a field to its separator or to the line's end.
FieldEnd(f) == Doc!Until(f, {"CA", "LN"})

LEMMA LineEndIs ==
  ASSUME SourceOK, NEW s \in 1 .. Len(src), NEW e
  PROVE  Doc!LineEnd(s) = e <=> EndsAt(s, {"LN"}, e)
<1>1. s \in 1 .. Len(src) + 1
  BY SourceLen
<1>2. QED
  BY <1>1, EndsIs DEF Doc!LineEnd

LEMMA StartsIn ==
  ASSUME SourceOK
  PROVE  /\ Doc!LineStarts \in SUBSET Nat /\ IsFiniteSet(Doc!LineStarts)
         /\ \A s \in Doc!LineStarts : s \in 1 .. Len(src)
<1>1. Len(src) \in Nat /\ DOMAIN src = 1 .. Len(src)
  BY LenProperties DEF SourceOK
<1>2. \A s \in Doc!LineStarts : s \in 1 .. Len(src)
  BY <1>1 DEF Doc!LineStarts
<1>3. 1 .. Len(src) \in SUBSET Nat /\ IsFiniteSet(1 .. Len(src))
  BY <1>1, FS_Interval
<1>4. IsFiniteSet(Doc!LineStarts)
  BY <1>2, <1>3, FS_Subset
<1>5. QED
  BY <1>1, <1>2, <1>4

LEMMA FieldStartsIn ==
  ASSUME SourceOK, NEW s \in 1 .. Len(src)
  PROVE  /\ Doc!FieldStarts(s) \in SUBSET Nat /\ IsFiniteSet(Doc!FieldStarts(s))
         /\ Doc!LineEnd(s) \in s .. Len(src) + 1
         /\ \A f \in Nat : f \in Doc!FieldStarts(s) <=>
              /\ Doc!LineEnd(s) # s
              /\ f \in s .. Doc!LineEnd(s)
              /\ f = s \/ src[f - 1].k = "CA"
<1>1. Len(src) \in Nat
  BY SourceLen
<1>2. PICK e : e = Doc!LineEnd(s)
  OBVIOUS
<1>3. e \in s .. Len(src) + 1
  BY <1>2, LineEndIs DEF EndsAt
<1>4. \A f \in Doc!FieldStarts(s) : f \in s .. e
  BY <1>2 DEF Doc!FieldStarts
<1>5. s .. e \in SUBSET Nat /\ IsFiniteSet(s .. e)
  BY <1>1, <1>3, FS_Interval
<1>6. IsFiniteSet(Doc!FieldStarts(s))
  BY <1>4, <1>5, FS_Subset
<1>7. QED
  BY <1>1, <1>2, <1>3, <1>4, <1>6 DEF Doc!FieldStarts

\* A field ends at a separator, with another field after it, or ends the line.
LEMMA FieldNext ==
  ASSUME SourceOK, NEW s \in 1 .. Len(src), NEW f \in Doc!FieldStarts(s)
  PROVE  /\ f \in s .. Doc!LineEnd(s)
         /\ FieldEnd(f) \in f .. Doc!LineEnd(s)
         /\ FieldEnd(f) < Doc!LineEnd(s) =>
              /\ KindAt(FieldEnd(f)) = "CA"
              /\ FieldEnd(f) + 1 \in Doc!FieldStarts(s)
              /\ CountBefore(Doc!FieldStarts(s), FieldEnd(f) + 1)
                   = CountBefore(Doc!FieldStarts(s), f) + 1
         /\ FieldEnd(f) = Doc!LineEnd(s) =>
              Cardinality(Doc!FieldStarts(s)) = CountBefore(Doc!FieldStarts(s), f) + 1
<1>1. PICK S : S = Doc!FieldStarts(s)
  OBVIOUS
<1>2. PICK l : l = Doc!LineEnd(s)
  OBVIOUS
<1>3. /\ Len(src) \in Nat /\ S \in SUBSET Nat /\ IsFiniteSet(S) /\ l \in s .. Len(src) + 1
      /\ \A x \in Nat : x \in S <=> l # s /\ x \in s .. l /\ (x = s \/ src[x - 1].k = "CA")
  BY <1>1, <1>2, FieldStartsIn, SourceLen
<1>4. EndsAt(s, {"LN"}, l)
  BY <1>2, LineEndIs
<1>5. f \in s .. l /\ f \in S
  BY <1>1, <1>3
<1>6. PICK e : e = FieldEnd(f)
  OBVIOUS
<1>7. EndsAt(f, {"CA", "LN"}, e)
  <2>1. f \in 1 .. Len(src) + 1
    BY <1>3, <1>5
  <2>2. Doc!Until(f, {"CA", "LN"}) = e
    BY <1>6 DEF FieldEnd
  <2>3. QED
    BY <2>1, <2>2, EndsIs
<1>8. e \in f .. l
  <2>1. l < e => KindAt(l) # "LN" /\ KindAt(l) # "ZZ"
    BY <1>3, <1>5, <1>7 DEF EndsAt
  <2>2. QED
    BY <1>3, <1>4, <1>5, <1>7, <2>1 DEF EndsAt
<1>9. \A j \in f .. e - 1 : src[j].k # "CA"
  <2>1. SUFFICES ASSUME NEW j \in f .. e - 1 PROVE src[j].k # "CA"
    OBVIOUS
  <2>2. j \in Nat \ {0} /\ j <= Len(src)
    BY <1>3, <1>5, <1>8
  <2>3. KindAt(j) = src[j].k
    BY <2>2, KindIs
  <2>4. QED
    BY <1>7, <2>3 DEF EndsAt
<1>10. \A x \in S : x <= f \/ e + 1 <= x
  <2>1. SUFFICES ASSUME NEW x \in S, f < x, x < e + 1 PROVE FALSE
    BY <1>3, <1>5, <1>8
  <2>2. x - 1 \in f .. e - 1 /\ x # s
    BY <1>3, <1>5, <1>8, <2>1
  <2>3. src[x - 1].k = "CA"
    BY <1>3, <2>1, <2>2
  <2>4. QED
    BY <1>9, <2>2, <2>3
<1>11. CountBefore(S, e + 1) = CountBefore(S, f) + 1
  <2>1. e + 1 \in Nat /\ f < e + 1
    BY <1>3, <1>5, <1>8
  <2>2. QED
    BY <1>3, <1>5, <1>10, <2>1, BeforeNext
<1>12. ASSUME e < l PROVE KindAt(e) = "CA" /\ e + 1 \in S
  <2>1. KindAt(e) # "LN" /\ KindAt(e) # "ZZ"
    BY <1>3, <1>4, <1>5, <1>8, <1>12 DEF EndsAt
  <2>2. KindAt(e) = "CA"
    BY <1>7, <2>1 DEF EndsAt
  <2>3. e \in Nat \ {0} /\ e <= Len(src)
    BY <1>3, <1>5, <1>8, <1>12
  <2>4. src[(e + 1) - 1].k = "CA"
    BY <2>2, <2>3, KindIs
  <2>5. e + 1 \in Nat /\ e + 1 \in s .. l /\ l # s
    BY <1>3, <1>5, <1>8, <1>12
  <2>6. QED
    BY <1>3, <2>2, <2>4, <2>5
<1>13. ASSUME e = l PROVE Cardinality(S) = CountBefore(S, f) + 1
  <2>1. \A x \in S : x < e + 1
    BY <1>3, <1>13
  <2>2. e + 1 \in Nat
    BY <1>3, <1>13
  <2>3. QED
    BY <1>3, <1>11, <2>1, <2>2, EarlierFinite
<1>14. QED
  BY <1>1, <1>2, <1>5, <1>6, <1>8, <1>11, <1>12, <1>13

\* The next line starts past the end of this one.
LEMMA LineNext ==
  ASSUME SourceOK, NEW s \in Doc!LineStarts, NEW p \in Nat, Doc!LineEnd(s) < p,
         p = Doc!LineEnd(s) + 1 \/ Doc!LineEnd(s) > Len(src)
  PROVE  CountBefore(Doc!LineStarts, p) = CountBefore(Doc!LineStarts, s) + 1
<1>1. PICK S : S = Doc!LineStarts
  OBVIOUS
<1>2. PICK l : l = Doc!LineEnd(s)
  OBVIOUS
<1>3. /\ Len(src) \in Nat /\ S \in SUBSET Nat /\ IsFiniteSet(S) /\ \A x \in S : x \in 1 .. Len(src)
      /\ s \in 1 .. Len(src) /\ s \in S
  BY <1>1, StartsIn, SourceLen
<1>4. EndsAt(s, {"LN"}, l)
  BY <1>2, <1>3, LineEndIs
<1>5. \A x \in S : x <= s \/ p <= x
  <2>1. SUFFICES ASSUME NEW x \in S, s < x, x < p PROVE FALSE
    BY <1>3
  <2>2. x - 1 \in s .. l - 1 /\ x - 1 \in Nat \ {0} /\ x - 1 <= Len(src)
    BY <1>2, <1>3, <1>4, <2>1 DEF EndsAt
  <2>3. src[x - 1].k # "LN"
    BY <1>4, <2>2, KindIs DEF EndsAt
  <2>4. x = 1 \/ src[x - 1].k = "LN"
    BY <1>1 DEF Doc!LineStarts
  <2>5. QED
    BY <1>3, <2>1, <2>3, <2>4
<1>6. s < p
  BY <1>2, <1>3, <1>4 DEF EndsAt
<1>7. QED
  BY <1>1, <1>3, <1>5, <1>6, BeforeNext

-----------------------------------------------------------------------------
(* The cells of a line, up to a place.                                     *)

LEMMA AppendIs ==
  ASSUME NEW k \in Nat, NEW g, NEW x, NEW h, h = [n \in 1 .. k |-> g[n]], g[k + 1] = x
  PROVE  Append(h, x) = [n \in 1 .. k + 1 |-> g[n]]
<1>1. PICK S : S = {g[n] : n \in 1 .. k + 1}
  OBVIOUS
<1>2. h \in Seq(S) /\ Len(h) = k /\ x \in S
  <2>1. \A n \in 1 .. k : h[n] \in S
    BY <1>1
  <2>2. h \in [1 .. k -> S]
    BY <2>1
  <2>3. x \in S
    BY <1>1
  <2>4. QED
    BY <2>2, <2>3
<1>3. /\ Append(h, x) \in Seq(S) /\ Len(Append(h, x)) = k + 1
      /\ \A n \in 1 .. k : Append(h, x)[n] = h[n]
      /\ Append(h, x)[k + 1] = x
  BY <1>2, AppendProperties
<1>4. PICK t : t = Append(h, x)
  OBVIOUS
<1>5. t \in [1 .. k + 1 -> S] /\ \A n \in 1 .. k + 1 : t[n] = g[n]
  <2>1. t \in Seq(S) /\ Len(t) = k + 1
    BY <1>3, <1>4
  <2>2. t \in [1 .. k + 1 -> S]
    BY <2>1
  <2>3. \A n \in 1 .. k : t[n] = g[n]
    BY <1>3, <1>4
  <2>4. t[k + 1] = g[k + 1]
    BY <1>3, <1>4
  <2>5. \A n \in 1 .. k + 1 : n \in 1 .. k \/ n = k + 1
    OBVIOUS
  <2>6. QED
    BY <2>2, <2>3, <2>4, <2>5
<1>6. t = [n \in 1 .. k + 1 |-> g[n]]
  BY <1>5
<1>7. QED
  BY <1>4, <1>6

\* Fields of the line at s up to one that starts at f, none of them refused.
FieldsBefore(s, f) == CountBefore(Doc!FieldStarts(s), f)
ReadUpTo(s, f) ==
  \A n \in 1 .. FieldsBefore(s, f) : Doc!WellFormed(Doc!FieldsOf(s)[n])
CellsUpTo(s, f) == [n \in 1 .. FieldsBefore(s, f) |-> Doc!CellsOf(s)[n]]
AllRead(s) ==
  \A n \in DOMAIN Doc!FieldsOf(s) : Doc!WellFormed(Doc!FieldsOf(s)[n])

LEMMA LineCellsAre ==
  ASSUME SourceOK, NEW s \in 1 .. Len(src), NEW c, c = Cardinality(Doc!FieldStarts(s))
  PROVE  /\ c \in Nat /\ DOMAIN Doc!FieldsOf(s) = 1 .. c
         /\ Doc!CellsOf(s) = [n \in 1 .. c |-> Doc!CellsOf(s)[n]]
         /\ \A n \in 1 .. c : Doc!CellsOf(s)[n] = Doc!CellOf(Doc!FieldsOf(s)[n])
<1>1. c \in Nat
  BY FieldStartsIn, FS_CardinalityType
<1>2. DOMAIN Doc!FieldsOf(s) = 1 .. c
  BY SameOps DEF Doc!FieldsOf
<1>3. Doc!CellsOf(s) = [n \in 1 .. c |-> Doc!CellOf(Doc!FieldsOf(s)[n])]
  BY <1>2 DEF Doc!CellsOf
<1>4. QED
  BY <1>1, <1>2, <1>3

\* The next field is read too.
LEMMA CellsNext ==
  ASSUME SourceOK, NEW s \in 1 .. Len(src), NEW f \in Doc!FieldStarts(s),
         NEW cells, cells = CellsUpTo(s, f), ReadUpTo(s, f),
         Doc!WellFormed(Doc!FieldAt(f)),
         NEW cell, cell = Doc!CellOf(Doc!FieldAt(f))
  PROVE  /\ FieldEnd(f) < Doc!LineEnd(s) =>
              /\ Append(cells, cell) = CellsUpTo(s, FieldEnd(f) + 1)
              /\ ReadUpTo(s, FieldEnd(f) + 1)
         /\ FieldEnd(f) = Doc!LineEnd(s) =>
              Append(cells, cell) = Doc!CellsOf(s) /\ AllRead(s)
<1>1. PICK S : S = Doc!FieldStarts(s)
  OBVIOUS
<1>2. PICK k : k = CountBefore(S, f)
  OBVIOUS
<1>3. PICK c : c = Cardinality(S)
  OBVIOUS
<1>4. S \in SUBSET Nat /\ IsFiniteSet(S) /\ f \in S
  BY <1>1, FieldStartsIn
<1>5. Nth(S, k + 1) = f /\ k \in Nat /\ k + 1 \in 1 .. c
  BY <1>2, <1>3, <1>4, NthIs
<1>6. Doc!FieldsOf(s)[k + 1] = Doc!FieldAt(f)
  BY <1>1, <1>3, <1>5, SameOps DEF Doc!FieldsOf
<1>7. PICK g : g = Doc!CellsOf(s)
  OBVIOUS
<1>8. /\ c \in Nat /\ DOMAIN Doc!FieldsOf(s) = 1 .. c
      /\ g = [n \in 1 .. c |-> g[n]]
      /\ \A n \in 1 .. c : g[n] = Doc!CellOf(Doc!FieldsOf(s)[n])
  BY <1>1, <1>3, <1>7, LineCellsAre
<1>9. g[k + 1] = cell
  BY <1>5, <1>6, <1>8
<1>10. cells = [n \in 1 .. k |-> g[n]]
  BY <1>1, <1>2, <1>7 DEF CellsUpTo, FieldsBefore
<1>11. Append(cells, cell) = [n \in 1 .. k + 1 |-> g[n]]
  BY <1>5, <1>9, <1>10, AppendIs
<1>12. \A n \in 1 .. k + 1 : Doc!WellFormed(Doc!FieldsOf(s)[n])
  <2>1. \A n \in 1 .. k : Doc!WellFormed(Doc!FieldsOf(s)[n])
    BY <1>1, <1>2 DEF ReadUpTo, FieldsBefore
  <2>2. QED
    BY <1>5, <1>6, <2>1
<1>13. ASSUME FieldEnd(f) < Doc!LineEnd(s)
       PROVE  Append(cells, cell) = CellsUpTo(s, FieldEnd(f) + 1) /\ ReadUpTo(s, FieldEnd(f) + 1)
  <2>1. FieldsBefore(s, FieldEnd(f) + 1) = k + 1
    BY <1>1, <1>2, <1>13, FieldNext DEF FieldsBefore
  <2>2. QED
    BY <1>7, <1>11, <1>12, <2>1 DEF CellsUpTo, ReadUpTo
<1>14. ASSUME FieldEnd(f) = Doc!LineEnd(s)
       PROVE  Append(cells, cell) = Doc!CellsOf(s) /\ AllRead(s)
  <2>1. c = k + 1
    BY <1>1, <1>2, <1>3, <1>14, FieldNext
  <2>2. QED
    BY <1>7, <1>8, <1>11, <1>12, <2>1 DEF AllRead
<1>15. QED
  BY <1>13, <1>14

\* A line that is not blank begins with a field, and nothing was read of it.
LEMMA CellsStart ==
  ASSUME SourceOK, NEW s \in 1 .. Len(src)
  PROVE  /\ KindAt(s) # "LN" =>
              s \in Doc!FieldStarts(s) /\ CellsUpTo(s, s) = <<>> /\ ReadUpTo(s, s)
         /\ KindAt(s) = "LN" =>
              Doc!LineEnd(s) = s /\ Doc!CellsOf(s) = <<>> /\ AllRead(s)
<1>1. PICK S : S = Doc!FieldStarts(s)
  OBVIOUS
<1>2. /\ Len(src) \in Nat /\ S \in SUBSET Nat /\ IsFiniteSet(S)
      /\ \A f \in Nat : f \in S <=>
           /\ Doc!LineEnd(s) # s
           /\ f \in s .. Doc!LineEnd(s)
           /\ f = s \/ src[f - 1].k = "CA"
      /\ Doc!LineEnd(s) \in s .. Len(src) + 1
  BY <1>1, FieldStartsIn, SourceLen
<1>3. EndsAt(s, {"LN"}, Doc!LineEnd(s))
  BY LineEndIs
<1>4. ASSUME KindAt(s) # "LN"
      PROVE  s \in S /\ CellsUpTo(s, s) = <<>> /\ ReadUpTo(s, s)
  <2>1. Doc!LineEnd(s) # s
    <3>1. s \in Nat \ {0} /\ ~(s > Len(src))
      BY <1>2
    <3>2. KindAt(s) # "ZZ"
      BY <3>1, KindIs
    <3>3. QED
      BY <1>3, <1>4, <3>2 DEF EndsAt
  <2>2. s \in S
    BY <1>2, <2>1
  <2>3. Preceding(S, s) = {}
    <3>1. \A f \in S : ~(f < s)
      BY <1>2
    <3>2. QED
      BY <3>1 DEF Preceding
  <2>4. FieldsBefore(s, s) = 0
    BY <1>1, <2>3, FS_EmptySet DEF FieldsBefore, CountBefore
  <2>5. CellsUpTo(s, s) = <<>> /\ ReadUpTo(s, s)
    BY <2>4 DEF CellsUpTo, ReadUpTo
  <2>6. QED
    BY <2>2, <2>5
<1>5. ASSUME KindAt(s) = "LN"
      PROVE  Doc!LineEnd(s) = s /\ Doc!CellsOf(s) = <<>> /\ AllRead(s)
  <2>1. EndsAt(s, {"LN"}, s)
    BY <1>2, <1>5 DEF EndsAt
  <2>2. Doc!LineEnd(s) = s
    BY <2>1, LineEndIs
  <2>3. S = {}
    BY <1>2, <2>2
  <2>4. Cardinality(S) = 0
    BY <2>3, FS_EmptySet
  <2>5. DOMAIN Doc!FieldsOf(s) = 1 .. 0 /\ Doc!CellsOf(s) = [n \in 1 .. 0 |-> Doc!CellsOf(s)[n]]
    BY <1>1, <2>4, LineCellsAre
  <2>6. QED
    BY <2>2, <2>5 DEF AllRead
<1>6. QED
  BY <1>1, <1>4, <1>5

\* The tokens of a field are those of the source from where it starts.
LEMMA FieldAtIs ==
  ASSUME SourceOK, NEW f \in 1 .. Len(src), NEW e, e = FieldEnd(f), NEW field, field = Doc!FieldAt(f)
  PROVE  /\ e \in f .. Len(src) + 1 /\ field \in Seq(Token) /\ Len(field) = e - f
         /\ \A j \in 1 .. e - f : field[j] = src[(f + j) - 1] /\ field[j].k = KindAt((f + j) - 1)
         /\ KindAt(e) \in {"CA", "LN", "ZZ"}
         /\ \A i \in f .. e - 1 : KindAt(i) \in VAL \union {"SP"}
<1>1. Len(src) \in Nat /\ src \in Seq(Token)
  BY SourceLen DEF SourceOK
<1>2. EndsAt(f, {"CA", "LN"}, e)
  BY <1>1, EndsIs DEF FieldEnd
<1>3. e \in f .. Len(src) + 1 /\ e - 1 \in Nat /\ e - 1 <= Len(src)
  BY <1>1, <1>2 DEF EndsAt
<1>4. field = SubSeq(src, f, e - 1)
  BY DEF Doc!FieldAt, FieldEnd
<1>5. PICK b : b = e - 1
  OBVIOUS
<1>6. /\ field \in Seq(Token) /\ Len(field) = (IF f <= b THEN b - f + 1 ELSE 0)
      /\ \A j \in 1 .. b - f + 1 : field[j] = src[f + j - 1]
  <2>1. \A j \in f .. b : j \in 1 .. Len(src)
    BY <1>1, <1>3, <1>5
  <2>2. field = SubSeq(src, f, b) /\ f \in Nat /\ b \in Nat
    BY <1>3, <1>4, <1>5
  <2>3. QED
    BY <1>1, <1>3, <1>5, <2>1, <2>2, SubSeqProperties, SMTT(30)
<1>7. Len(field) = e - f
  BY <1>1, <1>3, <1>5, <1>6
<1>8. ASSUME NEW j \in 1 .. e - f
      PROVE  field[j] = src[(f + j) - 1] /\ field[j].k = KindAt((f + j) - 1)
  <2>1. (f + j) - 1 \in Nat \ {0} /\ (f + j) - 1 <= Len(src)
    BY <1>1, <1>3
  <2>2. j \in 1 .. b - f + 1
    BY <1>3, <1>5
  <2>3. QED
    BY <1>6, <2>1, <2>2, KindIs
<1>9. ASSUME NEW i \in f .. e - 1 PROVE KindAt(i) \in VAL \union {"SP"}
  <2>1. i \in Nat \ {0}
    BY <1>3
  <2>2. KindAt(i) \in Kind /\ KindAt(i) \notin {"CA", "LN"} /\ KindAt(i) # "ZZ"
    BY <1>2, <2>1, KindIs DEF EndsAt
  <2>3. QED
    BY <2>2 DEF Kind
<1>10. KindAt(e) \in {"CA", "LN", "ZZ"}
  BY <1>2 DEF EndsAt
<1>11. QED
  BY <1>3, <1>6, <1>7, <1>8, <1>9, <1>10

\* A function that says how to go on has a course.
Course(g, V, base, F, k) ==
  g \in [0 .. k -> V] /\ g[0] = base /\ \A n \in 1 .. k : g[n] = F[<<g[n - 1], n>>]

LEMMA CourseExists ==
  ASSUME NEW V, NEW base \in V, NEW N \in Nat, NEW F \in [V \X (1 .. N) -> V]
  PROVE  \E g : Course(g, V, base, F, N)
<1> DEFINE T == {k \in 0 .. N : ~ \E g : Course(g, V, base, F, k)}
<1>1. T \in SUBSET Nat
  OBVIOUS
<1>2. ASSUME T # {} PROVE FALSE
  <2>1. PICK k \in T : \A y \in T : k <= y
    <3> HIDE DEF T
    <3>1. QED
      BY <1>1, <1>2, Least
  <2>2. CASE k = 0
    <3>1. PICK g : g = [n \in 0 .. 0 |-> base]
      OBVIOUS
    <3>2. Course(g, V, base, F, 0)
      BY <3>1 DEF Course
    <3>3. QED
      BY <2>1, <2>2, <3>2
  <2>3. CASE k # 0
    <3>1. k \in 1 .. N /\ k - 1 \in 0 .. N /\ ~(k <= k - 1)
      BY <2>1, <2>3
    <3>2. k - 1 \notin T
      BY <2>1, <3>1
    <3>3. PICK g : Course(g, V, base, F, k - 1)
      BY <3>1, <3>2
    <3>4. PICK next \in V : next = F[<<g[k - 1], k>>]
      <4>1. g[k - 1] \in V
        BY <3>1, <3>3 DEF Course
      <4>2. <<g[k - 1], k>> \in V \X (1 .. N)
        BY <3>1, <4>1
      <4>3. QED
        BY <4>2
    <3>5. PICK h : h = [n \in 0 .. k |-> IF n = k THEN next ELSE g[n]]
      OBVIOUS
    <3>6. h \in [0 .. k -> V]
      BY <3>1, <3>3, <3>5 DEF Course
    <3>7. h[0] = base
      BY <3>1, <3>3, <3>5 DEF Course
    <3>8. ASSUME NEW n \in 1 .. k PROVE h[n] = F[<<h[n - 1], n>>]
      <4>1. h[n - 1] = g[n - 1] /\ h[k] = next
        BY <3>1, <3>5
      <4>2. CASE n = k
        BY <3>4, <4>1, <4>2
      <4>3. CASE n # k
        <5>1. n \in 1 .. k - 1 /\ h[n] = g[n]
          BY <3>1, <3>5, <4>3
        <5>2. QED
          BY <3>3, <4>1, <5>1 DEF Course
      <4>4. QED
        BY <4>2, <4>3
    <3>9. Course(h, V, base, F, k)
      BY <3>6, <3>7, <3>8 DEF Course
    <3>10. QED
      BY <2>1, <3>9
  <2>4. QED
    BY <2>2, <2>3
<1>3. N \in 0 .. N
  OBVIOUS
<1>4. QED
  BY <1>2, <1>3

-----------------------------------------------------------------------------
(* The text of a field.                                                    *)

TextOf(field) ==
  CHOOSE t : t = [i \in 0 .. Len(field) |->
                    IF i = 0 THEN <<>> ELSE t[i - 1] \o Doc!Piece(field, i)]

LEMMA PieceType ==
  ASSUME NEW field \in Seq(Token), NEW i \in 1 .. Len(field)
  PROVE  Doc!Piece(field, i) \in Texts
<1>1. field[i] \in Token
  BY ElementOfSeq
<1>2. field[i].src \in Texts /\ field[i].val \in Texts
  BY <1>1 DEF Token
<1>3. <<>> \in Texts
  BY EmptySeq DEF Texts
<1>4. QED
  BY <1>2, <1>3 DEF Doc!Piece

LEMMA TextOfIs ==
  ASSUME NEW field \in Seq(Token)
  PROVE  /\ TextOf(field)[0] = <<>>
         /\ \A i \in 0 .. Len(field) : TextOf(field)[i] \in Texts
         /\ \A i \in 1 .. Len(field) :
              TextOf(field)[i] = TextOf(field)[i - 1] \o Doc!Piece(field, i)
         /\ Doc!FieldText(field) = TextOf(field)[Len(field)]
<1> DEFINE body(t) == [i \in 0 .. Len(field) |->
                         IF i = 0 THEN <<>> ELSE t[i - 1] \o Doc!Piece(field, i)]
<1>1. PICK N \in Nat : N = Len(field)
  BY LenProperties
<1>2. PICK F : F = [x \in Texts \X (1 .. N) |-> x[1] \o Doc!Piece(field, x[2])]
  OBVIOUS
<1>3. F \in [Texts \X (1 .. N) -> Texts]
  <2>1. ASSUME NEW x \in Texts \X (1 .. N) PROVE F[x] \in Texts
    <3>1. x[1] \in Texts /\ x[2] \in 1 .. N
      OBVIOUS
    <3>2. PICK piece \in Texts : piece = Doc!Piece(field, x[2])
      BY <1>1, <3>1, PieceType
    <3>3. x[1] \o piece \in Texts
      BY <3>1, <3>2, ConcatProperties DEF Texts
    <3>4. QED
      BY <1>2, <3>2, <3>3
  <2>2. QED
    BY <1>2, <2>1
<1>4. <<>> \in Texts
  BY EmptySeq DEF Texts
<1>5. PICK g : Course(g, Texts, <<>>, F, N)
  BY <1>3, <1>4, CourseExists
<1>6. ASSUME NEW i \in 1 .. N PROVE g[i] = g[i - 1] \o Doc!Piece(field, i)
  <2>1. g[i - 1] \in Texts
    BY <1>5 DEF Course
  <2>2. PICK x : x = <<g[i - 1], i>>
    OBVIOUS
  <2>3. x \in Texts \X (1 .. N) /\ x[1] = g[i - 1] /\ x[2] = i
    BY <2>1, <2>2
  <2>4. g[i] = F[x]
    BY <1>5, <2>2 DEF Course
  <2>5. QED
    BY <1>2, <2>3, <2>4
<1>7. g = body(g)
  <2>1. g \in [0 .. N -> Texts] /\ g[0] = <<>>
    BY <1>5 DEF Course
  <2>2. g = [i \in 0 .. N |-> IF i = 0 THEN <<>> ELSE g[i - 1] \o Doc!Piece(field, i)]
    <3>1. \A i \in 0 .. N : g[i] = IF i = 0 THEN <<>> ELSE g[i - 1] \o Doc!Piece(field, i)
      BY <1>6, <2>1, SMTT(30)
    <3>2. QED
      BY <2>1, <3>1
  <2>3. QED
    BY <1>1, <2>2
<1>8. PICK h : h = CHOOSE t : t = body(t)
  OBVIOUS
<1>9. h = body(h)
  BY <1>7, <1>8
<1>10. TextOf(field) = h /\ Doc!FieldText(field) = h[Len(field)]
  <2>1. TextOf(field) = h
    BY <1>8, Zenon DEF TextOf
  <2>2. Doc!FieldText(field) = h[Len(field)]
    BY <1>8, Zenon DEF Doc!FieldText
  <2>3. QED
    BY <2>1, <2>2
<1>11. /\ h[0] = <<>>
       /\ \A i \in 1 .. N : h[i] = h[i - 1] \o Doc!Piece(field, i)
  <2>1. ASSUME NEW i \in 0 .. N
        PROVE  h[i] = IF i = 0 THEN <<>> ELSE h[i - 1] \o Doc!Piece(field, i)
    BY <1>1, <1>9
  <2> HIDE DEF body
  <2>2. ASSUME NEW i \in 1 .. N PROVE h[i] = h[i - 1] \o Doc!Piece(field, i)
    <3>1. i \in 0 .. N /\ i # 0
      OBVIOUS
    <3>2. QED
      BY <2>1, <3>1
  <2>3. 0 \in 0 .. N
    OBVIOUS
  <2>4. QED
    BY <2>1, <2>2, <2>3
<1> HIDE DEF body
<1>12. \A i \in 0 .. N : h[i] \in Texts
  <2> DEFINE T == {i \in 0 .. N : h[i] \notin Texts}
  <2>1. T \in SUBSET Nat
    OBVIOUS
  <2>2. ASSUME T # {} PROVE FALSE
    <3>1. PICK i \in T : \A y \in T : i <= y
      <4> HIDE DEF T
      <4>1. QED
        BY <2>1, <2>2, Least
    <3>2. i # 0 /\ i \in 0 .. N
      BY <1>4, <1>11, <3>1
    <3>3. i \in 1 .. N /\ i - 1 \in 0 .. N /\ ~(i <= i - 1)
      BY <3>2
    <3>4. h[i - 1] \in Texts
      BY <3>1, <3>3
    <3>5. PICK piece \in Texts : piece = Doc!Piece(field, i)
      BY <1>1, <3>3, PieceType
    <3>6. h[i] = h[i - 1] \o piece
      BY <1>11, <3>3, <3>5
    <3>7. h[i] \in Texts
      BY <3>4, <3>5, <3>6, ConcatProperties DEF Texts
    <3>8. QED
      BY <3>1, <3>7
  <2>3. QED
    BY <2>2
<1>13. QED
  BY <1>1, <1>10, <1>11, <1>12

\* The field at f was read up to place p, as far as it goes, and found to be
\* the cell.
FieldRead(f, p, cell) ==
  /\ p \in f + 1 .. FieldEnd(f)
  /\ cell \in Cell
  /\ IF p = FieldEnd(f)
     THEN Doc!WellFormed(Doc!FieldAt(f)) /\ cell = Doc!CellOf(Doc!FieldAt(f))
     ELSE ~Doc!WellFormed(Doc!FieldAt(f)) /\ KindAt(p) \in VAL

\* Text runs on past place i.
RunsOn(i) == KindAt(i) \in VAL /\ KindAt(i + 1) \in VAL

\* The text rule has joined n pieces of the field at f, up to place p.
TextRead(f, p, n, node) ==
  /\ p \in f .. FieldEnd(f)
  /\ \A i \in f .. p - 2 : RunsOn(i) => i > f /\ KindAt(i + 2) = "SP"
  /\ IF n = 0
     THEN p = f /\ (KindAt(f) \in VAL => KindAt(f + 1) = "SP")
     ELSE /\ f < p /\ KindAt(p - 1) \in VAL
          /\ p = f + 1 \/ KindAt(p - 2) \in VAL => KindAt(p) = "SP"
          /\ node = Text(TextOf(Doc!FieldAt(f))[p - f])

\* The whole field at f keeps the order of spaces and text.
WellSpaced(f, e) ==
  \A i \in f .. e - 2 : RunsOn(i) => i > f /\ i + 2 < e /\ KindAt(i + 2) = "SP"

LEMMA WellFormedIs ==
  ASSUME SourceOK, NEW f \in 1 .. Len(src), NEW e, e = FieldEnd(f)
  PROVE  Doc!WellFormed(Doc!FieldAt(f)) <=> WellSpaced(f, e)
<1>1. PICK field : field = Doc!FieldAt(f)
  OBVIOUS
<1>2. /\ Len(src) \in Nat /\ e \in f .. Len(src) + 1 /\ Len(field) = e - f
      /\ \A j \in 1 .. e - f : field[j].k = KindAt((f + j) - 1)
  BY <1>1, FieldAtIs, SourceLen
<1>3. ASSUME Doc!WellFormed(field), NEW i \in f .. e - 2, RunsOn(i)
      PROVE  i > f /\ i + 2 < e /\ KindAt(i + 2) = "SP"
  <2>1. PICK j \in 1 .. Len(field) - 1 : j = (i - f) + 1 /\ i = (f + j) - 1
    <3>1. (i - f) + 1 \in 1 .. Len(field) - 1 /\ i = (f + ((i - f) + 1)) - 1
      BY <1>2
    <3>2. QED
      BY <3>1
  <2>2. j \in 1 .. e - f /\ j + 1 \in 1 .. e - f /\ (f + (j + 1)) - 1 = i + 1
    BY <1>2, <2>1
  <2>3. field[j].k \in VAL /\ field[j + 1].k \in VAL
    BY <1>2, <1>3, <2>1, <2>2 DEF RunsOn
  <2>4. j >= 2 /\ j + 2 <= Len(field) /\ field[j + 2].k = "SP"
    BY <1>3, <2>1, <2>3 DEF Doc!WellFormed, Doc!VAL, VAL
  <2>5. j + 2 \in 1 .. e - f /\ (f + (j + 2)) - 1 = i + 2 /\ i > f /\ i + 2 < e
    BY <1>2, <2>1, <2>4
  <2>6. QED
    BY <1>2, <2>4, <2>5
<1>4. ASSUME WellSpaced(f, e), NEW j \in 1 .. Len(field) - 1,
             field[j].k \in VAL /\ field[j + 1].k \in VAL
      PROVE  j >= 2 /\ j + 2 <= Len(field) /\ field[j + 2].k = "SP"
  <2>1. PICK i \in f .. e - 2 : i = (f + j) - 1
    <3>1. (f + j) - 1 \in f .. e - 2
      BY <1>2
    <3>2. QED
      BY <3>1
  <2>2. j \in 1 .. e - f /\ j + 1 \in 1 .. e - f /\ (f + (j + 1)) - 1 = i + 1
    BY <1>2, <2>1
  <2>3. RunsOn(i)
    BY <1>2, <1>4, <2>1, <2>2 DEF RunsOn
  <2>4. i > f /\ i + 2 < e /\ KindAt(i + 2) = "SP"
    BY <1>4, <2>3 DEF WellSpaced
  <2>5. j + 2 \in 1 .. e - f /\ (f + (j + 2)) - 1 = i + 2 /\ j >= 2 /\ j + 2 <= Len(field)
    BY <1>2, <2>1, <2>4
  <2>6. QED
    BY <1>2, <2>4, <2>5
<1>5. QED
  BY <1>1, <1>3, <1>4 DEF WellSpaced, Doc!WellFormed, Doc!VAL, VAL

\* What CellIsText needs of a field.
FieldFacts(f, e, field) ==
  /\ e \in f .. Len(src) + 1 /\ field \in Seq(Token) /\ Len(field) = e - f
  /\ \A j \in 1 .. e - f : field[j].k = KindAt((f + j) - 1)

LEMMA FieldFactsAre ==
  ASSUME SourceOK, NEW f \in 1 .. Len(src), NEW e, e = FieldEnd(f)
  PROVE  FieldFacts(f, e, Doc!FieldAt(f))
BY FieldAtIs DEF FieldFacts

\* The cell of a field that is more than a number is its text.
LEMMA CellIsText ==
  ASSUME SourceOK, NEW f \in 1 .. Len(src), NEW e, e = FieldEnd(f), f < e,
         e = f + 1 => KindAt(f) # "NR"
  PROVE  /\ Doc!CellOf(Doc!FieldAt(f)) = Text(TextOf(Doc!FieldAt(f))[e - f])
         /\ Text(TextOf(Doc!FieldAt(f))[e - f]) \in Cell
<1>1. PICK field : field = Doc!FieldAt(f)
  OBVIOUS
<1>2. /\ Len(src) \in Nat /\ e \in f .. Len(src) + 1
      /\ field \in Seq(Token) /\ Len(field) = e - f
      /\ \A j \in 1 .. e - f : field[j].k = KindAt((f + j) - 1)
  <2>1. Len(src) \in Nat
    BY SourceLen
  <2>2. FieldFacts(f, e, field)
    BY <1>1, FieldFactsAre
  <2>3. QED
    BY <2>1, <2>2 DEF FieldFacts
<1>3. Len(field) # 0 /\ field # <<>>
  <2>1. e - f # 0
    <3>1. f \in Nat /\ e \in Nat
      BY <1>2
    <3>2. QED
      BY <3>1
  <2>2. Len(field) # 0
    BY <1>2, <2>1
  <2>3. QED
    BY <2>2
<1>4. ~(Len(field) = 1 /\ field[1].k = "NR")
  <2>1. ASSUME Len(field) = 1 PROVE field[1].k # "NR"
    <3>1. 1 \in 1 .. e - f /\ (f + 1) - 1 = f /\ e = f + 1
      <4>1. e \in Nat /\ f \in Nat /\ e - f = 1
        <5>1. e \in Nat /\ f \in Nat
          BY <1>2
        <5>2. e - f = 1
          BY <1>2, <2>1
        <5>3. QED
          BY <5>1, <5>2
      <4>2. QED
        BY <4>1
    <3>2. QED
      BY <1>2, <3>1
  <2>2. QED
    BY <2>1
<1>5. PICK t : t = TextOf(field)[e - f]
  OBVIOUS
<1>6. Doc!FieldText(field) = t /\ t \in Texts
  <2>1. e - f \in 0 .. Len(field)
    BY <1>2
  <2>2. QED
    BY <1>2, <1>5, <2>1, TextOfIs
<1>7. Doc!CellOf(field) = Text(t)
  BY <1>3, <1>4, <1>6 DEF Doc!CellOf, Doc!Text, Text
<1>8. Text(t) \in Cell
  BY <1>6 DEF Text, Cell
<1>9. QED
  BY <1>1, <1>5, <1>7, <1>8

\* One more token of the field.
TokenRead(f, p) ==
  LET field == Doc!FieldAt(f)
      text  == TextOf(field)
      j     == (p - f) + 1
  IN /\ field \in Seq(Token) /\ Len(field) = FieldEnd(f) - f /\ j \in 1 .. Len(field)
     /\ field[j] = src[p] /\ field[j].k = KindAt(p) /\ src[p] \in Token
     /\ f < p => field[j - 1].k = KindAt(p - 1)
     /\ text[p - f] \in Texts /\ text[j] \in Texts
     /\ text[j] = text[p - f] \o Doc!Piece(field, j)

LEMMA TextStep ==
  ASSUME SourceOK, NEW f \in 1 .. Len(src), NEW p \in Nat, f <= p, p < FieldEnd(f)
  PROVE  TokenRead(f, p)
<1>1. PICK field : field = Doc!FieldAt(f)
  OBVIOUS
<1>2. PICK text : text = TextOf(field)
  OBVIOUS
<1>3. PICK e : e = FieldEnd(f)
  OBVIOUS
<1>4. Len(src) \in Nat
  BY SourceLen
<1>5. e \in f .. Len(src) + 1 /\ field \in Seq(Token) /\ Len(field) = e - f
  BY <1>1, <1>3, FieldAtIs
<1>6. \A i \in 1 .. e - f : field[i] = src[(f + i) - 1] /\ field[i].k = KindAt((f + i) - 1)
  BY <1>1, <1>3, FieldAtIs
<1>7. PICK j : j = (p - f) + 1
  OBVIOUS
<1>8. j \in 1 .. e - f /\ (f + j) - 1 = p /\ j - 1 = p - f
  BY <1>3, <1>4, <1>5, <1>7
<1>9. field[j] = src[p] /\ field[j].k = KindAt(p)
  BY <1>6, <1>8
<1>10. src[p] \in Token
  BY <1>5, <1>8, <1>9, ElementOfSeq
<1>11. f < p => field[j - 1].k = KindAt(p - 1)
  <2>1. ASSUME f < p PROVE j - 1 \in 1 .. e - f /\ (f + (j - 1)) - 1 = p - 1
    BY <1>4, <1>5, <1>8, <2>1
  <2>2. QED
    BY <1>6, <2>1
<1>12. text[j] = text[j - 1] \o Doc!Piece(field, j) /\ text[j - 1] \in Texts /\ text[j] \in Texts
  <2>1. j \in 0 .. Len(field) /\ j - 1 \in 0 .. Len(field) /\ j \in 1 .. Len(field)
    BY <1>4, <1>5, <1>8
  <2>2. QED
    BY <1>2, <1>5, <2>1, TextOfIs
<1>13. text[p - f] = text[j - 1]
  BY <1>8
<1>14. QED
  BY <1>1, <1>2, <1>3, <1>5, <1>7, <1>8, <1>9, <1>10, <1>11, <1>12, <1>13 DEF TokenRead

\* What the text rules were handed is the text so far.
LEMMA TextSoFar ==
  ASSUME SourceOK, NEW f \in 1 .. Len(src), NEW p, NEW n \in Nat, NEW node, TextRead(f, p, n, node)
  PROVE  (IF n = 0 THEN <<>> ELSE node.t) = TextOf(Doc!FieldAt(f))[p - f]
<1>1. CASE n = 0
  <2>1. p - f = 0
    BY <1>1, SourceLen DEF TextRead
  <2>2. Doc!FieldAt(f) \in Seq(Token)
    BY FieldAtIs
  <2>3. QED
    BY <1>1, <2>1, <2>2, TextOfIs
<1>2. CASE n # 0
  BY <1>2 DEF TextRead, Text
<1>3. QED
  BY <1>1, <1>2

\* The text rule begins where a space follows, or leads.
LEMMA TextBegins ==
  ASSUME SourceOK, NEW f \in 1 .. Len(src), NEW node,
         KindAt(f) \in VAL => KindAt(f + 1) = "SP"
  PROVE  TextRead(f, f, 0, node)
<1>1. FieldEnd(f) \in f .. Len(src) + 1 /\ Len(src) \in Nat
  BY FieldAtIs, SourceLen
<1>2. QED
  BY <1>1 DEF TextRead

\* text-follows: a value and the space after it, which stays.
LEMMA TextFollows ==
  ASSUME SourceOK, NEW f \in 1 .. Len(src), NEW p \in Nat, NEW n \in Nat, NEW node,
         TextRead(f, p, n, node), KindAt(p) \in VAL, KindAt(p + 1) = "SP",
         NEW new, new = Text((IF n = 0 THEN <<>> ELSE node.t) \o FollowsText(src[p]))
  PROVE  TextRead(f, p + 1, n + 1, new)
<1>1. PICK e : e = FieldEnd(f)
  OBVIOUS
<1>2. /\ Len(src) \in Nat /\ e \in f .. Len(src) + 1 /\ KindAt(e) \in {"CA", "LN", "ZZ"}
      /\ f <= p /\ p <= e
  BY <1>1, FieldAtIs, SourceLen DEF TextRead
<1>3. p < e
  BY <1>2 DEF VAL
<1>4. PICK field : field = Doc!FieldAt(f)
  OBVIOUS
<1>5. PICK text : text = TextOf(field)
  OBVIOUS
<1>6. PICK j : j = (p - f) + 1
  OBVIOUS
<1>7. /\ field[j] = src[p] /\ field[j].k = KindAt(p)
      /\ f < p => field[j - 1].k = KindAt(p - 1)
      /\ text[j] = text[p - f] \o Doc!Piece(field, j)
  <2>1. TokenRead(f, p)
    BY <1>1, <1>2, <1>3, TextStep
  <2>2. QED
    BY <1>1, <1>4, <1>5, <1>6, <2>1 DEF TokenRead
<1>8. ~(j > 1 /\ field[j - 1].k = "SP")
  <2>1. ASSUME j > 1 PROVE KindAt(p - 1) \in VAL /\ f < p
    BY <1>2, <1>6, <2>1 DEF TextRead
  <2>2. QED
    BY <1>7, <2>1 DEF VAL
<1>9. Doc!Piece(field, j) = FollowsText(src[p])
  BY <1>7, <1>8 DEF Doc!Piece, Doc!AsWritten, FollowsText, VAL
<1>10. new = Text(text[j])
  <2>1. (IF n = 0 THEN <<>> ELSE node.t) = text[p - f]
    BY <1>4, <1>5, TextSoFar
  <2>2. QED
    BY <1>7, <1>9, <2>1
<1>11. \A i \in f .. (p + 1) - 2 : RunsOn(i) => i > f /\ KindAt(i + 2) = "SP"
  <2>1. SUFFICES ASSUME NEW i \in f .. (p + 1) - 2, RunsOn(i) PROVE i > f /\ KindAt(i + 2) = "SP"
    OBVIOUS
  <2>2. CASE i = p - 1
    <3>1. n # 0
      BY <1>2, <2>1, <2>2 DEF TextRead
    <3>2. p # f + 1
      BY <1>2, <3>1 DEF TextRead, VAL
    <3>3. i > f /\ i + 2 = p + 1
      BY <1>2, <2>1, <2>2, <3>2
    <3>4. QED
      BY <3>3
  <2>3. CASE i # p - 1
    <3>1. i \in f .. p - 2
      BY <1>2, <2>1, <2>3
    <3>2. QED
      BY <2>1, <3>1 DEF TextRead
  <2>4. QED
    BY <2>2, <2>3
<1>12. /\ p + 1 \in f .. e /\ n + 1 # 0 /\ f < p + 1 /\ (p + 1) - 1 = p /\ (p + 1) - f = j
  BY <1>2, <1>3, <1>6
<1>13. QED
  BY <1>1, <1>4, <1>5, <1>10, <1>11, <1>12 DEF TextRead

\* text-leads: a space and the value it leads.
LEMMA TextLeads ==
  ASSUME SourceOK, NEW f \in 1 .. Len(src), NEW p \in Nat, NEW n \in Nat, NEW node,
         TextRead(f, p, n, node), KindAt(p) = "SP", KindAt(p + 1) \in VAL,
         NEW new, new = Text((IF n = 0 THEN <<>> ELSE node.t)
                               \o ((IF n # 0 \/ ~opts.trim THEN src[p].src ELSE <<>>)
                                     \o src[p + 1].src))
  PROVE  TextRead(f, p + 2, n + 1, new)
<1>1. PICK e : e = FieldEnd(f)
  OBVIOUS
<1>2. /\ Len(src) \in Nat /\ e \in f .. Len(src) + 1 /\ KindAt(e) \in {"CA", "LN", "ZZ"}
      /\ f <= p /\ p <= e
  BY <1>1, FieldAtIs, SourceLen DEF TextRead
<1>3. p + 1 < e
  <2>1. p # e /\ p + 1 # e
    BY <1>2 DEF VAL
  <2>2. QED
    BY <1>2, <2>1
<1>4. PICK field : field = Doc!FieldAt(f)
  OBVIOUS
<1>5. PICK text : text = TextOf(field)
  OBVIOUS
<1>6. PICK j : j = (p - f) + 1
  OBVIOUS
<1>7. PICK q : q = p + 1
  OBVIOUS
<1>8. /\ field[j] = src[p] /\ field[j].k = KindAt(p) /\ Len(field) = e - f /\ src[p] \in Token
      /\ text[j] = text[p - f] \o Doc!Piece(field, j) /\ text[p - f] \in Texts
  <2>1. TokenRead(f, p)
    BY <1>1, <1>2, <1>3, TextStep
  <2>2. QED
    BY <1>1, <1>4, <1>5, <1>6, <2>1 DEF TokenRead
<1>9. /\ field[j + 1] = src[q] /\ field[j + 1].k = KindAt(q) /\ src[q] \in Token
      /\ field[j].k = KindAt(p)
      /\ text[j + 1] = text[j] \o Doc!Piece(field, j + 1)
  <2>1. q \in Nat /\ f <= q /\ q < e /\ (q - f) + 1 = j + 1 /\ q - f = j
    BY <1>2, <1>3, <1>6, <1>7
  <2>2. TokenRead(f, q)
    BY <1>1, <2>1, TextStep
  <2>3. QED
    BY <1>4, <1>5, <1>8, <2>1, <2>2 DEF TokenRead
<1>10. PICK outer \in Texts : outer = (IF n # 0 \/ ~opts.trim THEN src[p].src ELSE <<>>)
  <2>1. <<>> \in Texts /\ src[p].src \in Texts
    BY <1>8, EmptySeq DEF Texts, Token
  <2>2. QED
    BY <2>1
<1>11. Doc!Piece(field, j) = outer
  <2>1. n = 0 <=> j = 1
    BY <1>2, <1>6 DEF TextRead
  <2>2. j # Len(field)
    BY <1>2, <1>3, <1>6, <1>8
  <2>3. field[j].k = "SP"
    BY <1>8
  <2>4. QED
    BY <1>8, <1>10, <2>1, <2>2, <2>3 DEF Doc!Piece
<1>12. PICK inner \in Texts : inner = src[q].src
  BY <1>9 DEF Token
<1>13. Doc!Piece(field, j + 1) = inner
  <2>1. j + 1 > 1 /\ (j + 1) - 1 = j /\ field[j + 1].k # "SP"
    BY <1>2, <1>6, <1>7, <1>9, SMTT(30) DEF VAL
  <2>2. QED
    BY <1>8, <1>9, <1>12, <2>1 DEF Doc!Piece, Doc!AsWritten
<1>14. new = Text(text[j + 1])
  <2>1. PICK before \in Texts : before = text[p - f]
    BY <1>8
  <2>2. (IF n = 0 THEN <<>> ELSE node.t) = before
    BY <1>4, <1>5, <2>1, TextSoFar
  <2>3. new = Text(before \o (outer \o inner))
    BY <1>7, <1>10, <1>12, <2>2
  <2>4. text[j + 1] = (before \o outer) \o inner
    BY <1>8, <1>9, <1>11, <1>13, <2>1
  <2>5. (before \o outer) \o inner = before \o (outer \o inner)
    BY ConcatAssociative, SMTT(30) DEF Texts
  <2>6. QED
    BY <2>3, <2>4, <2>5
<1>15. \A i \in f .. (p + 2) - 2 : RunsOn(i) => i > f /\ KindAt(i + 2) = "SP"
  <2>1. SUFFICES ASSUME NEW i \in f .. p, RunsOn(i) PROVE i > f /\ KindAt(i + 2) = "SP"
    BY <1>2
  <2>2. i # p /\ i + 1 # p
    BY <2>1 DEF RunsOn, VAL
  <2>3. i \in f .. p - 2
    BY <1>2, <2>1, <2>2
  <2>4. QED
    BY <2>1, <2>3 DEF TextRead
<1>16. /\ p + 2 \in f .. e /\ n + 1 # 0 /\ f < p + 2 /\ (p + 2) - 1 = p + 1 /\ (p + 2) - f = j + 1
       /\ p + 2 # f + 1 /\ (p + 2) - 2 = p /\ KindAt(p) \notin VAL
  BY <1>2, <1>3, <1>6 DEF VAL
<1>17. QED
  BY <1>1, <1>4, <1>5, <1>14, <1>15, <1>16 DEF TextRead

\* text-end: the space before the field's end.
LEMMA TextEnds ==
  ASSUME SourceOK, NEW f \in 1 .. Len(src), NEW p \in Nat, NEW n \in Nat, NEW node,
         TextRead(f, p, n, node), KindAt(p) = "SP", KindAt(p + 1) \in {"CA", "LN", "ZZ"},
         NEW new, new = Text((IF n = 0 THEN <<>> ELSE node.t)
                               \o (IF opts.trim THEN <<>> ELSE src[p].src))
  PROVE  FieldRead(f, p + 1, new)
<1>1. PICK e : e = FieldEnd(f)
  OBVIOUS
<1>2. /\ Len(src) \in Nat /\ e \in f .. Len(src) + 1 /\ KindAt(e) \in {"CA", "LN", "ZZ"}
      /\ f <= p /\ p <= e
      /\ \A i \in f .. e - 1 : KindAt(i) \in VAL \union {"SP"}
  BY <1>1, FieldAtIs, SourceLen DEF TextRead
<1>3. p < e
  BY <1>2
<1>4. p + 1 = e
  <2>1. p + 1 \notin f .. e - 1
    BY <1>2 DEF VAL
  <2>2. QED
    BY <1>2, <1>3, <2>1
<1>5. PICK field : field = Doc!FieldAt(f)
  OBVIOUS
<1>6. PICK text : text = TextOf(field)
  OBVIOUS
<1>7. PICK j : j = (p - f) + 1
  OBVIOUS
<1>8. /\ field[j] = src[p] /\ field[j].k = KindAt(p) /\ Len(field) = e - f /\ field \in Seq(Token)
      /\ text[j] = text[p - f] \o Doc!Piece(field, j)
  <2>1. TokenRead(f, p)
    BY <1>1, <1>2, <1>3, TextStep
  <2>2. QED
    BY <1>1, <1>5, <1>6, <1>7, <2>1 DEF TokenRead
<1>9. j = Len(field) /\ j = e - f
  BY <1>2, <1>4, <1>7, <1>8
<1>10. Doc!Piece(field, j) = IF opts.trim THEN <<>> ELSE src[p].src
  BY <1>8, <1>9 DEF Doc!Piece
<1>11. new = Text(text[e - f])
  <2>1. (IF n = 0 THEN <<>> ELSE node.t) = text[p - f]
    BY <1>5, <1>6, TextSoFar
  <2>2. QED
    BY <1>8, <1>9, <1>10, <2>1
<1>12. WellSpaced(f, e)
  <2>1. SUFFICES ASSUME NEW i \in f .. e - 2, RunsOn(i)
                 PROVE  i > f /\ i + 2 < e /\ KindAt(i + 2) = "SP"
    BY DEF WellSpaced
  <2>2. i + 1 # p
    BY <2>1 DEF RunsOn, VAL
  <2>3. i \in f .. p - 2 /\ i + 2 < e
    BY <1>2, <1>4, <2>1, <2>2
  <2>4. QED
    BY <2>1, <2>3 DEF TextRead
<1>13. Doc!WellFormed(field)
  BY <1>1, <1>5, <1>12, WellFormedIs
<1>14. new = Doc!CellOf(field) /\ new \in Cell
  <2>1. e = f + 1 => KindAt(f) # "NR"
    BY <1>2, <1>4
  <2>2. QED
    BY <1>1, <1>2, <1>3, <1>5, <1>6, <1>11, <2>1, CellIsText
<1>15. QED
  BY <1>1, <1>2, <1>4, <1>5, <1>13, <1>14 DEF FieldRead

\* The last alternate: no space follows, and no text after a space.
LEMMA TextStops ==
  ASSUME SourceOK, NEW f \in 1 .. Len(src), NEW p \in Nat, NEW n \in Nat, NEW node,
         TextRead(f, p, n, node), KindAt(f) \notin {"CA", "LN"}, KindAt(p) # "SP",
         KindAt(p) \in VAL => KindAt(p + 1) # "SP"
  PROVE  n # 0 /\ FieldRead(f, p, node)
<1>1. PICK e : e = FieldEnd(f)
  OBVIOUS
<1>2. /\ Len(src) \in Nat /\ e \in f .. Len(src) + 1 /\ KindAt(e) \in {"CA", "LN", "ZZ"}
      /\ f <= p /\ p <= e
      /\ \A i \in f .. e - 1 : KindAt(i) \in VAL \union {"SP"}
  BY <1>1, FieldAtIs, SourceLen DEF TextRead
<1>3. f < e
  <2>1. KindAt(f) # "ZZ"
    BY <1>2, KindIs
  <2>2. f # e
    BY <1>2, <2>1
  <2>3. QED
    BY <1>2, <2>2
<1>4. n # 0
  <2>1. ASSUME n = 0 PROVE FALSE
    <3>1. p = f
      BY <2>1 DEF TextRead
    <3>2. KindAt(f) \in VAL
      BY <1>2, <1>3, <3>1
    <3>3. QED
      BY <2>1, <3>1, <3>2 DEF TextRead
  <2>2. QED
    BY <2>1
<1>5. /\ f < p /\ KindAt(p - 1) \in VAL
      /\ ~(p = f + 1 \/ KindAt(p - 2) \in VAL)
      /\ node = Text(TextOf(Doc!FieldAt(f))[p - f])
  BY <1>4 DEF TextRead
<1>6. CASE p = e
  <2>1. WellSpaced(f, e)
    <3>1. SUFFICES ASSUME NEW i \in f .. e - 2, RunsOn(i)
                   PROVE  i > f /\ i + 2 < e /\ KindAt(i + 2) = "SP"
      BY DEF WellSpaced
    <3>2. i > f /\ KindAt(i + 2) = "SP"
      BY <1>6, <3>1 DEF TextRead
    <3>3. i + 2 # e
      BY <1>2, <3>2
    <3>4. QED
      BY <1>2, <3>1, <3>2, <3>3
  <2>2. Doc!WellFormed(Doc!FieldAt(f))
    BY <1>1, <2>1, WellFormedIs
  <2>3. node = Doc!CellOf(Doc!FieldAt(f)) /\ node \in Cell
    BY <1>1, <1>2, <1>3, <1>5, <1>6, CellIsText
  <2>4. p \in f + 1 .. e
    BY <1>2, <1>5, <1>6
  <2>5. QED
    BY <1>1, <1>4, <1>6, <2>2, <2>3, <2>4 DEF FieldRead
<1>7. CASE p # e
  <2>1. p < e /\ p \in f .. e - 1 /\ p - 1 \in f .. e - 2 /\ (p - 1) + 1 = p /\ (p - 1) + 2 = p + 1
    BY <1>2, <1>5, <1>7
  <2>2. KindAt(p) \in VAL
    BY <1>2, <2>1
  <2>3. RunsOn(p - 1)
    BY <1>5, <2>1, <2>2 DEF RunsOn
  <2>4. ~WellSpaced(f, e)
    BY <2>1, <2>2, <2>3 DEF WellSpaced
  <2>5. ~Doc!WellFormed(Doc!FieldAt(f))
    BY <1>1, <2>4, WellFormedIs
  <2>6. node \in Cell
    <3>1. PICK field : field = Doc!FieldAt(f)
      OBVIOUS
    <3>2. field \in Seq(Token) /\ p - f \in 0 .. Len(field)
      BY <1>1, <1>2, <3>1, FieldAtIs
    <3>3. TextOf(field)[p - f] \in Texts
      BY <3>2, TextOfIs
    <3>4. QED
      BY <1>5, <3>1, <3>3 DEF Text, Cell
  <2>7. p \in f + 1 .. e
    BY <1>2, <1>5
  <2>8. QED
    BY <1>1, <1>4, <1>7, <2>2, <2>5, <2>6, <2>7 DEF FieldRead
<1>8. QED
  BY <1>6, <1>7

\* A value with no space after it is the field, or its beginning.
LEMMA ValueAlone ==
  ASSUME SourceOK, NEW f \in 1 .. Len(src), KindAt(f) \in VAL, KindAt(f + 1) # "SP"
  PROVE  FieldRead(f, f + 1, ResolveVal(src[f]))
<1>1. PICK e : e = FieldEnd(f)
  OBVIOUS
<1>2. /\ Len(src) \in Nat /\ e \in f .. Len(src) + 1 /\ KindAt(e) \in {"CA", "LN", "ZZ"}
      /\ \A i \in f .. e - 1 : KindAt(i) \in VAL \union {"SP"}
  BY <1>1, FieldAtIs, SourceLen
<1>3. f < e
  <2>1. f # e
    BY <1>2 DEF VAL
  <2>2. QED
    BY <1>2, <2>1
<1>4. PICK field : field = Doc!FieldAt(f)
  OBVIOUS
<1>5. PICK text : text = TextOf(field)
  OBVIOUS
<1>6. /\ field \in Seq(Token) /\ Len(field) = e - f /\ field[1] = src[f] /\ src[f] \in Token
      /\ src[f].k = KindAt(f)
      /\ text[1] = text[0] \o Doc!Piece(field, 1) /\ text[0] = <<>>
  <2>1. f \in Nat /\ f <= f /\ f - f = 0 /\ (f - f) + 1 = 1
    BY <1>2
  <2>2. TokenRead(f, f)
    BY <1>1, <1>3, <2>1, TextStep
  <2>3. /\ field \in Seq(Token) /\ Len(field) = e - f /\ field[1] = src[f]
        /\ field[1].k = KindAt(f) /\ src[f] \in Token
        /\ text[1] = text[0] \o Doc!Piece(field, 1)
    BY <1>1, <1>4, <1>5, <2>1, <2>2 DEF TokenRead
  <2>4. text[0] = <<>>
    BY <1>5, <2>3, TextOfIs
  <2>5. QED
    BY <2>3, <2>4
<1>7. ResolveVal(src[f]) = IF src[f].k = "NR" THEN Num(src[f].val) ELSE Text(src[f].val)
  BY <1>6 DEF ResolveVal, VAL
<1>8. src[f].val \in Texts
  BY <1>6 DEF Token
<1>9. ResolveVal(src[f]) \in Cell
  BY <1>7, <1>8 DEF Num, Text, Cell
<1>10. CASE e = f + 1
  <2>1. WellSpaced(f, e)
    BY <1>2, <1>10 DEF WellSpaced
  <2>2. Doc!WellFormed(field)
    BY <1>1, <1>4, <2>1, WellFormedIs
  <2>3. ResolveVal(src[f]) = Doc!CellOf(field)
    <3>1. Len(field) = 1 /\ field # <<>>
      BY <1>2, <1>6, <1>10
    <3>2. CASE src[f].k = "NR"
      BY <1>6, <1>7, <3>1, <3>2 DEF Doc!CellOf, Doc!Num, Num, Doc!Text, Text
    <3>3. CASE src[f].k # "NR"
      <4>1. Doc!Piece(field, 1) = src[f].val
        <5>1. src[f].k = "TX" => src[f].val = src[f].src
          BY <1>2, LenProperties DEF SourceOK, Lexed
        <5>2. QED
          BY <1>6, <3>3, <5>1 DEF Doc!Piece, Doc!AsWritten, VAL
      <4>2. text[1] = src[f].val
        BY <1>6, <1>8, <4>1, ConcatEmptySeq DEF Texts
      <4>3. e - f = 1
        BY <1>2, <1>10
      <4>4. Doc!CellOf(field) = Text(text[1])
        BY <1>1, <1>3, <1>4, <1>5, <1>6, <3>3, <4>3, CellIsText
      <4>5. QED
        BY <1>7, <3>3, <4>2, <4>4
    <3>4. QED
      BY <3>2, <3>3
  <2>4. QED
    BY <1>1, <1>4, <1>9, <1>10, <1>2, <2>2, <2>3 DEF FieldRead
<1>11. CASE e # f + 1
  <2>1. f + 1 \in f .. e - 1 /\ f \in f .. e - 2
    BY <1>2, <1>3, <1>11
  <2>2. KindAt(f + 1) \in VAL
    BY <1>2, <2>1
  <2>3. ~WellSpaced(f, e)
    BY <1>2, <2>1, <2>2 DEF WellSpaced, RunsOn
  <2>4. ~Doc!WellFormed(field)
    BY <1>1, <1>4, <2>3, WellFormedIs
  <2>5. f + 1 \in f + 1 .. e
    BY <1>2, <1>3
  <2>6. QED
    BY <1>1, <1>4, <1>9, <1>11, <2>2, <2>4, <2>5 DEF FieldRead
<1>12. QED
  BY <1>10, <1>11

-----------------------------------------------------------------------------
(* The records of objects.                                                 *)

\* The object that keys 1 to n leave, with their cells: a key once, where it
\* first occurs, with the cell it has last.
IsLast(K, n, i, j) == j \in 1 .. n /\ K[j] = K[i] /\ \A m \in j + 1 .. n : K[m] # K[i]
LastOf(K, n, i)    == CHOOSE j : IsLast(K, n, i, j)
Firsts(K, n)       == {i \in 1 .. n : \A j \in 1 .. i - 1 : K[j] # K[i]}
ObjectUpTo(K, C, n) ==
  [p \in 1 .. Cardinality(Firsts(K, n)) |->
     <<K[Nth(Firsts(K, n), p)], C[LastOf(K, n, Nth(Firsts(K, n), p))]>>]

LEMMA LastIs ==
  ASSUME NEW K, NEW n \in Nat, NEW i \in 1 .. n
  PROVE  /\ IsLast(K, n, i, LastOf(K, n, i))
         /\ \A j : IsLast(K, n, i, j) => LastOf(K, n, i) = j
<1> DEFINE T == {d \in 0 .. n - 1 : K[n - d] = K[i]}
<1>1. T \in SUBSET Nat /\ n - i \in T
  <2>1. n - i \in 0 .. n - 1 /\ n - (n - i) = i
    OBVIOUS
  <2>2. QED
    BY <2>1
<1>2. PICK d \in T : \A y \in T : d <= y
  <2> HIDE DEF T
  <2>1. QED
    BY <1>1, Least
<1>3. PICK j : j = n - d
  OBVIOUS
<1>4. IsLast(K, n, i, j)
  <2>1. j \in 1 .. n /\ K[j] = K[i] /\ d = n - j
    BY <1>2, <1>3
  <2>2. ASSUME NEW m \in j + 1 .. n, K[m] = K[i] PROVE FALSE
    <3>1. n - m \in 0 .. n - 1 /\ n - (n - m) = m /\ ~(d <= n - m)
      BY <2>1, <2>2
    <3>2. n - m \in T
      BY <2>2, <3>1
    <3>3. QED
      BY <1>2, <3>1, <3>2
  <2>3. QED
    BY <2>1, <2>2 DEF IsLast
<1>5. \A k, l : IsLast(K, n, i, k) /\ IsLast(K, n, i, l) => k = l
  <2>1. SUFFICES ASSUME NEW k, NEW l, IsLast(K, n, i, k), IsLast(K, n, i, l), k # l PROVE FALSE
    OBVIOUS
  <2>2. k \in 1 .. n /\ l \in 1 .. n
    BY <2>1 DEF IsLast
  <2>3. k \in l + 1 .. n \/ l \in k + 1 .. n
    BY <2>1, <2>2
  <2>4. QED
    BY <2>1, <2>3 DEF IsLast
<1>6. IsLast(K, n, i, LastOf(K, n, i))
  BY <1>4, Zenon DEF LastOf
<1>7. QED
  BY <1>5, <1>6

LEMMA FirstsIn ==
  ASSUME NEW K, NEW n \in Nat
  PROVE  /\ Firsts(K, n) \in SUBSET Nat /\ IsFiniteSet(Firsts(K, n))
         /\ \A i \in Firsts(K, n) : i \in 1 .. n
         /\ Cardinality(Firsts(K, n)) \in Nat
<1>1. 1 .. n \in SUBSET Nat /\ IsFiniteSet(1 .. n) /\ Firsts(K, n) \in SUBSET (1 .. n)
  BY FS_Interval DEF Firsts
<1>2. IsFiniteSet(Firsts(K, n))
  BY <1>1, FS_Subset
<1>3. QED
  BY <1>1, <1>2, FS_CardinalityType

\* A key has a first occurrence.
LEMMA FirstExists ==
  ASSUME NEW K, NEW n \in Nat, NEW i \in 1 .. n
  PROVE  \E x \in Firsts(K, n) : K[x] = K[i]
<1> DEFINE T == {x \in 1 .. n : K[x] = K[i]}
<1>1. T \in SUBSET Nat /\ i \in T
  OBVIOUS
<1>2. PICK x \in T : \A y \in T : x <= y
  <2> HIDE DEF T
  <2>1. QED
    BY <1>1, Least
<1>3. \A j \in 1 .. x - 1 : K[j] # K[x]
  <2>1. SUFFICES ASSUME NEW j \in 1 .. x - 1, K[j] = K[x] PROVE FALSE
    OBVIOUS
  <2>2. j \in T /\ ~(x <= j)
    BY <1>2, <2>1
  <2>3. QED
    BY <1>2, <2>2
<1>4. QED
  BY <1>2, <1>3 DEF Firsts

\* A key that is new is appended; one that is not is given its new cell.
LEMMA ObjectGrows ==
  ASSUME NEW K, NEW C, NEW m \in Nat, NEW n \in Nat, m < n, n <= m + 1, NEW assignment,
         Key(assignment[1]) = K[n], assignment[2] = C[n]
  PROVE  Assign(ObjectUpTo(K, C, m), assignment) = ObjectUpTo(K, C, n)
<1>0. n = m + 1
  OBVIOUS
<1>1. PICK pair : pair = <<K[n], C[n]>>
  OBVIOUS
<1>2. PICK F : F = Firsts(K, m)
  OBVIOUS
<1>3. PICK G : G = Firsts(K, n)
  OBVIOUS
<1>4. PICK c \in Nat : c = Cardinality(F)
  BY <1>2, FirstsIn
<1>5. /\ F \in SUBSET Nat /\ IsFiniteSet(F) /\ \A x \in F : x \in 1 .. m
  BY <1>2, FirstsIn
<1>6. PICK old : old = ObjectUpTo(K, C, m)
  OBVIOUS
<1>7. PICK new : new = ObjectUpTo(K, C, n)
  OBVIOUS
<1>8. /\ old = [p \in 1 .. c |-> <<K[Nth(F, p)], C[LastOf(K, m, Nth(F, p))]>>]
      /\ new = [p \in 1 .. Cardinality(G) |-> <<K[Nth(G, p)], C[LastOf(K, n, Nth(G, p))]>>]
  BY <1>2, <1>3, <1>4, <1>6, <1>7 DEF ObjectUpTo
<1>9. \A p \in 1 .. c : Nth(F, p) \in F /\ old[p] = <<K[Nth(F, p)], C[LastOf(K, m, Nth(F, p))]>>
  BY <1>4, <1>5, <1>8, NthExists
<1>10. ASSUME NEW x \in F
       PROVE  /\ K[x] # K[n] => LastOf(K, n, x) = LastOf(K, m, x)
              /\ K[x] = K[n] => LastOf(K, n, x) = n
  <2>1. x \in 1 .. m /\ x \in 1 .. n /\ n \in Nat
    BY <1>5
  <2>2. PICK j : j = LastOf(K, m, x) /\ IsLast(K, m, x, j)
    BY <2>1, LastIs
  <2>3. ASSUME K[x] # K[n] PROVE IsLast(K, n, x, j)
    <3>1. j \in 1 .. m /\ K[j] = K[x] /\ \A l \in j + 1 .. m : K[l] # K[x]
      BY <2>2 DEF IsLast
    <3>2. \A l \in j + 1 .. n : l \in j + 1 .. m \/ l = n
      BY <3>1
    <3>3. j \in 1 .. n
      BY <3>1
    <3>4. QED
      BY <2>3, <3>1, <3>2, <3>3 DEF IsLast
  <2>4. ASSUME K[x] = K[n] PROVE IsLast(K, n, x, n)
    BY <2>1, <2>4 DEF IsLast
  <2>5. QED
    BY <2>1, <2>2, <2>3, <2>4, LastIs
<1>11. Assign(old, assignment) =
         IF \E p \in 1 .. c : old[p][1] = K[n]
         THEN [p \in 1 .. c |-> IF old[p][1] = K[n] THEN pair ELSE old[p]]
         ELSE Append(old, pair)
  <2>1. DOMAIN old = 1 .. c
    BY <1>8
  <2>2. <<Key(assignment[1]), assignment[2]>> = pair /\ pair[1] = K[n]
    BY <1>1
  <2>3. QED
    BY <2>1, <2>2 DEF Assign
<1>12. CASE \E p \in 1 .. c : old[p][1] = K[n]
  <2>1. PICK q \in 1 .. c : old[q][1] = K[n]
    BY <1>12
  <2>2. PICK x \in F : K[x] = K[n]
    BY <1>9, <2>1
  <2>3. G = F
    <3>1. \A i \in Nat : i \in G <=> i \in F
      <4>1. n \notin G
        <5>1. x \in 1 .. n - 1
          BY <1>5, <2>2
        <5>2. QED
          BY <1>3, <2>2, <5>1 DEF Firsts
      <4>2. \A i \in Nat : i \in 1 .. n <=> i \in 1 .. m \/ i = n
        OBVIOUS
      <4>3. QED
        BY <1>2, <1>3, <1>5, <4>1, <4>2 DEF Firsts
    <3>2. G \in SUBSET Nat
      BY <1>3, FirstsIn
    <3>3. QED
      BY <1>5, <3>1, <3>2
  <2>4. ASSUME NEW p \in 1 .. c
        PROVE  new[p] = IF old[p][1] = K[n] THEN pair ELSE old[p]
    <3>1. PICK y \in F : y = Nth(F, p)
      BY <1>9
    <3>2. old[p] = <<K[y], C[LastOf(K, m, y)]>> /\ new[p] = <<K[y], C[LastOf(K, n, y)]>>
      BY <1>4, <1>8, <2>3, <3>1
    <3>3. QED
      BY <1>1, <1>10, <3>1, <3>2
  <2>5. new = [p \in 1 .. c |-> IF old[p][1] = K[n] THEN pair ELSE old[p]]
    <3>1. new = [p \in 1 .. c |-> new[p]]
      BY <1>4, <1>8, <2>3
    <3>2. QED
      BY <2>4, <3>1
  <2>6. QED
    BY <1>6, <1>7, <1>11, <1>12, <2>5
<1>13. CASE ~ \E p \in 1 .. c : old[p][1] = K[n]
  <2>1. \A j \in 1 .. m : K[j] # K[n]
    <3>1. SUFFICES ASSUME NEW j \in 1 .. m, K[j] = K[n] PROVE FALSE
      OBVIOUS
    <3>2. PICK x \in F : K[x] = K[n]
      BY <1>2, <3>1, FirstExists
    <3>3. PICK p \in 1 .. c : Nth(F, p) = x
      BY <1>4, <1>5, NthIs
    <3>4. old[p][1] = K[n]
      BY <1>9, <3>2, <3>3
    <3>5. QED
      BY <1>13, <3>4
  <2>2. G = F \union {n}
    <3>1. \A i \in Nat : i \in G <=> i \in F \/ i = n
      <4>1. n \in G
        <5>1. n \in 1 .. n /\ n - 1 = m
          OBVIOUS
        <5>2. QED
          BY <1>3, <2>1, <5>1 DEF Firsts
      <4>2. \A i \in Nat : i \in 1 .. n <=> i \in 1 .. m \/ i = n
        OBVIOUS
      <4>3. QED
        BY <1>2, <1>3, <1>5, <4>1, <4>2 DEF Firsts
    <3>2. G \in SUBSET Nat
      BY <1>3, FirstsIn
    <3>3. n \in Nat
      OBVIOUS
    <3>4. QED
      BY <1>5, <3>1, <3>2, <3>3
  <2>3. /\ Cardinality(G) = c + 1 /\ Nth(G, c + 1) = n
        /\ \A p \in 1 .. c : Nth(G, p) = Nth(F, p) /\ Nth(F, p) \in F
    <3>1. \A x \in F : x < n
      BY <1>5
    <3>2. n \in Nat
      OBVIOUS
    <3>3. IsAddedLast(F, n, G)
      BY <1>5, <2>2, <3>1, <3>2, NthLast
    <3>4. QED
      BY <1>4, <3>3 DEF IsAddedLast
  <2>4. LastOf(K, n, n) = n
    <3>1. n \in 1 .. n /\ n \in Nat
      OBVIOUS
    <3>2. IsLast(K, n, n, n)
      BY <3>1 DEF IsLast
    <3>3. QED
      BY <3>1, <3>2, LastIs
  <2>5. new[c + 1] = pair
    <3>1. c + 1 \in 1 .. Cardinality(G)
      BY <1>4, <2>3
    <3>2. QED
      BY <1>1, <1>8, <2>3, <2>4, <3>1
  <2>6. ASSUME NEW p \in 1 .. c PROVE new[p] = old[p]
    <3>1. PICK y \in F : y = Nth(F, p) /\ y = Nth(G, p)
      BY <2>3
    <3>2. K[y] # K[n]
      BY <1>5, <2>1, <3>1
    <3>3. p \in 1 .. Cardinality(G)
      BY <1>4, <2>3
    <3>4. old[p] = <<K[y], C[LastOf(K, m, y)]>> /\ new[p] = <<K[y], C[LastOf(K, n, y)]>>
      BY <1>8, <3>1, <3>3
    <3>5. QED
      BY <1>10, <3>1, <3>2, <3>4
  <2>7. old = [p \in 1 .. c |-> new[p]]
    <3>1. old = [p \in 1 .. c |-> old[p]]
      BY <1>8
    <3>2. QED
      BY <2>6, <3>1
  <2>8. Append(old, pair) = [p \in 1 .. c + 1 |-> new[p]]
    BY <1>4, <2>5, <2>7, AppendIs
  <2>9. new = [p \in 1 .. c + 1 |-> new[p]]
    BY <1>8, <2>3
  <2>10. QED
    BY <1>6, <1>7, <1>11, <1>13, <2>8, <2>9
<1>14. QED
  BY <1>12, <1>13

LEMMA ObjectEmpty ==
  ASSUME NEW K, NEW C
  PROVE  ObjectUpTo(K, C, 0) = <<>>
<1>1. Firsts(K, 0) = {}
  BY DEF Firsts
<1>2. Cardinality(Firsts(K, 0)) = 0
  BY <1>1, FS_EmptySet
<1>3. QED
  BY <1>2 DEF ObjectUpTo

\* The assignments of a record, made one by one, leave the object that
\* CsvRecords makes of the line.
LEMMA PropertiesAre ==
  ASSUME NEW assignments, NEW N \in Nat, N = Len(assignments), NEW K, NEW C,
         \A n \in 1 .. N : Key(assignments[n][1]) = K[n] /\ assignments[n][2] = C[n]
  PROVE  Properties(assignments) = ObjectUpTo(K, C, N)
<1> DEFINE body(o) == [n \in 0 .. Len(assignments) |->
                         IF n = 0 THEN <<>> ELSE Assign(o[n - 1], assignments[n])]
<1>1. \A n \in 1 .. N :
        Assign(ObjectUpTo(K, C, n - 1), assignments[n]) = ObjectUpTo(K, C, n)
  <2>1. SUFFICES ASSUME NEW n \in 1 .. N
                 PROVE  Assign(ObjectUpTo(K, C, n - 1), assignments[n]) = ObjectUpTo(K, C, n)
    OBVIOUS
  <2>2. PICK m \in Nat : m = n - 1 /\ m < n /\ n <= m + 1
    <3>1. n - 1 \in Nat /\ n - 1 < n /\ n <= (n - 1) + 1
      OBVIOUS
    <3>2. QED
      BY <3>1
  <2>3. PICK assignment : assignment = assignments[n]
    OBVIOUS
  <2>4. n \in Nat /\ Key(assignment[1]) = K[n] /\ assignment[2] = C[n]
    BY <2>3
  <2>5. Assign(ObjectUpTo(K, C, m), assignment) = ObjectUpTo(K, C, n)
    BY <2>2, <2>4, ObjectGrows
  <2>6. QED
    BY <2>2, <2>3, <2>5
<1>2. PICK g : g = [n \in 0 .. N |-> ObjectUpTo(K, C, n)]
  OBVIOUS
<1>3. g = body(g)
  <2>1. \A n \in 0 .. N : g[n] = IF n = 0 THEN <<>> ELSE Assign(g[n - 1], assignments[n])
    <3>1. SUFFICES ASSUME NEW n \in 0 .. N
                   PROVE  g[n] = IF n = 0 THEN <<>> ELSE Assign(g[n - 1], assignments[n])
      OBVIOUS
    <3>2. CASE n = 0
      BY <1>2, <3>2, ObjectEmpty
    <3>3. CASE n # 0
      <4>1. n \in 1 .. N /\ n - 1 \in 0 .. N
        BY <3>3
      <4>2. g[n] = ObjectUpTo(K, C, n) /\ g[n - 1] = ObjectUpTo(K, C, n - 1)
        BY <1>2, <4>1
      <4>3. QED
        BY <1>1, <3>3, <4>1, <4>2
    <3>4. QED
      BY <3>2, <3>3
  <2>2. g = [n \in 0 .. N |-> g[n]]
    BY <1>2
  <2>3. QED
    BY <2>1, <2>2
<1>4. PICK h : h = CHOOSE o : o = body(o)
  OBVIOUS
<1>5. h = body(h)
  BY <1>3, <1>4
<1>6. Properties(assignments) = h[Len(assignments)]
  BY <1>4, Zenon DEF Properties
<1>7. \A n \in 0 .. N : h[n] = IF n = 0 THEN <<>> ELSE Assign(h[n - 1], assignments[n])
  BY <1>5
<1> HIDE DEF body
<1> DEFINE T == {n \in 0 .. N : h[n] # ObjectUpTo(K, C, n)}
<1>8. T \in SUBSET Nat
  OBVIOUS
<1>9. ASSUME T # {} PROVE FALSE
  <2>1. PICK n \in T : \A y \in T : n <= y
    <3> HIDE DEF T
    <3>1. QED
      BY <1>8, <1>9, Least
  <2>2. n # 0
    BY <1>7, <2>1, ObjectEmpty
  <2>3. n \in 1 .. N /\ n - 1 \in 0 .. N /\ ~(n <= n - 1)
    BY <2>1, <2>2
  <2>4. h[n - 1] = ObjectUpTo(K, C, n - 1)
    BY <2>1, <2>3
  <2>5. h[n] = ObjectUpTo(K, C, n)
    BY <1>1, <1>7, <2>2, <2>3, <2>4
  <2>6. QED
    BY <2>1, <2>5
<1>10. h[N] = ObjectUpTo(K, C, N)
  <2>1. N \in 0 .. N
    OBVIOUS
  <2>2. QED
    BY <1>9, <2>1
<1>11. QED
  BY <1>6, <1>10

LEMMA AssignmentsAre ==
  ASSUME NEW cells \in Seq(Cell), NEW names \in Seq(Cell), NEW w,
         w = IF Len(cells) > Len(names) THEN Len(cells) ELSE Len(names)
  PROVE  /\ w \in Nat /\ Len(Assignments(cells, names)) = w
         /\ \A n \in 1 .. w :
              /\ Key(Assignments(cells, names)[n][1]) =
                   IF n <= Len(names) THEN names[n].t ELSE NoNamePrefix \o Decimal[n - 1]
              /\ Assignments(cells, names)[n][2] = CellAt(cells, n)
<1>1. PICK x \in Nat : x = Len(names)
  BY LenProperties
<1>2. PICK y \in Nat : y = Len(cells)
  BY LenProperties
<1>3. PICK extra \in Nat : extra = IF y > x THEN y - x ELSE 0
  BY <1>1, <1>2
<1>4. PICK A : A = [i \in 1 .. x |-> <<NamedBy(names[i]), CellAt(cells, i)>>]
  OBVIOUS
<1>5. PICK B : B = [j \in 1 .. extra |-> <<Unnamed(x + j - 1), cells[x + j]>>]
  OBVIOUS
<1>6. Assignments(cells, names) = A \o B
  BY <1>1, <1>2, <1>3, <1>4, <1>5 DEF Assignments
<1>7. PICK V : V = {A[i] : i \in 1 .. x} \union {B[j] : j \in 1 .. extra}
  OBVIOUS
<1>8. A \in Seq(V) /\ Len(A) = x /\ B \in Seq(V) /\ Len(B) = extra
  <2>1. A \in [1 .. x -> V]
    BY <1>4, <1>7
  <2>2. B \in [1 .. extra -> V]
    BY <1>5, <1>7
  <2>3. QED
    BY <2>1, <2>2
<1>9. PICK all : all = A \o B
  OBVIOUS
<1>10. /\ Len(all) = x + extra
       /\ \A n \in 1 .. x + extra : all[n] = IF n <= x THEN A[n] ELSE B[n - x]
  BY <1>8, <1>9, ConcatProperties
<1>11. w = x + extra /\ w \in Nat
  BY <1>1, <1>2, <1>3
<1>12. ASSUME NEW n \in 1 .. w
       PROVE  /\ Key(all[n][1]) = IF n <= x THEN names[n].t ELSE NoNamePrefix \o Decimal[n - 1]
              /\ all[n][2] = CellAt(cells, n)
  <2>1. CASE n <= x
    <3>1. all[n] = <<NamedBy(names[n]), CellAt(cells, n)>>
      BY <1>4, <1>10, <1>11, <2>1
    <3>2. Key(NamedBy(names[n])) = names[n].t
      BY DEF Key, NamedBy
    <3>3. QED
      BY <2>1, <3>1, <3>2
  <2>2. CASE ~(n <= x)
    <3>1. PICK j \in 1 .. extra : j = n - x /\ x + j = n /\ x + j - 1 = n - 1
      <4>1. n - x \in 1 .. extra /\ x + (n - x) = n /\ x + (n - x) - 1 = n - 1
        BY <1>11, <2>2
      <4>2. QED
        BY <4>1
    <3>2. all[n] = <<Unnamed(n - 1), cells[n]>>
      BY <1>5, <1>10, <1>11, <2>2, <3>1
    <3>3. Key(Unnamed(n - 1)) = NoNamePrefix \o Decimal[n - 1]
      BY DEF Key, Unnamed
    <3>4. n <= Len(cells)
      BY <1>1, <1>2, <1>3, <1>11, <2>2
    <3>5. CellAt(cells, n) = cells[n]
      BY <3>4 DEF CellAt
    <3>6. QED
      BY <2>2, <3>2, <3>3, <3>5
  <2>3. QED
    BY <2>1, <2>2
<1>13. QED
  BY <1>1, <1>6, <1>9, <1>10, <1>11, <1>12

LEMMA SameValues ==
  /\ Doc!Decimal = Decimal
  /\ \A cells, i : Doc!CellAt(cells, i) = CellAt(cells, i)
<1>1. Doc!Decimal = Decimal
  BY Zenon DEF Doc!Decimal, Decimal, Doc!Digit, Digit
<1>2. \A cells, i : Doc!CellAt(cells, i) = CellAt(cells, i)
  BY Zenon DEF Doc!CellAt, CellAt
<1>3. QED
  BY <1>1, <1>2

LEMMA ObjectIs ==
  ASSUME NEW cells \in Seq(Cell), NEW names \in Seq(Cell)
  PROVE  Properties(Assignments(cells, names)) = Doc!ObjectOf(cells, names)
<1> DEFINE width   == IF Len(cells) > Len(names) THEN Len(cells) ELSE Len(names)
           name(i) == IF i <= Len(names) THEN names[i].t ELSE NoNamePrefix \o Doc!Decimal[i - 1]
           firsts  == {i \in 1 .. width : \A j \in 1 .. i - 1 : name(j) # name(i)}
           last(i) == CHOOSE j \in 1 .. width :
                        /\ name(j) = name(i)
                        /\ \A m \in j + 1 .. width : name(m) # name(i)
<1>1. PICK w : w = width
  OBVIOUS
<1>2. PICK K : K = [i \in 1 .. w |-> name(i)]
  OBVIOUS
<1>3. PICK C : C = [i \in 1 .. w |-> CellAt(cells, i)]
  OBVIOUS
<1>4. PICK a : a = Assignments(cells, names)
  OBVIOUS
<1>5. /\ w \in Nat /\ Len(a) = w
      /\ \A n \in 1 .. w : Key(a[n][1]) = name(n) /\ a[n][2] = CellAt(cells, n)
  BY <1>1, <1>4, AssignmentsAre, SameValues
<1>6. Doc!ObjectOf(cells, names) =
        [p \in 1 .. Cardinality(firsts) |->
           <<name(Nth(firsts, p)), CellAt(cells, last(Nth(firsts, p)))>>]
  <2>1. Doc!ObjectOf(cells, names) =
          [p \in 1 .. Doc!Cardinality(firsts) |->
             <<name(Doc!Nth(firsts, p)), Doc!CellAt(cells, last(Doc!Nth(firsts, p)))>>]
    BY Zenon DEF Doc!ObjectOf
  <2> HIDE DEF name, firsts, last
  <2>2. QED
    BY <2>1, SameOps, SameValues
<1> HIDE DEF name
<1>7. \A i \in 1 .. w : K[i] = name(i)
  BY <1>2
<1>8. firsts = Firsts(K, w)
  <2>1. \A i \in Nat : i \in firsts <=> i \in Firsts(K, w)
    <3>1. SUFFICES ASSUME NEW i \in 1 .. w
                   PROVE  (\A j \in 1 .. i - 1 : name(j) # name(i))
                            <=> (\A j \in 1 .. i - 1 : K[j] # K[i])
      BY <1>1 DEF Firsts
    <3>2. \A j \in 1 .. i - 1 : j \in 1 .. w
      BY <1>5
    <3>3. QED
      BY <1>7, <3>2
  <2>2. firsts \in SUBSET Nat /\ Firsts(K, w) \in SUBSET Nat
    BY <1>1, <1>5, FirstsIn
  <2>3. QED
    BY <2>1, <2>2
<1>9. ASSUME NEW i \in 1 .. w PROVE last(i) = LastOf(K, w, i) /\ LastOf(K, w, i) \in 1 .. w
  <2>1. PICK l : l = LastOf(K, w, i)
    OBVIOUS
  <2>2. IsLast(K, w, i, l) /\ \A j : IsLast(K, w, i, j) => l = j
    BY <1>5, <2>1, LastIs
  <2>3. \A j \in 1 .. w : IsLast(K, w, i, j) <=>
          name(j) = name(i) /\ \A m \in j + 1 .. w : name(m) # name(i)
    <3>1. SUFFICES ASSUME NEW j \in 1 .. w
                   PROVE  IsLast(K, w, i, j) <=>
                            name(j) = name(i) /\ \A m \in j + 1 .. w : name(m) # name(i)
      OBVIOUS
    <3>2. \A m \in j + 1 .. w : m \in 1 .. w
      BY <1>5
    <3>3. QED
      BY <1>7, <3>2 DEF IsLast
  <2>4. l \in 1 .. w
    BY <2>2 DEF IsLast
  <2>5. \A j \in 1 .. w :
          name(j) = name(i) /\ (\A m \in j + 1 .. w : name(m) # name(i)) <=> j = l
    BY <2>2, <2>3
  <2>6. last(i) = l
    BY <1>1, <2>4, <2>5
  <2>7. QED
    BY <2>1, <2>4, <2>6
<1>10. \A p \in 1 .. Cardinality(firsts) : Nth(firsts, p) \in 1 .. w
  <2> HIDE DEF firsts
  <2>1. firsts \in SUBSET Nat /\ IsFiniteSet(firsts) /\ \A i \in firsts : i \in 1 .. w
    BY <1>5, <1>8, FirstsIn
  <2>2. QED
    BY <2>1, NthExists
<1>11. ObjectUpTo(K, C, w) =
         [p \in 1 .. Cardinality(firsts) |->
            <<name(Nth(firsts, p)), CellAt(cells, last(Nth(firsts, p)))>>]
  <2> HIDE DEF firsts, last
  <2>1. \A p \in 1 .. Cardinality(firsts) :
          /\ K[Nth(firsts, p)] = name(Nth(firsts, p))
          /\ C[LastOf(K, w, Nth(firsts, p))] = CellAt(cells, last(Nth(firsts, p)))
    <3>1. SUFFICES ASSUME NEW p \in 1 .. Cardinality(firsts)
                   PROVE  /\ K[Nth(firsts, p)] = name(Nth(firsts, p))
                          /\ C[LastOf(K, w, Nth(firsts, p))] = CellAt(cells, last(Nth(firsts, p)))
      OBVIOUS
    <3>2. PICK i \in 1 .. w : i = Nth(firsts, p)
      BY <1>10
    <3>3. QED
      BY <1>3, <1>7, <1>9, <3>2
  <2>2. QED
    BY <1>8, <2>1 DEF ObjectUpTo
<1>12. Properties(a) = ObjectUpTo(K, C, w)
  <2>1. \A n \in 1 .. w : Key(a[n][1]) = K[n] /\ a[n][2] = C[n]
    BY <1>3, <1>5, <1>7
  <2>2. QED
    BY <1>5, <2>1, PropertiesAre
<1>13. QED
  BY <1>4, <1>6, <1>11, <1>12

-----------------------------------------------------------------------------
(* What the rules say of the text: which field, line and cell each instance *)
(* of the stack is at, and what was read of it.                            *)

\* The line that starts at s is the one being read.
InLine(s, r) == s \in Doc!LineStarts /\ CountBefore(Doc!LineStarts, s) = r

\* It was read whole, or as far as the source goes.
LineDone(s, r, p, cells) ==
  /\ InLine(s, r) /\ AllRead(s) /\ cells = Doc!CellsOf(s)
  /\ Doc!LineEnd(s) <= p
  /\ p = Doc!LineEnd(s) \/ Doc!LineEnd(s) > Len(src)

\* It was read up to the field that starts at f.
InField(s, f, r, cells) ==
  /\ InLine(s, r) /\ f \in Doc!FieldStarts(s)
  /\ ReadUpTo(s, f) /\ cells = CellsUpTo(s, f)

\* That field was read, and its cell is in the array unless it is refused.
CellRead(s, f, r, p, cells) ==
  /\ InLine(s, r) /\ f \in Doc!FieldStarts(s) /\ ReadUpTo(s, f)
  /\ \/ /\ p = FieldEnd(f) /\ Doc!WellFormed(Doc!FieldAt(f))
        /\ cells = Append(CellsUpTo(s, f), Doc!CellOf(Doc!FieldAt(f)))
     \/ /\ f < p /\ p < FieldEnd(f) /\ KindAt(p) \in VAL
        /\ ~Doc!WellFormed(Doc!FieldAt(f))

\* Elem has not pushed the cell of the field, which is there to be read.
Pending(s, f, r, elem, hp) ==
  /\ InField(s, f, r, hp[elem.node.a])
  /\ ~elem.done /\ elem.kid = Undef
  /\ f <= Len(src) /\ KindAt(f) # "LN"

CsvSays(at, p, r) ==
  /\ at \in {"bo", "open"} => p = 1 /\ r = 0
  /\ at \in {"bc", "close"} => r = Doc!LineCount

NewlineSays(at, p, r) ==
  /\ ~opts.empty
  /\ p > Len(src) \/ (at = "open" /\ KindAt(p - 1) = "LN")
  /\ CountBefore(Doc!LineStarts, p) = r

RecordSays(at, p, r, cells) ==
  /\ at = "open"  => InLine(p, r)
  /\ at = "bc"    => \E s \in 1 .. Len(src) : LineDone(s, r, p, cells)
  /\ at = "close" => /\ KindAt(p) \in {"LN", "ZZ"}
                     /\ CountBefore(Doc!LineStarts, p + 1) = r

ListSays(at, p, r, cells) ==
  /\ at = "bo"            => InLine(p, r)
  /\ at = "open"          => InLine(p, r) /\ cells = <<>>
  /\ at \in {"bc", "close"} => \E s \in 1 .. Len(src) : LineDone(s, r, p, cells)

ElemSays(at, p, r, elem, hp) ==
  /\ at = "open"  => \E s \in 1 .. Len(src) : Pending(s, p, r, elem, hp)
  /\ at = "bc"    => \E s, f \in 1 .. Len(src) :
                       IF elem.done THEN CellRead(s, f, r, p, hp[elem.node.a])
                       ELSE InField(s, f, r, hp[elem.node.a]) /\ FieldRead(f, p, elem.kid)
  /\ at = "close" => \E s, f \in 1 .. Len(src) : CellRead(s, f, r, p, hp[elem.node.a])

ValSays(at, p, f, val) ==
  /\ at \in {"bo", "open"} =>
       p = f /\ KindAt(f) # "CA" /\ val.kid = Undef /\ (at = "open" => val.node = Undef)
  /\ at = "bc" =>
       \/ FieldRead(f, p, val.node)
       \/ /\ val.node = Undef /\ val.kid = Undef /\ val.o0 = src[f]
          /\ p = f + 1 /\ KindAt(f) \in VAL /\ KindAt(f + 1) # "SP"
  /\ at = "close" => FieldRead(f, p, val.node)

TextSays(at, p, f, text, val) ==
  /\ KindAt(f) # "CA"
  /\ at = "open"           => TextRead(f, p, text.n, text.node)
  /\ at \in {"bc", "close"} => FieldRead(f, p, text.node)
  /\ at = "close"          => val.node = text.node

\* What the running instance stands for.
Says(stk, hp, p, r) ==
  LET top == stk[Len(stk)]
  IN /\ top.rule = "csv"     => CsvSays(top.at, p, r)
     /\ top.rule = "newline" => NewlineSays(top.at, p, r)
     /\ top.rule = "record"  => RecordSays(top.at, p, r, hp[top.kid.a])
     /\ top.rule = "list"    => ListSays(top.at, p, r, hp[top.node.a])
     /\ top.rule = "elem"    => ElemSays(top.at, p, r, top, hp)
     /\ top.rule = "val"     => \E s, f \in 1 .. Len(src) :
                                  Pending(s, f, r, stk[4], hp) /\ ValSays(top.at, p, f, top)
     /\ top.rule = "text"    => \E s, f \in 1 .. Len(src) :
                                  Pending(s, f, r, stk[4], hp)
                                    /\ TextSays(top.at, p, f, top, stk[5])

\* The instances below wait for the one they pushed.
Waiting(stk) ==
  /\ \A i \in 1 .. Len(stk) - 1 : stk[i].at = AfterOpen(stk[i].rule)
  /\ Len(stk) >= 3 => stk[2].rule = "record"
  /\ Len(stk) >= 4 => stk[4].node = stk[3].node
  /\ Len(stk) >= 5 => stk[5].pushed

\* The field list is the first line's cells once the header was read.
HeaderSays ==
  IF opts.header /\ recordI > 0
  THEN fields # 0 /\ heap[fields] = Doc!CellsOf(Doc!LineStart(1))
  ELSE fields = 0

ReadingInv ==
  /\ HandedInv /\ Lexed(src)
  /\ HeaderSays
  /\ outcome = "run" => Waiting(stack) /\ Says(stack, heap, pos, recordI)

-----------------------------------------------------------------------------
(* The source and the options stay, and with them all that is said of      *)
(* places.                                                                 *)

LEMMA FixedPlaces ==
  ASSUME src' = src, opts' = opts
  PROVE  /\ Doc!LineStarts' = Doc!LineStarts
         /\ Doc!LineCount' = Doc!LineCount
         /\ \A n : Doc!LineStart(n)' = Doc!LineStart(n)
         /\ \A s : Doc!LineEnd(s)' = Doc!LineEnd(s)
         /\ \A s : Doc!FieldStarts(s)' = Doc!FieldStarts(s)
         /\ \A s : Doc!FieldsOf(s)' = Doc!FieldsOf(s)
         /\ \A s : Doc!CellsOf(s)' = Doc!CellsOf(s)
         /\ \A f : Doc!FieldAt(f)' = Doc!FieldAt(f)
         /\ \A f : FieldEnd(f)' = FieldEnd(f)
         /\ \A i : KindAt(i)' = KindAt(i)
<1>1. Doc!LineStarts' = Doc!LineStarts
  BY DEF Doc!LineStarts
<1>3. \A s : Doc!LineEnd(s)' = Doc!LineEnd(s)
  BY DEF Doc!LineEnd, Doc!Until
<1>4. \A f : FieldEnd(f)' = FieldEnd(f)
  BY DEF FieldEnd, Doc!Until
<1>5. \A s : Doc!FieldStarts(s)' = Doc!FieldStarts(s)
  BY DEF Doc!FieldStarts, Doc!LineEnd, Doc!Until
<1>6. \A f : Doc!FieldAt(f)' = Doc!FieldAt(f)
  BY DEF Doc!FieldAt, Doc!Until
<1>7. \A s : Doc!FieldsOf(s)' = Doc!FieldsOf(s)
  BY DEF Doc!FieldsOf, Doc!FieldAt, Doc!FieldStarts, Doc!LineEnd, Doc!Until
<1>8. \A s : Doc!CellsOf(s)' = Doc!CellsOf(s)
  BY SMTT(30) DEF Doc!CellsOf, Doc!CellOf, Doc!FieldText,
     Doc!Piece, Doc!AsWritten, Doc!FieldsOf, Doc!FieldAt,
     Doc!FieldStarts, Doc!LineEnd, Doc!Until
<1>9. Doc!LineCount' = Doc!LineCount
  BY <1>1 DEF Doc!LineCount
<1>10. \A n : Doc!LineStart(n)' = Doc!LineStart(n)
  BY <1>1 DEF Doc!LineStart
<1>11. \A i : KindAt(i)' = KindAt(i)
  BY DEF KindAt
<1>12. QED
  BY <1>1, <1>3, <1>4, <1>5, <1>6, <1>7, <1>8, <1>9, <1>10, <1>11

LEMMA FixedFields ==
  ASSUME src' = src, opts' = opts
  PROVE  /\ \A f : Doc!WellFormed(Doc!FieldAt(f))' <=> Doc!WellFormed(Doc!FieldAt(f))
         /\ \A f : Doc!CellOf(Doc!FieldAt(f))' = Doc!CellOf(Doc!FieldAt(f))
         /\ \A f : TextOf(Doc!FieldAt(f))' = TextOf(Doc!FieldAt(f))
         /\ \A s : AllRead(s)' <=> AllRead(s)
         /\ \A s, f : ReadUpTo(s, f)' <=> ReadUpTo(s, f)
         /\ \A s, f : CellsUpTo(s, f)' = CellsUpTo(s, f)
         /\ \A i : RunsOn(i)' <=> RunsOn(i)
<1>1. \A f : Doc!WellFormed(Doc!FieldAt(f))' <=> Doc!WellFormed(Doc!FieldAt(f))
  BY DEF Doc!FieldAt, Doc!Until
<1>2. \A f : Doc!CellOf(Doc!FieldAt(f))' = Doc!CellOf(Doc!FieldAt(f))
  BY DEF Doc!CellOf, Doc!FieldText, Doc!Piece, Doc!AsWritten, Doc!FieldAt, Doc!Until
<1>3. \A f : TextOf(Doc!FieldAt(f))' = TextOf(Doc!FieldAt(f))
  BY DEF TextOf, Doc!Piece, Doc!AsWritten, Doc!FieldAt, Doc!Until
<1>4. \A s : AllRead(s)' <=> AllRead(s)
  BY FixedPlaces DEF AllRead
<1>5. \A s, f : ReadUpTo(s, f)' <=> ReadUpTo(s, f)
  BY FixedPlaces DEF ReadUpTo, FieldsBefore
<1>6. \A s, f : CellsUpTo(s, f)' = CellsUpTo(s, f)
  BY FixedPlaces DEF CellsUpTo, FieldsBefore
<1>7. \A i : RunsOn(i)' <=> RunsOn(i)
  BY DEF RunsOn, KindAt
<1>8. QED
  BY <1>1, <1>2, <1>3, <1>4, <1>5, <1>6, <1>7

\* What is said with the new values is what the next state says.
LEMMA Anew ==
  ASSUME src' = src, opts' = opts, Says(stack', heap', pos', recordI')
  PROVE  Says(stack, heap, pos, recordI)'
<1>1. PICK top : top = stack'[Len(stack')]
  OBVIOUS
<1>2. ASSUME top.rule = "csv" PROVE CsvSays(stack[Len(stack)].at, pos, recordI)'
  <2>1. CsvSays(top.at, pos', recordI')
    BY <1>1, <1>2 DEF Says
  <2>2. QED
    BY <1>1, <2>1, FixedPlaces DEF CsvSays
<1>3. ASSUME top.rule = "newline" PROVE NewlineSays(stack[Len(stack)].at, pos, recordI)'
  <2>1. NewlineSays(top.at, pos', recordI')
    BY <1>1, <1>3 DEF Says
  <2>2. QED
    BY <1>1, <2>1, FixedPlaces DEF NewlineSays, KindAt
<1>4. ASSUME top.rule = "record"
      PROVE  RecordSays(stack[Len(stack)].at, pos, recordI, heap[stack[Len(stack)].kid.a])'
  <2>1. RecordSays(top.at, pos', recordI', heap'[top.kid.a])
    BY <1>1, <1>4 DEF Says
  <2>2. QED
    BY <1>1, <2>1, FixedPlaces, FixedFields DEF RecordSays, InLine, LineDone, KindAt
<1>5. ASSUME top.rule = "list"
      PROVE  ListSays(stack[Len(stack)].at, pos, recordI, heap[stack[Len(stack)].node.a])'
  <2>1. ListSays(top.at, pos', recordI', heap'[top.node.a])
    BY <1>1, <1>5 DEF Says
  <2>2. QED
    BY <1>1, <2>1, FixedPlaces, FixedFields DEF ListSays, InLine, LineDone
<1>6. ASSUME top.rule = "elem"
      PROVE  ElemSays(stack[Len(stack)].at, pos, recordI, stack[Len(stack)], heap)'
  <2>1. ElemSays(top.at, pos', recordI', top, heap')
    BY <1>1, <1>6 DEF Says
  <2>2. CASE top.at = "open"
    BY <1>1, <2>1, <2>2, FixedPlaces, FixedFields DEF ElemSays, Pending, InField, InLine, KindAt
  <2>3. CASE top.at = "bc" /\ top.done
    BY <1>1, <2>1, <2>3, FixedPlaces, FixedFields, ZenonT(30) DEF ElemSays, InLine, CellRead, KindAt
  <2>4. CASE top.at = "bc" /\ ~top.done
    BY <1>1, <2>1, <2>4, FixedPlaces, FixedFields DEF ElemSays, InField, InLine, FieldRead, KindAt
  <2>5. CASE top.at = "close"
    BY <1>1, <2>1, <2>5, FixedPlaces, FixedFields, ZenonT(30) DEF ElemSays, InLine, CellRead, KindAt
  <2>6. CASE top.at \notin {"open", "bc", "close"}
    BY <1>1, <2>6 DEF ElemSays
  <2>7. QED
    BY <2>2, <2>3, <2>4, <2>5, <2>6
<1>7. ASSUME top.rule = "val"
      PROVE  (\E s, f \in 1 .. Len(src) :
                 /\ Pending(s, f, recordI, stack[4], heap)
                 /\ ValSays(stack[Len(stack)].at, pos, f, stack[Len(stack)]))'
  <2>1. \E s, f \in 1 .. Len(src) :
          Pending(s, f, recordI', stack'[4], heap') /\ ValSays(top.at, pos', f, top)
    BY <1>1, <1>7 DEF Says
  <2>2. CASE top.at \in {"bo", "open"}
    BY <1>1, <2>1, <2>2, FixedPlaces, FixedFields DEF Pending, InField, InLine, ValSays, KindAt
  <2>3. CASE top.at = "bc"
    BY <1>1, <2>1, <2>3, FixedPlaces, FixedFields DEF Pending, InField, InLine, ValSays, FieldRead, KindAt
  <2>4. CASE top.at = "close"
    BY <1>1, <2>1, <2>4, FixedPlaces, FixedFields DEF Pending, InField, InLine, ValSays, FieldRead, KindAt
  <2>5. CASE top.at \notin {"bo", "open", "bc", "close"}
    BY <1>1, <2>1, <2>5, FixedPlaces, FixedFields DEF Pending, InField, InLine, ValSays, KindAt
  <2>6. QED
    BY <2>2, <2>3, <2>4, <2>5
<1>8. ASSUME top.rule = "text"
      PROVE  (\E s, f \in 1 .. Len(src) :
                 /\ Pending(s, f, recordI, stack[4], heap)
                 /\ TextSays(stack[Len(stack)].at, pos, f, stack[Len(stack)], stack[5]))'
  <2>1. \E s, f \in 1 .. Len(src) :
          /\ Pending(s, f, recordI', stack'[4], heap')
          /\ TextSays(top.at, pos', f, top, stack'[5])
    BY <1>1, <1>8 DEF Says
  <2>2. CASE top.at = "open"
    BY <1>1, <2>1, <2>2, FixedPlaces, FixedFields DEF Pending, InField, InLine, TextSays, TextRead, KindAt
  <2>3. CASE top.at # "open"
    BY <1>1, <2>1, <2>3, FixedPlaces, FixedFields DEF Pending, InField, InLine, TextSays, FieldRead, KindAt
  <2>4. QED
    BY <2>2, <2>3
<1>9. QED
  BY <1>1, <1>2, <1>3, <1>4, <1>5, <1>6, <1>7, <1>8 DEF Says

-----------------------------------------------------------------------------
(* Which alternate is taken, for the tokens ahead.                         *)

LEMMA TokIs ==
  ASSUME SourceOK, pos \in Nat \ {0}
  PROVE  /\ Tok(1).k = KindAt(pos) /\ Tok(2).k = KindAt(pos + 1)
         /\ pos <= Len(src) => Tok(1) = src[pos]
         /\ pos + 1 <= Len(src) => Tok(2) = src[pos + 1]
         /\ KindAt(pos) \in Kind /\ KindAt(pos + 1) \in Kind
<1>1. Len(src) \in Nat
  BY SourceLen
<1>2. pos + 1 - 1 = pos /\ pos + 2 - 1 = pos + 1
  OBVIOUS
<1>3. KindAt(pos) \in Kind /\ KindAt(pos + 1) \in Kind
  BY KindIs
<1>4. EndOfSource.k = "ZZ"
  BY DEF EndOfSource
<1>5. Tok(1) = IF pos <= Len(src) THEN src[pos] ELSE EndOfSource
  BY <1>2 DEF Tok
<1>6. Tok(2) = IF pos + 1 <= Len(src) THEN src[pos + 1] ELSE EndOfSource
  BY <1>2 DEF Tok
<1>7. QED
  BY <1>1, <1>3, <1>4, <1>5, <1>6 DEF KindAt

LEMMA MatchIs ==
  ASSUME SourceOK, pos \in Nat \ {0}, NEW alt
  PROVE  /\ alt.s = <<>> => Matches(alt)
         /\ \A K : alt.s = <<K>> => (Matches(alt) <=> KindAt(pos) \in K)
         /\ \A K, L : alt.s = <<K, L>> =>
                        (Matches(alt) <=> KindAt(pos) \in K /\ KindAt(pos + 1) \in L)
<1>1. Tok(1).k = KindAt(pos) /\ Tok(2).k = KindAt(pos + 1)
  BY TokIs
<1>2. ASSUME NEW K, alt.s = <<K>> PROVE Matches(alt) <=> KindAt(pos) \in K
  <2>1. DOMAIN alt.s = {1} /\ alt.s[1] = K
    BY <1>2
  <2>2. QED
    BY <1>1, <2>1 DEF Matches
<1>3. ASSUME NEW K, NEW L, alt.s = <<K, L>>
      PROVE  Matches(alt) <=> KindAt(pos) \in K /\ KindAt(pos + 1) \in L
  <2>1. DOMAIN alt.s = {1, 2} /\ alt.s[1] = K /\ alt.s[2] = L
    BY <1>3
  <2>2. QED
    BY <1>1, <2>1 DEF Matches
<1>4. ASSUME alt.s = <<>> PROVE Matches(alt)
  BY <1>4 DEF Matches
<1>5. QED
  BY <1>2, <1>3, <1>4

\* What taking an alternate does: how many tokens it reads and gives back,
\* what it pushes, what it puts in the place of the running instance, and its
\* action.
Does(alt, l, b, p, r, a) ==
  /\ Len(alt.s) = l /\ alt.b = b /\ alt.p = p /\ alt.r = r /\ alt.a = a
  /\ alt.n = IF a \in TextActions THEN 1 ELSE 0

LEMMA Choose2 ==
  ASSUME NEW alts, Len(alts) = 2, DOMAIN alts = 1 .. Len(alts), NEW alt, Choose(alts, alt)
  PROVE  \/ alt = alts[1] /\ Matches(alts[1])
         \/ alt = alts[2] /\ Matches(alts[2]) /\ ~Matches(alts[1])
<1>1. PICK i \in 1 .. 2 : alt = alts[i] /\ Matches(alts[i]) /\ \A j \in 1 .. i - 1 : ~Matches(alts[j])
  BY DEF Choose, IsFirstMatch
<1>2. CASE i = 1
  BY <1>1, <1>2
<1>3. CASE i = 2
  <2>1. 1 \in 1 .. 2 - 1
    OBVIOUS
  <2>2. QED
    BY <1>1, <1>3, <2>1
<1>4. QED
  BY <1>2, <1>3

LEMMA Choose3 ==
  ASSUME NEW alts, Len(alts) = 3, DOMAIN alts = 1 .. Len(alts), NEW alt, Choose(alts, alt)
  PROVE  \/ alt = alts[1] /\ Matches(alts[1])
         \/ alt = alts[2] /\ Matches(alts[2]) /\ ~Matches(alts[1])
         \/ alt = alts[3] /\ Matches(alts[3]) /\ ~Matches(alts[1]) /\ ~Matches(alts[2])
<1>1. PICK i \in 1 .. 3 : alt = alts[i] /\ Matches(alts[i]) /\ \A j \in 1 .. i - 1 : ~Matches(alts[j])
  BY DEF Choose, IsFirstMatch
<1>2. CASE i = 1
  BY <1>1, <1>2
<1>3. CASE i = 2
  <2>1. 1 \in 1 .. 2 - 1
    OBVIOUS
  <2>2. QED
    BY <1>1, <1>3, <2>1
<1>4. CASE i = 3
  <2>1. 1 \in 1 .. 3 - 1 /\ 2 \in 1 .. 3 - 1
    OBVIOUS
  <2>2. QED
    BY <1>1, <1>4, <2>1
<1>5. QED
  BY <1>2, <1>3, <1>4

LEMMA Choose4 ==
  ASSUME NEW alts, Len(alts) = 4, DOMAIN alts = 1 .. Len(alts), NEW alt, Choose(alts, alt)
  PROVE  \/ alt = alts[1] /\ Matches(alts[1])
         \/ alt = alts[2] /\ Matches(alts[2]) /\ ~Matches(alts[1])
         \/ alt = alts[3] /\ Matches(alts[3]) /\ ~Matches(alts[1]) /\ ~Matches(alts[2])
         \/ alt = alts[4] /\ Matches(alts[4]) /\ ~Matches(alts[1]) /\ ~Matches(alts[2]) /\ ~Matches(alts[3])
<1>1. PICK i \in 1 .. 4 : alt = alts[i] /\ Matches(alts[i]) /\ \A j \in 1 .. i - 1 : ~Matches(alts[j])
  BY DEF Choose, IsFirstMatch
<1>2. CASE i = 1
  BY <1>1, <1>2
<1>3. CASE i = 2
  <2>1. 1 \in 1 .. 2 - 1
    OBVIOUS
  <2>2. QED
    BY <1>1, <1>3, <2>1
<1>4. CASE i = 3
  <2>1. 1 \in 1 .. 3 - 1 /\ 2 \in 1 .. 3 - 1
    OBVIOUS
  <2>2. QED
    BY <1>1, <1>4, <2>1
<1>5. CASE i = 4
  <2>1. 1 \in 1 .. 4 - 1 /\ 2 \in 1 .. 4 - 1 /\ 3 \in 1 .. 4 - 1
    OBVIOUS
  <2>2. QED
    BY <1>1, <1>5, <2>1
<1>6. QED
  BY <1>2, <1>3, <1>4, <1>5

LEMMA Choose5 ==
  ASSUME NEW alts, Len(alts) = 5, DOMAIN alts = 1 .. Len(alts), NEW alt, Choose(alts, alt)
  PROVE  \/ alt = alts[1] /\ Matches(alts[1])
         \/ alt = alts[2] /\ Matches(alts[2]) /\ ~Matches(alts[1])
         \/ alt = alts[3] /\ Matches(alts[3]) /\ ~Matches(alts[1]) /\ ~Matches(alts[2])
         \/ alt = alts[4] /\ Matches(alts[4]) /\ ~Matches(alts[1]) /\ ~Matches(alts[2]) /\ ~Matches(alts[3])
         \/ /\ alt = alts[5] /\ Matches(alts[5]) /\ ~Matches(alts[1]) /\ ~Matches(alts[2])
            /\ ~Matches(alts[3]) /\ ~Matches(alts[4])
<1>1. PICK i \in 1 .. 5 : alt = alts[i] /\ Matches(alts[i]) /\ \A j \in 1 .. i - 1 : ~Matches(alts[j])
  BY DEF Choose, IsFirstMatch
<1>2. CASE i = 1
  BY <1>1, <1>2
<1>3. CASE i = 2
  <2>1. 1 \in 1 .. 2 - 1
    OBVIOUS
  <2>2. QED
    BY <1>1, <1>3, <2>1
<1>4. CASE i = 3
  <2>1. 1 \in 1 .. 3 - 1 /\ 2 \in 1 .. 3 - 1
    OBVIOUS
  <2>2. QED
    BY <1>1, <1>4, <2>1
<1>5. CASE i = 4
  <2>1. 1 \in 1 .. 4 - 1 /\ 2 \in 1 .. 4 - 1 /\ 3 \in 1 .. 4 - 1
    OBVIOUS
  <2>2. QED
    BY <1>1, <1>5, <2>1
<1>6. CASE i = 5
  <2>1. 1 \in 1 .. 5 - 1 /\ 2 \in 1 .. 5 - 1 /\ 3 \in 1 .. 5 - 1 /\ 4 \in 1 .. 5 - 1
    OBVIOUS
  <2>2. QED
    BY <1>1, <1>6, <2>1
<1>7. QED
  BY <1>2, <1>3, <1>4, <1>5, <1>6

LEMMA CsvOpens ==
  ASSUME SourceOK, pos \in Nat \ {0}, NEW re \in BOOLEAN, NEW alt, Choose(CsvOpen(re), alt)
  PROVE  \/ KindAt(pos) = "ZZ" /\ Does(alt, 1, 0, "", "", "")
         \/ KindAt(pos) = "LN" /\ ~re /\ Does(alt, 1, 0, "newline", "", "")
         \/ KindAt(pos) # "ZZ" /\ (KindAt(pos) = "LN" => re) /\ Does(alt, 0, 0, "record", "", "")
<1>1. PICK x : x = Alt(<<{"ZZ"}>>, 0)
  OBVIOUS
<1>2. PICK y : y = Push(Alt(<<{"LN"}>>, 0), "newline")
  OBVIOUS
<1>3. PICK z : z = Push(Otherwise, "record")
  OBVIOUS
<1>4. /\ Matches(x) <=> KindAt(pos) \in {"ZZ"}
      /\ Matches(y) <=> KindAt(pos) \in {"LN"}
  <2>1. x.s = <<{"ZZ"}>> /\ y.s = <<{"LN"}>>
    BY <1>1, <1>2 DEF Alt, Push
  <2>2. QED
    BY <2>1, MatchIs
<1>5. Does(x, 1, 0, "", "", "")
  BY <1>1 DEF Does, Alt, TextActions
<1>6. Does(y, 1, 0, "newline", "", "")
  BY <1>2 DEF Does, Alt, Push, TextActions
<1>7. Does(z, 0, 0, "record", "", "")
  BY <1>3 DEF Does, Alt, Push, Otherwise, TextActions
<1>8. PICK alts : alts = CsvOpen(re) /\ Choose(alts, alt)
  OBVIOUS
<1>9. CASE re
  <2>1. Len(alts) = 2 /\ DOMAIN alts = 1 .. Len(alts) /\ alts[1] = x /\ alts[2] = z
    BY <1>1, <1>3, <1>8, <1>9 DEF CsvOpen
  <2>2. QED
    BY <1>4, <1>5, <1>7, <1>8, <1>9, <2>1, Choose2
<1>10. CASE ~re
  <2>1. Len(alts) = 3 /\ DOMAIN alts = 1 .. Len(alts) /\ alts[1] = x /\ alts[2] = y /\ alts[3] = z
    BY <1>1, <1>2, <1>3, <1>8, <1>10 DEF CsvOpen
  <2>2. QED
    BY <1>4, <1>5, <1>6, <1>7, <1>8, <1>10, <2>1, Choose3
<1>11. QED
  BY <1>9, <1>10

LEMMA NewlineOpens ==
  ASSUME SourceOK, pos \in Nat \ {0}, NEW alt, Choose(NewlineOpen, alt)
  PROVE  \/ /\ KindAt(pos) = "LN" /\ KindAt(pos + 1) = "LN"
            /\ Does(alt, 2, 0, "", "newline", "")
         \/ /\ ~(KindAt(pos) = "LN" /\ KindAt(pos + 1) = "LN")
            /\ KindAt(pos) = "LN"
            /\ Does(alt, 1, 0, "", "newline", "")
         \/ /\ ~(KindAt(pos) = "LN" /\ KindAt(pos + 1) = "LN")
            /\ KindAt(pos) # "LN"
            /\ KindAt(pos) = "ZZ"
            /\ Does(alt, 1, 0, "", "", "")
         \/ /\ ~(KindAt(pos) = "LN" /\ KindAt(pos + 1) = "LN")
            /\ KindAt(pos) # "LN"
            /\ KindAt(pos) # "ZZ"
            /\ Does(alt, 0, 0, "", "record", "")
<1>1. PICK x : x = Swap(Alt(<<{"LN"}, {"LN"}>>, 0), "newline")
  OBVIOUS
<1>2. PICK y : y = Swap(Alt(<<{"LN"}>>, 0), "newline")
  OBVIOUS
<1>3. PICK z : z = Alt(<<{"ZZ"}>>, 0)
  OBVIOUS
<1>4. PICK u : u = Swap(Otherwise, "record")
  OBVIOUS
<1>5. Does(x, 2, 0, "", "newline", "") /\ x.s = <<{"LN"}, {"LN"}>>
  BY <1>1 DEF Does, TextActions, Alt, Swap
<1>6. Does(y, 1, 0, "", "newline", "") /\ y.s = <<{"LN"}>>
  BY <1>2 DEF Does, TextActions, Alt, Swap
<1>7. Does(z, 1, 0, "", "", "") /\ z.s = <<{"ZZ"}>>
  BY <1>3 DEF Does, TextActions, Alt
<1>8. Does(u, 0, 0, "", "record", "") /\ u.s = <<>>
  BY <1>4 DEF Does, TextActions, Alt, Swap, Otherwise
<1>9. /\ Matches(x) <=> KindAt(pos) \in {"LN"} /\ KindAt(pos + 1) \in {"LN"}
      /\ Matches(y) <=> KindAt(pos) \in {"LN"}
      /\ Matches(z) <=> KindAt(pos) \in {"ZZ"}
  BY <1>5, <1>6, <1>7, <1>8, MatchIs
<1>10. PICK alts : alts = NewlineOpen /\ Choose(alts, alt)
  OBVIOUS
<1>11. Len(alts) = 4 /\ DOMAIN alts = 1 .. Len(alts) /\ alts[1] = x /\ alts[2] = y /\ alts[3] = z /\ alts[4] = u
  BY <1>1, <1>2, <1>3, <1>4, <1>10 DEF NewlineOpen
<1>12. QED
  BY <1>5, <1>6, <1>7, <1>8, <1>9, <1>10, <1>11, Choose4

LEMMA RecordCloses ==
  ASSUME SourceOK, pos \in Nat \ {0}, NEW re \in BOOLEAN, NEW alt, Choose(RecordClose(re), alt)
  PROVE  \/ /\ KindAt(pos) = "ZZ"
            /\ Does(alt, 1, 0, "", "", "")
         \/ /\ KindAt(pos) # "ZZ"
            /\ KindAt(pos) = "LN" /\ KindAt(pos + 1) = "ZZ"
            /\ Does(alt, 2, 1, "", "", "")
         \/ /\ KindAt(pos) # "ZZ"
            /\ ~(KindAt(pos) = "LN" /\ KindAt(pos + 1) = "ZZ")
            /\ KindAt(pos) = "LN"
            /\ Does(alt, 1, 0, "", RecordCloseNext(re), "")
<1>1. PICK x : x = Alt(<<{"ZZ"}>>, 0)
  OBVIOUS
<1>2. PICK y : y = Alt(<<{"LN"}, {"ZZ"}>>, 1)
  OBVIOUS
<1>3. PICK z : z = Swap(Alt(<<{"LN"}>>, 0), RecordCloseNext(re))
  OBVIOUS
<1>4. Does(x, 1, 0, "", "", "") /\ x.s = <<{"ZZ"}>>
  BY <1>1 DEF Does, TextActions, Alt
<1>5. Does(y, 2, 1, "", "", "") /\ y.s = <<{"LN"}, {"ZZ"}>>
  BY <1>2 DEF Does, TextActions, Alt
<1>6. Does(z, 1, 0, "", RecordCloseNext(re), "") /\ z.s = <<{"LN"}>>
  BY <1>3 DEF Does, TextActions, Alt, Swap
<1>7. /\ Matches(x) <=> KindAt(pos) \in {"ZZ"}
      /\ Matches(y) <=> KindAt(pos) \in {"LN"} /\ KindAt(pos + 1) \in {"ZZ"}
      /\ Matches(z) <=> KindAt(pos) \in {"LN"}
  BY <1>4, <1>5, <1>6, MatchIs
<1>8. PICK alts : alts = RecordClose(re) /\ Choose(alts, alt)
  OBVIOUS
<1>9. Len(alts) = 3 /\ DOMAIN alts = 1 .. Len(alts) /\ alts[1] = x /\ alts[2] = y /\ alts[3] = z
  BY <1>1, <1>2, <1>3, <1>8 DEF RecordClose
<1>10. QED
  BY <1>4, <1>5, <1>6, <1>7, <1>8, <1>9, Choose3

LEMMA ListOpens ==
  ASSUME SourceOK, pos \in Nat \ {0}, NEW alt, Choose(ListOpen, alt)
  PROVE  \/ /\ KindAt(pos) = "LN"
            /\ Does(alt, 1, 1, "", "", "")
         \/ /\ KindAt(pos) # "LN"
            /\ Does(alt, 0, 0, "elem", "", "")
<1>1. PICK x : x = Alt(<<{"LN"}>>, 1)
  OBVIOUS
<1>2. PICK y : y = Push(Otherwise, "elem")
  OBVIOUS
<1>3. Does(x, 1, 1, "", "", "") /\ x.s = <<{"LN"}>>
  BY <1>1 DEF Does, TextActions, Alt
<1>4. Does(y, 0, 0, "elem", "", "") /\ y.s = <<>>
  BY <1>2 DEF Does, TextActions, Alt, Push, Otherwise
<1>5. /\ Matches(x) <=> KindAt(pos) \in {"LN"}
  BY <1>3, <1>4, MatchIs
<1>6. PICK alts : alts = ListOpen /\ Choose(alts, alt)
  OBVIOUS
<1>7. Len(alts) = 2 /\ DOMAIN alts = 1 .. Len(alts) /\ alts[1] = x /\ alts[2] = y
  BY <1>1, <1>2, <1>6 DEF ListOpen
<1>8. QED
  BY <1>3, <1>4, <1>5, <1>6, <1>7, Choose2

LEMMA ListCloses ==
  ASSUME SourceOK, pos \in Nat \ {0}, NEW alt, Choose(ListClose, alt)
  PROVE  \/ /\ KindAt(pos) = "LN"
            /\ Does(alt, 1, 1, "", "", "")
         \/ /\ KindAt(pos) # "LN"
            /\ KindAt(pos) = "ZZ"
            /\ Does(alt, 1, 0, "", "", "")
<1>1. PICK x : x = Alt(<<{"LN"}>>, 1)
  OBVIOUS
<1>2. PICK y : y = Alt(<<{"ZZ"}>>, 0)
  OBVIOUS
<1>3. Does(x, 1, 1, "", "", "") /\ x.s = <<{"LN"}>>
  BY <1>1 DEF Does, TextActions, Alt
<1>4. Does(y, 1, 0, "", "", "") /\ y.s = <<{"ZZ"}>>
  BY <1>2 DEF Does, TextActions, Alt
<1>5. /\ Matches(x) <=> KindAt(pos) \in {"LN"}
      /\ Matches(y) <=> KindAt(pos) \in {"ZZ"}
  BY <1>3, <1>4, MatchIs
<1>6. PICK alts : alts = ListClose /\ Choose(alts, alt)
  OBVIOUS
<1>7. Len(alts) = 2 /\ DOMAIN alts = 1 .. Len(alts) /\ alts[1] = x /\ alts[2] = y
  BY <1>1, <1>2, <1>6 DEF ListClose
<1>8. QED
  BY <1>3, <1>4, <1>5, <1>6, <1>7, Choose2

LEMMA ElemOpens ==
  ASSUME SourceOK, pos \in Nat \ {0}, NEW alt, Choose(ElemOpen, alt)
  PROVE  \/ /\ KindAt(pos) = "CA"
            /\ Does(alt, 1, 1, "", "", "elem-open-empty")
         \/ /\ KindAt(pos) # "CA"
            /\ Does(alt, 0, 0, "val", "", "")
<1>1. PICK x : x = Do(Alt(<<{"CA"}>>, 1), "elem-open-empty")
  OBVIOUS
<1>2. PICK y : y = Push(Otherwise, "val")
  OBVIOUS
<1>3. Does(x, 1, 1, "", "", "elem-open-empty") /\ x.s = <<{"CA"}>>
  BY <1>1 DEF Does, TextActions, Alt, Do
<1>4. Does(y, 0, 0, "val", "", "") /\ y.s = <<>>
  BY <1>2 DEF Does, TextActions, Alt, Push, Otherwise
<1>5. /\ Matches(x) <=> KindAt(pos) \in {"CA"}
  BY <1>3, <1>4, MatchIs
<1>6. PICK alts : alts = ElemOpen /\ Choose(alts, alt)
  OBVIOUS
<1>7. Len(alts) = 2 /\ DOMAIN alts = 1 .. Len(alts) /\ alts[1] = x /\ alts[2] = y
  BY <1>1, <1>2, <1>6 DEF ElemOpen
<1>8. QED
  BY <1>3, <1>4, <1>5, <1>6, <1>7, Choose2

LEMMA ElemCloses ==
  ASSUME SourceOK, pos \in Nat \ {0}, NEW alt, Choose(ElemClose, alt)
  PROVE  \/ /\ KindAt(pos) = "CA" /\ KindAt(pos + 1) \in {"LN", "ZZ"}
            /\ Does(alt, 2, 1, "", "", "elem-close-trailing")
         \/ /\ ~(KindAt(pos) = "CA" /\ KindAt(pos + 1) \in {"LN", "ZZ"})
            /\ KindAt(pos) = "CA"
            /\ Does(alt, 1, 0, "", "elem", "")
         \/ /\ ~(KindAt(pos) = "CA" /\ KindAt(pos + 1) \in {"LN", "ZZ"})
            /\ KindAt(pos) # "CA"
            /\ KindAt(pos) = "LN"
            /\ Does(alt, 1, 1, "", "", "")
         \/ /\ ~(KindAt(pos) = "CA" /\ KindAt(pos + 1) \in {"LN", "ZZ"})
            /\ KindAt(pos) # "CA"
            /\ KindAt(pos) # "LN"
            /\ KindAt(pos) = "ZZ"
            /\ Does(alt, 1, 0, "", "", "")
<1>1. PICK x : x = Do(Alt(<<{"CA"}, {"LN", "ZZ"}>>, 1), "elem-close-trailing")
  OBVIOUS
<1>2. PICK y : y = Swap(Alt(<<{"CA"}>>, 0), "elem")
  OBVIOUS
<1>3. PICK z : z = Alt(<<{"LN"}>>, 1)
  OBVIOUS
<1>4. PICK u : u = Alt(<<{"ZZ"}>>, 0)
  OBVIOUS
<1>5. Does(x, 2, 1, "", "", "elem-close-trailing") /\ x.s = <<{"CA"}, {"LN", "ZZ"}>>
  BY <1>1 DEF Does, TextActions, Alt, Do
<1>6. Does(y, 1, 0, "", "elem", "") /\ y.s = <<{"CA"}>>
  BY <1>2 DEF Does, TextActions, Alt, Swap
<1>7. Does(z, 1, 1, "", "", "") /\ z.s = <<{"LN"}>>
  BY <1>3 DEF Does, TextActions, Alt
<1>8. Does(u, 1, 0, "", "", "") /\ u.s = <<{"ZZ"}>>
  BY <1>4 DEF Does, TextActions, Alt
<1>9. /\ Matches(x) <=> KindAt(pos) \in {"CA"} /\ KindAt(pos + 1) \in {"LN", "ZZ"}
      /\ Matches(y) <=> KindAt(pos) \in {"CA"}
      /\ Matches(z) <=> KindAt(pos) \in {"LN"}
      /\ Matches(u) <=> KindAt(pos) \in {"ZZ"}
  BY <1>5, <1>6, <1>7, <1>8, MatchIs
<1>10. PICK alts : alts = ElemClose /\ Choose(alts, alt)
  OBVIOUS
<1>11. Len(alts) = 4 /\ DOMAIN alts = 1 .. Len(alts) /\ alts[1] = x /\ alts[2] = y /\ alts[3] = z /\ alts[4] = u
  BY <1>1, <1>2, <1>3, <1>4, <1>10 DEF ElemClose
<1>12. QED
  BY <1>5, <1>6, <1>7, <1>8, <1>9, <1>10, <1>11, Choose4

LEMMA ValOpens ==
  ASSUME SourceOK, pos \in Nat \ {0}, NEW alt, Choose(ValOpen, alt)
  PROVE  \/ /\ KindAt(pos) \in VAL /\ KindAt(pos + 1) = "SP"
            /\ Does(alt, 2, 2, "text", "", "")
         \/ /\ ~(KindAt(pos) \in VAL /\ KindAt(pos + 1) = "SP")
            /\ KindAt(pos) = "SP"
            /\ Does(alt, 1, 1, "text", "", "")
         \/ /\ ~(KindAt(pos) \in VAL /\ KindAt(pos + 1) = "SP")
            /\ KindAt(pos) # "SP"
            /\ KindAt(pos) \in VAL
            /\ Does(alt, 1, 0, "", "", "")
         \/ /\ ~(KindAt(pos) \in VAL /\ KindAt(pos + 1) = "SP")
            /\ KindAt(pos) # "SP"
            /\ ~(KindAt(pos) \in VAL)
            /\ KindAt(pos) = "LN"
            /\ Does(alt, 1, 1, "", "", "")
<1>1. PICK x : x = Push(Alt(<<VAL, {"SP"}>>, 2), "text")
  OBVIOUS
<1>2. PICK y : y = Push(Alt(<<{"SP"}>>, 1), "text")
  OBVIOUS
<1>3. PICK z : z = Alt(<<VAL>>, 0)
  OBVIOUS
<1>4. PICK u : u = Alt(<<{"LN"}>>, 1)
  OBVIOUS
<1>5. Does(x, 2, 2, "text", "", "") /\ x.s = <<VAL, {"SP"}>>
  BY <1>1 DEF Does, TextActions, Alt, Push
<1>6. Does(y, 1, 1, "text", "", "") /\ y.s = <<{"SP"}>>
  BY <1>2 DEF Does, TextActions, Alt, Push
<1>7. Does(z, 1, 0, "", "", "") /\ z.s = <<VAL>>
  BY <1>3 DEF Does, TextActions, Alt
<1>8. Does(u, 1, 1, "", "", "") /\ u.s = <<{"LN"}>>
  BY <1>4 DEF Does, TextActions, Alt
<1>9. /\ Matches(x) <=> KindAt(pos) \in VAL /\ KindAt(pos + 1) \in {"SP"}
      /\ Matches(y) <=> KindAt(pos) \in {"SP"}
      /\ Matches(z) <=> KindAt(pos) \in VAL
      /\ Matches(u) <=> KindAt(pos) \in {"LN"}
  BY <1>5, <1>6, <1>7, <1>8, MatchIs
<1>10. PICK alts : alts = ValOpen /\ Choose(alts, alt)
  OBVIOUS
<1>11. Len(alts) = 4 /\ DOMAIN alts = 1 .. Len(alts) /\ alts[1] = x /\ alts[2] = y /\ alts[3] = z /\ alts[4] = u
  BY <1>1, <1>2, <1>3, <1>4, <1>10 DEF ValOpen
<1>12. QED
  BY <1>5, <1>6, <1>7, <1>8, <1>9, <1>10, <1>11, Choose4

LEMMA TextOpens ==
  ASSUME SourceOK, pos \in Nat \ {0}, NEW alt, Choose(TextOpen, alt)
  PROVE  \/ /\ KindAt(pos) \in VAL /\ KindAt(pos + 1) = "SP"
            /\ Does(alt, 2, 1, "", "text", "text-follows")
         \/ /\ ~(KindAt(pos) \in VAL /\ KindAt(pos + 1) = "SP")
            /\ KindAt(pos) = "SP" /\ KindAt(pos + 1) \in VAL
            /\ Does(alt, 2, 0, "", "text", "text-leads")
         \/ /\ ~(KindAt(pos) \in VAL /\ KindAt(pos + 1) = "SP")
            /\ ~(KindAt(pos) = "SP" /\ KindAt(pos + 1) \in VAL)
            /\ KindAt(pos) = "SP" /\ KindAt(pos + 1) \in {"CA", "LN", "ZZ"}
            /\ Does(alt, 2, 1, "", "", "text-end")
         \/ /\ ~(KindAt(pos) \in VAL /\ KindAt(pos + 1) = "SP")
            /\ ~(KindAt(pos) = "SP" /\ KindAt(pos + 1) \in VAL)
            /\ ~(KindAt(pos) = "SP" /\ KindAt(pos + 1) \in {"CA", "LN", "ZZ"})
            /\ KindAt(pos) = "SP"
            /\ Does(alt, 1, 0, "", "", "text-space")
         \/ /\ ~(KindAt(pos) \in VAL /\ KindAt(pos + 1) = "SP")
            /\ ~(KindAt(pos) = "SP" /\ KindAt(pos + 1) \in VAL)
            /\ ~(KindAt(pos) = "SP" /\ KindAt(pos + 1) \in {"CA", "LN", "ZZ"})
            /\ KindAt(pos) # "SP"
            /\ Does(alt, 0, 0, "", "", "")
<1>1. PICK x : x = Swap(Do(Count(Alt(<<VAL, {"SP"}>>, 1)), "text-follows"), "text")
  OBVIOUS
<1>2. PICK y : y = Swap(Do(Count(Alt(<<{"SP"}, VAL>>, 0)), "text-leads"), "text")
  OBVIOUS
<1>3. PICK z : z = Do(Count(Alt(<<{"SP"}, {"CA", "LN", "ZZ"}>>, 1)), "text-end")
  OBVIOUS
<1>4. PICK u : u = Do(Count(Alt(<<{"SP"}>>, 0)), "text-space")
  OBVIOUS
<1>5. PICK v : v = Otherwise
  OBVIOUS
<1>6. Does(x, 2, 1, "", "text", "text-follows") /\ x.s = <<VAL, {"SP"}>>
  BY <1>1 DEF Does, TextActions, Alt, Swap, Do, Count
<1>7. Does(y, 2, 0, "", "text", "text-leads") /\ y.s = <<{"SP"}, VAL>>
  BY <1>2 DEF Does, TextActions, Alt, Swap, Do, Count
<1>8. Does(z, 2, 1, "", "", "text-end") /\ z.s = <<{"SP"}, {"CA", "LN", "ZZ"}>>
  BY <1>3 DEF Does, TextActions, Alt, Do, Count
<1>9. Does(u, 1, 0, "", "", "text-space") /\ u.s = <<{"SP"}>>
  BY <1>4 DEF Does, TextActions, Alt, Do, Count
<1>10. Does(v, 0, 0, "", "", "") /\ v.s = <<>>
  BY <1>5 DEF Does, TextActions, Alt, Otherwise
<1>11. Matches(x) <=> KindAt(pos) \in VAL /\ KindAt(pos + 1) \in {"SP"}
  BY <1>6, MatchIs
<1>12. Matches(y) <=> KindAt(pos) \in {"SP"} /\ KindAt(pos + 1) \in VAL
  BY <1>7, MatchIs
<1>13. Matches(z) <=> KindAt(pos) \in {"SP"} /\ KindAt(pos + 1) \in {"CA", "LN", "ZZ"}
  BY <1>8, MatchIs
<1>14. Matches(u) <=> KindAt(pos) \in {"SP"}
  BY <1>9, MatchIs
<1>15. PICK alts : alts = TextOpen /\ Choose(alts, alt)
  OBVIOUS
<1>16. Len(alts) = 5 /\ DOMAIN alts = 1 .. Len(alts)
  BY <1>15 DEF TextOpen
<1>17. alts[1] = x /\ alts[2] = y /\ alts[3] = z /\ alts[4] = u /\ alts[5] = v
  BY <1>1, <1>2, <1>3, <1>4, <1>5, <1>15 DEF TextOpen
<1>18. \/ alt = x /\ Matches(x)
       \/ alt = y /\ Matches(y) /\ ~Matches(x)
       \/ alt = z /\ Matches(z) /\ ~Matches(x) /\ ~Matches(y)
       \/ alt = u /\ Matches(u) /\ ~Matches(x) /\ ~Matches(y) /\ ~Matches(z)
       \/ alt = v /\ ~Matches(x) /\ ~Matches(y) /\ ~Matches(z) /\ ~Matches(u)
  BY <1>15, <1>16, <1>17, Choose5
<1>19. QED
  BY <1>6, <1>7, <1>8, <1>9, <1>10, <1>11, <1>12, <1>13, <1>14, <1>18

-----------------------------------------------------------------------------
(* What taking it does to the stack.                                       *)

LEMMA ActedIs ==
  ASSUME Inv, Top.at # "bo", NEW alt, AltOK(Top.rule, alt)
  PROVE  /\ Acted(alt) \in Frame /\ Acted(alt).rule = Top.rule
         /\ Acted(alt).kid = Top.kid /\ Acted(alt).pushed = Top.pushed
         /\ Acted(alt).n = Top.n + alt.n /\ Acted(alt).n \in Nat
         /\ Acted(alt).done <=> Top.done \/ alt.a = "elem-open-empty"
         /\ Acted(alt).o0 = IF alt.s = <<>> THEN NoToken ELSE Tok(1)
         /\ Acted(alt).node = IF alt.a \in TextActions THEN JoinedText(alt.a, Top.n + alt.n)
                                                       ELSE Top.node
<1> DEFINE count == Top.n + alt.n
           first == IF alt.s = <<>> THEN NoToken ELSE Tok(1)
           closed == Top.done \/ alt.a = "elem-open-empty"
           held == IF alt.a \in TextActions THEN JoinedText(alt.a, count) ELSE Top.node
<1>1. Acted(alt) \in Frame /\ Top \in Frame
  BY ActedType, TopType
<1>2. Acted(alt) = [Top EXCEPT !.n = count, !.o0 = first, !.done = closed, !.node = held]
  BY DEF Acted
<1>3. Top = [rule |-> Top.rule, at |-> Top.at, node |-> Top.node, kid |-> Top.kid, n |-> Top.n,
             done |-> Top.done, o0 |-> Top.o0, pushed |-> Top.pushed]
  BY <1>1 DEF Frame
<1> HIDE DEF count, first, closed, held
<1>4. /\ Acted(alt).rule = Top.rule /\ Acted(alt).kid = Top.kid /\ Acted(alt).pushed = Top.pushed
      /\ Acted(alt).n = count /\ Acted(alt).o0 = first /\ Acted(alt).node = held
      /\ Acted(alt).done = closed
  BY <1>2, <1>3
<1>5. Acted(alt).n \in Nat
  BY <1>1 DEF Frame
<1>6. QED
  BY <1>1, <1>4, <1>5 DEF count, first, closed, held

\* An instance that differs from another in what it sees of its child only.
SameBut(new, old) ==
  /\ new.rule = old.rule /\ new.at = old.at /\ new.node = old.node
  /\ new.done = old.done /\ new.pushed = old.pushed

\* The stack an alternate leaves below the instance that takes it.
BelowKept(stk) ==
  /\ \A i \in 1 .. Depth - 2 : stk[i] = stack[i]
  /\ Depth > 1 => SameBut(stk[Depth - 1], stack[Depth - 1])

KidSees(stk, node) == Depth > 1 /\ Top.pushed => stk[Depth - 1].kid = node

LEMMA SeenIs ==
  ASSUME Inv, Top.at # "bo", NEW alt, AltOK(Top.rule, alt), NEW left \in BOOLEAN
  PROVE  /\ Seen(alt, left) \in Seq(Frame) /\ Len(Seen(alt, left)) = Depth
         /\ BelowKept(Seen(alt, left))
         /\ left => KidSees(Seen(alt, left), Acted(alt).node)
         /\ ~left /\ alt.a \notin TextActions => Seen(alt, left) = stack
<1>1. /\ Depth \in Nat \ {0} /\ Depth = Len(stack) /\ stack \in Seq(Frame)
      /\ \A i \in 1 .. Depth : stack[i] \in Frame
  BY TopType DEF Inv, ShapeOf, Depth
<1>2. Seen(alt, left) \in Seq(Frame) /\ Len(Seen(alt, left)) = Depth
  BY SeenType DEF ShapeOf
<1>3. Acted(alt).pushed = Top.pushed /\ Acted(alt).node \in Node
  BY ActedIs DEF Frame
<1>4. CASE Seen(alt, left) = stack /\ ~(Depth > 1 /\ left /\ Top.pushed)
  BY <1>1, <1>2, <1>4 DEF BelowKept, SameBut, KidSees
<1>5. CASE /\ Depth > 1 /\ Seen(alt, left) = [stack EXCEPT ![Depth - 1].kid = Acted(alt).node]
           /\ left \/ alt.a \in TextActions
  <2>1. PICK d \in 1 .. Depth : d = Depth - 1
    BY <1>1, <1>5
  <2>2. PICK node : node = Acted(alt).node
    OBVIOUS
  <2>3. PICK f \in Frame : f = stack[d]
    BY <1>1
  <2>4. PICK below : below = [f EXCEPT !.kid = node]
    OBVIOUS
  <2>5. Seen(alt, left) = [stack EXCEPT ![d] = below]
    BY <1>5, <2>1, <2>2, <2>3, <2>4
  <2>6. \A i \in 1 .. Depth : Seen(alt, left)[i] = IF i = d THEN below ELSE stack[i]
    <3>1. below \in Frame
      BY <1>3, <2>2, <2>4 DEF Frame
    <3>2. QED
      BY <1>1, <2>1, <2>5, <3>1, ExceptSeq
  <2>7. SameBut(below, f) /\ below.kid = node
    BY <2>4 DEF Frame, SameBut
  <2>8. Seen(alt, left)[Depth - 1] = below /\ stack[Depth - 1] = f
    BY <1>1, <2>1, <2>3, <2>6
  <2>9. \A i \in 1 .. Depth - 2 : Seen(alt, left)[i] = stack[i]
    BY <1>1, <2>1, <2>6
  <2>10. QED
    BY <1>2, <1>5, <2>2, <2>7, <2>8, <2>9 DEF BelowKept, KidSees
<1>6. QED
  BY <1>3, <1>4, <1>5 DEF Seen

LEMMA NewFrameType ==
  ASSUME NEW rule \in Rules, NEW node \in Node, NEW n \in Nat, NEW pushed \in BOOLEAN
  PROVE  NewFrame(rule, node, n, pushed) \in Frame
<1>1. NoToken \in Token
  BY DEF NoToken, EndOfSource, Token, Kind, Texts
<1>2. Undef \in Node /\ FirstPhase(rule) \in Phase
  BY DEF Node, FirstPhase, Phase
<1>3. QED
  BY <1>1, <1>2 DEF NewFrame, Frame

\* What is left as it was, and the tokens that were read.
Reads(alt) ==
  /\ pos' = pos + Len(alt.s) - alt.b
  /\ heap' = HeapAfter(alt)
  /\ src' = src /\ opts' = opts /\ fields' = fields /\ recordI' = recordI
  /\ outcome' = outcome /\ events' = events

Pushes(alt) ==
  /\ Reads(alt) /\ heap' = heap
  /\ Len(stack') = Depth + 1
  /\ \A i \in 1 .. Depth - 1 : stack'[i] = stack[i]
  /\ stack'[Depth].at = AfterOpen(Top.rule)
  /\ stack'[Depth].rule = Top.rule /\ stack'[Depth].node = Top.node
  /\ stack'[Depth].kid = Top.kid /\ (stack'[Depth].done <=> Top.done)
  /\ stack'[Depth].pushed = Top.pushed
  /\ stack'[Depth + 1] = NewFrame(alt.p, Top.node, Top.n, TRUE)

Swapped(alt) ==
  /\ Reads(alt)
  /\ Len(stack') = Depth /\ BelowKept(stack') /\ KidSees(stack', Acted(alt).node)
  /\ stack'[Depth] = NewFrame(alt.r, Acted(alt).node, Acted(alt).n, FALSE)

Stayed(alt) ==
  /\ Reads(alt)
  /\ Len(stack') = Depth /\ BelowKept(stack')
  /\ stack'[Depth] = [Acted(alt) EXCEPT !.at = AfterOpen(Top.rule)]
  /\ alt.a \notin TextActions => \A i \in 1 .. Depth - 1 : stack'[i] = stack[i]

Pops(alt) ==
  /\ Reads(alt)
  /\ Len(stack') = Depth - 1 /\ BelowKept(stack') /\ KidSees(stack', Acted(alt).node)

LEMMA PushedIs ==
  ASSUME Inv, OpenPush
  PROVE  \E alt \in AltsOf(TopOpenAlts) :
           Choose(TopOpenAlts, alt) /\ alt.p # "" /\ AltOK(Top.rule, alt) /\ Pushes(alt)
<1>1. PICK alt \in AltsOf(TopOpenAlts) :
        /\ Choose(TopOpenAlts, alt) /\ alt.p # "" /\ Take(alt)
        /\ stack' = Append([Seen(alt, FALSE) EXCEPT
                              ![Depth] = [Acted(alt) EXCEPT !.at = AfterOpen(Top.rule)]],
                           NewFrame(alt.p, Acted(alt).node, Acted(alt).n, TRUE))
  BY DEF OpenPush
<1>2. AltOK(Top.rule, alt) /\ Top.at # "bo"
  BY OpenAltOK DEF OpenPush, Running
<1>3. /\ alt.p \in Rules /\ alt.a = "" /\ alt.n = 0 /\ alt.a \notin TextActions
      /\ alt.a \notin EmptyActions
  BY <1>1, <1>2 DEF AltOK, TextActions, EmptyActions
<1>4. /\ Depth \in Nat \ {0} /\ Depth = Len(stack) /\ stack \in Seq(Frame)
      /\ \A i \in 1 .. Depth : stack[i] \in Frame
  BY TopType DEF Inv, ShapeOf, Depth
<1>5. Seen(alt, FALSE) = stack
  BY <1>2, <1>3, SeenIs
<1>6. PICK f : f = [Acted(alt) EXCEPT !.at = AfterOpen(Top.rule)]
  OBVIOUS
<1>7. PICK g : g = NewFrame(alt.p, Top.node, Top.n, TRUE)
  OBVIOUS
<1>8. /\ Acted(alt) \in Frame /\ Acted(alt).rule = Top.rule
      /\ Acted(alt).kid = Top.kid /\ Acted(alt).pushed = Top.pushed
      /\ Acted(alt).n = Top.n + alt.n
      /\ Acted(alt).done <=> Top.done \/ alt.a = "elem-open-empty"
      /\ Acted(alt).node = Top.node /\ Top \in Frame
  BY <1>2, <1>3, ActedIs, TopType
<1>9. Acted(alt).n = Top.n /\ (Acted(alt).done <=> Top.done)
  <2>1. Top.n \in Nat /\ Top.n + 0 = Top.n
    BY <1>8 DEF Frame
  <2>2. Acted(alt).n = Top.n
    BY <1>3, <1>8, <2>1
  <2>3. alt.a # "elem-open-empty"
    BY <1>3
  <2>4. QED
    BY <1>8, <2>2, <2>3
<1>10. /\ f \in Frame /\ f.at = AfterOpen(Top.rule) /\ f.rule = Top.rule /\ f.node = Top.node
       /\ f.kid = Top.kid /\ (f.done <=> Top.done) /\ f.pushed = Top.pushed
  BY <1>6, <1>8, <1>9 DEF Frame, Phase, AfterOpen
<1>11. g \in Frame
  <2>1. Top.node \in Node /\ Top.n \in Nat
    BY <1>8 DEF Frame
  <2>2. QED
    BY <1>3, <1>7, <2>1, NewFrameType
<1>12. PICK s : s = [stack EXCEPT ![Depth] = f] /\ stack' = Append(s, g)
  BY <1>1, <1>5, <1>6, <1>7, <1>8, <1>9
<1>13. s \in Seq(Frame) /\ Len(s) = Depth /\ \A i \in 1 .. Depth : s[i] = IF i = Depth THEN f ELSE stack[i]
  BY <1>4, <1>10, <1>12, ExceptSeq
<1>14. /\ Len(stack') = Depth + 1 /\ stack'[Depth + 1] = g
       /\ \A i \in 1 .. Depth : stack'[i] = s[i]
  BY <1>4, <1>11, <1>12, <1>13, AppendProperties
<1>15. stack'[Depth] = f /\ \A i \in 1 .. Depth - 1 : stack'[i] = stack[i]
  BY <1>4, <1>13, <1>14
<1>16. Reads(alt) /\ heap' = heap
  BY <1>1, <1>3 DEF Take, Consumed, HeapAfter, OpenPush, Reads
<1>17. Pushes(alt)
  BY <1>7, <1>10, <1>14, <1>15, <1>16 DEF Pushes
<1>18. QED
  BY <1>1, <1>2, <1>17

\* The last instance of s is replaced by g, or taken off.
IsTopSet(s, d, g, t) ==
  Len(t) = d /\ t[d] = g /\ \A i \in 1 .. d - 1 : t[i] = s[i]

LEMMA TopReplaced ==
  ASSUME NEW s \in Seq(Frame), NEW d \in Nat \ {0}, Len(s) = d, NEW g \in Frame,
         NEW t, t = [s EXCEPT ![d] = g]
  PROVE  IsTopSet(s, d, g, t)
<1>1. d \in 1 .. Len(s)
  OBVIOUS
<1>2. Len(t) = d /\ \A i \in 1 .. d : t[i] = IF i = d THEN g ELSE s[i]
  BY <1>1, ExceptSeq
<1>3. QED
  BY <1>2 DEF IsTopSet

IsTopCut(s, d, t) ==
  Len(t) = d - 1 /\ \A i \in 1 .. d - 1 : t[i] = s[i]

LEMMA TopCut ==
  ASSUME NEW s \in Seq(Frame), NEW d \in Nat, d > 1, Len(s) = d, NEW t, t = SubSeq(s, 1, d - 1)
  PROVE  IsTopCut(s, d, t)
<1>1. \A i \in 1 .. d - 1 : s[i] \in Frame
  OBVIOUS
<1>2. Len(t) = d - 1 /\ \A i \in 1 .. d - 1 : t[i] = s[i]
  <2>1. d - 1 \in Int /\ 1 \in Int /\ (d - 1) - 1 + 1 = d - 1 /\ \A i \in 1 .. d - 1 : 1 + i - 1 = i
    OBVIOUS
  <2>2. QED
    BY <1>1, <2>1, SubSeqProperties
<1>3. QED
  BY <1>2 DEF IsTopCut

\* What stands below is kept through it.
LEMMA KeptThrough ==
  ASSUME NEW d \in Nat \ {0}, d = Depth, NEW s, NEW t, \A i \in 1 .. d - 1 : t[i] = s[i],
         BelowKept(s)
  PROVE  BelowKept(t) /\ \A node : KidSees(s, node) => KidSees(t, node)
<1>1. \A i \in 1 .. d - 2 : t[i] = s[i]
  OBVIOUS
<1>2. d > 1 => t[d - 1] = s[d - 1]
  OBVIOUS
<1>3. QED
  BY <1>1, <1>2 DEF BelowKept, KidSees

LEMMA SwappedIs ==
  ASSUME Inv, Top.at # "bo", NEW alt, AltOK(Top.rule, alt), alt.r # "", Take(alt),
         stack' = Replaced(alt), UNCHANGED <<events, outcome>>
  PROVE  Swapped(alt)
<1>1. PICK d \in Nat \ {0} : d = Depth
  BY TopType
<1>2. PICK s \in Seq(Frame) : s = Seen(alt, TRUE) /\ Len(s) = d /\ BelowKept(s) /\ KidSees(s, Acted(alt).node)
  BY <1>1, SeenIs
<1>3. PICK g : g = NewFrame(alt.r, Acted(alt).node, Acted(alt).n, FALSE)
  OBVIOUS
<1>4. g \in Frame
  <2>1. alt.r \in Rules /\ Acted(alt).node \in Node /\ Acted(alt).n \in Nat
    BY ActedIs DEF AltOK, Frame
  <2>2. QED
    BY <1>3, <2>1, NewFrameType
<1>5. PICK t : t = stack' /\ t = [s EXCEPT ![d] = g]
  BY <1>1, <1>2, <1>3 DEF Replaced
<1>6. IsTopSet(s, d, g, t)
  BY <1>2, <1>4, <1>5, TopReplaced
<1>7. BelowKept(t) /\ KidSees(t, Acted(alt).node)
  BY <1>1, <1>2, <1>6, KeptThrough DEF IsTopSet
<1>8. Reads(alt)
  BY DEF Take, Consumed, Reads
<1>9. QED
  BY <1>1, <1>3, <1>5, <1>6, <1>7, <1>8 DEF Swapped, IsTopSet

LEMMA StayedIs ==
  ASSUME Inv, OpenStay
  PROVE  \E alt \in AltsOf(TopOpenAlts) :
           /\ Choose(TopOpenAlts, alt) /\ alt.p = "" /\ alt.r = ""
           /\ AltOK(Top.rule, alt) /\ Stayed(alt)
<1>1. PICK alt \in AltsOf(TopOpenAlts) :
        /\ Choose(TopOpenAlts, alt) /\ alt.p = "" /\ alt.r = "" /\ Take(alt)
        /\ stack' = [Seen(alt, FALSE) EXCEPT
                       ![Depth] = [Acted(alt) EXCEPT !.at = AfterOpen(Top.rule)]]
  BY DEF OpenStay
<1>2. AltOK(Top.rule, alt) /\ Top.at # "bo"
  BY OpenAltOK DEF OpenStay, Running
<1>3. PICK d \in Nat \ {0} : d = Depth
  BY TopType
<1>4. PICK s \in Seq(Frame) : s = Seen(alt, FALSE) /\ Len(s) = d /\ BelowKept(s)
  BY <1>2, <1>3, SeenIs
<1>5. PICK g : g = [Acted(alt) EXCEPT !.at = AfterOpen(Top.rule)]
  OBVIOUS
<1>6. g \in Frame
  <2>1. Acted(alt) \in Frame
    BY <1>2, ActedIs
  <2>2. QED
    BY <1>5, <2>1 DEF Frame, Phase, AfterOpen
<1>7. PICK t : t = stack' /\ t = [s EXCEPT ![d] = g]
  BY <1>1, <1>3, <1>4, <1>5
<1>8. IsTopSet(s, d, g, t)
  BY <1>4, <1>6, <1>7, TopReplaced
<1>9. BelowKept(t)
  BY <1>3, <1>4, <1>8, KeptThrough DEF IsTopSet
<1>10. Reads(alt)
  BY <1>1 DEF Take, Consumed, Reads, OpenStay
<1>11. alt.a \notin TextActions => \A i \in 1 .. d - 1 : t[i] = stack[i]
  <2>1. alt.a \notin TextActions => s = stack
    BY <1>2, <1>4, SeenIs
  <2>2. QED
    BY <1>8, <2>1 DEF IsTopSet
<1>12. Stayed(alt)
  BY <1>3, <1>5, <1>7, <1>8, <1>9, <1>10, <1>11 DEF Stayed, IsTopSet
<1>13. QED
  BY <1>1, <1>2, <1>12

LEMMA PoppedIs ==
  ASSUME Inv, ClosePop
  PROVE  \E alt \in AltsOf(TopCloseAlts) :
           /\ Choose(TopCloseAlts, alt) /\ alt.r = "" /\ AltOK(Top.rule, alt)
           /\ Depth > 1 /\ Pops(alt)
<1>1. PICK alt \in AltsOf(TopCloseAlts) :
        /\ Choose(TopCloseAlts, alt) /\ alt.r = "" /\ Take(alt) /\ Depth > 1
        /\ stack' = SubSeq(Seen(alt, TRUE), 1, Depth - 1)
  BY DEF ClosePop
<1>2. AltOK(Top.rule, alt) /\ Top.at # "bo"
  BY OpenAltOK DEF ClosePop, Running
<1>3. PICK d \in Nat \ {0} : d = Depth
  BY TopType
<1>4. PICK s \in Seq(Frame) : s = Seen(alt, TRUE) /\ Len(s) = d /\ BelowKept(s) /\ KidSees(s, Acted(alt).node)
  BY <1>2, <1>3, SeenIs
<1>5. PICK t : t = stack' /\ t = SubSeq(s, 1, d - 1)
  BY <1>1, <1>3, <1>4
<1>6. IsTopCut(s, d, t)
  BY <1>1, <1>3, <1>4, <1>5, TopCut
<1>7. BelowKept(t) /\ KidSees(t, Acted(alt).node)
  BY <1>3, <1>4, <1>6, KeptThrough DEF IsTopCut
<1>8. Reads(alt)
  BY <1>1 DEF Take, Consumed, Reads, ClosePop
<1>9. QED
  BY <1>1, <1>2, <1>3, <1>5, <1>6, <1>7, <1>8 DEF Pops, IsTopCut

LEMMA ReadingHere ==
  ASSUME ReadingInv
  PROVE  /\ HandedInv /\ Inv /\ SourceOK /\ Len(src) \in Nat
         /\ pos \in Nat \ {0} /\ recordI \in Nat
         /\ opts \in Options /\ opts.empty \in BOOLEAN
         /\ Depth \in Nat \ {0} /\ Depth = Len(stack) /\ stack \in Seq(Frame)
         /\ Top \in Frame /\ Top = stack[Depth] /\ Level(Top.rule) = Depth
<1>1. HandedInv /\ Inv /\ Lexed(src)
  BY DEF ReadingInv, HandedInv
<1>2. SourceOK
  BY <1>1 DEF SourceOK, Inv
<1>3. Len(src) \in Nat
  BY <1>2, SourceLen
<1>4. pos \in Nat \ {0} /\ recordI \in Nat /\ opts \in Options
  BY <1>1 DEF Inv
<1>5. opts.empty \in BOOLEAN
  BY <1>4 DEF Options
<1>6. Depth \in Nat \ {0} /\ Top \in Frame /\ Level(Top.rule) = Depth
  BY <1>1, TopType
<1>7. stack \in Seq(Frame)
  BY <1>1 DEF Inv, ShapeOf
<1>8. QED
  BY <1>1, <1>2, <1>3, <1>4, <1>5, <1>6, <1>7 DEF Depth, Top

\* The depth of the running instance tells its rule.
LEMMA DepthOf ==
  ASSUME ReadingInv
  PROVE  /\ Top.rule \in Rules /\ Depth \in 1 .. 6
         /\ Depth = 1 <=> Top.rule = "csv"
         /\ Depth = 2 <=> Top.rule \in {"newline", "record"}
         /\ Depth = 3 <=> Top.rule = "list"
         /\ Depth = 4 <=> Top.rule = "elem"
         /\ Depth = 5 <=> Top.rule = "val"
         /\ Depth = 6 <=> Top.rule = "text"
<1>1. Top.rule \in Rules /\ Level(Top.rule) = Depth
  <2>1. Top \in Frame /\ Level(Top.rule) = Depth
    BY ReadingHere
  <2>2. QED
    BY <2>1 DEF Frame
<1>2. QED
  BY <1>1, LevelOf

\* The open phase takes an alternate, and so does the close phase.
LEMMA OpenIs ==
  ASSUME Inv, OpenPush \/ OpenReplace \/ OpenStay
  PROVE  /\ Running("open")
         /\ \E alt \in AltsOf(TopOpenAlts) :
              /\ Choose(TopOpenAlts, alt) /\ AltOK(Top.rule, alt)
              /\ alt.p # "" => Pushes(alt)
              /\ alt.p = "" /\ alt.r # "" => Swapped(alt)
              /\ alt.p = "" /\ alt.r = "" => Stayed(alt)
<1>1. CASE OpenPush
  <2>1. PICK alt \in AltsOf(TopOpenAlts) :
          Choose(TopOpenAlts, alt) /\ alt.p # "" /\ AltOK(Top.rule, alt) /\ Pushes(alt)
    BY <1>1, PushedIs
  <2>2. Running("open")
    BY <1>1 DEF OpenPush
  <2>3. QED
    BY <2>1, <2>2
<1>2. CASE OpenReplace
  <2>1. Running("open") /\ Top.at # "bo" /\ UNCHANGED <<events, outcome>>
    BY <1>2 DEF OpenReplace, Running
  <2>2. PICK alt \in AltsOf(TopOpenAlts) :
          Choose(TopOpenAlts, alt) /\ alt.r # "" /\ Take(alt) /\ stack' = Replaced(alt)
    BY <1>2 DEF OpenReplace
  <2>3. AltOK(Top.rule, alt)
    BY OpenAltOK
  <2>4. Swapped(alt) /\ alt.p = ""
    <3>1. Swapped(alt)
      BY <2>1, <2>2, <2>3, SwappedIs
    <3>2. alt.p = ""
      BY <2>2, <2>3 DEF AltOK
    <3>3. QED
      BY <3>1, <3>2
  <2>5. QED
    BY <2>1, <2>2, <2>3, <2>4
<1>3. CASE OpenStay
  <2>1. PICK alt \in AltsOf(TopOpenAlts) :
          /\ Choose(TopOpenAlts, alt) /\ alt.p = "" /\ alt.r = ""
          /\ AltOK(Top.rule, alt) /\ Stayed(alt)
    BY <1>3, StayedIs
  <2>2. Running("open")
    BY <1>3 DEF OpenStay
  <2>3. QED
    BY <2>1, <2>2
<1>4. QED
  BY <1>1, <1>2, <1>3

LEMMA CloseIs ==
  ASSUME Inv, CloseReplace \/ ClosePop
  PROVE  /\ Running("close")
         /\ \E alt \in AltsOf(TopCloseAlts) :
              /\ Choose(TopCloseAlts, alt) /\ AltOK(Top.rule, alt)
              /\ alt.r # "" => Swapped(alt)
              /\ alt.r = "" => Depth > 1 /\ Pops(alt)
<1>1. CASE CloseReplace
  <2>1. Running("close") /\ Top.at # "bo" /\ UNCHANGED <<events, outcome>>
    BY <1>1 DEF CloseReplace, Running
  <2>2. PICK alt \in AltsOf(TopCloseAlts) :
          Choose(TopCloseAlts, alt) /\ alt.r # "" /\ Take(alt) /\ stack' = Replaced(alt)
    BY <1>1 DEF CloseReplace
  <2>3. AltOK(Top.rule, alt)
    BY OpenAltOK
  <2>4. Swapped(alt)
    BY <2>1, <2>2, <2>3, SwappedIs
  <2>5. QED
    BY <2>1, <2>2, <2>3, <2>4
<1>2. CASE ClosePop
  <2>1. PICK alt \in AltsOf(TopCloseAlts) :
          /\ Choose(TopCloseAlts, alt) /\ alt.r = "" /\ AltOK(Top.rule, alt)
          /\ Depth > 1 /\ Pops(alt)
    BY <1>2, PoppedIs
  <2>2. Running("close")
    BY <1>2 DEF ClosePop
  <2>3. QED
    BY <2>1, <2>2
<1>3. QED
  BY <1>1, <1>2

\* The alternates of the running rule.
LEMMA RunningAlts ==
  /\ Top.rule = "csv"     => TopOpenAlts = CsvOpen(opts.empty) /\ TopCloseAlts = <<Otherwise>>
  /\ Top.rule = "newline" => TopOpenAlts = NewlineOpen /\ TopCloseAlts = NewlineOpen
  /\ Top.rule = "record"  => TopCloseAlts = RecordClose(opts.empty)
  /\ Top.rule = "list"    => TopOpenAlts = ListOpen /\ TopCloseAlts = ListClose
  /\ Top.rule = "elem"    => TopOpenAlts = ElemOpen /\ TopCloseAlts = ElemClose
  /\ Top.rule = "val"     => TopOpenAlts = ValOpen /\ TopCloseAlts = <<Otherwise>>
  /\ Top.rule = "text"    => TopOpenAlts = TextOpen /\ TopCloseAlts = <<Otherwise>>
<1>1. NewlineClose = NewlineOpen
  BY DEF NewlineClose, NewlineOpen
<1>2. QED
  BY <1>1 DEF TopOpenAlts, TopCloseAlts, OpenAlts, CloseAlts

LEMMA OtherwiseCloses ==
  ASSUME NEW alt, Choose(<<Otherwise>>, alt)
  PROVE  Does(alt, 0, 0, "", "", "")
<1>1. alt = Otherwise
  BY DEF Choose
<1>2. QED
  BY <1>1 DEF Does, Otherwise, Alt, TextActions

\* The instance at d is replaced by g.
IsSetAt(s, d, g, t) ==
  t \in Seq(Frame) /\ Len(t) = Len(s) /\ \A i \in 1 .. Len(s) : t[i] = IF i = d THEN g ELSE s[i]

LEMMA SetAt ==
  ASSUME NEW s \in Seq(Frame), NEW d \in 1 .. Len(s), NEW g \in Frame,
         NEW t, t = [s EXCEPT ![d] = g]
  PROVE  IsSetAt(s, d, g, t)
BY ExceptSeq DEF IsSetAt

\* The stack a callback of the running instance leaves.
Given(f) ==
  /\ Len(stack') = Depth /\ stack'[Depth] = f
  /\ \A i \in 1 .. Depth - 1 : stack'[i] = stack[i]

LEMMA GivenIs ==
  ASSUME ReadingInv, NEW f \in Frame, stack' = [stack EXCEPT ![Depth] = f]
  PROVE  Given(f)
<1>1. PICK d \in Nat \ {0} : d = Depth
  BY ReadingHere
<1>2. PICK s \in Seq(Frame) : s = stack /\ Len(s) = d
  BY <1>1, ReadingHere
<1>3. PICK t : t = stack' /\ t = [s EXCEPT ![d] = f]
  BY <1>1, <1>2
<1>4. IsTopSet(s, d, f, t)
  BY <1>2, <1>3, TopReplaced
<1>5. QED
  BY <1>1, <1>2, <1>3, <1>4 DEF IsTopSet, Given

\* text hands its value to the val below it, too.
LEMMA TextGiven ==
  ASSUME ReadingInv, TextBC
  PROVE  /\ Depth = 6 /\ Len(stack') = Depth /\ Top.at = "bc" /\ Top.rule = "text"
         /\ \A i \in 1 .. 4 : stack'[i] = stack[i]
         /\ stack'[6].at = "close" /\ stack'[6].rule = "text" /\ stack'[6].node = Top.node
         /\ stack'[5].node = Top.node
         /\ stack'[5].rule = stack[5].rule /\ stack'[5].at = stack[5].at
         /\ stack'[5].pushed = stack[5].pushed
<1>1. Top.rule = "text" /\ Top.at = "bc" /\ Depth = 6
  BY DepthOf DEF TextBC, Running
<1>2. Top.kid = Undef /\ Top \in Frame
  <2>1. FrameOK(Top, Len(heap)) /\ Top \in Frame
    BY ReadingHere, TopType
  <2>2. QED
    BY <1>1, <2>1 DEF FrameOK
<1>3. PICK s \in Seq(Frame) : s = stack /\ Len(s) = 6 /\ s[6] = Top
  BY <1>1, ReadingHere
<1>4. PICK f : f = [Top EXCEPT !.at = "close"]
  OBVIOUS
<1>5. f \in Frame /\ f.at = "close" /\ f.rule = "text" /\ f.node = Top.node
  BY <1>1, <1>2, <1>4 DEF Frame, Phase
<1>6. PICK u : u = [s EXCEPT ![6] = f]
  OBVIOUS
<1>7. u \in Seq(Frame) /\ Len(u) = 6 /\ \A i \in 1 .. 6 : u[i] = IF i = 6 THEN f ELSE s[i]
  <2>1. PICK d \in 1 .. Len(s) : d = 6
    BY <1>3
  <2>2. u = [s EXCEPT ![d] = f]
    BY <1>6, <2>1
  <2>3. IsSetAt(s, d, f, u)
    BY <1>5, <2>2, SetAt
  <2>4. QED
    BY <1>3, <2>1, <2>3 DEF IsSetAt
<1>8. PICK g \in Frame : g = s[5]
  BY <1>3, SMTT(30)
<1>9. PICK h : h = [g EXCEPT !.node = Top.node]
  OBVIOUS
<1>10. h \in Frame /\ h.node = Top.node /\ h.rule = g.rule /\ h.at = g.at /\ h.pushed = g.pushed
  <2>1. Top.node \in Node
    BY <1>2 DEF Frame
  <2>2. QED
    BY <1>9, <2>1 DEF Frame
<1>11. stack' = [u EXCEPT ![5] = h]
  <2>1. stack' = [Advance(Top, "close") EXCEPT ![Depth - 1].node = Top.node]
    BY <1>2 DEF TextBC
  <2>2. Advance(Top, "close") = u
    BY <1>1, <1>3, <1>4, <1>6 DEF Advance
  <2>3. u[5] = g
    BY <1>7, <1>8
  <2>4. QED
    BY <1>1, <1>9, <2>1, <2>2, <2>3
<1>12. Len(stack') = 6 /\ \A i \in 1 .. 6 : stack'[i] = IF i = 5 THEN h ELSE u[i]
  <2>1. PICK d \in 1 .. Len(u) : d = 5
    BY <1>7
  <2>2. PICK t : t = stack' /\ t = [u EXCEPT ![d] = h]
    BY <1>11, <2>1
  <2>3. IsSetAt(u, d, h, t)
    BY <1>7, <1>10, <2>2, SetAt
  <2>4. QED
    BY <1>7, <2>1, <2>2, <2>3 DEF IsSetAt
<1>13. \A i \in 1 .. 4 : stack'[i] = stack[i]
  BY <1>3, <1>7, <1>12
<1>14. stack'[5] = h /\ stack'[6] = f
  BY <1>7, <1>12
<1>15. QED
  BY <1>1, <1>3, <1>5, <1>8, <1>10, <1>12, <1>13, <1>14

LEMMA WaitingGiven ==
  ASSUME ReadingInv, outcome = "run", NEW f, Given(f), f.pushed = Top.pushed,
         f.rule = Top.rule, Depth = 4 => f.node = Top.node
  PROVE  Waiting(stack')
<1>1. PICK d \in Nat \ {0} : d = Depth
  BY ReadingHere
<1>2. PICK s : s = stack /\ Len(s) = d /\ s[d] = Top /\ Waiting(s)
  BY <1>1, ReadingHere DEF ReadingInv
<1>3. PICK t : t = stack' /\ Len(t) = d /\ t[d] = f /\ \A i \in 1 .. d - 1 : t[i] = s[i]
  BY <1>1, <1>2 DEF Given
<1>4. \A i \in 1 .. d - 1 : t[i].at = AfterOpen(t[i].rule)
  BY <1>2, <1>3 DEF Waiting
<1>5. d >= 3 => t[2].rule = "record"
  BY <1>2, <1>3 DEF Waiting
<1>6. d >= 4 => t[4].node = t[3].node
  <2>1. CASE d = 4
    BY <1>1, <1>2, <1>3, <2>1 DEF Waiting
  <2>2. CASE d > 4
    BY <1>2, <1>3, <2>2 DEF Waiting
  <2>3. QED
    BY <2>1, <2>2
<1>7. d >= 5 => t[5].pushed
  <2>1. CASE d = 5
    BY <1>1, <1>2, <1>3, <2>1 DEF Waiting
  <2>2. CASE d > 5
    BY <1>2, <1>3, <2>2 DEF Waiting
  <2>3. QED
    BY <2>1, <2>2
<1>8. QED
  BY <1>3, <1>4, <1>5, <1>6, <1>7 DEF Waiting

LEMMA WaitingText ==
  ASSUME ReadingInv, outcome = "run", TextBC
  PROVE  Waiting(stack')
<1>1. PICK s : s = stack /\ Len(s) = 6 /\ Waiting(s)
  BY ReadingHere, TextGiven DEF ReadingInv
<1>2. PICK t : t = stack' /\ Len(t) = 6 /\ (\A i \in 1 .. 4 : t[i] = s[i])
               /\ t[5].rule = s[5].rule /\ t[5].at = s[5].at /\ t[5].pushed = s[5].pushed
  BY <1>1, TextGiven
<1>3. \A i \in 1 .. 5 : t[i].at = AfterOpen(t[i].rule)
  <2>1. \A i \in 1 .. 4 : t[i].at = AfterOpen(t[i].rule)
    BY <1>1, <1>2 DEF Waiting
  <2>2. t[5].at = AfterOpen(t[5].rule)
    BY <1>1, <1>2 DEF Waiting
  <2>3. QED
    BY <2>1, <2>2
<1>4. t[2].rule = "record" /\ t[4].node = t[3].node /\ t[5].pushed
  BY <1>1, <1>2 DEF Waiting
<1>5. QED
  BY <1>2, <1>3, <1>4 DEF Waiting

LEMMA WaitingPushed ==
  ASSUME ReadingInv, outcome = "run", NEW alt, Pushes(alt), AltOK(Top.rule, alt),
         Depth = 2 => Top.rule = "record"
  PROVE  Waiting(stack')
<1>1. PICK d \in Nat \ {0} : d = Depth
  BY ReadingHere
<1>2. PICK s : s = stack /\ Len(s) = d /\ s[d] = Top /\ Waiting(s)
  BY <1>1, ReadingHere DEF ReadingInv
<1>3. PICK t : /\ t = stack' /\ Len(t) = d + 1 /\ \A i \in 1 .. d - 1 : t[i] = s[i]
               /\ t[d].at = AfterOpen(Top.rule) /\ t[d].rule = Top.rule
               /\ t[d].node = Top.node /\ t[d].pushed = Top.pushed
               /\ t[d + 1] = NewFrame(alt.p, Top.node, Top.n, TRUE)
  BY <1>1, <1>2, ZenonT(30) DEF Pushes
<1>4. t[d + 1].node = Top.node /\ t[d + 1].pushed
  BY <1>3 DEF NewFrame
<1>5. \A i \in 1 .. d : t[i].at = AfterOpen(t[i].rule)
  <2>1. \A i \in 1 .. d - 1 : t[i].at = AfterOpen(t[i].rule)
    BY <1>2, <1>3 DEF Waiting
  <2>2. t[d].at = AfterOpen(t[d].rule)
    BY <1>3
  <2>3. QED
    BY <2>1, <2>2
<1>6. d >= 2 => t[2].rule = "record"
  <2>1. CASE d = 2
    BY <1>1, <1>3, <2>1
  <2>2. CASE d > 2
    BY <1>2, <1>3, <2>2 DEF Waiting
  <2>3. QED
    BY <2>1, <2>2
<1>7. d >= 3 => t[4].node = t[3].node
  <2>1. CASE d = 3
    <3>1. d + 1 = 4
      BY <2>1
    <3>2. t[4].node = Top.node /\ t[3].node = Top.node
      BY <1>3, <1>4, <2>1, <3>1
    <3>3. QED
      BY <3>2
  <2>2. CASE d = 4
    BY <1>2, <1>3, <2>2 DEF Waiting
  <2>3. CASE d > 4
    BY <1>2, <1>3, <2>3 DEF Waiting
  <2>4. QED
    BY <2>1, <2>2, <2>3
<1>8. d >= 4 => t[5].pushed
  <2>1. CASE d = 4
    BY <1>4, <2>1
  <2>2. CASE d = 5
    BY <1>2, <1>3, <2>2 DEF Waiting
  <2>3. CASE d > 5
    BY <1>2, <1>3, <2>3 DEF Waiting
  <2>4. QED
    BY <2>1, <2>2, <2>3
<1>9. QED
  BY <1>3, <1>5, <1>6, <1>7, <1>8 DEF Waiting

\* The instances below an alternate's, with or without it.
LEMMA WaitingBelow ==
  ASSUME ReadingInv, outcome = "run", BelowKept(stack'),
         Len(stack') = Depth - 1 \/ Len(stack') = Depth,
         Len(stack') = Depth /\ Depth = 4 => stack'[4].node = stack[4].node,
         Len(stack') = Depth /\ Depth = 5 => stack'[5].pushed = stack[5].pushed
  PROVE  Waiting(stack')
<1>1. PICK d \in Nat \ {0} : d = Depth
  BY ReadingHere
<1>2. PICK s : s = stack /\ Len(s) = d /\ Waiting(s)
  BY <1>1, ReadingHere DEF ReadingInv
<1>3. PICK t : /\ t = stack' /\ (Len(t) = d - 1 \/ Len(t) = d)
               /\ \A i \in 1 .. d - 2 : t[i] = s[i]
               /\ d > 1 => SameBut(t[d - 1], s[d - 1])
               /\ Len(t) = d /\ d = 4 => t[4].node = s[4].node
               /\ Len(t) = d /\ d = 5 => t[5].pushed = s[5].pushed
  BY <1>1, <1>2 DEF BelowKept
<1>4. \A i \in 1 .. d - 1 : SameBut(t[i], s[i])
  BY <1>3 DEF SameBut
<1>5. \A i \in 1 .. Len(t) - 1 : t[i].at = AfterOpen(t[i].rule)
  <2>1. \A i \in 1 .. d - 1 : t[i].at = AfterOpen(t[i].rule)
    BY <1>2, <1>4 DEF Waiting, SameBut
  <2>2. QED
    BY <1>3, <2>1
<1>6. Len(t) >= 3 => t[2].rule = "record"
  BY <1>2, <1>3, <1>4 DEF Waiting, SameBut
<1>7. Len(t) >= 4 => t[4].node = t[3].node
  <2>1. CASE Len(t) = d /\ d = 4
    BY <1>2, <1>3, <1>4, <2>1 DEF Waiting, SameBut
  <2>2. CASE d >= 5
    BY <1>2, <1>4, <2>2 DEF Waiting, SameBut
  <2>3. QED
    BY <1>3, <2>1, <2>2
<1>8. Len(t) >= 5 => t[5].pushed
  <2>1. CASE Len(t) = d /\ d = 5
    BY <1>2, <1>3, <2>1 DEF Waiting
  <2>2. CASE d >= 6
    BY <1>2, <1>4, <2>2 DEF Waiting, SameBut
  <2>3. QED
    BY <1>3, <2>1, <2>2
<1>9. QED
  BY <1>3, <1>5, <1>6, <1>7, <1>8 DEF Waiting

-----------------------------------------------------------------------------
(* Where lines and fields begin and end.                                   *)

\* Places where lines start, and how many before.
LEMMA NoneBefore ==
  ASSUME SourceOK
  PROVE  CountBefore(Doc!LineStarts, 1) = 0
<1>1. \A x \in Doc!LineStarts : x \in 1 .. Len(src)
  BY StartsIn
<1>2. Len(src) \in Nat
  BY SourceLen
<1>3. Preceding(Doc!LineStarts, 1) = {}
  BY <1>1, <1>2 DEF Preceding
<1>4. QED
  BY <1>3, FS_EmptySet DEF CountBefore

LEMMA AllBefore ==
  ASSUME SourceOK, NEW p \in Nat \ {0}, p > Len(src)
  PROVE  CountBefore(Doc!LineStarts, p) = Doc!LineCount
<1>1. Len(src) \in Nat
  BY SourceLen
<1>2. /\ Doc!LineStarts \in SUBSET Nat /\ IsFiniteSet(Doc!LineStarts)
      /\ \A x \in Doc!LineStarts : x \in 1 .. Len(src)
  BY StartsIn
<1>3. \A x \in Doc!LineStarts : x < p
  BY <1>1, <1>2
<1>4. CountBefore(Doc!LineStarts, p) = Cardinality(Doc!LineStarts)
  BY <1>2, <1>3, EarlierFinite
<1>5. Doc!LineCount = Cardinality(Doc!LineStarts)
  BY SameOps DEF Doc!LineCount
<1>6. QED
  BY <1>4, <1>5

LEMMA StartsAt ==
  ASSUME SourceOK, NEW p \in Nat \ {0}, KindAt(p) # "ZZ", KindAt(p) = "LN" => opts.empty,
         p = 1 \/ KindAt(p - 1) = "LN"
  PROVE  p \in Doc!LineStarts /\ p \in 1 .. Len(src)
<1>1. Len(src) \in Nat /\ p <= Len(src) /\ src \in Seq(Token)
  BY KindIs DEF SourceOK
<1>2. p \in DOMAIN src /\ KindAt(p) = src[p].k /\ p \in 1 .. Len(src)
  BY <1>1, KindIs
<1>3. p = 1 \/ src[p - 1].k = "LN"
  BY <1>1 DEF KindAt
<1>4. QED
  BY <1>2, <1>3 DEF Doc!LineStarts

\* A blank line that does not count.
LEMMA NoStart ==
  ASSUME SourceOK, NEW p \in Nat \ {0}, KindAt(p) = "LN", ~opts.empty
  PROVE  CountBefore(Doc!LineStarts, p + 1) = CountBefore(Doc!LineStarts, p)
<1>1. p \notin Doc!LineStarts
  <2>1. p <= Len(src)
    BY KindIs
  <2>2. src[p].k = "LN"
    BY <2>1, KindIs
  <2>3. QED
    BY <2>2 DEF Doc!LineStarts
<1>2. Doc!LineStarts \in SUBSET Nat
  BY StartsIn
<1>3. PICK q \in Nat : q = p + 1
  OBVIOUS
<1>4. p <= q /\ \A y \in Doc!LineStarts : y < p \/ q <= y
  BY <1>1, <1>2, <1>3
<1>5. CountBefore(Doc!LineStarts, q) = CountBefore(Doc!LineStarts, p)
  BY <1>2, <1>4, BeforeSame
<1>6. QED
  BY <1>3, <1>5

LEMMA RecordOpens ==
  ASSUME NEW alt, alt \in AltsOf(RecordOpen)
  PROVE  Does(alt, 0, 0, "list", "", "")
<1>1. alt = Push(Otherwise, "list")
  BY DEF AltsOf, RecordOpen
<1>2. QED
  BY <1>1 DEF Does, Push, Otherwise, Alt, TextActions

\* Nothing between two separators, or a separator and the line's end, is the
\* empty cell.
LEMMA EmptyField ==
  ASSUME SourceOK, NEW f \in 1 .. Len(src) + 1, KindAt(f) \in {"CA", "LN", "ZZ"}
  PROVE  /\ FieldEnd(f) = f /\ Doc!WellFormed(Doc!FieldAt(f))
         /\ Doc!CellOf(Doc!FieldAt(f)) = EmptyCell
<1>1. Len(src) \in Nat
  BY SourceLen
<1>2. EndsAt(f, {"CA", "LN"}, f)
  BY <1>1 DEF EndsAt
<1>3. FieldEnd(f) = f
  BY <1>2, EndsIs DEF FieldEnd
<1>4. PICK e : e = Doc!Until(f, {"CA", "LN"}) /\ e = f
  BY <1>3 DEF FieldEnd
<1>5. PICK field : field = SubSeq(src, f, e - 1) /\ field = Doc!FieldAt(f)
  BY <1>4 DEF Doc!FieldAt
<1>6. field = <<>>
  BY <1>1, <1>4, <1>5 DEF SourceOK
<1>7. Doc!WellFormed(field)
  BY <1>6 DEF Doc!WellFormed
<1>8. Doc!CellOf(field) = EmptyCell
  BY <1>6 DEF Doc!CellOf
<1>9. QED
  BY <1>3, <1>5, <1>7, <1>8

\* A line ends at a line end or with the source.
LEMMA LineOver ==
  ASSUME SourceOK, NEW s \in 1 .. Len(src)
  PROVE  /\ Doc!LineEnd(s) \in s .. Len(src) + 1
         /\ KindAt(Doc!LineEnd(s)) \in {"LN", "ZZ"}
         /\ \A i \in s .. Doc!LineEnd(s) - 1 : KindAt(i) \notin {"LN", "ZZ"}
<1>1. PICK e : e = Doc!LineEnd(s)
  OBVIOUS
<1>2. EndsAt(s, {"LN"}, e)
  BY <1>1, LineEndIs
<1>3. QED
  BY <1>1, <1>2 DEF EndsAt

\* What stands where a field ends tells whether the line goes on.
LEMMA FieldOver ==
  ASSUME SourceOK, NEW s \in 1 .. Len(src), NEW f \in Doc!FieldStarts(s),
         NEW p, p = FieldEnd(f)
  PROVE  /\ p \in Nat \ {0} /\ p <= Len(src) + 1 /\ f \in Nat /\ f <= p
         /\ KindAt(p) \in {"CA", "LN", "ZZ"}
         /\ KindAt(p) = "CA" <=> p < Doc!LineEnd(s)
         /\ KindAt(p) \in {"LN", "ZZ"} <=> p = Doc!LineEnd(s)
<1>1. /\ f \in s .. Doc!LineEnd(s)
      /\ p \in f .. Doc!LineEnd(s)
      /\ p < Doc!LineEnd(s) => KindAt(p) = "CA"
  BY FieldNext
<1>2. /\ Doc!LineEnd(s) \in s .. Len(src) + 1
      /\ KindAt(Doc!LineEnd(s)) \in {"LN", "ZZ"}
  BY LineOver
<1>3. Len(src) \in Nat
  BY SourceLen
<1>4. QED
  BY <1>1, <1>2, <1>3

-----------------------------------------------------------------------------
(* What the rules say holds through each step of the engine, rule by rule. *)

\* The next state waits for what it says.
Goes == Waiting(stack') /\ Says(stack', heap', pos', recordI')

LEMMA SaysNow ==
  ASSUME ReadingInv, outcome = "run"
  PROVE  /\ Waiting(stack)
         /\ Top.rule = "csv"     => CsvSays(Top.at, pos, recordI)
         /\ Top.rule = "newline" => NewlineSays(Top.at, pos, recordI)
         /\ Top.rule = "record"  => RecordSays(Top.at, pos, recordI, heap[Top.kid.a])
         /\ Top.rule = "list"    => ListSays(Top.at, pos, recordI, heap[Top.node.a])
         /\ Top.rule = "elem"    => ElemSays(Top.at, pos, recordI, Top, heap)
         /\ Top.rule = "val"     => \E s, f \in 1 .. Len(src) :
                                      Pending(s, f, recordI, stack[4], heap) /\ ValSays(Top.at, pos, f, Top)
         /\ Top.rule = "text"    => \E s, f \in 1 .. Len(src) :
                                      Pending(s, f, recordI, stack[4], heap)
                                        /\ TextSays(Top.at, pos, f, Top, stack[5])
<1>1. stack[Len(stack)] = Top
  BY DEF Top, Depth
<1>2. Waiting(stack) /\ Says(stack, heap, pos, recordI)
  BY DEF ReadingInv
<1>3. QED
  BY <1>1, <1>2 DEF Says

LEMMA SaysThen ==
  ASSUME NEW d, Len(stack') = d, NEW top, top = stack'[d],
         \/ top.rule = "csv" /\ CsvSays(top.at, pos', recordI')
         \/ top.rule = "newline" /\ NewlineSays(top.at, pos', recordI')
         \/ top.rule = "record" /\ RecordSays(top.at, pos', recordI', heap'[top.kid.a])
         \/ top.rule = "list" /\ ListSays(top.at, pos', recordI', heap'[top.node.a])
         \/ top.rule = "elem" /\ ElemSays(top.at, pos', recordI', top, heap')
         \/ /\ top.rule = "val"
            /\ \E s, f \in 1 .. Len(src) :
                 Pending(s, f, recordI', stack'[4], heap') /\ ValSays(top.at, pos', f, top)
         \/ /\ top.rule = "text"
            /\ \E s, f \in 1 .. Len(src) :
                 Pending(s, f, recordI', stack'[4], heap') /\ TextSays(top.at, pos', f, top, stack'[5])
  PROVE  Says(stack', heap', pos', recordI')
BY DEF Says

\* csv

LEMMA CsvBegins ==
  ASSUME ReadingInv, CsvBO
  PROVE  Goes
<1>1. Top.rule = "csv" /\ Top.at = "bo" /\ outcome = "run"
  BY DEF CsvBO, Running
<1>2. pos = 1 /\ recordI' = 0 /\ pos' = pos
  <2>1. CsvSays("bo", pos, recordI)
    BY <1>1, SaysNow
  <2>2. QED
    BY <2>1 DEF CsvSays, CsvBO
<1>3. PICK f : f = [[Top EXCEPT !.node = Ref(Len(heap) + 1)] EXCEPT !.at = "open"]
  OBVIOUS
<1>4. f \in Frame /\ f.rule = "csv" /\ f.at = "open" /\ f.pushed = Top.pushed
  <2>1. Top \in Frame /\ Len(heap) \in Nat
    BY ReadingHere, TopType
  <2>2. Ref(Len(heap) + 1) \in Node
    BY <2>1 DEF Ref, Node
  <2>3. QED
    BY <1>1, <1>3, <2>1, <2>2 DEF Frame, Phase
<1>5. Given(f)
  <2>1. stack' = [stack EXCEPT ![Depth] = f]
    BY <1>3 DEF CsvBO, Advance
  <2>2. QED
    BY <1>4, <2>1, GivenIs
<1>6. Depth = 1
  BY <1>1, DepthOf
<1>7. Waiting(stack')
  BY <1>1, <1>4, <1>5, <1>6, WaitingGiven
<1>8. CsvSays("open", pos', recordI')
  BY <1>2 DEF CsvSays
<1>9. Says(stack', heap', pos', recordI')
  BY <1>4, <1>5, <1>8, SaysThen DEF Given
<1>10. QED
  BY <1>7, <1>9 DEF Goes

LEMMA CsvGoes ==
  ASSUME ReadingInv, OpenPush \/ OpenReplace \/ OpenStay, Top.rule = "csv"
  PROVE  Goes
<1>1. /\ SourceOK /\ pos \in Nat \ {0} /\ opts.empty \in BOOLEAN /\ Inv /\ Depth = 1
      /\ Len(src) \in Nat
  BY ReadingHere, DepthOf
<1>2. Running("open") /\ outcome = "run" /\ Top.at = "open"
  BY <1>1, OpenIs DEF Running
<1>3. PICK alt \in AltsOf(TopOpenAlts) :
        /\ Choose(TopOpenAlts, alt) /\ AltOK(Top.rule, alt)
        /\ alt.p # "" => Pushes(alt)
        /\ alt.p = "" /\ alt.r # "" => Swapped(alt)
        /\ alt.p = "" /\ alt.r = "" => Stayed(alt)
  BY <1>1, OpenIs
<1>4. pos = 1 /\ recordI = 0
  <2>1. CsvSays("open", pos, recordI)
    BY <1>2, SaysNow
  <2>2. QED
    BY <2>1 DEF CsvSays
<1>5. \/ KindAt(pos) = "ZZ" /\ Does(alt, 1, 0, "", "", "")
      \/ KindAt(pos) = "LN" /\ ~opts.empty /\ Does(alt, 1, 0, "newline", "", "")
      \/ KindAt(pos) # "ZZ" /\ (KindAt(pos) = "LN" => opts.empty) /\ Does(alt, 0, 0, "record", "", "")
  <2>1. Choose(CsvOpen(opts.empty), alt)
    BY <1>3, RunningAlts
  <2>2. QED
    BY <1>1, <2>1, CsvOpens
<1>6. CASE KindAt(pos) = "ZZ" /\ Does(alt, 1, 0, "", "", "")
  <2>1. Stayed(alt)
    BY <1>3, <1>6 DEF Does
  <2>2. PICK f : f = stack'[1] /\ Len(stack') = 1 /\ f.rule = "csv" /\ f.at = "close"
    <3>1. Acted(alt) \in Frame /\ Acted(alt).rule = "csv"
      BY <1>1, <1>2, <1>3, ActedIs
    <3>2. PICK f : f = [Acted(alt) EXCEPT !.at = AfterOpen("csv")]
      OBVIOUS
    <3>3. f.rule = "csv" /\ f.at = "close"
      BY <3>1, <3>2 DEF Frame, AfterOpen, HasBC
    <3>4. stack'[1] = f /\ Len(stack') = 1
      BY <1>1, <2>1, <3>2 DEF Stayed
    <3>5. QED
      BY <3>3, <3>4
  <2>3. recordI' = recordI
    BY <2>1 DEF Stayed, Reads
  <2>4. CountBefore(Doc!LineStarts, pos) = Doc!LineCount
    <3>1. pos > Len(src)
      BY <1>1, <1>6, KindIs
    <3>2. QED
      BY <1>1, <3>1, AllBefore
  <2>5. CountBefore(Doc!LineStarts, 1) = 0
    BY <1>1, NoneBefore
  <2>6. CsvSays("close", pos', recordI')
    BY <1>4, <2>3, <2>4, <2>5 DEF CsvSays
  <2>7. Says(stack', heap', pos', recordI')
    BY <2>2, <2>6, SaysThen
  <2>8. Waiting(stack')
    BY <1>1, <1>2, <2>1, WaitingBelow DEF Stayed
  <2>9. QED
    BY <2>7, <2>8 DEF Goes
<1>7. CASE KindAt(pos) = "LN" /\ ~opts.empty /\ Does(alt, 1, 0, "newline", "", "")
  <2>1. Pushes(alt) /\ alt.p = "newline" /\ Len(alt.s) = 1 /\ alt.b = 0
    BY <1>3, <1>7 DEF Does
  <2>2. pos' = 2 /\ recordI' = 0
    BY <1>4, <2>1 DEF Pushes, Reads
  <2>3. PICK f : f = stack'[2] /\ Len(stack') = 2 /\ f.rule = "newline" /\ f.at = "open"
    BY <1>1, <2>1 DEF Pushes, NewFrame, FirstPhase, HasBO
  <2>4. CountBefore(Doc!LineStarts, 2) = 0
    <3>1. CountBefore(Doc!LineStarts, 1 + 1) = CountBefore(Doc!LineStarts, 1)
      BY <1>1, <1>4, <1>7, NoStart
    <3>2. QED
      BY <1>1, <3>1, NoneBefore
  <2>5. NewlineSays("open", pos', recordI')
    <3>1. PICK p : p = pos' /\ p = 2
      BY <2>2
    <3>2. p - 1 = 1
      BY <3>1
    <3>3. KindAt(p - 1) = "LN"
      BY <1>4, <1>7, <3>2
    <3>4. QED
      BY <1>7, <2>2, <2>4, <3>1, <3>3 DEF NewlineSays
  <2>6. Says(stack', heap', pos', recordI')
    BY <2>3, <2>5, SaysThen
  <2>7. Waiting(stack')
    BY <1>1, <1>2, <1>3, <2>1, WaitingPushed
  <2>8. QED
    BY <2>6, <2>7 DEF Goes
<1>8. CASE KindAt(pos) # "ZZ" /\ (KindAt(pos) = "LN" => opts.empty) /\ Does(alt, 0, 0, "record", "", "")
  <2>1. Pushes(alt) /\ alt.p = "record" /\ Len(alt.s) = 0 /\ alt.b = 0
    BY <1>3, <1>8 DEF Does
  <2>2. pos' = 1 /\ recordI' = 0
    BY <1>4, <2>1 DEF Pushes, Reads
  <2>3. PICK f : f = stack'[2] /\ Len(stack') = 2 /\ f.rule = "record" /\ f.at = "open"
    BY <1>1, <2>1 DEF Pushes, NewFrame, FirstPhase, HasBO
  <2>4. 1 \in Doc!LineStarts
    BY <1>1, <1>4, <1>8, StartsAt
  <2>5. CountBefore(Doc!LineStarts, 1) = 0
    BY <1>1, NoneBefore
  <2>6. RecordSays("open", pos', recordI', heap'[f.kid.a])
    BY <2>2, <2>4, <2>5 DEF RecordSays, InLine
  <2>7. Says(stack', heap', pos', recordI')
    BY <2>3, <2>6, SaysThen
  <2>8. Waiting(stack')
    BY <1>1, <1>2, <1>3, <2>1, WaitingPushed
  <2>9. QED
    BY <2>7, <2>8 DEF Goes
<1>9. QED
  BY <1>5, <1>6, <1>7, <1>8

\* The running instance, when it stays.
LEMMA StayedTop ==
  ASSUME Inv, Top.at # "bo", NEW alt, AltOK(Top.rule, alt), Stayed(alt)
  PROVE  /\ stack'[Depth].rule = Top.rule /\ stack'[Depth].at = AfterOpen(Top.rule)
         /\ stack'[Depth].node = Acted(alt).node /\ stack'[Depth].kid = Top.kid
         /\ stack'[Depth].done <=> Top.done \/ alt.a = "elem-open-empty"
         /\ stack'[Depth].o0 = IF alt.s = <<>> THEN NoToken ELSE Tok(1)
         /\ stack'[Depth].pushed = Top.pushed
<1>1. /\ Acted(alt) \in Frame /\ Acted(alt).rule = Top.rule
      /\ Acted(alt).kid = Top.kid /\ Acted(alt).pushed = Top.pushed
      /\ Acted(alt).done <=> Top.done \/ alt.a = "elem-open-empty"
      /\ Acted(alt).o0 = IF alt.s = <<>> THEN NoToken ELSE Tok(1)
  BY ActedIs
<1>2. PICK g \in Frame : g = Acted(alt)
  BY <1>1
<1>3. PICK f : f = [g EXCEPT !.at = AfterOpen(Top.rule)]
  OBVIOUS
<1>4. /\ f.rule = g.rule /\ f.at = AfterOpen(Top.rule) /\ f.node = g.node /\ f.kid = g.kid
      /\ f.done = g.done /\ f.o0 = g.o0 /\ f.pushed = g.pushed
  BY <1>3 DEF Frame
<1>5. stack'[Depth] = f
  BY <1>2, <1>3 DEF Stayed
<1>6. QED
  BY <1>1, <1>2, <1>4, <1>5

\* newline

LEMMA NewlineGoes ==
  ASSUME ReadingInv, OpenPush \/ OpenReplace \/ OpenStay, Top.rule = "newline"
  PROVE  Goes
<1>1. /\ SourceOK /\ pos \in Nat \ {0} /\ Inv /\ Depth = 2
      /\ Len(src) \in Nat
  BY ReadingHere, DepthOf
<1>2. Running("open") /\ outcome = "run" /\ Top.at = "open"
  BY <1>1, OpenIs DEF Running
<1>3. PICK alt \in AltsOf(TopOpenAlts) :
        /\ Choose(TopOpenAlts, alt) /\ AltOK(Top.rule, alt)
        /\ alt.p # "" => Pushes(alt)
        /\ alt.p = "" /\ alt.r # "" => Swapped(alt)
        /\ alt.p = "" /\ alt.r = "" => Stayed(alt)
  BY <1>1, OpenIs
<1>4. /\ ~opts.empty
      /\ pos > Len(src) \/ KindAt(pos - 1) = "LN"
      /\ CountBefore(Doc!LineStarts, pos) = recordI
  <2>1. NewlineSays("open", pos, recordI)
    BY <1>2, SaysNow
  <2>2. QED
    BY <2>1 DEF NewlineSays
<1>5. \/ /\ KindAt(pos) = "LN" /\ KindAt(pos + 1) = "LN"
         /\ Does(alt, 2, 0, "", "newline", "")
      \/ /\ KindAt(pos) = "LN"
         /\ Does(alt, 1, 0, "", "newline", "")
      \/ /\ KindAt(pos) = "ZZ"
         /\ Does(alt, 1, 0, "", "", "")
      \/ /\ KindAt(pos) \notin {"LN", "ZZ"}
         /\ Does(alt, 0, 0, "", "record", "")
  <2>1. Choose(NewlineOpen, alt)
    BY <1>3, RunningAlts
  <2>2. QED
    BY <1>1, <2>1, NewlineOpens
<1>6. ASSUME NEW k \in {1, 2}, KindAt(pos) = "LN", k = 2 => KindAt(pos + 1) = "LN",
             Does(alt, k, 0, "", "newline", "")
      PROVE  Goes
  <2>1. Swapped(alt) /\ alt.r = "newline" /\ Len(alt.s) = k /\ alt.b = 0
    BY <1>3, <1>6 DEF Does
  <2>2. PICK p \in Nat \ {0} : p = pos' /\ p = pos + k /\ recordI' = recordI
    <3>1. pos' = pos + k - 0 /\ recordI' = recordI
      BY <2>1 DEF Swapped, Reads
    <3>2. pos + k - 0 = pos + k /\ pos + k \in Nat \ {0}
      BY <1>1
    <3>3. QED
      BY <3>1, <3>2
  <2>3. PICK f : f = stack'[2] /\ Len(stack') = 2 /\ f.rule = "newline" /\ f.at = "open"
    BY <1>1, <2>1 DEF Swapped, NewFrame, FirstPhase, HasBO
  <2>4. CountBefore(Doc!LineStarts, pos + 1) = recordI
    BY <1>1, <1>4, <1>6, NoStart
  <2>5. CountBefore(Doc!LineStarts, p) = recordI /\ KindAt(p - 1) = "LN"
    <3>1. CASE k = 1
      <4>1. p = pos + 1 /\ p - 1 = pos
        BY <1>1, <2>2, <3>1
      <4>2. QED
        BY <1>6, <2>4, <4>1
    <3>2. CASE k = 2
      <4>1. PICK q \in Nat \ {0} : q = pos + 1
        BY <1>1
      <4>2. p = q + 1 /\ p - 1 = q
        BY <1>1, <2>2, <3>2, <4>1
      <4>3. CountBefore(Doc!LineStarts, q + 1) = CountBefore(Doc!LineStarts, q)
        BY <1>1, <1>4, <1>6, <3>2, <4>1, NoStart
      <4>4. QED
        BY <1>6, <2>4, <3>2, <4>1, <4>2, <4>3
    <3>3. QED
      BY <3>1, <3>2
  <2>6. NewlineSays("open", pos', recordI')
    BY <1>4, <2>2, <2>5 DEF NewlineSays
  <2>7. Says(stack', heap', pos', recordI')
    BY <2>3, <2>6, SaysThen
  <2>8. Waiting(stack')
    BY <1>1, <1>2, <2>1, WaitingBelow DEF Swapped
  <2>9. QED
    BY <2>7, <2>8 DEF Goes
<1>7. CASE KindAt(pos) = "ZZ" /\ Does(alt, 1, 0, "", "", "")
  <2>1. Stayed(alt) /\ Len(alt.s) = 1 /\ alt.b = 0
    BY <1>3, <1>7 DEF Does
  <2>2. PICK f : f = stack'[2] /\ Len(stack') = 2 /\ f.rule = "newline" /\ f.at = "close"
    <3>1. stack'[Depth].rule = "newline" /\ stack'[Depth].at = AfterOpen("newline")
      BY <1>1, <1>2, <1>3, <2>1, StayedTop
    <3>2. AfterOpen("newline") = "close"
      BY DEF AfterOpen, HasBC
    <3>3. QED
      BY <1>1, <2>1, <3>1, <3>2 DEF Stayed
  <2>3. PICK p \in Nat \ {0} : p = pos' /\ p = pos + 1 /\ recordI' = recordI
    <3>1. pos' = pos + 1 - 0 /\ recordI' = recordI
      BY <2>1 DEF Stayed, Reads
    <3>2. pos + 1 - 0 = pos + 1 /\ pos + 1 \in Nat \ {0}
      BY <1>1
    <3>3. QED
      BY <3>1, <3>2
  <2>4. pos > Len(src)
    BY <1>1, <1>7, KindIs
  <2>5. p > Len(src)
    BY <1>1, <2>3, <2>4
  <2>6. CountBefore(Doc!LineStarts, p) = recordI
    BY <1>1, <1>4, <2>4, <2>5, AllBefore
  <2>7. NewlineSays("close", pos', recordI')
    BY <1>4, <2>3, <2>5, <2>6 DEF NewlineSays
  <2>8. Says(stack', heap', pos', recordI')
    BY <2>2, <2>7, SaysThen
  <2>9. Waiting(stack')
    BY <1>1, <1>2, <2>1, WaitingBelow DEF Stayed
  <2>10. QED
    BY <2>8, <2>9 DEF Goes
<1>8. CASE KindAt(pos) \notin {"LN", "ZZ"} /\ Does(alt, 0, 0, "", "record", "")
  <2>1. Swapped(alt) /\ alt.r = "record" /\ Len(alt.s) = 0 /\ alt.b = 0
    BY <1>3, <1>8 DEF Does
  <2>2. pos' = pos /\ recordI' = recordI
    BY <1>1, <2>1 DEF Swapped, Reads
  <2>3. PICK f : f = stack'[2] /\ Len(stack') = 2 /\ f.rule = "record" /\ f.at = "open"
    BY <1>1, <2>1 DEF Swapped, NewFrame, FirstPhase, HasBO
  <2>4. pos \in Doc!LineStarts
    <3>1. KindAt(pos - 1) = "LN"
      BY <1>1, <1>4, <1>8, KindIs
    <3>2. QED
      BY <1>1, <1>8, <3>1, StartsAt
  <2>5. RecordSays("open", pos', recordI', heap'[f.kid.a])
    BY <1>4, <2>2, <2>4 DEF RecordSays, InLine
  <2>6. Says(stack', heap', pos', recordI')
    BY <2>3, <2>5, SaysThen
  <2>7. Waiting(stack')
    BY <1>1, <1>2, <2>1, WaitingBelow DEF Swapped
  <2>8. QED
    BY <2>6, <2>7 DEF Goes
<1>9. CASE KindAt(pos) = "LN" /\ KindAt(pos + 1) = "LN" /\ Does(alt, 2, 0, "", "newline", "")
  <2>1. 2 \in {1, 2}
    OBVIOUS
  <2>2. QED
    BY <1>6, <1>9, <2>1
<1>10. CASE KindAt(pos) = "LN" /\ Does(alt, 1, 0, "", "newline", "")
  <2>1. 1 \in {1, 2} /\ 1 # 2
    OBVIOUS
  <2>2. QED
    BY <1>6, <1>10, <2>1
<1>11. QED
  BY <1>5, <1>7, <1>8, <1>9, <1>10

\* The instances below the running one.
LEMMA BelowIs ==
  ASSUME ReadingInv, outcome = "run"
  PROVE  /\ Depth >= 2 => stack[1].rule = "csv" /\ stack[1].at = "close"
         /\ Depth >= 3 => stack[2].rule = "record" /\ stack[2].at = "bc"
         /\ Depth >= 4 => stack[3].rule = "list" /\ stack[3].at = "close" /\ stack[3].node = stack[4].node
         /\ Depth >= 5 => stack[4].rule = "elem" /\ stack[4].at = "bc" /\ stack[5].pushed
         /\ Depth >= 6 => stack[5].rule = "val" /\ stack[5].at = "bc"
         /\ \A i \in 1 .. Depth : stack[i] \in Frame /\ FrameOK(stack[i], Len(heap))
<1>1. PICK d \in Nat \ {0} : d = Depth
  BY ReadingHere
<1>2. PICK s : s = stack /\ Len(s) = d /\ ShapeOf(s, Len(heap)) /\ Waiting(s)
  <2>1. Inv /\ Waiting(stack) /\ Depth = Len(stack)
    BY ReadingHere, SaysNow
  <2>2. QED
    BY <1>1, <2>1 DEF Inv
<1>3. \A i \in 1 .. d : s[i] \in Frame /\ Level(s[i].rule) = i /\ FrameOK(s[i], Len(heap))
  BY <1>2 DEF ShapeOf
<1>4. \A i \in 1 .. d : s[i].rule \in Rules
  BY <1>3 DEF Frame
<1>5. \A i \in 1 .. d - 1 : s[i].at = AfterOpen(s[i].rule)
  BY <1>2 DEF Waiting
<1>6. d >= 2 => s[1].rule = "csv" /\ s[1].at = "close"
  <2>1. ASSUME d >= 2 PROVE s[1].rule = "csv" /\ s[1].at = "close"
    <3>1. Level(s[1].rule) = 1 /\ s[1].rule \in Rules /\ s[1].at = AfterOpen(s[1].rule)
      BY <1>3, <1>4, <1>5, <2>1
    <3>2. QED
      BY <3>1, LevelOf DEF AfterOpen, HasBC
  <2>2. QED
    BY <2>1
<1>7. d >= 3 => s[2].rule = "record" /\ s[2].at = "bc"
  BY <1>2, <1>5 DEF Waiting, AfterOpen, HasBC
<1>8. d >= 4 => s[3].rule = "list" /\ s[3].at = "close" /\ s[3].node = s[4].node
  <2>1. ASSUME d >= 4 PROVE s[3].rule = "list" /\ s[3].at = "close"
    <3>1. Level(s[3].rule) = 3 /\ s[3].rule \in Rules /\ s[3].at = AfterOpen(s[3].rule)
      BY <1>3, <1>4, <1>5, <2>1
    <3>2. QED
      BY <3>1, LevelOf DEF AfterOpen, HasBC
  <2>2. QED
    BY <1>2, <2>1 DEF Waiting
<1>9. d >= 5 => s[4].rule = "elem" /\ s[4].at = "bc" /\ s[5].pushed
  <2>1. ASSUME d >= 5 PROVE s[4].rule = "elem" /\ s[4].at = "bc"
    <3>1. Level(s[4].rule) = 4 /\ s[4].rule \in Rules /\ s[4].at = AfterOpen(s[4].rule)
      BY <1>3, <1>4, <1>5, <2>1
    <3>2. QED
      BY <3>1, LevelOf DEF AfterOpen, HasBC
  <2>2. QED
    BY <1>2, <2>1 DEF Waiting
<1>10. d >= 6 => s[5].rule = "val" /\ s[5].at = "bc"
  <2>1. ASSUME d >= 6 PROVE s[5].rule = "val" /\ s[5].at = "bc"
    <3>1. Level(s[5].rule) = 5 /\ s[5].rule \in Rules /\ s[5].at = AfterOpen(s[5].rule)
      BY <1>3, <1>4, <1>5, <2>1
    <3>2. QED
      BY <3>1, LevelOf DEF AfterOpen, HasBC
  <2>2. QED
    BY <2>1
<1>11. QED
  BY <1>1, <1>2, <1>3, <1>6, <1>7, <1>8, <1>9, <1>10

\* newline only closes at the end of the source.
LEMMA NewlineEnds ==
  ASSUME ReadingInv, CloseReplace \/ ClosePop, Top.rule = "newline"
  PROVE  Goes
<1>1. /\ SourceOK /\ pos \in Nat \ {0} /\ Inv /\ Depth = 2
      /\ Len(src) \in Nat
  BY ReadingHere, DepthOf
<1>2. Running("close") /\ outcome = "run" /\ Top.at = "close"
  BY <1>1, CloseIs DEF Running
<1>3. PICK alt \in AltsOf(TopCloseAlts) :
        /\ Choose(TopCloseAlts, alt) /\ AltOK(Top.rule, alt)
        /\ alt.r # "" => Swapped(alt)
        /\ alt.r = "" => Depth > 1 /\ Pops(alt)
  BY <1>1, CloseIs
<1>4. ~opts.empty /\ pos > Len(src) /\ CountBefore(Doc!LineStarts, pos) = recordI
  <2>1. NewlineSays("close", pos, recordI)
    BY <1>2, SaysNow
  <2>2. QED
    BY <2>1 DEF NewlineSays
<1>5. KindAt(pos) = "ZZ"
  BY <1>1, <1>4, KindIs
<1>6. Does(alt, 1, 0, "", "", "")
  <2>1. Choose(NewlineOpen, alt)
    BY <1>3, RunningAlts
  <2>2. QED
    BY <1>1, <1>5, <2>1, NewlineOpens
<1>7. Pops(alt)
  BY <1>3, <1>6 DEF Does
<1>8. PICK f : f = stack'[1] /\ Len(stack') = 1 /\ f.rule = "csv" /\ f.at = "close"
  <2>1. stack'[1].rule = stack[1].rule /\ stack'[1].at = stack[1].at /\ Len(stack') = 1
    BY <1>1, <1>7 DEF Pops, BelowKept, SameBut
  <2>2. stack[1].rule = "csv" /\ stack[1].at = "close"
    BY <1>1, <1>2, BelowIs
  <2>3. QED
    BY <2>1, <2>2
<1>9. Doc!LineCount = recordI /\ recordI' = recordI
  BY <1>1, <1>4, <1>7, AllBefore DEF Pops, Reads
<1>10. CsvSays("close", pos', recordI')
  BY <1>9 DEF CsvSays
<1>11. Says(stack', heap', pos', recordI')
  BY <1>8, <1>10, SaysThen
<1>12. Waiting(stack')
  BY <1>1, <1>2, <1>7, WaitingBelow DEF Pops
<1>13. QED
  BY <1>11, <1>12 DEF Goes

\* record

LEMMA RecordGoes ==
  ASSUME ReadingInv, OpenPush \/ OpenReplace \/ OpenStay, Top.rule = "record"
  PROVE  Goes
<1>1. /\ SourceOK /\ pos \in Nat \ {0} /\ Inv /\ Depth = 2
      /\ Len(src) \in Nat
  BY ReadingHere, DepthOf
<1>2. Running("open") /\ outcome = "run" /\ Top.at = "open"
  BY <1>1, OpenIs DEF Running
<1>3. PICK alt \in AltsOf(TopOpenAlts) :
        /\ Choose(TopOpenAlts, alt) /\ AltOK(Top.rule, alt)
        /\ alt.p # "" => Pushes(alt)
        /\ alt.p = "" /\ alt.r # "" => Swapped(alt)
        /\ alt.p = "" /\ alt.r = "" => Stayed(alt)
  BY <1>1, OpenIs
<1>4. Does(alt, 0, 0, "list", "", "")
  <2>1. TopOpenAlts = RecordOpen
    BY DEF TopOpenAlts, OpenAlts
  <2>2. QED
    BY <2>1, RecordOpens
<1>5. Pushes(alt) /\ alt.p = "list" /\ Len(alt.s) = 0 /\ alt.b = 0
  BY <1>3, <1>4 DEF Does
<1>6. pos' = pos /\ recordI' = recordI
  BY <1>1, <1>5 DEF Pushes, Reads
<1>7. PICK f : f = stack'[3] /\ Len(stack') = 3 /\ f.rule = "list" /\ f.at = "bo"
  BY <1>1, <1>5 DEF Pushes, NewFrame, FirstPhase, HasBO
<1>8. InLine(pos, recordI)
  <2>1. RecordSays("open", pos, recordI, heap[Top.kid.a])
    BY <1>2, SaysNow
  <2>2. QED
    BY <2>1 DEF RecordSays
<1>9. ListSays("bo", pos', recordI', heap'[f.node.a])
  BY <1>6, <1>8 DEF ListSays
<1>10. Says(stack', heap', pos', recordI')
  BY <1>7, <1>9, SaysThen
<1>11. Waiting(stack')
  BY <1>1, <1>2, <1>3, <1>5, WaitingPushed
<1>12. QED
  BY <1>10, <1>11 DEF Goes

\* A line that was read is one more.
LEMMA LineCounts ==
  ASSUME SourceOK, NEW s \in 1 .. Len(src), NEW p \in Nat \ {0}, NEW r \in Nat, NEW cells,
         LineDone(s, r, p, cells)
  PROVE  KindAt(p) \in {"LN", "ZZ"} /\ CountBefore(Doc!LineStarts, p + 1) = r + 1
<1>1. /\ s \in Doc!LineStarts /\ CountBefore(Doc!LineStarts, s) = r
      /\ Doc!LineEnd(s) <= p
      /\ p = Doc!LineEnd(s) \/ Doc!LineEnd(s) > Len(src)
  BY DEF LineDone, InLine
<1>2. /\ Len(src) \in Nat /\ Doc!LineEnd(s) \in s .. Len(src) + 1
      /\ KindAt(Doc!LineEnd(s)) \in {"LN", "ZZ"}
  BY SourceLen, LineOver
<1>3. KindAt(p) \in {"LN", "ZZ"}
  <2>1. CASE p = Doc!LineEnd(s)
    BY <1>2, <2>1
  <2>2. CASE Doc!LineEnd(s) > Len(src)
    <3>1. p > Len(src)
      BY <1>1, <1>2, <2>2
    <3>2. QED
      BY <3>1, KindIs
  <2>3. QED
    BY <1>1, <2>1, <2>2
<1>4. PICK q \in Nat : q = p + 1
  OBVIOUS
<1>5. Doc!LineEnd(s) < q /\ (q = Doc!LineEnd(s) + 1 \/ Doc!LineEnd(s) > Len(src))
  BY <1>1, <1>2, <1>4
<1>6. CountBefore(Doc!LineStarts, q) = CountBefore(Doc!LineStarts, s) + 1
  BY <1>1, <1>5, LineNext
<1>7. QED
  BY <1>1, <1>3, <1>4, <1>6

\* The line of the record that is to be closed was read.
LEMMA RecordLine ==
  ASSUME ReadingInv, Running("bc"), Top.rule = "record"
  PROVE  \E s \in 1 .. Len(src) : LineDone(s, recordI, pos, heap[Top.kid.a])
<1>1. RecordSays("bc", pos, recordI, heap[Top.kid.a])
  BY SaysNow DEF Running
<1>2. QED
  BY <1>1 DEF RecordSays

LEMMA RecordMarks ==
  ASSUME ReadingInv, RecordHeader \/ RecordRow
  PROVE  Goes
<1>1. /\ Running("bc") /\ Top.rule = "record" /\ outcome = "run"
      /\ pos' = pos /\ recordI' = recordI + 1 /\ stack' = Advance(Top, "close")
  BY DEF RecordHeader, RecordRow, Running
<1>2. Depth = 2 /\ SourceOK /\ pos \in Nat \ {0} /\ recordI \in Nat /\ Top \in Frame
  BY <1>1, ReadingHere, DepthOf
<1>3. KindAt(pos) \in {"LN", "ZZ"} /\ CountBefore(Doc!LineStarts, pos + 1) = recordI + 1
  <2>1. PICK s \in 1 .. Len(src) : LineDone(s, recordI, pos, heap[Top.kid.a])
    BY <1>1, RecordLine
  <2>2. QED
    BY <1>2, <2>1, LineCounts
<1>4. PICK f : f = [Top EXCEPT !.at = "close"]
  OBVIOUS
<1>5. f \in Frame /\ f.rule = "record" /\ f.at = "close" /\ f.pushed = Top.pushed
  BY <1>1, <1>2, <1>4 DEF Frame, Phase
<1>6. Given(f)
  <2>1. stack' = [stack EXCEPT ![Depth] = f]
    BY <1>1, <1>4 DEF Advance
  <2>2. QED
    BY <1>5, <2>1, GivenIs
<1>7. RecordSays("close", pos', recordI', heap'[f.kid.a])
  BY <1>1, <1>3 DEF RecordSays
<1>8. Says(stack', heap', pos', recordI')
  BY <1>5, <1>6, <1>7, SaysThen DEF Given
<1>9. Waiting(stack')
  BY <1>1, <1>2, <1>5, <1>6, WaitingGiven
<1>10. QED
  BY <1>8, <1>9 DEF Goes

LEMMA RecordEnds ==
  ASSUME ReadingInv, CloseReplace \/ ClosePop, Top.rule = "record"
  PROVE  Goes
<1>1. /\ SourceOK /\ pos \in Nat \ {0} /\ Inv /\ Depth = 2 /\ opts.empty \in BOOLEAN
      /\ Len(src) \in Nat
  BY ReadingHere, DepthOf
<1>2. Running("close") /\ outcome = "run" /\ Top.at = "close"
  BY <1>1, CloseIs DEF Running
<1>3. PICK alt \in AltsOf(TopCloseAlts) :
        /\ Choose(TopCloseAlts, alt) /\ AltOK(Top.rule, alt)
        /\ alt.r # "" => Swapped(alt)
        /\ alt.r = "" => Depth > 1 /\ Pops(alt)
  BY <1>1, CloseIs
<1>4. PICK q \in Nat \ {0} : q = pos + 1
  BY <1>1
<1>5. KindAt(pos) \in {"LN", "ZZ"} /\ CountBefore(Doc!LineStarts, q) = recordI
  <2>1. RecordSays("close", pos, recordI, heap[Top.kid.a])
    BY <1>2, SaysNow
  <2>2. QED
    BY <1>4, <2>1 DEF RecordSays
<1>6. \/ KindAt(pos) = "ZZ" /\ Does(alt, 1, 0, "", "", "")
      \/ KindAt(pos) = "LN" /\ KindAt(pos + 1) = "ZZ" /\ Does(alt, 2, 1, "", "", "")
      \/ /\ KindAt(pos) = "LN" /\ KindAt(pos + 1) # "ZZ"
         /\ Does(alt, 1, 0, "", RecordCloseNext(opts.empty), "")
  <2>1. Choose(RecordClose(opts.empty), alt)
    BY <1>3, RunningAlts
  <2>2. QED
    BY <1>1, <2>1, RecordCloses
<1>7. ASSUME alt.r = "", q > Len(src) PROVE Goes
  <2>1. Pops(alt)
    BY <1>3, <1>7
  <2>2. PICK f : f = stack'[1] /\ Len(stack') = 1 /\ f.rule = "csv" /\ f.at = "close"
    <3>1. stack'[1].rule = stack[1].rule /\ stack'[1].at = stack[1].at /\ Len(stack') = 1
      BY <1>1, <2>1 DEF Pops, BelowKept, SameBut
    <3>2. stack[1].rule = "csv" /\ stack[1].at = "close"
      BY <1>1, <1>2, BelowIs
    <3>3. QED
      BY <3>1, <3>2
  <2>3. Doc!LineCount = recordI /\ recordI' = recordI
    BY <1>1, <1>5, <1>7, <2>1, AllBefore DEF Pops, Reads
  <2>4. CsvSays("close", pos', recordI')
    BY <2>3 DEF CsvSays
  <2>5. Says(stack', heap', pos', recordI')
    BY <2>2, <2>4, SaysThen
  <2>6. Waiting(stack')
    BY <1>1, <1>2, <2>1, WaitingBelow DEF Pops
  <2>7. QED
    BY <2>5, <2>6 DEF Goes
<1>8. CASE KindAt(pos) = "ZZ" /\ Does(alt, 1, 0, "", "", "")
  <2>1. pos > Len(src)
    BY <1>1, <1>8, KindIs
  <2>2. q > Len(src)
    BY <1>1, <1>4, <2>1
  <2>3. QED
    BY <1>7, <1>8, <2>2 DEF Does
<1>9. CASE KindAt(pos) = "LN" /\ KindAt(pos + 1) = "ZZ" /\ Does(alt, 2, 1, "", "", "")
  <2>1. q > Len(src)
    BY <1>1, <1>4, <1>9, KindIs
  <2>2. QED
    BY <1>7, <1>9, <2>1 DEF Does
<1>10. CASE /\ KindAt(pos) = "LN" /\ KindAt(pos + 1) # "ZZ"
            /\ Does(alt, 1, 0, "", RecordCloseNext(opts.empty), "")
  <2>1. Swapped(alt) /\ alt.r = RecordCloseNext(opts.empty) /\ Len(alt.s) = 1 /\ alt.b = 0
    BY <1>3, <1>10 DEF Does, RecordCloseNext
  <2>2. pos' = q /\ recordI' = recordI
    <3>1. pos' = pos + 1 - 0 /\ recordI' = recordI
      BY <2>1 DEF Swapped, Reads
    <3>2. pos + 1 - 0 = pos + 1
      BY <1>1
    <3>3. QED
      BY <1>4, <3>1, <3>2
  <2>3. q - 1 = pos /\ KindAt(q - 1) = "LN" /\ KindAt(q) # "ZZ"
    <3>1. q - 1 = pos
      BY <1>1, <1>4
    <3>2. QED
      BY <1>4, <1>10, <3>1
  <2>4. CASE opts.empty
    <3>1. PICK f : f = stack'[2] /\ Len(stack') = 2 /\ f.rule = "record" /\ f.at = "open"
      BY <1>1, <2>1, <2>4 DEF Swapped, NewFrame, FirstPhase, HasBO, RecordCloseNext
    <3>2. q \in Doc!LineStarts
      BY <1>1, <2>3, <2>4, StartsAt
    <3>3. RecordSays("open", pos', recordI', heap'[f.kid.a])
      BY <1>5, <2>2, <3>2 DEF RecordSays, InLine
    <3>4. Says(stack', heap', pos', recordI')
      BY <3>1, <3>3, SaysThen
    <3>5. Waiting(stack')
      BY <1>1, <1>2, <2>1, WaitingBelow DEF Swapped
    <3>6. QED
      BY <3>4, <3>5 DEF Goes
  <2>5. CASE ~opts.empty
    <3>1. PICK f : f = stack'[2] /\ Len(stack') = 2 /\ f.rule = "newline" /\ f.at = "open"
      BY <1>1, <2>1, <2>5 DEF Swapped, NewFrame, FirstPhase, HasBO, RecordCloseNext
    <3>2. NewlineSays("open", pos', recordI')
      BY <1>5, <2>2, <2>3, <2>5 DEF NewlineSays
    <3>3. Says(stack', heap', pos', recordI')
      BY <3>1, <3>2, SaysThen
    <3>4. Waiting(stack')
      BY <1>1, <1>2, <2>1, WaitingBelow DEF Swapped
    <3>5. QED
      BY <3>3, <3>4 DEF Goes
  <2>6. QED
    BY <1>1, <2>4, <2>5
<1>11. QED
  BY <1>6, <1>8, <1>9, <1>10

\* What an alternate without an action leaves.
LEMMA NoAction ==
  ASSUME Inv, Top.at # "bo", NEW alt, AltOK(Top.rule, alt), alt.a = ""
  PROVE  HeapAfter(alt) = heap /\ Acted(alt).node = Top.node
<1>1. alt.a \notin EmptyActions /\ alt.a \notin TextActions
  BY DEF EmptyActions, TextActions
<1>2. QED
  BY <1>1, ActedIs DEF HeapAfter

LEMMA ListBegins ==
  ASSUME ReadingInv, ListBO
  PROVE  Goes
<1>1. /\ Top.rule = "list" /\ Top.at = "bo" /\ outcome = "run" /\ heap' = Append(heap, <<>>)
      /\ pos' = pos /\ recordI' = recordI
  BY DEF ListBO, Running
<1>2. Depth = 3 /\ Top \in Frame /\ Inv
  BY <1>1, ReadingHere, DepthOf
<1>3. PICK n \in Nat : n = Len(heap) /\ heap \in Seq(Seq(Cell \union Row))
  BY <1>2, TopType DEF Inv, HeapOK
<1>4. PICK f : f = [[Top EXCEPT !.node = Ref(n + 1)] EXCEPT !.at = "open"]
  OBVIOUS
<1>5. f \in Frame /\ f.rule = "list" /\ f.at = "open" /\ f.pushed = Top.pushed /\ f.node = Ref(n + 1)
  <2>1. Ref(n + 1) \in Node
    BY DEF Ref, Node
  <2>2. QED
    BY <1>1, <1>2, <1>4, <2>1 DEF Frame, Phase
<1>6. Given(f)
  <2>1. stack' = [stack EXCEPT ![Depth] = f]
    BY <1>3, <1>4 DEF ListBO, Advance
  <2>2. QED
    BY <1>5, <2>1, GivenIs
<1>7. heap'[f.node.a] = <<>>
  <2>1. f.node.a = n + 1
    BY <1>5 DEF Ref
  <2>2. heap'[n + 1] = <<>>
    BY <1>1, <1>3
  <2>3. QED
    BY <2>1, <2>2
<1>8. InLine(pos, recordI)
  <2>1. ListSays("bo", pos, recordI, heap[Top.node.a])
    BY <1>1, SaysNow
  <2>2. QED
    BY <2>1 DEF ListSays
<1>9. ListSays("open", pos', recordI', heap'[f.node.a])
  BY <1>1, <1>7, <1>8 DEF ListSays
<1>10. Says(stack', heap', pos', recordI')
  BY <1>2, <1>5, <1>6, <1>9, SaysThen DEF Given
<1>11. Waiting(stack')
  BY <1>1, <1>2, <1>5, <1>6, WaitingGiven
<1>12. QED
  BY <1>10, <1>11 DEF Goes

LEMMA ListGoes ==
  ASSUME ReadingInv, OpenPush \/ OpenReplace \/ OpenStay, Top.rule = "list"
  PROVE  Goes
<1>1. /\ SourceOK /\ pos \in Nat \ {0} /\ Inv /\ Depth = 3
      /\ Len(src) \in Nat
  BY ReadingHere, DepthOf
<1>2. Running("open") /\ outcome = "run" /\ Top.at = "open"
  BY <1>1, OpenIs DEF Running
<1>3. PICK alt \in AltsOf(TopOpenAlts) :
        /\ Choose(TopOpenAlts, alt) /\ AltOK(Top.rule, alt)
        /\ alt.p # "" => Pushes(alt)
        /\ alt.p = "" /\ alt.r # "" => Swapped(alt)
        /\ alt.p = "" /\ alt.r = "" => Stayed(alt)
  BY <1>1, OpenIs
<1>4. InLine(pos, recordI) /\ heap[Top.node.a] = <<>>
  <2>1. ListSays("open", pos, recordI, heap[Top.node.a])
    BY <1>2, SaysNow
  <2>2. QED
    BY <2>1 DEF ListSays
<1>5. pos \in 1 .. Len(src)
  BY <1>1, <1>4, StartsIn DEF InLine
<1>6. \/ KindAt(pos) = "LN" /\ Does(alt, 1, 1, "", "", "")
      \/ KindAt(pos) # "LN" /\ Does(alt, 0, 0, "elem", "", "")
  <2>1. Choose(ListOpen, alt)
    BY <1>3, RunningAlts
  <2>2. QED
    BY <1>1, <2>1, ListOpens
<1>7. CASE KindAt(pos) = "LN" /\ Does(alt, 1, 1, "", "", "")
  <2>1. Stayed(alt) /\ Len(alt.s) = 1 /\ alt.b = 1 /\ alt.a = ""
    BY <1>3, <1>7 DEF Does
  <2>2. pos' = pos /\ recordI' = recordI /\ heap' = heap
    <3>1. pos' = pos + 1 - 1 /\ recordI' = recordI /\ heap' = HeapAfter(alt)
      BY <2>1 DEF Stayed, Reads
    <3>2. HeapAfter(alt) = heap
      BY <1>1, <1>2, <1>3, <2>1, NoAction
    <3>3. pos + 1 - 1 = pos
      BY <1>1
    <3>4. QED
      BY <3>1, <3>2, <3>3
  <2>3. PICK f : /\ f = stack'[3] /\ Len(stack') = 3 /\ f.rule = "list" /\ f.at = "close"
                 /\ f.node = Top.node
    <3>1. /\ stack'[Depth].rule = "list" /\ stack'[Depth].at = AfterOpen("list")
          /\ stack'[Depth].node = Top.node
      BY <1>1, <1>2, <1>3, <2>1, StayedTop, NoAction
    <3>2. AfterOpen("list") = "close"
      BY DEF AfterOpen, HasBC
    <3>3. QED
      BY <1>1, <2>1, <3>1, <3>2 DEF Stayed
  <2>4. LineDone(pos, recordI, pos, <<>>)
    <3>1. Doc!LineEnd(pos) = pos /\ Doc!CellsOf(pos) = <<>> /\ AllRead(pos)
      BY <1>1, <1>5, <1>7, CellsStart
    <3>2. QED
      BY <1>1, <1>4, <3>1 DEF LineDone
  <2>5. ListSays("close", pos', recordI', heap'[f.node.a])
    BY <1>4, <1>5, <2>2, <2>3, <2>4 DEF ListSays
  <2>6. Says(stack', heap', pos', recordI')
    BY <2>3, <2>5, SaysThen
  <2>7. Waiting(stack')
    <3>1. Len(stack') = Depth /\ BelowKept(stack')
      BY <2>1 DEF Stayed
    <3>2. Depth # 4 /\ Depth # 5
      BY <1>1
    <3>3. QED
      BY <1>2, <3>1, <3>2, WaitingBelow
  <2>8. QED
    BY <2>6, <2>7 DEF Goes
<1>8. CASE KindAt(pos) # "LN" /\ Does(alt, 0, 0, "elem", "", "")
  <2>1. Pushes(alt) /\ alt.p = "elem" /\ Len(alt.s) = 0 /\ alt.b = 0
    BY <1>3, <1>8 DEF Does
  <2>2. pos' = pos /\ recordI' = recordI /\ heap' = heap
    BY <1>1, <2>1 DEF Pushes, Reads
  <2>3. PICK f : /\ f = stack'[4] /\ Len(stack') = 4 /\ f.rule = "elem" /\ f.at = "open"
                 /\ f.node = Top.node /\ f.kid = Undef /\ ~f.done
    BY <1>1, <2>1 DEF Pushes, NewFrame, FirstPhase, HasBO
  <2>4. Pending(pos, pos, recordI, f, heap)
    <3>1. pos \in Doc!FieldStarts(pos) /\ CellsUpTo(pos, pos) = <<>> /\ ReadUpTo(pos, pos)
      BY <1>1, <1>5, <1>8, CellsStart
    <3>2. pos <= Len(src)
      BY <1>5
    <3>3. QED
      BY <1>4, <1>8, <2>3, <3>1, <3>2 DEF Pending, InField
  <2>5. ElemSays("open", pos', recordI', f, heap')
    BY <1>5, <2>2, <2>4 DEF ElemSays
  <2>6. Says(stack', heap', pos', recordI')
    BY <2>3, <2>5, SaysThen
  <2>7. Waiting(stack')
    BY <1>1, <1>2, <1>3, <2>1, WaitingPushed
  <2>8. QED
    BY <2>6, <2>7 DEF Goes
<1>9. QED
  BY <1>6, <1>7, <1>8

LEMMA ListEnds ==
  ASSUME ReadingInv, CloseReplace \/ ClosePop, Top.rule = "list"
  PROVE  Goes
<1>1. /\ SourceOK /\ pos \in Nat \ {0} /\ Inv /\ Depth = 3
      /\ Len(src) \in Nat
  BY ReadingHere, DepthOf
<1>2. Running("close") /\ outcome = "run" /\ Top.at = "close"
  BY <1>1, CloseIs DEF Running
<1>3. PICK alt \in AltsOf(TopCloseAlts) :
        /\ Choose(TopCloseAlts, alt) /\ AltOK(Top.rule, alt)
        /\ alt.r # "" => Swapped(alt)
        /\ alt.r = "" => Depth > 1 /\ Pops(alt)
  BY <1>1, CloseIs
<1>4. PICK s \in 1 .. Len(src) : LineDone(s, recordI, pos, heap[Top.node.a])
  <2>1. ListSays("close", pos, recordI, heap[Top.node.a])
    BY <1>2, SaysNow
  <2>2. QED
    BY <2>1 DEF ListSays
<1>5. \/ KindAt(pos) = "LN" /\ Does(alt, 1, 1, "", "", "")
      \/ KindAt(pos) = "ZZ" /\ Does(alt, 1, 0, "", "", "")
  <2>1. Choose(ListClose, alt)
    BY <1>3, RunningAlts
  <2>2. QED
    BY <1>1, <2>1, ListCloses
<1>6. Pops(alt) /\ Len(alt.s) = 1 /\ alt.b \in {0, 1} /\ alt.a = ""
  BY <1>3, <1>5 DEF Does
<1>7. recordI' = recordI /\ heap' = heap /\ pos' = pos + 1 - alt.b
  <2>1. recordI' = recordI /\ heap' = HeapAfter(alt) /\ pos' = pos + 1 - alt.b
    BY <1>6 DEF Pops, Reads
  <2>2. HeapAfter(alt) = heap
    BY <1>1, <1>2, <1>3, <1>6, NoAction
  <2>3. QED
    BY <2>1, <2>2
<1>8. PICK f : f = stack'[2] /\ Len(stack') = 2 /\ f.rule = "record" /\ f.at = "bc" /\ f.kid = Top.node
  <2>1. /\ stack'[2].rule = stack[2].rule /\ stack'[2].at = stack[2].at /\ Len(stack') = 2
        /\ Top.pushed => stack'[2].kid = Acted(alt).node
    <3>1. Depth - 1 = 2 /\ Depth > 1
      BY <1>1
    <3>2. Len(stack') = Depth - 1 /\ BelowKept(stack') /\ KidSees(stack', Acted(alt).node)
      BY <1>6 DEF Pops
    <3>3. SameBut(stack'[2], stack[2])
      BY <3>1, <3>2 DEF BelowKept
    <3>4. Top.pushed => stack'[2].kid = Acted(alt).node
      BY <3>1, <3>2 DEF KidSees
    <3>5. QED
      BY <3>1, <3>2, <3>3, <3>4 DEF SameBut
  <2>2. stack[2].rule = "record" /\ stack[2].at = "bc"
    BY <1>1, <1>2, BelowIs
  <2>3. Top.pushed
    <3>1. FrameOK(Top, Len(heap))
      BY <1>1, TopType
    <3>2. QED
      BY <3>1 DEF FrameOK
  <2>4. Acted(alt).node = Top.node
    BY <1>1, <1>2, <1>3, <1>6, NoAction
  <2>5. QED
    BY <2>1, <2>2, <2>3, <2>4
<1>9. LineDone(s, recordI, pos', heap[Top.node.a])
  <2>1. CASE KindAt(pos) = "LN" /\ Does(alt, 1, 1, "", "", "")
    <3>1. pos' = pos
      <4>1. alt.b = 1
        BY <2>1 DEF Does
      <4>2. QED
        BY <1>1, <1>7, <4>1
    <3>2. QED
      BY <1>4, <3>1
  <2>2. CASE KindAt(pos) = "ZZ" /\ Does(alt, 1, 0, "", "", "")
    <3>1. PICK q \in Nat : q = pos' /\ q = pos + 1
      <4>1. alt.b = 0
        BY <2>2 DEF Does
      <4>2. QED
        BY <1>1, <1>7, <4>1
    <3>2. pos > Len(src)
      BY <1>1, <2>2, KindIs
    <3>3. Doc!LineEnd(s) \in Nat
      BY <1>1, LineOver
    <3>4. Doc!LineEnd(s) <= q /\ Doc!LineEnd(s) > Len(src)
      BY <1>1, <1>4, <3>1, <3>2, <3>3 DEF LineDone
    <3>5. QED
      BY <1>4, <3>1, <3>4 DEF LineDone
  <2>3. QED
    BY <1>5, <2>1, <2>2
<1>10. RecordSays("bc", pos', recordI', heap'[f.kid.a])
  BY <1>7, <1>8, <1>9 DEF RecordSays
<1>11. Says(stack', heap', pos', recordI')
  BY <1>8, <1>10, SaysThen
<1>12. Waiting(stack')
  <2>1. Len(stack') = Depth - 1 /\ BelowKept(stack')
    BY <1>6 DEF Pops
  <2>2. Depth # 4 /\ Depth # 5
    BY <1>1
  <2>3. QED
    BY <1>2, <2>1, <2>2, WaitingBelow
<1>13. QED
  BY <1>11, <1>12 DEF Goes

\* A field that was read to its end.
LEMMA CellWhole ==
  ASSUME SourceOK, NEW s \in 1 .. Len(src), NEW f \in 1 .. Len(src), NEW r, NEW p, NEW cells,
         CellRead(s, f, r, p, cells), KindAt(p) \in {"CA", "LN", "ZZ"}
  PROVE  /\ InLine(s, r) /\ f \in Doc!FieldStarts(s) /\ ReadUpTo(s, f) /\ p = FieldEnd(f)
         /\ Doc!WellFormed(Doc!FieldAt(f))
         /\ cells = Append(CellsUpTo(s, f), Doc!CellOf(Doc!FieldAt(f)))
<1>1. KindAt(p) \notin VAL
  BY DEF VAL
<1>2. QED
  BY <1>1 DEF CellRead

\* It was the last of the line.
LEMMA CellEnds ==
  ASSUME SourceOK, NEW s \in 1 .. Len(src), NEW f \in 1 .. Len(src), NEW r, NEW p, NEW cells,
         CellRead(s, f, r, p, cells), KindAt(p) \in {"LN", "ZZ"}
  PROVE  LineDone(s, r, p, cells) /\ p = Doc!LineEnd(s) /\ p \in Nat
<1>1. /\ InLine(s, r) /\ f \in Doc!FieldStarts(s) /\ ReadUpTo(s, f) /\ p = FieldEnd(f)
      /\ Doc!WellFormed(Doc!FieldAt(f))
      /\ cells = Append(CellsUpTo(s, f), Doc!CellOf(Doc!FieldAt(f)))
  BY CellWhole
<1>2. p = Doc!LineEnd(s) /\ p \in Nat
  BY <1>1, FieldOver
<1>3. PICK before : before = CellsUpTo(s, f)
  OBVIOUS
<1>4. PICK cell : cell = Doc!CellOf(Doc!FieldAt(f))
  OBVIOUS
<1>5. Append(before, cell) = Doc!CellsOf(s) /\ AllRead(s)
  <2>1. FieldEnd(f) = Doc!LineEnd(s)
    BY <1>1, <1>2
  <2>2. /\ FieldEnd(f) = Doc!LineEnd(s) =>
             Append(before, cell) = Doc!CellsOf(s) /\ AllRead(s)
    BY <1>1, <1>3, <1>4, CellsNext
  <2>3. QED
    BY <2>1, <2>2
<1>6. QED
  BY <1>1, <1>2, <1>3, <1>4, <1>5 DEF LineDone

\* Another follows.
LEMMA CellFollowed ==
  ASSUME SourceOK, NEW s \in 1 .. Len(src), NEW f \in 1 .. Len(src), NEW r, NEW p, NEW cells,
         CellRead(s, f, r, p, cells), KindAt(p) = "CA", NEW q, q = p + 1
  PROVE  InField(s, q, r, cells) /\ p \in Nat
<1>1. /\ InLine(s, r) /\ f \in Doc!FieldStarts(s) /\ ReadUpTo(s, f) /\ p = FieldEnd(f)
      /\ Doc!WellFormed(Doc!FieldAt(f))
      /\ cells = Append(CellsUpTo(s, f), Doc!CellOf(Doc!FieldAt(f)))
  BY CellWhole
<1>2. p < Doc!LineEnd(s) /\ p \in Nat
  BY <1>1, FieldOver
<1>3. FieldEnd(f) + 1 \in Doc!FieldStarts(s)
  BY <1>1, <1>2, FieldNext
<1>4. PICK before : before = CellsUpTo(s, f)
  OBVIOUS
<1>5. PICK cell : cell = Doc!CellOf(Doc!FieldAt(f))
  OBVIOUS
<1>6. Append(before, cell) = CellsUpTo(s, FieldEnd(f) + 1) /\ ReadUpTo(s, FieldEnd(f) + 1)
  BY <1>1, <1>2, <1>4, <1>5, CellsNext
<1>7. q = FieldEnd(f) + 1
  BY <1>1
<1>8. QED
  BY <1>1, <1>2, <1>3, <1>4, <1>5, <1>6, <1>7 DEF InField

\* Nothing follows the separator: the last cell is empty.
LEMMA CellTrailed ==
  ASSUME SourceOK, NEW s \in 1 .. Len(src), NEW f \in 1 .. Len(src), NEW r, NEW p, NEW cells,
         CellRead(s, f, r, p, cells), KindAt(p) = "CA", NEW q, q = p + 1, KindAt(q) \in {"LN", "ZZ"},
         NEW more, more = Append(cells, EmptyCell)
  PROVE  LineDone(s, r, q, more)
<1>1. /\ InLine(s, r) /\ q \in Doc!FieldStarts(s) /\ ReadUpTo(s, q) /\ cells = CellsUpTo(s, q)
      /\ p \in Nat
  BY CellFollowed DEF InField
<1>2. q \in 1 .. Len(src) + 1
  <2>1. q \in s .. Doc!LineEnd(s)
    BY <1>1, FieldNext
  <2>2. Doc!LineEnd(s) \in s .. Len(src) + 1 /\ Len(src) \in Nat
    BY LineOver, SourceLen
  <2>3. QED
    BY <2>1, <2>2
<1>3. /\ FieldEnd(q) = q /\ Doc!WellFormed(Doc!FieldAt(q))
      /\ Doc!CellOf(Doc!FieldAt(q)) = EmptyCell
  BY <1>2, EmptyField
<1>4. q = Doc!LineEnd(s)
  <2>1. PICK e : e = FieldEnd(q) /\ e = q
    BY <1>3
  <2>2. KindAt(e) \in {"LN", "ZZ"} <=> e = Doc!LineEnd(s)
    BY <1>1, <2>1, FieldOver
  <2>3. QED
    BY <2>1, <2>2
<1>5. Append(cells, EmptyCell) = Doc!CellsOf(s) /\ AllRead(s)
  BY <1>1, <1>3, <1>4, CellsNext
<1>6. QED
  BY <1>1, <1>2, <1>4, <1>5 DEF LineDone

\* elem

\* The cell goes into the array of the line.
LEMMA CellPushed ==
  ASSUME ReadingInv, Top.rule = "elem", NEW cell, heap' = PushCell(cell)
  PROVE  heap'[Top.node.a] = Append(heap[Top.node.a], cell)
<1>1. FrameOK(Top, Len(heap)) /\ HeapOK /\ Inv
  BY ReadingHere, TopType DEF Inv
<1>2. PICK a : a = Top.node.a /\ a \in 2 .. Len(heap)
  BY <1>1, HeldArray DEF FrameOK
<1>3. a \in DOMAIN heap
  BY <1>1, <1>2, TopType, HeapType
<1>4. heap' = [heap EXCEPT ![a] = Append(@, cell)]
  BY <1>2 DEF PushCell
<1>5. QED
  BY <1>2, <1>3, <1>4

LEMMA ElemFills ==
  ASSUME ReadingInv, ElemBC
  PROVE  Goes
<1>1. /\ Top.rule = "elem" /\ Top.at = "bc" /\ outcome = "run"
      /\ pos' = pos /\ recordI' = recordI
      /\ heap' = IF ~Top.done /\ Top.kid # Undef THEN PushCell(Top.kid) ELSE heap
  BY DEF ElemBC, Running
<1>2. Depth = 4 /\ Top \in Frame /\ Inv
  BY <1>1, ReadingHere, DepthOf
<1>3. PICK f : f = [Top EXCEPT !.at = "close"]
  OBVIOUS
<1>4. f \in Frame /\ f.rule = "elem" /\ f.at = "close" /\ f.pushed = Top.pushed /\ f.node = Top.node
  BY <1>1, <1>2, <1>3 DEF Frame, Phase
<1>5. Given(f)
  <2>1. stack' = [stack EXCEPT ![Depth] = f]
    BY <1>3 DEF ElemBC, Advance
  <2>2. QED
    BY <1>4, <2>1, GivenIs
<1>6. PICK s \in 1 .. Len(src), g \in 1 .. Len(src) :
        IF Top.done THEN CellRead(s, g, recordI, pos, heap[Top.node.a])
        ELSE InField(s, g, recordI, heap[Top.node.a]) /\ FieldRead(g, pos, Top.kid)
  <2>1. ElemSays("bc", pos, recordI, Top, heap)
    BY <1>1, SaysNow
  <2>2. QED
    BY <2>1 DEF ElemSays
<1>7. CellRead(s, g, recordI, pos, heap'[Top.node.a])
  <2>1. CASE Top.done
    BY <1>1, <1>6, <2>1
  <2>2. CASE ~Top.done
    <3>1. /\ InLine(s, recordI) /\ g \in Doc!FieldStarts(s) /\ ReadUpTo(s, g)
          /\ heap[Top.node.a] = CellsUpTo(s, g)
          /\ pos \in g + 1 .. FieldEnd(g) /\ Top.kid \in Cell
      BY <1>6, <2>2 DEF InField, FieldRead
    <3>2. Top.kid # Undef
      BY <3>1 DEF Cell, Undef
    <3>3. heap'[Top.node.a] = Append(CellsUpTo(s, g), Top.kid)
      BY <1>1, <2>2, <3>1, <3>2, CellPushed
    <3>4. CASE pos = FieldEnd(g)
      <4>1. Doc!WellFormed(Doc!FieldAt(g)) /\ Top.kid = Doc!CellOf(Doc!FieldAt(g))
        BY <1>6, <2>2, <3>4 DEF FieldRead
      <4>2. QED
        BY <3>1, <3>3, <3>4, <4>1 DEF CellRead
    <3>5. CASE pos # FieldEnd(g)
      <4>1. ~Doc!WellFormed(Doc!FieldAt(g)) /\ KindAt(pos) \in VAL
        BY <1>6, <2>2, <3>5 DEF FieldRead
      <4>2. FieldEnd(g) \in Nat
        BY ReadingHere, FieldAtIs
      <4>3. g < pos /\ pos < FieldEnd(g)
        BY <3>1, <3>5, <4>2
      <4>4. QED
        BY <3>1, <4>1, <4>3 DEF CellRead
    <3>6. QED
      BY <3>4, <3>5
  <2>3. QED
    BY <2>1, <2>2
<1>8. ElemSays("close", pos', recordI', f, heap')
  BY <1>1, <1>4, <1>7 DEF ElemSays
<1>9. Says(stack', heap', pos', recordI')
  BY <1>4, <1>5, <1>8, SaysThen DEF Given
<1>10. Waiting(stack')
  BY <1>1, <1>4, <1>5, WaitingGiven
<1>11. QED
  BY <1>9, <1>10 DEF Goes

LEMMA ElemGoes ==
  ASSUME ReadingInv, OpenPush \/ OpenReplace \/ OpenStay, Top.rule = "elem"
  PROVE  Goes
<1>1. /\ SourceOK /\ pos \in Nat \ {0} /\ Inv /\ Depth = 4
      /\ Len(src) \in Nat
  BY ReadingHere, DepthOf
<1>2. Running("open") /\ outcome = "run" /\ Top.at = "open" /\ Top = stack[4]
  BY <1>1, OpenIs, ReadingHere DEF Running
<1>3. PICK alt \in AltsOf(TopOpenAlts) :
        /\ Choose(TopOpenAlts, alt) /\ AltOK(Top.rule, alt)
        /\ alt.p # "" => Pushes(alt)
        /\ alt.p = "" /\ alt.r # "" => Swapped(alt)
        /\ alt.p = "" /\ alt.r = "" => Stayed(alt)
  BY <1>1, OpenIs
<1>4. PICK s \in 1 .. Len(src) : Pending(s, pos, recordI, Top, heap)
  <2>1. ElemSays("open", pos, recordI, Top, heap)
    BY <1>2, SaysNow
  <2>2. QED
    BY <2>1 DEF ElemSays
<1>5. /\ InLine(s, recordI) /\ pos \in Doc!FieldStarts(s) /\ ReadUpTo(s, pos)
      /\ heap[Top.node.a] = CellsUpTo(s, pos)
      /\ ~Top.done /\ Top.kid = Undef /\ pos <= Len(src) /\ KindAt(pos) # "LN"
  BY <1>4 DEF Pending, InField
<1>6. pos \in 1 .. Len(src)
  BY <1>1, <1>5
<1>7. \/ KindAt(pos) = "CA" /\ Does(alt, 1, 1, "", "", "elem-open-empty")
      \/ KindAt(pos) # "CA" /\ Does(alt, 0, 0, "val", "", "")
  <2>1. Choose(ElemOpen, alt)
    BY <1>3, RunningAlts
  <2>2. QED
    BY <1>1, <2>1, ElemOpens
<1>8. CASE KindAt(pos) = "CA" /\ Does(alt, 1, 1, "", "", "elem-open-empty")
  <2>1. Stayed(alt) /\ Len(alt.s) = 1 /\ alt.b = 1 /\ alt.a = "elem-open-empty"
    BY <1>3, <1>8 DEF Does
  <2>2. pos' = pos /\ recordI' = recordI /\ heap' = PushCell(EmptyCell)
    <3>1. pos' = pos + 1 - 1 /\ recordI' = recordI /\ heap' = HeapAfter(alt)
      BY <2>1 DEF Stayed, Reads
    <3>2. HeapAfter(alt) = PushCell(EmptyCell)
      BY <2>1 DEF HeapAfter, EmptyActions
    <3>3. pos + 1 - 1 = pos
      BY <1>1
    <3>4. QED
      BY <3>1, <3>2, <3>3
  <2>3. PICK f : /\ f = stack'[4] /\ Len(stack') = 4 /\ f.rule = "elem" /\ f.at = "bc"
                 /\ f.node = Top.node /\ f.done
    <3>1. /\ stack'[Depth].rule = "elem" /\ stack'[Depth].at = AfterOpen("elem")
          /\ stack'[Depth].node = Acted(alt).node /\ stack'[Depth].done
      BY <1>1, <1>2, <1>3, <2>1, StayedTop
    <3>2. AfterOpen("elem") = "bc"
      BY DEF AfterOpen, HasBC
    <3>3. Acted(alt).node = Top.node
      BY <1>1, <1>2, <1>3, <2>1, ActedIs DEF TextActions
    <3>4. QED
      BY <1>1, <2>1, <3>1, <3>2, <3>3 DEF Stayed
  <2>4. heap'[Top.node.a] = Append(heap[Top.node.a], EmptyCell)
    BY <2>2, CellPushed
  <2>5. CellRead(s, pos, recordI, pos, heap'[Top.node.a])
    <3>1. pos \in 1 .. Len(src) + 1
      BY <1>1, <1>6
    <3>2. /\ FieldEnd(pos) = pos /\ Doc!WellFormed(Doc!FieldAt(pos))
          /\ Doc!CellOf(Doc!FieldAt(pos)) = EmptyCell
      BY <1>1, <1>8, <3>1, EmptyField
    <3>3. QED
      BY <1>5, <2>4, <3>2 DEF CellRead
  <2>6. ElemSays("bc", pos', recordI', f, heap')
    BY <1>6, <2>2, <2>3, <2>5 DEF ElemSays
  <2>7. Says(stack', heap', pos', recordI')
    BY <2>3, <2>6, SaysThen
  <2>8. Waiting(stack')
    <3>1. Len(stack') = Depth /\ BelowKept(stack')
      BY <2>1 DEF Stayed
    <3>2. Depth # 5 /\ stack'[4].node = stack[4].node
      BY <1>1, <1>2, <2>3
    <3>3. QED
      BY <1>2, <3>1, <3>2, WaitingBelow
  <2>9. QED
    BY <2>7, <2>8 DEF Goes
<1>9. CASE KindAt(pos) # "CA" /\ Does(alt, 0, 0, "val", "", "")
  <2>1. Pushes(alt) /\ alt.p = "val" /\ Len(alt.s) = 0 /\ alt.b = 0
    BY <1>3, <1>9 DEF Does
  <2>2. pos' = pos /\ recordI' = recordI /\ heap' = heap
    BY <1>1, <2>1 DEF Pushes, Reads
  <2>3. PICK f : /\ f = stack'[5] /\ Len(stack') = 5 /\ f.rule = "val" /\ f.at = "bo"
                 /\ f.kid = Undef
    BY <1>1, <2>1 DEF Pushes, NewFrame, FirstPhase, HasBO
  <2>4. Pending(s, pos, recordI, stack'[4], heap)
    <3>1. stack'[4].node = Top.node /\ stack'[4].kid = Undef /\ ~stack'[4].done
      BY <1>1, <1>5, <2>1 DEF Pushes
    <3>2. QED
      BY <1>5, <3>1 DEF Pending, InField
  <2>5. ValSays("bo", pos', pos, f)
    BY <1>9, <2>2, <2>3 DEF ValSays
  <2>6. Says(stack', heap', pos', recordI')
    BY <1>6, <2>2, <2>3, <2>4, <2>5, SaysThen
  <2>7. Waiting(stack')
    BY <1>1, <1>2, <1>3, <2>1, WaitingPushed
  <2>8. QED
    BY <2>6, <2>7 DEF Goes
<1>10. QED
  BY <1>7, <1>8, <1>9

LEMMA ElemEnds ==
  ASSUME ReadingInv, CloseReplace \/ ClosePop, Top.rule = "elem"
  PROVE  Goes
<1>1. /\ SourceOK /\ pos \in Nat \ {0} /\ Inv /\ Depth = 4
      /\ Len(src) \in Nat
  BY ReadingHere, DepthOf
<1>2. Running("close") /\ outcome = "run" /\ Top.at = "close" /\ Top = stack[4]
  BY <1>1, CloseIs, ReadingHere DEF Running
<1>3. PICK alt \in AltsOf(TopCloseAlts) :
        /\ Choose(TopCloseAlts, alt) /\ AltOK(Top.rule, alt)
        /\ alt.r # "" => Swapped(alt)
        /\ alt.r = "" => Depth > 1 /\ Pops(alt)
  BY <1>1, CloseIs
<1>4. PICK s \in 1 .. Len(src), f \in 1 .. Len(src) : CellRead(s, f, recordI, pos, heap[Top.node.a])
  <2>1. ElemSays("close", pos, recordI, Top, heap)
    BY <1>2, SaysNow
  <2>2. QED
    BY <2>1 DEF ElemSays
<1>5. PICK q \in Nat \ {0} : q = pos + 1
  BY <1>1
<1>6. \/ /\ KindAt(pos) = "CA" /\ KindAt(q) \in {"LN", "ZZ"}
         /\ Does(alt, 2, 1, "", "", "elem-close-trailing")
      \/ /\ KindAt(pos) = "CA" /\ KindAt(q) \notin {"LN", "ZZ"}
         /\ Does(alt, 1, 0, "", "elem", "")
      \/ KindAt(pos) = "LN" /\ Does(alt, 1, 1, "", "", "")
      \/ KindAt(pos) = "ZZ" /\ Does(alt, 1, 0, "", "", "")
  <2>1. Choose(ElemClose, alt)
    BY <1>3, RunningAlts
  <2>2. QED
    BY <1>1, <1>5, <2>1, ElemCloses
<1>7. ASSUME Pops(alt), LineDone(s, recordI, pos', heap'[Top.node.a]) PROVE Goes
  <2>1. PICK g : g = stack'[3] /\ Len(stack') = 3 /\ g.rule = "list" /\ g.at = "close" /\ g.node = Top.node
    <3>1. Depth - 1 = 3 /\ Depth > 1
      BY <1>1
    <3>2. Len(stack') = Depth - 1 /\ BelowKept(stack')
      BY <1>7 DEF Pops
    <3>3. SameBut(stack'[3], stack[3])
      BY <3>1, <3>2 DEF BelowKept
    <3>4. stack[3].rule = "list" /\ stack[3].at = "close" /\ stack[3].node = Top.node
      BY <1>1, <1>2, BelowIs
    <3>5. QED
      BY <3>1, <3>2, <3>3, <3>4 DEF SameBut
  <2>2. recordI' = recordI
    BY <1>7 DEF Pops, Reads
  <2>3. ListSays("close", pos', recordI', heap'[g.node.a])
    BY <1>7, <2>1, <2>2 DEF ListSays
  <2>4. Says(stack', heap', pos', recordI')
    BY <2>1, <2>3, SaysThen
  <2>5. Waiting(stack')
    <3>1. Len(stack') = Depth - 1 /\ BelowKept(stack')
      BY <1>7 DEF Pops
    <3>2. Len(stack') # Depth
      BY <1>1, <3>1
    <3>3. QED
      BY <1>2, <3>1, <3>2, WaitingBelow
  <2>6. QED
    BY <2>4, <2>5 DEF Goes
<1>8. CASE /\ KindAt(pos) = "CA" /\ KindAt(q) \in {"LN", "ZZ"}
           /\ Does(alt, 2, 1, "", "", "elem-close-trailing")
  <2>1. Pops(alt) /\ Len(alt.s) = 2 /\ alt.b = 1 /\ alt.a = "elem-close-trailing"
    BY <1>3, <1>8 DEF Does
  <2>2. pos' = q /\ heap' = PushCell(EmptyCell)
    <3>1. pos' = pos + 2 - 1 /\ heap' = HeapAfter(alt)
      BY <2>1 DEF Pops, Reads
    <3>2. HeapAfter(alt) = PushCell(EmptyCell)
      BY <2>1 DEF HeapAfter, EmptyActions
    <3>3. pos + 2 - 1 = q
      BY <1>1, <1>5
    <3>4. QED
      BY <3>1, <3>2, <3>3
  <2>3. PICK more : more = Append(heap[Top.node.a], EmptyCell) /\ more = heap'[Top.node.a]
    BY <2>2, CellPushed
  <2>4. LineDone(s, recordI, q, more)
    BY <1>1, <1>4, <1>5, <1>8, <2>3, CellTrailed
  <2>5. QED
    BY <1>7, <2>1, <2>2, <2>3, <2>4
<1>9. CASE /\ KindAt(pos) = "CA" /\ KindAt(q) \notin {"LN", "ZZ"}
           /\ Does(alt, 1, 0, "", "elem", "")
  <2>1. Swapped(alt) /\ alt.r = "elem" /\ Len(alt.s) = 1 /\ alt.b = 0 /\ alt.a = ""
    BY <1>3, <1>9 DEF Does
  <2>2. pos' = q /\ recordI' = recordI /\ heap' = heap /\ Acted(alt).node = Top.node
    <3>1. pos' = pos + 1 - 0 /\ recordI' = recordI /\ heap' = HeapAfter(alt)
      BY <2>1 DEF Swapped, Reads
    <3>2. HeapAfter(alt) = heap /\ Acted(alt).node = Top.node
      BY <1>1, <1>2, <1>3, <2>1, NoAction
    <3>3. pos + 1 - 0 = q
      BY <1>1, <1>5
    <3>4. QED
      BY <3>1, <3>2, <3>3
  <2>3. PICK g : /\ g = stack'[4] /\ Len(stack') = 4 /\ g.rule = "elem" /\ g.at = "open"
                 /\ g.node = Top.node /\ g.kid = Undef /\ ~g.done
    <3>1. PICK g : g = NewFrame("elem", Top.node, Acted(alt).n, FALSE)
      OBVIOUS
    <3>2. /\ g.rule = "elem" /\ g.at = "open" /\ g.node = Top.node /\ g.kid = Undef
          /\ ~g.done
      BY <3>1 DEF NewFrame, FirstPhase, HasBO
    <3>3. stack'[Depth] = g /\ Len(stack') = Depth
      BY <2>1, <2>2, <3>1 DEF Swapped
    <3>4. QED
      BY <1>1, <3>2, <3>3
  <2>4. InField(s, q, recordI, heap[Top.node.a])
    BY <1>1, <1>4, <1>5, <1>9, CellFollowed
  <2>5. q <= Len(src)
    <3>1. KindAt(q) # "ZZ" /\ q \in Nat \ {0}
      BY <1>9
    <3>2. ~(q > Len(src))
      BY <1>1, <3>1, KindIs
    <3>3. QED
      BY <1>1, <3>1, <3>2
  <2>6. Pending(s, q, recordI, g, heap)
    BY <1>9, <2>3, <2>4, <2>5 DEF Pending
  <2>7. ElemSays("open", pos', recordI', g, heap')
    BY <2>2, <2>6 DEF ElemSays
  <2>8. Says(stack', heap', pos', recordI')
    BY <2>3, <2>7, SaysThen
  <2>9. Waiting(stack')
    <3>1. Len(stack') = Depth /\ BelowKept(stack')
      BY <2>1 DEF Swapped
    <3>2. Depth # 5 /\ stack'[4].node = stack[4].node
      BY <1>1, <1>2, <2>3
    <3>3. QED
      BY <1>2, <3>1, <3>2, WaitingBelow
  <2>10. QED
    BY <2>8, <2>9 DEF Goes
<1>10. CASE KindAt(pos) = "LN" /\ Does(alt, 1, 1, "", "", "")
  <2>1. Pops(alt) /\ Len(alt.s) = 1 /\ alt.b = 1 /\ alt.a = ""
    BY <1>3, <1>10 DEF Does
  <2>2. pos' = pos + 1 - 1 /\ heap' = HeapAfter(alt) /\ HeapAfter(alt) = heap
    BY <1>1, <1>2, <1>3, <2>1, NoAction DEF Pops, Reads
  <2>3. pos' = pos
    BY <1>1, <2>2
  <2>4. LineDone(s, recordI, pos, heap[Top.node.a])
    BY <1>1, <1>4, <1>10, CellEnds
  <2>5. QED
    BY <1>7, <2>1, <2>2, <2>3, <2>4
<1>11. CASE KindAt(pos) = "ZZ" /\ Does(alt, 1, 0, "", "", "")
  <2>1. Pops(alt) /\ Len(alt.s) = 1 /\ alt.b = 0 /\ alt.a = ""
    BY <1>3, <1>11 DEF Does
  <2>2. pos' = pos + 1 - 0 /\ heap' = HeapAfter(alt) /\ HeapAfter(alt) = heap
    BY <1>1, <1>2, <1>3, <2>1, NoAction DEF Pops, Reads
  <2>3. pos' = q
    BY <1>1, <1>5, <2>2
  <2>4. LineDone(s, recordI, pos, heap[Top.node.a]) /\ pos = Doc!LineEnd(s)
    BY <1>1, <1>4, <1>11, CellEnds
  <2>5. pos > Len(src)
    BY <1>1, <1>11, KindIs
  <2>6. PICK e \in Nat : e = Doc!LineEnd(s) /\ e <= q /\ e > Len(src)
    BY <1>1, <1>5, <2>4, <2>5
  <2>7. LineDone(s, recordI, q, heap[Top.node.a])
    BY <2>4, <2>6 DEF LineDone
  <2>8. QED
    BY <1>7, <2>1, <2>2, <2>3, <2>7
<1>12. QED
  BY <1>6, <1>8, <1>9, <1>10, <1>11

\* The field that val and text are reading.
LEMMA ValHere ==
  ASSUME ReadingInv, outcome = "run", Top.rule = "val"
  PROVE  \E s, f \in 1 .. Len(src) :
           Pending(s, f, recordI, stack[4], heap) /\ ValSays(Top.at, pos, f, Top)
BY SaysNow

LEMMA ValBegins ==
  ASSUME ReadingInv, ValBO
  PROVE  Goes
<1>1. /\ Top.rule = "val" /\ Top.at = "bo" /\ outcome = "run"
      /\ pos' = pos /\ recordI' = recordI /\ heap' = heap
  BY DEF ValBO, Running
<1>2. Depth = 5 /\ Top \in Frame
  BY <1>1, ReadingHere, DepthOf
<1>3. PICK v : v = [[Top EXCEPT !.node = Undef] EXCEPT !.at = "open"]
  OBVIOUS
<1>4. /\ v \in Frame /\ v.rule = "val" /\ v.at = "open" /\ v.pushed = Top.pushed
      /\ v.node = Undef /\ v.kid = Top.kid
  <2>1. Undef \in Node
    BY DEF Node
  <2>2. QED
    BY <1>1, <1>2, <1>3, <2>1 DEF Frame, Phase
<1>5. Given(v)
  <2>1. stack' = [stack EXCEPT ![Depth] = v]
    BY <1>3 DEF ValBO, Advance
  <2>2. QED
    BY <1>4, <2>1, GivenIs
<1>6. PICK s, f \in 1 .. Len(src) :
        Pending(s, f, recordI, stack[4], heap) /\ ValSays(Top.at, pos, f, Top)
  BY <1>1, ValHere
<1>7. stack'[4] = stack[4] /\ stack'[5] = v /\ Len(stack') = 5
  BY <1>2, <1>5 DEF Given
<1>8. ValSays("open", pos', f, v)
  BY <1>1, <1>4, <1>6 DEF ValSays
<1>9. Says(stack', heap', pos', recordI')
  BY <1>1, <1>4, <1>6, <1>7, <1>8, SaysThen
<1>10. Waiting(stack')
  BY <1>1, <1>2, <1>4, <1>5, WaitingGiven
<1>11. QED
  BY <1>9, <1>10 DEF Goes

LEMMA ValGoes ==
  ASSUME ReadingInv, OpenPush \/ OpenReplace \/ OpenStay, Top.rule = "val"
  PROVE  Goes
<1>1. /\ SourceOK /\ pos \in Nat \ {0} /\ Inv /\ Depth = 5
      /\ Len(src) \in Nat /\ Top \in Frame
  BY ReadingHere, DepthOf
<1>2. Running("open") /\ outcome = "run" /\ Top.at = "open" /\ Top = stack[5]
  BY <1>1, OpenIs, ReadingHere DEF Running
<1>3. PICK alt \in AltsOf(TopOpenAlts) :
        /\ Choose(TopOpenAlts, alt) /\ AltOK(Top.rule, alt)
        /\ alt.p # "" => Pushes(alt)
        /\ alt.p = "" /\ alt.r # "" => Swapped(alt)
        /\ alt.p = "" /\ alt.r = "" => Stayed(alt)
  BY <1>1, OpenIs
<1>4. PICK s, f \in 1 .. Len(src) :
        Pending(s, f, recordI, stack[4], heap) /\ ValSays(Top.at, pos, f, Top)
  BY <1>2, ValHere
<1>5. pos = f /\ KindAt(pos) # "CA" /\ KindAt(pos) # "LN" /\ Top.kid = Undef /\ Top.node = Undef
  BY <1>2, <1>4 DEF ValSays, Pending
<1>6. Top.n = 0
  <2>1. FrameOK(Top, Len(heap))
    BY <1>1, TopType
  <2>2. QED
    BY <2>1 DEF FrameOK
<1>7. \/ KindAt(pos) \in VAL /\ KindAt(pos + 1) = "SP" /\ Does(alt, 2, 2, "text", "", "")
      \/ KindAt(pos) = "SP" /\ Does(alt, 1, 1, "text", "", "")
      \/ KindAt(pos) \in VAL /\ KindAt(pos + 1) # "SP" /\ Does(alt, 1, 0, "", "", "")
  <2>1. Choose(ValOpen, alt)
    BY <1>3, RunningAlts
  <2>2. QED
    BY <1>1, <1>5, <2>1, ValOpens
<1>8. ASSUME NEW k \in {1, 2}, Does(alt, k, k, "text", "", ""), KindAt(pos) \in VAL => KindAt(pos + 1) = "SP"
      PROVE  Goes
  <2>1. Pushes(alt) /\ alt.p = "text" /\ Len(alt.s) = k /\ alt.b = k
    BY <1>3, <1>8 DEF Does
  <2>2. pos' = pos /\ recordI' = recordI /\ heap' = heap
    <3>1. pos' = pos + k - k /\ recordI' = recordI /\ heap' = heap
      BY <2>1 DEF Pushes, Reads
    <3>2. pos + k - k = pos
      BY <1>1
    <3>3. QED
      BY <3>1, <3>2
  <2>3. PICK t : /\ t = stack'[6] /\ Len(stack') = 6 /\ t.rule = "text" /\ t.at = "open"
                 /\ t.n = 0
    <3>1. PICK t : t = NewFrame("text", Top.node, Top.n, TRUE)
      OBVIOUS
    <3>2. t.rule = "text" /\ t.at = "open" /\ t.n = 0
      BY <1>6, <3>1 DEF NewFrame, FirstPhase, HasBO
    <3>3. stack'[Depth + 1] = t /\ Len(stack') = Depth + 1
      BY <2>1, <3>1 DEF Pushes
    <3>4. QED
      BY <1>1, <3>2, <3>3
  <2>4. stack'[4] = stack[4]
    BY <1>1, <2>1 DEF Pushes
  <2>5. TextRead(f, f, 0, t.node)
    BY <1>1, <1>5, <1>8, TextBegins
  <2>6. TextSays("open", pos', f, t, stack'[5])
    BY <1>5, <2>2, <2>3, <2>5 DEF TextSays
  <2>7. Says(stack', heap', pos', recordI')
    BY <1>4, <2>2, <2>3, <2>4, <2>6, SaysThen
  <2>8. Waiting(stack')
    BY <1>1, <1>2, <1>3, <2>1, WaitingPushed
  <2>9. QED
    BY <2>7, <2>8 DEF Goes
<1>9. CASE KindAt(pos) \in VAL /\ KindAt(pos + 1) = "SP" /\ Does(alt, 2, 2, "text", "", "")
  <2>1. 2 \in {1, 2}
    OBVIOUS
  <2>2. QED
    BY <1>8, <1>9, <2>1
<1>10. CASE KindAt(pos) = "SP" /\ Does(alt, 1, 1, "text", "", "")
  <2>1. 1 \in {1, 2} /\ "SP" \notin VAL
    BY DEF VAL
  <2>2. QED
    BY <1>8, <1>10, <2>1
<1>11. CASE KindAt(pos) \in VAL /\ KindAt(pos + 1) # "SP" /\ Does(alt, 1, 0, "", "", "")
  <2>1. Stayed(alt) /\ Len(alt.s) = 1 /\ alt.b = 0 /\ alt.a = "" /\ alt.s # <<>>
    <3>1. Stayed(alt) /\ Len(alt.s) = 1 /\ alt.b = 0 /\ alt.a = ""
      BY <1>3, <1>11 DEF Does
    <3>2. alt.s # <<>>
      <4>1. SUFFICES ASSUME alt.s = <<>> PROVE FALSE
        OBVIOUS
      <4>2. Len(alt.s) = 0
        BY <4>1
      <4>3. 1 = 0
        BY <3>1, <4>2, Zenon
      <4>4. QED
        BY <4>3, SMT
    <3>3. QED
      BY <3>1, <3>2
  <2>2. recordI' = recordI /\ heap' = heap /\ Acted(alt).node = Top.node
    BY <1>1, <1>2, <1>3, <2>1, NoAction DEF Stayed, Reads
  <2>3. PICK q : q = pos' /\ q = f + 1
    <3>1. pos' = pos + 1 - 0
      BY <2>1 DEF Stayed, Reads
    <3>2. pos + 1 - 0 = f + 1
      BY <1>1, <1>5
    <3>3. QED
      BY <3>1, <3>2
  <2>4. Tok(1) = src[f]
    BY <1>1, <1>5, TokIs
  <2>5. PICK v : /\ v = stack'[5] /\ Len(stack') = 5 /\ v.rule = "val" /\ v.at = "bc"
                 /\ v.node = Undef /\ v.kid = Undef /\ v.o0 = src[f] /\ v.pushed = Top.pushed
    <3>1. /\ stack'[Depth].rule = "val" /\ stack'[Depth].at = AfterOpen("val")
          /\ stack'[Depth].node = Acted(alt).node /\ stack'[Depth].kid = Undef
          /\ stack'[Depth].o0 = Tok(1) /\ stack'[Depth].pushed = Top.pushed
      BY <1>1, <1>2, <1>3, <1>5, <2>1, StayedTop
    <3>2. AfterOpen("val") = "bc"
      BY DEF AfterOpen, HasBC
    <3>3. QED
      BY <1>1, <1>5, <2>1, <2>2, <2>4, <3>1, <3>2, ZenonT(30) DEF Stayed
  <2>6. stack'[4] = stack[4]
    <3>1. "" \notin TextActions
      BY DEF TextActions
    <3>2. 4 \in 1 .. Depth - 1
      BY <1>1
    <3>3. \A i \in 1 .. Depth - 1 : stack'[i] = stack[i]
      BY <2>1, <3>1 DEF Stayed
    <3>4. QED
      BY <3>2, <3>3
  <2>7. ValSays("bc", pos', f, v)
    BY <1>5, <1>11, <2>3, <2>5 DEF ValSays
  <2>8. Says(stack', heap', pos', recordI')
    BY <1>4, <2>2, <2>5, <2>6, <2>7, SaysThen
  <2>9. Waiting(stack')
    <3>1. Len(stack') = Depth /\ BelowKept(stack')
      BY <2>1 DEF Stayed
    <3>2. Depth # 4 /\ stack'[5].pushed = stack[5].pushed
      BY <1>1, <1>2, <2>5
    <3>3. QED
      BY <1>2, <3>1, <3>2, WaitingBelow
  <2>10. QED
    BY <2>8, <2>9 DEF Goes
<1>12. QED
  BY <1>7, <1>9, <1>10, <1>11

LEMMA ValFills ==
  ASSUME ReadingInv, ValBC
  PROVE  Goes
<1>1. /\ Top.rule = "val" /\ Top.at = "bc" /\ outcome = "run"
      /\ pos' = pos /\ recordI' = recordI /\ heap' = heap
  BY DEF ValBC, Running
<1>2. Depth = 5 /\ Top \in Frame /\ SourceOK
  BY <1>1, ReadingHere, DepthOf
<1>3. PICK s, f \in 1 .. Len(src) :
        Pending(s, f, recordI, stack[4], heap) /\ ValSays(Top.at, pos, f, Top)
  BY <1>1, ValHere
<1>4. PICK value : value = IF Top.node # Undef THEN Top.node
                           ELSE IF Top.kid # Undef THEN Top.kid
                           ELSE IF Top.o0 # NoToken THEN ResolveVal(Top.o0)
                           ELSE Undef
  OBVIOUS
<1>5. FieldRead(f, pos, value)
  <2>1. CASE FieldRead(f, pos, Top.node)
    <3>1. Top.node # Undef
      BY <2>1 DEF FieldRead, Cell, Undef
    <3>2. QED
      BY <1>4, <2>1, <3>1
  <2>2. CASE /\ Top.node = Undef /\ Top.kid = Undef /\ Top.o0 = src[f]
             /\ pos = f + 1 /\ KindAt(f) \in VAL /\ KindAt(f + 1) # "SP"
    <3>1. src[f].k = KindAt(f)
      BY <1>2, ReadingHere, KindIs
    <3>2. src[f] # NoToken
      BY <2>2, <3>1 DEF NoToken, EndOfSource, VAL
    <3>3. value = ResolveVal(src[f])
      BY <1>4, <2>2, <3>2
    <3>4. FieldRead(f, f + 1, ResolveVal(src[f]))
      BY <1>2, <2>2, ValueAlone
    <3>5. QED
      BY <2>2, <3>3, <3>4
  <2>3. QED
    BY <1>1, <1>3, <2>1, <2>2 DEF ValSays
<1>6. PICK v : v = [[Top EXCEPT !.node = value] EXCEPT !.at = "close"]
  OBVIOUS
<1>7. v \in Frame /\ v.rule = "val" /\ v.at = "close" /\ v.pushed = Top.pushed /\ v.node = value
  <2>1. value \in Node
    BY <1>5 DEF FieldRead, Node
  <2>2. QED
    BY <1>1, <1>2, <1>6, <2>1 DEF Frame, Phase
<1>8. Given(v)
  <2>1. stack' = [stack EXCEPT ![Depth] = v]
    BY <1>4, <1>6 DEF ValBC, Advance
  <2>2. QED
    BY <1>7, <2>1, GivenIs
<1>9. stack'[4] = stack[4] /\ stack'[5] = v /\ Len(stack') = 5
  BY <1>2, <1>8 DEF Given
<1>10. ValSays("close", pos', f, v)
  BY <1>1, <1>5, <1>7 DEF ValSays
<1>11. Says(stack', heap', pos', recordI')
  BY <1>1, <1>3, <1>7, <1>9, <1>10, SaysThen
<1>12. Waiting(stack')
  BY <1>1, <1>2, <1>7, <1>8, WaitingGiven
<1>13. QED
  BY <1>11, <1>12 DEF Goes

LEMMA ValEnds ==
  ASSUME ReadingInv, CloseReplace \/ ClosePop, Top.rule = "val"
  PROVE  Goes
<1>1. /\ SourceOK /\ pos \in Nat \ {0} /\ Inv /\ Depth = 5
      /\ Len(src) \in Nat
  BY ReadingHere, DepthOf
<1>2. Running("close") /\ outcome = "run" /\ Top.at = "close" /\ Top = stack[5]
  BY <1>1, CloseIs, ReadingHere DEF Running
<1>3. PICK alt \in AltsOf(TopCloseAlts) :
        /\ Choose(TopCloseAlts, alt) /\ AltOK(Top.rule, alt)
        /\ alt.r # "" => Swapped(alt)
        /\ alt.r = "" => Depth > 1 /\ Pops(alt)
  BY <1>1, CloseIs
<1>4. PICK s, f \in 1 .. Len(src) :
        Pending(s, f, recordI, stack[4], heap) /\ ValSays(Top.at, pos, f, Top)
  BY <1>2, ValHere
<1>5. Does(alt, 0, 0, "", "", "")
  BY <1>3, RunningAlts, OtherwiseCloses
<1>6. Pops(alt) /\ Len(alt.s) = 0 /\ alt.b = 0 /\ alt.a = ""
  BY <1>3, <1>5 DEF Does
<1>7. pos' = pos /\ recordI' = recordI /\ heap' = heap /\ Acted(alt).node = Top.node
  <2>1. pos' = pos + 0 - 0 /\ recordI' = recordI /\ heap' = HeapAfter(alt)
    BY <1>6 DEF Pops, Reads
  <2>2. HeapAfter(alt) = heap /\ Acted(alt).node = Top.node
    BY <1>1, <1>2, <1>3, <1>6, NoAction
  <2>3. pos + 0 - 0 = pos
    BY <1>1
  <2>4. QED
    BY <2>1, <2>2, <2>3
<1>8. PICK g : /\ g = stack'[4] /\ Len(stack') = 4 /\ g.rule = "elem" /\ g.at = "bc"
               /\ g.node = stack[4].node /\ (g.done <=> stack[4].done) /\ g.kid = Top.node
  <2>1. Depth - 1 = 4 /\ Depth > 1
    BY <1>1
  <2>2. Len(stack') = Depth - 1 /\ BelowKept(stack') /\ KidSees(stack', Acted(alt).node)
    BY <1>6 DEF Pops
  <2>3. SameBut(stack'[4], stack[4])
    BY <2>1, <2>2 DEF BelowKept
  <2>4. stack[4].rule = "elem" /\ stack[4].at = "bc" /\ stack[5].pushed
    BY <1>1, <1>2, BelowIs
  <2>5. stack'[4].kid = Top.node
    BY <1>2, <1>7, <2>1, <2>2, <2>4 DEF KidSees
  <2>6. QED
    BY <2>1, <2>2, <2>3, <2>4, <2>5 DEF SameBut
<1>9. FieldRead(f, pos, Top.node)
  BY <1>2, <1>4 DEF ValSays
<1>10. InField(s, f, recordI, heap[g.node.a]) /\ ~g.done
  BY <1>4, <1>8 DEF Pending
<1>11. ElemSays("bc", pos', recordI', g, heap')
  BY <1>7, <1>8, <1>9, <1>10 DEF ElemSays
<1>12. Says(stack', heap', pos', recordI')
  BY <1>8, <1>11, SaysThen
<1>13. Waiting(stack')
  <2>1. Len(stack') = Depth - 1 /\ BelowKept(stack')
    BY <1>6 DEF Pops
  <2>2. Len(stack') # Depth
    BY <1>1, <2>1
  <2>3. QED
    BY <1>2, <2>1, <2>2, WaitingBelow
<1>14. QED
  BY <1>12, <1>13 DEF Goes

\* text

LEMMA TextHere ==
  ASSUME ReadingInv, outcome = "run", Top.rule = "text"
  PROVE  \E s, f \in 1 .. Len(src) :
           /\ Pending(s, f, recordI, stack[4], heap) /\ KindAt(f) \notin {"CA", "LN"}
           /\ Top.at = "open" => TextRead(f, pos, Top.n, Top.node)
           /\ Top.at \in {"bc", "close"} => FieldRead(f, pos, Top.node)
           /\ Top.at = "close" => stack[5].node = Top.node
<1>1. PICK s, f \in 1 .. Len(src) :
        Pending(s, f, recordI, stack[4], heap) /\ TextSays(Top.at, pos, f, Top, stack[5])
  BY SaysNow
<1>2. KindAt(f) \notin {"CA", "LN"}
  BY <1>1 DEF Pending, TextSays
<1>3. QED
  BY <1>1, <1>2 DEF TextSays

LEMMA TextFills ==
  ASSUME ReadingInv, TextBC
  PROVE  Goes
<1>1. /\ outcome = "run" /\ pos' = pos /\ recordI' = recordI /\ heap' = heap
  BY DEF TextBC, Running
<1>2. /\ Depth = 6 /\ Len(stack') = 6 /\ Top.at = "bc" /\ Top.rule = "text"
      /\ stack'[4] = stack[4]
      /\ stack'[6].at = "close" /\ stack'[6].rule = "text" /\ stack'[6].node = Top.node
      /\ stack'[5].node = Top.node
  BY TextGiven
<1>3. PICK s, f \in 1 .. Len(src) :
        /\ Pending(s, f, recordI, stack[4], heap) /\ KindAt(f) \notin {"CA", "LN"}
        /\ FieldRead(f, pos, Top.node)
  BY <1>1, <1>2, TextHere
<1>4. TextSays("close", pos', f, stack'[6], stack'[5])
  BY <1>1, <1>2, <1>3 DEF TextSays
<1>5. Says(stack', heap', pos', recordI')
  BY <1>1, <1>2, <1>3, <1>4, SaysThen
<1>6. Waiting(stack')
  BY <1>1, WaitingText
<1>7. QED
  BY <1>5, <1>6 DEF Goes

LEMMA TextLeaves ==
  ASSUME ReadingInv, CloseReplace \/ ClosePop, Top.rule = "text"
  PROVE  Goes
<1>1. /\ SourceOK /\ pos \in Nat \ {0} /\ Inv /\ Depth = 6
      /\ Len(src) \in Nat
  BY ReadingHere, DepthOf
<1>2. Running("close") /\ outcome = "run" /\ Top.at = "close" /\ Top = stack[6]
  BY <1>1, CloseIs, ReadingHere DEF Running
<1>3. PICK alt \in AltsOf(TopCloseAlts) :
        /\ Choose(TopCloseAlts, alt) /\ AltOK(Top.rule, alt)
        /\ alt.r # "" => Swapped(alt)
        /\ alt.r = "" => Depth > 1 /\ Pops(alt)
  BY <1>1, CloseIs
<1>4. PICK s, f \in 1 .. Len(src) :
        /\ Pending(s, f, recordI, stack[4], heap) /\ KindAt(f) \notin {"CA", "LN"}
        /\ FieldRead(f, pos, Top.node) /\ stack[5].node = Top.node
  BY <1>2, TextHere
<1>5. Does(alt, 0, 0, "", "", "")
  BY <1>3, RunningAlts, OtherwiseCloses
<1>6. Pops(alt) /\ Len(alt.s) = 0 /\ alt.b = 0 /\ alt.a = ""
  BY <1>3, <1>5 DEF Does
<1>7. pos' = pos /\ recordI' = recordI /\ heap' = heap
  <2>1. pos' = pos + 0 - 0 /\ recordI' = recordI /\ heap' = HeapAfter(alt)
    BY <1>6 DEF Pops, Reads
  <2>2. HeapAfter(alt) = heap
    BY <1>1, <1>2, <1>3, <1>6, NoAction
  <2>3. pos + 0 - 0 = pos
    BY <1>1
  <2>4. QED
    BY <2>1, <2>2, <2>3
<1>8. /\ Len(stack') = 5 /\ stack'[4] = stack[4]
      /\ stack'[5].rule = "val" /\ stack'[5].at = "bc" /\ stack'[5].node = Top.node
  <2>1. Depth - 1 = 5 /\ Depth > 1 /\ 4 \in 1 .. Depth - 2
    BY <1>1
  <2>2. Len(stack') = Depth - 1 /\ BelowKept(stack')
    BY <1>6 DEF Pops
  <2>3. SameBut(stack'[5], stack[5]) /\ stack'[4] = stack[4]
    BY <2>1, <2>2 DEF BelowKept
  <2>4. stack[5].rule = "val" /\ stack[5].at = "bc"
    BY <1>1, <1>2, BelowIs
  <2>5. QED
    BY <1>4, <2>1, <2>2, <2>3, <2>4 DEF SameBut
<1>9. ValSays("bc", pos', f, stack'[5])
  BY <1>4, <1>7, <1>8 DEF ValSays
<1>10. Says(stack', heap', pos', recordI')
  BY <1>4, <1>7, <1>8, <1>9, SaysThen
<1>11. Waiting(stack')
  <2>1. Len(stack') = Depth - 1 /\ BelowKept(stack')
    BY <1>6 DEF Pops
  <2>2. Len(stack') # Depth
    BY <1>1, <2>1
  <2>3. QED
    BY <1>2, <2>1, <2>2, WaitingBelow
<1>12. QED
  BY <1>10, <1>11 DEF Goes

\* The text once an alternate of the text rule has joined its piece.
TextNow(alt) ==
  /\ Acted(alt).n = Top.n + 1
  /\ Acted(alt).node = Text((IF Top.n = 0 THEN <<>> ELSE Top.node.t)
                              \o TextPiece(alt.a, Top.n + 1))

LEMMA TextNext ==
  ASSUME Inv, Top.at # "bo", NEW alt, AltOK(Top.rule, alt), alt.a \in TextActions
  PROVE  TextNow(alt) /\ HeapAfter(alt) = heap
<1>1. Acted(alt).n = Top.n + alt.n /\ Acted(alt).node = JoinedText(alt.a, Top.n + alt.n)
  BY ActedIs
<1>2. alt.n = 1
  BY DEF AltOK
<1>3. Top.n \in Nat
  <2>1. Top \in Frame
    BY TopType
  <2>2. QED
    BY <2>1 DEF Frame
<1>4. PICK m : m = Top.n + 1
  OBVIOUS
<1>5. m = 1 <=> Top.n = 0
  BY <1>3, <1>4
<1>6. JoinedText(alt.a, m) = Text((IF Top.n = 0 THEN <<>> ELSE Top.node.t) \o TextPiece(alt.a, m))
  BY <1>5 DEF JoinedText
<1>7. alt.a \notin EmptyActions
  BY DEF TextActions, EmptyActions
<1>8. HeapAfter(alt) = heap
  BY <1>7 DEF HeapAfter
<1>9. QED
  BY <1>1, <1>2, <1>4, <1>6, <1>8 DEF TextNow

LEMMA TextGoes ==
  ASSUME ReadingInv, OpenPush \/ OpenReplace \/ OpenStay, Top.rule = "text"
  PROVE  Goes
<1>1. /\ SourceOK /\ pos \in Nat \ {0} /\ Inv /\ Depth = 6
      /\ Len(src) \in Nat /\ Top \in Frame
  BY ReadingHere, DepthOf
<1>2. Running("open") /\ outcome = "run" /\ Top.at = "open" /\ Top = stack[6]
  BY <1>1, OpenIs, ReadingHere DEF Running
<1>3. PICK alt \in AltsOf(TopOpenAlts) :
        /\ Choose(TopOpenAlts, alt) /\ AltOK(Top.rule, alt)
        /\ alt.p # "" => Pushes(alt)
        /\ alt.p = "" /\ alt.r # "" => Swapped(alt)
        /\ alt.p = "" /\ alt.r = "" => Stayed(alt)
  BY <1>1, OpenIs
<1>4. PICK s, f \in 1 .. Len(src) :
        /\ Pending(s, f, recordI, stack[4], heap) /\ KindAt(f) \notin {"CA", "LN"}
        /\ TextRead(f, pos, Top.n, Top.node)
  BY <1>2, TextHere
<1>5. Top.n \in Nat /\ Top.at # "bo"
  BY <1>1, <1>2 DEF Frame
<1>6. ASSUME NEW p \in Nat \ {0}, KindAt(p) # "ZZ"
      PROVE  p <= Len(src)
  <2>1. ~(p > Len(src))
    BY <1>1, <1>6, KindIs
  <2>2. QED
    BY <1>1, <2>1
<1>7. Choose(TextOpen, alt)
  BY <1>3, RunningAlts
<1>8. ASSUME Len(stack') = Depth, BelowKept(stack')
      PROVE  stack'[4] = stack[4] /\ Len(stack') = 6 /\ Waiting(stack')
  <2>1. 4 \in 1 .. Depth - 2 /\ Depth # 4 /\ Depth # 5
    BY <1>1
  <2>2. stack'[4] = stack[4]
    BY <1>8, <2>1 DEF BelowKept
  <2>3. Waiting(stack')
    BY <1>2, <1>8, <2>1, WaitingBelow
  <2>4. QED
    BY <1>1, <1>8, <2>2, <2>3
<1>9. ASSUME Swapped(alt), alt.r = "text", alt.a \in TextActions, heap' = heap,
             TextRead(f, pos', Top.n + 1, Acted(alt).node)
      PROVE  Goes
  <2>1. /\ Len(stack') = Depth /\ BelowKept(stack') /\ recordI' = recordI
        /\ stack'[Depth] = NewFrame("text", Acted(alt).node, Acted(alt).n, FALSE)
    BY <1>9 DEF Swapped, Reads
  <2>2. TextNow(alt)
    BY <1>1, <1>3, <1>5, <1>9, TextNext
  <2>3. PICK t : /\ t = stack'[6] /\ t.rule = "text" /\ t.at = "open"
                 /\ t.n = Acted(alt).n /\ t.node = Acted(alt).node
    <3>1. PICK t : t = NewFrame("text", Acted(alt).node, Acted(alt).n, FALSE)
      OBVIOUS
    <3>2. t.rule = "text" /\ t.at = "open" /\ t.n = Acted(alt).n /\ t.node = Acted(alt).node
      BY <3>1 DEF NewFrame, FirstPhase, HasBO
    <3>3. QED
      BY <1>1, <2>1, <3>1, <3>2
  <2>4. TextRead(f, pos', t.n, t.node)
    BY <1>9, <2>2, <2>3 DEF TextNow
  <2>5. TextSays("open", pos', f, t, stack'[5])
    BY <1>4, <2>4 DEF TextSays
  <2>6. stack'[4] = stack[4] /\ Len(stack') = 6 /\ Waiting(stack')
    BY <1>8, <2>1
  <2>7. Says(stack', heap', pos', recordI')
    BY <1>4, <1>9, <2>1, <2>3, <2>5, <2>6, SaysThen
  <2>8. QED
    BY <2>6, <2>7 DEF Goes
<1>10. ASSUME Stayed(alt), heap' = heap, FieldRead(f, pos', Acted(alt).node)
       PROVE  Goes
  <2>1. /\ Len(stack') = Depth /\ BelowKept(stack') /\ recordI' = recordI
        /\ stack'[Depth] = [Acted(alt) EXCEPT !.at = AfterOpen(Top.rule)]
    BY <1>10 DEF Stayed, Reads
  <2>2. PICK t : /\ t = stack'[6] /\ t.rule = "text" /\ t.at = "bc" /\ t.node = Acted(alt).node
    <3>1. Acted(alt) \in Frame /\ Acted(alt).rule = "text"
      BY <1>1, <1>3, <1>5, ActedIs
    <3>2. PICK g : g = Acted(alt) /\ g \in Frame /\ g.rule = "text"
      BY <3>1
    <3>3. PICK t : t = [g EXCEPT !.at = AfterOpen(Top.rule)]
      OBVIOUS
    <3>4. AfterOpen(Top.rule) = "bc"
      BY DEF AfterOpen, HasBC
    <3>5. t.rule = "text" /\ t.at = "bc" /\ t.node = g.node
      BY <3>2, <3>3, <3>4 DEF Frame
    <3>6. QED
      BY <1>1, <2>1, <3>2, <3>3, <3>5
  <2>3. TextSays("bc", pos', f, t, stack'[5])
    BY <1>4, <1>10, <2>2 DEF TextSays
  <2>4. stack'[4] = stack[4] /\ Len(stack') = 6 /\ Waiting(stack')
    BY <1>8, <2>1
  <2>5. Says(stack', heap', pos', recordI')
    BY <1>4, <1>10, <2>1, <2>2, <2>3, <2>4, SaysThen
  <2>6. QED
    BY <2>4, <2>5 DEF Goes
<1>11. CASE /\ KindAt(pos) \in VAL /\ KindAt(pos + 1) = "SP"
            /\ Does(alt, 2, 1, "", "text", "text-follows")
  <2>1. Swapped(alt) /\ alt.r = "text" /\ alt.a = "text-follows" /\ Len(alt.s) = 2 /\ alt.b = 1
    BY <1>3, <1>11 DEF Does
  <2>2. alt.a \in TextActions
    BY <2>1 DEF TextActions
  <2>3. pos' = pos + 1 /\ heap' = heap
    <3>1. pos' = pos + 2 - 1 /\ heap' = HeapAfter(alt)
      BY <2>1 DEF Swapped, Reads
    <3>2. HeapAfter(alt) = heap
      BY <1>1, <1>3, <1>5, <2>2, TextNext
    <3>3. pos + 2 - 1 = pos + 1
      BY <1>1
    <3>4. QED
      BY <3>1, <3>2, <3>3
  <2>4. Tok(1) = src[pos]
    <3>1. "ZZ" \notin VAL
      BY DEF VAL
    <3>2. KindAt(pos) # "ZZ"
      BY <1>11, <3>1
    <3>3. pos <= Len(src)
      BY <1>1, <1>6, <3>2
    <3>4. QED
      BY <1>1, <3>3, TokIs
  <2>5. Acted(alt).node = Text((IF Top.n = 0 THEN <<>> ELSE Top.node.t) \o FollowsText(src[pos]))
    <3>1. TextNow(alt)
      BY <1>1, <1>3, <1>5, <2>2, TextNext
    <3>2. TextPiece(alt.a, Top.n + 1) = FollowsText(src[pos])
      BY <2>1, <2>4 DEF TextPiece
    <3>3. QED
      BY <3>1, <3>2, Zenon DEF TextNow
  <2>6. TextRead(f, pos + 1, Top.n + 1, Acted(alt).node)
    <3>1. pos \in Nat
      BY <1>1
    <3>2. QED
      BY <1>1, <1>4, <1>5, <1>11, <2>5, <3>1, TextFollows, Zenon
  <2>7. QED
    BY <1>9, <2>1, <2>2, <2>3, <2>6
<1>12. CASE /\ KindAt(pos) = "SP" /\ KindAt(pos + 1) \in VAL
            /\ Does(alt, 2, 0, "", "text", "text-leads")
  <2>1. Swapped(alt) /\ alt.r = "text" /\ alt.a = "text-leads" /\ Len(alt.s) = 2 /\ alt.b = 0
    BY <1>3, <1>12 DEF Does
  <2>2. alt.a \in TextActions
    BY <2>1 DEF TextActions
  <2>3. pos' = pos + 2 /\ heap' = heap
    <3>1. pos' = pos + 2 - 0 /\ heap' = HeapAfter(alt)
      BY <2>1 DEF Swapped, Reads
    <3>2. HeapAfter(alt) = heap
      BY <1>1, <1>3, <1>5, <2>2, TextNext
    <3>3. pos + 2 - 0 = pos + 2
      BY <1>1
    <3>4. QED
      BY <3>1, <3>2, <3>3
  <2>4. Tok(1) = src[pos] /\ Tok(2) = src[pos + 1]
    <3>1. "ZZ" \notin VAL
      BY DEF VAL
    <3>2. pos + 1 \in Nat \ {0}
      BY <1>1
    <3>3. KindAt(pos + 1) # "ZZ"
      BY <1>12, <3>1
    <3>4. pos + 1 <= Len(src)
      BY <1>6, <3>2, <3>3
    <3>5. pos <= Len(src)
      BY <1>1, <3>4
    <3>6. QED
      BY <1>1, <3>4, <3>5, TokIs
  <2>5. Acted(alt).node = Text((IF Top.n = 0 THEN <<>> ELSE Top.node.t)
                                 \o ((IF Top.n # 0 \/ ~opts.trim THEN src[pos].src ELSE <<>>)
                                       \o src[pos + 1].src))
    <3>1. TextNow(alt)
      BY <1>1, <1>3, <1>5, <2>2, TextNext
    <3>2. PICK m : m = Top.n + 1
      OBVIOUS
    <3>3. m >= 2 <=> Top.n # 0
      BY <1>5, <3>2
    <3>4. TextPiece(alt.a, m) = (IF Top.n # 0 \/ ~opts.trim THEN src[pos].src ELSE <<>>)
                                  \o src[pos + 1].src
      BY <2>1, <2>4, <3>3 DEF TextPiece
    <3>5. QED
      BY <3>1, <3>2, <3>4, Zenon DEF TextNow
  <2>6. TextRead(f, pos + 2, Top.n + 1, Acted(alt).node)
    <3>1. pos \in Nat
      BY <1>1
    <3>2. QED
      BY <1>1, <1>4, <1>5, <1>12, <2>5, <3>1, TextLeads, Zenon
  <2>7. QED
    BY <1>9, <2>1, <2>2, <2>3, <2>6
<1>13. CASE /\ KindAt(pos) = "SP" /\ KindAt(pos + 1) \in {"CA", "LN", "ZZ"}
            /\ Does(alt, 2, 1, "", "", "text-end")
  <2>1. Stayed(alt) /\ alt.a = "text-end" /\ Len(alt.s) = 2 /\ alt.b = 1
    BY <1>3, <1>13 DEF Does
  <2>2. alt.a \in TextActions
    BY <2>1 DEF TextActions
  <2>3. pos' = pos + 1 /\ heap' = heap
    <3>1. pos' = pos + 2 - 1 /\ heap' = HeapAfter(alt)
      BY <2>1 DEF Stayed, Reads
    <3>2. HeapAfter(alt) = heap
      BY <1>1, <1>3, <1>5, <2>2, TextNext
    <3>3. pos + 2 - 1 = pos + 1
      BY <1>1
    <3>4. QED
      BY <3>1, <3>2, <3>3
  <2>4. Tok(1) = src[pos]
    <3>1. KindAt(pos) # "ZZ"
      BY <1>13
    <3>2. pos <= Len(src)
      BY <1>1, <1>6, <3>1
    <3>3. QED
      BY <1>1, <3>2, TokIs
  <2>5. Acted(alt).node = Text((IF Top.n = 0 THEN <<>> ELSE Top.node.t)
                                 \o (IF opts.trim THEN <<>> ELSE src[pos].src))
    <3>1. TextNow(alt)
      BY <1>1, <1>3, <1>5, <2>2, TextNext
    <3>2. TextPiece(alt.a, Top.n + 1) = IF opts.trim THEN <<>> ELSE src[pos].src
      BY <2>1, <2>4 DEF TextPiece
    <3>3. QED
      BY <3>1, <3>2, Zenon DEF TextNow
  <2>6. FieldRead(f, pos + 1, Acted(alt).node)
    <3>1. pos \in Nat
      BY <1>1
    <3>2. QED
      BY <1>1, <1>4, <1>5, <1>13, <2>5, <3>1, TextEnds, Zenon
  <2>7. QED
    BY <1>10, <2>1, <2>3, <2>6
\* The lexer never leaves a space before a space.
<1>14. CASE /\ ~(KindAt(pos) = "SP" /\ KindAt(pos + 1) \in VAL)
            /\ ~(KindAt(pos) = "SP" /\ KindAt(pos + 1) \in {"CA", "LN", "ZZ"})
            /\ KindAt(pos) = "SP"
  <2>1. KindAt(pos + 1) = "SP"
    <3>1. KindAt(pos + 1) \in Kind
      BY <1>1, TokIs
    <3>2. QED
      BY <1>14, <3>1 DEF Kind, VAL
  <2>2. PICK q : q = pos + 1
    OBVIOUS
  <2>3. q \in Nat \ {0}
    BY <1>1, <2>2
  <2>4. /\ pos \in DOMAIN src /\ src[pos].k = "SP"
    <3>1. pos <= Len(src)
      BY <1>1, <1>14, KindIs
    <3>2. QED
      BY <1>1, <1>14, <3>1, KindIs
  <2>5. q <= Len(src) /\ src[q].k = "SP"
    <3>1. KindAt(q) = "SP"
      BY <2>1, <2>2
    <3>2. q <= Len(src)
      BY <1>1, <2>3, <3>1, KindIs
    <3>3. QED
      BY <1>1, <2>3, <3>1, <3>2, KindIs
  <2>6. pos < Len(src)
    BY <1>1, <2>2, <2>5
  <2>7. src[pos + 1].k # "SP"
    BY <1>1, <2>4, <2>6 DEF SourceOK, Lexed
  <2>8. QED
    BY <2>2, <2>5, <2>7
<1>15. CASE /\ ~(KindAt(pos) \in VAL /\ KindAt(pos + 1) = "SP")
            /\ KindAt(pos) # "SP" /\ Does(alt, 0, 0, "", "", "")
  <2>1. Stayed(alt) /\ alt.a = "" /\ Len(alt.s) = 0 /\ alt.b = 0
    BY <1>3, <1>15 DEF Does
  <2>2. HeapAfter(alt) = heap /\ Acted(alt).node = Top.node
    BY <1>1, <1>3, <1>5, <2>1, NoAction
  <2>3. pos' = pos /\ heap' = heap
    <3>1. pos' = pos + 0 - 0 /\ heap' = HeapAfter(alt)
      BY <2>1 DEF Stayed, Reads
    <3>2. pos + 0 - 0 = pos
      BY <1>1
    <3>3. QED
      BY <2>2, <3>1, <3>2
  <2>4. FieldRead(f, pos, Top.node)
    <3>1. pos \in Nat
      BY <1>1
    <3>2. QED
      BY <1>1, <1>4, <1>5, <1>15, <3>1, TextStops
  <2>5. QED
    BY <1>10, <2>1, <2>2, <2>3, <2>4
<1>16. QED
  <2>1. \/ /\ KindAt(pos) \in VAL /\ KindAt(pos + 1) = "SP"
           /\ Does(alt, 2, 1, "", "text", "text-follows")
        \/ /\ KindAt(pos) = "SP" /\ KindAt(pos + 1) \in VAL
           /\ Does(alt, 2, 0, "", "text", "text-leads")
        \/ /\ KindAt(pos) = "SP" /\ KindAt(pos + 1) \in {"CA", "LN", "ZZ"}
           /\ Does(alt, 2, 1, "", "", "text-end")
        \/ /\ ~(KindAt(pos) = "SP" /\ KindAt(pos + 1) \in VAL)
           /\ ~(KindAt(pos) = "SP" /\ KindAt(pos + 1) \in {"CA", "LN", "ZZ"})
           /\ KindAt(pos) = "SP"
        \/ /\ ~(KindAt(pos) \in VAL /\ KindAt(pos + 1) = "SP")
           /\ KindAt(pos) # "SP" /\ Does(alt, 0, 0, "", "", "")
    <3>1. SourceOK /\ pos \in Nat \ {0}
      BY <1>1
    <3>2. QED
      BY <1>7, <3>1, TextOpens, Zenon
  <2>2. QED
    BY <1>11, <1>12, <1>13, <1>14, <1>15, <2>1, Zenon

-----------------------------------------------------------------------------
(* The steps.                                                              *)

\* The csv rule ends the parse, and only so.
LEMMA CsvStays ==
  ASSUME ReadingInv, CloseReplace \/ ClosePop
  PROVE  Top.rule # "csv"
<1>1. SUFFICES ASSUME Top.rule = "csv" PROVE FALSE
  OBVIOUS
<1>2. Inv /\ Depth = 1
  BY <1>1, ReadingHere, DepthOf
<1>3. PICK alt \in AltsOf(TopCloseAlts) :
        /\ Choose(TopCloseAlts, alt)
        /\ alt.r = "" => Depth > 1 /\ Pops(alt)
  BY <1>2, CloseIs
<1>4. Does(alt, 0, 0, "", "", "")
  BY <1>1, <1>3, RunningAlts, OtherwiseCloses
<1>5. QED
  <2>1. alt.r = ""
    BY <1>4 DEF Does
  <2>2. Depth > 1
    BY <1>3, <2>1
  <2>3. QED
    BY <1>2, <2>2

LEMMA StepGoes ==
  ASSUME ReadingInv, Step, outcome' = "run"
  PROVE  Goes
<1>1. Top.rule \in {"csv", "newline", "record", "list", "elem", "val", "text"}
  BY DepthOf DEF Rules
<1>2. CASE CsvBO \/ ListBO \/ ValBO
  BY <1>2, CsvBegins, ListBegins, ValBegins
<1>3. CASE TextBC \/ ValBC \/ ElemBC
  BY <1>3, TextFills, ValFills, ElemFills
<1>4. CASE RecordBC
  <2>1. ~RecordRefused
    BY DEF RecordRefused, Fail, CountError
  <2>2. QED
    BY <1>4, <2>1, RecordMarks DEF RecordBC
<1>5. CASE OpenPush \/ OpenReplace \/ OpenStay
  BY <1>1, <1>5, CsvGoes, NewlineGoes, RecordGoes, ListGoes, ElemGoes, ValGoes, TextGoes
<1>6. CASE CloseReplace \/ ClosePop
  BY <1>1, <1>6, CsvStays, NewlineEnds, RecordEnds, ListEnds, ElemEnds, ValEnds, TextLeaves
<1>7. CASE CsvClose \/ CallbackThrows \/ Unexpected
  BY <1>7 DEF CsvClose, CallbackThrows, Thrown, Unexpected, Fail
<1>8. QED
  BY <1>2, <1>3, <1>4, <1>5, <1>6, <1>7 DEF Step

\* The source and the options stay; the header is read once.
LEMMA StepLeaves ==
  ASSUME ReadingInv, Step
  PROVE  /\ src' = src /\ opts' = opts /\ outcome = "run"
         /\ ~RecordHeader => /\ fields' = fields
                             /\ opts.header => (recordI' > 0 <=> recordI > 0)
<1>1. recordI \in Nat
  BY ReadingHere
<1>2. ASSUME Running("bo"), Top.rule = "csv" PROVE recordI = 0
  BY <1>2, SaysNow DEF Running, CsvSays
<1>3. CASE CsvBO
  BY <1>2, <1>3 DEF CsvBO, Running
<1>4. CASE ListBO \/ ValBO \/ TextBC \/ ValBC \/ ElemBC
  BY <1>4 DEF ListBO, ValBO, TextBC, ValBC, ElemBC, Running
<1>5. CASE RecordBC
  <2>1. CASE RecordHeader
    BY <2>1 DEF RecordHeader, Running
  <2>2. CASE RecordRefused
    BY <2>2 DEF RecordRefused, Fail, Running
  <2>3. CASE RecordRow
    <3>1. /\ src' = src /\ opts' = opts /\ outcome = "run" /\ fields' = fields
          /\ recordI' = recordI + 1 /\ ~IsHeader
      BY <2>3 DEF RecordRow, Running
    <3>2. QED
      BY <1>1, <3>1 DEF IsHeader
  <2>4. QED
    BY <1>5, <2>1, <2>2, <2>3 DEF RecordBC
<1>6. CASE OpenPush \/ OpenReplace \/ OpenStay \/ CloseReplace \/ ClosePop
  BY <1>6 DEF OpenPush, OpenReplace, OpenStay, CloseReplace, ClosePop, Take, Running
<1>7. CASE CsvClose \/ Unexpected
  BY <1>7 DEF CsvClose, Unexpected, Fail, Running
<1>8. CASE CallbackThrows
  <2>1. /\ src' = src /\ opts' = opts /\ fields' = fields /\ outcome = "run"
        /\ recordI' = recordI \/ (Running("bo") /\ Top.rule = "csv" /\ recordI' = 0)
    BY <1>8 DEF CallbackThrows, Thrown, Running
  <2>2. recordI' = recordI
    BY <1>2, <2>1
  <2>3. QED
    BY <2>1, <2>2
<1>9. QED
  BY <1>3, <1>4, <1>5, <1>6, <1>7, <1>8 DEF Step

\* The cells of the first line.
HeaderCells == Doc!CellsOf(Doc!LineStart(1))

LEMMA FixedHeader ==
  ASSUME src' = src, opts' = opts
  PROVE  HeaderCells' = HeaderCells
<1>1. Doc!LineStarts' = Doc!LineStarts
  BY FixedPlaces
<1>2. QED
  BY <1>1, SMTT(30) DEF HeaderCells, Doc!LineStart, Doc!CellsOf, Doc!CellOf, Doc!FieldText,
     Doc!Piece, Doc!AsWritten, Doc!FieldsOf, Doc!FieldAt,
     Doc!FieldStarts, Doc!LineEnd, Doc!Until

LEMMA HeaderStep ==
  ASSUME ReadingInv, HandedInv', Step
  PROVE  HeaderSays'
<1>1. /\ src' = src /\ opts' = opts /\ outcome = "run" /\ HandedInv /\ Inv /\ SourceOK
      /\ recordI \in Nat
  BY StepLeaves, ReadingHere
<1>2. HeaderCells' = HeaderCells
  BY <1>1, FixedHeader
<1>3. CASE RecordHeader
  <2>1. /\ opts.header /\ recordI = 0 /\ recordI' = recordI + 1 /\ heap' = heap
        /\ fields' = Top.kid.a /\ Running("bc") /\ Top.rule = "record"
    BY <1>3 DEF RecordHeader, IsHeader
  <2>2. PICK s \in 1 .. Len(src) : LineDone(s, recordI, pos, heap[Top.kid.a])
    BY <2>1, RecordLine
  <2>3. s \in Doc!LineStarts /\ CountBefore(Doc!LineStarts, s) = 0
        /\ heap[Top.kid.a] = Doc!CellsOf(s)
    BY <2>1, <2>2 DEF LineDone, InLine
  <2>4. Doc!LineStart(1) = s
    <3>1. Nth(Doc!LineStarts, CountBefore(Doc!LineStarts, s) + 1) = s
      BY <1>1, <2>3, StartsIn, NthIs
    <3>2. CountBefore(Doc!LineStarts, s) + 1 = 1
      BY <2>3
    <3>3. QED
      BY <3>1, <3>2, SameOps DEF Doc!LineStart
  <2>5. fields' # 0
    BY <1>1, <2>1, RecordSeen DEF Ref
  <2>6. heap'[fields'] = HeaderCells'
    BY <1>2, <2>1, <2>3, <2>4 DEF HeaderCells
  <2>7. recordI' > 0
    BY <2>1
  <2>8. QED
    BY <1>1, <2>1, <2>5, <2>6, <2>7 DEF HeaderSays, HeaderCells
<1>4. CASE ~RecordHeader
  <2>1. fields' = fields /\ (opts.header => (recordI' > 0 <=> recordI > 0))
    BY <1>4, StepLeaves
  <2>2. fields # 0 => heap'[fields] = heap[fields]
    <3>1. fields = 0 \/ fields \in 2 .. Len(heap)
      BY <1>1 DEF Inv
    <3>2. fields \in GivenAway
      BY DEF GivenAway
    <3>3. QED
      BY <1>1, <3>1, <3>2, StepSpares
  <2>3. IF opts.header /\ recordI > 0 THEN fields # 0 /\ heap[fields] = HeaderCells ELSE fields = 0
    BY DEF ReadingInv, HeaderSays, HeaderCells
  <2>4. IF opts'.header /\ recordI' > 0 THEN fields' # 0 /\ heap'[fields'] = HeaderCells' ELSE fields' = 0
    BY <1>1, <1>2, <2>1, <2>2, <2>3
  <2>5. QED
    BY <2>4 DEF HeaderSays, HeaderCells
<1>5. QED
  BY <1>3, <1>4

LEMMA ReadingStep ==
  ASSUME ReadingInv, [Next]_vars
  PROVE  ReadingInv'
<1>1. HandedInv'
  BY StepHanded DEF ReadingInv
<1>2. CASE Step
  <2>1. src' = src /\ opts' = opts /\ outcome = "run"
    BY <1>2, StepLeaves
  <2>2. HeaderSays'
    BY <1>1, <1>2, HeaderStep
  <2>3. Lexed(src)'
    <3>1. Lexed(src)
      BY DEF ReadingInv
    <3>2. QED
      BY <2>1, <3>1 DEF Lexed
  <2>4. outcome' = "run" => Waiting(stack)' /\ Says(stack, heap, pos, recordI)'
    <3>1. SUFFICES ASSUME outcome' = "run" PROVE Waiting(stack)' /\ Says(stack, heap, pos, recordI)'
      OBVIOUS
    <3>2. Waiting(stack') /\ Says(stack', heap', pos', recordI')
      BY <1>2, <3>1, StepGoes DEF Goes
    <3>3. Says(stack, heap, pos, recordI)'
      BY <2>1, <3>2, Anew
    <3>4. Waiting(stack)'
      BY <3>2 DEF Waiting
    <3>5. QED
      BY <3>3, <3>4
  <2>5. QED
    BY <1>1, <2>2, <2>3, <2>4 DEF ReadingInv
<1>3. CASE UNCHANGED vars
  <2>1. src' = src /\ opts' = opts /\ UNCHANGED <<pos, stack, heap, fields, recordI, outcome>>
    BY <1>3 DEF vars
  <2>2. HeaderSays'
    <3>1. HeaderCells' = HeaderCells
      BY <2>1, FixedHeader
    <3>2. IF opts.header /\ recordI > 0 THEN fields # 0 /\ heap[fields] = HeaderCells ELSE fields = 0
      BY DEF ReadingInv, HeaderSays, HeaderCells
    <3>3. IF opts'.header /\ recordI' > 0 THEN fields' # 0 /\ heap'[fields'] = HeaderCells' ELSE fields' = 0
      BY <2>1, <3>1, <3>2
    <3>4. QED
      BY <3>3 DEF HeaderSays, HeaderCells
  <2>3. Lexed(src)'
    <3>1. Lexed(src)
      BY DEF ReadingInv
    <3>2. QED
      BY <2>1, <3>1 DEF Lexed
  <2>4. outcome' = "run" => Waiting(stack)' /\ Says(stack, heap, pos, recordI)'
    <3>1. SUFFICES ASSUME outcome' = "run" PROVE Waiting(stack)' /\ Says(stack, heap, pos, recordI)'
      OBVIOUS
    <3>2. Waiting(stack) /\ Says(stack, heap, pos, recordI)
      BY <2>1, <3>1 DEF ReadingInv
    <3>3. Says(stack', heap', pos', recordI')
      BY <2>1, <3>2
    <3>4. Says(stack, heap, pos, recordI)'
      BY <2>1, <3>3, Anew
    <3>5. Waiting(stack)'
      BY <2>1, <3>2 DEF Waiting
    <3>6. QED
      BY <3>4, <3>5
  <2>5. QED
    BY <1>1, <2>2, <2>3, <2>4 DEF ReadingInv
<1>4. QED
  BY <1>2, <1>3 DEF Next, Returned

LEMMA ReadingInit ==
  ASSUME Init
  PROVE  ReadingInv
<1>1. HandedInv
  BY InitHanded
<1>2. Lexed(src)
  BY LexerAssumption DEF Init
<1>3. HeaderSays
  BY DEF Init, HeaderSays
<1>4. PICK f : f = NewFrame("csv", Undef, 0, FALSE)
  OBVIOUS
<1>5. f.rule = "csv" /\ f.at = "bo"
  BY <1>4 DEF NewFrame, FirstPhase, HasBO
<1>6. stack = <<f>> /\ Len(stack) = 1 /\ stack[1] = f /\ pos = 1 /\ recordI = 0
  BY <1>4 DEF Init
<1>7. Waiting(stack)
  BY <1>6 DEF Waiting
<1>8. CsvSays(f.at, pos, recordI)
  BY <1>5, <1>6 DEF CsvSays
<1>9. Says(stack, heap, pos, recordI)
  BY <1>5, <1>6, <1>8 DEF Says
<1>10. QED
  BY <1>1, <1>2, <1>3, <1>7, <1>9 DEF ReadingInv

\* At every step the callbacks hold what CsvRecords says of the source read.
LEMMA ReadingInvariance == Spec => []ReadingInv
<1>1. Init => ReadingInv
  BY ReadingInit
<1>2. ReadingInv /\ [Next]_vars => ReadingInv'
  BY ReadingStep
<1>3. QED
  BY <1>1, <1>2, PTL DEF Spec

-----------------------------------------------------------------------------
(* Lines that are read, and the one that is refused.                       *)

\* The next line of CsvRecords is the one the rules are in.
LEMMA LineAt ==
  ASSUME SourceOK, NEW s, NEW r, InLine(s, r)
  PROVE  /\ r \in Nat /\ r < Doc!LineCount /\ Doc!LineStart(r + 1) = s
         /\ Doc!LineCount \in Nat
<1>1. s \in Doc!LineStarts /\ CountBefore(Doc!LineStarts, s) = r
  BY DEF InLine
<1>2. PICK S \in SUBSET Nat : S = Doc!LineStarts /\ IsFiniteSet(S)
  BY StartsIn
<1>3. /\ Nth(S, CountBefore(S, s) + 1) = s
      /\ CountBefore(S, s) \in Nat /\ CountBefore(S, s) + 1 \in 1 .. Cardinality(S)
  BY <1>1, <1>2, NthIs
<1>4. Nth(S, r + 1) = s /\ r \in Nat /\ r + 1 \in 1 .. Cardinality(S)
  BY <1>1, <1>2, <1>3
<1>5. Doc!LineCount = Cardinality(S) /\ Doc!LineStart(r + 1) = Nth(S, r + 1)
  BY <1>2, SameOps DEF Doc!LineCount, Doc!LineStart
<1>6. Cardinality(S) \in Nat
  BY <1>2, FS_CardinalityType
<1>7. r < Cardinality(S)
  BY <1>4, <1>6
<1>8. QED
  BY <1>4, <1>5, <1>6, <1>7

\* A field that breaks its line.
LEMMA FieldBreaks ==
  ASSUME SourceOK, NEW s \in 1 .. Len(src), NEW f \in Doc!FieldStarts(s),
         ~Doc!WellFormed(Doc!FieldAt(f))
  PROVE  ~AllRead(s)
<1>1. PICK S \in SUBSET Nat : S = Doc!FieldStarts(s) /\ IsFiniteSet(S)
  BY FieldStartsIn
<1>2. /\ Nth(S, CountBefore(S, f) + 1) = f
      /\ CountBefore(S, f) \in Nat /\ CountBefore(S, f) + 1 \in 1 .. Cardinality(S)
  BY <1>1, NthIs
<1>3. PICK n \in 1 .. Cardinality(S) : n = CountBefore(S, f) + 1 /\ Nth(S, n) = f
  BY <1>2
<1>4. Doc!FieldsOf(s) = [m \in 1 .. Cardinality(S) |-> Doc!FieldAt(Nth(S, m))]
  BY <1>1, SameOps DEF Doc!FieldsOf
<1>5. n \in DOMAIN Doc!FieldsOf(s) /\ Doc!FieldsOf(s)[n] = Doc!FieldAt(f)
  BY <1>3, <1>4
<1>6. QED
  BY <1>5 DEF AllRead

\* An alternate that asks for no token takes any.
LEMMA AnyMatches ==
  ASSUME NEW alts, NEW i \in DOMAIN alts, Matches(alts[i])
  PROVE  ~NoMatch(alts)
BY DEF NoMatch

LEMMA OtherwiseMatches ==
  ASSUME NEW alt, alt.s = <<>>
  PROVE  Matches(alt)
<1>1. DOMAIN alt.s = {}
  OBVIOUS
<1>2. QED
  BY <1>1 DEF Matches

\* The alternates that ask for nothing, and those that ask for one token.
LEMMA Asks ==
  /\ \A empty \in BOOLEAN : \E i \in DOMAIN CsvOpen(empty) : CsvOpen(empty)[i].s = <<>>
  /\ \E i \in DOMAIN NewlineOpen : NewlineOpen[i].s = <<>>
  /\ \E i \in DOMAIN RecordOpen : RecordOpen[i].s = <<>>
  /\ \E i \in DOMAIN ListOpen : ListOpen[i].s = <<>>
  /\ \E i \in DOMAIN ElemOpen : ElemOpen[i].s = <<>>
  /\ \E i \in DOMAIN TextOpen : TextOpen[i].s = <<>>
  /\ \E i \in DOMAIN <<Otherwise>> : <<Otherwise>>[i].s = <<>>
  /\ \E i \in DOMAIN ValOpen : ValOpen[i].s = <<{"SP"}>>
  /\ \E i \in DOMAIN ValOpen : ValOpen[i].s = <<VAL>>
  /\ \A empty : \E i \in DOMAIN RecordClose(empty) : RecordClose(empty)[i].s = <<{"ZZ"}>>
  /\ \A empty : \E i \in DOMAIN RecordClose(empty) : RecordClose(empty)[i].s = <<{"LN"}>>
  /\ \E i \in DOMAIN ListClose : ListClose[i].s = <<{"LN"}>>
  /\ \E i \in DOMAIN ListClose : ListClose[i].s = <<{"ZZ"}>>
  /\ \E i \in DOMAIN ElemClose : ElemClose[i].s = <<{"CA"}>>
  /\ \E i \in DOMAIN ElemClose : ElemClose[i].s = <<{"LN"}>>
  /\ \E i \in DOMAIN ElemClose : ElemClose[i].s = <<{"ZZ"}>>
<1>1. ASSUME NEW empty \in BOOLEAN
      PROVE  \E i \in DOMAIN CsvOpen(empty) : CsvOpen(empty)[i].s = <<>>
  <2>1. PICK x : x = Push(Otherwise, "record")
    OBVIOUS
  <2>2. x.s = <<>>
    BY <2>1 DEF Push, Otherwise, Alt
  <2>3. PICK alts : alts = CsvOpen(empty)
    OBVIOUS
  <2>4. CASE empty
    <3>1. 2 \in DOMAIN alts /\ alts[2] = x
      BY <2>1, <2>3, <2>4 DEF CsvOpen
    <3>2. QED
      BY <2>2, <2>3, <3>1
  <2>5. CASE ~empty
    <3>1. 3 \in DOMAIN alts /\ alts[3] = x
      BY <2>1, <2>3, <2>5 DEF CsvOpen
    <3>2. QED
      BY <2>2, <2>3, <3>1
  <2>6. QED
    BY <2>4, <2>5
<1>2. \E i \in DOMAIN NewlineOpen : NewlineOpen[i].s = <<>>
  <2>1. PICK x : x = Swap(Otherwise, "record")
    OBVIOUS
  <2>2. x.s = <<>>
    BY <2>1 DEF Swap, Otherwise, Alt
  <2>3. 4 \in DOMAIN NewlineOpen /\ NewlineOpen[4] = x
    BY <2>1 DEF NewlineOpen
  <2>4. QED
    BY <2>2, <2>3
<1>3. \E i \in DOMAIN RecordOpen : RecordOpen[i].s = <<>>
  <2>1. PICK x : x = Push(Otherwise, "list")
    OBVIOUS
  <2>2. x.s = <<>>
    BY <2>1 DEF Push, Otherwise, Alt
  <2>3. 1 \in DOMAIN RecordOpen /\ RecordOpen[1] = x
    BY <2>1 DEF RecordOpen
  <2>4. QED
    BY <2>2, <2>3
<1>4. \E i \in DOMAIN ListOpen : ListOpen[i].s = <<>>
  <2>1. PICK x : x = Push(Otherwise, "elem")
    OBVIOUS
  <2>2. x.s = <<>>
    BY <2>1 DEF Push, Otherwise, Alt
  <2>3. 2 \in DOMAIN ListOpen /\ ListOpen[2] = x
    BY <2>1 DEF ListOpen
  <2>4. QED
    BY <2>2, <2>3
<1>5. \E i \in DOMAIN ElemOpen : ElemOpen[i].s = <<>>
  <2>1. PICK x : x = Push(Otherwise, "val")
    OBVIOUS
  <2>2. x.s = <<>>
    BY <2>1 DEF Push, Otherwise, Alt
  <2>3. 2 \in DOMAIN ElemOpen /\ ElemOpen[2] = x
    BY <2>1 DEF ElemOpen
  <2>4. QED
    BY <2>2, <2>3
<1>6. \E i \in DOMAIN TextOpen : TextOpen[i].s = <<>>
  <2>1. PICK x : x = Otherwise
    OBVIOUS
  <2>2. x.s = <<>>
    BY <2>1 DEF Otherwise, Alt
  <2>3. 5 \in DOMAIN TextOpen /\ TextOpen[5] = x
    BY <2>1 DEF TextOpen
  <2>4. QED
    BY <2>2, <2>3
<1>7. \E i \in DOMAIN <<Otherwise>> : <<Otherwise>>[i].s = <<>>
  <2>1. PICK x : x = Otherwise
    OBVIOUS
  <2>2. x.s = <<>>
    BY <2>1 DEF Otherwise, Alt
  <2>3. 1 \in DOMAIN <<Otherwise>> /\ <<Otherwise>>[1] = x
    BY <2>1
  <2>4. QED
    BY <2>2, <2>3
<1>8. \E i \in DOMAIN ValOpen : ValOpen[i].s = <<{"SP"}>>
  <2>1. PICK x : x = Push(Alt(<<{"SP"}>>, 1), "text")
    OBVIOUS
  <2>2. x.s = <<{"SP"}>>
    BY <2>1 DEF Push, Alt
  <2>3. 2 \in DOMAIN ValOpen /\ ValOpen[2] = x
    BY <2>1 DEF ValOpen
  <2>4. QED
    BY <2>2, <2>3
<1>9. \E i \in DOMAIN ValOpen : ValOpen[i].s = <<VAL>>
  <2>1. PICK x : x = Alt(<<VAL>>, 0)
    OBVIOUS
  <2>2. x.s = <<VAL>>
    BY <2>1 DEF Alt
  <2>3. 3 \in DOMAIN ValOpen /\ ValOpen[3] = x
    BY <2>1 DEF ValOpen
  <2>4. QED
    BY <2>2, <2>3
<1>10. ASSUME NEW empty PROVE \E i \in DOMAIN RecordClose(empty) : RecordClose(empty)[i].s = <<{"ZZ"}>>
  <2>1. PICK x : x = Alt(<<{"ZZ"}>>, 0)
    OBVIOUS
  <2>2. x.s = <<{"ZZ"}>>
    BY <2>1 DEF Alt
  <2>3. 1 \in DOMAIN RecordClose(empty) /\ RecordClose(empty)[1] = x
    BY <2>1 DEF RecordClose
  <2>4. QED
    BY <2>2, <2>3
<1>11. ASSUME NEW empty PROVE \E i \in DOMAIN RecordClose(empty) : RecordClose(empty)[i].s = <<{"LN"}>>
  <2>1. PICK x : x = Swap(Alt(<<{"LN"}>>, 0), RecordCloseNext(empty))
    OBVIOUS
  <2>2. x.s = <<{"LN"}>>
    BY <2>1 DEF Swap, Alt
  <2>3. 3 \in DOMAIN RecordClose(empty) /\ RecordClose(empty)[3] = x
    BY <2>1 DEF RecordClose
  <2>4. QED
    BY <2>2, <2>3
<1>12. \E i \in DOMAIN ListClose : ListClose[i].s = <<{"LN"}>>
  <2>1. PICK x : x = Alt(<<{"LN"}>>, 1)
    OBVIOUS
  <2>2. x.s = <<{"LN"}>>
    BY <2>1 DEF Alt
  <2>3. 1 \in DOMAIN ListClose /\ ListClose[1] = x
    BY <2>1 DEF ListClose
  <2>4. QED
    BY <2>2, <2>3
<1>13. \E i \in DOMAIN ListClose : ListClose[i].s = <<{"ZZ"}>>
  <2>1. PICK x : x = Alt(<<{"ZZ"}>>, 0)
    OBVIOUS
  <2>2. x.s = <<{"ZZ"}>>
    BY <2>1 DEF Alt
  <2>3. 2 \in DOMAIN ListClose /\ ListClose[2] = x
    BY <2>1 DEF ListClose
  <2>4. QED
    BY <2>2, <2>3
<1>14. \E i \in DOMAIN ElemClose : ElemClose[i].s = <<{"CA"}>>
  <2>1. PICK x : x = Swap(Alt(<<{"CA"}>>, 0), "elem")
    OBVIOUS
  <2>2. x.s = <<{"CA"}>>
    BY <2>1 DEF Swap, Alt
  <2>3. 2 \in DOMAIN ElemClose /\ ElemClose[2] = x
    BY <2>1 DEF ElemClose
  <2>4. QED
    BY <2>2, <2>3
<1>15. \E i \in DOMAIN ElemClose : ElemClose[i].s = <<{"LN"}>>
  <2>1. PICK x : x = Alt(<<{"LN"}>>, 1)
    OBVIOUS
  <2>2. x.s = <<{"LN"}>>
    BY <2>1 DEF Alt
  <2>3. 3 \in DOMAIN ElemClose /\ ElemClose[3] = x
    BY <2>1 DEF ElemClose
  <2>4. QED
    BY <2>2, <2>3
<1>16. \E i \in DOMAIN ElemClose : ElemClose[i].s = <<{"ZZ"}>>
  <2>1. PICK x : x = Alt(<<{"ZZ"}>>, 0)
    OBVIOUS
  <2>2. x.s = <<{"ZZ"}>>
    BY <2>1 DEF Alt
  <2>3. 4 \in DOMAIN ElemClose /\ ElemClose[4] = x
    BY <2>1 DEF ElemClose
  <2>4. QED
    BY <2>2, <2>3
<1>17. QED
  BY <1>1, <1>2, <1>3, <1>4, <1>5, <1>6, <1>7, <1>8, <1>9, <1>10, <1>11, <1>12, <1>13, <1>14, <1>15, <1>16

\* Every open phase has an alternate for the token it meets.
LEMMA OpenMatches ==
  ASSUME ReadingInv, Running("open")
  PROVE  ~NoMatch(TopOpenAlts)
<1>1. /\ SourceOK /\ pos \in Nat \ {0} /\ outcome = "run" /\ Top.at = "open"
      /\ Top.rule \in {"csv", "newline", "record", "list", "elem", "val", "text"}
  BY ReadingHere, DepthOf DEF Running, Rules
<1>2. PICK alts : alts = TopOpenAlts
  OBVIOUS
<1>3. ASSUME NEW i \in DOMAIN alts, alts[i].s = <<>>
      PROVE  ~NoMatch(alts)
  BY <1>3, AnyMatches, OtherwiseMatches
<1>4. CASE Top.rule = "csv"
  <2>1. alts = CsvOpen(opts.empty) /\ opts.empty \in BOOLEAN
    BY <1>2, <1>4, RunningAlts, ReadingHere
  <2>2. QED
    BY <1>2, <1>3, <2>1, Asks
<1>5. CASE Top.rule = "newline"
  <2>1. alts = NewlineOpen
    BY <1>2, <1>5, RunningAlts
  <2>2. QED
    BY <1>2, <1>3, <2>1, Asks
<1>6. CASE Top.rule = "record"
  <2>1. alts = RecordOpen
    BY <1>2, <1>6, RunningAlts DEF TopOpenAlts, OpenAlts
  <2>2. QED
    BY <1>2, <1>3, <2>1, Asks
<1>7. CASE Top.rule = "list"
  <2>1. alts = ListOpen
    BY <1>2, <1>7, RunningAlts
  <2>2. QED
    BY <1>2, <1>3, <2>1, Asks
<1>8. CASE Top.rule = "elem"
  <2>1. alts = ElemOpen
    BY <1>2, <1>8, RunningAlts
  <2>2. QED
    BY <1>2, <1>3, <2>1, Asks
<1>9. CASE Top.rule = "text"
  <2>1. alts = TextOpen
    BY <1>2, <1>9, RunningAlts
  <2>2. QED
    BY <1>2, <1>3, <2>1, Asks
<1>10. CASE Top.rule = "val"
  <2>1. PICK s, f \in 1 .. Len(src) :
          Pending(s, f, recordI, stack[4], heap) /\ ValSays(Top.at, pos, f, Top)
    BY <1>1, <1>10, ValHere
  <2>2. pos = f /\ KindAt(pos) \notin {"CA", "LN"} /\ pos <= Len(src)
    BY <1>1, <2>1 DEF ValSays, Pending
  <2>3. KindAt(pos) \in VAL \/ KindAt(pos) \in {"SP"}
    <3>1. KindAt(pos) \in Kind
      BY <1>1, KindIs
    <3>2. KindAt(pos) # "ZZ"
      <4>1. Len(src) \in Nat /\ ~(pos > Len(src))
        BY <1>1, <2>2, SourceLen
      <4>2. QED
        BY <1>1, <4>1, KindIs
    <3>3. QED
      BY <2>2, <3>1, <3>2 DEF Kind, VAL
  <2>4. alts = ValOpen
    BY <1>2, <1>10, RunningAlts
  <2>5. PICK i \in DOMAIN alts : alts[i].s = <<{"SP"}>>
    BY <2>4, Asks
  <2>6. PICK j \in DOMAIN alts : alts[j].s = <<VAL>>
    BY <2>4, Asks
  <2>7. Matches(alts[i]) \/ Matches(alts[j])
    <3>1. Matches(alts[i]) <=> KindAt(pos) \in {"SP"}
      BY <1>1, <2>5, MatchIs
    <3>2. Matches(alts[j]) <=> KindAt(pos) \in VAL
      BY <1>1, <2>6, MatchIs
    <3>3. QED
      BY <2>3, <3>1, <3>2
  <2>8. QED
    BY <1>2, <2>7, AnyMatches
<1>11. QED
  BY <1>1, <1>4, <1>5, <1>6, <1>7, <1>8, <1>9, <1>10

\* A close phase has one, too, but for text that goes on in elem.
LEMMA CloseMatches ==
  ASSUME ReadingInv, Running("close"), NoMatch(TopCloseAlts)
  PROVE  Top.rule = "elem" /\ KindAt(pos) \notin {"CA", "LN", "ZZ"}
<1>1. /\ SourceOK /\ pos \in Nat \ {0} /\ outcome = "run" /\ Top.at = "close"
      /\ Top.rule \in {"csv", "newline", "record", "list", "elem", "val", "text"}
      /\ Len(src) \in Nat /\ recordI \in Nat
  BY ReadingHere, DepthOf DEF Running, Rules
<1>2. PICK alts : alts = TopCloseAlts /\ NoMatch(alts)
  OBVIOUS
<1>3. ASSUME NEW i \in DOMAIN alts, NEW kind, alts[i].s = <<{kind}>>
      PROVE  KindAt(pos) # kind
  <2>1. ~Matches(alts[i])
    BY <1>2, <1>3, AnyMatches
  <2>2. KindAt(pos) \notin {kind}
    BY <1>1, <1>3, <2>1, MatchIs
  <2>3. QED
    BY <2>2
<1>4. CASE Top.rule \in {"csv", "val", "text"}
  <2>1. alts = <<Otherwise>>
    BY <1>2, <1>4, RunningAlts
  <2>2. PICK i \in DOMAIN alts : alts[i].s = <<>>
    BY <2>1, Asks
  <2>3. QED
    BY <1>2, <2>2, AnyMatches, OtherwiseMatches
<1>5. CASE Top.rule = "newline"
  <2>1. alts = NewlineOpen
    BY <1>2, <1>5, RunningAlts
  <2>2. PICK i \in DOMAIN alts : alts[i].s = <<>>
    BY <2>1, Asks
  <2>3. QED
    BY <1>2, <2>2, AnyMatches, OtherwiseMatches
<1>6. CASE Top.rule = "record"
  <2>1. KindAt(pos) \in {"LN", "ZZ"}
    BY <1>1, <1>6, SaysNow DEF RecordSays
  <2>2. alts = RecordClose(opts.empty)
    BY <1>2, <1>6, RunningAlts
  <2>3. PICK i \in DOMAIN alts : alts[i].s = <<{"ZZ"}>>
    BY <2>2, Asks
  <2>4. PICK j \in DOMAIN alts : alts[j].s = <<{"LN"}>>
    BY <2>2, Asks
  <2>5. QED
    BY <1>3, <2>1, <2>3, <2>4
<1>7. CASE Top.rule = "list"
  <2>1. ListSays("close", pos, recordI, heap[Top.node.a])
    BY <1>1, <1>7, SaysNow
  <2>2. PICK s \in 1 .. Len(src) : LineDone(s, recordI, pos, heap[Top.node.a])
    BY <2>1 DEF ListSays
  <2>3. KindAt(pos) \in {"LN", "ZZ"}
    BY <1>1, <2>2, LineCounts
  <2>4. alts = ListClose
    BY <1>2, <1>7, RunningAlts
  <2>5. PICK i \in DOMAIN alts : alts[i].s = <<{"LN"}>>
    BY <2>4, Asks
  <2>6. PICK j \in DOMAIN alts : alts[j].s = <<{"ZZ"}>>
    BY <2>4, Asks
  <2>7. QED
    BY <1>3, <2>3, <2>5, <2>6
<1>8. CASE Top.rule = "elem"
  <2>1. alts = ElemClose
    BY <1>2, <1>8, RunningAlts
  <2>2. KindAt(pos) # "CA" /\ KindAt(pos) # "LN" /\ KindAt(pos) # "ZZ"
    <3>1. PICK i \in DOMAIN alts : alts[i].s = <<{"CA"}>>
      BY <2>1, Asks
    <3>2. PICK j \in DOMAIN alts : alts[j].s = <<{"LN"}>>
      BY <2>1, Asks
    <3>3. PICK l \in DOMAIN alts : alts[l].s = <<{"ZZ"}>>
      BY <2>1, Asks
    <3>4. QED
      BY <1>3, <3>1, <3>2, <3>3
  <2>3. QED
    BY <1>8, <2>2
<1>9. QED
  BY <1>1, <1>4, <1>5, <1>6, <1>7, <1>8

\* A token is refused in a line that is to be refused.
LEMMA UnexpectedLine ==
  ASSUME ReadingInv, Unexpected
  PROVE  \E s : InLine(s, recordI) /\ ~AllRead(s)
<1>1. SourceOK /\ Running("close") /\ NoMatch(TopCloseAlts)
  BY OpenMatches, ReadingHere DEF Unexpected
<1>2. Top.rule = "elem" /\ KindAt(pos) \notin {"CA", "LN", "ZZ"}
  BY <1>1, CloseMatches
<1>3. ElemSays("close", pos, recordI, Top, heap)
  BY <1>1, <1>2, SaysNow DEF Running
<1>4. PICK s, f \in 1 .. Len(src) : CellRead(s, f, recordI, pos, heap[Top.node.a])
  BY <1>3 DEF ElemSays
<1>5. InLine(s, recordI) /\ f \in Doc!FieldStarts(s)
  BY <1>4 DEF CellRead
<1>6. ~Doc!WellFormed(Doc!FieldAt(f))
  <2>1. KindAt(FieldEnd(f)) \in {"CA", "LN", "ZZ"}
    BY <1>1, <1>5, FieldOver
  <2>2. QED
    BY <1>2, <1>4, <2>1 DEF CellRead
<1>7. QED
  BY <1>1, <1>5, <1>6, FieldBreaks

-----------------------------------------------------------------------------
(* The records by value.                                                   *)

Collected == [i \in DOMAIN Handed |-> RowValue(Handed[i])]

\* The same, of values that do not move.
RowIn(i, o, evs, hp) == IF o.stream THEN evs[i].row ELSE hp[1][i]
ValueIn(row, hp) ==
  IF row.k = "array" THEN [k |-> "array", cells |-> hp[row.a]]
                     ELSE [k |-> "object", properties |-> Properties(row.o)]
ValuesIn(places, o, evs, hp) ==
  [n \in 1 .. Cardinality(places) |-> ValueIn(RowIn(Nth(places, n), o, evs, hp), hp)]

LEMMA CollectedIs ==
  /\ Collected = ValuesIn(RowPlaces, opts, events, heap)
  /\ Collected' = ValuesIn(RowPlaces', opts', events', heap')
  /\ \A i : RowAt(i) = RowIn(i, opts, events, heap)
  /\ \A i : RowAt(i)' = RowIn(i, opts', events', heap')
<1>1. /\ \A i : RowAt(i) = RowIn(i, opts, events, heap)
      /\ \A i : RowAt(i)' = RowIn(i, opts', events', heap')
  BY DEF RowAt, RowIn
<1>2. Collected = ValuesIn(RowPlaces, opts, events, heap)
  BY DEF Collected, Handed, RowValue, RowAt, ValuesIn, ValueIn, RowIn
<1>3. Collected' = ValuesIn(RowPlaces', opts', events', heap')
  BY DEF Collected, Handed, RowValue, RowAt, ValuesIn, ValueIn, RowIn
<1>4. QED
  BY <1>1, <1>2, <1>3

LEMMA RowPlacesIn ==
  ASSUME Inv
  PROVE  RowPlaces \in SUBSET Nat /\ IsFiniteSet(RowPlaces)
<1>1. CASE opts.stream
  BY <1>1, PlacesFinite
<1>2. CASE ~opts.stream /\ heap = <<>>
  BY <1>2, FS_EmptySet DEF RowPlaces
<1>3. CASE ~opts.stream /\ heap # <<>>
  <2>1. heap[1] \in Seq(Row)
    BY <1>3, HeapType
  <2>2. PICK k \in Nat : k = Len(heap[1]) /\ RowPlaces = 1 .. k
    BY <1>3, <2>1 DEF RowPlaces
  <2>3. IsFiniteSet(1 .. k)
    BY FS_Interval
  <2>4. QED
    BY <2>2, <2>3
<1>4. QED
  BY <1>1, <1>2, <1>3

\* A record that was handed out keeps its value.
LEMMA ValueKept ==
  ASSUME HandedInv, \A a \in 2 .. Len(heap) : a \in GivenAway => heap'[a] = heap[a],
         NEW i \in RowPlaces, RowAt(i)' = RowAt(i)
  PROVE  ValueIn(RowIn(i, opts', events', heap'), heap') = ValueIn(RowIn(i, opts, events, heap), heap)
<1>1. PICK row : row = RowAt(i)
  OBVIOUS
<1>2. RowIn(i, opts', events', heap') = row /\ RowIn(i, opts, events, heap) = row
  BY <1>1, CollectedIs
<1>3. row.k = "array" => heap'[row.a] = heap[row.a]
  <2>1. SUFFICES ASSUME row.k = "array" PROVE heap'[row.a] = heap[row.a]
    OBVIOUS
  <2>2. row.a \in 2 .. Len(heap)
    BY <1>1, <2>1 DEF HandedInv, Separate
  <2>3. row.a \in GivenAway
    BY <1>1, <2>1 DEF GivenAway
  <2>4. QED
    BY <2>2, <2>3
<1>4. ValueIn(row, heap') = ValueIn(row, heap)
  BY <1>3 DEF ValueIn
<1>5. QED
  BY <1>2, <1>4

LEMMA CollectedKept ==
  ASSUME HandedInv, \A a \in 2 .. Len(heap) : a \in GivenAway => heap'[a] = heap[a], RowsKept
  PROVE  Collected' = Collected
<1>1. PICK S \in SUBSET Nat : S = RowPlaces /\ IsFiniteSet(S) /\ S = RowPlaces'
  BY RowPlacesIn DEF HandedInv, RowsKept
<1>2. PICK g, h : g = ValuesIn(S, opts', events', heap') /\ h = ValuesIn(S, opts, events, heap)
  OBVIOUS
<1>3. ASSUME NEW n \in 1 .. Cardinality(S)
      PROVE  ValueIn(RowIn(Nth(S, n), opts', events', heap'), heap')
               = ValueIn(RowIn(Nth(S, n), opts, events, heap), heap)
  <2>1. PICK x \in S : Nth(S, n) = x
    BY <1>1, NthExists
  <2>2. x \in RowPlaces /\ RowAt(x)' = RowAt(x)
    BY <1>1, <2>1 DEF RowsKept
  <2>3. ValueIn(RowIn(x, opts', events', heap'), heap') = ValueIn(RowIn(x, opts, events, heap), heap)
    BY <2>2, ValueKept
  <2>4. QED
    BY <2>1, <2>3
<1>4. ValuesIn(S, opts', events', heap') = ValuesIn(S, opts, events, heap)
  BY <1>3 DEF ValuesIn
<1>5. QED
  BY <1>1, <1>4, CollectedIs

LEMMA CollectedLonger ==
  ASSUME HandedInv, \A a \in 2 .. Len(heap) : a \in GivenAway => heap'[a] = heap[a],
         NEW row, RowAdded(row), NEW value, value = ValueIn(row, heap')
  PROVE  Collected' = Append(Collected, value) /\ Collected' # Collected
<1>1. PICK S \in SUBSET Nat : S = RowPlaces /\ IsFiniteSet(S)
  BY RowPlacesIn DEF HandedInv
<1>2. PICK place \in Nat : /\ RowPlaces' = RowPlaces \union {place} /\ RowAt(place)' = row
                           /\ \A i \in RowPlaces : i < place
  BY DEF RowAdded
<1>3. PICK more : more = S \union {place} /\ more = RowPlaces'
  BY <1>1, <1>2
<1>4. IsAddedLast(S, place, more)
  BY <1>1, <1>2, <1>3, NthLast
<1>5. PICK k \in Nat : k = Cardinality(S)
  BY <1>4 DEF IsAddedLast
<1>6. /\ Cardinality(more) = k + 1 /\ Nth(more, k + 1) = place
      /\ \A n \in 1 .. k : Nth(more, n) = Nth(S, n) /\ Nth(S, n) \in S
  BY <1>4, <1>5 DEF IsAddedLast
<1>7. PICK g : g = Collected'
  OBVIOUS
<1>8. g = [n \in 1 .. k + 1 |-> ValueIn(RowIn(Nth(more, n), opts', events', heap'), heap')]
  BY <1>3, <1>6, <1>7, CollectedIs DEF ValuesIn
<1>9. g[k + 1] = value
  <2>1. k + 1 \in 1 .. k + 1
    BY <1>5
  <2>2. g[k + 1] = ValueIn(RowIn(place, opts', events', heap'), heap')
    BY <1>6, <1>8, <2>1
  <2>3. RowIn(place, opts', events', heap') = row
    BY <1>2, CollectedIs
  <2>4. QED
    BY <2>2, <2>3
<1>10. ASSUME NEW n \in 1 .. k
       PROVE  g[n] = ValueIn(RowIn(Nth(S, n), opts, events, heap), heap)
  <2>1. PICK x \in S : x = Nth(S, n) /\ x = Nth(more, n)
    BY <1>6
  <2>2. x \in RowPlaces /\ RowAt(x)' = RowAt(x)
    BY <1>1, <2>1 DEF RowAdded
  <2>3. ValueIn(RowIn(x, opts', events', heap'), heap') = ValueIn(RowIn(x, opts, events, heap), heap)
    BY <2>2, ValueKept
  <2>4. n \in 1 .. k + 1
    BY <1>5
  <2>5. QED
    BY <1>8, <2>1, <2>3, <2>4
<1>11. PICK h : h = Collected /\ h = [n \in 1 .. k |-> g[n]]
  <2>1. Collected = [n \in 1 .. k |-> ValueIn(RowIn(Nth(S, n), opts, events, heap), heap)]
    BY <1>1, <1>5, CollectedIs DEF ValuesIn
  <2>2. QED
    BY <1>10, <2>1
<1>12. Append(h, value) = [n \in 1 .. k + 1 |-> g[n]]
  BY <1>9, <1>11, AppendIs
<1>13. g = [n \in 1 .. k + 1 |-> g[n]]
  BY <1>8
<1>14. g # h
  <2>1. k + 1 \in DOMAIN g /\ k + 1 \notin DOMAIN h
    BY <1>8, <1>11
  <2>2. QED
    BY <2>1
<1>15. QED
  BY <1>7, <1>11, <1>12, <1>13, <1>14

\* The steps that hand out no record, and those that do.
HandsOut ==
  \/ RecordRow
  \/ /\ CallbackThrows /\ Running("bc") /\ Top.rule = "record"

LEMMA QuietRowsStep ==
  ASSUME HandedInv, Step, ~HandsOut
  PROVE  RowsKept
<1>1. Inv
  BY DEF HandedInv
<1>2. CASE CsvBO
  <2>1. HeapSpared
    BY <1>1, <1>2, HeapLonger DEF CsvBO
  <2>2. [ev |-> "start"] \in Event /\ [ev |-> "start"].ev # "record"
    BY DEF Event
  <2>3. QED
    BY <1>1, <1>2, <2>1, <2>2, EmitRows DEF CsvBO
<1>3. CASE ListBO
  <2>1. HeapSpared
    BY <1>1, <1>3, HeapLonger DEF ListBO
  <2>2. QED
    BY <1>1, <1>3, <2>1, QuietRows DEF ListBO
<1>4. CASE ValBO \/ TextBC \/ ValBC \/ RecordHeader
  <2>1. heap' = heap /\ opts' = opts /\ events' = events
    BY <1>4 DEF ValBO, TextBC, ValBC, RecordHeader
  <2>2. QED
    BY <1>1, <2>1, HeapSame, QuietRows
<1>5. CASE ElemBC
  <2>1. HeapSpared
    BY <1>1, <1>5, HeapSame, HeapFilled DEF ElemBC, Running
  <2>2. QED
    BY <1>1, <1>5, <2>1, QuietRows DEF ElemBC
<1>6. CASE OpenPush \/ OpenReplace \/ OpenStay \/ CloseReplace \/ ClosePop
  <2>1. PICK alt : AltOK(Top.rule, alt) /\ Take(alt) /\ outcome = "run" /\ Top.at # "bo"
    <3>1. CASE OpenPush \/ OpenReplace \/ OpenStay
      BY <1>1, <3>1, OpenAltOK DEF OpenPush, OpenReplace, OpenStay, Running
    <3>2. CASE CloseReplace \/ ClosePop
      BY <1>1, <3>2, OpenAltOK DEF CloseReplace, ClosePop, Running
    <3>3. QED
      BY <1>6, <3>1, <3>2
  <2>2. HeapSpared
    BY <2>1, TakeSpares
  <2>3. events' = events /\ opts' = opts
    BY <1>6, <2>1 DEF OpenPush, OpenReplace, OpenStay, CloseReplace, ClosePop, Take
  <2>4. QED
    BY <1>1, <2>2, <2>3, QuietRows
<1>7. CASE RecordRefused \/ Unexpected
  <2>1. PICK code \in Codes : Fail(code)
    BY <1>7 DEF RecordRefused, Unexpected, CountError, Codes
  <2>2. QED
    BY <1>1, <2>1, FailRows
<1>8. CASE CsvClose
  <2>1. HeapSpared
    BY <1>1, <1>8, HeapSame DEF CsvClose
  <2>2. [ev |-> "end"] \in Event /\ [ev |-> "end"].ev # "record"
    BY DEF Event
  <2>3. QED
    BY <1>1, <1>8, <2>1, <2>2, EmitRows DEF CsvClose
<1>9. CASE CallbackThrows
  <2>1. opts.stream /\ (Thrown([ev |-> "start"]) \/ Thrown([ev |-> "end"]))
    BY <1>9 DEF CallbackThrows, HandsOut
  <2>2. PICK event \in Event : event.ev # "record" /\ Thrown(event)
    <3>1. /\ [ev |-> "start"] \in Event /\ [ev |-> "start"].ev # "record"
          /\ [ev |-> "end"] \in Event /\ [ev |-> "end"].ev # "record"
      BY DEF Event
    <3>2. QED
      BY <2>1, <3>1
  <2>3. PICK calls \in Seq(Event) :
          /\ events' = events \o calls /\ 1 \in DOMAIN calls /\ calls[1] = event
          /\ \A j \in DOMAIN calls \ {1} : calls[j].ev # "record"
    BY <1>1, <2>2, ThrownCalls
  <2>4. opts' = opts
    BY <2>2 DEF Thrown
  <2>5. QED
    BY <1>1, <2>1, <2>2, <2>3, <2>4, CallsWithout
<1>10. QED
  BY <1>2, <1>3, <1>4, <1>5, <1>6, <1>7, <1>8, <1>9 DEF Step, RecordBC, HandsOut

LEMMA HandsOutRow ==
  ASSUME HandedInv, HandsOut
  PROVE  /\ RowAdded(Shaped) /\ Running("bc") /\ Top.rule = "record" /\ ~IsHeader /\ ~WrongCount
         /\ src' = src /\ opts' = opts /\ \A a \in 2 .. Len(heap) : heap'[a] = heap[a]
<1>1. Inv
  BY DEF HandedInv
<1>2. CASE RecordRow
  <2>1. /\ Running("bc") /\ Top.rule = "record" /\ ~IsHeader /\ ~WrongCount
        /\ src' = src /\ opts' = opts
    BY <1>2 DEF RecordRow
  <2>2. /\ heap \in Seq(Seq(Cell \union Row)) /\ heap # <<>> /\ Top.node.a = 1
        /\ Shaped \in Row
    BY <1>1, <2>1, HeapType, RecordSeen, ShapedType DEF Ref
  <2>3. CASE opts.stream
    <3>1. heap' = heap /\ events' = Append(events, [ev |-> "record", row |-> Shaped])
      BY <1>2, <2>3 DEF RecordRow
    <3>2. [ev |-> "record", row |-> Shaped] \in Event
      BY <2>2 DEF Event
    <3>3. PICK calls \in Seq(Event) :
            calls = <<[ev |-> "record", row |-> Shaped]>> /\ events' = events \o calls
      BY <1>1, <3>1, <3>2, OneCall
    <3>4. /\ DOMAIN calls = {1} /\ calls[1] = [ev |-> "record", row |-> Shaped]
          /\ \A j \in DOMAIN calls \ {1} : calls[j].ev # "record"
      BY <1>1, <3>2, <3>3, OneCall
    <3>5. calls[1].ev = "record" /\ calls[1].row = Shaped
      BY <3>4
    <3>6. RowAdded(calls[1].row)
      BY <1>1, <2>1, <2>3, <3>3, <3>4, <3>5, CallsWith
    <3>7. QED
      BY <2>1, <3>1, <3>5, <3>6
  <2>4. CASE ~opts.stream
    <3>1. heap' = [heap EXCEPT ![1] = Append(@, Shaped)]
      BY <1>2, <2>2, <2>4 DEF RecordRow
    <3>2. RowAdded(Shaped)
      BY <1>1, <2>1, <2>2, <2>4, <3>1, DocumentLonger
    <3>3. \A a \in 2 .. Len(heap) : heap'[a] = heap[a]
      BY <2>2, <3>1
    <3>4. QED
      BY <2>1, <3>2, <3>3
  <2>5. QED
    BY <2>3, <2>4
<1>3. CASE CallbackThrows /\ Running("bc") /\ Top.rule = "record"
  <2>1. /\ ~IsHeader /\ ~WrongCount /\ opts.stream
        /\ Thrown([ev |-> "record", row |-> Shaped])
    BY <1>3 DEF CallbackThrows, Running
  <2>2. Shaped \in Row
    BY <1>1, <1>3, <2>1, ShapedType
  <2>3. [ev |-> "record", row |-> Shaped] \in Event
    BY <2>2 DEF Event
  <2>4. PICK calls \in Seq(Event) :
          /\ events' = events \o calls /\ 1 \in DOMAIN calls
          /\ calls[1] = [ev |-> "record", row |-> Shaped]
          /\ \A j \in DOMAIN calls \ {1} : calls[j].ev # "record"
    BY <1>1, <2>1, <2>3, ThrownCalls
  <2>5. src' = src /\ opts' = opts /\ heap' = heap
    BY <2>1 DEF Thrown
  <2>6. calls[1].ev = "record" /\ calls[1].row = Shaped
    BY <2>4
  <2>7. /\ events' = events \o calls /\ 1 \in DOMAIN calls
        /\ \A j \in DOMAIN calls \ {1} : calls[j].ev # "record"
    BY <2>4
  <2>8. RowAdded(calls[1].row)
    BY <1>1, <2>1, <2>5, <2>6, <2>7, CallsWith
  <2>9. QED
    BY <1>3, <2>1, <2>5, <2>6, <2>8
<1>4. QED
  BY <1>2, <1>3 DEF HandsOut

-----------------------------------------------------------------------------
(* The steps of CsvRecords.                                                *)

LEMMA NextLineIs ==
  ASSUME SourceOK, NEW s, InLine(s, recordI)
  PROVE  /\ Doc!NextLine = s /\ recordI < Doc!LineCount
         /\ Doc!Readable <=> AllRead(s)
<1>1. recordI < Doc!LineCount /\ Doc!LineStart(recordI + 1) = s
  BY LineAt
<1>2. Doc!NextLine = s
  BY <1>1 DEF Doc!NextLine
<1>3. QED
  BY <1>1, <1>2 DEF Doc!Readable, AllRead

\* The field list is the names of CsvRecords, past the header.
LEMMA NamesAre ==
  ASSUME ReadingInv, ~IsHeader, recordI < Doc!LineCount, Doc!LineCount \in Nat
  PROVE  FieldList = Doc!NameList /\ (HasFields <=> Doc!NamesKnown)
<1>1. recordI \in Nat
  BY ReadingHere
<1>2. CASE opts.header
  <2>1. recordI > 0
    BY <1>1, <1>2 DEF IsHeader
  <2>2. fields # 0 /\ heap[fields] = Doc!CellsOf(Doc!LineStart(1))
    BY <1>2, <2>1 DEF ReadingInv, HeaderSays
  <2>3. Doc!LineCount # 0
    BY <1>1
  <2>4. Doc!NameList = Doc!CellsOf(Doc!LineStart(1)) /\ Doc!NamesKnown
    BY <1>2, <2>3 DEF Doc!NameList, Doc!NamesKnown
  <2>5. QED
    BY <2>2, <2>4 DEF FieldList, HasFields
<1>3. CASE ~opts.header
  <2>1. fields = 0
    BY <1>3 DEF ReadingInv, HeaderSays
  <2>2. QED
    BY <1>3, <2>1 DEF FieldList, HasFields, Doc!NameList, Doc!NamesKnown
<1>4. QED
  BY <1>2, <1>3

\* The line of the record that is to be closed, read as CsvRecords reads it.
LineClosed(s) ==
  /\ Doc!NextLine = s /\ Doc!Readable /\ Record = Doc!CellsOf(s)
  /\ ~IsHeader => /\ WrongCount <=> Doc!WrongWidth(s)
                  /\ CountError = Doc!WidthError(s)
                  /\ FieldList = Doc!NameList

LEMMA RecordClosing ==
  ASSUME ReadingInv, Running("bc"), Top.rule = "record"
  PROVE  \E s : LineClosed(s)
<1>1. SourceOK
  BY ReadingHere
<1>2. PICK s \in 1 .. Len(src) : LineDone(s, recordI, pos, heap[Top.kid.a])
  BY RecordLine
<1>3. InLine(s, recordI) /\ AllRead(s) /\ heap[Top.kid.a] = Doc!CellsOf(s)
  BY <1>2 DEF LineDone
<1>4. Doc!NextLine = s /\ recordI < Doc!LineCount /\ Doc!Readable
  BY <1>1, <1>3, NextLineIs
<1>5. Doc!LineCount \in Nat
  BY <1>1, <1>3, LineAt
<1>6. Record = Doc!CellsOf(s)
  BY <1>3 DEF Record
<1>7. ASSUME ~IsHeader
      PROVE  /\ WrongCount <=> Doc!WrongWidth(s)
             /\ CountError = Doc!WidthError(s)
             /\ FieldList = Doc!NameList
  <2>1. FieldList = Doc!NameList /\ (HasFields <=> Doc!NamesKnown)
    BY <1>4, <1>5, <1>7, NamesAre
  <2>2. WrongCount <=> Doc!WrongWidth(s)
    BY <1>6, <2>1 DEF WrongCount, Doc!WrongWidth
  <2>3. CountError = Doc!WidthError(s)
    BY <1>6, <2>1 DEF CountError, Doc!WidthError
  <2>4. QED
    BY <2>1, <2>2, <2>3
<1>8. LineClosed(s)
  BY <1>4, <1>6, <1>7, SMT DEF LineClosed
<1>9. QED
  BY <1>8

\* What the record rule makes of the line is the record of CsvRecords.
LEMMA ShapedIs ==
  ASSUME ReadingInv, Running("bc"), Top.rule = "record", ~IsHeader, NEW s, LineClosed(s),
         \A a \in 2 .. Len(heap) : heap'[a] = heap[a]
  PROVE  ValueIn(Shaped, heap') = Doc!RecordOf(s)
<1>1. Inv
  BY ReadingHere
<1>2. Record = Doc!CellsOf(s) /\ FieldList = Doc!NameList
  BY DEF LineClosed
<1>3. Top.kid.a \in 2 .. Len(heap) /\ Record \in Seq(Cell) /\ FieldList \in Seq(Cell)
  BY <1>1, RecordSeen, FieldListType DEF Record
<1>4. CASE opts.object
  <2>1. Shaped.k = "object" /\ Shaped.o = Assignments(Record, FieldList)
    BY <1>4 DEF Shaped, ObjectRow
  <2>2. ValueIn(Shaped, heap') = [k |-> "object", properties |-> Properties(Assignments(Record, FieldList))]
    BY <2>1 DEF ValueIn
  <2>3. Properties(Assignments(Record, FieldList)) = Doc!ObjectOf(Record, FieldList)
    BY <1>3, ObjectIs
  <2>4. QED
    BY <1>2, <1>4, <2>2, <2>3 DEF Doc!RecordOf
<1>5. CASE ~opts.object
  <2>1. Shaped.k = "array" /\ Shaped.a = Top.kid.a
    BY <1>5 DEF Shaped, ArrayRow
  <2>2. heap'[Top.kid.a] = Record
    BY <1>3 DEF Record
  <2>3. ValueIn(Shaped, heap') = [k |-> "array", cells |-> Record]
    BY <2>1, <2>2 DEF ValueIn
  <2>4. QED
    BY <1>2, <1>5, <2>3 DEF Doc!RecordOf
<1>6. QED
  BY <1>4, <1>5

\* A step that hands out a record adds the record of the line.
LEMMA HandsOutIs ==
  ASSUME ReadingInv, HandsOut
  PROVE  /\ ~IsHeader /\ src' = src /\ opts' = opts /\ Doc!Readable
         /\ ~Doc!WrongWidth(Doc!NextLine)
         /\ Collected' = Append(Collected, Doc!RecordOf(Doc!NextLine))
         /\ Collected' # Collected
<1>1. /\ HandedInv /\ RowAdded(Shaped) /\ Running("bc") /\ Top.rule = "record"
      /\ ~IsHeader /\ ~WrongCount
      /\ src' = src /\ opts' = opts /\ \A a \in 2 .. Len(heap) : heap'[a] = heap[a]
  BY HandsOutRow, ReadingHere
<1>2. PICK s : LineClosed(s)
  BY <1>1, RecordClosing
<1>3. Doc!NextLine = s /\ Doc!Readable /\ ~Doc!WrongWidth(s)
  BY <1>1, <1>2 DEF LineClosed
<1>4. PICK value : value = ValueIn(Shaped, heap') /\ value = Doc!RecordOf(s)
  BY <1>1, <1>2, ShapedIs
<1>5. Collected' = Append(Collected, value) /\ Collected' # Collected
  <2>1. PICK row : row = Shaped /\ RowAdded(row) /\ value = ValueIn(row, heap')
    BY <1>1, <1>4
  <2>2. QED
    BY <1>1, <2>1, CollectedLonger
<1>6. QED
  BY <1>1, <1>3, <1>4, <1>5

LEMMA QuietCollected ==
  ASSUME ReadingInv, Step, ~HandsOut
  PROVE  Collected' = Collected
BY StepSpares, QuietRowsStep, CollectedKept, ReadingHere

LEMMA HeaderRefines ==
  ASSUME ReadingInv, Step, RecordHeader
  PROVE  Doc!ReadHeader
<1>1. /\ Running("bc") /\ Top.rule = "record" /\ IsHeader /\ outcome = "run" /\ outcome' = outcome
      /\ recordI' = recordI + 1 /\ src' = src /\ opts' = opts
  BY DEF RecordHeader, Running
<1>2. ~HandsOut
  BY <1>1 DEF HandsOut, RecordRow, CallbackThrows, Running
<1>3. Collected' = Collected
  BY <1>2, QuietCollected
<1>4. Doc!Readable
  BY <1>1, RecordClosing DEF LineClosed
<1>5. Doc!AtHeader
  BY <1>1 DEF IsHeader, Doc!AtHeader
<1>6. QED
  BY <1>1, <1>3, <1>4, <1>5 DEF Doc!ReadHeader, Doc!Reading, Collected

LEMMA RowRefines ==
  ASSUME ReadingInv, RecordRow
  PROVE  Doc!ReadRecord
<1>1. outcome = "run" /\ outcome' = outcome /\ recordI' = recordI + 1
  BY DEF RecordRow, Running
<1>2. /\ ~IsHeader /\ src' = src /\ opts' = opts /\ Doc!Readable
      /\ ~Doc!WrongWidth(Doc!NextLine)
      /\ Collected' = Append(Collected, Doc!RecordOf(Doc!NextLine))
  BY HandsOutIs DEF HandsOut
<1>3. ~Doc!AtHeader
  BY <1>2 DEF IsHeader, Doc!AtHeader
<1>4. QED
  BY <1>1, <1>2, <1>3 DEF Doc!ReadRecord, Doc!Reading, Collected

LEMMA RefusedRefines ==
  ASSUME ReadingInv, Step, RecordRefused
  PROVE  Doc!RefuseWidth
<1>1. /\ Running("bc") /\ Top.rule = "record" /\ ~IsHeader /\ WrongCount
      /\ outcome = "run" /\ outcome' = CountError
      /\ recordI' = recordI /\ src' = src /\ opts' = opts
  BY DEF RecordRefused, Fail, Running
<1>2. ~HandsOut
  BY <1>1 DEF HandsOut, RecordRow, CallbackThrows, Running
<1>3. Collected' = Collected
  BY <1>2, QuietCollected
<1>4. PICK s : LineClosed(s)
  BY <1>1, RecordClosing
<1>5. /\ Doc!NextLine = s /\ Doc!Readable /\ Doc!WrongWidth(s)
      /\ CountError = Doc!WidthError(s)
  BY <1>1, <1>4 DEF LineClosed
<1>6. ~Doc!AtHeader
  BY <1>1 DEF IsHeader, Doc!AtHeader
<1>7. CountError # "run"
  BY DEF CountError
<1>8. QED
  BY <1>1, <1>3, <1>5, <1>6, <1>7 DEF Doc!RefuseWidth, Doc!Ending, Collected

LEMMA UnexpectedRefines ==
  ASSUME ReadingInv, Step, Unexpected
  PROVE  Doc!RefuseLine
<1>1. /\ outcome = "run" /\ outcome' = "unexpected"
      /\ recordI' = recordI /\ src' = src /\ opts' = opts
  BY DEF Unexpected, Fail, Running
<1>2. ~HandsOut
  BY <1>1 DEF HandsOut, RecordRow, CallbackThrows, Thrown
<1>3. Collected' = Collected
  BY <1>2, QuietCollected
<1>4. PICK s : InLine(s, recordI) /\ ~AllRead(s)
  BY UnexpectedLine
<1>5. recordI < Doc!LineCount /\ ~Doc!Readable
  BY <1>4, NextLineIs, ReadingHere
<1>6. QED
  BY <1>1, <1>3, <1>5 DEF Doc!RefuseLine, Doc!Ending, Collected

LEMMA CloseRefines ==
  ASSUME ReadingInv, Step, CsvClose
  PROVE  Doc!Finish
<1>1. /\ outcome = "run" /\ outcome' = "done" /\ Running("close") /\ Depth = 1
      /\ recordI' = recordI /\ src' = src /\ opts' = opts
  BY DEF CsvClose, Running
<1>2. ~HandsOut
  BY <1>1 DEF HandsOut, RecordRow, CallbackThrows, Thrown
<1>3. Collected' = Collected
  BY <1>2, QuietCollected
<1>4. Top.rule = "csv" /\ Top.at = "close"
  BY <1>1, DepthOf DEF Running
<1>5. recordI = Doc!LineCount
  BY <1>1, <1>4, SaysNow DEF CsvSays
<1>6. QED
  BY <1>1, <1>3, <1>5 DEF Doc!Finish, Doc!Ending, Collected

LEMMA ThrownRefines ==
  ASSUME ReadingInv, Step, CallbackThrows
  PROVE  Doc!Interrupt
<1>1. outcome' = "thrown" /\ opts.stream /\ src' = src /\ opts' = opts /\ outcome = "run"
  BY DEF CallbackThrows, Thrown, Running
<1>2. recordI' = recordI
  <2>1. recordI' = recordI \/ (Running("bo") /\ Top.rule = "csv" /\ recordI' = 0)
    BY DEF CallbackThrows
  <2>2. ASSUME Running("bo"), Top.rule = "csv" PROVE recordI = 0
    BY <2>2, SaysNow DEF Running, CsvSays
  <2>3. QED
    BY <2>1, <2>2
<1>3. CASE HandsOut
  <2>1. /\ ~IsHeader /\ Doc!Readable /\ ~Doc!WrongWidth(Doc!NextLine)
        /\ Collected' = Append(Collected, Doc!RecordOf(Doc!NextLine))
        /\ Collected' # Collected
    BY <1>3, HandsOutIs
  <2>2. ~Doc!AtHeader
    BY <2>1 DEF IsHeader, Doc!AtHeader
  <2>3. QED
    BY <1>1, <1>2, <2>1, <2>2 DEF Doc!Interrupt, Collected
<1>4. CASE ~HandsOut
  <2>1. Collected' = Collected
    BY <1>4, QuietCollected
  <2>2. recordI \in {0, Doc!LineCount}
    <3>1. (Running("bo") /\ Top.rule = "csv") \/ (Running("close") /\ Depth = 1)
      BY <1>4 DEF CallbackThrows, HandsOut
    <3>2. CASE Running("bo") /\ Top.rule = "csv"
      BY <3>2, SaysNow DEF Running, CsvSays
    <3>3. CASE Running("close") /\ Depth = 1
      <4>1. Top.rule = "csv" /\ Top.at = "close" /\ outcome = "run"
        BY <3>3, DepthOf DEF Running
      <4>2. QED
        BY <4>1, SaysNow DEF CsvSays
    <3>4. QED
      BY <3>1, <3>2, <3>3
  <2>3. QED
    BY <1>1, <1>2, <2>1, <2>2 DEF Doc!Interrupt, Collected
<1>5. QED
  BY <1>3, <1>4

\* Every other step stays within a line.
LEMMA OthersStutter ==
  ASSUME ReadingInv, Step, ~RecordBC, ~CsvClose, ~Unexpected, ~CallbackThrows
  PROVE  UNCHANGED Doc!absVars
<1>1. src' = src /\ opts' = opts
  BY StepLeaves
<1>2. ~HandsOut
  BY DEF HandsOut, RecordBC
<1>3. Collected' = Collected
  BY <1>2, QuietCollected
<1>4. recordI' = recordI /\ outcome' = outcome
  <2>1. CASE CsvBO
    <3>1. recordI' = 0 /\ outcome' = outcome /\ outcome = "run" /\ Top.at = "bo" /\ Top.rule = "csv"
      BY <2>1 DEF CsvBO, Running
    <3>2. recordI = 0
      BY <3>1, SaysNow DEF CsvSays
    <3>3. QED
      BY <3>1, <3>2
  <2>2. CASE ListBO \/ ValBO \/ TextBC \/ ValBC \/ ElemBC
    BY <2>2 DEF ListBO, ValBO, TextBC, ValBC, ElemBC
  <2>3. CASE OpenPush \/ OpenReplace \/ OpenStay \/ CloseReplace \/ ClosePop
    BY <2>3 DEF OpenPush, OpenReplace, OpenStay, CloseReplace, ClosePop, Take
  <2>4. QED
    BY <2>1, <2>2, <2>3 DEF Step
<1>5. QED
  BY <1>1, <1>3, <1>4 DEF Doc!absVars, Collected

LEMMA StepRefines ==
  ASSUME ReadingInv, [Next]_vars
  PROVE  [Doc!Next]_(Doc!absVars)
<1>1. CASE Step
  <2>1. CASE RecordBC
    BY <1>1, <2>1, HeaderRefines, RowRefines, RefusedRefines DEF RecordBC, Doc!Next
  <2>2. CASE CsvClose
    BY <1>1, <2>2, CloseRefines DEF Doc!Next
  <2>3. CASE Unexpected
    BY <1>1, <2>3, UnexpectedRefines DEF Doc!Next
  <2>4. CASE CallbackThrows
    BY <1>1, <2>4, ThrownRefines DEF Doc!Next
  <2>5. CASE ~RecordBC /\ ~CsvClose /\ ~Unexpected /\ ~CallbackThrows
    BY <1>1, <2>5, OthersStutter
  <2>6. QED
    BY <2>1, <2>2, <2>3, <2>4, <2>5
<1>2. CASE UNCHANGED vars
  BY <1>2 DEF vars, Doc!absVars, Handed, RowPlaces, RowAt, RowValue
<1>3. QED
  BY <1>1, <1>2 DEF Next, Returned

LEMMA InitRefines ==
  ASSUME Init
  PROVE  Doc!Init
<1>1. /\ recordI = 0 /\ outcome = "run" /\ heap = <<>> /\ events = <<>>
  BY DEF Init
<1>2. PICK input \in Inputs : opts = input.opts /\ src = input.src
  BY DEF Init
<1>3. [src |-> src, opts |-> opts] \in Inputs
  <2>1. input \in [src : Seq(Token), opts : Options]
    BY <1>2
  <2>2. input = [src |-> src, opts |-> opts]
    BY <1>2, <2>1
  <2>3. QED
    BY <1>2, <2>2
<1>4. RowPlaces = {}
  BY <1>1 DEF RowPlaces
<1>5. Cardinality(RowPlaces) = 0
  BY <1>4, FS_EmptySet
<1>6. Collected = <<>>
  <2>1. 1 .. 0 = {}
    OBVIOUS
  <2>2. Handed = [n \in 1 .. 0 |-> RowAt(Nth(RowPlaces, n))]
    BY <1>5 DEF Handed
  <2>3. DOMAIN Handed = {}
    BY <2>1, <2>2
  <2>4. QED
    BY <2>3 DEF Collected
<1>7. QED
  BY <1>1, <1>3, <1>6 DEF Doc!Init, Collected

\* The parse hands out the records of the source, by value, in order, up to
\* the first line that must be refused, with the code that line calls for
\* (ts/src/csv.ts:409-520: the callbacks build the records rule by rule, with
\* the grammar that cuts the source as CsvRecords says it is cut).
THEOREM RecordsImplemented == Spec => ImplementsRecords
<1>1. Init => Doc!Init
  BY InitRefines
<1>2. ReadingInv /\ [Next]_vars => [Doc!Next]_(Doc!absVars)
  BY StepRefines
<1>3. QED
  BY <1>1, <1>2, ReadingInvariance, PTL DEF Spec, ImplementsRecords, Doc!Spec
=============================================================================
