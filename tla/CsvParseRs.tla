----------------------------- MODULE CsvParseRs -----------------------------
(***************************************************************************)
(* The Rust port's strict-mode parse (rs/src/lib.rs).  The engine, the     *)
(* grammar and the texts are those of CsvParse; what differs is the nodes. *)
(* A rule's node is a cell, Rc<RefCell<Value>>, which a pushed or replaced *)
(* rule shares with the rule it came from.  Assigning a node takes a fresh *)
(* cell; pushing an item writes through the shared one; and what a child   *)
(* leaves behind is a copy of its value.                                   *)
(*                                                                         *)
(* Here heap holds the values of the cells, a frame's node is the index of *)
(* its cell, its kid a value, and fields the value under "fields" in       *)
(* context.u.                                                              *)
(***************************************************************************)
EXTENDS CsvParse

ASSUME RsPortAssumption == Port = "rs"

List(items)    == [k |-> "list", items |-> items]
ItemsOf(value) == IF value.k = "list" THEN value.items ELSE <<>>

TopNode == heap[Top.node]     \* what the running rule's cell holds

\* Mutant: the value is written through the cell the rule shares.
SetNodeThrough(frame, value) ==
  [cells |-> [heap EXCEPT ![frame.node] = value], frame |-> frame]

\* set_node: the cells, and the frame with its cell.
SetNode(frame, value) ==
  [cells |-> Append(heap, value), frame |-> [frame EXCEPT !.node = Len(heap) + 1]]

ListPush(cell, item) == [heap EXCEPT ![cell] = List(Append(ItemsOf(@), item))]

-----------------------------------------------------------------------------
(* The callbacks.                                                          *)

AssignNode(value, phase) ==
  LET set == SetNode(Top, value)
  IN /\ heap' = set.cells
     /\ stack' = Advance(set.frame, phase)

RsCsvBO ==
  /\ Running("bo") /\ Top.rule = "csv"
  /\ recordI' = 0
  /\ events' = Emit([ev |-> "start"])
  /\ AssignNode(List(<<>>), "open")
  /\ UNCHANGED <<opts, src, pos, fields, outcome>>

RsListBO ==
  /\ Running("bo") /\ Top.rule = "list"
  /\ AssignNode(List(<<>>), "open")
  /\ UNCHANGED <<opts, src, pos, fields, recordI, events, outcome>>

RsValBO ==
  /\ Running("bo") /\ Top.rule = "val"
  /\ AssignNode(Undef, "open")
  /\ UNCHANGED <<opts, src, pos, fields, recordI, events, outcome>>

\* Mutant: the text stays in the rule's own cell.
RsTextBCOwn ==
  /\ Running("bc") /\ Top.rule = "text"
  /\ stack' = Advance(Top, "close")
  /\ UNCHANGED <<opts, src, pos, heap, fields, recordI, events, outcome>>

\* The only callback that writes into a cell of the rule below.
RsTextBC ==
  /\ Running("bc") /\ Top.rule = "text"
  /\ heap' = [heap EXCEPT ![stack[Depth - 1].node] = IF Top.kid = Undef THEN TopNode ELSE Top.kid]
  /\ stack' = Advance(Top, "close")
  /\ UNCHANGED <<opts, src, pos, fields, recordI, events, outcome>>

RsValBC ==
  /\ Running("bc") /\ Top.rule = "val"
  /\ IF TopNode = Undef /\ (Top.kid # Undef \/ Top.o0 # NoToken)
     THEN AssignNode(IF Top.kid # Undef THEN Top.kid ELSE ResolveVal(Top.o0), "close")
     ELSE heap' = heap /\ stack' = Advance(Top, "close")
  /\ UNCHANGED <<opts, src, pos, fields, recordI, events, outcome>>

RsElemBC ==
  /\ Running("bc") /\ Top.rule = "elem"
  /\ heap' = IF ~Top.done /\ Top.kid # Undef THEN ListPush(Top.node, Top.kid) ELSE heap
  /\ stack' = Advance(Top, "close")
  /\ UNCHANGED <<opts, src, pos, fields, recordI, events, outcome>>

RsHasFields  == fields # Undef \/ opts.names # NoNames
RsFieldList  == IF fields # Undef THEN ItemsOf(fields)
                ELSE IF opts.names # NoNames THEN opts.names ELSE <<>>
RsRecord     == ItemsOf(Top.kid)
RsWrongCount == RsHasFields /\ opts.exact /\ Len(RsRecord) # Len(RsFieldList)
RsCountError == IF Len(RsRecord) > Len(RsFieldList) THEN "csv_extra_field"
                                                    ELSE "csv_missing_field"
RsShaped     == IF opts.object THEN ObjectRow(Assignments(RsRecord, RsFieldList))
                               ELSE ArrayRow(RsRecord)

RsRecordHeader ==
  /\ Running("bc") /\ Top.rule = "record" /\ IsHeader
  /\ fields' = List(RsRecord)
  /\ recordI' = recordI + 1
  /\ stack' = Advance(Top, "close")
  /\ UNCHANGED <<opts, src, pos, heap, events, outcome>>

RsRecordRefused ==
  /\ Running("bc") /\ Top.rule = "record" /\ ~IsHeader /\ RsWrongCount
  /\ Fail(RsCountError)

RsRecordRow ==
  /\ Running("bc") /\ Top.rule = "record" /\ ~IsHeader /\ ~RsWrongCount
  /\ IF opts.stream
     THEN events' = Append(events, [ev |-> "record", row |-> RsShaped]) /\ heap' = heap
     ELSE heap' = ListPush(Top.node, RsShaped) /\ events' = events
  /\ recordI' = recordI + 1
  /\ stack' = Advance(Top, "close")
  /\ UNCHANGED <<opts, src, pos, fields, outcome>>

-----------------------------------------------------------------------------
(* The alternates.                                                         *)

\* assign_text: past the first rule of a chain, the text goes into the cell of
\* the rule before, which the running one still shares, and then into its own.
AssignText(frame, action) ==
  LET text == Text((IF frame.n = 1 THEN <<>> ELSE TopNode.t) \o TextPiece(action, frame.n))
      own  == SetNode(frame, text)
  IN IF frame.n = 1 THEN own ELSE [own EXCEPT !.cells[Top.node] = text]

\* The cells and the running frame after an alternate's count and action.
RsActed(alt) ==
  LET frame == [Top EXCEPT !.n    = @ + alt.n,
                           !.o0   = IF alt.s = <<>> THEN NoToken ELSE Tok(1),
                           !.done = @ \/ alt.a = "elem-open-empty"]
  IN IF alt.a \in TextActions THEN AssignText(frame, alt.a)
     ELSE [cells |-> IF alt.a \in EmptyActions THEN ListPush(Top.node, EmptyCell) ELSE heap,
           frame |-> frame]

\* The rule below keeps the value of the instance it pushed, once that has left.
RsLeft(acted) ==
  IF acted.frame.pushed /\ Depth > 1
  THEN [stack EXCEPT ![Depth - 1].kid = acted.cells[acted.frame.node]]
  ELSE stack

RsTake(alt) ==
  /\ pos' = Consumed(alt)
  /\ heap' = RsActed(alt).cells
  /\ UNCHANGED <<opts, src, fields, recordI, events, outcome>>

RsReplaced(alt, acted) ==
  [RsLeft(acted) EXCEPT ![Depth] = NewFrame(alt.r, acted.frame.node, acted.frame.n, FALSE)]

RsOpen ==
  /\ Running("open")
  /\ \E alt \in AltsOf(TopOpenAlts) :
       LET acted == RsActed(alt)
       IN /\ Choose(TopOpenAlts, alt)
          /\ RsTake(alt)
          /\ stack' =
               IF alt.r # "" THEN RsReplaced(alt, acted)
               ELSE [stack EXCEPT ![Depth] = [acted.frame EXCEPT !.at = AfterOpen(Top.rule)]]
                      \o (IF alt.p = "" THEN <<>>
                          ELSE <<NewFrame(alt.p, acted.frame.node, acted.frame.n, TRUE)>>)

RsClose ==
  /\ Running("close") /\ Depth > 1
  /\ \E alt \in AltsOf(TopCloseAlts) :
       LET acted == RsActed(alt)
       IN /\ Choose(TopCloseAlts, alt)
          /\ RsTake(alt)
          /\ stack' = IF alt.r # "" THEN RsReplaced(alt, acted)
                                    ELSE SubSeq(RsLeft(acted), 1, Depth - 1)

RsInit ==
  /\ \E input \in Inputs : opts = input.opts /\ src = input.src
  /\ pos = 1
  /\ stack = <<NewFrame("csv", 1, 0, FALSE)>>
  /\ heap = <<Undef>>
  /\ fields = Undef
  /\ recordI = 0
  /\ events = <<>>
  /\ outcome = "run"

RsStep ==
  \/ RsCsvBO \/ RsListBO \/ RsValBO
  \/ RsTextBC \/ RsValBC \/ RsElemBC
  \/ RsRecordHeader \/ RsRecordRefused \/ RsRecordRow
  \/ RsOpen \/ RsClose \/ CsvClose \/ Unexpected

RsSpec == RsInit /\ [][RsStep \/ Returned]_vars

-----------------------------------------------------------------------------
(* Properties.                                                             *)

RsHanded ==
  IF opts.stream
  THEN LET recs == SelectSeq(events, LAMBDA event : event.ev = "record")
       IN [i \in DOMAIN recs |-> recs[i].row]
  ELSE ItemsOf(heap[stack[1].node])

\* A cell is shared only downwards, by the rules that stand on the one that
\* took it: no rule of the document's level shares a cell with a line, and no
\* rule of a line with a field.  What is written through a shared cell goes to
\* an array of the writer's own level.
Tier(rule) == CASE rule \in {"csv", "newline", "record"} -> 1
                [] rule \in {"list", "elem"}             -> 2
                [] OTHER                                 -> 3

\* A rule that waits for its before-open callback still has its parent's cell.
CellsSharedInLevel ==
  \A i, j \in DOMAIN stack :
    stack[i].node = stack[j].node /\ stack[i].at # "bo" /\ stack[j].at # "bo" =>
      Tier(stack[i].rule) = Tier(stack[j].rule)

\* The Rust port implements CsvRecords: what the cells of the document and the
\* copies taken out of the others hold is every record, in order.
RsRecords == INSTANCE CsvRecords
               WITH line   <- recordI,
                    rows   <- [i \in DOMAIN RsHanded |->
                                 IF RsHanded[i].k = "array"
                                 THEN [k |-> "array", cells |-> RsHanded[i].a]
                                 ELSE [k |-> "object", properties |-> Properties(RsHanded[i].o)]],
                    result <- outcome

RsImplementsRecords == RsRecords!Spec
=============================================================================
