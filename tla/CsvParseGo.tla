----------------------------- MODULE CsvParseGo -----------------------------
(***************************************************************************)
(* The Go port's strict-mode parse (go/csv.go).  The engine, the grammar   *)
(* and the texts are those of CsvParse; what differs is the nodes.  A Go   *)
(* array is a slice: a backing array and a length, passed by value.  An    *)
(* append makes another slice, which the other holders of the old one do   *)
(* not see, and writes into the old one's backing array while that has     *)
(* room.  So the callbacks hand each new slice to the parent rule          *)
(* themselves.                                                             *)
(*                                                                         *)
(* Here heap holds backing arrays, and fields is ctx.Meta["fields"].       *)
(***************************************************************************)
EXTENDS CsvParse

ASSUME GoPortAssumption == Port = "go"

Slice(a, n) == [k |-> "slice", a |-> a, n |-> n]
NoSlice     == Slice(0, 0)      \* nil

\* A slice's elements in the store of backing arrays s.
CellsIn(s, slice) == SubSeq(s[slice.a].cells, 1, slice.n)
Cells(slice)      == IF slice = NoSlice THEN <<>> ELSE CellsIn(heap, slice)

\* make([]any, 0)
Fresh == Append(heap, [cells |-> <<>>, cap |-> 0])

\* append(slice, cell): in place while the capacity lasts, otherwise into a new
\* array of twice the capacity.
HasRoom(slice) == slice.n < heap[slice.a].cap

HeapWith(slice, cell) ==
  IF HasRoom(slice)
  THEN LET cells == heap[slice.a].cells
       IN [heap EXCEPT ![slice.a].cells =
             [i \in 1 .. (IF Len(cells) > slice.n THEN Len(cells) ELSE slice.n + 1) |->
                IF i = slice.n + 1 THEN cell ELSE cells[i]]]
  ELSE Append(heap, [cells |-> Append(Cells(slice), cell),
                     cap   |-> IF slice.n = 0 THEN 1 ELSE 2 * slice.n])

Longer(slice) ==
  Slice(IF HasRoom(slice) THEN slice.a ELSE Len(heap) + 1, slice.n + 1)

\* Mutant: the new slice stays with the rule that made it.
UnsharedNode(frames) == [frames EXCEPT ![Depth].node = Longer(Top.node)]

\* r.Node = append(arr, ...); r.Parent.Node = r.Node
SharedNode(frames) ==
  [frames EXCEPT ![Depth].node = Longer(Top.node), ![Depth - 1].node = Longer(Top.node)]

-----------------------------------------------------------------------------
(* The callbacks.                                                          *)

GoCsvBO ==
  /\ Running("bo") /\ Top.rule = "csv"
  /\ recordI' = 0
  /\ events' = Emit([ev |-> "start"])
  /\ heap' = Fresh
  /\ stack' = Advance([Top EXCEPT !.node = Slice(Len(heap) + 1, 0)], "open")
  /\ UNCHANGED <<opts, src, pos, fields, outcome>>

\* Mutant: one buffer of four cells is emptied, buf[:0], for every line.
GoListBOBuffered ==
  /\ Running("bo") /\ Top.rule = "list"
  /\ heap' = IF Len(heap) = 1 THEN Append(heap, [cells |-> <<>>, cap |-> 4]) ELSE heap
  /\ stack' = Advance([Top EXCEPT !.node = Slice(2, 0)], "open")
  /\ UNCHANGED <<opts, src, pos, fields, recordI, events, outcome>>

GoListBO ==
  /\ Running("bo") /\ Top.rule = "list"
  /\ heap' = Fresh
  /\ stack' = Advance([Top EXCEPT !.node = Slice(Len(heap) + 1, 0)], "open")
  /\ UNCHANGED <<opts, src, pos, fields, recordI, events, outcome>>

GoElemBC ==
  /\ Running("bc") /\ Top.rule = "elem"
  /\ IF ~Top.done /\ Top.kid # Undef
     THEN /\ heap' = HeapWith(Top.node, Top.kid)
          /\ stack' = SharedNode(Advance(Top, "close"))
     ELSE /\ heap' = heap
          /\ stack' = Advance(Top, "close")
  /\ UNCHANGED <<opts, src, pos, fields, recordI, events, outcome>>

GoHasFields  == fields # NoSlice \/ opts.names # NoNames
GoFieldList  == IF fields # NoSlice THEN Cells(fields)
                ELSE IF opts.names # NoNames THEN opts.names ELSE <<>>
GoRecord     == Cells(Top.kid)
GoWrongCount == GoHasFields /\ opts.exact /\ Len(GoRecord) # Len(GoFieldList)
GoCountError == IF Len(GoRecord) > Len(GoFieldList) THEN "csv_extra_field"
                                                    ELSE "csv_missing_field"
GoShaped     == IF opts.object THEN ObjectRow(Assignments(GoRecord, GoFieldList))
                               ELSE ArrayRow(Top.kid)

GoRecordHeader ==
  /\ Running("bc") /\ Top.rule = "record" /\ IsHeader
  /\ fields' = Top.kid
  /\ recordI' = recordI + 1
  /\ stack' = Advance(Top, "close")
  /\ UNCHANGED <<opts, src, pos, heap, events, outcome>>

GoRecordRefused ==
  /\ Running("bc") /\ Top.rule = "record" /\ ~IsHeader /\ GoWrongCount
  /\ Fail(GoCountError)

GoRecordRow ==
  /\ Running("bc") /\ Top.rule = "record" /\ ~IsHeader /\ ~GoWrongCount
  /\ IF opts.stream
     THEN /\ events' = Append(events, [ev |-> "record", row |-> GoShaped])
          /\ heap' = heap
          /\ stack' = Advance(Top, "close")
     ELSE /\ heap' = HeapWith(Top.node, GoShaped)
          /\ stack' = SharedNode(Advance(Top, "close"))
          /\ events' = events
  /\ recordI' = recordI + 1
  /\ UNCHANGED <<opts, src, pos, fields, outcome>>

-----------------------------------------------------------------------------
(* The alternates: as in CsvParse, but that an empty field's action makes  *)
(* a new slice, for the running rule and for its parent.                   *)

GoTake(alt) ==
  /\ pos' = Consumed(alt)
  /\ heap' = IF alt.a \in EmptyActions THEN HeapWith(Top.node, EmptyCell) ELSE heap
  /\ UNCHANGED <<opts, src, fields, recordI, events, outcome>>

GoActed(alt) ==
  IF alt.a \in EmptyActions THEN [Acted(alt) EXCEPT !.node = Longer(Top.node)] ELSE Acted(alt)

GoSeen(alt, left) ==
  IF alt.a \in EmptyActions THEN SharedNode(Seen(alt, left)) ELSE Seen(alt, left)

GoOpen ==
  /\ Running("open")
  /\ \E alt \in AltsOf(TopOpenAlts) :
       LET frame == GoActed(alt)
           below == GoSeen(alt, alt.r # "")
       IN /\ Choose(TopOpenAlts, alt)
          /\ GoTake(alt)
          /\ stack' =
               IF alt.r # ""
               THEN [below EXCEPT ![Depth] = NewFrame(alt.r, frame.node, frame.n, FALSE)]
               ELSE [below EXCEPT ![Depth] = [frame EXCEPT !.at = AfterOpen(Top.rule)]]
                      \o (IF alt.p = "" THEN <<>>
                          ELSE <<NewFrame(alt.p, frame.node, frame.n, TRUE)>>)

GoClose ==
  /\ Running("close") /\ Depth > 1
  /\ \E alt \in AltsOf(TopCloseAlts) :
       LET frame == GoActed(alt)
           below == GoSeen(alt, TRUE)
       IN /\ Choose(TopCloseAlts, alt)
          /\ GoTake(alt)
          /\ stack' =
               IF alt.r # ""
               THEN [below EXCEPT ![Depth] = NewFrame(alt.r, frame.node, frame.n, FALSE)]
               ELSE SubSeq(below, 1, Depth - 1)

\* The callback panics; the engine's caller gets the panic, and there is no
\* event for it.
GoCallbackPanics ==
  /\ opts.stream
  /\ \/ Running("bo") /\ Top.rule = "csv" /\ Thrown([ev |-> "start"])
     \/ /\ Running("bc") /\ Top.rule = "record" /\ ~IsHeader /\ ~GoWrongCount
        /\ Thrown([ev |-> "record", row |-> GoShaped])
     \/ Running("close") /\ Depth = 1 /\ Thrown([ev |-> "end"])
  /\ recordI' = recordI

GoInit ==
  /\ \E input \in Inputs : opts = input.opts /\ src = input.src
  /\ pos = 1
  /\ stack = <<NewFrame("csv", Undef, 0, FALSE)>>
  /\ heap = <<>>
  /\ fields = NoSlice
  /\ recordI = 0
  /\ events = <<>>
  /\ outcome = "run"

GoStep ==
  \/ GoCsvBO \/ GoListBO \/ ValBO
  \/ TextBC \/ ValBC \/ GoElemBC
  \/ GoRecordHeader \/ GoRecordRefused \/ GoRecordRow
  \/ GoOpen \/ GoClose \/ CsvClose \/ GoCallbackPanics \/ Unexpected

GoSpec == GoInit /\ [][GoStep \/ Returned]_vars

-----------------------------------------------------------------------------
(* Properties.                                                             *)

\* What the root rule's node holds, which is what Parse returns.
Document == IF heap = <<>> THEN <<>> ELSE Cells(stack[1].node)

\* The records handed out, in order.
GoHanded ==
  IF opts.stream
  THEN LET recs == SelectSeq(events, LAMBDA event : event.ev = "record")
       IN [i \in DOMAIN recs |-> recs[i].row]
  ELSE Document

\* What the caller, or ctx.Meta, holds: the records handed out and the header.
HandedRows ==
  IF opts.stream
  THEN {events[i].row : i \in {j \in DOMAIN events : events[j].ev = "record"}}
  ELSE {Document[i] : i \in DOMAIN Document}

Held == {fields} \union {row.a : row \in {r \in HandedRows : r.k = "array"}}

\* The append of another slice never writes over what a slice that was handed
\* out, or kept as the header, or the document holds.
AppendsSpareTheHeld ==
  [][/\ \A slice \in Held \ {NoSlice} : CellsIn(heap', slice) = Cells(slice)
     /\ IsPrefix(Document, Document')]_vars

\* The Go port implements CsvRecords: every record handed out is in the slice
\* the root rule ends up with, in order.
GoRecords == INSTANCE CsvRecords
               WITH line   <- recordI,
                    rows   <- [i \in DOMAIN GoHanded |->
                                 IF GoHanded[i].k = "array"
                                 THEN [k |-> "array", cells |-> Cells(GoHanded[i].a)]
                                 ELSE [k |-> "object", properties |-> Properties(GoHanded[i].o)]],
                    result <- outcome

GoImplementsRecords == GoRecords!Spec

\* go/doc/concepts.md: "The callback also receives "error" events instead of
\* Parse returning the error".
FailureIsAnEvent ==
  opts.stream /\ outcome \in Codes \ {"thrown"} =>
    \E i \in DOMAIN events : events[i].ev = "error"
=============================================================================
