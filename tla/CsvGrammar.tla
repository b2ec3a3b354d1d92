----------------------------- MODULE CsvGrammar -----------------------------
(***************************************************************************)
(* The strict-mode CSV grammar as data: for every rule, the ordered        *)
(* alternates of its open and of its close phase.  The csv, newline,       *)
(* record and text rules come from the grammar document embedded in        *)
(* ts/src/csv.ts; list, elem and val from the code below it that replaces  *)
(* the jsonic rules of the same names in strict mode.                      *)
(*                                                                         *)
(* An alternate matches when the next tokens belong, position by           *)
(* position, to the kinds in s; it then gives back b of them, counts n     *)
(* into the rule's text counter, runs the action named a, and pushes the   *)
(* rule p, or replaces the running rule by r, or does neither.             *)
(***************************************************************************)
EXTENDS Naturals, Sequences

VAL  == {"TX", "ST", "NR"}                \* text, quoted string, number
Kind == VAL \union {"SP", "CA", "LN", "ZZ"}

Rules == {"csv", "newline", "record", "list", "elem", "val", "text"}

AltActions == {"elem-open-empty", "elem-close-trailing", "text-follows",
               "text-leads", "text-end", "text-space"}

Alt(s, b)       == [s |-> s, b |-> b, p |-> "", r |-> "", a |-> "", n |-> 0]
Push(alt, rule) == [alt EXCEPT !.p = rule]
Swap(alt, rule) == [alt EXCEPT !.r = rule]
Do(alt, action) == [alt EXCEPT !.a = action]
Count(alt)      == [alt EXCEPT !.n = 1]
Otherwise       == Alt(<<>>, 0)           \* an alternate with no token list

CsvOpen(recordEmpty) ==
  IF recordEmpty
  THEN <<Alt(<<{"ZZ"}>>, 0), Push(Otherwise, "record")>>
  ELSE <<Alt(<<{"ZZ"}>>, 0), Push(Alt(<<{"LN"}>>, 0), "newline"), Push(Otherwise, "record")>>

\* Mutant: the single line end is put back.
NewlineOpenUnread ==
  <<Swap(Alt(<<{"LN"}, {"LN"}>>, 0), "newline"),
    Swap(Alt(<<{"LN"}>>, 1), "newline"),
    Alt(<<{"ZZ"}>>, 0),
    Swap(Otherwise, "record")>>

NewlineOpen ==
  <<Swap(Alt(<<{"LN"}, {"LN"}>>, 0), "newline"),
    Swap(Alt(<<{"LN"}>>, 0), "newline"),
    Alt(<<{"ZZ"}>>, 0),
    Swap(Otherwise, "record")>>

NewlineClose ==
  <<Swap(Alt(<<{"LN"}, {"LN"}>>, 0), "newline"),
    Swap(Alt(<<{"LN"}>>, 0), "newline"),
    Alt(<<{"ZZ"}>>, 0),
    Swap(Otherwise, "record")>>

RecordOpen == <<Push(Otherwise, "list")>>

\* Mutant: record.empty forgotten.
RecordCloseNextNewline(recordEmpty) == "newline"

\* @record-close-next
RecordCloseNext(recordEmpty) == IF recordEmpty THEN "record" ELSE "newline"

RecordClose(recordEmpty) ==
  <<Alt(<<{"ZZ"}>>, 0),
    Alt(<<{"LN"}, {"ZZ"}>>, 1),
    Swap(Alt(<<{"LN"}>>, 0), RecordCloseNext(recordEmpty))>>

\* The line end that closes an empty record is left for the close phase.
ListOpen  == <<Alt(<<{"LN"}>>, 1), Push(Otherwise, "elem")>>
ListClose == <<Alt(<<{"LN"}>>, 1), Alt(<<{"ZZ"}>>, 0)>>

ElemOpen ==
  <<Do(Alt(<<{"CA"}>>, 1), "elem-open-empty"), Push(Otherwise, "val")>>

ElemClose ==
  <<Do(Alt(<<{"CA"}, {"LN", "ZZ"}>>, 1), "elem-close-trailing"),
    Swap(Alt(<<{"CA"}>>, 0), "elem"),
    Alt(<<{"LN"}>>, 1),
    Alt(<<{"ZZ"}>>, 0)>>

ValOpen ==
  <<Push(Alt(<<VAL, {"SP"}>>, 2), "text"),
    Push(Alt(<<{"SP"}>>, 1), "text"),
    Alt(<<VAL>>, 0),
    Alt(<<{"LN"}>>, 1)>>

\* @text-space-push yields no rule in strict mode, so the fourth alternate
\* pushes nothing.
TextOpen ==
  <<Swap(Do(Count(Alt(<<VAL, {"SP"}>>, 1)), "text-follows"), "text"),
    Swap(Do(Count(Alt(<<{"SP"}, VAL>>, 0)), "text-leads"), "text"),
    Do(Count(Alt(<<{"SP"}, {"CA", "LN", "ZZ"}>>, 1)), "text-end"),
    Do(Count(Alt(<<{"SP"}>>, 0)), "text-space"),
    Otherwise>>

OpenAlts(rule, recordEmpty) ==
  CASE rule = "csv"     -> CsvOpen(recordEmpty)
    [] rule = "newline" -> NewlineOpen
    [] rule = "record"  -> RecordOpen
    [] rule = "list"    -> ListOpen
    [] rule = "elem"    -> ElemOpen
    [] rule = "val"     -> ValOpen
    [] rule = "text"    -> TextOpen

\* A phase for which the grammar lists no alternate matches nothing and ends.
CloseAlts(rule, recordEmpty) ==
  CASE rule = "newline" -> NewlineClose
    [] rule = "record"  -> RecordClose(recordEmpty)
    [] rule = "list"    -> ListClose
    [] rule = "elem"    -> ElemClose
    [] OTHER            -> <<Otherwise>>
=============================================================================
