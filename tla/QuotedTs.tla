------------------------------ MODULE QuotedTs ------------------------------
(***************************************************************************)
(* The TypeScript matcher, buildCsvStringMatcher: one step for each turn   *)
(* of its loop.                                                            *)
(***************************************************************************)
EXTENDS QuotedText

\* Of line characters from 32 up the matcher counts no row, so they are left out.
ASSUME RowCharsAssumption == \A c \in RowChars : IsControl(c)

VARIABLES
  src, before, opts,
  sI, rI, cI,   \* the matcher's index, row and column
  pnt,          \* the lexer's cursor, which the matcher writes as it goes
  s,            \* the pieces of text read
  answer

vars == <<src, before, opts, sI, rI, cI, pnt, s, answer>>
given == <<src, before, opts>>

q   == opts.quote[1]
qrI == 1   \* the row the quote opened on

Init ==
  /\ \E input \in Inputs : src = input.src /\ before = input.before /\ opts = input.opts
  /\ sI = 1 /\ rI = qrI /\ cI = 1
  /\ pnt = [sI |-> 1, rI |-> qrI, cI |-> 1]
  /\ s = <<>> /\ answer = Pending

\* quoteMap has one key, and src[sI] is one code unit
Opens == OneCodeUnit(opts.quote) /\ src[1] = q

Decline ==
  /\ answer = Pending /\ ~Opens
  /\ answer' = Unread
  /\ UNCHANGED <<given, sI, rI, cI, pnt, s>>

Open ==
  /\ answer = Pending /\ Opens /\ sI = 1
  /\ sI' = 2 /\ cI' = cI + 1
  /\ UNCHANGED <<given, rI, pnt, s, answer>>

Scanning == answer = Pending /\ sI > 1
HasChar(i) == i <= Len(src)

\* `""` is one quote
EscapedQuote ==
  /\ Scanning /\ HasChar(sI) /\ src[sI] = q
  /\ HasChar(sI + 1) /\ src[sI + 1] = q
  /\ s' = Append(s, q)
  /\ sI' = sI + 2 /\ cI' = cI + 2
  /\ UNCHANGED <<given, rI, pnt, answer>>

\* The column is counted at the head of the loop and for the quote.
ClosingQuote ==
  /\ Scanning /\ HasChar(sI) /\ src[sI] = q
  /\ HasChar(sI + 1) => src[sI + 1] # q
  /\ sI' = sI + 1 /\ cI' = cI + 2
  /\ pnt' = [sI |-> sI', rI |-> rI, cI |-> cI']
  /\ answer' = Answer("field", s, sI)
  /\ UNCHANGED <<given, rI, s>>

\* Where the inner loop stops: at a control character, at the quote, or at
\* the end of the source.  A line character from 32 up does not stop it.
BodyStop == Min({i \in sI .. Len(src) : IsControl(src[i]) \/ src[i] = q} \union {Len(src) + 1})

InBody == Scanning /\ HasChar(sI) /\ src[sI] # q

LineCharAt(i) == HasChar(i) /\ src[i] \in LineChars
ControlAt(i)  == HasChar(i) /\ IsControl(src[i]) /\ src[i] # q /\ ~LineCharAt(i)

LineChar ==
  /\ InBody /\ LineCharAt(BodyStop)
  /\ IF src[BodyStop] \in RowChars
       THEN rI' = rI + 1 /\ pnt' = [pnt EXCEPT !.rI = rI + 1]
       ELSE UNCHANGED <<rI, pnt>>
  /\ cI' = 1
  /\ s' = s \o SubSeq(src, sI, BodyStop)
  /\ sI' = BodyStop + 1
  /\ UNCHANGED <<given, answer>>

ControlKept ==
  /\ InBody /\ ControlAt(BodyStop) /\ opts.allow
  /\ s' = s \o SubSeq(src, sI, BodyStop)
  /\ sI' = BodyStop + 1 /\ cI' = cI + (BodyStop - sI) + 1
  /\ UNCHANGED <<given, rI, pnt, answer>>

\* Mutant: the error is made and the loop goes on.
ControlUnanswered ==
  /\ InBody /\ ControlAt(BodyStop) /\ ~opts.allow
  /\ sI' = BodyStop /\ cI' = cI + (BodyStop - sI)
  /\ pnt' = [pnt EXCEPT !.sI = sI', !.cI = cI']
  /\ UNCHANGED <<given, rI, s, answer>>

ControlRefused ==
  /\ InBody /\ ControlAt(BodyStop) /\ ~opts.allow
  /\ sI' = BodyStop /\ cI' = cI + (BodyStop - sI)
  /\ pnt' = [pnt EXCEPT !.sI = sI', !.cI = cI']
  /\ answer' = Answer("unprintable", <<>>, BodyStop - 1)
  /\ UNCHANGED <<given, rI, s>>

Body ==
  /\ InBody /\ ~LineCharAt(BodyStop) /\ ~ControlAt(BodyStop)
  /\ s' = s \o SubSeq(src, sI, BodyStop - 1)
  /\ sI' = BodyStop /\ cI' = cI + (BodyStop - sI)
  /\ UNCHANGED <<given, rI, pnt, answer>>

\* Mutant: a field whose last character is a quote passes for a closed one.
ExhaustedByLast ==
  /\ Scanning /\ ~HasChar(sI)
  /\ pnt' = [pnt EXCEPT !.rI = qrI]
  /\ answer' = IF src[Len(src)] = q THEN Answer("field", s, Len(src))
                                    ELSE Answer("unterminated", <<>>, Len(src))
  /\ UNCHANGED <<given, sI, rI, cI, s>>

\* Mutant: the row is left where the source ran out.
ExhaustedThere ==
  /\ Scanning /\ ~HasChar(sI)
  /\ answer' = Answer("unterminated", <<>>, Len(src))
  /\ UNCHANGED <<given, sI, rI, cI, pnt, s>>

\* The quote is still open: the error is reported on the row it opened on.
Exhausted ==
  /\ Scanning /\ ~HasChar(sI)
  /\ pnt' = [pnt EXCEPT !.rI = qrI]
  /\ answer' = Answer("unterminated", <<>>, Len(src))
  /\ UNCHANGED <<given, sI, rI, cI, s>>

Turn ==
  \/ Decline \/ Open \/ EscapedQuote \/ ClosingQuote \/ LineChar
  \/ ControlKept \/ ControlRefused \/ Body \/ Exhausted

Answered == answer # Pending /\ UNCHANGED vars

Next == Turn \/ Answered

Spec == Init /\ [][Next]_vars /\ WF_vars(Turn)

-----------------------------------------------------------------------------

Field == INSTANCE QuotedField WITH FieldStartOnly <- FALSE, Refusal <- "unprintable"

(* Every turn of the loop goes on towards the answer QuotedField gives: the *)
(* scan never mistakes the second half of an escaped pair for a closing     *)
(* quote, or the other way round, wherever line ends, control characters    *)
(* and the end of the source fall (csv.ts:626-706).                         *)
ImplementsField == Field!Spec

(* Whichever characters stand between the quotes, the inner and the outer   *)
(* loop together leave none of them behind without going past it or         *)
(* answering, so the matcher returns (csv.ts:626-706).                      *)
ScanEnds == <>(answer # Pending)

(* The cursor's row counts the row characters up to where it stands, and    *)
(* an unterminated field leaves it at the quote, where the error is         *)
(* reported (csv.ts:667-669, 695-698).                                      *)
RowFollows ==
  /\ answer.kind = "field" => pnt.rI = RowAfter(src, answer.end)
  /\ answer.kind \in {"unprintable", "pending"} => pnt.rI = RowAfter(src, sI - 1)
  /\ answer.kind \in {"unterminated", "none"} => pnt = [sI |-> 1, rI |-> qrI, cI |-> 1]
=============================================================================
