------------------------------ MODULE QuotedGo ------------------------------
(***************************************************************************)
(* The Go matcher, BuildCsvStringMatcher: the same scan over the bytes of  *)
(* the source, one step for each turn of its loop.                         *)
(***************************************************************************)
EXTENDS QuotedText, SequencesExt

VARIABLES
  src, before, opts,
  sI, rI, cI,   \* the matcher's byte index, row and column
  pnt,          \* the lexer's cursor
  s,            \* the bytes of text read
  answer        \* text and end in bytes

vars == <<src, before, opts, sI, rI, cI, pnt, s, answer>>
given == <<src, before, opts>>

-----------------------------------------------------------------------------
(* Go strings: UTF-8, as far as U+FFFF.                                    *)

Utf8(c) ==
  IF c < 128 THEN <<c>>
  ELSE IF c < 2048 THEN <<192 + (c \div 64), 128 + (c % 64)>>
  ELSE <<224 + (c \div 4096), 128 + ((c \div 64) % 64), 128 + (c % 64)>>

Encoded(text) == FlattenSeq([i \in DOMAIN text |-> Utf8(text[i])])

\* Each byte is looked up as if it were a character; a quote with a byte that is
\* the code of a line character is no configuration of interest either.
ASSUME QuoteBytesAssumption == \A input \in Inputs :
  \A i \in DOMAIN Encoded(input.opts.quote) : Encoded(input.opts.quote)[i] \notin LineChars

ASSUME FixedTokensAssumption == FixedTokens \subseteq Seq(Char)

\* The characters of well-formed bytes: a first byte begins one, and each of the
\* other bytes brings its next six bits.
Decoded(bytes) ==
  LET upTo[n \in 0 .. Len(bytes)] ==
        IF n = 0 THEN <<>>
        ELSE IF bytes[n] < 128 THEN Append(upTo[n - 1], bytes[n])
        ELSE IF bytes[n] < 192
          THEN [upTo[n - 1] EXCEPT ![Len(upTo[n - 1])] = @ * 64 + bytes[n] - 128]
        ELSE Append(upTo[n - 1], IF bytes[n] < 224 THEN bytes[n] - 192 ELSE bytes[n] - 224)
  IN upTo[Len(bytes)]

-----------------------------------------------------------------------------

bytes == Encoded(src)
quote == Encoded(opts.quote)
qLen  == Len(quote)
qRI   == 1   \* the row the quote opened on

HasByte(i) == i <= Len(bytes)
QuoteAt(i) == HasByte(i + qLen - 1) /\ SubSeq(bytes, i, i + qLen - 1) = quote

Init ==
  /\ \E input \in Inputs : src = input.src /\ before = input.before /\ opts = input.opts
  /\ sI = 1 /\ rI = qRI /\ cI = 1
  /\ pnt = [sI |-> 1, rI |-> qRI, cI |-> 1]
  /\ s = <<>> /\ answer = Pending

\* A field starts at the start of the source, after a fixed token, or after a
\* line or space character.
FieldStart ==
  \/ before = <<>>
  \/ \E fixed \in FixedTokens \ {<<>>} : IsSuffix(Encoded(fixed), Encoded(before))
  \/ \E c \in LineChars \union SpaceChars : IsSuffix(<<c>>, before)

Opens == OneCodeUnit(opts.quote) /\ QuoteAt(1) /\ FieldStart

Decline ==
  /\ answer = Pending /\ ~Opens
  /\ answer' = Unread
  /\ UNCHANGED <<given, sI, rI, cI, pnt, s>>

Open ==
  /\ answer = Pending /\ Opens /\ sI = 1
  /\ sI' = 1 + qLen /\ cI' = cI + qLen
  /\ UNCHANGED <<given, rI, pnt, s, answer>>

Scanning == answer = Pending /\ sI > 1

EscapedQuote ==
  /\ Scanning /\ QuoteAt(sI) /\ QuoteAt(sI + qLen)
  /\ s' = s \o quote
  /\ sI' = sI + 2 * qLen /\ cI' = cI + 2 * qLen
  /\ UNCHANGED <<given, rI, pnt, answer>>

\* Mutant: the column is counted at the head of the loop and for the quote.
ClosingQuoteTwice ==
  /\ Scanning /\ QuoteAt(sI) /\ ~QuoteAt(sI + qLen)
  /\ sI' = sI + qLen /\ cI' = cI + 1 + qLen
  /\ pnt' = [sI |-> sI', rI |-> rI, cI |-> cI']
  /\ answer' = Answer("field", s, sI' - 1)
  /\ UNCHANGED <<given, rI, s>>

ClosingQuote ==
  /\ Scanning /\ QuoteAt(sI) /\ ~QuoteAt(sI + qLen)
  /\ sI' = sI + qLen /\ cI' = cI + qLen
  /\ pnt' = [sI |-> sI', rI |-> rI, cI |-> cI']
  /\ answer' = Answer("field", s, sI' - 1)
  /\ UNCHANGED <<given, rI, s>>

InBody == Scanning /\ HasByte(sI) /\ ~QuoteAt(sI)

\* A byte is looked up as if it were a character.
LineChar ==
  /\ InBody /\ bytes[sI] \in LineChars
  /\ IF bytes[sI] \in RowChars
       THEN rI' = rI + 1 /\ pnt' = [pnt EXCEPT !.rI = rI + 1]
       ELSE UNCHANGED <<rI, pnt>>
  /\ cI' = 1
  /\ s' = Append(s, bytes[sI]) /\ sI' = sI + 1
  /\ UNCHANGED <<given, answer>>

ControlKept ==
  /\ InBody /\ bytes[sI] \notin LineChars /\ IsControl(bytes[sI]) /\ opts.allow
  /\ s' = Append(s, bytes[sI]) /\ sI' = sI + 1 /\ cI' = cI + 1
  /\ UNCHANGED <<given, rI, pnt, answer>>

\* Mutant: the loop goes on at a byte it may not take, without passing it.
ControlRefusedInPlace ==
  /\ InBody /\ bytes[sI] \notin LineChars /\ IsControl(bytes[sI]) /\ ~opts.allow
  /\ UNCHANGED vars

\* The matcher gives up; a row it has already written to the cursor stays.
ControlRefused ==
  /\ InBody /\ bytes[sI] \notin LineChars /\ IsControl(bytes[sI]) /\ ~opts.allow
  /\ answer' = Unread
  /\ UNCHANGED <<given, sI, rI, cI, pnt, s>>

\* The inner loop stops at a byte below 32, at a line character, and at a
\* byte that is the first one of the quote's, whatever follows it.
BodyStop ==
  Min({i \in sI .. Len(bytes) :
         IsControl(bytes[i]) \/ bytes[i] = quote[1] \/ bytes[i] \in LineChars}
        \union {Len(bytes) + 1})

Body ==
  /\ InBody /\ bytes[sI] \notin LineChars /\ ~IsControl(bytes[sI])
  /\ s' = s \o SubSeq(bytes, sI, BodyStop - 1)
  /\ sI' = BodyStop /\ cI' = cI + (BodyStop - sI)
  /\ UNCHANGED <<given, rI, pnt, answer>>

\* Mutant: half of an escaped pair at the end closes the field.
ExhaustedByLast ==
  /\ Scanning /\ ~HasByte(sI)
  /\ pnt' = [sI |-> sI, rI |-> rI, cI |-> cI]
  /\ answer' = IF IsSuffix(quote, bytes) THEN Answer("field", s, Len(bytes))
                                         ELSE Answer("unterminated", <<>>, Len(bytes))
  /\ UNCHANGED <<given, sI, rI, cI, s>>

\* The error token takes the row the quote opened on, then the cursor moves.
Exhausted ==
  /\ Scanning /\ ~HasByte(sI)
  /\ pnt' = [sI |-> sI, rI |-> rI, cI |-> cI]
  /\ answer' = Answer("unterminated", <<>>, Len(bytes))
  /\ UNCHANGED <<given, sI, rI, cI, s>>

Turn ==
  \/ Decline \/ Open \/ EscapedQuote \/ ClosingQuote \/ LineChar
  \/ ControlKept \/ ControlRefused \/ Body \/ Exhausted

Answered == answer # Pending /\ UNCHANGED vars

Next == Turn \/ Answered

Spec == Init /\ [][Next]_vars /\ WF_vars(Turn)

-----------------------------------------------------------------------------

\* The answer in characters.
InCharacters ==
  [answer EXCEPT !.text = Decoded(@),
                 !.end = Len(Decoded(SubSeq(bytes, 1, @)))]

Field == INSTANCE QuotedField
           WITH FieldStartOnly <- TRUE, Refusal <- "none", answer <- InCharacters

(* Scanning bytes, with a quote of one byte or of several, the loop ends    *)
(* with the answer QuotedField gives for the characters: no quote is split, *)
(* no half of an escaped pair closes a field, and a quote that does not     *)
(* start a field is left alone (csv.go:762-884).                            *)
ImplementsField == Field!Spec

(* After a field, and after the source ran out in one, the cursor's row and *)
(* column are those of the byte it stands at: each is counted once, where   *)
(* pairs of quotes, line ends and control characters take different paths   *)
(* through the loop (csv.go:817-888).                                       *)
CursorFollows ==
  answer.kind \in {"field", "unterminated"} =>
    /\ pnt.sI = answer.end + 1
    /\ pnt.rI = RowAfter(bytes, answer.end)
    /\ pnt.cI = ColumnAfter(bytes, answer.end)

(* "every other character is text" (go/doc/reference.md:181), so every      *)
(* field is read to an end, whichever characters stand between its quotes:  *)
(* each turn of the loop passes a byte or answers (csv.go:817-888).         *)
ScanEnds == <>(answer # Pending)
=============================================================================
