------------------------------ MODULE QuotedRs ------------------------------
(***************************************************************************)
(* The Rust matcher, csv_string_matcher.  In a parse from a reader the     *)
(* lexer holds a part of the source only, the window; a field that the     *)
(* window ends inside makes the matcher ask for more and scan again.       *)
(***************************************************************************)
EXTENDS QuotedText

CONSTANT Surplus   \* how many characters more than asked a fill may bring

ASSUME SurplusAssumption == Surplus \subseteq Nat

VARIABLES
  src, before, opts,
  held,      \* how many characters of src the window holds
  answer

vars == <<src, before, opts, held, answer>>
given == <<src, before, opts>>

q == opts.quote[1]

\* The reader has brought any part of the source, the first character at least.
Init ==
  /\ \E input \in Inputs : src = input.src /\ before = input.before /\ opts = input.opts
  /\ held \in 1 .. Len(src)
  /\ answer = Pending

Window == SubSeq(src, 1, held)

\* lexer.fill(n): the window grows to n characters and what the reader brings
\* with them, or to the end of the source.
Fill(n) == held' \in {Max({held, Min({n + more, Len(src)})}) : more \in Surplus}

\* scan_quoted
ScanQuoted(rest) ==
  LET Stop(kind, at) == [kind |-> kind, text |-> <<>>, at |-> at]
      Saying(c, scan) == [scan EXCEPT !.text = <<c>> \o @]
      from[i \in 2 .. Len(rest) + 2] ==
        IF i > Len(rest) THEN Stop("open", Len(rest))
        ELSE IF rest[i] = q
          THEN IF i = Len(rest)       THEN Stop("quoteAtEnd", i)
               ELSE IF rest[i + 1] = q THEN Saying(q, from[i + 2])
                                       ELSE Stop("closed", i)
        ELSE IF rest[i] \notin LineChars /\ IsControl(rest[i]) /\ ~opts.allow
          THEN Stop("control", i - 1)
          ELSE Saying(rest[i], from[i + 1])
  IN from[2]

Fires == OneCodeUnit(opts.quote) /\ Window[1] = q

Decline ==
  /\ answer = Pending /\ ~Fires
  /\ answer' = Unread
  /\ UNCHANGED <<given, held>>

Scanning(kind) ==
  /\ answer = Pending /\ Fires
  /\ ScanQuoted(Window).kind = kind
  /\ UNCHANGED given

Found(scan) == Answer("field", scan.text, scan.at)

Closed ==
  /\ Scanning("closed")
  /\ answer' = Found(ScanQuoted(Window))
  /\ UNCHANGED held

\* Mutant: the last quote held closes the field.
QuoteAtEndCloses ==
  /\ Scanning("quoteAtEnd")
  /\ answer' = Found(ScanQuoted(Window))
  /\ UNCHANGED held

\* The quote closes the field if no character follows it.
QuoteAtEnd ==
  LET scan == ScanQuoted(Window)
  IN /\ Scanning("quoteAtEnd")
     /\ Fill(scan.at + 1)
     /\ answer' = IF held' > scan.at THEN answer ELSE Found(scan)

Control ==
  /\ Scanning("control")
  /\ answer' = Answer("unprintable", <<>>, ScanQuoted(Window).at)
  /\ UNCHANGED held

\* Mutant: a window that did not grow is scanned again.
OpenScansAgain ==
  LET scan == ScanQuoted(Window)
  IN /\ Scanning("open")
     /\ Fill(Max({2 * scan.at, scan.at + 1}))
     /\ answer' = IF held' >= scan.at THEN answer ELSE Answer("unterminated", <<>>, scan.at)

\* The window is asked for twice as much; if it did not grow, the source ended.
Open ==
  LET scan == ScanQuoted(Window)
  IN /\ Scanning("open")
     /\ Fill(Max({2 * scan.at, scan.at + 1}))
     /\ answer' = IF held' > scan.at THEN answer ELSE Answer("unterminated", <<>>, scan.at)

Match == Decline \/ Closed \/ QuoteAtEnd \/ Control \/ Open

Answered == answer # Pending /\ UNCHANGED vars

Next == Match \/ Answered

Spec == Init /\ [][Next]_vars /\ WF_vars(Match)

-----------------------------------------------------------------------------

Field == INSTANCE QuotedField WITH FieldStartOnly <- FALSE, Refusal <- "unprintable"

(* However the reader cuts the source, the matcher answers as QuotedField   *)
(* does for the whole of it: a window that ends inside a field, or between  *)
(* the quotes of an escaped pair, changes nothing (lib.rs:1036-1080).       *)
ImplementsField == Field!Spec

(* Every scan that the end of the window cut short is followed by one of a  *)
(* longer window, or was of the whole source: the matcher returns           *)
(* (lib.rs:1052-1076).                                                      *)
ScanEnds == <>(answer # Pending)
=============================================================================
