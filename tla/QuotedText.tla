----------------------------- MODULE QuotedText -----------------------------
(***************************************************************************)
(* What a quoted field is: which quote closes it, what it says, and the    *)
(* row and column that follow it.  Characters are code points; a source is *)
(* what lies ahead of the lexer, its first character at index 1.           *)
(***************************************************************************)
EXTENDS Naturals, Sequences, FiniteSets, FiniteSetsExt

CONSTANTS
  Inputs,       \* what may lie ahead of the lexer, what may lie behind it as far
                \* back as a matcher looks, and string.quote and allowControl
  LineChars,    \* cfg.line.chars
  RowChars,     \* cfg.line.rowChars
  SpaceChars,   \* cfg.space.chars
  FixedTokens   \* the sources of the fixed tokens, the separator among them

Char == Nat

ASSUME TextAssumption ==
  /\ Inputs \subseteq [src : Seq(Char) \ {<<>>}, before : Seq(Char),
                       opts : [quote : Seq(Char), allow : BOOLEAN]]
  /\ RowChars \subseteq LineChars

\* A quote that is one of the line characters is no configuration of interest.
ASSUME QuoteAssumption == \A input \in Inputs :
                             \A i \in DOMAIN input.opts.quote : input.opts.quote[i] \notin LineChars

Pending == [kind |-> "pending", text |-> <<>>, end |-> 0]
Answer(kind, text, end) == [kind |-> kind, text |-> text, end |-> end]
Unread == Answer("none", <<>>, 0)

\* The matchers fire for a quote of exactly one UTF-16 code unit.
OneCodeUnit(quote) == Len(quote) = 1 /\ quote[1] < 65536

IsControl(c) == c < 32

-----------------------------------------------------------------------------
(* Where the field that src opens with the quote q ends, and what it says. *)

QuotesUpTo(src, q, j) == Cardinality({i \in 2 .. j : src[i] = q})

\* A quote closes the field when it is the last of a run and no second half of
\* an escaped pair: the quotes after the first, up to it, are odd in number.
Closes(src, q, j) ==
  /\ src[j] = q
  /\ QuotesUpTo(src, q, j) % 2 = 1
  /\ j < Len(src) => src[j + 1] # q

Closings(src, q) == {j \in 2 .. Len(src) : Closes(src, q, j)}

\* One past the last character that the field may hold.
BodyEnd(src, q) == IF Closings(src, q) = {} THEN Len(src) + 1 ELSE Min(Closings(src, q))

\* The control characters a field may not hold when allowControl is off.
Unprintables(src, q) ==
  {j \in 2 .. BodyEnd(src, q) - 1 : IsControl(src[j]) /\ src[j] # q /\ src[j] \notin LineChars}

\* A field keeps each of its characters but the first of a pair of quotes.
Keeps(src, q, i) == src[i] = q => QuotesUpTo(src, q, i) % 2 = 0
KeptUpTo(src, q, n) == Cardinality({i \in 2 .. n : Keeps(src, q, i)})

\* The k-th character kept, and what is kept of the first n.
KeptAt(src, q, k) == CHOOSE i \in 2 .. Len(src) : Keeps(src, q, i) /\ KeptUpTo(src, q, i) = k
SaidUpTo(src, q, n) == [k \in 1 .. KeptUpTo(src, q, n) |-> src[KeptAt(src, q, k)]]

\* The characters of the field, one of each pair of quotes.
Said(src, q) == SaidUpTo(src, q, BodyEnd(src, q) - 1)

-----------------------------------------------------------------------------
(* The lexer's cursor after the first n characters, from row 1, column 1.  *)

RowAfter(src, n) == 1 + Cardinality({i \in 1 .. n : src[i] \in RowChars})

ColumnAfter(src, n) == n + 1 - Max({i \in 1 .. n : src[i] \in LineChars} \union {0})
=============================================================================
