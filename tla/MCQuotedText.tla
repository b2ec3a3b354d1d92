---------------------------- MODULE MCQuotedText ----------------------------
(* Small instances of the quoted-field matchers: what may lie ahead.       *)
EXTENDS QuotedText

CONSTANT MaxLength

Tab == 9   LF == 10   CR == 13   Space == 32   DoubleQuote == 34   Comma == 44
LetterX == 120   Guillemet == 171   Degree == 176   LetterE == 233   Astral == 128512

Setting(quote, allow) == [quote |-> quote, allow |-> allow]

Plain    == {Setting(<<DoubleQuote>>, allow) : allow \in BOOLEAN}
\* a quote that is a control character
TabQuote == {Setting(<<Tab>>, allow) : allow \in BOOLEAN}
\* quotes that leave the matcher inert
Inert    == {Setting(quote, TRUE) : quote \in {<<>>, <<DoubleQuote, DoubleQuote>>, <<Astral>>}}
Wide     == {Setting(<<Guillemet>>, TRUE)}

TwoCommas     == {<<Comma, Comma>>}
NothingBefore == {<<>>}
AnyBefore     == {<<>>, <<Comma>>, <<Comma, Comma>>, <<Space>>, <<LF>>, <<LetterX>>}

\* All sources whose first character is one of a few.
Family(firsts, alphabet, befores, settings) ==
  {input \in [src : UNION {[1 .. n -> alphabet] : n \in 1 .. MaxLength},
              before : befores, opts : settings] : input.src[1] \in firsts}

LineAlphabet == {DoubleQuote, LetterX, Tab, LF, CR}

TsInputs == Family({DoubleQuote, Tab}, LineAlphabet, NothingBefore, Plain \union TabQuote \union Inert)

GoInputs ==
  Family({DoubleQuote, Tab}, LineAlphabet, AnyBefore, Plain \union TabQuote \union Inert)
    \union Family({Guillemet}, {Guillemet, LetterX, LetterE, LF}, NothingBefore, Wide)

\* A character that shares its first byte with the quote.
AccentInputs == Family({Guillemet}, {Guillemet, Degree}, NothingBefore, Wide)

RsInputs == Family({DoubleQuote}, {DoubleQuote, LetterX, Tab}, NothingBefore,
                   Plain \union {Setting(<<Astral>>, TRUE)})
=============================================================================
