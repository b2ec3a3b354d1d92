---------------------------- MODULE QuotedProofs ----------------------------
(***************************************************************************)
(* The TypeScript and the Rust matcher on sources of any length: the field *)
(* they read, and where the first leaves the lexer's row.                  *)
(***************************************************************************)
EXTENDS QuotedTs, FiniteSetTheorems, SequenceTheorems, WellFoundedInduction, TLAPS

-----------------------------------------------------------------------------
(* Counting characters.                                                    *)

Count(f, S, lo, n) == Cardinality({i \in lo .. n : f[i] \in S})

LEMMA CountType ==
  ASSUME NEW f, NEW S, NEW lo \in Nat, NEW n \in Nat
  PROVE  IsFiniteSet({i \in lo .. n : f[i] \in S}) /\ Count(f, S, lo, n) \in Nat
<1>1. IsFiniteSet(lo .. n)
  BY FS_Interval
<1>2. {i \in lo .. n : f[i] \in S} \in SUBSET (lo .. n)
  OBVIOUS
<1>3. IsFiniteSet({i \in lo .. n : f[i] \in S})
  BY <1>1, <1>2, FS_Subset
<1>4. QED
  BY <1>3, FS_CardinalityType DEF Count

LEMMA CountEmpty ==
  ASSUME NEW f, NEW S, NEW lo \in Nat, NEW n \in Nat, n < lo
  PROVE  Count(f, S, lo, n) = 0
<1>1. {i \in lo .. n : f[i] \in S} = {}
  OBVIOUS
<1>2. QED
  BY <1>1, FS_EmptySet DEF Count

\* Characters that are not counted change nothing.
LEMMA CountOn ==
  ASSUME NEW f, NEW S, NEW lo \in Nat, NEW m \in Nat, NEW n \in Nat, m <= n,
         \A i \in m + 1 .. n : f[i] \notin S
  PROVE  Count(f, S, lo, n) = Count(f, S, lo, m)
<1>1. {i \in lo .. n : f[i] \in S} = {i \in lo .. m : f[i] \in S}
  OBVIOUS
<1>2. QED
  BY <1>1 DEF Count

LEMMA CountUp ==
  ASSUME NEW f, NEW S, NEW lo \in Nat, NEW m \in Nat, lo <= m + 1, f[m + 1] \in S
  PROVE  Count(f, S, lo, m + 1) = Count(f, S, lo, m) + 1
<1>1. {i \in lo .. m + 1 : f[i] \in S} = {i \in lo .. m : f[i] \in S} \cup {m + 1}
  OBVIOUS
<1>2. m + 1 \notin {i \in lo .. m : f[i] \in S}
  OBVIOUS
<1>3. PICK T : T = {i \in lo .. m : f[i] \in S}
  OBVIOUS
<1>4. IsFiniteSet(T) /\ m + 1 \notin T
  <2>1. IsFiniteSet({i \in lo .. m : f[i] \in S})
    BY CountType
  <2>2. QED
    BY <1>2, <1>3, <2>1
<1>5. Cardinality(T \cup {m + 1}) = Cardinality(T) + 1
  BY <1>4, FS_AddElement
<1>6. QED
  BY <1>1, <1>3, <1>5 DEF Count

LEMMA RowsCounted ==
  ASSUME NEW f, NEW n
  PROVE  RowAfter(f, n) = 1 + Count(f, RowChars, 1, n)
BY DEF RowAfter, Count

LEMMA QuotesCounted ==
  ASSUME NEW f, NEW c, NEW S, S = {c}, NEW n
  PROVE  QuotesUpTo(f, c, n) = Count(f, S, 2, n)
<1>1. {i \in 2 .. n : f[i] = c} = {i \in 2 .. n : f[i] \in S}
  OBVIOUS
<1>2. QED
  BY <1>1 DEF QuotesUpTo, Count

\* A set of numbers has a least one.
LEMMA Least ==
  ASSUME NEW T \in SUBSET Nat, T # {}
  PROVE  \E m \in T : \A y \in T : m <= y
<1> DEFINE R == OpToRel(<, Nat)
<1>1. IsWellFoundedOn(R, Nat)
  BY NatLessThanWellFounded
<1>2. ASSUME NEW x \in Nat, NEW y \in Nat, y < x PROVE <<y, x>> \in R
  BY <1>2 DEF OpToRel
<1>3. PICK m \in T : \A y \in T : ~(<<y, m>> \in R)
  <2> HIDE DEF R
  <2>1. QED
    BY <1>1, WFMin
<1>4. ASSUME NEW y \in T PROVE m <= y
  <2>1. m \in Nat /\ y \in Nat
    OBVIOUS
  <2>2. <<y, m>> \notin R
    BY <1>3
  <2>3. ~(y < m)
    BY <1>2, <2>1, <2>2
  <2>4. QED
    BY <2>1, <2>3
<1>5. QED
  BY <1>4

LEMMA LeastOf ==
  ASSUME NEW S \in SUBSET Nat, NEW m \in S, \A x \in S : m <= x
  PROVE  Min(S) = m
<1>1. \A x \in S : (\A y \in S : x <= y) <=> x = m
  OBVIOUS
<1>2. QED
  BY <1>1 DEF Min

-----------------------------------------------------------------------------
(* The invariant.                                                          *)

\* A control character the field may not hold when allowControl is off.
Barred(j) == IsControl(src[j]) /\ src[j] # q /\ src[j] \notin LineChars

\* Nothing up to the n-th character ends the field.
Passed(n) ==
  /\ QuotesUpTo(src, q, n) % 2 = 0
  /\ \A j \in 2 .. n : ~Closes(src, q, j)
  /\ ~opts.allow => \A j \in 2 .. n : ~Barred(j)

InputOK ==
  /\ src \in Seq(Nat) /\ src # <<>>
  /\ opts.allow \in BOOLEAN
  /\ Opens => q \notin LineChars /\ src[1] = q

Home(row) == [sI |-> 1, rI |-> row, cI |-> 1]

\* The answer is the one QuotedText gives, the text of the field apart.
Verdict ==
  /\ answer.kind \in {"pending", "none", "field", "unterminated", "unprintable"}
  /\ answer.kind = "none" => ~Opens
  /\ answer.kind = "field" =>
       /\ Opens /\ Closings(src, q) # {} /\ answer.end = Min(Closings(src, q))
       /\ opts.allow \/ Unprintables(src, q) = {}
  /\ answer.kind = "unterminated" =>
       /\ Opens /\ Closings(src, q) = {} /\ answer.end = Len(src)
       /\ opts.allow \/ Unprintables(src, q) = {}
  /\ answer.kind = "unprintable" =>
       /\ Opens /\ ~opts.allow
       /\ Unprintables(src, q) # {} /\ answer.end = Min(Unprintables(src, q)) - 1

Inv ==
  /\ InputOK
  /\ answer.kind = "pending" <=> answer = Pending
  /\ sI \in 1 .. Len(src) + 1 /\ rI \in Nat
  /\ answer = Pending /\ sI = 1 => rI = 1 /\ pnt = Home(1)
  /\ Scanning => Opens /\ Passed(sI - 1) /\ pnt = Home(rI) /\ rI = RowAfter(src, sI - 1)
  /\ RowFollows
  /\ Verdict

-----------------------------------------------------------------------------
(* The turns.                                                              *)

\* Where the inner loop stops, and what it has run over.
LEMMA StopsAt ==
  ASSUME Inv, InBody
  PROVE  /\ BodyStop \in sI .. Len(src) + 1
         /\ \A i \in sI .. BodyStop - 1 : ~IsControl(src[i]) /\ src[i] # q
         /\ BodyStop <= Len(src) => IsControl(src[BodyStop]) \/ src[BodyStop] = q
<1> DEFINE stops == {i \in sI .. Len(src) : IsControl(src[i]) \/ src[i] = q} \union {Len(src) + 1}
<1>1. Len(src) \in Nat /\ sI \in 1 .. Len(src)
  BY LenProperties DEF Inv, InputOK, InBody, HasChar
<1>2. stops \in SUBSET Nat /\ stops # {}
  BY <1>1
<1>3. PICK m \in stops : \A y \in stops : m <= y
  BY <1>2, Least
<1>4. BodyStop = m
  BY <1>2, <1>3, LeastOf DEF BodyStop
<1>5. QED
  BY <1>1, <1>3, <1>4

\* Over characters that are neither the quote nor barred nothing ends.
LEMMA PassedOn ==
  ASSUME NEW m \in Nat, NEW n \in Nat, 1 <= m, m <= n, Passed(m),
         \A i \in m + 1 .. n : src[i] # q,
         ~opts.allow => \A i \in m + 1 .. n : ~Barred(i)
  PROVE  Passed(n)
<1>1. QuotesUpTo(src, q, n) = QuotesUpTo(src, q, m)
  <2>1. PICK S : S = {q}
    OBVIOUS
  <2>2. \A i \in m + 1 .. n : src[i] \notin S
    BY <2>1
  <2>3. 2 \in Nat
    OBVIOUS
  <2>4. Count(src, S, 2, n) = Count(src, S, 2, m)
    BY <2>2, <2>3, CountOn
  <2>5. QED
    BY <2>1, <2>4, QuotesCounted
<1>2. \A j \in 2 .. n : ~Closes(src, q, j)
  BY DEF Passed, Closes
<1>3. ~opts.allow => \A j \in 2 .. n : ~Barred(j)
  BY DEF Passed
<1>4. QED
  BY <1>1, <1>2, <1>3 DEF Passed

\* The rows of a stretch with no row character in it.
LEMMA SameRow ==
  ASSUME NEW m \in Nat, NEW n \in Nat, m <= n, \A i \in m + 1 .. n : src[i] \notin RowChars
  PROVE  RowAfter(src, n) = RowAfter(src, m)
BY CountOn, RowsCounted

LEMMA NextRow ==
  ASSUME NEW m \in Nat, src[m + 1] \in RowChars
  PROVE  RowAfter(src, m + 1) = RowAfter(src, m) + 1
<1>1. Count(src, RowChars, 1, m + 1) = Count(src, RowChars, 1, m) + 1
  BY CountUp
<1>2. Count(src, RowChars, 1, m) \in Nat
  BY CountType
<1>3. QED
  BY <1>1, <1>2, RowsCounted

\* One quote more.
LEMMA NextQuote ==
  ASSUME NEW m \in Nat, 1 <= m, src[m + 1] = q
  PROVE  /\ QuotesUpTo(src, q, m + 1) = QuotesUpTo(src, q, m) + 1
         /\ QuotesUpTo(src, q, m) \in Nat
<1>1. PICK S : S = {q}
  OBVIOUS
<1>2. Count(src, S, 2, m + 1) = Count(src, S, 2, m) + 1
  BY <1>1, CountUp
<1>3. Count(src, S, 2, m) \in Nat
  BY CountType
<1>4. QED
  BY <1>1, <1>2, <1>3, QuotesCounted

LEMMA NoQuotes == Passed(1)
<1>1. PICK S : S = {q}
  OBVIOUS
<1>2. Count(src, S, 2, 1) = 0
  BY CountEmpty
<1>3. QuotesUpTo(src, q, 1) = 0
  BY <1>1, <1>2, QuotesCounted
<1>4. QED
  BY <1>3 DEF Passed

LEMMA Kept ==
  ASSUME UNCHANGED given
  PROVE  /\ q' = q /\ Opens' = Opens
         /\ \A n : Passed(n)' = Passed(n)
         /\ \A n : RowAfter(src', n) = RowAfter(src, n)
         /\ InputOK' = InputOK
<1>1. src' = src /\ opts' = opts
  BY DEF given
<1>2. q' = q /\ Opens' = Opens
  BY <1>1 DEF q, Opens
<1>3. \A j : Barred(j)' = Barred(j)
  BY <1>1, <1>2 DEF Barred
<1>4. \A n : Passed(n)' = Passed(n)
  BY <1>1, <1>2, <1>3 DEF Passed
<1>5. InputOK' = InputOK
  BY <1>1, <1>2 DEF InputOK
<1>6. QED
  BY <1>1, <1>2, <1>4, <1>5

\* The inputs a matcher may be given.
LEMMA Given ==
  ASSUME \E input \in Inputs : src = input.src /\ before = input.before /\ opts = input.opts
  PROVE  InputOK /\ [src |-> src, before |-> before, opts |-> opts] \in Inputs
<1>1. PICK input \in Inputs : src = input.src /\ before = input.before /\ opts = input.opts
  OBVIOUS
<1>2. /\ src \in Seq(Nat) /\ src # <<>> /\ opts.quote \in Seq(Nat) /\ opts.allow \in BOOLEAN
  BY <1>1, TextAssumption DEF Char
<1>3. Opens => q \notin LineChars /\ src[1] = q
  <2>1. SUFFICES ASSUME Opens PROVE q \notin LineChars /\ src[1] = q
    OBVIOUS
  <2>2. 1 \in DOMAIN opts.quote
    BY <1>2, <2>1, LenProperties DEF Opens, OneCodeUnit
  <2>3. QED
    BY <1>1, <2>1, <2>2, QuoteAssumption DEF Opens, q
<1>4. input = [src |-> input.src, before |-> input.before, opts |-> input.opts]
  BY TextAssumption
<1>5. QED
  BY <1>1, <1>2, <1>3, <1>4 DEF InputOK

LEMMA InitInv ==
  ASSUME Init
  PROVE  Inv
<1>1. InputOK
  BY Given DEF Init
<1>2. Len(src) \in Nat /\ Len(src) >= 1
  BY <1>1, LenProperties, EmptySeq DEF InputOK
<1>3. answer = Pending /\ answer.kind = "pending" /\ sI = 1 /\ rI = 1 /\ pnt = Home(1) /\ pnt.rI = 1
  BY DEF Init, Pending, qrI, Home
<1>4. RowAfter(src, 0) = 1
  BY CountEmpty, RowsCounted
<1>5. RowFollows
  BY <1>3, <1>4 DEF RowFollows
<1>6. QED
  BY <1>1, <1>2, <1>3, <1>5 DEF Inv, Verdict, Scanning

\* What is known while the loop runs.
LEMMA Here ==
  ASSUME Inv, Scanning, NEW m, m = sI - 1
  PROVE  /\ m \in 1 .. Len(src) /\ sI = m + 1 /\ Len(src) \in Nat /\ InputOK
         /\ Opens /\ q \notin LineChars /\ q \notin RowChars
         /\ Passed(m) /\ pnt = Home(rI) /\ rI = RowAfter(src, m) /\ rI \in Nat
<1>1. InputOK /\ Opens /\ Passed(m) /\ pnt = Home(rI) /\ rI = RowAfter(src, m) /\ rI \in Nat
  BY DEF Inv
<1>2. q \notin LineChars /\ q \notin RowChars
  BY <1>1, TextAssumption DEF InputOK
<1>3. Len(src) \in Nat /\ sI \in 1 .. Len(src) + 1 /\ sI > 1
  BY <1>1, LenProperties DEF Inv, InputOK, Scanning
<1>4. QED
  BY <1>1, <1>2, <1>3

\* The loop goes on behind the n-th character.
LEMMA GoesOn ==
  ASSUME Inv, Opens, UNCHANGED <<given, answer>>, answer = Pending,
         NEW n \in Nat, 1 <= n, n <= Len(src), sI' = n + 1,
         Passed(n), rI' = RowAfter(src, n), pnt' = Home(RowAfter(src, n))
  PROVE  Inv'
<1>1. src' = src /\ opts' = opts /\ UNCHANGED given /\ InputOK /\ answer' = Pending
  BY DEF given, Inv
<1>2. /\ q' = q /\ Opens' = Opens /\ Passed(n)' = Passed(n)
      /\ RowAfter(src', n) = RowAfter(src, n) /\ InputOK' = InputOK
  BY <1>1, Kept
<1>3. answer'.kind = "pending"
  BY <1>1 DEF Pending
<1>4. RowAfter(src, n) \in Nat
  <2>1. Count(src, RowChars, 1, n) \in Nat
    BY CountType
  <2>2. QED
    BY <2>1, RowsCounted
<1>5. sI' \in 1 .. Len(src') + 1 /\ sI' # 1 /\ sI' - 1 = n /\ rI' \in Nat
  BY <1>1, <1>4, LenProperties DEF InputOK
<1>6. RowFollows'
  <2>1. pnt'.rI = RowAfter(src, n)
    BY DEF Home
  <2>2. QED
    BY <1>1, <1>3, <1>5, <2>1 DEF RowFollows
<1>7. Verdict'
  BY <1>3 DEF Verdict
<1>8. Scanning' => Opens' /\ Passed(sI - 1)' /\ pnt' = Home(rI') /\ rI' = RowAfter(src', sI' - 1)
  <2>1. PICK k : k = sI' - 1
    OBVIOUS
  <2>2. Passed(sI - 1)'
    BY <1>1, <1>2, <1>5 DEF Passed, Barred
  <2>3. QED
    BY <1>1, <1>2, <1>5, <2>2
<1>9. QED
  BY <1>1, <1>2, <1>3, <1>5, <1>6, <1>7, <1>8 DEF Inv, Home

LEMMA OpenInv ==
  ASSUME Inv, Open
  PROVE  Inv'
<1>1. /\ answer = Pending /\ Opens /\ rI = 1 /\ pnt = Home(1) /\ InputOK
      /\ sI' = 2 /\ rI' = rI /\ pnt' = pnt /\ UNCHANGED <<given, answer>>
  BY DEF Inv, Open
<1>2. src[1] = q /\ q \notin RowChars /\ 1 <= Len(src)
  BY <1>1, TextAssumption, EmptySeq DEF InputOK
<1>3. RowAfter(src, 1) = 1
  <2>1. RowAfter(src, 0) = 1
    BY CountEmpty, RowsCounted
  <2>2. \A i \in 0 + 1 .. 1 : src[i] \notin RowChars
    BY <1>2
  <2>3. RowAfter(src, 1) = RowAfter(src, 0)
    BY <2>2, SameRow
  <2>4. QED
    BY <2>1, <2>3
<1>4. QED
  BY <1>1, <1>2, <1>3, NoQuotes, GoesOn

LEMMA EscapedQuoteInv ==
  ASSUME Inv, EscapedQuote
  PROVE  Inv'
<1>1. PICK m : m = sI - 1
  OBVIOUS
<1>2. /\ Scanning /\ answer = Pending /\ src[sI] = q /\ src[sI + 1] = q /\ sI + 1 <= Len(src)
      /\ sI' = sI + 2 /\ rI' = rI /\ pnt' = pnt /\ UNCHANGED <<given, answer>>
  BY DEF EscapedQuote, Scanning, HasChar
<1>3. /\ m \in 1 .. Len(src) /\ sI = m + 1 /\ Len(src) \in Nat
      /\ Opens /\ q \notin RowChars /\ q \notin LineChars
      /\ Passed(m) /\ pnt = Home(rI) /\ rI = RowAfter(src, m)
  BY <1>1, <1>2, Here
<1>4. src[m + 1] = q /\ src[m + 2] = q /\ m + 2 <= Len(src) /\ sI' = (m + 2) + 1
  BY <1>2, <1>3
<1>5. RowAfter(src, m + 2) = RowAfter(src, m)
  <2>1. \A i \in m + 1 .. m + 2 : src[i] \notin RowChars
    BY <1>3, <1>4
  <2>2. QED
    BY <1>3, <2>1, SameRow
<1>6. Passed(m + 2)
  <2>1. QuotesUpTo(src, q, m + 1) = QuotesUpTo(src, q, m) + 1 /\ QuotesUpTo(src, q, m) \in Nat
    BY <1>3, <1>4, NextQuote
  <2>2. QuotesUpTo(src, q, m + 2) = QuotesUpTo(src, q, m + 1) + 1
    <3>1. PICK k \in Nat : k = m + 1 /\ k + 1 = m + 2
      BY <1>3
    <3>2. QED
      BY <1>3, <1>4, <3>1, NextQuote
  <2>3. QuotesUpTo(src, q, m) % 2 = 0
    BY <1>3 DEF Passed
  <2>4. QuotesUpTo(src, q, m + 2) % 2 = 0
    BY <2>1, <2>2, <2>3
  <2>5. ~Closes(src, q, m + 1) /\ ~Closes(src, q, m + 2)
    <3>1. m + 1 < Len(src) /\ src[(m + 1) + 1] = q
      BY <1>3, <1>4
    <3>2. ~(QuotesUpTo(src, q, m + 2) % 2 = 1)
      BY <2>4
    <3>3. QED
      BY <3>1, <3>2 DEF Closes
  <2>6. ~Barred(m + 1) /\ ~Barred(m + 2)
    BY <1>4 DEF Barred
  <2>7. \A j \in 2 .. m + 2 : j \in 2 .. m \/ j = m + 1 \/ j = m + 2
    BY <1>3
  <2>8. QED
    BY <1>3, <2>4, <2>5, <2>6, <2>7 DEF Passed
<1>7. QED
  BY <1>2, <1>3, <1>4, <1>5, <1>6, GoesOn

\* What the inner loop has run over.
LEMMA RunOver ==
  ASSUME Inv, InBody, NEW m, m = sI - 1, NEW n, n = BodyStop - 1
  PROVE  /\ n \in Nat /\ m <= n /\ n <= Len(src) /\ BodyStop = n + 1
         /\ Passed(n) /\ RowAfter(src, n) = RowAfter(src, m)
         /\ n < Len(src) => IsControl(src[n + 1]) \/ src[n + 1] = q
<1>1. /\ m \in 1 .. Len(src) /\ sI = m + 1 /\ Len(src) \in Nat /\ Passed(m)
  BY Here DEF InBody
<1>2. /\ n \in Nat /\ BodyStop = n + 1 /\ m <= n /\ n <= Len(src)
      /\ \A i \in m + 1 .. n : ~IsControl(src[i]) /\ src[i] # q
      /\ n < Len(src) => IsControl(src[n + 1]) \/ src[n + 1] = q
  BY <1>1, StopsAt
<1>3. \A i \in m + 1 .. n : ~Barred(i) /\ src[i] \notin RowChars
  BY <1>2, RowCharsAssumption DEF Barred
<1>4. Passed(n)
  BY <1>1, <1>2, <1>3, PassedOn
<1>5. RowAfter(src, n) = RowAfter(src, m)
  BY <1>1, <1>2, <1>3, SameRow
<1>6. QED
  BY <1>2, <1>4, <1>5

LEMMA BodyInv ==
  ASSUME Inv, Body
  PROVE  Inv'
<1>1. PICK m : m = sI - 1
  OBVIOUS
<1>2. PICK n : n = BodyStop - 1
  OBVIOUS
<1>3. /\ InBody /\ Scanning /\ answer = Pending
      /\ sI' = BodyStop /\ rI' = rI /\ pnt' = pnt /\ UNCHANGED <<given, answer>>
  BY DEF Body, InBody, Scanning
<1>4. m \in 1 .. Len(src) /\ Opens /\ pnt = Home(rI) /\ rI = RowAfter(src, m)
  BY <1>1, <1>3, Here
<1>5. /\ n \in Nat /\ m <= n /\ n <= Len(src) /\ BodyStop = n + 1
      /\ Passed(n) /\ RowAfter(src, n) = RowAfter(src, m)
  BY <1>1, <1>2, <1>3, RunOver
<1>6. 1 <= n
  BY <1>4, <1>5, LenProperties DEF Inv, InputOK
<1>7. QED
  BY <1>3, <1>4, <1>5, <1>6, GoesOn

\* A character behind the ones run over that is not the quote.
LEMMA CharTaken ==
  ASSUME NEW n \in Nat, 1 <= n, Passed(n), src[n + 1] # q, opts.allow \/ ~Barred(n + 1)
  PROVE  Passed(n + 1)
<1>1. PICK k \in Nat : k = n + 1
  OBVIOUS
<1>2. /\ \A i \in n + 1 .. k : src[i] # q
      /\ ~opts.allow => \A i \in n + 1 .. k : ~Barred(i)
  BY <1>1
<1>3. Passed(k)
  BY <1>1, <1>2, PassedOn
<1>4. QED
  BY <1>1, <1>3

LEMMA LineCharInv ==
  ASSUME Inv, LineChar
  PROVE  Inv'
<1>1. PICK m : m = sI - 1
  OBVIOUS
<1>2. PICK n : n = BodyStop - 1
  OBVIOUS
<1>3. /\ InBody /\ Scanning /\ answer = Pending
      /\ sI' = BodyStop + 1 /\ UNCHANGED <<given, answer>>
      /\ BodyStop <= Len(src) /\ src[BodyStop] \in LineChars
  BY DEF LineChar, InBody, Scanning, LineCharAt, HasChar
<1>4. /\ m \in 1 .. Len(src) /\ Opens /\ pnt = Home(rI) /\ rI = RowAfter(src, m) /\ rI \in Nat
      /\ q \notin LineChars /\ Len(src) \in Nat
  BY <1>1, <1>3, Here
<1>5. /\ n \in Nat /\ m <= n /\ n <= Len(src) /\ BodyStop = n + 1
      /\ Passed(n) /\ RowAfter(src, n) = RowAfter(src, m)
  BY <1>1, <1>2, <1>3, RunOver
<1>6. 1 <= n /\ n + 1 <= Len(src) /\ sI' = (n + 1) + 1 /\ src[n + 1] \in LineChars
  BY <1>3, <1>4, <1>5
<1>7. Passed(n + 1)
  BY <1>4, <1>5, <1>6, CharTaken DEF Barred
<1>8. rI' = RowAfter(src, n + 1) /\ pnt' = Home(RowAfter(src, n + 1))
  <2>1. CASE src[n + 1] \in RowChars
    <3>1. RowAfter(src, n + 1) = rI + 1
      BY <1>4, <1>5, <2>1, NextRow
    <3>2. rI' = rI + 1 /\ pnt' = [pnt EXCEPT !.rI = rI + 1]
      BY <1>5, <2>1 DEF LineChar
    <3>3. [Home(rI) EXCEPT !.rI = rI + 1] = Home(rI + 1)
      BY DEF Home
    <3>4. QED
      BY <1>4, <3>1, <3>2, <3>3
  <2>2. CASE src[n + 1] \notin RowChars
    <3>1. rI' = rI /\ pnt' = pnt
      BY <1>5, <2>2 DEF LineChar
    <3>2. PICK k \in Nat : k = n + 1
      BY <1>5
    <3>3. \A i \in n + 1 .. k : src[i] \notin RowChars
      BY <2>2, <3>2
    <3>4. RowAfter(src, k) = RowAfter(src, n)
      BY <1>5, <3>2, <3>3, SameRow
    <3>5. QED
      BY <1>4, <1>5, <3>1, <3>2, <3>4
  <2>3. QED
    BY <2>1, <2>2
<1>9. PICK k \in Nat : k = n + 1
  BY <1>5
<1>10. /\ 1 <= k /\ k <= Len(src) /\ sI' = k + 1 /\ Passed(k)
       /\ rI' = RowAfter(src, k) /\ pnt' = Home(RowAfter(src, k))
  BY <1>5, <1>6, <1>7, <1>8, <1>9
<1>11. QED
  BY <1>3, <1>4, <1>10, GoesOn

LEMMA ControlKeptInv ==
  ASSUME Inv, ControlKept
  PROVE  Inv'
<1>1. PICK m : m = sI - 1
  OBVIOUS
<1>2. PICK n : n = BodyStop - 1
  OBVIOUS
<1>3. /\ InBody /\ Scanning /\ answer = Pending /\ opts.allow
      /\ sI' = BodyStop + 1 /\ rI' = rI /\ pnt' = pnt /\ UNCHANGED <<given, answer>>
      /\ BodyStop <= Len(src) /\ src[BodyStop] # q /\ src[BodyStop] \notin LineChars
  BY DEF ControlKept, InBody, Scanning, LineCharAt, ControlAt, HasChar
<1>4. /\ m \in 1 .. Len(src) /\ Opens /\ pnt = Home(rI) /\ rI = RowAfter(src, m)
      /\ Len(src) \in Nat
  BY <1>1, <1>3, Here
<1>5. /\ n \in Nat /\ m <= n /\ BodyStop = n + 1
      /\ Passed(n) /\ RowAfter(src, n) = RowAfter(src, m)
  BY <1>1, <1>2, <1>3, RunOver
<1>6. PICK k \in Nat : k = n + 1
  BY <1>5
<1>7. /\ 1 <= n /\ 1 <= k /\ k <= Len(src) /\ sI' = k + 1
      /\ src[k] # q /\ src[k] \notin RowChars
  BY <1>3, <1>4, <1>5, <1>6, TextAssumption
<1>8. Passed(k)
  BY <1>3, <1>5, <1>6, <1>7, CharTaken
<1>9. RowAfter(src, k) = RowAfter(src, m)
  <2>1. \A i \in n + 1 .. k : src[i] \notin RowChars
    BY <1>6, <1>7
  <2>2. RowAfter(src, k) = RowAfter(src, n)
    BY <1>5, <1>6, <2>1, SameRow
  <2>3. QED
    BY <1>5, <2>2
<1>10. QED
  BY <1>3, <1>4, <1>7, <1>8, <1>9, GoesOn

LEMMA DeclineInv ==
  ASSUME Inv, Decline
  PROVE  Inv'
<1>1. /\ answer = Pending /\ ~Opens /\ answer' = Unread
      /\ UNCHANGED <<given, sI, rI, pnt, s>>
  BY DEF Decline
<1>2. sI = 1
  BY <1>1 DEF Inv, Scanning
<1>3. rI = 1 /\ pnt = Home(1)
  BY <1>1, <1>2 DEF Inv
<1>4. q' = q /\ Opens' = Opens /\ InputOK' = InputOK /\ src' = src
  BY <1>1, Kept DEF given
<1>5. answer'.kind = "none" /\ answer' # Pending
  BY <1>1 DEF Unread, Answer, Pending
<1>6. RowFollows' /\ Verdict'
  BY <1>1, <1>3, <1>4, <1>5 DEF RowFollows, Verdict, Home, qrI
<1>7. QED
  BY <1>1, <1>4, <1>5, <1>6 DEF Inv, Scanning

\* The loop has answered.
LEMMA Answers ==
  ASSUME Inv, Opens, UNCHANGED given, answer'.kind \in {"field", "unterminated", "unprintable"},
         sI' \in 1 .. Len(src) + 1, rI' \in Nat, RowFollows', Verdict'
  PROVE  Inv'
<1>1. InputOK' = InputOK /\ src' = src
  BY Kept DEF given
<1>2. answer' # Pending
  BY DEF Pending
<1>3. QED
  BY <1>1, <1>2 DEF Inv, Scanning

\* The first quote that closes the field ends it.
LEMMA EndsAt ==
  ASSUME NEW m \in Nat, 1 <= m, m + 1 <= Len(src), Len(src) \in Nat,
         Closes(src, q, m + 1), Passed(m)
  PROVE  /\ Closings(src, q) # {} /\ Min(Closings(src, q)) = m + 1
         /\ opts.allow \/ Unprintables(src, q) = {}
<1>1. m + 1 \in Closings(src, q)
  BY DEF Closings
<1>2. \A j \in Closings(src, q) : m + 1 <= j
  <2>1. SUFFICES ASSUME NEW j \in Closings(src, q) PROVE m + 1 <= j
    OBVIOUS
  <2>2. j \in 2 .. Len(src) /\ Closes(src, q, j)
    BY DEF Closings
  <2>3. ~(j \in 2 .. m)
    BY <2>2 DEF Passed
  <2>4. QED
    BY <2>2, <2>3
<1>3. Closings(src, q) \in SUBSET Nat
  BY DEF Closings
<1>4. Min(Closings(src, q)) = m + 1
  <2>1. PICK S \in SUBSET Nat : S = Closings(src, q)
    BY <1>3
  <2>2. PICK k \in S : k = m + 1
    BY <1>1, <2>1
  <2>3. \A j \in S : k <= j
    BY <1>2, <2>1, <2>2
  <2>4. QED
    BY <2>1, <2>2, <2>3, LeastOf
<1>5. BodyEnd(src, q) = m + 1
  BY <1>1, <1>4 DEF BodyEnd
<1>6. ~opts.allow => Unprintables(src, q) = {}
  <2>1. SUFFICES ASSUME ~opts.allow, NEW j \in Unprintables(src, q) PROVE FALSE
    OBVIOUS
  <2>2. j \in 2 .. m /\ Barred(j)
    BY <1>5 DEF Unprintables, Barred
  <2>3. QED
    BY <2>1, <2>2 DEF Passed
<1>7. QED
  BY <1>1, <1>4, <1>6

LEMMA ClosingQuoteInv ==
  ASSUME Inv, ClosingQuote
  PROVE  Inv'
<1>1. PICK m : m = sI - 1
  OBVIOUS
<1>2. /\ Scanning /\ src[sI] = q /\ sI <= Len(src) /\ (sI + 1 <= Len(src) => src[sI + 1] # q)
      /\ sI' = sI + 1 /\ rI' = rI /\ UNCHANGED given
      /\ pnt'.rI = rI /\ answer' = Answer("field", s, sI)
  BY DEF ClosingQuote, HasChar
<1>3. /\ m \in 1 .. Len(src) /\ sI = m + 1 /\ Len(src) \in Nat /\ Opens /\ q \notin RowChars
      /\ Passed(m) /\ rI = RowAfter(src, m) /\ rI \in Nat
  BY <1>1, <1>2, Here
<1>4. m \in Nat /\ 1 <= m /\ m + 1 <= Len(src) /\ src[m + 1] = q
  BY <1>2, <1>3
<1>5. QuotesUpTo(src, q, m + 1) = QuotesUpTo(src, q, m) + 1 /\ QuotesUpTo(src, q, m) \in Nat
  BY <1>4, NextQuote
<1>6. QuotesUpTo(src, q, m) % 2 = 0
  BY <1>3 DEF Passed
<1>7. QuotesUpTo(src, q, m + 1) % 2 = 1
  BY <1>5, <1>6
<1>8. Closes(src, q, m + 1)
  BY <1>2, <1>3, <1>4, <1>7 DEF Closes
<1>9. /\ Closings(src, q) # {} /\ Min(Closings(src, q)) = m + 1
      /\ opts.allow \/ Unprintables(src, q) = {}
  BY <1>3, <1>4, <1>8, EndsAt
<1>10. RowAfter(src, m + 1) = RowAfter(src, m)
  <2>1. PICK k \in Nat : k = m + 1
    BY <1>4
  <2>2. \A i \in m + 1 .. k : src[i] \notin RowChars
    BY <1>3, <1>4, <2>1
  <2>3. RowAfter(src, k) = RowAfter(src, m)
    BY <1>4, <2>1, <2>2, SameRow
  <2>4. QED
    BY <2>1, <2>3
<1>11. answer'.kind = "field" /\ answer'.end = m + 1
  BY <1>2, <1>3 DEF Answer
<1>12. src' = src /\ q' = q /\ Opens' = Opens /\ opts' = opts
  BY <1>2, Kept DEF given
<1>13. RowFollows'
  BY <1>2, <1>3, <1>10, <1>11, <1>12 DEF RowFollows
<1>14. Verdict'
  BY <1>3, <1>9, <1>11, <1>12 DEF Verdict
<1>15. sI' \in 1 .. Len(src) + 1 /\ rI' \in Nat
  BY <1>2, <1>3
<1>16. QED
  BY <1>2, <1>3, <1>11, <1>13, <1>14, <1>15, Answers

\* A barred character behind the ones that end nothing is the first the field holds.
LEMMA BarredFirst ==
  ASSUME NEW n \in Nat, 1 <= n, n + 1 <= Len(src), Len(src) \in Nat,
         Passed(n), ~opts.allow, Barred(n + 1)
  PROVE  Unprintables(src, q) # {} /\ Min(Unprintables(src, q)) = n + 1
<1>1. Closings(src, q) \in SUBSET Nat
  BY DEF Closings
<1>2. \A j \in Closings(src, q) : j > n + 1
  <2>1. SUFFICES ASSUME NEW j \in Closings(src, q) PROVE j > n + 1
    OBVIOUS
  <2>2. j \in 2 .. Len(src) /\ Closes(src, q, j) /\ src[j] = q
    BY DEF Closings, Closes
  <2>3. ~(j \in 2 .. n) /\ j # n + 1
    BY <2>2 DEF Passed, Barred
  <2>4. QED
    BY <2>2, <2>3
<1>3. BodyEnd(src, q) \in Nat /\ BodyEnd(src, q) > n + 1
  <2>1. CASE Closings(src, q) = {}
    BY <2>1 DEF BodyEnd
  <2>2. CASE Closings(src, q) # {}
    <3>1. PICK S \in SUBSET Nat : S = Closings(src, q)
      BY <1>1
    <3>2. PICK k \in S : \A y \in S : k <= y
      BY <2>2, <3>1, Least
    <3>3. Min(S) = k
      BY <3>2, LeastOf
    <3>4. QED
      BY <1>2, <2>2, <3>1, <3>2, <3>3 DEF BodyEnd
  <2>3. QED
    BY <2>1, <2>2
<1>4. n + 1 \in Unprintables(src, q)
  BY <1>3 DEF Unprintables, Barred
<1>5. \A j \in Unprintables(src, q) : j \in Nat /\ n + 1 <= j
  <2>1. SUFFICES ASSUME NEW j \in Unprintables(src, q) PROVE j \in Nat /\ n + 1 <= j
    OBVIOUS
  <2>2. j \in 2 .. BodyEnd(src, q) - 1 /\ Barred(j)
    BY DEF Unprintables, Barred
  <2>3. ~(j \in 2 .. n)
    BY <2>2 DEF Passed
  <2>4. QED
    BY <1>3, <2>2, <2>3
<1>6. PICK S \in SUBSET Nat : S = Unprintables(src, q)
  BY <1>5
<1>7. PICK k \in S : k = n + 1
  BY <1>4, <1>6
<1>8. \A j \in S : k <= j
  BY <1>5, <1>6, <1>7
<1>9. QED
  BY <1>6, <1>7, <1>8, LeastOf

LEMMA ControlRefusedInv ==
  ASSUME Inv, ControlRefused
  PROVE  Inv'
<1>1. PICK m : m = sI - 1
  OBVIOUS
<1>2. PICK n : n = BodyStop - 1
  OBVIOUS
<1>3. /\ InBody /\ Scanning /\ ~opts.allow
      /\ sI' = BodyStop /\ rI' = rI /\ UNCHANGED given
      /\ answer' = Answer("unprintable", <<>>, BodyStop - 1)
      /\ pnt' = [pnt EXCEPT !.sI = sI', !.cI = cI']
      /\ BodyStop <= Len(src) /\ Barred(BodyStop)
  BY DEF ControlRefused, InBody, LineCharAt, ControlAt, HasChar, Barred
<1>4. /\ m \in 1 .. Len(src) /\ Opens /\ pnt = Home(rI) /\ rI = RowAfter(src, m)
      /\ rI \in Nat /\ Len(src) \in Nat
  BY <1>1, <1>3, Here
<1>5. /\ n \in Nat /\ m <= n /\ BodyStop = n + 1
      /\ Passed(n) /\ RowAfter(src, n) = RowAfter(src, m)
  BY <1>1, <1>2, <1>3, RunOver
<1>6. 1 <= n /\ n + 1 <= Len(src) /\ Barred(n + 1) /\ sI' = n + 1
  BY <1>3, <1>4, <1>5
<1>7. Unprintables(src, q) # {} /\ Min(Unprintables(src, q)) = n + 1
  BY <1>3, <1>4, <1>5, <1>6, BarredFirst
<1>8. answer'.kind = "unprintable" /\ answer'.end = n
  BY <1>3, <1>5 DEF Answer
<1>9. src' = src /\ q' = q /\ Opens' = Opens /\ opts' = opts
  BY <1>3, Kept DEF given
<1>10. pnt'.rI = rI
  BY <1>3, <1>4 DEF Home
<1>11. RowFollows'
  <2>1. sI' - 1 = n
    BY <1>5, <1>6
  <2>2. QED
    BY <1>4, <1>5, <1>8, <1>9, <1>10, <2>1 DEF RowFollows
<1>12. Verdict'
  <2>1. answer'.end = Min(Unprintables(src, q)) - 1
    BY <1>5, <1>7, <1>8
  <2>2. QED
    BY <1>3, <1>4, <1>7, <1>8, <1>9, <2>1 DEF Verdict
<1>13. sI' \in 1 .. Len(src) + 1 /\ rI' \in Nat
  BY <1>3, <1>4, <1>6, <1>5
<1>14. QED
  BY <1>3, <1>4, <1>8, <1>11, <1>12, <1>13, Answers

LEMMA ExhaustedInv ==
  ASSUME Inv, Exhausted
  PROVE  Inv'
<1>1. PICK m : m = sI - 1
  OBVIOUS
<1>2. /\ Scanning /\ ~(sI <= Len(src)) /\ sI' = sI /\ rI' = rI /\ UNCHANGED given
      /\ pnt' = [pnt EXCEPT !.rI = qrI]
      /\ answer' = Answer("unterminated", <<>>, Len(src))
  BY DEF Exhausted, HasChar
<1>3. /\ m \in 1 .. Len(src) /\ sI = m + 1 /\ Len(src) \in Nat /\ Opens
      /\ Passed(m) /\ pnt = Home(rI) /\ rI \in Nat
  BY <1>1, <1>2, Here
<1>4. m = Len(src)
  BY <1>2, <1>3
<1>5. Closings(src, q) = {}
  BY <1>3, <1>4 DEF Passed, Closings
<1>6. opts.allow \/ Unprintables(src, q) = {}
  <2>1. BodyEnd(src, q) = m + 1
    BY <1>4, <1>5 DEF BodyEnd
  <2>2. SUFFICES ASSUME ~opts.allow, NEW j \in Unprintables(src, q) PROVE FALSE
    OBVIOUS
  <2>3. j \in 2 .. m /\ Barred(j)
    BY <1>3, <2>1 DEF Unprintables, Barred
  <2>4. QED
    BY <1>3, <2>2, <2>3 DEF Passed
<1>7. answer'.kind = "unterminated" /\ answer'.end = Len(src)
  BY <1>2 DEF Answer
<1>8. src' = src /\ q' = q /\ Opens' = Opens /\ opts' = opts
  BY <1>2, Kept DEF given
<1>9. RowFollows'
  <2>1. pnt' = [sI |-> 1, rI |-> qrI, cI |-> 1] /\ qrI' = qrI
    BY <1>2, <1>3 DEF Home, qrI
  <2>2. QED
    BY <1>7, <2>1 DEF RowFollows
<1>10. Verdict'
  BY <1>3, <1>5, <1>6, <1>7, <1>8 DEF Verdict
<1>11. sI' \in 1 .. Len(src) + 1 /\ rI' \in Nat
  BY <1>2, <1>3
<1>12. QED
  BY <1>2, <1>3, <1>7, <1>9, <1>10, <1>11, Answers

-----------------------------------------------------------------------------
(* The invariant holds throughout.                                         *)

LEMMA StepInv ==
  ASSUME Inv, [Next]_vars
  PROVE  Inv'
<1>1. CASE Decline
  BY <1>1, DeclineInv
<1>2. CASE Open
  BY <1>2, OpenInv
<1>3. CASE EscapedQuote
  BY <1>3, EscapedQuoteInv
<1>4. CASE ClosingQuote
  BY <1>4, ClosingQuoteInv
<1>5. CASE LineChar
  BY <1>5, LineCharInv
<1>6. CASE ControlKept
  BY <1>6, ControlKeptInv
<1>7. CASE ControlRefused
  BY <1>7, ControlRefusedInv
<1>8. CASE Body
  BY <1>8, BodyInv
<1>9. CASE Exhausted
  BY <1>9, ExhaustedInv
<1>10. CASE UNCHANGED vars
  <2>1. UNCHANGED <<src, before, opts, sI, rI, cI, pnt, s, answer>>
    BY <1>10 DEF vars
  <2>2. q' = q /\ Opens' = Opens /\ (\A n : Passed(n)' = Passed(n)) /\ InputOK' = InputOK
    BY <2>1, Kept DEF given
  <2>3. RowFollows' = RowFollows /\ Verdict' = Verdict /\ Scanning' = Scanning
    BY <2>1, <2>2 DEF RowFollows, Verdict, Scanning, qrI
  <2>4. PICK n : n = sI - 1
    OBVIOUS
  <2>5. Passed(sI - 1)' = Passed(sI - 1)
    BY <2>1 DEF Passed, Barred, q
  <2>6. QED
    BY <2>1, <2>2, <2>3, <2>5 DEF Inv, Home
<1>11. QED
  BY <1>1, <1>2, <1>3, <1>4, <1>5, <1>6, <1>7, <1>8, <1>9, <1>10 DEF Next, Turn, Answered

LEMMA Invariance == Spec => []Inv
<1>1. Init => Inv
  BY InitInv
<1>2. Inv /\ [Next]_vars => Inv'
  BY StepInv
<1>3. QED
  BY <1>1, <1>2, PTL DEF Spec

\* However long the source is and wherever its line ends fall, the lexer's row
\* counts those the cursor has passed, and an unterminated field leaves it on the
\* row of its quote (buildCsvStringMatcher, csv.ts:595-713).
THEOREM RowsFollow == Spec => []RowFollows
<1>1. Inv => RowFollows
  BY DEF Inv
<1>2. QED
  BY <1>1, Invariance, PTL

\* The answer ends at the first quote that closes the field, or is the error the
\* source calls for: the scan, which looks at one character and the next, finds
\* what QuotedText defines by counting quotes (csv.ts:626-706).
THEOREM EndsRightly == Spec => []Verdict
<1>1. Inv => Verdict
  BY DEF Inv
<1>2. QED
  BY <1>1, Invariance, PTL

-----------------------------------------------------------------------------
(* The characters a field keeps.                                           *)

LEMMA KeptType ==
  ASSUME NEW f, NEW c, NEW n \in Nat
  PROVE  IsFiniteSet({i \in 2 .. n : Keeps(f, c, i)}) /\ KeptUpTo(f, c, n) \in Nat
<1>1. IsFiniteSet(2 .. n)
  BY FS_Interval
<1>2. {i \in 2 .. n : Keeps(f, c, i)} \in SUBSET (2 .. n)
  OBVIOUS
<1>3. IsFiniteSet({i \in 2 .. n : Keeps(f, c, i)})
  BY <1>1, <1>2, FS_Subset
<1>4. QED
  BY <1>3, FS_CardinalityType DEF KeptUpTo

LEMMA KeptNone ==
  ASSUME NEW f, NEW c
  PROVE  KeptUpTo(f, c, 1) = 0
<1>1. {i \in 2 .. 1 : Keeps(f, c, i)} = {}
  OBVIOUS
<1>2. QED
  BY <1>1, FS_EmptySet DEF KeptUpTo

LEMMA KeptSkip ==
  ASSUME NEW f, NEW c, NEW m \in Nat, ~Keeps(f, c, m + 1)
  PROVE  KeptUpTo(f, c, m + 1) = KeptUpTo(f, c, m)
<1>1. {i \in 2 .. m + 1 : Keeps(f, c, i)} = {i \in 2 .. m : Keeps(f, c, i)}
  OBVIOUS
<1>2. QED
  BY <1>1 DEF KeptUpTo

LEMMA KeptNext ==
  ASSUME NEW f, NEW c, NEW m \in Nat, 1 <= m, Keeps(f, c, m + 1)
  PROVE  KeptUpTo(f, c, m + 1) = KeptUpTo(f, c, m) + 1
<1>1. {i \in 2 .. m + 1 : Keeps(f, c, i)} = {i \in 2 .. m : Keeps(f, c, i)} \cup {m + 1}
  OBVIOUS
<1>2. m + 1 \notin {i \in 2 .. m : Keeps(f, c, i)}
  OBVIOUS
<1>3. PICK T : T = {i \in 2 .. m : Keeps(f, c, i)}
  OBVIOUS
<1>4. IsFiniteSet(T) /\ m + 1 \notin T
  <2>1. IsFiniteSet({i \in 2 .. m : Keeps(f, c, i)})
    BY KeptType
  <2>2. QED
    BY <1>2, <1>3, <2>1
<1>5. Cardinality(T \cup {m + 1}) = Cardinality(T) + 1
  BY <1>4, FS_AddElement
<1>6. QED
  BY <1>1, <1>3, <1>5 DEF KeptUpTo

LEMMA KeptGrows ==
  ASSUME NEW f, NEW c, NEW m \in Nat, NEW n \in Nat, m <= n
  PROVE  KeptUpTo(f, c, m) <= KeptUpTo(f, c, n)
<1>1. PICK S : S = {i \in 2 .. m : Keeps(f, c, i)}
  OBVIOUS
<1>2. PICK T : T = {i \in 2 .. n : Keeps(f, c, i)}
  OBVIOUS
<1>3. S \in SUBSET T
  BY <1>1, <1>2
<1>4. IsFiniteSet(T)
  <2>1. IsFiniteSet({i \in 2 .. n : Keeps(f, c, i)})
    BY KeptType
  <2>2. QED
    BY <1>2, <2>1
<1>5. Cardinality(S) <= Cardinality(T)
  BY <1>3, <1>4, FS_Subset
<1>6. QED
  BY <1>1, <1>2, <1>5 DEF KeptUpTo

\* The place of a character kept is told by how many are kept before it.
LEMMA KeptPlace ==
  ASSUME NEW f, NEW c, NEW m \in Nat, 1 <= m, Len(f) \in Nat, m + 1 <= Len(f), Keeps(f, c, m + 1)
  PROVE  KeptAt(f, c, KeptUpTo(f, c, m) + 1) = m + 1
<1>1. PICK k : k = KeptUpTo(f, c, m) + 1
  OBVIOUS
<1>2. KeptUpTo(f, c, m) \in Nat
  BY KeptType
<1>3. KeptUpTo(f, c, m + 1) = k
  BY <1>1, KeptNext
<1>4. ASSUME NEW i \in 2 .. Len(f), Keeps(f, c, i), KeptUpTo(f, c, i) = k
      PROVE  i = m + 1
  <2>1. CASE i <= m
    <3>1. KeptUpTo(f, c, i) <= KeptUpTo(f, c, m)
      BY <2>1, KeptGrows
    <3>2. QED
      BY <1>1, <1>2, <1>4, <3>1
  <2>2. CASE i > m + 1
    <3>1. PICK h \in Nat : h + 1 = i /\ 1 <= h /\ m + 1 <= h
      <4>1. i - 1 \in Nat /\ (i - 1) + 1 = i /\ 1 <= i - 1 /\ m + 1 <= i - 1
        BY <2>2
      <4>2. QED
        BY <4>1
    <3>2. KeptUpTo(f, c, m + 1) <= KeptUpTo(f, c, h)
      <4>1. m + 1 \in Nat
        OBVIOUS
      <4>2. QED
        BY <3>1, <4>1, KeptGrows
    <3>3. Keeps(f, c, h + 1)
      BY <1>4, <3>1
    <3>4. KeptUpTo(f, c, h + 1) = KeptUpTo(f, c, h) + 1
      BY <3>1, <3>3, KeptNext
    <3>5. KeptUpTo(f, c, h) \in Nat
      BY KeptType
    <3>6. KeptUpTo(f, c, h + 1) = k
      BY <1>4, <3>1
    <3>7. QED
      BY <1>1, <1>2, <1>3, <3>2, <3>4, <3>5, <3>6
  <2>3. QED
    BY <1>4, <2>1, <2>2
<1>5. m + 1 \in 2 .. Len(f)
  OBVIOUS
<1>6. KeptAt(f, c, k) = m + 1
  BY <1>3, <1>4, <1>5 DEF KeptAt
<1>7. QED
  BY <1>1, <1>6

-----------------------------------------------------------------------------
(* The text a field says.                                                  *)

LEMMA SaidNothing ==
  ASSUME NEW f, NEW c
  PROVE  SaidUpTo(f, c, 1) = <<>>
BY KeptNone DEF SaidUpTo

LEMMA SaidSkip ==
  ASSUME NEW f, NEW c, NEW m \in Nat, ~Keeps(f, c, m + 1)
  PROVE  SaidUpTo(f, c, m + 1) = SaidUpTo(f, c, m)
BY KeptSkip DEF SaidUpTo

LEMMA AppendIs ==
  ASSUME NEW K \in Nat, NEW g, NEW e, NEW S, [k \in 1 .. K |-> g[k]] \in Seq(S), g[K + 1] = e, e \in S
  PROVE  [k \in 1 .. K + 1 |-> g[k]] = Append([k \in 1 .. K |-> g[k]], e)
OBVIOUS

LEMMA SaidNext ==
  ASSUME NEW f, NEW c, NEW S, NEW m \in Nat, 1 <= m, Len(f) \in Nat, m + 1 <= Len(f),
         Keeps(f, c, m + 1), SaidUpTo(f, c, m) \in Seq(S), f[m + 1] \in S
  PROVE  SaidUpTo(f, c, m + 1) = Append(SaidUpTo(f, c, m), f[m + 1])
<1>1. PICK K \in Nat : K = KeptUpTo(f, c, m)
  BY KeptType
<1>2. KeptUpTo(f, c, m + 1) = K + 1
  BY <1>1, KeptNext
<1>3. KeptAt(f, c, K + 1) = m + 1
  BY <1>1, KeptPlace
<1>4. PICK g : g = [k \in 1 .. K + 1 |-> f[KeptAt(f, c, k)]]
  OBVIOUS
<1>5. SaidUpTo(f, c, m) = [k \in 1 .. K |-> g[k]]
  BY <1>1, <1>4 DEF SaidUpTo
<1>6. SaidUpTo(f, c, m + 1) = [k \in 1 .. K + 1 |-> g[k]]
  BY <1>2, <1>4 DEF SaidUpTo
<1>7. g[K + 1] = f[m + 1]
  BY <1>3, <1>4
<1>8. QED
  BY <1>5, <1>6, <1>7, AppendIs

LEMMA Regroup ==
  ASSUME NEW x \in Seq(Nat), NEW y \in Seq(Nat), NEW z \in Seq(Nat)
  PROVE  (x \o y) \o z = x \o (y \o z)
BY ConcatAssociative, SMTT(30)

LEMMA OneMore ==
  ASSUME NEW f \in Seq(Nat), NEW t \in Seq(Nat), NEW m \in Nat, NEW n \in Nat, 1 <= m, m <= n,
         n + 1 <= Len(f)
  PROVE  Append(t \o SubSeq(f, m + 1, n), f[n + 1]) = t \o SubSeq(f, m + 1, n + 1)
<1>1. Len(f) \in Nat /\ DOMAIN f = 1 .. Len(f) /\ \A i \in 1 .. Len(f) : f[i] \in Nat
  BY LenProperties, ElementOfSeq
<1>2. PICK a \in Nat : a = m + 1
  OBVIOUS
<1>3. PICK b \in Nat : b = n + 1
  OBVIOUS
<1>4. a \in 1 .. Len(f) /\ b \in a .. Len(f) /\ b - 1 = n
  BY <1>1, <1>2, <1>3
<1>5. SubSeq(f, a, b) = SubSeq(f, a, n) \o <<f[b]>>
  BY <1>4, SubSeqRecursiveSecond
<1>6. PICK u : u = SubSeq(f, a, n)
  OBVIOUS
<1>7. u \in Seq(Nat)
  <2>1. \A i \in a .. n : f[i] \in Nat
    BY <1>1, <1>4
  <2>2. a \in Int /\ n \in Int
    OBVIOUS
  <2>3. QED
    BY <1>6, <2>1, <2>2, SubSeqProperties
<1>8. PICK e \in Nat : e = f[b]
  BY <1>1, <1>4
<1>9. <<e>> \in Seq(Nat)
  OBVIOUS
<1>10. t \o u \in Seq(Nat)
  BY <1>7, ConcatProperties
<1>11. Append(t \o u, e) = (t \o u) \o <<e>>
  BY <1>10, AppendIsConcat
<1>12. (t \o u) \o <<e>> = t \o (u \o <<e>>)
  <2>1. PICK w \in Seq(Nat) : w = <<e>>
    BY <1>9
  <2>2. (t \o u) \o w = t \o (u \o w)
    BY <1>7, Regroup
  <2>3. QED
    BY <2>1, <2>2
<1>13. QED
  BY <1>2, <1>3, <1>5, <1>6, <1>8, <1>11, <1>12

\* A stretch of characters kept is said as it stands.
LEMMA SaidStretch ==
  ASSUME NEW f \in Seq(Nat), NEW c, NEW m \in Nat, NEW n \in Nat, 1 <= m, m <= n, n <= Len(f),
         SaidUpTo(f, c, m) \in Seq(Nat), \A i \in m + 1 .. n : Keeps(f, c, i)
  PROVE  /\ SaidUpTo(f, c, n) = SaidUpTo(f, c, m) \o SubSeq(f, m + 1, n)
         /\ SaidUpTo(f, c, n) \in Seq(Nat)
<1>1. Len(f) \in Nat /\ DOMAIN f = 1 .. Len(f) /\ \A i \in 1 .. Len(f) : f[i] \in Nat
  BY LenProperties, ElementOfSeq
<1>2. PICK t \in Seq(Nat) : t = SaidUpTo(f, c, m)
  OBVIOUS
<1> DEFINE Good(k) == SaidUpTo(f, c, k) = t \o SubSeq(f, m + 1, k)
<1>3. Good(m)
  <2>1. m + 1 \in Int /\ m \in Int /\ m < m + 1
    OBVIOUS
  <2>2. SubSeq(f, m + 1, m) = <<>>
    BY <2>1, SubSeqEmpty
  <2>3. t \o <<>> = t
    BY ConcatEmptySeq
  <2>4. QED
    BY <1>2, <2>2, <2>3
<1>4. ASSUME NEW k \in Nat, m <= k, k <= n
      PROVE  t \o SubSeq(f, m + 1, k) \in Seq(Nat)
  <2>1. PICK a \in Int : a = m + 1
    OBVIOUS
  <2>2. \A i \in a .. k : f[i] \in Nat
    BY <1>1, <1>4, <2>1
  <2>3. k \in Int
    OBVIOUS
  <2>4. SubSeq(f, a, k) \in Seq(Nat)
    BY <2>2, <2>3, SubSeqProperties
  <2>5. QED
    BY <2>1, <2>4, ConcatProperties
<1>5. ASSUME NEW k \in Nat, m <= k, k + 1 <= n, Good(k)
      PROVE  Good(k + 1)
  <2>1. PICK u \in Seq(Nat) : u = SaidUpTo(f, c, k)
    <3>1. k <= n
      BY <1>5
    <3>2. t \o SubSeq(f, m + 1, k) \in Seq(Nat)
      BY <1>4, <1>5, <3>1
    <3>3. QED
      BY <1>5, <3>2
  <2>2. Keeps(f, c, k + 1) /\ f[k + 1] \in Nat /\ 1 <= k /\ k + 1 <= Len(f)
    BY <1>1, <1>5
  <2>3. SaidUpTo(f, c, k) \in Seq(Nat)
    BY <2>1
  <2>4. SaidUpTo(f, c, k + 1) = Append(SaidUpTo(f, c, k), f[k + 1])
    BY <1>1, <2>2, <2>3, SaidNext
  <2>5. Append(t \o SubSeq(f, m + 1, k), f[k + 1]) = t \o SubSeq(f, m + 1, k + 1)
    <3>1. k + 1 <= Len(f) /\ m <= k
      BY <1>5, <2>2
    <3>2. QED
      BY <3>1, OneMore, ZenonT(30)
  <2>6. QED
    BY <1>5, <2>4, <2>5
<1> HIDE DEF Good
<1>6. \A k \in m .. n : Good(k)
  <2>1. PICK T \in SUBSET Nat : \A k : k \in T <=> k \in m .. n /\ ~Good(k)
    <3>1. m .. n \in SUBSET Nat
      OBVIOUS
    <3>2. {k \in m .. n : ~Good(k)} \in SUBSET Nat
      BY <3>1, Zenon
    <3>3. QED
      BY <3>2, Zenon
  <2>2. SUFFICES ASSUME T # {} PROVE FALSE
    BY <2>1
  <2>3. PICK k \in T : \A y \in T : k <= y
    BY <2>2, Least
  <2>4. k \in m .. n /\ ~Good(k)
    BY <2>1
  <2>5. k # m
    BY <1>3, <2>4
  <2>6. PICK j \in Nat : j + 1 = k
    BY <2>4, <2>5
  <2>7. j \in m .. n
    BY <2>4, <2>5, <2>6
  <2>8. j \notin T
    BY <2>3, <2>6
  <2>9. Good(j)
    BY <2>1, <2>7, <2>8
  <2>10. m <= j /\ j + 1 <= n
    BY <2>4, <2>6, <2>7
  <2>11. QED
    BY <1>5, <2>4, <2>6, <2>9, <2>10
<1>7. Good(n)
  BY <1>6
<1>8. SaidUpTo(f, c, n) = t \o SubSeq(f, m + 1, n)
  BY <1>7 DEF Good
<1>9. QED
  BY <1>2, <1>4, <1>8

-----------------------------------------------------------------------------
(* The text read so far.                                                   *)

Text ==
  /\ answer = Pending /\ sI = 1 => s = <<>>
  /\ Scanning => s \in Seq(Nat) /\ s = SaidUpTo(src, q, sI - 1)

\* The loop goes on with the text of the first n characters.
LEMMA SaysOn ==
  ASSUME UNCHANGED given, NEW n \in Nat, 1 <= n, sI' = n + 1,
         s' \in Seq(Nat), s' = SaidUpTo(src, q, n)
  PROVE  Text'
<1>1. src' = src /\ q' = q
  BY Kept DEF given
<1>2. sI' - 1 = n /\ sI' # 1
  OBVIOUS
<1>3. s' = SaidUpTo(src', q', sI' - 1)
  BY <1>1, <1>2
<1>4. QED
  BY <1>2, <1>3 DEF Text

\* What is known of the text while the loop runs.
LEMMA SaidHere ==
  ASSUME Inv, Text, Scanning, NEW m, m = sI - 1
  PROVE  /\ m \in Nat /\ 1 <= m /\ m <= Len(src) /\ sI = m + 1 /\ Len(src) \in Nat
         /\ src \in Seq(Nat) /\ s \in Seq(Nat) /\ s = SaidUpTo(src, q, m)
<1>1. m \in 1 .. Len(src) /\ sI = m + 1 /\ Len(src) \in Nat /\ InputOK
  BY Here
<1>2. QED
  BY <1>1 DEF Text, InputOK

LEMMA OpenText ==
  ASSUME Inv, Text, Open
  PROVE  Text'
<1>1. UNCHANGED given /\ sI' = 1 + 1 /\ s' = <<>>
  BY DEF Text, Open
<1>2. s' \in Seq(Nat) /\ s' = SaidUpTo(src, q, 1)
  BY <1>1, SaidNothing
<1>3. QED
  BY <1>1, <1>2, SaysOn

\* The first of a pair of quotes is left out, the second is kept.
LEMMA EscapedQuoteText ==
  ASSUME Inv, Text, EscapedQuote
  PROVE  Text'
<1>1. PICK m : m = sI - 1
  OBVIOUS
<1>2. /\ Scanning /\ src[sI] = q /\ src[sI + 1] = q /\ sI + 1 <= Len(src)
      /\ sI' = sI + 2 /\ s' = Append(s, q) /\ UNCHANGED given
  BY DEF EscapedQuote, Scanning, HasChar
<1>3. /\ m \in Nat /\ 1 <= m /\ sI = m + 1 /\ Len(src) \in Nat
      /\ src \in Seq(Nat) /\ s \in Seq(Nat) /\ s = SaidUpTo(src, q, m)
  BY <1>1, <1>2, SaidHere
<1>4. PICK k \in Nat : k = m + 1
  BY <1>3
<1>5. PICK n \in Nat : n = k + 1
  BY <1>4
<1>6. src[k] = q /\ src[n] = q /\ n <= Len(src) /\ sI' = n + 1 /\ 1 <= k /\ 1 <= n
  BY <1>2, <1>3, <1>4, <1>5
<1>7. QuotesUpTo(src, q, m) % 2 = 0
  BY <1>1, <1>2, Here DEF Passed
<1>8. QuotesUpTo(src, q, k) = QuotesUpTo(src, q, m) + 1 /\ QuotesUpTo(src, q, m) \in Nat
  BY <1>3, <1>4, <1>6, NextQuote
<1>9. QuotesUpTo(src, q, n) = QuotesUpTo(src, q, k) + 1
  BY <1>5, <1>6, NextQuote
<1>10. QuotesUpTo(src, q, k) % 2 # 0 /\ QuotesUpTo(src, q, n) % 2 = 0
  BY <1>7, <1>8, <1>9
<1>11. ~Keeps(src, q, k) /\ Keeps(src, q, n)
  BY <1>6, <1>10 DEF Keeps
<1>12. SaidUpTo(src, q, k) = s
  BY <1>3, <1>4, <1>11, SaidSkip
<1>13. q \in Nat
  BY <1>3, <1>6, ElementOfSeq
<1>14. SaidUpTo(src, q, k) \in Seq(Nat) /\ src[n] \in Nat
  BY <1>3, <1>6, <1>12, <1>13
<1>15. SaidUpTo(src, q, n) = Append(SaidUpTo(src, q, k), src[n])
  BY <1>3, <1>5, <1>6, <1>11, <1>14, SaidNext
<1>16. s' = SaidUpTo(src, q, n)
  BY <1>2, <1>6, <1>12, <1>15
<1>17. s' \in Seq(Nat)
  BY <1>2, <1>3, <1>13, AppendProperties
<1>18. QED
  BY <1>2, <1>6, <1>16, <1>17, SaysOn

\* Text without a quote in it is taken as it stands.
LEMMA StretchText ==
  ASSUME Inv, Text, Scanning, UNCHANGED given, NEW n \in Nat, sI <= n + 1, n <= Len(src), sI' = n + 1,
         \A i \in sI .. n : src[i] # q, s' = s \o SubSeq(src, sI, n)
  PROVE  Text'
<1>1. PICK m : m = sI - 1
  OBVIOUS
<1>2. /\ m \in Nat /\ 1 <= m /\ sI = m + 1
      /\ src \in Seq(Nat) /\ s \in Seq(Nat) /\ s = SaidUpTo(src, q, m)
  BY <1>1, SaidHere
<1>3. \A i \in m + 1 .. n : Keeps(src, q, i)
  BY <1>2 DEF Keeps
<1>4. m <= n /\ 1 <= n
  BY <1>2
<1>5. SaidUpTo(src, q, m) \in Seq(Nat)
  BY <1>2
<1>6. /\ SaidUpTo(src, q, n) = SaidUpTo(src, q, m) \o SubSeq(src, m + 1, n)
      /\ SaidUpTo(src, q, n) \in Seq(Nat)
  BY <1>2, <1>3, <1>4, <1>5, SaidStretch
<1>7. s' = SaidUpTo(src, q, n) /\ s' \in Seq(Nat)
  BY <1>2, <1>6
<1>8. QED
  BY <1>4, <1>7, SaysOn

\* Up to the control character that stops the inner loop there is no quote.
LEMMA StopText ==
  ASSUME Inv, Text, InBody, BodyStop <= Len(src), src[BodyStop] # q, UNCHANGED given,
         sI' = BodyStop + 1, s' = s \o SubSeq(src, sI, BodyStop)
  PROVE  Text'
<1>1. PICK n : n = BodyStop
  OBVIOUS
<1>2. Scanning /\ BodyStop \in sI .. Len(src) + 1 /\ \A i \in sI .. BodyStop - 1 : src[i] # q
  BY StopsAt DEF InBody
<1>3. sI \in Nat /\ Len(src) \in Nat
  <2>1. PICK m : m = sI - 1
    OBVIOUS
  <2>2. QED
    BY <1>2, <2>1, SaidHere
<1>4. n \in Nat /\ sI <= n + 1 /\ n <= Len(src) /\ sI' = n + 1
  BY <1>1, <1>2, <1>3
<1>5. \A i \in sI .. n : src[i] # q
  BY <1>1, <1>2, <1>3, <1>4
<1>6. s' = s \o SubSeq(src, sI, n)
  BY <1>1
<1>7. QED
  BY <1>2, <1>4, <1>5, <1>6, StretchText

LEMMA BodyText ==
  ASSUME Inv, Text, Body
  PROVE  Text'
<1>1. PICK n : n = BodyStop - 1
  OBVIOUS
<1>2. InBody /\ UNCHANGED given /\ sI' = BodyStop /\ s' = s \o SubSeq(src, sI, BodyStop - 1)
  BY DEF Body
<1>3. Scanning /\ BodyStop \in sI .. Len(src) + 1 /\ \A i \in sI .. BodyStop - 1 : src[i] # q
  BY <1>2, StopsAt DEF InBody
<1>4. sI \in Nat /\ sI > 1 /\ Len(src) \in Nat
  <2>1. PICK m : m = sI - 1
    OBVIOUS
  <2>2. QED
    BY <1>3, <2>1, SaidHere
<1>5. n \in Nat /\ sI <= n + 1 /\ n <= Len(src) /\ sI' = n + 1
  BY <1>1, <1>2, <1>3, <1>4
<1>6. (\A i \in sI .. n : src[i] # q) /\ s' = s \o SubSeq(src, sI, n)
  BY <1>1, <1>2, <1>3
<1>7. QED
  BY <1>2, <1>3, <1>5, <1>6, StretchText

LEMMA AnswersText ==
  ASSUME answer' # Pending
  PROVE  Text'
BY DEF Text, Scanning

LEMMA StepText ==
  ASSUME Inv, Text, [Next]_vars
  PROVE  Text'
<1>1. CASE Decline \/ ClosingQuote \/ ControlRefused \/ Exhausted
  <2>1. answer'.kind \in {"none", "field", "unprintable", "unterminated"}
    BY <1>1 DEF Decline, ClosingQuote, ControlRefused, Exhausted, Unread, Answer
  <2>2. answer' # Pending
    BY <2>1 DEF Pending
  <2>3. QED
    BY <2>2, AnswersText
<1>2. CASE Open
  BY <1>2, OpenText
<1>3. CASE EscapedQuote
  BY <1>3, EscapedQuoteText
<1>4. CASE LineChar
  <2>1. /\ InBody /\ BodyStop <= Len(src) /\ src[BodyStop] \in LineChars /\ UNCHANGED given
        /\ sI' = BodyStop + 1 /\ s' = s \o SubSeq(src, sI, BodyStop)
    BY <1>4 DEF LineChar, LineCharAt, HasChar
  <2>2. q \notin LineChars
    <3>1. PICK m : m = sI - 1
      OBVIOUS
    <3>2. QED
      BY <2>1, <3>1, Here DEF InBody
  <2>3. src[BodyStop] # q
    BY <2>1, <2>2
  <2>4. QED
    BY <2>1, <2>3, StopText
<1>5. CASE ControlKept
  <2>1. /\ InBody /\ BodyStop <= Len(src) /\ src[BodyStop] # q /\ UNCHANGED given
        /\ sI' = BodyStop + 1 /\ s' = s \o SubSeq(src, sI, BodyStop)
    BY <1>5 DEF ControlKept, ControlAt, HasChar
  <2>2. QED
    BY <2>1, StopText
<1>6. CASE Body
  BY <1>6, BodyText
<1>7. CASE UNCHANGED vars
  <2>1. UNCHANGED <<given, src, opts, sI, s, answer>> /\ q' = q
    BY <1>7 DEF vars, given, q
  <2>2. QED
    BY <2>1 DEF Text, Scanning
<1>8. QED
  BY <1>1, <1>2, <1>3, <1>4, <1>5, <1>6, <1>7 DEF Next, Turn, Answered

-----------------------------------------------------------------------------
(* Every turn is a step of QuotedField, or none.                           *)

LEMMA SameCount ==
  \A S : Field!Cardinality(S) = Cardinality(S)
BY Zenon DEF Field!Cardinality, Cardinality

LEMMA SameWords ==
  ASSUME NEW f, NEW c
  PROVE  /\ Field!Closings(f, c) = Closings(f, c)
         /\ Field!Unprintables(f, c) = Unprintables(f, c)
         /\ Field!Said(f, c) = Said(f, c)
         /\ \A S : Field!Min(S) = Min(S)
<1>1. \A n : Field!QuotesUpTo(f, c, n) = QuotesUpTo(f, c, n)
  BY SameCount DEF Field!QuotesUpTo, QuotesUpTo
<1>2. \A S : Field!Min(S) = Min(S)
  BY DEF Field!Min, Min
<1>3. Field!Closings(f, c) = Closings(f, c)
  BY <1>1 DEF Field!Closings, Closings, Field!Closes, Closes
<1>4. Field!BodyEnd(f, c) = BodyEnd(f, c)
  BY <1>2, <1>3 DEF Field!BodyEnd, BodyEnd
<1>5. Field!Unprintables(f, c) = Unprintables(f, c)
  BY <1>4 DEF Field!Unprintables, Unprintables, Field!IsControl, IsControl
<1>6. \A i : Field!Keeps(f, c, i) = Keeps(f, c, i)
  BY <1>1 DEF Field!Keeps, Keeps
<1>7. \A n : Field!KeptUpTo(f, c, n) = KeptUpTo(f, c, n)
  BY <1>6, SameCount DEF Field!KeptUpTo, KeptUpTo
<1>8. \A k : Field!KeptAt(f, c, k) = KeptAt(f, c, k)
  BY <1>6, <1>7 DEF Field!KeptAt, KeptAt
<1>9. \A n : Field!SaidUpTo(f, c, n) = SaidUpTo(f, c, n)
  BY <1>7, <1>8 DEF Field!SaidUpTo, SaidUpTo
<1>10. Field!Said(f, c) = Said(f, c)
  BY <1>4, <1>9 DEF Field!Said, Said
<1>11. QED
  BY <1>2, <1>3, <1>5, <1>10

LEMMA FieldFires == Field!Fires <=> Opens
BY DEF Field!Fires, Opens, Field!OneCodeUnit, OneCodeUnit, q

LEMMA FieldAnswers ==
  \A kind, text, end : Field!Answer(kind, text, end) = Answer(kind, text, end)
BY DEF Field!Answer, Answer

LEMMA FieldAsked ==
  ASSUME NEW a, answer = Pending, answer' = a, UNCHANGED given
  PROVE  Field!Asked(a)
BY DEF Field!Asked, Field!Pending, Pending, given

LEMMA DeclineStep ==
  ASSUME Decline
  PROVE  Field!Decline
<1>1. ~Field!Fires
  BY FieldFires DEF Decline
<1>2. Field!Unread = Unread
  BY FieldAnswers DEF Field!Unread, Unread
<1>3. Field!Asked(Unread)
  BY FieldAsked DEF Decline
<1>4. QED
  BY <1>1, <1>2, <1>3 DEF Field!Decline

LEMMA ControlRefusedStep ==
  ASSUME Inv, Inv', ControlRefused
  PROVE  Field!Refuse
<1>1. PICK end : end = BodyStop - 1
  OBVIOUS
<1>2. answer = Pending /\ UNCHANGED given /\ answer' = Answer("unprintable", <<>>, end)
  BY <1>1 DEF ControlRefused, InBody, Scanning
<1>3. answer'.kind = "unprintable" /\ answer'.end = end
  BY <1>2 DEF Answer
<1>4. src' = src /\ q' = q /\ Opens' = Opens /\ opts' = opts
  BY <1>2, Kept DEF given
<1>5. /\ Opens /\ ~opts.allow /\ Unprintables(src, q) # {}
      /\ end = Min(Unprintables(src, q)) - 1
  BY <1>3, <1>4 DEF Inv, Verdict
<1>6. /\ Field!Fires /\ ~opts.allow /\ Field!Unprintables(src, opts.quote[1]) # {}
      /\ end = Field!Min(Field!Unprintables(src, opts.quote[1])) - 1
  BY <1>5, FieldFires, SameWords DEF q
<1>7. Field!Asked(Field!Answer("unprintable", <<>>, end))
  BY <1>2, FieldAsked, FieldAnswers
<1>8. QED
  BY <1>6, <1>7 DEF Field!Refuse

LEMMA ExhaustedStep ==
  ASSUME Inv, Inv', Exhausted
  PROVE  Field!Read
<1>1. answer = Pending /\ UNCHANGED given /\ answer' = Answer("unterminated", <<>>, Len(src))
  BY DEF Exhausted, Scanning
<1>2. answer'.kind = "unterminated"
  BY <1>1 DEF Answer
<1>3. src' = src /\ q' = q /\ Opens' = Opens /\ opts' = opts
  BY <1>1, Kept DEF given
<1>4. Opens /\ Closings(src, q) = {} /\ (opts.allow \/ Unprintables(src, q) = {})
  BY <1>2, <1>3 DEF Inv, Verdict
<1>5. /\ Field!Fires /\ (opts.allow \/ Field!Unprintables(src, opts.quote[1]) = {})
      /\ Field!Closings(src, opts.quote[1]) = {}
  BY <1>4, FieldFires, SameWords DEF q
<1>6. Field!Asked(Field!Answer("unterminated", <<>>, Len(src)))
  BY <1>1, FieldAsked, FieldAnswers
<1>7. QED
  BY <1>5, <1>6 DEF Field!Read

LEMMA ClosingQuoteStep ==
  ASSUME Inv, Text, Inv', ClosingQuote
  PROVE  Field!Read
<1>1. Scanning /\ answer = Pending /\ UNCHANGED given /\ answer' = Answer("field", s, sI)
  BY DEF ClosingQuote, Scanning
<1>2. answer'.kind = "field" /\ answer'.end = sI
  BY <1>1 DEF Answer
<1>3. src' = src /\ q' = q /\ Opens' = Opens /\ opts' = opts
  BY <1>1, Kept DEF given
<1>4. /\ Opens /\ Closings(src, q) # {} /\ sI = Min(Closings(src, q))
      /\ opts.allow \/ Unprintables(src, q) = {}
  BY <1>2, <1>3 DEF Inv, Verdict
<1>5. s = Said(src, q)
  BY <1>1, <1>4 DEF Text, Said, BodyEnd
<1>6. /\ Field!Fires /\ (opts.allow \/ Field!Unprintables(src, opts.quote[1]) = {})
      /\ Field!Closings(src, opts.quote[1]) # {}
  BY <1>4, FieldFires, SameWords DEF q
<1>7. s = Field!Said(src, opts.quote[1]) /\ sI = Field!Min(Field!Closings(src, opts.quote[1]))
  BY <1>4, <1>5, SameWords DEF q
<1>8. Field!Asked(Field!Answer("field", s, sI))
  BY <1>1, FieldAsked, FieldAnswers
<1>9. QED
  BY <1>6, <1>7, <1>8 DEF Field!Read

LEMMA FieldStep ==
  ASSUME Inv, Text, [Next]_vars
  PROVE  [Field!Next]_(Field!vars)
<1>1. Inv'
  BY StepInv
<1>2. CASE Decline
  BY <1>2, DeclineStep DEF Field!Next
<1>3. CASE ClosingQuote
  BY <1>1, <1>3, ClosingQuoteStep DEF Field!Next
<1>4. CASE ControlRefused
  BY <1>1, <1>4, ControlRefusedStep DEF Field!Next
<1>5. CASE Exhausted
  BY <1>1, <1>5, ExhaustedStep DEF Field!Next
<1>6. CASE Open \/ EscapedQuote \/ LineChar \/ ControlKept \/ Body \/ UNCHANGED vars
  <2>1. UNCHANGED <<given, answer>>
    BY <1>6 DEF Open, EscapedQuote, LineChar, ControlKept, Body, vars, given
  <2>2. QED
    BY <2>1 DEF Field!vars, given
<1>7. QED
  BY <1>2, <1>3, <1>4, <1>5, <1>6 DEF Next, Turn, Answered

LEMMA FieldInit ==
  ASSUME Init
  PROVE  Field!Init /\ Text
<1>1. [src |-> src, before |-> before, opts |-> opts] \in Inputs
  BY Given DEF Init
<1>2. answer = Field!Pending
  BY DEF Init, Pending, Field!Pending
<1>3. Text
  BY DEF Init, Text, Scanning
<1>4. QED
  BY <1>1, <1>2, <1>3 DEF Field!Init

\* Whatever lies ahead of the lexer, every turn of the loop but the last leaves
\* the answer open, and the last gives the one QuotedField promises: the field's
\* text character for character and its end, or the error with the place it is
\* reported for (buildCsvStringMatcher, csv.ts:595-713).
THEOREM ReadsTheField == Spec => ImplementsField
<1>1. Init => Inv /\ Field!Init /\ Text
  BY InitInv, FieldInit
<1>2. Inv /\ Text /\ [Next]_vars => Text' /\ [Field!Next]_(Field!vars)
  BY StepText, FieldStep
<1>3. QED
  BY <1>1, <1>2, Invariance, PTL DEF Spec, Field!Spec, ImplementsField

-----------------------------------------------------------------------------
(* The Rust matcher.  It is given the same sources; the window is its own. *)

CONSTANT Surplus
VARIABLE held

Rs == INSTANCE QuotedRs

\* A pair of quotes ends nothing, and says one.
LEMMA PairPassed ==
  ASSUME NEW m \in Nat, 1 <= m, Len(src) \in Nat, m + 2 <= Len(src), q \in Nat,
         src[m + 1] = q, src[m + 2] = q, Passed(m), SaidUpTo(src, q, m) \in Seq(Nat)
  PROVE  Passed(m + 2) /\ SaidUpTo(src, q, m + 2) = Append(SaidUpTo(src, q, m), q)
<1>1. PICK k \in Nat : k = m + 1 /\ k + 1 = m + 2
  OBVIOUS
<1>2. PICK n \in Nat : n = k + 1 /\ n = m + 2
  BY <1>1
<1>3. src[k] = q /\ src[n] = q /\ k < Len(src) /\ n <= Len(src) /\ 1 <= k
  BY <1>1, <1>2
<1>4. QuotesUpTo(src, q, m) % 2 = 0
  BY DEF Passed
<1>5. QuotesUpTo(src, q, k) = QuotesUpTo(src, q, m) + 1 /\ QuotesUpTo(src, q, m) \in Nat
  BY <1>1, NextQuote
<1>6. QuotesUpTo(src, q, n) = QuotesUpTo(src, q, k) + 1
  BY <1>1, <1>2, <1>3, NextQuote
<1>7. QuotesUpTo(src, q, k) % 2 # 0 /\ QuotesUpTo(src, q, n) % 2 = 0
  <2>1. PICK a \in Nat : a = QuotesUpTo(src, q, m)
    BY <1>5
  <2>2. a % 2 = 0 /\ QuotesUpTo(src, q, k) = a + 1 /\ QuotesUpTo(src, q, n) = (a + 1) + 1
    BY <1>4, <1>5, <1>6, <2>1
  <2>3. (a + 1) % 2 # 0 /\ ((a + 1) + 1) % 2 = 0
    BY <2>1, <2>2, SMTT(30)
  <2>4. QED
    BY <2>2, <2>3
<1>8. ~Closes(src, q, k) /\ ~Closes(src, q, n)
  <2>1. k < Len(src) /\ src[k + 1] = q
    BY <1>1, <1>2, <1>3
  <2>2. QuotesUpTo(src, q, n) % 2 # 1
    BY <1>7
  <2>3. QED
    BY <2>1, <2>2 DEF Closes
<1>9. ~Barred(k) /\ ~Barred(n)
  BY <1>3 DEF Barred
<1>10. \A j \in 2 .. n : j \in 2 .. m \/ j = k \/ j = n
  BY <1>1, <1>2
<1>11. Passed(n)
  BY <1>7, <1>8, <1>9, <1>10 DEF Passed
<1>12. ~Keeps(src, q, k) /\ Keeps(src, q, n)
  BY <1>3, <1>7 DEF Keeps
<1>13. SaidUpTo(src, q, k) = SaidUpTo(src, q, m)
  BY <1>1, <1>12, SaidSkip
<1>14. SaidUpTo(src, q, k) \in Seq(Nat) /\ src[n] \in Nat
  BY <1>3, <1>13
<1>15. SaidUpTo(src, q, n) = Append(SaidUpTo(src, q, k), src[n])
  BY <1>2, <1>3, <1>12, <1>14, SaidNext
<1>16. QED
  BY <1>2, <1>3, <1>11, <1>13, <1>15

-----------------------------------------------------------------------------
(* A scan, as the function it is defined by.                               *)

Stop(kind, at)  == [kind |-> kind, text |-> <<>>, at |-> at]
Saying(c, scan) == [scan EXCEPT !.text = <<c>> \o @]

\* What a scan of w finds from its i-th character on, by what it finds behind it.
ScanAt(from, w, i) ==
  IF i > Len(w) THEN Stop("open", Len(w))
  ELSE IF w[i] = q
    THEN IF i = Len(w)        THEN Stop("quoteAtEnd", i)
         ELSE IF w[i + 1] = q THEN Saying(q, from[i + 2])
                              ELSE Stop("closed", i)
  ELSE IF w[i] \notin LineChars /\ IsControl(w[i]) /\ ~opts.allow
    THEN Stop("control", i - 1)
    ELSE Saying(w[i], from[i + 1])

IsScan(from, w, lo, hi) ==
  /\ from = [i \in lo .. hi |-> from[i]]
  /\ \A i \in lo .. hi : from[i] = ScanAt(from, w, i)

LEMMA ScanFrom ==
  ASSUME NEW w, NEW from, NEW other, NEW i \in Nat, Len(w) \in Nat,
         i <= Len(w) => from[i + 1] = other[i + 1] /\ from[i + 2] = other[i + 2]
  PROVE  ScanAt(from, w, i) = ScanAt(other, w, i)
<1>1. CASE i > Len(w)
  BY <1>1 DEF ScanAt
<1>2. CASE i <= Len(w)
  BY <1>2 DEF ScanAt
<1>3. QED
  BY <1>1, <1>2

LEMMA ScanExists ==
  ASSUME NEW w, Len(w) \in Nat, NEW lo \in Nat, NEW hi \in Nat, hi = Len(w) + 2, lo <= hi + 1
  PROVE  \E from : IsScan(from, w, lo, hi)
<1> DEFINE Bad(k) == k <= hi + 1 /\ ~ \E from : IsScan(from, w, (hi + 1) - k, hi)
<1>1. PICK T \in SUBSET Nat : \A k : k \in T <=> k \in Nat /\ Bad(k)
  <2>1. {k \in Nat : Bad(k)} \in SUBSET Nat
    BY Zenon
  <2>2. QED
    BY <2>1, Zenon
<1>2. ASSUME T # {} PROVE FALSE
  <2>1. PICK k \in T : \A y \in T : k <= y
    BY <1>2, Least
  <2>2. k \in Nat /\ Bad(k)
    BY <1>1, <2>1
  <2>3. k # 0
    <3>1. SUFFICES ASSUME k = 0 PROVE FALSE
      OBVIOUS
    <3>2. PICK e : e = [i \in hi + 1 .. hi |-> i]
      OBVIOUS
    <3>3. IsScan(e, w, hi + 1, hi)
      BY <3>2 DEF IsScan
    <3>4. (hi + 1) - k = hi + 1
      BY <3>1
    <3>5. QED
      BY <2>2, <3>3, <3>4
  <2>4. PICK j \in Nat : k = j + 1
    BY <2>2, <2>3
  <2>5. j \notin T
    BY <2>1, <2>4
  <2>6. PICK l \in Nat : l = (hi + 1) - k /\ l + 1 = (hi + 1) - j /\ l <= hi
    <3>1. (hi + 1) - k \in Nat /\ ((hi + 1) - k) + 1 = (hi + 1) - j /\ (hi + 1) - k <= hi
      BY <2>2, <2>4
    <3>2. QED
      BY <3>1
  <2>7. PICK f : IsScan(f, w, l + 1, hi)
    <3>1. ~Bad(j) /\ j <= hi + 1
      BY <1>1, <2>2, <2>4, <2>5
    <3>2. QED
      BY <2>6, <3>1
  <2>8. PICK g : g = [i \in l .. hi |-> IF i = l THEN ScanAt(f, w, l) ELSE f[i]]
    OBVIOUS
  <2>9. \A i \in l + 1 .. hi : g[i] = f[i]
    BY <2>8
  <2>10. \A i \in l .. hi : ScanAt(g, w, i) = ScanAt(f, w, i)
    <3>1. SUFFICES ASSUME NEW i \in l .. hi PROVE ScanAt(g, w, i) = ScanAt(f, w, i)
      OBVIOUS
    <3>2. i \in Nat
      BY <2>6
    <3>3. i <= Len(w) => g[i + 1] = f[i + 1] /\ g[i + 2] = f[i + 2]
      BY <2>6, <2>9, SMTT(30)
    <3>4. QED
      BY <3>2, <3>3, ScanFrom
  <2>11. \A i \in l .. hi : g[i] = ScanAt(g, w, i)
    <3>1. SUFFICES ASSUME NEW i \in l .. hi PROVE g[i] = ScanAt(f, w, i)
      BY <2>10
    <3>2. CASE i = l
      BY <2>8, <3>2
    <3>3. CASE i # l
      <4>1. i \in l + 1 .. hi
        BY <2>6, <3>3
      <4>2. g[i] = f[i] /\ f[i] = ScanAt(f, w, i)
        BY <2>7, <2>9, <4>1 DEF IsScan
      <4>3. QED
        BY <4>2
    <3>4. QED
      BY <3>2, <3>3
  <2>12. g = [i \in l .. hi |-> g[i]]
    BY <2>8
  <2>13. IsScan(g, w, l, hi)
    BY <2>11, <2>12 DEF IsScan
  <2>14. QED
    BY <2>2, <2>6, <2>13
<1>3. (hi + 1) - lo \notin T
  BY <1>2
<1>4. PICK k \in Nat : k = (hi + 1) - lo /\ (hi + 1) - k = lo
  <2>1. (hi + 1) - lo \in Nat /\ (hi + 1) - ((hi + 1) - lo) = lo
    OBVIOUS
  <2>2. QED
    BY <2>1
<1>5. ~Bad(k)
  BY <1>1, <1>3, <1>4
<1>6. QED
  BY <1>4, <1>5

LEMMA ScanIs ==
  ASSUME NEW w, Len(w) \in Nat
  PROVE  \E from : IsScan(from, w, 2, Len(w) + 2) /\ Rs!ScanQuoted(w) = from[2]
<1> DEFINE body(f) == [i \in 2 .. Len(w) + 2 |-> ScanAt(f, w, i)]
<1>1. PICK g : IsScan(g, w, 2, Len(w) + 2)
  <2>1. PICK hi \in Nat : hi = Len(w) + 2
    OBVIOUS
  <2>2. 2 \in Nat /\ 2 <= hi + 1
    BY <2>1
  <2>3. QED
    BY <2>1, <2>2, ScanExists
<1>2. g = body(g)
  BY <1>1 DEF IsScan
<1>3. PICK h : h = CHOOSE f : f = body(f)
  OBVIOUS
<1>4. h = body(h)
  BY <1>2, <1>3
<1>5. IsScan(h, w, 2, Len(w) + 2)
  BY <1>4 DEF IsScan
<1>6. Rs!ScanQuoted(w) = h[2]
  BY <1>3, Zenon DEF Rs!ScanQuoted, ScanAt, Stop, Saying, Rs!q, q, Rs!IsControl, IsControl
<1>7. QED
  BY <1>5, <1>6

ScanSet == [kind : {"open", "quoteAtEnd", "closed", "control"}, text : Seq(Nat), at : Nat]

LEMMA StopType ==
  ASSUME NEW kind \in {"open", "quoteAtEnd", "closed", "control"}, NEW at \in Nat
  PROVE  /\ Stop(kind, at) \in ScanSet
         /\ Stop(kind, at).kind = kind /\ Stop(kind, at).at = at /\ Stop(kind, at).text = <<>>
BY DEF Stop, ScanSet

LEMMA SayingType ==
  ASSUME NEW c \in Nat, NEW scan \in ScanSet
  PROVE  /\ Saying(c, scan) \in ScanSet
         /\ Saying(c, scan).kind = scan.kind /\ Saying(c, scan).at = scan.at
         /\ Saying(c, scan).text = <<c>> \o scan.text
<1>1. <<c>> \in Seq(Nat) /\ scan.text \in Seq(Nat)
  BY DEF ScanSet
<1>2. PICK t \in Seq(Nat) : t = <<c>> \o scan.text
  BY <1>1, ConcatProperties
<1>3. Saying(c, scan) = [scan EXCEPT !.text = t]
  BY <1>2 DEF Saying
<1>4. QED
  BY <1>2, <1>3 DEF ScanSet

LEMMA ScanType ==
  ASSUME NEW w \in Seq(Nat), NEW from, NEW hi \in Nat, hi = Len(w) + 2, IsScan(from, w, 2, hi)
  PROVE  \A i \in 2 .. hi : from[i] \in ScanSet
<1> DEFINE Bad(k) == k \in 0 .. hi /\ (hi - k) \in 2 .. hi /\ from[hi - k] \notin ScanSet
<1>1. PICK T \in SUBSET Nat : \A k : k \in T <=> k \in Nat /\ Bad(k)
  <2>1. {k \in Nat : Bad(k)} \in SUBSET Nat
    BY Zenon
  <2>2. QED
    BY <2>1, Zenon
<1>2. Len(w) \in Nat /\ \A i \in 1 .. Len(w) : w[i] \in Nat
  BY LenProperties, ElementOfSeq
<1>3. ASSUME T # {} PROVE FALSE
  <2>1. PICK k \in T : \A y \in T : k <= y
    BY <1>3, Least
  <2>2. PICK i \in Nat : i = hi - k /\ i \in 2 .. hi /\ from[i] \notin ScanSet
    BY <1>1, <2>1
  <2>3. \A j \in i + 1 .. hi : from[j] \in ScanSet
    <3>1. SUFFICES ASSUME NEW j \in i + 1 .. hi PROVE from[j] \in ScanSet
      OBVIOUS
    <3>2. PICK l \in Nat : l = hi - j /\ hi - l = j /\ l < k /\ j \in 2 .. hi /\ l <= hi
      <4>1. hi - j \in Nat /\ hi - (hi - j) = j /\ hi - j < k /\ j \in 2 .. hi /\ hi - j <= hi
        BY <2>2
      <4>2. QED
        BY <4>1
    <3>3. l \notin T
      BY <2>1, <3>2
    <3>4. ~Bad(l)
      BY <1>1, <3>2, <3>3
    <3>5. QED
      BY <3>2, <3>4
  <2>4. from[i] = ScanAt(from, w, i)
    BY <2>2 DEF IsScan
  <2>5. ScanAt(from, w, i) \in ScanSet
    <3>1. CASE i > Len(w)
      <4>1. ScanAt(from, w, i) = Stop("open", Len(w))
        BY <3>1 DEF ScanAt
      <4>2. QED
        BY <1>2, <4>1, StopType
    <3>2. CASE ~(i > Len(w))
      <4>1. i \in 1 .. Len(w) /\ i + 1 \in i + 1 .. hi /\ i + 2 \in i + 1 .. hi /\ w[i] \in Nat
        BY <1>2, <2>2, <3>2
      <4>2. from[i + 1] \in ScanSet /\ from[i + 2] \in ScanSet
        BY <2>3, <4>1
      <4>3. i - 1 \in Nat
        BY <4>1
      <4>4. \/ ScanAt(from, w, i) = Saying(q, from[i + 2]) /\ w[i] = q
            \/ ScanAt(from, w, i) = Stop("quoteAtEnd", i)
            \/ ScanAt(from, w, i) = Stop("closed", i)
            \/ ScanAt(from, w, i) = Stop("control", i - 1)
            \/ ScanAt(from, w, i) = Saying(w[i], from[i + 1])
        BY <3>2 DEF ScanAt
      <4>5. Stop("quoteAtEnd", i) \in ScanSet /\ Stop("closed", i) \in ScanSet
        BY <2>2, StopType
      <4>6. Stop("control", i - 1) \in ScanSet
        BY <4>3, StopType
      <4>7. Saying(w[i], from[i + 1]) \in ScanSet
        BY <4>1, <4>2, SayingType
      <4>8. w[i] = q => Saying(q, from[i + 2]) \in ScanSet
        BY <4>1, <4>2, SayingType
      <4>9. QED
        BY <4>4, <4>5, <4>6, <4>7, <4>8
    <3>3. QED
      BY <3>1, <3>2
  <2>6. QED
    BY <2>2, <2>4, <2>5
<1>4. SUFFICES ASSUME NEW i \in 2 .. hi PROVE from[i] \in ScanSet
  OBVIOUS
<1>5. PICK k \in Nat : k = hi - i /\ hi - k = i /\ k <= hi
  <2>1. hi - i \in Nat /\ hi - (hi - i) = i /\ hi - i <= hi
    OBVIOUS
  <2>2. QED
    BY <2>1
<1>6. k \notin T
  BY <1>3
<1>7. ~Bad(k)
  BY <1>1, <1>5, <1>6
<1>8. QED
  BY <1>5, <1>7

-----------------------------------------------------------------------------
(* What a scan of a window finds in the source.                            *)

IsWindow(w) ==
  /\ w \in Seq(Nat) /\ src \in Seq(Nat) /\ opts.allow \in BOOLEAN
  /\ q \in Nat /\ q \notin LineChars
  /\ Len(src) \in Nat /\ Len(w) \in 1 .. Len(src)
  /\ \A i \in 1 .. Len(w) : w[i] = src[i] /\ w[i] \in Nat

\* The scan has come past the m-th character, and says what it has passed.
Past(from, w, m) ==
  /\ m \in 1 .. Len(w) /\ Passed(m) /\ SaidUpTo(src, q, m) \in Seq(Nat)
  /\ from[2].kind = from[m + 1].kind /\ from[2].at = from[m + 1].at
  /\ from[2].text = SaidUpTo(src, q, m) \o from[m + 1].text

LEMMA PastStart ==
  ASSUME NEW w, NEW from, IsWindow(w), from[2] \in ScanSet
  PROVE  Past(from, w, 1)
<1>1. SaidUpTo(src, q, 1) = <<>> /\ Passed(1)
  BY SaidNothing, NoQuotes
<1>2. from[2].text \in Seq(Nat)
  BY DEF ScanSet
<1>3. <<>> \o from[2].text = from[2].text
  BY <1>2, ConcatEmptySeq
<1>4. 1 \in 1 .. Len(w) /\ 1 + 1 = 2
  BY DEF IsWindow
<1>5. <<>> \in Seq(Nat)
  OBVIOUS
<1>6. PICK two : two = 1 + 1 /\ two = 2
  BY <1>4
<1>7. SaidUpTo(src, q, 1) \o from[two].text = from[two].text
  BY <1>1, <1>3, <1>6
<1>8. from[2] = from[two] /\ SaidUpTo(src, q, 1) \in Seq(Nat)
  BY <1>1, <1>5, <1>6
<1>9. QED
  BY <1>1, <1>4, <1>6, <1>7, <1>8 DEF Past

LEMMA PastMore ==
  ASSUME NEW w, NEW from, NEW m, NEW n \in Nat, NEW c \in Nat, Past(from, w, m), n \in 1 .. Len(w),
         from[m + 1] = Saying(c, from[n + 1]), from[n + 1] \in ScanSet,
         Passed(n), SaidUpTo(src, q, n) = Append(SaidUpTo(src, q, m), c)
  PROVE  Past(from, w, n)
<1>1. PICK a \in Seq(Nat) : a = SaidUpTo(src, q, m)
  BY DEF Past
<1>2. PICK b \in Seq(Nat) : b = from[n + 1].text
  BY DEF ScanSet
<1>3. PICK e \in Seq(Nat) : e = <<c>>
  <2>1. <<c>> \in Seq(Nat)
    OBVIOUS
  <2>2. QED
    BY <2>1
<1>11. PICK scan \in ScanSet : scan = from[n + 1]
  OBVIOUS
<1>12. /\ Saying(c, scan).kind = scan.kind /\ Saying(c, scan).at = scan.at
       /\ Saying(c, scan).text = <<c>> \o scan.text
  BY SayingType
<1>13. PICK said : said = Saying(c, scan) /\ from[m + 1] = said
  BY <1>11
<1>4. from[2].kind = from[n + 1].kind /\ from[2].at = from[n + 1].at
  BY <1>11, <1>12, <1>13 DEF Past
<1>5. from[2].text = a \o (e \o b)
  <2>1. from[2].text = a \o said.text
    BY <1>1, <1>13 DEF Past
  <2>2. said.text = e \o b
    BY <1>2, <1>3, <1>11, <1>12, <1>13
  <2>3. QED
    BY <2>1, <2>2
<1>6. Append(a, c) = a \o e /\ Append(a, c) \in Seq(Nat)
  BY <1>3, AppendIsConcat, AppendProperties
<1>7. (a \o e) \o b = a \o (e \o b)
  BY Regroup
<1>8. from[2].text = SaidUpTo(src, q, n) \o from[n + 1].text
  BY <1>1, <1>2, <1>5, <1>6, <1>7
<1>9. SaidUpTo(src, q, n) \in Seq(Nat)
  BY <1>1, <1>6
<1>10. QED
  BY <1>4, <1>8, <1>9 DEF Past

\* Where the scan stops, if it stops behind the m-th character.
StopsIn(w, m, kind, at) ==
  \/ kind = "open" /\ m = Len(w) /\ at = m
  \/ kind = "quoteAtEnd" /\ m + 1 = Len(w) /\ src[m + 1] = q /\ at = m + 1
  \/ kind = "closed" /\ m + 2 <= Len(w) /\ src[m + 1] = q /\ src[m + 2] # q /\ at = m + 1
  \/ kind = "control" /\ m + 1 <= Len(w) /\ ~opts.allow /\ Barred(m + 1) /\ at = m

Stopping(scan, w, m) ==
  /\ StopsIn(w, m, scan.kind, scan.at)
  /\ scan.text = SaidUpTo(src, q, m)

LEMMA StopHere ==
  ASSUME NEW w, NEW from, NEW m, NEW kind \in {"open", "quoteAtEnd", "closed", "control"}, NEW at \in Nat,
         Past(from, w, m), from[m + 1] = Stop(kind, at), StopsIn(w, m, kind, at)
  PROVE  Stopping(from[2], w, m)
<1>1. PICK stop : stop = Stop(kind, at) /\ from[m + 1] = stop
  OBVIOUS
<1>2. stop.kind = kind /\ stop.at = at /\ stop.text = <<>>
  BY <1>1, StopType
<1>3. PICK t \in Seq(Nat) : t = SaidUpTo(src, q, m)
  BY DEF Past
<1>4. from[2].kind = kind /\ from[2].at = at
  BY <1>1, <1>2 DEF Past
<1>5. from[2].text = t \o <<>>
  BY <1>1, <1>2, <1>3 DEF Past
<1>6. t \o <<>> = t
  BY ConcatEmptySeq
<1>7. QED
  BY <1>3, <1>4, <1>5, <1>6 DEF Stopping

\* A turn of the scan's loop: it goes past one character, or two, or stops.
LEMMA ScanTurn ==
  ASSUME NEW w, NEW from, NEW hi \in Nat, hi = Len(w) + 2, IsWindow(w), IsScan(from, w, 2, hi),
         NEW m, Past(from, w, m)
  PROVE  \/ Stopping(from[2], w, m)
         \/ \E n \in Nat : m < n /\ Past(from, w, n)
<1>1. /\ m \in Nat /\ 1 <= m /\ m <= Len(w) /\ Len(w) \in Nat /\ Len(src) \in Nat /\ Len(w) <= Len(src)
      /\ q \in Nat /\ Passed(m) /\ SaidUpTo(src, q, m) \in Seq(Nat)
  BY DEF IsWindow, Past
<1>2. \A i \in 2 .. hi : from[i] \in ScanSet
  <2>1. w \in Seq(Nat)
    BY DEF IsWindow
  <2>2. QED
    BY <2>1, ScanType
<1>3. PICK k \in Nat : k = m + 1 /\ k \in 2 .. hi
  <2>1. m + 1 \in Nat /\ m + 1 \in 2 .. hi
    BY <1>1
  <2>2. QED
    BY <2>1
<1>4. from[k] = ScanAt(from, w, k)
  BY <1>3 DEF IsScan
<1>5. CASE k > Len(w)
  <2>1. from[k] = Stop("open", Len(w))
    BY <1>4, <1>5 DEF ScanAt
  <2>2. m = Len(w)
    BY <1>1, <1>3, <1>5
  <2>3. StopsIn(w, m, "open", m)
    BY <2>2 DEF StopsIn
  <2>4. from[m + 1] = Stop("open", m)
    BY <1>3, <2>1, <2>2
  <2>5. QED
    BY <1>1, <2>3, <2>4, StopHere
<1>6. CASE k <= Len(w)
  <2>1. w[k] = src[k] /\ w[k] \in Nat /\ k <= Len(src)
    BY <1>1, <1>3, <1>6 DEF IsWindow
  <2>2. CASE w[k] = q /\ k = Len(w)
    <3>1. from[m + 1] = Stop("quoteAtEnd", k)
      BY <1>3, <1>4, <1>6, <2>2 DEF ScanAt
    <3>2. StopsIn(w, m, "quoteAtEnd", k)
      BY <1>3, <2>1, <2>2 DEF StopsIn
    <3>3. QED
      BY <3>1, <3>2, StopHere
  <2>3. CASE w[k] = q /\ k < Len(w)
    <3>1. PICK n \in Nat : n = k + 1 /\ n = m + 2
      BY <1>1, <1>3
    <3>2. n \in 1 .. Len(w) /\ w[n] = src[n] /\ n <= Len(src) /\ n + 1 \in 2 .. hi
      <4>1. n \in 1 .. Len(w) /\ n <= Len(src) /\ n + 1 \in 2 .. hi
        BY <1>1, <1>3, <2>3, <3>1
      <4>2. w[n] = src[n]
        BY <4>1 DEF IsWindow
      <4>3. QED
        BY <4>1, <4>2
    <3>3. CASE w[n] # q
      <4>1. from[k] = Stop("closed", k)
        BY <1>4, <1>6, <2>3, <3>1, <3>3 DEF ScanAt
      <4>2. StopsIn(w, m, "closed", k)
        BY <1>3, <2>1, <2>3, <3>1, <3>2, <3>3 DEF StopsIn
      <4>3. QED
        BY <1>3, <4>1, <4>2, StopHere
    <3>4. CASE w[n] = q
      <4>1. from[k] = Saying(q, from[k + 2])
        BY <1>4, <1>6, <2>3, <3>1, <3>4 DEF ScanAt
      <4>2. from[m + 1] = Saying(q, from[n + 1])
        <5>1. k + 2 = n + 1
          BY <3>1
        <5>2. QED
          BY <1>3, <4>1, <5>1
      <4>3. /\ src[m + 1] = q /\ src[m + 2] = q /\ m + 2 <= Len(src)
        BY <1>3, <2>1, <2>3, <3>1, <3>2, <3>4
      <4>4. /\ Passed(m + 2) /\ SaidUpTo(src, q, m + 2) = Append(SaidUpTo(src, q, m), q)
        BY <1>1, <4>3, PairPassed
      <4>5. from[n + 1] \in ScanSet /\ m < n
        BY <1>1, <1>2, <3>1, <3>2
      <4>6. Past(from, w, n)
        BY <1>1, <3>1, <3>2, <4>2, <4>4, <4>5, PastMore
      <4>7. QED
        BY <4>5, <4>6
    <3>5. QED
      BY <3>3, <3>4
  <2>4. CASE w[k] # q /\ ~opts.allow /\ Barred(k)
    <3>1. from[m + 1] = Stop("control", m)
      <4>1. k - 1 = m
        BY <1>1, <1>3
      <4>2. from[k] = Stop("control", k - 1)
        BY <1>4, <1>6, <2>1, <2>4 DEF ScanAt, Barred
      <4>3. QED
        BY <1>3, <4>1, <4>2
    <3>2. StopsIn(w, m, "control", m)
      BY <1>3, <1>6, <2>4 DEF StopsIn
    <3>3. QED
      BY <1>1, <3>1, <3>2, StopHere
  <2>5. CASE w[k] # q /\ (opts.allow \/ ~Barred(k))
    <3>1. from[k] = Saying(w[k], from[k + 1])
      BY <1>4, <1>6, <2>1, <2>5 DEF ScanAt, Barred
    <3>2. /\ src[m + 1] # q /\ (opts.allow \/ ~Barred(m + 1)) /\ from[m + 1] = Saying(src[k], from[k + 1])
          /\ src[k] \in Nat
      BY <1>3, <2>1, <2>5, <3>1
    <3>3. Passed(k)
      BY <1>1, <1>3, <3>2, CharTaken
    <3>4. SaidUpTo(src, q, m + 1) = Append(SaidUpTo(src, q, m), src[m + 1])
      <4>1. Keeps(src, q, m + 1)
        BY <3>2 DEF Keeps
      <4>2. m + 1 <= Len(src) /\ src[m + 1] \in Nat
        BY <1>3, <2>1, <3>2
      <4>3. QED
        BY <1>1, <4>1, <4>2, SaidNext
    <3>5. k \in 1 .. Len(w) /\ k + 1 \in 2 .. hi /\ m < k
      BY <1>1, <1>3, <1>6
    <3>6. from[k + 1] \in ScanSet
      BY <1>2, <3>5
    <3>7. SaidUpTo(src, q, k) = Append(SaidUpTo(src, q, m), src[k])
      BY <1>3, <3>4
    <3>8. Past(from, w, k)
      BY <3>2, <3>3, <3>5, <3>6, <3>7, PastMore
    <3>9. QED
      BY <3>5, <3>8
  <2>6. QED
    BY <1>6, <1>1, <1>3, <2>2, <2>3, <2>4, <2>5
<1>7. QED
  BY <1>1, <1>3, <1>5, <1>6

\* A scan of a window stops somewhere, and says what it has come past.
LEMMA ScanStops ==
  ASSUME NEW w, IsWindow(w)
  PROVE  \E m \in Nat : /\ 1 <= m /\ m <= Len(w) /\ Passed(m)
                        /\ Rs!ScanQuoted(w) \in ScanSet /\ Stopping(Rs!ScanQuoted(w), w, m)
<1>1. PICK hi \in Nat : hi = Len(w) + 2
  BY DEF IsWindow
<1>2. PICK from : IsScan(from, w, 2, hi) /\ Rs!ScanQuoted(w) = from[2]
  <2>1. Len(w) \in Nat
    BY DEF IsWindow
  <2>2. QED
    BY <1>1, <2>1, ScanIs
<1>3. Len(w) \in Nat /\ 1 <= Len(w) /\ w \in Seq(Nat)
  BY DEF IsWindow
<1>4. from[2] \in ScanSet
  <2>1. 2 \in 2 .. hi
    BY <1>1, <1>3
  <2>2. QED
    BY <1>1, <1>2, <1>3, <2>1, ScanType
<1>5. Past(from, w, 1)
  BY <1>4, PastStart
<1>6. PICK T \in SUBSET Nat : \A k : k \in T <=> k \in Nat /\ k <= Len(w) /\ Past(from, w, Len(w) - k)
  <2>1. {k \in Nat : k <= Len(w) /\ Past(from, w, Len(w) - k)} \in SUBSET Nat
    BY Zenon
  <2>2. QED
    BY <2>1, Zenon
<1>7. T # {}
  <2>1. PICK k \in Nat : k <= Len(w) /\ Len(w) - k = 1
    <3>1. Len(w) - 1 \in Nat /\ Len(w) - 1 <= Len(w) /\ Len(w) - (Len(w) - 1) = 1
      BY <1>3
    <3>2. QED
      BY <3>1
  <2>2. QED
    BY <1>5, <1>6, <2>1
<1>8. PICK k \in T : \A y \in T : k <= y
  BY <1>7, Least
<1>9. PICK m : m = Len(w) - k /\ Past(from, w, m)
  BY <1>6, <1>8
<1>10. m \in Nat /\ 1 <= m /\ m <= Len(w) /\ Passed(m)
  BY <1>3, <1>9 DEF Past
<1>11. ASSUME NEW n \in Nat, m < n, Past(from, w, n) PROVE FALSE
  <2>1. n <= Len(w)
    BY <1>3, <1>11 DEF Past
  <2>2. PICK l \in Nat : l <= Len(w) /\ Len(w) - l = n /\ l < k
    <3>1. Len(w) - n \in Nat /\ Len(w) - n <= Len(w) /\ Len(w) - (Len(w) - n) = n /\ Len(w) - n < k
      BY <1>3, <1>6, <1>8, <1>9, <1>10, <1>11, <2>1
    <3>2. QED
      BY <3>1
  <2>3. l \in T
    BY <1>6, <1>11, <2>2
  <2>4. l \in Nat /\ k \in Nat /\ k <= l
    BY <1>8, <2>3
  <2>5. QED
    BY <2>2, <2>4
<1>12. Stopping(from[2], w, m)
  BY <1>1, <1>2, <1>9, <1>11, ScanTurn
<1>13. QED
  BY <1>2, <1>4, <1>10, <1>12

-----------------------------------------------------------------------------
(* What a stop of the scan says of the whole source.                       *)

LEMMA FieldRead ==
  ASSUME InputOK, Opens, answer = Pending, UNCHANGED given,
         NEW m \in Nat, 1 <= m, m + 1 <= Len(src), Passed(m),
         src[m + 1] = q, m + 1 < Len(src) => src[m + 2] # q,
         NEW text, text = SaidUpTo(src, q, m), answer' = Answer("field", text, m + 1)
  PROVE  Field!Read
<1>1. Len(src) \in Nat
  BY LenProperties DEF InputOK
<1>2. QuotesUpTo(src, q, m + 1) % 2 = 1
  <2>1. QuotesUpTo(src, q, m + 1) = QuotesUpTo(src, q, m) + 1 /\ QuotesUpTo(src, q, m) \in Nat
    BY NextQuote
  <2>2. QuotesUpTo(src, q, m) % 2 = 0
    BY DEF Passed
  <2>3. QED
    BY <2>1, <2>2
<1>3. Closes(src, q, m + 1)
  <2>1. (m + 1) + 1 = m + 2
    OBVIOUS
  <2>2. QED
    BY <1>2, <2>1 DEF Closes
<1>4. /\ Closings(src, q) # {} /\ Min(Closings(src, q)) = m + 1
      /\ opts.allow \/ Unprintables(src, q) = {}
  BY <1>1, <1>3, EndsAt
<1>5. text = Said(src, q)
  <2>1. BodyEnd(src, q) - 1 = m
    BY <1>4 DEF BodyEnd
  <2>2. QED
    BY <2>1 DEF Said
<1>6. /\ Field!Fires /\ (opts.allow \/ Field!Unprintables(src, opts.quote[1]) = {})
      /\ Field!Closings(src, opts.quote[1]) # {}
  BY <1>4, FieldFires, SameWords DEF q
<1>7. text = Field!Said(src, opts.quote[1]) /\ m + 1 = Field!Min(Field!Closings(src, opts.quote[1]))
  BY <1>4, <1>5, SameWords DEF q
<1>8. PICK end : end = m + 1
  OBVIOUS
<1>9. Field!Asked(Field!Answer("field", text, end))
  BY <1>8, FieldAsked, FieldAnswers
<1>10. QED
  BY <1>6, <1>7, <1>8, <1>9 DEF Field!Read

LEMMA FieldUnterminated ==
  ASSUME InputOK, Opens, answer = Pending, UNCHANGED given, Passed(Len(src)),
         answer' = Answer("unterminated", <<>>, Len(src))
  PROVE  Field!Read
<1>1. Len(src) \in Nat
  BY LenProperties DEF InputOK
<1>2. Closings(src, q) = {}
  BY DEF Passed, Closings
<1>3. BodyEnd(src, q) - 1 = Len(src)
  BY <1>1, <1>2 DEF BodyEnd
<1>4. opts.allow \/ Unprintables(src, q) = {}
  BY <1>3 DEF Passed, Unprintables, Barred
<1>5. /\ Field!Fires /\ (opts.allow \/ Field!Unprintables(src, opts.quote[1]) = {})
      /\ Field!Closings(src, opts.quote[1]) = {}
  BY <1>2, <1>4, FieldFires, SameWords DEF q
<1>6. Field!Asked(Field!Answer("unterminated", <<>>, Len(src)))
  BY FieldAsked, FieldAnswers
<1>7. QED
  BY <1>5, <1>6 DEF Field!Read

LEMMA FieldRefused ==
  ASSUME InputOK, Opens, answer = Pending, UNCHANGED given,
         NEW m \in Nat, 1 <= m, m + 1 <= Len(src), Passed(m), ~opts.allow, Barred(m + 1),
         answer' = Answer("unprintable", <<>>, m)
  PROVE  Field!Refuse
<1>1. Len(src) \in Nat
  BY LenProperties DEF InputOK
<1>2. Unprintables(src, q) # {} /\ Min(Unprintables(src, q)) = m + 1
  BY <1>1, BarredFirst
<1>3. m = Min(Unprintables(src, q)) - 1
  BY <1>2
<1>4. /\ Field!Fires /\ ~opts.allow /\ Field!Unprintables(src, opts.quote[1]) # {}
      /\ m = Field!Min(Field!Unprintables(src, opts.quote[1])) - 1
  BY <1>2, <1>3, FieldFires, SameWords DEF q
<1>5. Field!Asked(Field!Answer("unprintable", <<>>, m))
  BY FieldAsked, FieldAnswers
<1>6. QED
  BY <1>4, <1>5 DEF Field!Refuse

-----------------------------------------------------------------------------
(* The window, and what a fill does to it.                                 *)

Held == held \in 1 .. Len(src)

LEMMA RsWindow ==
  ASSUME InputOK, Held, Opens
  PROVE  IsWindow(Rs!Window) /\ Len(Rs!Window) = held
<1>1. src \in Seq(Nat) /\ Len(src) \in Nat /\ q \in Nat /\ q \notin LineChars /\ opts.allow \in BOOLEAN
  <2>1. src \in Seq(Nat) /\ src # <<>> /\ src[1] = q
    BY DEF InputOK
  <2>2. Len(src) \in Nat /\ 1 \in 1 .. Len(src)
    BY <2>1, LenProperties, EmptySeq
  <2>3. src[1] \in Nat
    BY <2>1, <2>2, ElementOfSeq
  <2>4. QED
    BY <2>1, <2>2, <2>3 DEF InputOK
<1>2. held \in Nat /\ 1 <= held /\ held <= Len(src)
  BY <1>1 DEF Held
<1>3. Rs!Window = SubSeq(src, 1, held)
  BY DEF Rs!Window
<1>4. /\ SubSeq(src, 1, held) \in Seq(Nat) /\ Len(SubSeq(src, 1, held)) = held
      /\ \A i \in 1 .. held : SubSeq(src, 1, held)[i] = src[i]
  <2>1. \A i \in 1 .. held : i \in Nat /\ 1 + i - 1 = i
    BY <1>2
  <2>2. QED
    BY <1>1, <1>2, <2>1, SubSeqProperties
<1>5. \A i \in 1 .. held : src[i] \in Nat
  <2>1. \A i \in 1 .. held : i \in 1 .. Len(src)
    BY <1>1, <1>2
  <2>2. QED
    BY <1>1, <2>1, ElementOfSeq
<1>6. QED
  BY <1>1, <1>2, <1>3, <1>4, <1>5 DEF IsWindow

LEMMA RsFires ==
  ASSUME InputOK, Held
  PROVE  Rs!Fires <=> Opens
<1>1. src \in Seq(Nat) /\ held \in Nat /\ 1 <= held /\ held <= Len(src) /\ Len(src) \in Nat
  BY LenProperties DEF InputOK, Held
<1>2. SubSeq(src, 1, held)[1] = src[1]
  BY <1>1
<1>3. Rs!Window[1] = src[1]
  BY <1>2 DEF Rs!Window
<1>4. Rs!q = q /\ (Rs!OneCodeUnit(opts.quote) <=> OneCodeUnit(opts.quote))
  BY DEF Rs!q, q, Rs!OneCodeUnit, OneCodeUnit
<1>5. QED
  BY <1>3, <1>4 DEF Rs!Fires, Opens

LEMMA RsMin ==
  ASSUME NEW a \in Nat, NEW b \in Nat
  PROVE  Rs!Min({a, b}) = IF a <= b THEN a ELSE b
<1>1. PICK S \in SUBSET Nat : S = {a, b}
  OBVIOUS
<1>2. PICK m \in S : m = IF a <= b THEN a ELSE b
  BY <1>1
<1>3. \A x \in S : m <= x
  BY <1>1, <1>2
<1>4. Min(S) = m
  BY <1>1, <1>2, <1>3, LeastOf
<1>5. QED
  BY <1>1, <1>2, <1>4 DEF Rs!Min, Min

LEMMA RsMax ==
  ASSUME NEW a \in Nat, NEW b \in Nat
  PROVE  Rs!Max({a, b}) = IF a <= b THEN b ELSE a
<1>1. PICK S \in SUBSET Nat : S = {a, b}
  OBVIOUS
<1>2. PICK m \in S : m = IF a <= b THEN b ELSE a
  BY <1>1
<1>3. \A x \in S : (\A y \in S : x >= y) <=> x = m
  BY <1>1, <1>2
<1>4. QED
  BY <1>1, <1>2, <1>3 DEF Rs!Max

\* A fill never shrinks the window, and brings something while there is something.
LEMMA FillGrows ==
  ASSUME InputOK, Held, Surplus \subseteq Nat, UNCHANGED given,
         NEW n \in Nat, held < n, Rs!Fill(n)
  PROVE  Held' /\ held' \in Nat /\ (held' <= held => held = Len(src))
<1>1. held \in Nat /\ 1 <= held /\ held <= Len(src) /\ Len(src) \in Nat
  BY LenProperties DEF InputOK, Held
<1>2. PICK more \in Nat : held' = Rs!Max({held, Rs!Min({n + more, Len(src)})})
  BY DEF Rs!Fill
<1>3. PICK up \in Nat : up = n + more
  OBVIOUS
<1>4. PICK to \in Nat : to = (IF up <= Len(src) THEN up ELSE Len(src)) /\ to = Rs!Min({up, Len(src)})
  BY <1>1, RsMin
<1>5. held' = IF held <= to THEN to ELSE held
  BY <1>1, <1>2, <1>3, <1>4, RsMax
<1>6. src' = src
  BY DEF given
<1>7. held' \in Nat /\ held' \in 1 .. Len(src) /\ (held' <= held => held = Len(src))
  BY <1>1, <1>3, <1>4, <1>5
<1>8. QED
  BY <1>6, <1>7 DEF Held

\* Where the scan of the window has stopped.
LEMMA RsStop ==
  ASSUME InputOK, Held, NEW kind, Rs!Scanning(kind)
  PROVE  /\ Opens /\ answer = Pending /\ UNCHANGED given /\ held \in Nat /\ Len(src) \in Nat /\ held <= Len(src)
         /\ \E m \in Nat, scan \in ScanSet :
              /\ scan = Rs!ScanQuoted(Rs!Window) /\ scan.kind = kind
              /\ 1 <= m /\ m <= held /\ Passed(m) /\ scan.text = SaidUpTo(src, q, m)
              /\ \/ kind = "open" /\ m = held /\ scan.at = m
                 \/ kind = "quoteAtEnd" /\ m + 1 = held /\ src[m + 1] = q /\ scan.at = m + 1
                 \/ kind = "closed" /\ m + 2 <= held /\ src[m + 1] = q /\ src[m + 2] # q /\ scan.at = m + 1
                 \/ kind = "control" /\ m + 1 <= held /\ ~opts.allow /\ Barred(m + 1) /\ scan.at = m
<1>1. answer = Pending /\ Rs!Fires /\ Rs!ScanQuoted(Rs!Window).kind = kind /\ UNCHANGED given
  BY DEF Rs!Scanning, Rs!Pending, Pending, Rs!given, given
<1>2. Opens
  BY <1>1, RsFires
<1>3. held \in Nat /\ held <= Len(src) /\ Len(src) \in Nat
  BY LenProperties DEF InputOK, Held
<1>4. PICK w : w = Rs!Window
  OBVIOUS
<1>5. IsWindow(w) /\ Len(w) = held
  BY <1>2, <1>4, RsWindow
<1>6. PICK m \in Nat : /\ 1 <= m /\ m <= Len(w) /\ Passed(m)
                       /\ Rs!ScanQuoted(w) \in ScanSet /\ Stopping(Rs!ScanQuoted(w), w, m)
  BY <1>5, ScanStops
<1>7. PICK scan \in ScanSet : scan = Rs!ScanQuoted(Rs!Window)
  BY <1>4, <1>6
<1>8. scan.kind = kind /\ StopsIn(w, m, kind, scan.at) /\ scan.text = SaidUpTo(src, q, m)
  BY <1>1, <1>4, <1>6, <1>7 DEF Stopping
<1>9. \/ kind = "open" /\ m = held /\ scan.at = m
      \/ kind = "quoteAtEnd" /\ m + 1 = held /\ src[m + 1] = q /\ scan.at = m + 1
      \/ kind = "closed" /\ m + 2 <= held /\ src[m + 1] = q /\ src[m + 2] # q /\ scan.at = m + 1
      \/ kind = "control" /\ m + 1 <= held /\ ~opts.allow /\ Barred(m + 1) /\ scan.at = m
  BY <1>5, <1>8 DEF StopsIn
<1>10. 1 <= m /\ m <= held /\ Passed(m)
  BY <1>5, <1>6
<1>11. QED
  BY <1>1, <1>2, <1>3, <1>7, <1>8, <1>9, <1>10

-----------------------------------------------------------------------------
(* Every scan is a step of QuotedField, or none.                           *)

LEMMA RsFound ==
  ASSUME NEW scan \in ScanSet
  PROVE  Rs!Found(scan) = Answer("field", scan.text, scan.at)
BY DEF Rs!Found, Rs!Answer, Answer

LEMMA RsDeclineStep ==
  ASSUME InputOK, Held, Rs!Decline
  PROVE  Field!Decline /\ UNCHANGED <<given, held>>
<1>1. answer = Pending /\ answer' = Unread /\ UNCHANGED <<given, held>>
  BY DEF Rs!Decline, Rs!Pending, Pending, Rs!Unread, Unread, Rs!Answer, Answer, Rs!given, given
<1>2. ~Field!Fires
  BY RsFires, FieldFires DEF Rs!Decline
<1>3. Field!Unread = Unread
  BY FieldAnswers DEF Field!Unread, Unread
<1>4. Field!Asked(Unread)
  BY <1>1, FieldAsked
<1>5. QED
  BY <1>1, <1>2, <1>3, <1>4 DEF Field!Decline

LEMMA RsClosedStep ==
  ASSUME InputOK, Held, Rs!Closed
  PROVE  Field!Read /\ UNCHANGED <<given, held>>
<1>1. Rs!Scanning("closed") /\ answer' = Rs!Found(Rs!ScanQuoted(Rs!Window)) /\ held' = held
  BY DEF Rs!Closed
<1>2. /\ Opens /\ answer = Pending /\ UNCHANGED given
      /\ held \in Nat /\ Len(src) \in Nat /\ held <= Len(src)
  BY <1>1, RsStop
<1>3. PICK m \in Nat, scan \in ScanSet :
        /\ scan = Rs!ScanQuoted(Rs!Window)
        /\ 1 <= m /\ Passed(m) /\ scan.text = SaidUpTo(src, q, m)
        /\ m + 2 <= held /\ src[m + 1] = q /\ src[m + 2] # q /\ scan.at = m + 1
  BY <1>1, RsStop
<1>4. answer' = Answer("field", scan.text, m + 1)
  BY <1>1, <1>3, RsFound
<1>5. PICK text : text = scan.text /\ text = SaidUpTo(src, q, m)
  BY <1>3
<1>6. m + 1 <= Len(src)
  BY <1>2, <1>3
<1>7. Field!Read
  BY <1>2, <1>3, <1>4, <1>5, <1>6, FieldRead
<1>8. QED
  BY <1>1, <1>2, <1>7

LEMMA RsQuoteAtEndStep ==
  ASSUME InputOK, Held, Surplus \subseteq Nat, Rs!QuoteAtEnd
  PROVE  (Field!Read \/ UNCHANGED answer) /\ UNCHANGED given /\ Held'
<1>1. Rs!Scanning("quoteAtEnd")
  BY DEF Rs!QuoteAtEnd
<1>2. /\ Opens /\ answer = Pending /\ UNCHANGED given
      /\ held \in Nat /\ Len(src) \in Nat /\ held <= Len(src)
  BY <1>1, RsStop
<1>3. PICK m \in Nat, scan \in ScanSet :
        /\ scan = Rs!ScanQuoted(Rs!Window)
        /\ 1 <= m /\ Passed(m) /\ scan.text = SaidUpTo(src, q, m)
        /\ m + 1 = held /\ src[m + 1] = q /\ scan.at = m + 1
  BY <1>1, RsStop
<1>4. /\ Rs!Fill(scan.at + 1)
      /\ answer' = IF held' > scan.at THEN answer ELSE Rs!Found(scan)
  BY <1>3 DEF Rs!QuoteAtEnd
<1>5. PICK n \in Nat : n = scan.at + 1 /\ held < n
  BY <1>2, <1>3
<1>6. Held' /\ held' \in Nat /\ (held' <= held => held = Len(src))
  BY <1>2, <1>4, <1>5, FillGrows
<1>7. CASE held' > held
  BY <1>2, <1>3, <1>4, <1>6, <1>7
<1>8. CASE ~(held' > held)
  <2>1. held = Len(src) /\ ~(held' > scan.at)
    BY <1>2, <1>3, <1>6, <1>8
  <2>2. answer' = Answer("field", scan.text, m + 1)
    BY <1>3, <1>4, <2>1, RsFound
  <2>3. PICK text : text = scan.text /\ text = SaidUpTo(src, q, m)
    BY <1>3
  <2>4. m + 1 <= Len(src) /\ ~(m + 1 < Len(src))
    BY <1>2, <1>3, <2>1
  <2>5. Field!Read
    BY <1>2, <1>3, <2>2, <2>3, <2>4, FieldRead
  <2>6. QED
    BY <1>2, <1>6, <2>5
<1>9. QED
  BY <1>7, <1>8

LEMMA RsControlStep ==
  ASSUME InputOK, Held, Rs!Control
  PROVE  Field!Refuse /\ UNCHANGED <<given, held>>
<1>1. /\ Rs!Scanning("control") /\ held' = held
      /\ answer' = Rs!Answer("unprintable", <<>>, Rs!ScanQuoted(Rs!Window).at)
  BY DEF Rs!Control
<1>2. /\ Opens /\ answer = Pending /\ UNCHANGED given
      /\ held \in Nat /\ Len(src) \in Nat /\ held <= Len(src)
  BY <1>1, RsStop
<1>3. PICK m \in Nat, scan \in ScanSet :
        /\ scan = Rs!ScanQuoted(Rs!Window)
        /\ 1 <= m /\ Passed(m) /\ m + 1 <= held /\ ~opts.allow /\ Barred(m + 1) /\ scan.at = m
  BY <1>1, RsStop
<1>4. answer' = Answer("unprintable", <<>>, m)
  BY <1>1, <1>3 DEF Rs!Answer, Answer
<1>5. m + 1 <= Len(src)
  BY <1>2, <1>3
<1>6. Field!Refuse
  BY <1>2, <1>3, <1>4, <1>5, FieldRefused
<1>7. QED
  BY <1>1, <1>2, <1>6

LEMMA RsOpenStep ==
  ASSUME InputOK, Held, Surplus \subseteq Nat, Rs!Open
  PROVE  (Field!Read \/ UNCHANGED answer) /\ UNCHANGED given /\ Held'
<1>1. Rs!Scanning("open")
  BY DEF Rs!Open
<1>2. /\ Opens /\ answer = Pending /\ UNCHANGED given
      /\ held \in Nat /\ Len(src) \in Nat /\ held <= Len(src)
  BY <1>1, RsStop
<1>3. PICK m \in Nat, scan \in ScanSet :
        /\ scan = Rs!ScanQuoted(Rs!Window)
        /\ 1 <= m /\ Passed(m) /\ m = held /\ scan.at = m
  BY <1>1, RsStop
<1>4. /\ Rs!Fill(Rs!Max({2 * scan.at, scan.at + 1}))
      /\ answer' = IF held' > scan.at THEN answer ELSE Rs!Answer("unterminated", <<>>, scan.at)
  BY <1>3 DEF Rs!Open
<1>5. PICK n \in Nat : n = Rs!Max({2 * scan.at, scan.at + 1}) /\ held < n
  <2>1. PICK a \in Nat, b \in Nat : a = 2 * scan.at /\ b = scan.at + 1
    BY <1>3
  <2>2. Rs!Max({a, b}) = IF a <= b THEN b ELSE a
    BY RsMax
  <2>3. Rs!Max({a, b}) \in Nat /\ held < Rs!Max({a, b})
    BY <1>2, <1>3, <2>1, <2>2
  <2>4. QED
    BY <2>1, <2>3
<1>6. Held' /\ held' \in Nat /\ (held' <= held => held = Len(src))
  BY <1>2, <1>4, <1>5, FillGrows
<1>7. CASE held' > held
  BY <1>2, <1>3, <1>4, <1>6, <1>7
<1>8. CASE ~(held' > held)
  <2>1. held = Len(src) /\ ~(held' > scan.at)
    BY <1>2, <1>3, <1>6, <1>8
  <2>2. answer' = Answer("unterminated", <<>>, Len(src))
    BY <1>3, <1>4, <2>1 DEF Rs!Answer, Answer
  <2>3. Passed(Len(src))
    BY <1>3, <2>1
  <2>4. Field!Read
    BY <1>2, <2>2, <2>3, FieldUnterminated
  <2>5. QED
    BY <1>2, <1>6, <2>4
<1>9. QED
  BY <1>7, <1>8

LEMMA RsStep ==
  ASSUME InputOK, Held, Surplus \subseteq Nat, [Rs!Next]_(Rs!vars)
  PROVE  InputOK' /\ Held' /\ [Field!Next]_(Field!vars)
<1>1. /\ UNCHANGED given /\ Held'
      /\ Field!Decline \/ Field!Read \/ Field!Refuse \/ UNCHANGED answer
  <2>1. CASE Rs!Decline
    BY <2>1, RsDeclineStep DEF Held, given
  <2>2. CASE Rs!Closed
    BY <2>2, RsClosedStep DEF Held, given
  <2>3. CASE Rs!QuoteAtEnd
    BY <2>3, RsQuoteAtEndStep
  <2>4. CASE Rs!Control
    BY <2>4, RsControlStep DEF Held, given
  <2>5. CASE Rs!Open
    BY <2>5, RsOpenStep
  <2>6. CASE UNCHANGED Rs!vars
    <3>1. UNCHANGED <<given, held, answer>>
      BY <2>6 DEF Rs!vars, given
    <3>2. QED
      BY <3>1 DEF Held, given
  <2>7. QED
    BY <2>1, <2>2, <2>3, <2>4, <2>5, <2>6 DEF Rs!Next, Rs!Match, Rs!Answered
<1>2. InputOK'
  BY <1>1, Kept
<1>3. [Field!Next]_(Field!vars)
  BY <1>1 DEF Field!Next, Field!vars, given
<1>4. QED
  BY <1>1, <1>2, <1>3

LEMMA RsInit ==
  ASSUME Rs!Init
  PROVE  InputOK /\ Held /\ Field!Init
<1>1. /\ held \in 1 .. Len(src) /\ answer = Rs!Pending
      /\ \E input \in Inputs : src = input.src /\ before = input.before /\ opts = input.opts
  BY DEF Rs!Init
<1>2. InputOK /\ [src |-> src, before |-> before, opts |-> opts] \in Inputs
  BY <1>1, Given
<1>3. answer = Field!Pending
  BY <1>1 DEF Rs!Pending, Field!Pending
<1>4. QED
  BY <1>1, <1>2, <1>3 DEF Held, Field!Init

LEMMA RsSameWords ==
  ASSUME NEW f, NEW c
  PROVE  /\ Rs!Field!Closings(f, c) = Field!Closings(f, c)
         /\ Rs!Field!Unprintables(f, c) = Field!Unprintables(f, c)
         /\ Rs!Field!Said(f, c) = Field!Said(f, c)
         /\ \A S : Rs!Field!Min(S) = Field!Min(S)
<1>1. \A S : Rs!Field!Cardinality(S) = Field!Cardinality(S)
  BY Zenon DEF Rs!Field!Cardinality, Field!Cardinality
<1>2. \A n : Rs!Field!QuotesUpTo(f, c, n) = Field!QuotesUpTo(f, c, n)
  BY <1>1 DEF Rs!Field!QuotesUpTo, Field!QuotesUpTo
<1>3. \A S : Rs!Field!Min(S) = Field!Min(S)
  BY DEF Rs!Field!Min, Field!Min
<1>4. Rs!Field!Closings(f, c) = Field!Closings(f, c)
  BY <1>2 DEF Rs!Field!Closings, Field!Closings, Rs!Field!Closes, Field!Closes
<1>5. Rs!Field!BodyEnd(f, c) = Field!BodyEnd(f, c)
  BY <1>3, <1>4 DEF Rs!Field!BodyEnd, Field!BodyEnd
<1>6. Rs!Field!Unprintables(f, c) = Field!Unprintables(f, c)
  BY <1>5 DEF Rs!Field!Unprintables, Field!Unprintables, Rs!Field!IsControl, Field!IsControl
<1>7. \A i : Rs!Field!Keeps(f, c, i) = Field!Keeps(f, c, i)
  BY <1>2 DEF Rs!Field!Keeps, Field!Keeps
<1>8. \A n : Rs!Field!KeptUpTo(f, c, n) = Field!KeptUpTo(f, c, n)
  BY <1>1, <1>7 DEF Rs!Field!KeptUpTo, Field!KeptUpTo
<1>9. \A k : Rs!Field!KeptAt(f, c, k) = Field!KeptAt(f, c, k)
  BY <1>7, <1>8 DEF Rs!Field!KeptAt, Field!KeptAt
<1>10. \A n : Rs!Field!SaidUpTo(f, c, n) = Field!SaidUpTo(f, c, n)
  BY <1>8, <1>9 DEF Rs!Field!SaidUpTo, Field!SaidUpTo
<1>11. Rs!Field!Said(f, c) = Field!Said(f, c)
  BY <1>5, <1>10 DEF Rs!Field!Said, Field!Said
<1>12. QED
  BY <1>3, <1>4, <1>6, <1>11

\* The promise is the one the TypeScript matcher keeps, word for word.
LEMMA SamePromise ==
  /\ Field!Init => Rs!Field!Init
  /\ [Field!Next]_(Field!vars) => [Rs!Field!Next]_(Rs!Field!vars)
<1>1. Field!Init => Rs!Field!Init
  BY DEF Rs!Field!Init, Field!Init, Rs!Field!Pending, Field!Pending
<1>2. \A kind, text, end : Rs!Field!Answer(kind, text, end) = Field!Answer(kind, text, end)
  BY DEF Rs!Field!Answer, Field!Answer
<1>3. Rs!Field!Unread = Field!Unread
  BY <1>2 DEF Rs!Field!Unread, Field!Unread
<1>4. Field!Fires <=> Rs!Field!Fires
  BY DEF Rs!Field!Fires, Field!Fires, Rs!Field!OneCodeUnit, Field!OneCodeUnit
<1>5. ASSUME NEW a, Field!Asked(a) PROVE Rs!Field!Asked(a)
  BY <1>5 DEF Rs!Field!Asked, Field!Asked, Rs!Field!Pending, Field!Pending
<1>6. Field!Decline => Rs!Field!Decline
  BY <1>3, <1>4, <1>5 DEF Rs!Field!Decline, Field!Decline
<1>7. Field!Refuse => Rs!Field!Refuse
  BY <1>2, <1>3, <1>4, <1>5, RsSameWords DEF Rs!Field!Refuse, Field!Refuse
<1>8. Field!Read => Rs!Field!Read
  BY <1>2, <1>4, <1>5, RsSameWords DEF Rs!Field!Read, Field!Read
<1>9. QED
  BY <1>1, <1>6, <1>7, <1>8 DEF Rs!Field!Next, Field!Next, Rs!Field!vars, Field!vars

\* However the reader cuts the source, and whatever lies ahead of the lexer, a
\* scan of the window answers what QuotedField promises for the whole source or
\* leaves the answer open for a scan of more of it (csv_string_matcher and
\* scan_quoted, lib.rs:1036-1143).
THEOREM RsReadsTheField ==
  ASSUME Surplus \subseteq Nat
  PROVE  Rs!Spec => Rs!ImplementsField
<1>1. Rs!Init => InputOK /\ Held /\ Field!Init
  BY RsInit
<1>2. InputOK /\ Held /\ [Rs!Next]_(Rs!vars) => InputOK' /\ Held' /\ [Field!Next]_(Field!vars)
  BY RsStep
<1>3. QED
  BY <1>1, <1>2, SamePromise, PTL DEF Rs!Spec, Field!Spec, Rs!ImplementsField, Rs!Field!Spec
=============================================================================
