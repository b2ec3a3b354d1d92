--------------------------- MODULE QuotedGoProofs ---------------------------
(***************************************************************************)
(* The Go matcher on sources of any length, with a quote of any number of  *)
(* bytes: the row and the column it leaves the lexer's cursor at, and the  *)
(* field it reads, which is the one QuotedField promises for characters.   *)
(***************************************************************************)
EXTENDS QuotedGo, SequenceTheorems, FiniteSetTheorems, WellFoundedInduction, TLAPS

-----------------------------------------------------------------------------
(* Numbers.                                                                *)

\* A set of numbers has a least one.
LEMMA Least ==
  ASSUME NEW T \in SUBSET Nat, T # {}
  PROVE  \E m \in T : \A y \in T : m <= y
<1> DEFINE R == OpToRel(<, Nat)
<1>1. IsWellFoundedOn(R, Nat)
  BY NatLessThanWellFounded
<1>2. ASSUME NEW x \in Nat, NEW y \in Nat, y < x PROVE <<y, x>> \in R
  BY <1>2 DEF OpToRel
<1>3. PICK m \in T : \A y \in T : ~(<<y, m>> \in R)
  <2> HIDE DEF R
  <2>1. QED
    BY <1>1, WFMin
<1>4. ASSUME NEW y \in T PROVE m <= y
  <2>1. m \in Nat /\ y \in Nat
    OBVIOUS
  <2>2. <<y, m>> \notin R
    BY <1>3
  <2>3. ~(y < m)
    BY <1>2, <2>1, <2>2
  <2>4. QED
    BY <2>1, <2>3
<1>5. QED
  BY <1>4

LEMMA GreatestOf ==
  ASSUME NEW S \in SUBSET Nat, NEW m \in S, \A x \in S : x <= m
  PROVE  Max(S) = m
<1>1. \A x \in S : (\A y \in S : x >= y) <=> x = m
  OBVIOUS
<1>2. QED
  BY <1>1 DEF Max

LEMMA LeastOf ==
  ASSUME NEW S \in SUBSET Nat, NEW m \in S, \A x \in S : m <= x
  PROVE  Min(S) = m
<1>1. \A x \in S : (\A y \in S : x <= y) <=> x = m
  OBVIOUS
<1>2. QED
  BY <1>1 DEF Min

LEMMA Greatest ==
  ASSUME NEW n \in Nat, NEW S \in SUBSET (0 .. n), S # {}
  PROVE  Max(S) \in S /\ Max(S) \in Nat
<1> DEFINE T == {b \in Nat : \A x \in S : x <= b}
<1>1. n \in T
  OBVIOUS
<1>2. PICK m \in T : \A y \in T : m <= y
  BY <1>1, Least
<1>3. m \in S
  <2>1. SUFFICES ASSUME m \notin S PROVE FALSE
    OBVIOUS
  <2>2. \A x \in S : x \in Nat /\ x < m
    BY <1>2, <2>1
  <2>3. m \in Nat /\ m # 0
    <3>1. PICK x \in S : TRUE
      OBVIOUS
    <3>2. m \in Nat
      BY <1>2
    <3>3. x < m /\ x \in Nat
      BY <2>2, <3>1
    <3>4. QED
      BY <3>2, <3>3
  <2>5. m - 1 \in Nat /\ \A y \in S : y <= m - 1
    BY <2>2, <2>3
  <2>4. QED
    BY <1>2, <2>3, <2>5
<1>4. S \in SUBSET Nat
  OBVIOUS
<1>5. QED
  BY <1>2, <1>3, <1>4, GreatestOf

-----------------------------------------------------------------------------
(* The bytes of a text.                                                    *)

\* The function FlattenSeq is defined by.
IsFlatten(f, seqs, n) ==
  /\ DOMAIN f = 1 .. n /\ f = [i \in 1 .. n |-> f[i]]
  /\ \A i \in 1 .. n : f[i] = IF i = 1 THEN seqs[i] ELSE f[i - 1] \o seqs[i]

LEMMA FlattenExists ==
  ASSUME NEW seqs, NEW n \in Nat
  PROVE  \E f : IsFlatten(f, seqs, n)
<1> DEFINE T == {k \in Nat : ~ \E f : IsFlatten(f, seqs, k)}
<1>1. SUFFICES T = {}
  OBVIOUS
<1>2. SUFFICES ASSUME T # {} PROVE FALSE
  OBVIOUS
<1>3. PICK k \in T : \A y \in T : k <= y
  BY <1>2, Least
<1>4. k # 0
  <2>1. PICK e : e = [i \in 1 .. 0 |-> i]
    OBVIOUS
  <2>2. IsFlatten(e, seqs, 0)
    BY <2>1 DEF IsFlatten
  <2>3. QED
    BY <2>2
<1>5. PICK j \in Nat : k = j + 1
  BY <1>4
<1>6. PICK f : IsFlatten(f, seqs, j)
  BY <1>3, <1>5
<1>7. PICK g : g = [i \in 1 .. k |-> IF i = 1 THEN seqs[i] ELSE f[i - 1] \o seqs[i]]
  OBVIOUS
<1>8. \A i \in 1 .. j : g[i] = f[i]
  <2>1. SUFFICES ASSUME NEW i \in 1 .. j PROVE g[i] = f[i]
    OBVIOUS
  <2>2. i \in 1 .. k
    BY <1>5
  <2>3. g[i] = IF i = 1 THEN seqs[i] ELSE f[i - 1] \o seqs[i]
    BY <1>7, <2>2
  <2>4. f[i] = IF i = 1 THEN seqs[i] ELSE f[i - 1] \o seqs[i]
    BY <1>6 DEF IsFlatten
  <2>5. QED
    BY <2>3, <2>4
<1>9. IsFlatten(g, seqs, k)
  <2>1. \A i \in 1 .. k : i # 1 => g[i - 1] = f[i - 1]
    BY <1>5, <1>8
  <2>2. \A i \in 1 .. k : g[i] = IF i = 1 THEN seqs[i] ELSE f[i - 1] \o seqs[i]
    BY <1>7
  <2>3. DOMAIN g = 1 .. k /\ g = [i \in 1 .. k |-> g[i]]
    BY <1>7
  <2>4. QED
    BY <2>1, <2>2, <2>3 DEF IsFlatten
<1>10. QED
  BY <1>9

LEMMA FlattenIs ==
  ASSUME NEW seqs, NEW n \in Nat, n = Len(seqs), n # 0
  PROVE  \E f : IsFlatten(f, seqs, n) /\ FlattenSeq(seqs) = f[n]
<1> DEFINE body(f) == [i \in 1 .. Len(seqs) |-> IF i = 1 THEN seqs[i] ELSE f[i - 1] \o seqs[i]]
<1>1. PICK g : IsFlatten(g, seqs, n)
  BY FlattenExists
<1>2. g = body(g)
  BY <1>1 DEF IsFlatten
<1>3. PICK h : h = CHOOSE f : f = body(f)
  OBVIOUS
<1>4. h = body(h)
  BY <1>2, <1>3
<1>5. IsFlatten(h, seqs, n)
  BY <1>4 DEF IsFlatten
<1>6. FlattenSeq(seqs) = h[n]
  BY <1>3 DEF FlattenSeq
<1>7. QED
  BY <1>5, <1>6

LEMMA FlattenType ==
  ASSUME NEW S, NEW seqs \in Seq(Seq(S))
  PROVE  FlattenSeq(seqs) \in Seq(S)
<1>1. CASE Len(seqs) = 0
  <2>1. seqs = <<>>
    BY <1>1, EmptySeq
  <2>2. QED
    BY <1>1, <2>1 DEF FlattenSeq
<1>2. CASE Len(seqs) # 0
  <2>1. PICK n \in Nat : n = Len(seqs) /\ n >= 1
    BY <1>2, LenProperties
  <2>2. PICK f : IsFlatten(f, seqs, n) /\ FlattenSeq(seqs) = f[n]
    BY <1>2, <2>1, FlattenIs
  <2> DEFINE T == {k \in Nat : k \in 1 .. n /\ f[k] \notin Seq(S)}
  <2>3. \A i \in 1 .. n : seqs[i] \in Seq(S)
    BY <2>1, LenProperties, ElementOfSeq
  <2>4. T = {}
    <3>1. SUFFICES ASSUME T # {} PROVE FALSE
      OBVIOUS
    <3>2. PICK k \in T : \A y \in T : k <= y
      BY <3>1, Least
    <3>3. k # 1
      BY <2>2, <2>3 DEF IsFlatten
    <3>4. PICK j \in Nat : j = k - 1 /\ j \in 1 .. n
      BY <3>3
    <3>5. f[j] \in Seq(S)
      BY <3>2, <3>4
    <3>6. f[k] = f[j] \o seqs[k]
      BY <2>2, <3>3, <3>4 DEF IsFlatten
    <3>7. f[k] \in Seq(S)
      BY <2>3, <3>5, <3>6, ConcatProperties
    <3>8. QED
      BY <3>7
  <2>5. QED
    BY <2>1, <2>2, <2>4
<1>3. QED
  BY <1>1, <1>2

LEMMA IsSeq ==
  ASSUME NEW S, NEW n \in Nat, NEW f \in [1 .. n -> S]
  PROVE  f \in Seq(S) /\ Len(f) = n
OBVIOUS

LEMMA Utf8Type ==
  ASSUME NEW c \in Nat
  PROVE  Utf8(c) \in Seq(Nat)
<1>1. /\ c \div 64 \in Nat /\ c % 64 \in Nat /\ c \div 4096 \in Nat
      /\ (c \div 64) % 64 \in Nat
  OBVIOUS
<1>2. QED
  BY <1>1 DEF Utf8

LEMMA EncodedType ==
  ASSUME NEW text \in Seq(Nat)
  PROVE  Encoded(text) \in Seq(Nat)
<1>1. Len(text) \in Nat /\ DOMAIN text = 1 .. Len(text) /\ \A i \in DOMAIN text : text[i] \in Nat
  BY LenProperties, ElementOfSeq
<1>2. PICK seqs : seqs = [i \in DOMAIN text |-> Utf8(text[i])]
  OBVIOUS
<1>3. seqs \in [1 .. Len(text) -> Seq(Nat)]
  BY <1>1, <1>2, Utf8Type
<1>4. seqs \in Seq(Seq(Nat))
  BY <1>1, <1>3, IsSeq
<1>5. QED
  BY <1>2, <1>4, FlattenType DEF Encoded

-----------------------------------------------------------------------------
(* The row and the column after the first n bytes.                         *)

RowsUpTo(f, n)  == {i \in 1 .. n : f[i] \in RowChars}
LinesUpTo(f, n) == {i \in 1 .. n : f[i] \in LineChars} \union {0}

LEMMA RowsFinite ==
  ASSUME NEW f, NEW n \in Nat
  PROVE  IsFiniteSet(RowsUpTo(f, n)) /\ RowAfter(f, n) = 1 + Cardinality(RowsUpTo(f, n))
         /\ RowAfter(f, n) \in Nat
<1>1. IsFiniteSet(1 .. n)
  BY FS_Interval
<1>2. RowsUpTo(f, n) \in SUBSET (1 .. n)
  BY DEF RowsUpTo
<1>3. IsFiniteSet(RowsUpTo(f, n))
  BY <1>1, <1>2, FS_Subset
<1>4. Cardinality(RowsUpTo(f, n)) \in Nat
  BY <1>3, FS_CardinalityType
<1>5. RowAfter(f, n) = 1 + Cardinality(RowsUpTo(f, n))
  BY DEF RowAfter, RowsUpTo
<1>6. QED
  BY <1>3, <1>4, <1>5

LEMMA LastLine ==
  ASSUME NEW f, NEW n \in Nat
  PROVE  ColumnAfter(f, n) = n + 1 - Max(LinesUpTo(f, n)) /\ Max(LinesUpTo(f, n)) \in Nat
<1>1. LinesUpTo(f, n) \in SUBSET (0 .. n) /\ LinesUpTo(f, n) # {}
  BY DEF LinesUpTo
<1>2. Max(LinesUpTo(f, n)) \in Nat
  BY <1>1, Greatest
<1>3. QED
  BY <1>2 DEF ColumnAfter, LinesUpTo

LEMMA AtTheStart ==
  ASSUME NEW f
  PROVE  RowAfter(f, 0) = 1 /\ ColumnAfter(f, 0) = 1
<1>1. RowsUpTo(f, 0) = {} /\ LinesUpTo(f, 0) = {0}
  BY DEF RowsUpTo, LinesUpTo
<1>2. Cardinality({}) = 0
  BY FS_EmptySet
<1>3. PICK zero \in Nat : zero = 0
  OBVIOUS
<1>4. Max({zero}) = zero
  BY GreatestOf
<1>5. RowAfter(f, zero) = 1 + Cardinality(RowsUpTo(f, zero))
  BY RowsFinite
<1>6. ColumnAfter(f, zero) = zero + 1 - Max(LinesUpTo(f, zero))
  BY LastLine
<1>7. QED
  BY <1>1, <1>2, <1>3, <1>4, <1>5, <1>6

\* A stretch without a line character.
LEMMA SameLine ==
  ASSUME NEW f, NEW m \in Nat, NEW n \in Nat, m <= n,
         \A i \in m + 1 .. n : f[i] \notin LineChars
  PROVE  RowAfter(f, n) = RowAfter(f, m) /\ ColumnAfter(f, n) = ColumnAfter(f, m) + (n - m)
<1>1. RowsUpTo(f, n) = RowsUpTo(f, m)
  <2>1. \A i \in m + 1 .. n : f[i] \notin RowChars
    BY TextAssumption
  <2>2. QED
    BY <2>1 DEF RowsUpTo
<1>2. LinesUpTo(f, n) = LinesUpTo(f, m)
  BY DEF LinesUpTo
<1>3. PICK last : last = Max(LinesUpTo(f, m))
  OBVIOUS
<1>4. ColumnAfter(f, n) = n + 1 - last /\ ColumnAfter(f, m) = m + 1 - last /\ last \in Nat
  BY <1>2, <1>3, LastLine
<1>5. QED
  BY <1>1, <1>4, RowsFinite

LEMMA NextLine ==
  ASSUME NEW f, NEW m \in Nat, NEW n, n = m + 1, f[n] \in LineChars
  PROVE  /\ RowAfter(f, n) = IF f[n] \in RowChars THEN RowAfter(f, m) + 1 ELSE RowAfter(f, m)
         /\ ColumnAfter(f, n) = 1
<1>1. n \in Nat
  OBVIOUS
<1>2. LinesUpTo(f, n) \in SUBSET Nat /\ n \in LinesUpTo(f, n)
      /\ \A i \in LinesUpTo(f, n) : i <= n
  BY DEF LinesUpTo
<1>3. Max(LinesUpTo(f, n)) = n
  BY <1>2, GreatestOf
<1>4. ColumnAfter(f, n) = 1
  BY <1>1, <1>3, LastLine
<1>5. CASE f[n] \in RowChars
  <2>1. PICK S : S = RowsUpTo(f, m)
    OBVIOUS
  <2>2. RowsUpTo(f, n) = S \union {n} /\ n \notin S
    BY <1>5, <2>1 DEF RowsUpTo
  <2>3. IsFiniteSet(S)
    BY <2>1, RowsFinite
  <2>4. Cardinality(S \union {n}) = Cardinality(S) + 1
    BY <2>2, <2>3, FS_AddElement
  <2>5. Cardinality(S) \in Nat
    BY <2>3, FS_CardinalityType
  <2>6. RowAfter(f, n) = 1 + Cardinality(S \union {n}) /\ RowAfter(f, m) = 1 + Cardinality(S)
    BY <1>1, <2>1, <2>2, RowsFinite
  <2>7. QED
    BY <1>4, <1>5, <2>4, <2>5, <2>6
<1>6. CASE f[n] \notin RowChars
  <2>1. RowsUpTo(f, n) = RowsUpTo(f, m)
    BY <1>6 DEF RowsUpTo
  <2>2. RowAfter(f, n) = RowAfter(f, m)
    BY <1>1, <2>1, RowsFinite
  <2>3. QED
    BY <1>4, <1>6, <2>2
<1>7. QED
  BY <1>5, <1>6

-----------------------------------------------------------------------------
(* The invariant.                                                          *)

InputOK ==
  /\ src \in Seq(Nat) /\ opts.quote \in Seq(Nat)
  /\ \A i \in DOMAIN quote : quote[i] \notin LineChars

\* The row and the column are those after the first n bytes.
At(row, col, n) == row = RowAfter(bytes, n) /\ col = ColumnAfter(bytes, n)

\* While it scans, the matcher's own row and column are those of the byte that it
\* looks at.
Inv ==
  /\ InputOK
  /\ answer = Pending => sI \in 1 .. Len(bytes) + 1 /\ At(rI, cI, sI - 1)
  /\ CursorFollows

LEMMA Bytes ==
  ASSUME InputOK
  PROVE  /\ bytes \in Seq(Nat) /\ Len(bytes) \in Nat
         /\ quote \in Seq(Nat) /\ qLen \in Nat /\ DOMAIN quote = 1 .. qLen
<1>1. bytes \in Seq(Nat) /\ quote \in Seq(Nat)
  BY EncodedType DEF InputOK, bytes, quote
<1>2. QED
  BY <1>1, LenProperties DEF qLen

\* No byte of a quote is a line character.
LEMMA QuoteBytes ==
  ASSUME InputOK, NEW i \in Nat, QuoteAt(i), i >= 1
  PROVE  /\ i + qLen - 1 <= Len(bytes)
         /\ \A j \in i .. i + qLen - 1 : bytes[j] \notin LineChars
<1>1. PICK n : n = i + qLen - 1
  OBVIOUS
<1>2. n \in Int /\ n <= Len(bytes) /\ qLen = n - i + 1 /\ qLen \in Nat
  BY <1>1, Bytes DEF QuoteAt, HasByte
<1>3. \A j \in i .. n : bytes[j] \in Nat
  BY <1>2, Bytes, ElementOfSeq, SMTT(30)
<1>4. \A k \in 1 .. n - i + 1 : SubSeq(bytes, i, n)[k] = bytes[i + k - 1]
  BY <1>2, <1>3, SubSeqProperties
<1>5. SubSeq(bytes, i, n) = quote
  BY <1>1 DEF QuoteAt
<1>6. ASSUME NEW j \in i .. n PROVE bytes[j] \notin LineChars
  <2>1. PICK k \in 1 .. qLen : k = j - i + 1
    BY <1>2
  <2>2. bytes[j] = quote[k]
    BY <1>2, <1>4, <1>5, <2>1
  <2>3. QED
    BY <2>1, <2>2, Bytes DEF InputOK
<1>7. QED
  BY <1>1, <1>2, <1>6

LEMMA Kept ==
  ASSUME UNCHANGED given
  PROVE  bytes' = bytes /\ quote' = quote /\ qLen' = qLen /\ InputOK' = InputOK
<1>1. src' = src /\ opts' = opts
  BY DEF given
<1>2. bytes' = bytes /\ quote' = quote
  BY <1>1 DEF bytes, quote
<1>3. QED
  BY <1>1, <1>2 DEF qLen, InputOK

LEMMA InitInv ==
  ASSUME Init
  PROVE  Inv
<1>1. PICK input \in Inputs : src = input.src /\ before = input.before /\ opts = input.opts
  BY DEF Init
<1>2. InputOK
  BY <1>1, TextAssumption, QuoteBytesAssumption DEF Char, InputOK, quote
<1>3. sI = 1 /\ rI = 1 /\ cI = 1 /\ answer = Pending /\ answer.kind = "pending"
  BY DEF Init, qRI, Pending
<1>4. sI \in 1 .. Len(bytes) + 1 /\ sI - 1 = 0
  BY <1>2, <1>3, Bytes
<1>5. At(rI, cI, sI - 1)
  BY <1>3, <1>4, AtTheStart DEF At
<1>6. QED
  BY <1>2, <1>3, <1>4, <1>5 DEF Inv, CursorFollows

\* The loop goes on, n bytes behind it.
LEMMA GoesOn ==
  ASSUME Inv, UNCHANGED <<given, answer>>, answer = Pending,
         NEW n \in Nat, n <= Len(bytes), sI' = n + 1, At(rI', cI', n)
  PROVE  Inv'
<1>1. InputOK' /\ bytes' = bytes /\ Len(bytes) \in Nat
  BY Kept, Bytes DEF Inv
<1>2. answer' = Pending /\ answer'.kind = "pending"
  BY DEF Pending
<1>3. sI' \in 1 .. Len(bytes') + 1 /\ sI' - 1 = n
  BY <1>1
<1>4. rI' = RowAfter(bytes', sI' - 1) /\ cI' = ColumnAfter(bytes', sI' - 1)
  BY <1>1, <1>3 DEF At
<1>5. QED
  BY <1>1, <1>2, <1>3, <1>4 DEF Inv, CursorFollows, At

\* The loop has answered.
LEMMA Answers ==
  ASSUME Inv, UNCHANGED given, NEW end \in Nat, answer' # Pending,
         answer'.kind \in {"field", "unterminated"} =>
           answer'.end = end /\ pnt'.sI = end + 1 /\ At(pnt'.rI, pnt'.cI, end)
  PROVE  Inv'
<1>1. InputOK' /\ bytes' = bytes
  BY Kept DEF Inv
<1>2. CursorFollows'
  BY <1>1 DEF CursorFollows, At
<1>3. QED
  BY <1>1, <1>2 DEF Inv

\* What is known while the loop runs.
LEMMA Here ==
  ASSUME Inv, answer = Pending, NEW m, m = sI - 1
  PROVE  /\ m \in Nat /\ sI = m + 1 /\ m <= Len(bytes) /\ Len(bytes) \in Nat /\ sI \in Nat
         /\ At(rI, cI, m) /\ InputOK /\ RowAfter(bytes, m) \in Nat
<1>1. InputOK /\ sI \in 1 .. Len(bytes) + 1 /\ At(rI, cI, m)
  BY DEF Inv
<1>2. Len(bytes) \in Nat
  BY <1>1, Bytes
<1>3. m \in Nat /\ sI = m + 1 /\ m <= Len(bytes) /\ sI \in Nat
  BY <1>1, <1>2
<1>4. QED
  BY <1>1, <1>2, <1>3, RowsFinite

-----------------------------------------------------------------------------
(* The turns.                                                              *)

\* The loop passes a stretch without a line character.
LEMMA Passes ==
  ASSUME Inv, answer = Pending, NEW n \in Nat, sI <= n + 1, n <= Len(bytes),
         \A i \in sI .. n : bytes[i] \notin LineChars,
         NEW row, row = rI, NEW col, col = cI + (n + 1 - sI)
  PROVE  At(row, col, n)
<1>1. PICK m : m = sI - 1
  OBVIOUS
<1>2. m \in Nat /\ sI = m + 1 /\ At(rI, cI, m)
  BY <1>1, Here
<1>3. m <= n /\ \A i \in m + 1 .. n : bytes[i] \notin LineChars
  BY <1>2
<1>4. RowAfter(bytes, n) = RowAfter(bytes, m) /\ ColumnAfter(bytes, n) = ColumnAfter(bytes, m) + (n - m)
  BY <1>2, <1>3, SameLine
<1>5. n + 1 - sI = n - m
  BY <1>2
<1>6. QED
  BY <1>2, <1>4, <1>5 DEF At

LEMMA OpenInv ==
  ASSUME Inv, Open
  PROVE  Inv'
<1>1. /\ answer = Pending /\ sI = 1 /\ QuoteAt(sI) /\ UNCHANGED <<given, answer>>
      /\ sI' = 1 + qLen /\ cI' = cI + qLen /\ rI' = rI
  BY DEF Open, Opens
<1>2. InputOK /\ qLen \in Nat
  BY Bytes DEF Inv
<1>3. PICK n \in Nat : n = qLen
  BY <1>2
<1>4. n <= Len(bytes) /\ \A i \in sI .. n : bytes[i] \notin LineChars
  <2>1. sI \in Nat /\ sI >= 1 /\ sI + qLen - 1 = n
    BY <1>1, <1>2, <1>3
  <2>2. QED
    BY <1>1, <1>2, <2>1, QuoteBytes
<1>5. sI' = n + 1 /\ cI' = cI + (n + 1 - sI) /\ sI <= n + 1
  BY <1>1, <1>3
<1>6. At(rI', cI', n)
  BY <1>1, <1>3, <1>4, <1>5, Passes
<1>7. QED
  BY <1>1, <1>3, <1>4, <1>5, <1>6, GoesOn

LEMMA EscapedQuoteInv ==
  ASSUME Inv, EscapedQuote
  PROVE  Inv'
<1>1. /\ answer = Pending /\ QuoteAt(sI) /\ QuoteAt(sI + qLen) /\ UNCHANGED <<given, answer>>
      /\ sI' = sI + 2 * qLen /\ cI' = cI + 2 * qLen /\ rI' = rI
  BY DEF EscapedQuote, Scanning
<1>2. InputOK /\ qLen \in Nat /\ sI \in Nat /\ sI >= 1
  BY <1>1, Bytes DEF Inv
<1>3. PICK n \in Nat : n + 1 = sI + 2 * qLen
  <2>1. sI + 2 * qLen - 1 \in Nat
    BY <1>2
  <2>2. QED
    BY <1>2, <2>1
<1>4. \A j \in sI .. sI + qLen - 1 : bytes[j] \notin LineChars
  BY <1>1, <1>2, QuoteBytes
<1>5. n <= Len(bytes) /\ \A j \in sI + qLen .. n : bytes[j] \notin LineChars
  <2>1. PICK i \in Nat : i = sI + qLen /\ i >= 1
    BY <1>2
  <2>2. QuoteAt(i)
    BY <1>1, <2>1
  <2>3. i + qLen - 1 = n
    BY <1>2, <1>3, <2>1
  <2>4. QED
    BY <1>2, <2>1, <2>2, <2>3, QuoteBytes
<1>6. \A i \in sI .. n : bytes[i] \notin LineChars
  BY <1>2, <1>3, <1>4, <1>5
<1>7. sI' = n + 1 /\ cI' = cI + (n + 1 - sI) /\ sI <= n + 1
  BY <1>1, <1>2, <1>3
<1>8. At(rI', cI', n)
  BY <1>1, <1>3, <1>5, <1>6, <1>7, Passes
<1>9. QED
  BY <1>1, <1>3, <1>5, <1>7, <1>8, GoesOn

LEMMA ClosingQuoteInv ==
  ASSUME Inv, ClosingQuote
  PROVE  Inv'
<1>1. /\ answer = Pending /\ QuoteAt(sI) /\ UNCHANGED given
      /\ sI' = sI + qLen /\ cI' = cI + qLen
      /\ pnt' = [sI |-> sI', rI |-> rI, cI |-> cI'] /\ answer' = Answer("field", s, sI' - 1)
  BY DEF ClosingQuote, Scanning
<1>2. InputOK /\ qLen \in Nat /\ sI \in Nat /\ sI >= 1
  BY <1>1, Bytes DEF Inv
<1>3. PICK n \in Nat : n + 1 = sI + qLen
  <2>1. sI + qLen - 1 \in Nat
    BY <1>2
  <2>2. QED
    BY <1>2, <2>1
<1>4. n <= Len(bytes) /\ \A i \in sI .. n : bytes[i] \notin LineChars
  <2>1. sI + qLen - 1 = n
    BY <1>2, <1>3
  <2>2. QED
    BY <1>1, <1>2, <2>1, QuoteBytes
<1>5. cI' = cI + (n + 1 - sI) /\ sI <= n + 1
  BY <1>1, <1>2, <1>3
<1>6. At(rI, cI', n)
  BY <1>1, <1>3, <1>4, <1>5, Passes
<1>7. pnt'.sI = n + 1 /\ pnt'.rI = rI /\ pnt'.cI = cI'
  BY <1>1, <1>3
<1>8. answer'.end = n /\ answer' # Pending
  BY <1>1, <1>3 DEF Answer, Pending
<1>9. QED
  BY <1>1, <1>3, <1>6, <1>7, <1>8, Answers

LEMMA LineCharInv ==
  ASSUME Inv, LineChar
  PROVE  Inv'
<1>1. /\ answer = Pending /\ HasByte(sI) /\ bytes[sI] \in LineChars
      /\ UNCHANGED <<given, answer>>
      /\ rI' = (IF bytes[sI] \in RowChars THEN rI + 1 ELSE rI) /\ cI' = 1 /\ sI' = sI + 1
  BY DEF LineChar, InBody, Scanning
<1>2. PICK m : m = sI - 1
  OBVIOUS
<1>3. PICK n \in Nat : n = sI /\ n = m + 1 /\ m \in Nat /\ At(rI, cI, m)
  BY <1>1, <1>2, Here
<1>4. bytes[n] \in LineChars /\ n <= Len(bytes)
  BY <1>1, <1>3 DEF HasByte
<1>5. /\ RowAfter(bytes, n) = IF bytes[n] \in RowChars THEN RowAfter(bytes, m) + 1
                                                       ELSE RowAfter(bytes, m)
      /\ ColumnAfter(bytes, n) = 1
  BY <1>3, <1>4, NextLine
<1>6. At(rI', cI', n)
  BY <1>1, <1>3, <1>5 DEF At
<1>7. QED
  BY <1>1, <1>3, <1>4, <1>6, GoesOn

LEMMA ControlKeptInv ==
  ASSUME Inv, ControlKept
  PROVE  Inv'
<1>1. /\ answer = Pending /\ HasByte(sI) /\ bytes[sI] \notin LineChars
      /\ UNCHANGED <<given, answer>> /\ rI' = rI /\ cI' = cI + 1 /\ sI' = sI + 1
  BY DEF ControlKept, InBody, Scanning
<1>2. PICK m : m = sI - 1
  OBVIOUS
<1>3. PICK n \in Nat : n = sI
  BY <1>1, <1>2, Here
<1>4. n <= Len(bytes) /\ \A i \in sI .. n : bytes[i] \notin LineChars
  BY <1>1, <1>3 DEF HasByte
<1>5. n + 1 - sI = 1 /\ sI <= n + 1
  BY <1>3
<1>6. At(rI', cI', n)
  BY <1>1, <1>4, <1>5, Passes
<1>7. QED
  BY <1>1, <1>3, <1>4, <1>6, GoesOn

\* Where the inner loop stops, and what it has run over.
LEMMA StopsAt ==
  ASSUME Inv, InBody
  PROVE  /\ BodyStop \in sI .. Len(bytes) + 1
         /\ \A i \in sI .. BodyStop - 1 :
               bytes[i] \notin LineChars /\ ~IsControl(bytes[i]) /\ bytes[i] # quote[1]
<1> DEFINE stops == {i \in sI .. Len(bytes) :
                       IsControl(bytes[i]) \/ bytes[i] = quote[1] \/ bytes[i] \in LineChars}
                    \union {Len(bytes) + 1}
<1>1. answer = Pending /\ sI <= Len(bytes)
  BY DEF InBody, Scanning, HasByte
<1>2. Len(bytes) \in Nat /\ sI \in Nat
  BY <1>1, Bytes DEF Inv
<1>3. stops \in SUBSET Nat /\ stops # {}
  BY <1>2
<1>4. PICK m \in stops : \A y \in stops : m <= y
  BY <1>3, Least
<1>5. BodyStop = m
  BY <1>3, <1>4, LeastOf DEF BodyStop
<1>6. QED
  BY <1>1, <1>2, <1>4, <1>5

LEMMA BodyInv ==
  ASSUME Inv, Body
  PROVE  Inv'
<1>1. /\ answer = Pending /\ InBody /\ UNCHANGED <<given, answer>>
      /\ rI' = rI /\ cI' = cI + (BodyStop - sI) /\ sI' = BodyStop
  BY DEF Body, InBody, Scanning
<1>2. PICK m : m = sI - 1
  OBVIOUS
<1>3. Len(bytes) \in Nat /\ sI \in Nat /\ sI = m + 1 /\ m \in Nat
  BY <1>1, <1>2, Here
<1>4. PICK n : n = BodyStop - 1
  OBVIOUS
<1>5. BodyStop = n + 1 /\ n \in Nat /\ sI <= n + 1 /\ n <= Len(bytes)
      /\ \A i \in sI .. n : bytes[i] \notin LineChars
  BY <1>1, <1>3, <1>4, StopsAt
<1>6. sI' = n + 1 /\ cI' = cI + (n + 1 - sI)
  <2>1. PICK stop : stop = BodyStop
    OBVIOUS
  <2>2. sI' = stop /\ cI' = cI + (stop - sI) /\ stop = n + 1
    BY <1>1, <1>5, <2>1
  <2>3. stop - sI = n + 1 - sI
    <3>1. n \in Nat /\ sI \in Nat
      BY <1>3, <1>5
    <3>2. QED
      BY <2>2, <3>1
  <2>4. QED
    BY <2>2, <2>3
<1>7. At(rI', cI', n)
  BY <1>1, <1>5, <1>6, Passes
<1>8. QED
  BY <1>1, <1>5, <1>6, <1>7, GoesOn

LEMMA ExhaustedInv ==
  ASSUME Inv, Exhausted
  PROVE  Inv'
<1>1. /\ answer = Pending /\ ~HasByte(sI) /\ UNCHANGED given
      /\ pnt' = [sI |-> sI, rI |-> rI, cI |-> cI]
      /\ answer' = Answer("unterminated", <<>>, Len(bytes))
  BY DEF Exhausted, Scanning
<1>2. PICK m : m = sI - 1
  OBVIOUS
<1>3. m \in Nat /\ sI = m + 1 /\ m <= Len(bytes) /\ Len(bytes) \in Nat /\ At(rI, cI, m)
  BY <1>1, <1>2, Here
<1>4. m = Len(bytes)
  BY <1>1, <1>3 DEF HasByte
<1>5. pnt'.sI = m + 1 /\ pnt'.rI = rI /\ pnt'.cI = cI
  BY <1>1, <1>3
<1>6. answer'.end = m /\ answer' # Pending
  BY <1>1, <1>4 DEF Answer, Pending
<1>7. QED
  BY <1>1, <1>3, <1>5, <1>6, Answers

\* The matcher leaves the quote to others.
LEMMA UnreadInv ==
  ASSUME Inv, UNCHANGED given, answer' = Unread
  PROVE  Inv'
<1>1. answer' # Pending /\ answer'.kind = "none"
  BY DEF Unread, Answer, Pending
<1>2. PICK end \in Nat : TRUE
  OBVIOUS
<1>3. QED
  BY <1>1, Answers

LEMMA StepInv ==
  ASSUME Inv, [Next]_vars
  PROVE  Inv'
<1>1. CASE Decline
  BY <1>1, UnreadInv DEF Decline
<1>2. CASE Open
  BY <1>2, OpenInv
<1>3. CASE EscapedQuote
  BY <1>3, EscapedQuoteInv
<1>4. CASE ClosingQuote
  BY <1>4, ClosingQuoteInv
<1>5. CASE LineChar
  BY <1>5, LineCharInv
<1>6. CASE ControlKept
  BY <1>6, ControlKeptInv
<1>7. CASE ControlRefused
  BY <1>7, UnreadInv DEF ControlRefused
<1>8. CASE Body
  BY <1>8, BodyInv
<1>9. CASE Exhausted
  BY <1>9, ExhaustedInv
<1>10. CASE UNCHANGED vars
  <2>1. UNCHANGED given /\ bytes' = bytes /\ InputOK' = InputOK
    BY <1>10, Kept DEF vars, given
  <2>2. UNCHANGED <<sI, rI, cI, pnt, answer>>
    BY <1>10 DEF vars
  <2>3. QED
    BY <2>1, <2>2 DEF Inv, At, CursorFollows
<1>11. QED
  BY <1>1, <1>2, <1>3, <1>4, <1>5, <1>6, <1>7, <1>8, <1>9, <1>10 DEF Next, Turn, Answered

\* Wherever the Go matcher has read a field, or has found it without an end,
\* and whatever quotes, line ends and control characters the source holds: the
\* row and the column it leaves the lexer at are those of the byte behind it,
\* with a quote of one byte or of several (csv.go:817-888).
THEOREM CursorIsRight == Spec => []CursorFollows
<1>1. Init => Inv
  BY InitInv
<1>2. Inv /\ [Next]_vars => Inv'
  BY StepInv
<1>3. Inv => CursorFollows
  BY DEF Inv
<1>4. QED
  BY <1>1, <1>2, <1>3, PTL DEF Spec

-----------------------------------------------------------------------------
(* The bytes of a character.                                               *)

Continues(b) == b \in Nat /\ 128 <= b /\ b <= 191

\* What a character's later bytes bring.
Bits(c, b) == c * 64 + b - 128

\* The code point that the first byte of a character begins.
First(b) == IF b < 128 THEN b ELSE IF b < 224 THEN b - 192 ELSE b - 224

\* A character is written in one byte, in two or in three; its first byte tells
\* how many, and the bytes together tell the character.
OneByte(c)    == c < 128 /\ Utf8(c) = <<c>>
TwoBytes(c)   == \E a \in Nat, b \in 0 .. 63 :
                   /\ a < 32 /\ c = a * 64 + b /\ c >= 128 /\ Utf8(c) = <<192 + a, 128 + b>>
ThreeBytes(c) == \E a \in Nat, b \in 0 .. 63, d \in 0 .. 63 :
                   /\ c = (a * 64 + b) * 64 + d /\ Utf8(c) = <<224 + a, 128 + b, 128 + d>>

\* Every character is written in one of the three ways.
LEMMA Shape ==
  ASSUME NEW c \in Nat
  PROVE  OneByte(c) \/ TwoBytes(c) \/ (c >= 2048 /\ ThreeBytes(c))
<1>1. PICK x \in Nat : x = c \div 64
  OBVIOUS
<1>2. PICK y \in 0 .. 63 : y = c % 64
  OBVIOUS
<1>3. c = x * 64 + y
  BY <1>1, <1>2
<1>4. CASE c < 128
  BY <1>4 DEF OneByte, Utf8
<1>5. CASE c >= 128 /\ c < 2048
  <2>1. x < 32
    BY <1>3, <1>5
  <2>2. Utf8(c) = <<192 + x, 128 + y>>
    BY <1>1, <1>2, <1>5 DEF Utf8
  <2>3. QED
    BY <1>3, <1>5, <2>1, <2>2 DEF TwoBytes
<1>6. CASE c >= 2048
  <2>1. PICK a \in Nat : a = c \div 4096
    OBVIOUS
  <2>2. PICK b \in 0 .. 63 : b = x % 64
    OBVIOUS
  <2>3. x = a * 64 + b
    <3>1. PICK u \in Nat : u = x \div 64
      OBVIOUS
    <3>2. x = u * 64 + b
      BY <2>2, <3>1
    <3>3. a = u
      BY <1>3, <2>1, <3>2
    <3>4. QED
      BY <3>2, <3>3
  <2>4. Utf8(c) = <<224 + a, 128 + b, 128 + y>>
    BY <1>1, <1>2, <1>6, <2>1, <2>2 DEF Utf8
  <2>5. c = (a * 64 + b) * 64 + y
    BY <1>3, <2>3
  <2>6. ThreeBytes(c)
    BY <2>4, <2>5, ZenonT(30) DEF ThreeBytes
  <2>7. QED
    BY <1>6, <2>6
<1>7. QED
  BY <1>4, <1>5, <1>6

\* How many bytes a first byte announces.
Width(b) == IF b < 128 THEN 1 ELSE IF b < 224 THEN 2 ELSE 3

\* The character that the bytes u are.
Tells(u, c) ==
  \/ Len(u) = 1 /\ u[1] < 128 /\ c = u[1]
  \/ Len(u) = 2 /\ Continues(u[2]) /\ c = Bits(First(u[1]), u[2])
  \/ Len(u) = 3 /\ Continues(u[2]) /\ Continues(u[3]) /\ c = Bits(Bits(First(u[1]), u[2]), u[3])

\* What the bytes of a character are.
LEMMA Utf8Is ==
  ASSUME NEW c \in Nat, NEW u, u = Utf8(c)
  PROVE  /\ u \in Seq(Nat) /\ Len(u) \in Nat /\ 1 <= Len(u) /\ Len(u) <= 3
         /\ u[1] \in Nat /\ ~Continues(u[1]) /\ Len(u) = Width(u[1])
         /\ \A k \in 2 .. Len(u) : Continues(u[k])
         /\ Len(u) = 1 => u[1] = c
         /\ Len(u) # 1 => c >= 128
         /\ Tells(u, c)
<1>1. CASE OneByte(c)
  BY <1>1 DEF OneByte, Continues, Width, Tells
<1>2. CASE TwoBytes(c)
  <2>1. PICK a \in Nat, b \in 0 .. 63 :
          a < 32 /\ c = a * 64 + b /\ c >= 128 /\ u = <<192 + a, 128 + b>>
    BY <1>2 DEF TwoBytes
  <2>2. PICK x \in Nat, y \in Nat : x = 192 + a /\ y = 128 + b
    OBVIOUS
  <2>3. u = <<x, y>> /\ x >= 192 /\ x < 224 /\ y \in 128 .. 191
    BY <2>1, <2>2
  <2>4. u \in Seq(Nat) /\ Len(u) = 2 /\ u[1] = x /\ u[2] = y /\ Continues(y)
    BY <2>3 DEF Continues
  <2>5. c = Bits(First(x), y)
    BY <2>1, <2>2, <2>3 DEF Bits, First
  <2>6. ~Continues(x) /\ Width(x) = 2
    BY <2>3 DEF Continues, Width
  <2>7. \A k \in 2 .. Len(u) : Continues(u[k])
    <3>1. SUFFICES ASSUME NEW k \in 2 .. Len(u) PROVE Continues(u[k])
      OBVIOUS
    <3>2. k = 2
      BY <2>4
    <3>3. QED
      BY <2>4, <3>2
  <2>8. Tells(u, c)
    BY <2>4, <2>5 DEF Tells
  <2>9. Len(u) \in Nat /\ 1 <= Len(u) /\ Len(u) <= 3 /\ Len(u) # 1
    BY <2>4
  <2>10. u[1] \in Nat /\ ~Continues(u[1]) /\ Len(u) = Width(u[1])
    BY <2>4, <2>6
  <2>11. QED
    BY <2>1, <2>4, <2>7, <2>8, <2>9, <2>10
<1>3. CASE c >= 2048 /\ ThreeBytes(c)
  <2>1. PICK a \in Nat, b \in 0 .. 63, d \in 0 .. 63 :
          c = (a * 64 + b) * 64 + d /\ u = <<224 + a, 128 + b, 128 + d>>
    <3>1. ThreeBytes(c)
      BY <1>3
    <3>2. QED
      BY <3>1, ZenonT(30) DEF ThreeBytes
  <2>2. PICK x \in Nat, y \in Nat, z \in Nat : x = 224 + a /\ y = 128 + b /\ z = 128 + d
    OBVIOUS
  <2>3. u = <<x, y, z>> /\ x >= 224 /\ y \in 128 .. 191 /\ z \in 128 .. 191
    BY <2>1, <2>2
  <2>4. u \in Seq(Nat) /\ Len(u) = 3 /\ u[1] = x /\ u[2] = y /\ u[3] = z
        /\ Continues(y) /\ Continues(z)
    BY <2>3 DEF Continues
  <2>5. c = Bits(Bits(First(x), y), z)
    BY <2>1, <2>2, <2>3 DEF Bits, First
  <2>6. ~Continues(x) /\ Width(x) = 3
    BY <2>3 DEF Continues, Width
  <2>7. \A k \in 2 .. Len(u) : Continues(u[k])
    <3>1. SUFFICES ASSUME NEW k \in 2 .. Len(u) PROVE Continues(u[k])
      OBVIOUS
    <3>2. k = 2 \/ k = 3
      BY <2>4
    <3>3. QED
      BY <2>4, <3>2
  <2>8. Tells(u, c)
    BY <2>4, <2>5 DEF Tells
  <2>9. c >= 128
    BY <1>3
  <2>10. QED
    BY <2>4, <2>6, <2>7, <2>8, <2>9
<1>4. QED
  BY <1>1, <1>2, <1>3, Shape

\* Two characters that begin with the same byte and go on with the same bytes are one.
LEMMA Utf8Tells ==
  ASSUME NEW c \in Nat, NEW d \in Nat, Utf8(c) = Utf8(d)
  PROVE  c = d
<1>1. PICK u : u = Utf8(c) /\ u = Utf8(d)
  OBVIOUS
<1>2. Tells(u, c) /\ Tells(u, d)
  BY <1>1, Utf8Is
<1>3. QED
  BY <1>2 DEF Tells

\* The bytes of the first texts are the same, whatever follows them.
LEMMA FlattenSame ==
  ASSUME NEW f, NEW g, NEW fs, NEW gs, NEW n \in Nat, NEW k \in Nat, n <= k,
         IsFlatten(f, fs, n), IsFlatten(g, gs, k), \A i \in 1 .. n : fs[i] = gs[i]
  PROVE  \A i \in 1 .. n : f[i] = g[i]
<1> DEFINE T == {i \in Nat : i \in 1 .. n /\ f[i] # g[i]}
<1>1. SUFFICES ASSUME T # {} PROVE FALSE
  OBVIOUS
<1>2. PICK i \in T : \A y \in T : i <= y
  <2>1. T \in SUBSET Nat
    OBVIOUS
  <2> HIDE DEF T
  <2>2. QED
    BY <1>1, <2>1, Least
<1>3. i \in 1 .. n /\ i \in 1 .. k /\ f[i] # g[i] /\ fs[i] = gs[i]
  OBVIOUS
<1>4. /\ f[i] = IF i = 1 THEN fs[i] ELSE f[i - 1] \o fs[i]
      /\ g[i] = IF i = 1 THEN gs[i] ELSE g[i - 1] \o gs[i]
  BY <1>3 DEF IsFlatten
<1>5. i # 1
  BY <1>3, <1>4
<1>6. PICK j \in Nat : j = i - 1 /\ j \in 1 .. n /\ ~(i <= j)
  BY <1>3, <1>5
<1>7. f[j] = g[j]
  BY <1>2, <1>6
<1>8. QED
  BY <1>3, <1>4, <1>5, <1>6, <1>7

LEMMA EncodedEmpty == Encoded(<<>>) = <<>>
<1>1. PICK e : e = [i \in DOMAIN <<>> |-> Utf8(<<>>[i])]
  OBVIOUS
<1>2. e = <<>> /\ Len(e) = 0
  BY <1>1
<1>3. QED
  BY <1>1, <1>2 DEF Encoded, FlattenSeq

\* One character more.
LEMMA EncodedOn ==
  ASSUME NEW x \in Seq(Nat), NEW c \in Nat
  PROVE  Encoded(Append(x, c)) = Encoded(x) \o Utf8(c)
<1>1. PICK n \in Nat : n = Len(x)
  BY LenProperties
<1>2. PICK y \in Seq(Nat) : y = Append(x, c)
  BY AppendProperties
<1>3. /\ DOMAIN x = 1 .. n /\ DOMAIN y = 1 .. n + 1 /\ y[n + 1] = c
      /\ \A i \in 1 .. n : y[i] = x[i]
  BY <1>1, <1>2, AppendProperties, LenProperties
<1>4. PICK fs : fs = [i \in 1 .. n |-> Utf8(x[i])]
  OBVIOUS
<1>5. PICK gs : gs = [i \in 1 .. n + 1 |-> Utf8(y[i])]
  OBVIOUS
<1>6. fs \in [1 .. n -> Seq(Nat)] /\ gs \in [1 .. n + 1 -> Seq(Nat)]
  <2>1. \A i \in 1 .. n : Utf8(x[i]) \in Seq(Nat)
    BY <1>1, <1>3, ElementOfSeq, Utf8Type
  <2>2. \A i \in 1 .. n + 1 : y[i] \in Nat
    BY <1>2, <1>3, ElementOfSeq
  <2>3. \A i \in 1 .. n + 1 : Utf8(y[i]) \in Seq(Nat)
    BY <2>2, Utf8Type
  <2>4. QED
    BY <1>4, <1>5, <2>1, <2>3
<1>7. Len(fs) = n /\ Len(gs) = n + 1 /\ gs[n + 1] = Utf8(c)
  <2>1. Len(fs) = n
    BY <1>6, IsSeq
  <2>2. Len(gs) = n + 1
    BY <1>6, IsSeq
  <2>3. gs[n + 1] = Utf8(c)
    BY <1>3, <1>5
  <2>4. QED
    BY <2>1, <2>2, <2>3
<1>8. Encoded(x) = FlattenSeq(fs) /\ Encoded(y) = FlattenSeq(gs)
  BY <1>3, <1>4, <1>5 DEF Encoded
<1>9. PICK k \in Nat : k = n + 1 /\ k # 0
  OBVIOUS
<1>10. PICK g : IsFlatten(g, gs, k) /\ FlattenSeq(gs) = g[k]
  BY <1>7, <1>9, FlattenIs
<1>11. g[k] = IF k = 1 THEN gs[k] ELSE g[k - 1] \o gs[k]
  <2>1. k \in 1 .. k
    BY <1>9
  <2>2. QED
    BY <1>10, <2>1 DEF IsFlatten
<1>12. CASE n = 0
  <2>1. x = <<>>
    BY <1>1, <1>12, EmptySeq
  <2>2. Encoded(y) = Utf8(c)
    BY <1>7, <1>8, <1>9, <1>10, <1>11, <1>12
  <2>3. PICK u \in Seq(Nat) : u = Utf8(c)
    BY Utf8Type
  <2>4. <<>> \o u = u
    OBVIOUS
  <2>5. QED
    BY <1>2, <2>1, <2>2, <2>3, <2>4, EncodedEmpty
<1>13. CASE n # 0
  <2>1. PICK f : IsFlatten(f, fs, n) /\ FlattenSeq(fs) = f[n]
    BY <1>7, <1>13, FlattenIs
  <2>2. \A i \in 1 .. n : fs[i] = gs[i]
    BY <1>3, <1>4, <1>5
  <2>3. \A i \in 1 .. n : f[i] = g[i]
    BY <1>9, <1>10, <2>1, <2>2, FlattenSame
  <2>4. f[n] = g[n] /\ k - 1 = n /\ k # 1
    BY <1>9, <1>13, <2>3
  <2>5. QED
    BY <1>2, <1>7, <1>8, <1>9, <1>10, <1>11, <2>1, <2>4
<1>14. QED
  BY <1>12, <1>13

-----------------------------------------------------------------------------
(* The bytes of the first m characters.                                    *)

\* The bytes of the first m characters of x, and their number.
UpTo(x, m) == Encoded(SubSeq(x, 1, m))
Off(x, m)  == Len(UpTo(x, m))

LEMMA UpToType ==
  ASSUME NEW x \in Seq(Nat), NEW m \in Nat, m <= Len(x)
  PROVE  UpTo(x, m) \in Seq(Nat) /\ Off(x, m) \in Nat
<1>1. SubSeq(x, 1, m) \in Seq(Nat)
  <2>1. \A i \in 1 .. m : x[i] \in Nat
    BY LenProperties, ElementOfSeq
  <2>2. QED
    BY <2>1, SubSeqProperties
<1>2. UpTo(x, m) \in Seq(Nat)
  BY <1>1, EncodedType DEF UpTo
<1>3. QED
  BY <1>2, LenProperties DEF Off

LEMMA UpToStart ==
  ASSUME NEW x \in Seq(Nat)
  PROVE  UpTo(x, 0) = <<>> /\ Off(x, 0) = 0
<1>1. SubSeq(x, 1, 0) = <<>>
  OBVIOUS
<1>2. UpTo(x, 0) = <<>>
  BY <1>1, EncodedEmpty DEF UpTo
<1>3. QED
  BY <1>2 DEF Off

LEMMA UpToEnd ==
  ASSUME NEW x \in Seq(Nat)
  PROVE  UpTo(x, Len(x)) = Encoded(x) /\ Off(x, Len(x)) = Len(Encoded(x))
<1>1. SubSeq(x, 1, Len(x)) = x
  OBVIOUS
<1>2. QED
  BY <1>1 DEF UpTo, Off

\* One character more brings its bytes.
LEMMA UpToNext ==
  ASSUME NEW x \in Seq(Nat), NEW m \in Nat, NEW n \in Nat, n = m + 1, n <= Len(x)
  PROVE  /\ x[n] \in Nat /\ UpTo(x, n) = UpTo(x, m) \o Utf8(x[n])
         /\ Off(x, n) = Off(x, m) + Len(Utf8(x[n]))
<1>1. Len(x) \in Nat /\ \A i \in 1 .. Len(x) : x[i] \in Nat
  BY LenProperties, ElementOfSeq
<1>2. x[n] \in Nat
  BY <1>1
<1>3. PICK y \in Seq(Nat) : y = SubSeq(x, 1, m) /\ SubSeq(x, 1, n) = Append(y, x[n])
  <2>1. SubSeq(x, 1, m) \in Seq(Nat)
    BY <1>1, SubSeqProperties
  <2>2. SubSeq(x, 1, m + 1) = Append(SubSeq(x, 1, m), x[m + 1])
    BY <1>1
  <2>3. QED
    BY <2>1, <2>2
<1>4. Encoded(Append(y, x[n])) = Encoded(y) \o Utf8(x[n])
  BY <1>2, EncodedOn
<1>5. UpTo(x, n) = UpTo(x, m) \o Utf8(x[n])
  BY <1>3, <1>4 DEF UpTo
<1>6. UpTo(x, m) \in Seq(Nat) /\ Utf8(x[n]) \in Seq(Nat)
  <2>1. m <= Len(x)
    BY <1>1
  <2>2. UpTo(x, m) \in Seq(Nat)
    BY <2>1, UpToType
  <2>3. QED
    BY <1>2, <2>2, Utf8Type
<1>7. QED
  BY <1>2, <1>5, <1>6, ConcatProperties DEF Off

\* The first bytes are the same, whatever follows them.
LEMMA UpToSame ==
  ASSUME NEW x \in Seq(Nat), NEW m \in Nat, NEW n \in Nat, m <= n, n <= Len(x)
  PROVE  /\ Off(x, m) <= Off(x, n)
         /\ \A j \in 1 .. Off(x, m) : UpTo(x, n)[j] = UpTo(x, m)[j]
<1> DEFINE Same(k) == /\ Off(x, m) <= Off(x, k)
                      /\ \A j \in 1 .. Off(x, m) : UpTo(x, k)[j] = UpTo(x, m)[j]
           T == {k \in Nat : m <= k /\ k <= Len(x) /\ ~Same(k)}
<1>1. SUFFICES ASSUME T # {} PROVE FALSE
  OBVIOUS
<1>2. PICK k \in T : \A y \in T : k <= y
  <2>1. T \in SUBSET Nat
    OBVIOUS
  <2> HIDE DEF T
  <2>2. QED
    BY <1>1, <2>1, Least
<1>3. k \in Nat /\ m <= k /\ k <= Len(x) /\ Len(x) \in Nat /\ Off(x, m) \in Nat
  <2>1. k \in Nat /\ m <= k /\ k <= Len(x) /\ Len(x) \in Nat
    BY LenProperties
  <2>2. m <= Len(x)
    BY <2>1
  <2>3. Off(x, m) \in Nat
    BY <2>2, UpToType
  <2>4. QED
    BY <2>1, <2>3
<1>4. k # m
  BY <1>3
<1>5. PICK i \in Nat : k = i + 1 /\ m <= i /\ i <= Len(x) /\ ~(k <= i)
  <2>1. k - 1 \in Nat /\ k = (k - 1) + 1
    BY <1>3, <1>4
  <2>2. QED
    BY <1>3, <1>4, <2>1
<1>6. Same(i)
  BY <1>2, <1>5
<1>7. /\ UpTo(x, i) \in Seq(Nat) /\ Off(x, i) \in Nat /\ x[k] \in Nat
      /\ UpTo(x, k) = UpTo(x, i) \o Utf8(x[k]) /\ Off(x, k) = Off(x, i) + Len(Utf8(x[k]))
  BY <1>3, <1>5, UpToType, UpToNext
<1>8. PICK a \in Seq(Nat), b \in Seq(Nat) : a = UpTo(x, i) /\ b = Utf8(x[k])
  BY <1>7, Utf8Type
<1>9. Len(b) \in Nat /\ Len(a) \in Nat /\ \A j \in 1 .. Len(a) : (a \o b)[j] = a[j]
  BY LenProperties, ConcatProperties
<1>10. Off(x, i) = Len(a)
  BY <1>8 DEF Off
<1>11. Same(k)
  <2>1. Off(x, m) <= Off(x, k)
    BY <1>3, <1>6, <1>7, <1>8, <1>9
  <2>2. \A j \in 1 .. Off(x, m) : UpTo(x, k)[j] = UpTo(x, m)[j]
    <3>1. SUFFICES ASSUME NEW j \in 1 .. Off(x, m) PROVE UpTo(x, k)[j] = UpTo(x, m)[j]
      OBVIOUS
    <3>2. j \in 1 .. Len(a)
      BY <1>3, <1>6, <1>7, <1>10
    <3>3. a[j] = UpTo(x, m)[j]
      BY <1>6, <1>8
    <3>4. QED
      BY <1>7, <1>8, <1>9, <3>2, <3>3
  <2>3. QED
    BY <2>1, <2>2
<1>12. QED
  BY <1>11

\* Where the bytes of a character stand.
LEMMA ByteOf ==
  ASSUME NEW x \in Seq(Nat), NEW m \in Nat, NEW n \in Nat, n = m + 1, n <= Len(x),
         NEW k \in Nat, 1 <= k, k <= Len(Utf8(x[n]))
  PROVE  /\ Off(x, m) + k <= Len(Encoded(x)) /\ Off(x, m) + k \in Nat
         /\ Encoded(x)[Off(x, m) + k] = Utf8(x[n])[k]
<1>1. /\ Off(x, m) \in Nat /\ UpTo(x, m) \in Seq(Nat) /\ x[n] \in Nat
      /\ UpTo(x, n) = UpTo(x, m) \o Utf8(x[n]) /\ Off(x, n) = Off(x, m) + Len(Utf8(x[n]))
  <2>1. Len(x) \in Nat
    BY LenProperties
  <2>2. m <= Len(x)
    BY <2>1
  <2>3. Off(x, m) \in Nat /\ UpTo(x, m) \in Seq(Nat)
    BY <2>2, UpToType
  <2>4. QED
    BY <2>3, UpToNext
<1>2. PICK a \in Seq(Nat), b \in Seq(Nat) : a = UpTo(x, m) /\ b = Utf8(x[n])
  BY <1>1, Utf8Type
<1>3. PICK p \in Nat : p = Off(x, m) + k
  BY <1>1
<1>4. Len(b) \in Nat /\ Len(a) = Off(x, m)
  BY <1>2, LenProperties DEF Off
<1>5. p \in Len(a) + 1 .. Len(a) + Len(b) /\ p - Len(a) = k
  <2>1. PICK h \in Nat, w \in Nat : h = Len(a) /\ w = Len(b)
    BY <1>1, <1>4
  <2>2. p = h + k /\ 1 <= k /\ k <= w
    BY <1>2, <1>3, <1>4, <2>1
  <2>3. QED
    BY <2>1, <2>2
<1>6. (a \o b)[p] = b[k]
  BY <1>5, ConcatProperties
<1>7. Len(x) \in Nat /\ UpTo(x, Len(x)) = Encoded(x) /\ Off(x, Len(x)) = Len(Encoded(x))
  BY UpToEnd, LenProperties
<1>8. /\ Off(x, n) <= Off(x, Len(x))
      /\ \A j \in 1 .. Off(x, n) : UpTo(x, Len(x))[j] = UpTo(x, n)[j]
  BY <1>7, UpToSame
<1>9. p \in 1 .. Off(x, n) /\ Off(x, Len(x)) \in Nat
  <2>1. Off(x, Len(x)) \in Nat
    BY <1>7, UpToType
  <2>2. PICK h \in Nat, w \in Nat : h = Off(x, m) /\ w = Len(b) /\ Off(x, n) = h + w
    BY <1>1, <1>2, <1>4
  <2>3. p = h + k /\ 1 <= k /\ k <= w
    BY <1>2, <1>3, <2>2
  <2>4. p \in 1 .. h + w
    BY <2>3
  <2>5. QED
    BY <2>1, <2>2, <2>4
<1>10. Encoded(x)[p] = b[k]
  BY <1>1, <1>2, <1>6, <1>7, <1>8, <1>9
<1>11. p <= Len(Encoded(x))
  <2>1. Off(x, n) \in Nat
    BY UpToType
  <2>2. QED
    BY <1>7, <1>8, <1>9, <2>1
<1>12. QED
  BY <1>2, <1>3, <1>10, <1>11

-----------------------------------------------------------------------------
(* Reading the bytes back.                                                 *)

\* A text, and one byte more of it.
Grown(t, b) == [t EXCEPT ![Len(t)] = @ * 64 + b - 128]
Taken(t, b) ==
  IF b < 128 THEN Append(t, b)
  ELSE IF b < 192 THEN Grown(t, b)
  ELSE Append(t, IF b < 224 THEN b - 192 ELSE b - 224)

\* The function Decoded is defined by.
IsDecode(f, bs, n) ==
  /\ DOMAIN f = 0 .. n /\ f = [i \in 0 .. n |-> f[i]]
  /\ \A i \in 0 .. n : f[i] = IF i = 0 THEN <<>> ELSE Taken(f[i - 1], bs[i])

\* There is such a function.
LEMMA DecodeExists ==
  ASSUME NEW bs, NEW n \in Nat
  PROVE  \E f : IsDecode(f, bs, n)
<1> DEFINE T == {k \in Nat : ~ \E f : IsDecode(f, bs, k)}
<1>1. SUFFICES T = {}
  OBVIOUS
<1>2. SUFFICES ASSUME T # {} PROVE FALSE
  OBVIOUS
<1>3. PICK k \in T : \A y \in T : k <= y
  BY <1>2, Least
<1>4. k # 0
  <2>1. PICK e : e = [i \in 0 .. 0 |-> <<>>]
    OBVIOUS
  <2>2. IsDecode(e, bs, 0)
    BY <2>1 DEF IsDecode
  <2>3. QED
    BY <2>2
<1>5. PICK j \in Nat : k = j + 1
  BY <1>4
<1>6. PICK f : IsDecode(f, bs, j)
  BY <1>3, <1>5
<1>7. PICK g : g = [i \in 0 .. k |-> IF i = 0 THEN <<>> ELSE Taken(f[i - 1], bs[i])]
  OBVIOUS
<1>8. \A i \in 0 .. j : g[i] = f[i]
  <2>1. SUFFICES ASSUME NEW i \in 0 .. j PROVE g[i] = f[i]
    OBVIOUS
  <2>2. i \in 0 .. k
    BY <1>5
  <2>3. g[i] = IF i = 0 THEN <<>> ELSE Taken(f[i - 1], bs[i])
    BY <1>7, <2>2
  <2>4. f[i] = IF i = 0 THEN <<>> ELSE Taken(f[i - 1], bs[i])
    BY <1>6 DEF IsDecode
  <2>5. QED
    BY <2>3, <2>4
<1>9. IsDecode(g, bs, k)
  <2>1. \A i \in 0 .. k : i # 0 => g[i - 1] = f[i - 1]
    BY <1>5, <1>8
  <2>2. \A i \in 0 .. k : g[i] = IF i = 0 THEN <<>> ELSE Taken(f[i - 1], bs[i])
    BY <1>7
  <2>3. DOMAIN g = 0 .. k /\ g = [i \in 0 .. k |-> g[i]]
    BY <1>7
  <2>4. QED
    BY <2>1, <2>2, <2>3 DEF IsDecode
<1>10. QED
  BY <1>9

\* It is the one Decoded reads the text from.
LEMMA DecodeIs ==
  ASSUME NEW bs, NEW n \in Nat, n = Len(bs)
  PROVE  \E f : IsDecode(f, bs, n) /\ Decoded(bs) = f[n]
<1> DEFINE body(f) == [i \in 0 .. Len(bs) |->
                         IF i = 0 THEN <<>>
                         ELSE IF bs[i] < 128 THEN Append(f[i - 1], bs[i])
                         ELSE IF bs[i] < 192
                           THEN [f[i - 1] EXCEPT ![Len(f[i - 1])] = @ * 64 + bs[i] - 128]
                         ELSE Append(f[i - 1], IF bs[i] < 224 THEN bs[i] - 192 ELSE bs[i] - 224)]
<1>1. PICK g : IsDecode(g, bs, n)
  BY DecodeExists
<1>2. \A f : IsDecode(f, bs, n) <=> f = body(f)
  <2>1. SUFFICES ASSUME NEW f PROVE IsDecode(f, bs, n) <=> f = body(f)
    OBVIOUS
  <2>2. body(f) = [i \in 0 .. n |-> IF i = 0 THEN <<>> ELSE Taken(f[i - 1], bs[i])]
    BY DEF Taken, Grown
  <2>3. PICK h : h = [i \in 0 .. n |-> IF i = 0 THEN <<>> ELSE Taken(f[i - 1], bs[i])]
    OBVIOUS
  <2>4. IsDecode(f, bs, n) <=> f = h
    BY <2>3 DEF IsDecode
  <2>5. QED
    BY <2>2, <2>3, <2>4
<1>3. g = body(g)
  BY <1>1, <1>2
<1>4. PICK h : h = CHOOSE f : f = body(f)
  OBVIOUS
<1>5. h = body(h)
  <2> HIDE DEF body
  <2>1. QED
    BY <1>3, <1>4, Zenon
<1>6. IsDecode(h, bs, n)
  BY <1>2, <1>5
<1>7. Decoded(bs) = h[n]
  BY <1>4 DEF Decoded
<1>8. QED
  BY <1>6, <1>7

\* A later byte of a character changes the last character read.
LEMMA GrownIs ==
  ASSUME NEW t \in Seq(Nat), NEW c \in Nat, NEW b \in Nat, b >= 128, NEW d \in Nat, d = Bits(c, b)
  PROVE  Grown(Append(t, c), b) = Append(t, d)
<1>1. PICK n \in Nat : n = Len(t)
  BY LenProperties
<1>2. PICK x \in Seq(Nat), y \in Seq(Nat) : x = Append(t, c) /\ y = Append(t, d)
  BY AppendProperties
<1>3. /\ Len(x) = n + 1 /\ DOMAIN x = 1 .. n + 1 /\ x[n + 1] = c
      /\ Len(y) = n + 1 /\ DOMAIN y = 1 .. n + 1 /\ y[n + 1] = d
      /\ \A i \in 1 .. n : x[i] = t[i] /\ y[i] = t[i]
  BY <1>1, <1>2, AppendProperties, LenProperties
<1>4. PICK z : z = Grown(x, b)
  OBVIOUS
<1>5. z = [i \in 1 .. n + 1 |-> IF i = n + 1 THEN d ELSE x[i]]
  BY <1>3, <1>4 DEF Grown, Bits
<1>6. \A i \in 1 .. n + 1 : z[i] = y[i]
  BY <1>3, <1>5
<1>7. y = [i \in 1 .. n + 1 |-> y[i]]
  BY <1>3
<1>8. QED
  BY <1>2, <1>4, <1>5, <1>6, <1>7

\* The text read up to the n-th byte; the bytes u behind the first o.
Reads(f, n, t) == f[n] = t
StandsAt(u, bs, o) == \A k \in 1 .. Len(u) : bs[o + k] = u[k]

\* The bytes of a character, read behind those of a text.
LEMMA CharRead ==
  ASSUME NEW f, NEW bs, NEW n \in Nat, IsDecode(f, bs, n),
         NEW o \in Nat, NEW t \in Seq(Nat), Reads(f, o, t),
         NEW c \in Nat, NEW u, u = Utf8(c), NEW p \in Nat, p = o + Len(u), p <= n,
         StandsAt(u, bs, o), NEW tc, tc = Append(t, c)
  PROVE  Reads(f, p, tc)
<1>00. SUFFICES f[o + Len(u)] = Append(t, c)
  BY DEF Reads
<1>01. f[o] = t
  BY DEF Reads
<1>0. o + Len(u) <= n /\ \A k \in 1 .. Len(u) : bs[o + k] = u[k]
  BY DEF StandsAt
<1>1. /\ u \in Seq(Nat) /\ Len(u) \in Nat /\ 1 <= Len(u) /\ Len(u) <= 3 /\ u[1] \in Nat /\ ~Continues(u[1])
      /\ Len(u) = Width(u[1]) /\ \A k \in 2 .. Len(u) : Continues(u[k]) /\ u[k] \in Nat
      /\ Tells(u, c)
  <2>1. /\ u \in Seq(Nat) /\ Len(u) \in Nat /\ 1 <= Len(u) /\ Len(u) <= 3 /\ u[1] \in Nat /\ ~Continues(u[1])
        /\ Len(u) = Width(u[1]) /\ \A k \in 2 .. Len(u) : Continues(u[k])
        /\ Tells(u, c)
    BY Utf8Is
  <2>2. \A k \in 2 .. Len(u) : u[k] \in Nat
    BY <2>1 DEF Continues
  <2>3. QED
    BY <2>1, <2>2
<1>2. \A i \in Nat : i + 1 <= n => f[i + 1] = Taken(f[i], bs[i + 1])
  <2>1. SUFFICES ASSUME NEW i \in Nat, i + 1 <= n PROVE f[i + 1] = Taken(f[i], bs[i + 1])
    OBVIOUS
  <2>2. i + 1 \in 0 .. n /\ i + 1 # 0 /\ (i + 1) - 1 = i
    BY <2>1
  <2>3. QED
    BY <2>2 DEF IsDecode
<1>3. PICK a \in Nat, b1 \in Nat : a = First(u[1]) /\ b1 = u[1]
  <2>1. PICK b1 \in Nat : b1 = u[1] /\ ~Continues(b1)
    BY <1>1
  <2>2. First(b1) \in Nat
    <3>1. ~(128 <= b1 /\ b1 <= 191)
      BY <2>1 DEF Continues
    <3>2. b1 < 128 \/ (~(b1 < 128) /\ b1 < 224 /\ b1 - 192 \in Nat)
          \/ (~(b1 < 128) /\ ~(b1 < 224) /\ b1 - 224 \in Nat)
      BY <3>1
    <3>3. QED
      BY <3>2 DEF First
  <2>3. QED
    BY <2>1, <2>2
<1>4. f[o + 1] = Append(t, a)
  <2>1. bs[o + 1] = b1 /\ o + 1 <= n
    BY <1>0, <1>1, <1>3, SMTT(30)
  <2>2. Taken(t, b1) = Append(t, a)
    <3>1. a = First(b1) /\ ~Continues(b1)
      BY <1>1, <1>3
    <3>2. QED
      BY <3>1 DEF Taken, First, Continues
  <2>3. QED
    BY <1>01, <1>2, <2>1, <2>2
<1>5. CASE Len(u) = 1
  <2>1. c = a
    BY <1>1, <1>3, <1>5 DEF Tells, First
  <2>2. QED
    BY <1>4, <1>5, <2>1
<1>6. CASE Len(u) # 1
  <2>1. PICK b2 \in Nat : b2 = u[2] /\ Continues(b2) /\ b2 = bs[o + 2]
    <3>1. 2 \in 2 .. Len(u) /\ 2 \in 1 .. Len(u)
      BY <1>1, <1>6
    <3>2. QED
      BY <1>0, <1>1, <3>1
  <2>2. PICK d \in Nat : d = Bits(a, b2)
    BY <2>1, SMTT(30) DEF Bits, Continues
  <2>3. f[o + 2] = Append(t, d)
    <3>1. Grown(Append(t, a), b2) = Append(t, d)
      <4>1. b2 >= 128
        BY <2>1 DEF Continues
      <4>2. QED
        BY <2>2, <4>1, GrownIs
    <3>2. Taken(Append(t, a), b2) = Append(t, d)
      BY <2>1, <3>1 DEF Taken, Continues
    <3>3. PICK e \in Nat : e = o + 1 /\ e + 1 = o + 2 /\ e + 1 <= n
      BY <1>0, <1>1, <1>6
    <3>4. f[e + 1] = Taken(f[e], bs[e + 1])
      BY <1>2, <3>3
    <3>5. f[e] = Append(t, a) /\ bs[e + 1] = b2 /\ f[e + 1] = f[o + 2]
      BY <1>4, <2>1, <3>3
    <3>6. QED
      BY <3>2, <3>4, <3>5
  <2>4. CASE Len(u) = 2
    <3>1. c = d
      BY <1>1, <1>3, <2>1, <2>2, <2>4 DEF Tells
    <3>2. QED
      BY <2>3, <2>4, <3>1
  <2>5. CASE Len(u) = 3
    <3>1. PICK b3 \in Nat : b3 = u[3] /\ Continues(b3) /\ b3 = bs[o + 3]
      BY <1>0, <1>1, <2>5
    <3>2. c = Bits(d, b3)
      BY <1>1, <1>3, <2>1, <2>2, <2>5, <3>1 DEF Tells
    <3>3. Grown(Append(t, d), b3) = Append(t, c)
      <4>1. b3 >= 128
        BY <3>1 DEF Continues
      <4>2. QED
        BY <3>2, <4>1, GrownIs
    <3>4. Taken(Append(t, d), b3) = Append(t, c)
      BY <3>1, <3>3 DEF Taken, Continues
    <3>5. PICK e \in Nat : e = o + 2 /\ e + 1 = o + 3 /\ e + 1 <= n
      BY <1>0, <2>5
    <3>6. f[e + 1] = Taken(f[e], bs[e + 1])
      BY <1>2, <3>5
    <3>7. f[e] = Append(t, d) /\ bs[e + 1] = b3 /\ f[e + 1] = f[o + 3]
      BY <2>3, <3>1, <3>5
    <3>8. QED
      BY <2>5, <3>4, <3>6, <3>7
  <2>6. Len(u) = 2 \/ Len(u) = 3
    <3>1. PICK l \in Nat : l = Len(u)
      BY <1>1
    <3>2. l >= 1 /\ l <= 3 /\ l # 1
      BY <1>1, <1>6, <3>1
    <3>3. QED
      BY <3>1, <3>2, SMTT(30)
  <2>7. QED
    BY <2>4, <2>5, <2>6
<1>7. QED
  BY <1>5, <1>6

\* Bytes that a text is written in are read back as that text.
LEMMA ReadsBack ==
  ASSUME NEW x \in Seq(Nat)
  PROVE  Decoded(Encoded(x)) = x
<1>1. PICK n \in Nat : n = Len(Encoded(x))
  BY EncodedType, LenProperties
<1>2. PICK f : IsDecode(f, Encoded(x), n) /\ Decoded(Encoded(x)) = f[n]
  BY <1>1, DecodeIs
<1>3. Len(x) \in Nat /\ \A i \in 1 .. Len(x) : x[i] \in Nat
  BY LenProperties, ElementOfSeq
<1> DEFINE T == {m \in Nat : m <= Len(x) /\ f[Off(x, m)] # SubSeq(x, 1, m)}
<1>4. T = {}
  <2>1. SUFFICES ASSUME T # {} PROVE FALSE
    OBVIOUS
  <2>2. PICK k \in Nat :
          /\ k <= Len(x) /\ f[Off(x, k)] # SubSeq(x, 1, k)
          /\ \A y \in Nat : y <= Len(x) /\ ~(k <= y) => f[Off(x, y)] = SubSeq(x, 1, y)
    <3>1. T \in SUBSET Nat
      OBVIOUS
    <3>2. PICK k \in T : \A y \in T : k <= y
      <4> HIDE DEF T
      <4>1. QED
        BY <2>1, <3>1, Least
    <3>3. QED
      BY <3>2
  <2> HIDE DEF T
  <2>3. k \in Nat /\ k <= Len(x) /\ f[Off(x, k)] # SubSeq(x, 1, k)
    BY <2>2
  <2>4. k # 0
    <3>1. f[0] = <<>>
      <4>1. 0 \in 0 .. n
        OBVIOUS
      <4>2. QED
        BY <1>2, <4>1 DEF IsDecode
    <3>2. SubSeq(x, 1, 0) = <<>>
      OBVIOUS
    <3>3. QED
      BY <2>3, <3>1, <3>2, UpToStart
  <2>5. PICK i \in Nat : k = i + 1 /\ i <= Len(x) /\ ~(k <= i)
    BY <1>3, <2>3, <2>4
  <2>6. f[Off(x, i)] = SubSeq(x, 1, i)
    BY <2>2, <2>5
  <2>7. PICK t \in Seq(Nat) : t = SubSeq(x, 1, i)
    <3>1. SubSeq(x, 1, i) \in Seq(Nat)
      <4>1. \A j \in 1 .. i : x[j] \in Nat
        BY <1>3, <2>5
      <4>2. QED
        BY <4>1, SubSeqProperties
    <3>2. QED
      BY <3>1
  <2>8. PICK c \in Nat, u \in Seq(Nat) : c = x[k] /\ u = Utf8(c)
    BY <1>3, <2>3, <2>4, Utf8Type
  <2>9. PICK o \in Nat : o = Off(x, i)
    BY <2>5, UpToType
  <2>10. Len(u) \in Nat /\ Len(u) >= 1
    BY <2>8, Utf8Is
  <2>11. \A j \in 1 .. Len(u) : o + j <= n /\ Encoded(x)[o + j] = u[j]
    <3>1. SUFFICES ASSUME NEW j \in 1 .. Len(u) PROVE o + j <= n /\ Encoded(x)[o + j] = u[j]
      OBVIOUS
    <3>2. j \in Nat /\ 1 <= j /\ j <= Len(Utf8(x[k]))
      BY <2>8, <2>10
    <3>3. Off(x, i) + j <= Len(Encoded(x)) /\ Encoded(x)[Off(x, i) + j] = Utf8(x[k])[j]
      <4>1. k = i + 1 /\ k <= Len(x)
        BY <2>3, <2>5
      <4>2. QED
        BY <3>2, <4>1, ByteOf
    <3>4. QED
      BY <1>1, <2>8, <2>9, <3>3
  <2>12. o + Len(u) <= n
    BY <2>10, <2>11
  <2>13. f[o + Len(u)] = Append(t, c)
    <3>1. IsDecode(f, Encoded(x), n) /\ f[o] = t /\ u = Utf8(c)
          /\ \A j \in 1 .. Len(u) : Encoded(x)[o + j] = u[j]
      BY <1>2, <2>6, <2>7, <2>8, <2>9, <2>11
    <3>2. PICK bs : bs = Encoded(x)
      OBVIOUS
    <3>3. IsDecode(f, bs, n) /\ StandsAt(u, bs, o)
      BY <3>1, <3>2 DEF StandsAt
    <3>4. PICK p \in Nat : p = o + Len(u) /\ p <= n
      BY <2>10, <2>12
    <3> DEFINE tc == Append(t, c)
    <3> HIDE DEF tc
    <3>5. Reads(f, o, t)
      BY <3>1 DEF Reads
    <3>6. tc = Append(t, c)
      BY DEF tc
    <3>7. Reads(f, p, tc)
      BY <3>1, <3>3, <3>4, <3>5, <3>6, CharRead
    <3>8. QED
      BY <3>4, <3>6, <3>7 DEF Reads
  <2>14. Off(x, k) = o + Len(u)
    BY <2>3, <2>5, <2>8, <2>9, UpToNext
  <2>15. SubSeq(x, 1, k) = Append(t, c)
    <3>1. SubSeq(x, 1, i + 1) = Append(SubSeq(x, 1, i), x[i + 1])
      BY <1>3, <2>3, <2>5
    <3>2. QED
      BY <2>5, <2>7, <2>8, <3>1
  <2>16. QED
    BY <2>3, <2>13, <2>14, <2>15
<1>5. f[Off(x, Len(x))] = SubSeq(x, 1, Len(x))
  BY <1>3, <1>4
<1>6. SubSeq(x, 1, Len(x)) = x
  OBVIOUS
<1>7. QED
  BY <1>1, <1>2, <1>5, <1>6, UpToEnd

-----------------------------------------------------------------------------
(* Where the quote stands.                                                 *)

\* What the TypeScript matcher's proofs know of characters: none of it is about the
\* rows, or about the Rust matcher's window.
Chars == INSTANCE QuotedProofs
           WITH answer <- InCharacters, RowChars <- {}, Surplus <- {}, held <- 0

q == Chars!q

LEMMA SameSeq ==
  ASSUME NEW u \in Seq(Nat), NEW v \in Seq(Nat), Len(u) = Len(v),
         \A k \in 1 .. Len(u) : u[k] = v[k]
  PROVE  u = v
OBVIOUS

\* The quote is one character.
LEMMA QuoteIs ==
  ASSUME InputOK, OneCodeUnit(opts.quote)
  PROVE  q \in Nat /\ quote = Utf8(q)
<1>1. PICK x \in Seq(Nat) : x = opts.quote /\ Len(x) = 1
  BY DEF InputOK, OneCodeUnit
<1>2. x[1] \in Nat /\ x = Append(<<>>, x[1])
  BY <1>1
<1>3. PICK c \in Nat : c = q /\ x = Append(<<>>, c)
  BY <1>1, <1>2 DEF q, Chars!q
<1>4. PICK e \in Seq(Nat) : e = <<>>
  <2>1. <<>> \in Seq(Nat)
    OBVIOUS
  <2>2. QED
    BY <2>1
<1>5. Encoded(Append(e, c)) = Encoded(e) \o Utf8(c)
  BY EncodedOn
<1>6. PICK u \in Seq(Nat) : u = Utf8(c)
  BY Utf8Type
<1>7. <<>> \o u = u
  OBVIOUS
<1>8. QED
  BY <1>1, <1>3, <1>4, <1>5, <1>6, <1>7, EncodedEmpty DEF quote

\* QuoteAt, byte by byte.
LEMMA QuoteAtIs ==
  ASSUME InputOK, NEW i \in Nat, i >= 1, NEW o, o = i - 1
  PROVE  QuoteAt(i) <=> o + qLen <= Len(bytes) /\ StandsAt(quote, bytes, o)
<1>1. PICK n : n = i + qLen - 1
  OBVIOUS
<1>2. n \in Int /\ qLen = n - i + 1 /\ qLen \in Nat /\ o + qLen = n /\ o \in Nat
  BY <1>1, Bytes
<1>3. PICK b \in Seq(Nat), u \in Seq(Nat) : b = bytes /\ u = quote /\ Len(u) = qLen
  BY Bytes DEF qLen
<1>4. QuoteAt(i) <=> n <= Len(b) /\ SubSeq(b, i, n) = u
  BY <1>1, <1>3 DEF QuoteAt, HasByte
<1>5. CASE ~(n <= Len(b))
  BY <1>2, <1>3, <1>4, <1>5
<1>6. CASE n <= Len(b)
  <2>1. Len(b) \in Nat /\ \A j \in 1 .. Len(b) : b[j] \in Nat
    BY LenProperties, ElementOfSeq
  <2>2. \A j \in i .. n : b[j] \in Nat
    BY <1>2, <1>6, <2>1
  <2>3. PICK v : v = SubSeq(b, i, n)
    OBVIOUS
  <2>4. v \in Seq(Nat) /\ Len(v) = n - i + 1 /\ \A k \in 1 .. n - i + 1 : v[k] = b[i + k - 1]
    <3>1. Len(v) = IF i <= n THEN n - i + 1 ELSE 0
      BY <1>2, <2>2, <2>3, SubSeqProperties
    <3>2. n - i + 1 = IF i <= n THEN n - i + 1 ELSE 0
      BY <1>2
    <3>3. QED
      BY <1>2, <2>2, <2>3, <3>1, <3>2, SubSeqProperties
  <2>5. Len(v) = Len(u) /\ \A k \in 1 .. Len(u) : v[k] = b[o + k]
    <3>1. \A k \in 1 .. Len(u) : i + k - 1 = o + k
      BY <1>2, <1>3
    <3>2. QED
      BY <1>2, <1>3, <2>4, <3>1
  <2>6. v = u <=> \A k \in 1 .. Len(u) : b[o + k] = u[k]
    <3>1. ASSUME v = u PROVE \A k \in 1 .. Len(u) : b[o + k] = u[k]
      BY <2>5, <3>1
    <3>2. ASSUME \A k \in 1 .. Len(u) : b[o + k] = u[k] PROVE v = u
      <4>1. \A k \in 1 .. Len(v) : v[k] = u[k]
        BY <2>5, <3>2
      <4>2. QED
        BY <2>4, <2>5, <4>1, SameSeq
    <3>3. QED
      BY <3>1, <3>2
  <2>7. StandsAt(quote, bytes, o) <=> v = u
    BY <1>3, <2>6 DEF StandsAt
  <2>8. QED
    BY <1>2, <1>3, <1>4, <1>6, <2>3, <2>7
<1>7. QED
  BY <1>5, <1>6

\* At the start of a character, the quote stands where the character is the quote.
LEMMA QuoteAtChar ==
  ASSUME InputOK, OneCodeUnit(opts.quote), NEW m \in Nat, m <= Len(src),
         NEW n, n = m + 1, NEW i, i = Off(src, m) + 1
  PROVE  QuoteAt(i) <=> n <= Len(src) /\ src[n] = q
<1>1. PICK x \in Seq(Nat) : x = src
  BY DEF InputOK
<1>2. PICK o \in Nat : o = Off(x, m) /\ i = o + 1 /\ i - 1 = o /\ i \in Nat /\ i >= 1
  <2>1. Off(x, m) \in Nat
    BY <1>1, UpToType
  <2>2. QED
    BY <1>1, <2>1
<1>3. PICK u : u = quote /\ u = Utf8(q) /\ Len(u) = qLen /\ q \in Nat
  BY QuoteIs DEF qLen
<1>4. QuoteAt(i) <=> o + Len(u) <= Len(bytes) /\ StandsAt(u, bytes, o)
  BY <1>2, <1>3, QuoteAtIs
<1>5. /\ u \in Seq(Nat) /\ Len(u) \in Nat /\ 1 <= Len(u) /\ Len(u) <= 3
      /\ Len(u) = Width(u[1])
  BY <1>3, Utf8Is
<1>6. n \in Nat /\ Len(x) \in Nat /\ bytes = Encoded(x) /\ Len(bytes) = Off(x, Len(x))
  <2>1. Len(x) \in Nat
    BY LenProperties
  <2>2. bytes = Encoded(x)
    BY <1>1 DEF bytes
  <2>3. QED
    BY <2>1, <2>2, UpToEnd
<1>7. CASE ~(n <= Len(x))
  <2>1. m = Len(x)
    BY <1>1, <1>6, <1>7
  <2>2. ~(o + Len(u) <= Len(bytes))
    BY <1>2, <1>5, <1>6, <2>1
  <2>3. QED
    BY <1>1, <1>4, <1>7, <2>2
<1>8. CASE n <= Len(x)
  <2>1. PICK c \in Nat, v \in Seq(Nat) : c = x[n] /\ v = Utf8(c)
    <3>1. x[n] \in Nat
      BY <1>6, <1>8, UpToNext
    <3>2. QED
      BY <3>1, Utf8Type
  <2>2. v \in Seq(Nat) /\ Len(v) \in Nat /\ 1 <= Len(v) /\ Len(v) = Width(v[1])
    BY <2>1, Utf8Is
  <2>3. \A k \in 1 .. Len(v) : o + k <= Len(bytes) /\ bytes[o + k] = v[k]
    <3>1. SUFFICES ASSUME NEW k \in 1 .. Len(v)
                   PROVE  o + k <= Len(bytes) /\ bytes[o + k] = v[k]
      OBVIOUS
    <3>2. k \in Nat /\ 1 <= k /\ k <= Len(Utf8(x[n]))
      BY <2>1, <2>2
    <3>3. Off(x, m) + k <= Len(Encoded(x)) /\ Encoded(x)[Off(x, m) + k] = Utf8(x[n])[k]
      BY <1>6, <1>8, <3>2, ByteOf, SMTT(30)
    <3>4. QED
      BY <1>2, <1>6, <2>1, <3>3
  <2>4. ASSUME c = q PROVE QuoteAt(i)
    <3>1. u = v
      BY <1>3, <2>1, <2>4
    <3>2. StandsAt(u, bytes, o) /\ o + Len(u) <= Len(bytes)
      BY <2>2, <2>3, <3>1 DEF StandsAt
    <3>3. QED
      BY <1>4, <3>2
  <2>5. ASSUME QuoteAt(i) PROVE c = q
    <3>1. \A k \in 1 .. Len(u) : bytes[o + k] = u[k]
      BY <1>4, <2>5 DEF StandsAt
    <3>2. 1 \in 1 .. Len(u) /\ 1 \in 1 .. Len(v)
      BY <1>5, <2>2
    <3>3. u[1] = v[1]
      BY <2>3, <3>1, <3>2
    <3>4. Len(u) = Len(v)
      BY <1>5, <2>2, <3>3
    <3>5. \A k \in 1 .. Len(u) : u[k] = v[k]
      BY <2>3, <3>1, <3>4
    <3>6. u = v
      BY <1>5, <2>2, <3>4, <3>5, SameSeq
    <3>7. QED
      BY <1>3, <2>1, <3>6, Utf8Tells
  <2>6. QED
    BY <1>1, <1>8, <2>1, <2>4, <2>5
<1>9. QED
  BY <1>7, <1>8

\* No quote begins within a character.
LEMMA NoQuoteWithin ==
  ASSUME InputOK, OneCodeUnit(opts.quote), NEW m \in Nat, NEW n, n = m + 1, n <= Len(src),
         NEW k \in Nat, 1 <= k, k < Len(Utf8(src[n])), NEW i, i = Off(src, m) + k + 1
  PROVE  ~QuoteAt(i)
<1>1. PICK x \in Seq(Nat) : x = src
  BY DEF InputOK
<1>2. Len(x) \in Nat /\ n \in Nat /\ m <= Len(x)
  BY <1>1, LenProperties
<1>3. x[n] \in Nat
  BY <1>1, <1>2, UpToNext
<1>4. PICK c \in Nat, v \in Seq(Nat) : c = x[n] /\ v = Utf8(c)
  BY <1>3, Utf8Type
<1>5. Len(v) \in Nat /\ \A j \in 2 .. Len(v) : Continues(v[j])
  BY <1>4, Utf8Is
<1>6. PICK j \in Nat : j = k + 1 /\ 1 <= j /\ j <= Len(v) /\ j \in 2 .. Len(v)
  BY <1>1, <1>4, <1>5
<1>7. PICK o \in Nat : o = Off(x, m)
  BY <1>2, UpToType
<1>8. bytes[o + j] = v[j]
  <2>1. j <= Len(Utf8(x[n]))
    BY <1>4, <1>6
  <2>2. Encoded(x)[Off(x, m) + j] = Utf8(x[n])[j]
    BY <1>1, <1>2, <1>6, <2>1, ByteOf, SMTT(30)
  <2>3. QED
    BY <1>1, <1>4, <1>7, <2>2 DEF bytes
<1>9. PICK u : u = quote /\ u = Utf8(q) /\ q \in Nat
  BY QuoteIs
<1>10. Len(u) \in Nat /\ 1 <= Len(u) /\ ~Continues(u[1])
  BY <1>9, Utf8Is
<1>11. PICK p \in Nat : p = o + k /\ i - 1 = p /\ i \in Nat /\ i >= 1 /\ p + 1 = o + j
  <2>1. i = o + k + 1
    BY <1>1, <1>7
  <2>2. PICK p \in Nat : p = o + k
    OBVIOUS
  <2>3. j = k + 1
    BY <1>6
  <2>4. i = p + 1
    BY <2>1, <2>2
  <2>5. p + 1 = o + j
    BY <2>2, <2>3
  <2>6. i - 1 = p /\ i \in Nat /\ i >= 1
    BY <2>4
  <2>7. QED
    BY <2>2, <2>4, <2>5, <2>6
<1>12. SUFFICES ASSUME QuoteAt(i) PROVE FALSE
  OBVIOUS
<1>13. StandsAt(quote, bytes, p)
  BY <1>11, <1>12, QuoteAtIs
<1>14. bytes[p + 1] = u[1]
  <2>1. 1 \in 1 .. Len(u)
    BY <1>10
  <2>2. QED
    BY <1>9, <1>13, <2>1 DEF StandsAt
<1>15. Continues(u[1])
  BY <1>5, <1>6, <1>8, <1>11, <1>14
<1>16. QED
  BY <1>10, <1>15

-----------------------------------------------------------------------------
(* The loop, n bytes and t behind it.                                      *)

\* What the first m characters say.
Says(m) == Chars!SaidUpTo(src, q, m)

\* The bytes e, and the first k of u.
Part(e, u, k) == e \o SubSeq(u, 1, k)

\* It has passed m characters and k bytes of the next one, which is not the quote,
\* and has said what they say.
Reached(m, k, n, t) ==
  /\ 1 <= m /\ m <= Len(src) /\ n = Off(src, m) + k
  /\ Chars!Passed(m) /\ Says(m) \in Seq(Nat)
  /\ k = 0 => t = Encoded(Says(m))
  /\ k # 0 => /\ m + 1 <= Len(src) /\ src[m + 1] # q /\ k < Len(Utf8(src[m + 1]))
              /\ t = Part(Encoded(Says(m)), Utf8(src[m + 1]), k)

GoAt(n, t) == \E m \in Nat, k \in Nat : Reached(m, k, n, t)

\* A byte behind the second of two texts is behind both.
LEMMA AppendTail ==
  ASSUME NEW e \in Seq(Nat), NEW y \in Seq(Nat), NEW c \in Nat
  PROVE  Append(e \o y, c) = e \o Append(y, c)
<1>1. PICK x \in Seq(Nat) : x = e \o y
  BY ConcatProperties
<1>2. PICK z \in Seq(Nat) : z = Append(y, c)
  BY AppendProperties
<1>3. PICK v \in Seq(Nat), w \in Seq(Nat) : v = Append(x, c) /\ w = e \o z
  BY AppendProperties, ConcatProperties
<1>4. PICK a \in Nat, b \in Nat : a = Len(e) /\ b = Len(y)
  BY LenProperties
<1>5. Len(x) = a + b /\ Len(z) = b + 1 /\ Len(v) = (a + b) + 1 /\ Len(w) = a + (b + 1)
  <2>1. Len(x) = a + b
    BY <1>1, <1>4, ConcatProperties
  <2>2. Len(z) = b + 1
    BY <1>2, <1>4, AppendProperties
  <2>3. Len(v) = Len(x) + 1
    BY <1>3, AppendProperties
  <2>4. Len(w) = Len(e) + Len(z)
    BY <1>3, ConcatProperties
  <2>5. QED
    BY <1>4, <2>1, <2>2, <2>3, <2>4
<1>6. \A k \in 1 .. Len(v) : v[k] = w[k]
  <2>1. SUFFICES ASSUME NEW k \in 1 .. Len(v) PROVE v[k] = w[k]
    OBVIOUS
  <2>2. k \in Nat /\ 1 <= k /\ k <= (a + b) + 1
    BY <1>5
  <2>3. CASE k <= a
    <3>1. v[k] = x[k] /\ x[k] = e[k] /\ w[k] = e[k]
      <4>1. k \in 1 .. Len(x) /\ k \in 1 .. Len(e)
        BY <1>4, <1>5, <2>2, <2>3
      <4>2. v[k] = x[k]
        BY <1>3, <4>1, AppendProperties
      <4>3. x[k] = e[k]
        BY <1>1, <4>1, ConcatProperties
      <4>4. w[k] = e[k]
        BY <1>3, <4>1, ConcatProperties
      <4>5. QED
        BY <4>2, <4>3, <4>4
    <3>2. QED
      BY <3>1
  <2>4. CASE k > a /\ k <= a + b
    <3>1. PICK j \in Nat : j = k - a /\ 1 <= j /\ j <= b
      BY <2>2, <2>4
    <3>2. k \in 1 .. Len(x) /\ k \in Len(e) + 1 .. Len(e) + Len(y)
          /\ k \in Len(e) + 1 .. Len(e) + Len(z) /\ k - Len(e) = j
      BY <1>4, <1>5, <2>2, <2>4, <3>1
    <3>3. v[k] = x[k]
      BY <1>3, <3>2, AppendProperties
    <3>4. x[k] = y[j]
      BY <1>1, <3>2, ConcatProperties
    <3>5. w[k] = z[j]
      BY <1>3, <3>2, ConcatProperties
    <3>6. z[j] = y[j]
      <4>1. j \in 1 .. Len(y)
        BY <1>4, <3>1
      <4>2. QED
        BY <1>2, <4>1, AppendProperties
    <3>7. QED
      BY <3>3, <3>4, <3>5, <3>6
  <2>5. CASE k = (a + b) + 1
    <3>1. k = Len(x) + 1 /\ k \in Len(e) + 1 .. Len(e) + Len(z) /\ k - Len(e) = Len(y) + 1
      BY <1>4, <1>5, <2>5
    <3>2. v[k] = c
      BY <1>3, <3>1, AppendProperties
    <3>3. w[k] = z[k - Len(e)]
      BY <1>3, <3>1, ConcatProperties
    <3>4. z[Len(y) + 1] = c
      BY <1>2, AppendProperties
    <3>5. QED
      BY <3>1, <3>2, <3>3, <3>4
  <2>6. QED
    BY <2>2, <2>3, <2>4, <2>5
<1>7. v = w
  BY <1>5, <1>6, SameSeq
<1>8. QED
  BY <1>1, <1>2, <1>3, <1>7

\* The next byte of a character.
LEMMA PartOn ==
  ASSUME NEW e \in Seq(Nat), NEW u \in Seq(Nat), NEW k \in Nat, NEW j, j = k + 1, j <= Len(u)
  PROVE  Append(Part(e, u, k), u[j]) = Part(e, u, j)
<1>1. Len(u) \in Nat /\ \A i \in 1 .. Len(u) : u[i] \in Nat
  BY LenProperties, ElementOfSeq
<1>2. PICK y \in Seq(Nat) : y = SubSeq(u, 1, k)
  <2>1. \A i \in 1 .. k : u[i] \in Nat
    BY <1>1
  <2>2. SubSeq(u, 1, k) \in Seq(Nat)
    BY <2>1, SubSeqProperties
  <2>3. QED
    BY <2>2
<1>3. PICK c \in Nat : c = u[j]
  BY <1>1
<1>4. SubSeq(u, 1, j) = Append(y, c)
  <2>1. SubSeq(u, 1, k + 1) = Append(SubSeq(u, 1, k), u[k + 1])
    BY <1>1
  <2>2. QED
    BY <1>2, <1>3, <2>1
<1>5. Append(e \o y, c) = e \o Append(y, c)
  BY AppendTail
<1>6. QED
  BY <1>2, <1>3, <1>4, <1>5, Zenon DEF Part

\* The bytes of a character, all of them and none.
LEMMA PartAll ==
  ASSUME NEW e \in Seq(Nat), NEW u \in Seq(Nat)
  PROVE  Part(e, u, Len(u)) = e \o u /\ Part(e, u, 0) = e
<1>1. SubSeq(u, 1, Len(u)) = u /\ SubSeq(u, 1, 0) = <<>>
  OBVIOUS
<1>2. e \o <<>> = e
  OBVIOUS
<1>3. QED
  BY <1>1, <1>2 DEF Part

\* A character that is not the quote and is not barred ends nothing and says itself.
LEMMA CharTaken ==
  ASSUME InputOK, NEW m \in Nat, 1 <= m, NEW n, n = m + 1, n <= Len(src),
         Chars!Passed(m), Says(m) \in Seq(Nat),
         src[n] # q, opts.allow \/ ~IsControl(src[n]) \/ src[n] \in LineChars
  PROVE  /\ Chars!Passed(n) /\ Says(n) = Append(Says(m), src[n]) /\ Says(n) \in Seq(Nat)
<1>1. Len(src) \in Nat /\ src[n] \in Nat /\ m + 1 <= Len(src)
  BY LenProperties, ElementOfSeq DEF InputOK
<1>2. src[m + 1] # Chars!q /\ (opts.allow \/ ~Chars!Barred(m + 1))
  BY DEF q, Chars!Barred, Chars!IsControl, IsControl
<1>3. Chars!Passed(m + 1)
  BY <1>2, Chars!CharTaken, TextAssumption, QuoteAssumption DEF Chars!Char, Chars!IsControl, Char
<1>4. Chars!Keeps(src, q, m + 1)
  BY DEF Chars!Keeps
<1>5. /\ Chars!SaidUpTo(src, q, m) \in Seq(Nat) /\ src[m + 1] \in Nat
  BY <1>1 DEF Says
<1>6. Chars!SaidUpTo(src, q, m + 1) = Append(Chars!SaidUpTo(src, q, m), src[m + 1])
  BY <1>1, <1>4, <1>5, Chars!SaidNext, TextAssumption, QuoteAssumption
     DEF Chars!Char, Chars!IsControl, Char
<1>7. PICK e \in Seq(Nat), c \in Nat : e = Says(m) /\ c = src[n]
  BY <1>1
<1>8. Says(n) = Append(e, c)
  BY <1>6, <1>7 DEF Says
<1>9. QED
  BY <1>3, <1>7, <1>8, AppendProperties

\* The loop passes one byte.
LEMMA ByteOn ==
  ASSUME InputOK, OneCodeUnit(opts.quote), NEW n \in Nat, NEW t, GoAt(n, t),
         NEW i, i = n + 1, i <= Len(bytes), ~QuoteAt(i), NEW b, b = bytes[i],
         opts.allow \/ ~IsControl(b) \/ b \in LineChars
  PROVE  GoAt(i, Append(t, b))
<1>1. PICK m \in Nat, k \in Nat : Reached(m, k, n, t)
  BY DEF GoAt
<1>2. PICK x \in Seq(Nat) : x = src
  BY DEF InputOK
<1>3. PICK o \in Nat, l \in Nat : o = Off(x, m) /\ l = m + 1 /\ m <= Len(x) /\ Len(x) \in Nat
  <2>1. m <= Len(x) /\ Len(x) \in Nat
    BY <1>1, <1>2, LenProperties DEF Reached
  <2>2. Off(x, m) \in Nat
    BY <2>1, UpToType
  <2>3. QED
    BY <2>1, <2>2
<1>4. n = o + k /\ 1 <= m /\ Chars!Passed(m)
  BY <1>1, <1>2, <1>3 DEF Reached
<1>5. PICK e \in Seq(Nat), es \in Seq(Nat) : es = Says(m) /\ e = Encoded(es)
  BY <1>1, EncodedType DEF Reached
<1>6. l <= Len(x)
  <2>1. CASE k = 0
    <3>1. m # Len(x)
      <4>1. SUFFICES ASSUME m = Len(x) PROVE FALSE
        OBVIOUS
      <4>2. o = Len(bytes)
        BY <1>2, <1>3, <4>1, UpToEnd DEF bytes
      <4>3. QED
        BY <1>4, <2>1, <4>2
    <3>2. QED
      BY <1>3, <3>1
  <2>2. CASE k # 0
    BY <1>1, <1>2, <1>3, <2>2 DEF Reached
  <2>3. QED
    BY <2>1, <2>2
<1>7. PICK c \in Nat, u \in Seq(Nat) : c = x[l] /\ u = Utf8(c)
  BY <1>3, <1>6, UpToNext, Utf8Type
<1>8. /\ Len(u) \in Nat /\ 1 <= Len(u) /\ \A j \in 2 .. Len(u) : Continues(u[j])
      /\ Len(u) = 1 => u[1] = c
      /\ Len(u) # 1 => c >= 128
  BY <1>7, Utf8Is, ZenonT(30)
<1>9. c # q /\ k < Len(u)
  <2>1. CASE k = 0
    <3>1. i = Off(src, m) + 1
      BY <1>2, <1>3, <1>4, <2>1
    <3>2. ~(l <= Len(src) /\ src[l] = q)
      BY <1>2, <1>3, <3>1, QuoteAtChar
    <3>3. QED
      BY <1>2, <1>6, <1>7, <1>8, <2>1, <3>2
  <2>2. CASE k # 0
    BY <1>1, <1>2, <1>3, <1>7, <2>2 DEF Reached
  <2>3. QED
    BY <2>1, <2>2
<1>10. t = Part(e, u, k)
  <2>1. CASE k = 0
    <3>1. t = e
      BY <1>1, <1>5, <2>1 DEF Reached
    <3>2. Part(e, u, 0) = e
      BY PartAll
    <3>3. QED
      BY <2>1, <3>1, <3>2
  <2>2. CASE k # 0
    <3>1. t = Part(Encoded(Says(m)), Utf8(src[m + 1]), k)
      BY <1>1, <2>2 DEF Reached
    <3>2. QED
      BY <1>2, <1>3, <1>5, <1>7, <3>1
  <2>3. QED
    BY <2>1, <2>2
<1>11. PICK j \in Nat : j = k + 1 /\ 1 <= j /\ j <= Len(u) /\ o + j = i
  BY <1>4, <1>8, <1>9
<1>12. b = u[j]
  <2>1. j <= Len(Utf8(x[l]))
    BY <1>7, <1>11
  <2>2. Encoded(x)[Off(x, m) + j] = Utf8(x[l])[j]
    <3>1. l = m + 1 /\ l \in Nat
      BY <1>3
    <3>2. QED
      BY <1>6, <1>11, <2>1, <3>1, ByteOf
  <2>3. QED
    BY <1>2, <1>3, <1>7, <1>11, <2>2 DEF bytes
<1>13. Append(t, b) = Part(e, u, j)
  <2>1. j = k + 1 /\ j <= Len(u)
    BY <1>11
  <2>2. Append(Part(e, u, k), u[j]) = Part(e, u, j)
    BY <2>1, PartOn, SMTT(30)
  <2>3. QED
    BY <1>10, <1>12, <2>2, Zenon
<1>14. CASE j # Len(u)
  <2>1. j # 0 /\ l <= Len(src) /\ src[l] # q /\ j < Len(Utf8(src[l])) /\ l = m + 1
    <3>1. j # 0 /\ j < Len(u) /\ l = m + 1
      BY <1>3, <1>8, <1>11, <1>14, SMTT(30)
    <3>2. u = Utf8(src[l]) /\ src[l] # q /\ l <= Len(src)
      BY <1>2, <1>6, <1>7, <1>9
    <3>3. QED
      BY <3>1, <3>2
  <2>2. Append(t, b) = Part(Encoded(Says(m)), Utf8(src[l]), j)
    BY <1>2, <1>5, <1>7, <1>13
  <2>3. m <= Len(src) /\ i = Off(src, m) + j /\ Says(m) \in Seq(Nat)
    BY <1>2, <1>3, <1>5, <1>11
  <2>4. Reached(m, j, i, Append(t, b))
    BY <1>4, <2>1, <2>2, <2>3 DEF Reached
  <2>5. QED
    BY <2>4 DEF GoAt
<1>15. CASE j = Len(u)
  <2>1. opts.allow \/ ~IsControl(src[l]) \/ src[l] \in LineChars
    <3>1. CASE Len(u) = 1
      BY <1>2, <1>7, <1>8, <1>12, <1>15, <3>1
    <3>2. CASE Len(u) # 1
      BY <1>2, <1>7, <1>8, <3>2 DEF IsControl
    <3>3. QED
      BY <3>1, <3>2
  <2>2. l = m + 1 /\ l <= Len(src) /\ src[l] # q /\ Says(m) \in Seq(Nat)
    BY <1>2, <1>3, <1>5, <1>6, <1>7, <1>9
  <2>3. Chars!Passed(l) /\ Says(l) = Append(Says(m), src[l]) /\ Says(l) \in Seq(Nat)
    BY <1>4, <2>1, <2>2, CharTaken
  <2>4. Encoded(Says(l)) = e \o u
    <3>1. Says(l) = Append(es, c)
      BY <1>2, <1>5, <1>7, <2>3
    <3>2. Encoded(Append(es, c)) = Encoded(es) \o Utf8(c)
      BY EncodedOn
    <3>3. QED
      BY <1>5, <1>7, <3>1, <3>2
  <2>5. Append(t, b) = Encoded(Says(l))
    BY <1>13, <1>15, <2>4, PartAll
  <2>6. Off(x, l) = o + Len(u)
    BY <1>3, <1>6, <1>7, UpToNext
  <2>7. i = Off(src, l) + 0 /\ 1 <= l
    BY <1>2, <1>3, <1>11, <1>15, <2>6
  <2>8. Reached(l, 0, i, Append(t, b))
    BY <2>2, <2>3, <2>5, <2>7 DEF Reached
  <2>9. QED
    BY <2>8 DEF GoAt
<1>16. QED
  BY <1>14, <1>15

\* Within the source, the byte ahead is the next one of its character.
LEMMA Within ==
  ASSUME InputOK, NEW m \in Nat, NEW k \in Nat, NEW n, NEW t, Reached(m, k, n, t),
         NEW i, i = n + 1, i <= Len(bytes), NEW l, l = m + 1, NEW j, j = k + 1
  PROVE  /\ l <= Len(src) /\ src[l] \in Nat
         /\ j <= Len(Utf8(src[l])) /\ bytes[i] = Utf8(src[l])[j]
<1>1. PICK x \in Seq(Nat) : x = src
  BY DEF InputOK
<1>2. PICK o \in Nat : o = Off(x, m) /\ m <= Len(x) /\ Len(x) \in Nat
  <2>1. m <= Len(x) /\ Len(x) \in Nat
    BY <1>1, LenProperties DEF Reached
  <2>2. Off(x, m) \in Nat
    BY <2>1, UpToType
  <2>3. QED
    BY <2>1, <2>2
<1>3. n = o + k
  BY <1>1, <1>2 DEF Reached
<1>4. l <= Len(x)
  <2>1. CASE k = 0
    <3>1. m # Len(x)
      <4>1. SUFFICES ASSUME m = Len(x) PROVE FALSE
        OBVIOUS
      <4>2. o = Len(bytes)
        BY <1>1, <1>2, <4>1, UpToEnd DEF bytes
      <4>3. QED
        BY <1>3, <2>1, <4>2
    <3>2. QED
      BY <1>2, <3>1
  <2>2. CASE k # 0
    BY <1>1, <2>2 DEF Reached
  <2>3. QED
    BY <2>1, <2>2
<1>5. PICK c \in Nat, u \in Seq(Nat) : c = x[l] /\ u = Utf8(c)
  <2>1. l \in Nat /\ l = m + 1
    OBVIOUS
  <2>2. x[l] \in Nat
    BY <1>4, <2>1, UpToNext
  <2>3. QED
    BY <2>2, Utf8Type
<1>6. Len(u) \in Nat /\ 1 <= Len(u)
  BY <1>5, Utf8Is
<1>7. j \in Nat /\ 1 <= j /\ j <= Len(u)
  <2>1. CASE k = 0
    BY <1>6, <2>1
  <2>2. CASE k # 0
    <3>1. k < Len(u)
      BY <1>1, <1>5, <2>2 DEF Reached
    <3>2. QED
      BY <1>6, <3>1
  <2>3. QED
    BY <2>1, <2>2
<1>8. Encoded(x)[Off(x, m) + j] = Utf8(x[l])[j]
  <2>1. j <= Len(Utf8(x[l])) /\ l \in Nat /\ l = m + 1
    BY <1>5, <1>7
  <2>2. PICK h \in Nat, b \in Nat :
          h = l /\ b = j /\ h = m + 1 /\ h <= Len(x) /\ 1 <= b /\ b <= Len(Utf8(x[h]))
    BY <1>4, <1>7, <2>1
  <2>3. Encoded(x)[Off(x, m) + b] = Utf8(x[h])[b]
    BY <2>2, ByteOf
  <2>4. QED
    BY <2>2, <2>3
<1>9. i = o + j
  BY <1>3
<1>10. QED
  BY <1>1, <1>2, <1>4, <1>5, <1>7, <1>8, <1>9 DEF bytes

\* A quote ahead is the next character.
LEMMA AtQuote ==
  ASSUME InputOK, OneCodeUnit(opts.quote), NEW n \in Nat, NEW t, GoAt(n, t),
         NEW i, i = n + 1, QuoteAt(i)
  PROVE  \E m \in Nat : /\ Reached(m, 0, n, t) /\ m + 1 <= Len(src) /\ src[m + 1] = q
                        /\ Off(src, m + 1) = n + qLen
                        /\ QuoteAt(i + qLen) <=> m + 2 <= Len(src) /\ src[m + 2] = q
<1>1. PICK m \in Nat, k \in Nat : Reached(m, k, n, t)
  BY DEF GoAt
<1>2. PICK x \in Seq(Nat) : x = src
  BY DEF InputOK
<1>3. m <= Len(x) /\ Len(x) \in Nat /\ i \in Nat /\ i >= 1 /\ n = Off(src, m) + k
  BY <1>1, <1>2, LenProperties DEF Reached
<1>4. k = 0
  <2>1. SUFFICES ASSUME k # 0 PROVE FALSE
    OBVIOUS
  <2>2. PICK l \in Nat : l = m + 1
    OBVIOUS
  <2>3. l <= Len(src) /\ k < Len(Utf8(src[l])) /\ 1 <= k
    BY <1>1, <2>1, <2>2 DEF Reached
  <2>4. i = Off(src, m) + k + 1
    BY <1>3
  <2>5. QED
    BY <2>2, <2>3, <2>4, NoQuoteWithin
<1>5. PICK o \in Nat : o = Off(x, m) /\ n = o
  <2>1. Off(x, m) \in Nat
    BY <1>3, UpToType
  <2>2. QED
    BY <1>2, <1>3, <1>4, <2>1
<1>6. PICK l \in Nat : l = m + 1
  OBVIOUS
<1>7. l <= Len(src) /\ src[l] = q
  <2>1. m <= Len(src) /\ i = Off(src, m) + 1
    BY <1>2, <1>3, <1>5
  <2>2. QED
    BY <1>6, <2>1, QuoteAtChar
<1>8. quote = Utf8(q) /\ q \in Nat /\ qLen \in Nat
  BY QuoteIs, Bytes
<1>9. Off(x, l) = n + qLen
  <2>1. Off(x, l) = Off(x, m) + Len(Utf8(x[l]))
    BY <1>2, <1>6, <1>7, UpToNext
  <2>2. QED
    BY <1>2, <1>5, <1>7, <1>8, <2>1 DEF qLen
<1>10. QuoteAt(i + qLen) <=> m + 2 <= Len(src) /\ src[m + 2] = q
  <2>1. PICK k2, i2 : k2 = l + 1 /\ i2 = Off(src, l) + 1
    OBVIOUS
  <2>2. QuoteAt(i2) <=> k2 <= Len(src) /\ src[k2] = q
    BY <1>7, <2>1, QuoteAtChar
  <2>3. i2 = i + qLen
    <3>1. i2 = n + qLen + 1
      BY <1>2, <1>9, <2>1
    <3>2. QED
      BY <1>8, <3>1
  <2>4. k2 = m + 2
    BY <1>6, <2>1
  <2>5. QED
    BY <2>2, <2>3, <2>4
<1>11. QED
  BY <1>1, <1>2, <1>4, <1>6, <1>7, <1>9, <1>10

\* A control byte ahead is the next character.
LEMMA AtControl ==
  ASSUME InputOK, NEW n, NEW t, GoAt(n, t),
         NEW i, i = n + 1, i <= Len(bytes), IsControl(bytes[i])
  PROVE  \E m \in Nat : /\ Reached(m, 0, n, t) /\ m + 1 <= Len(src) /\ src[m + 1] = bytes[i]
<1>1. PICK m \in Nat, k \in Nat : Reached(m, k, n, t)
  BY DEF GoAt
<1>2. PICK l \in Nat, j \in Nat : l = m + 1 /\ j = k + 1
  OBVIOUS
<1>3. l <= Len(src) /\ src[l] \in Nat /\ j <= Len(Utf8(src[l])) /\ bytes[i] = Utf8(src[l])[j]
  BY <1>1, <1>2, Within
<1>4. PICK c \in Nat, u \in Seq(Nat) : c = src[l] /\ u = Utf8(c)
  BY <1>3, Utf8Type
<1>5. /\ Len(u) \in Nat /\ u[1] \in Nat /\ Len(u) = Width(u[1])
      /\ \A h \in 2 .. Len(u) : Continues(u[h])
      /\ Len(u) = 1 => u[1] = c
  BY <1>4, Utf8Is
<1>6. IsControl(u[j]) /\ j <= Len(u)
  BY <1>3, <1>4
<1>7. j = 1
  <2>1. SUFFICES ASSUME j # 1 PROVE FALSE
    OBVIOUS
  <2>2. j \in 2 .. Len(u)
    BY <1>2, <1>5, <1>6, <2>1
  <2>3. Continues(u[j])
    BY <1>5, <2>2
  <2>4. QED
    BY <1>6, <2>3 DEF Continues, IsControl
<1>8. u[1] = c
  BY <1>5, <1>6, <1>7 DEF Width, IsControl
<1>9. QED
  <2>1. k = 0
    BY <1>2, <1>7
  <2>2. QED
    BY <1>1, <1>2, <1>3, <1>4, <1>7, <1>8, <2>1

\* With no byte ahead, the last character is passed.
LEMMA AtEnd ==
  ASSUME InputOK, NEW n, NEW t, GoAt(n, t), n = Len(bytes)
  PROVE  Reached(Len(src), 0, n, t)
<1>1. PICK m \in Nat, k \in Nat : Reached(m, k, n, t)
  BY DEF GoAt
<1>2. PICK x \in Seq(Nat) : x = src
  BY DEF InputOK
<1>3. m <= Len(x) /\ Len(x) \in Nat /\ n = Off(x, m) + k
  BY <1>1, <1>2, LenProperties DEF Reached
<1>4. m = Len(x)
  <2>1. SUFFICES ASSUME m # Len(x) PROVE FALSE
    OBVIOUS
  <2>2. PICK l \in Nat : l = m + 1 /\ l <= Len(x)
    BY <1>3, <2>1
  <2>3. Off(x, l) = Off(x, m) + Len(Utf8(x[l])) /\ x[l] \in Nat
    BY <2>2, UpToNext
  <2>4. PICK w \in Nat : w = Len(Utf8(x[l])) /\ 1 <= w
    BY <2>3, Utf8Is
  <2>5. k < w
    <3>1. CASE k = 0
      BY <2>4, <3>1
    <3>2. CASE k # 0
      BY <1>1, <1>2, <2>2, <2>4, <3>2 DEF Reached
    <3>3. QED
      BY <3>1, <3>2
  <2>6. Off(x, l) <= Off(x, Len(x)) /\ Off(x, Len(x)) = Len(bytes)
    <3>1. Off(x, l) <= Off(x, Len(x))
      BY <1>3, <2>2, UpToSame
    <3>2. QED
      BY <1>2, <3>1, UpToEnd DEF bytes
  <2>7. PICK a \in Nat : a = Off(x, m)
    BY <1>3, UpToType
  <2>8. n = a + k /\ a + w <= n
    BY <1>3, <2>3, <2>4, <2>6, <2>7
  <2>9. QED
    BY <2>4, <2>5, <2>7, <2>8
<1>5. k = 0
  BY <1>1, <1>2, <1>3, <1>4 DEF Reached
<1>6. QED
  BY <1>1, <1>2, <1>4, <1>5

\* What has been read is bytes.
LEMMA GoType ==
  ASSUME InputOK, NEW n, NEW t, GoAt(n, t)
  PROVE  t \in Seq(Nat)
<1>1. PICK m \in Nat, k \in Nat : Reached(m, k, n, t)
  BY DEF GoAt
<1>2. PICK e \in Seq(Nat) : e = Encoded(Says(m))
  BY <1>1, EncodedType DEF Reached
<1>3. CASE k = 0
  BY <1>1, <1>2, <1>3 DEF Reached
<1>4. CASE k # 0
  <2>1. src[m + 1] \in Nat
    <3>1. m + 1 <= Len(src)
      BY <1>1, <1>4 DEF Reached
    <3>2. QED
      BY <3>1, LenProperties, ElementOfSeq DEF InputOK
  <2>2. PICK u \in Seq(Nat) : u = Utf8(src[m + 1])
    BY <2>1, Utf8Type
  <2>3. k < Len(u) /\ t = e \o SubSeq(u, 1, k)
    BY <1>1, <1>2, <1>4, <2>2 DEF Reached, Part
  <2>4. SubSeq(u, 1, k) \in Seq(Nat)
    <3>1. \A j \in 1 .. k : u[j] \in Nat
      BY <2>3, LenProperties, ElementOfSeq
    <3>2. QED
      BY <3>1, SubSeqProperties
  <2>5. QED
    BY <2>3, <2>4, ConcatProperties
<1>5. QED
  BY <1>3, <1>4

\* The loop passes a stretch that holds neither a quote nor a control character.
LEMMA StretchOn ==
  ASSUME InputOK, OneCodeUnit(opts.quote), NEW n \in Nat, NEW t, GoAt(n, t),
         NEW stop \in Nat, n <= stop, stop <= Len(bytes),
         \A i \in n + 1 .. stop : ~QuoteAt(i) /\ ~IsControl(bytes[i])
  PROVE  GoAt(stop, t \o SubSeq(bytes, n + 1, stop))
<1>1. PICK b \in Seq(Nat) : b = bytes /\ Len(b) \in Nat /\ \A i \in 1 .. Len(b) : b[i] \in Nat
  BY Bytes, LenProperties, ElementOfSeq
<1>2. t \in Seq(Nat)
  BY GoType
<1>3. PICK a \in Nat : a = n + 1
  OBVIOUS
<1> DEFINE Read(j) == t \o SubSeq(b, a, j)
           T == {j \in Nat : n <= j /\ j <= stop /\ ~GoAt(j, Read(j))}
<1>4. T = {}
  <2>1. SUFFICES ASSUME T # {} PROVE FALSE
    OBVIOUS
  <2>2. PICK j \in Nat : /\ n <= j /\ j <= stop /\ ~GoAt(j, Read(j))
                         /\ \A y \in Nat : n <= y /\ y <= stop /\ ~(j <= y) => GoAt(y, Read(y))
    <3>1. T \in SUBSET Nat
      OBVIOUS
    <3>2. PICK j \in T : \A y \in T : j <= y
      <4> HIDE DEF T
      <4>1. QED
        BY <2>1, <3>1, Least
    <3>3. QED
      BY <3>2
  <2> HIDE DEF T
  <2>3. j # n
    <3>1. SUFFICES ASSUME j = n PROVE FALSE
      OBVIOUS
    <3>2. SubSeq(b, a, j) = <<>>
      BY <1>3, <3>1
    <3>3. t \o <<>> = t
      BY <1>2
    <3>4. Read(j) = t
      BY <3>2, <3>3
    <3>5. QED
      BY <2>2, <3>1, <3>4
  <2>4. PICK h \in Nat : j = h + 1 /\ n <= h /\ h <= stop /\ ~(j <= h)
    <3>1. j - 1 \in Nat /\ j = (j - 1) + 1
      BY <2>2, <2>3
    <3>2. QED
      BY <2>2, <2>3, <3>1
  <2>5. GoAt(h, Read(h))
    BY <2>2, <2>4
  <2>6. PICK c \in Nat : c = bytes[j] /\ c = b[j]
    <3>1. j \in 1 .. Len(b)
      BY <1>1, <2>2, <2>4
    <3>2. QED
      BY <1>1, <3>1
  <2>7. j <= Len(bytes) /\ ~QuoteAt(j) /\ ~IsControl(c)
    <3>1. j \in n + 1 .. stop
      BY <2>2, <2>4
    <3>2. Len(bytes) \in Nat
      BY <1>1
    <3>3. j <= Len(bytes)
      BY <2>2, <3>2
    <3>4. QED
      BY <2>6, <3>1, <3>3
  <2>8. PICK r : r = Read(h)
    OBVIOUS
  <2>9. GoAt(j, Append(r, c))
    <3>1. GoAt(h, r)
      BY <2>5, <2>8
    <3> HIDE DEF Read
    <3>2. QED
      BY <2>4, <2>6, <2>7, <3>1, ByteOn
  <2>10. Append(r, c) = Read(j)
    <3>1. PICK y \in Seq(Nat) : y = SubSeq(b, a, h)
      <4>1. \A i \in a .. h : b[i] \in Nat
        BY <1>1, <1>3, <2>2, <2>4
      <4>2. SubSeq(b, a, h) \in Seq(Nat)
        BY <4>1, SubSeqProperties
      <4>3. QED
        BY <4>2
    <3>2. SubSeq(b, a, j) = Append(y, c)
      <4>1. SubSeq(b, a, h + 1) = Append(SubSeq(b, a, h), b[h + 1])
        BY <1>1, <1>3, <2>2, <2>4, SMTT(30)
      <4>2. QED
        BY <2>4, <2>6, <3>1, <4>1
    <3>3. Append(t \o y, c) = t \o Append(y, c)
      BY <1>2, AppendTail
    <3>4. QED
      BY <2>8, <3>1, <3>2, <3>3
  <2>11. QED
    BY <2>2, <2>9, <2>10
<1>5. GoAt(stop, Read(stop))
  BY <1>4
<1>6. QED
  BY <1>1, <1>3, <1>5

-----------------------------------------------------------------------------
(* The turns, by characters.                                               *)

\* What the matcher is given.
Given ==
  /\ src \in Seq(Nat) /\ src # <<>> /\ before \in Seq(Nat)
  /\ opts.quote \in Seq(Nat) /\ opts.allow \in BOOLEAN
  /\ \A i \in DOMAIN opts.quote : opts.quote[i] \notin LineChars

\* Where the matcher reads a field, no byte behind it ends the field.
Going == \A n, t : n = sI - 1 /\ t = s => GoAt(n, t)

\* While the answer is open, the loop stands where it should.
GoInv ==
  /\ Inv /\ Given
  /\ answer = Pending => IF sI = 1 THEN s = <<>> ELSE Opens /\ Going

LEMMA OpensAt ==
  ASSUME InputOK, Given, Opens
  PROVE  /\ OneCodeUnit(opts.quote) /\ src[1] = q /\ q \in Nat /\ q \notin LineChars
         /\ Chars!InputOK /\ Chars!Opens
<1>1. OneCodeUnit(opts.quote) /\ QuoteAt(1)
  BY DEF Opens
<1>2. PICK z \in Nat, o \in Nat : z = 0 /\ o = z + 1
  OBVIOUS
<1>3. z <= Len(src) /\ Off(src, z) = z
  <2>1. Len(src) \in Nat
    BY LenProperties DEF Given
  <2>2. QED
    BY <1>2, <2>1, UpToStart DEF Given
<1>4. o = Off(src, z) + 1 /\ QuoteAt(o)
  BY <1>1, <1>2, <1>3
<1>5. src[o] = q
  BY <1>1, <1>2, <1>3, <1>4, QuoteAtChar
<1>6. q \in Nat
  BY <1>1, QuoteIs
<1>7. q \notin LineChars
  <2>1. 1 \in DOMAIN opts.quote
    BY <1>1, LenProperties DEF Given, OneCodeUnit
  <2>2. QED
    BY <2>1 DEF Given, q, Chars!q
<1>8. Chars!Opens
  BY <1>1, <1>2, <1>5 DEF Chars!Opens, OneCodeUnit, Chars!OneCodeUnit, q
<1>9. Chars!InputOK
  BY <1>2, <1>5, <1>7 DEF Given, Chars!InputOK, q
<1>10. QED
  BY <1>1, <1>2, <1>5, <1>6, <1>7, <1>8, <1>9

\* What has been reached is reached whatever the matcher does next.
LEMMA GoKept ==
  ASSUME UNCHANGED given
  PROVE  /\ Given' = Given /\ Opens' = Opens /\ q' = q
         /\ \A n, t : GoAt(n, t)' <=> GoAt(n, t)
<1>1. src' = src /\ opts' = opts /\ before' = before
  BY DEF given
<1>2. bytes' = bytes /\ quote' = quote /\ qLen' = qLen
  BY Kept
<1>3. q' = q /\ Chars!q' = Chars!q
  BY <1>1 DEF q, Chars!q
<1>4. Given' = Given
  BY <1>1 DEF Given
<1>5. Opens' = Opens
  BY <1>1, <1>2 DEF Opens, QuoteAt, HasByte, FieldStart
<1>6. \A m : Chars!Passed(m)' <=> Chars!Passed(m)
  BY <1>1, <1>3 DEF Chars!Passed, Chars!Barred
<1>7. \A m : Says(m)' = Says(m)
  BY <1>1, <1>3 DEF Says
<1>8. \A m, k, n, t : Reached(m, k, n, t)' <=> Reached(m, k, n, t)
  BY <1>1, <1>3, <1>6, <1>7 DEF Reached
<1>9. \A n, t : GoAt(n, t)' <=> GoAt(n, t)
  BY <1>8 DEF GoAt
<1>10. QED
  BY <1>3, <1>4, <1>5, <1>9

\* A quote begins with its first byte.
LEMMA QuoteBegins ==
  ASSUME InputOK, OneCodeUnit(opts.quote), NEW i \in Nat, i >= 1, QuoteAt(i)
  PROVE  bytes[i] = quote[1]
<1>1. PICK o \in Nat : o = i - 1 /\ o + 1 = i
  OBVIOUS
<1>2. StandsAt(quote, bytes, o)
  BY <1>1, QuoteAtIs
<1>3. Len(quote) \in Nat /\ 1 <= Len(quote)
  BY QuoteIs, Utf8Is
<1>4. 1 \in 1 .. Len(quote)
  BY <1>3
<1>5. QED
  BY <1>1, <1>2, <1>4 DEF StandsAt

\* A turn that leaves the answer open goes on.
LEMMA GoesOnGo ==
  ASSUME GoInv, Inv', UNCHANGED <<given, answer>>, Opens, sI' # 1,
         NEW n, n = sI' - 1, NEW t, t = s', GoAt(n, t)
  PROVE  GoInv'
<1>1. Given' /\ Opens' /\ GoAt(n, t)'
  BY GoKept DEF GoInv
<1>2. Going'
  BY <1>1 DEF Going
<1>3. QED
  BY <1>1, <1>2 DEF GoInv

\* A turn that answers ends the scan.
LEMMA AnswersGo ==
  ASSUME GoInv, Inv', UNCHANGED given, answer' # Pending
  PROVE  GoInv'
<1>1. Given'
  BY GoKept DEF GoInv
<1>2. QED
  BY <1>1 DEF GoInv, Pending

\* Where the loop stands.
LEMMA HereGo ==
  ASSUME GoInv, Scanning
  PROVE  /\ answer = Pending /\ InputOK /\ Given /\ Opens /\ OneCodeUnit(opts.quote)
         /\ q \in Nat /\ Len(bytes) \in Nat /\ qLen \in Nat
         /\ \E n \in Nat : sI = n + 1 /\ n <= Len(bytes) /\ n # 0 /\ GoAt(n, s)
<1>1. answer = Pending /\ sI > 1 /\ Inv /\ Given
  BY DEF GoInv, Scanning
<1>2. PICK n : n = sI - 1
  OBVIOUS
<1>3. /\ n \in Nat /\ sI = n + 1 /\ n <= Len(bytes) /\ Len(bytes) \in Nat /\ InputOK
      /\ n # 0 /\ sI # 1
  BY <1>1, <1>2, Here
<1>4. Opens /\ Going
  BY <1>1, <1>3 DEF GoInv
<1>5. GoAt(n, s)
  BY <1>2, <1>4 DEF Going
<1>6. OneCodeUnit(opts.quote) /\ q \in Nat
  BY <1>1, <1>3, <1>4, OpensAt
<1>7. qLen \in Nat
  BY <1>3, Bytes
<1>8. QED
  BY <1>1, <1>3, <1>4, <1>5, <1>6, <1>7

\* The quote that opens the field is its first character.
LEMMA OpenGo ==
  ASSUME GoInv, Inv', Open
  PROVE  GoInv'
<1>1. /\ answer = Pending /\ Opens /\ sI = 1 /\ UNCHANGED <<given, answer>>
      /\ sI' = 1 + qLen /\ s' = s
  BY DEF Open
<1>2. InputOK /\ Given /\ s = <<>> /\ qLen \in Nat
  BY <1>1, Bytes DEF GoInv, Inv
<1>3. OneCodeUnit(opts.quote) /\ src[1] = q /\ q \in Nat
  BY <1>1, <1>2, OpensAt
<1>4. PICK x \in Seq(Nat), u \in Seq(Nat) : x = src /\ u = Utf8(q)
  BY <1>2, <1>3, Utf8Type DEF Given
<1>5. qLen = Len(u) /\ 1 <= qLen
  BY <1>2, <1>3, <1>4, QuoteIs, Utf8Is DEF qLen
<1>6. 1 <= Len(x) /\ Len(x) \in Nat
  BY <1>2, <1>4, LenProperties, EmptySeq DEF Given
<1>7. PICK z \in Nat, m \in Nat : z = 0 /\ m = z + 1
  OBVIOUS
<1>8. Off(x, m) = qLen
  <2>1. Off(x, m) = Off(x, z) + Len(Utf8(x[m]))
    BY <1>6, <1>7, UpToNext
  <2>2. Off(x, z) = 0 /\ x[m] = q
    BY <1>3, <1>4, <1>7, UpToStart
  <2>3. QED
    BY <1>2, <1>4, <1>5, <2>1, <2>2
<1>9. Chars!Passed(m)
  <2>1. Chars!Passed(1)
    BY Chars!NoQuotes, TextAssumption, QuoteAssumption DEF Chars!Char, Chars!IsControl, Char
  <2>2. QED
    BY <1>7, <2>1
<1>10. Says(m) = <<>>
  <2>1. Chars!SaidUpTo(src, q, 1) = <<>>
    BY Chars!SaidNothing, TextAssumption, QuoteAssumption DEF Chars!Char, Chars!IsControl, Char
  <2>2. QED
    BY <1>7, <2>1 DEF Says
<1>11. Reached(m, z, qLen, s)
  <2>1. <<>> \in Seq(Nat) /\ s = Encoded(<<>>)
    BY <1>2, EncodedEmpty
  <2>2. qLen = Off(src, m) + z
    BY <1>2, <1>4, <1>7, <1>8
  <2>3. 1 <= m /\ m <= Len(src) /\ z = 0
    BY <1>4, <1>6, <1>7
  <2>4. Says(m) \in Seq(Nat) /\ s = Encoded(Says(m))
    BY <1>10, <2>1
  <2>5. QED
    BY <1>9, <2>2, <2>3, <2>4 DEF Reached
<1>12. PICK n \in Nat : n = qLen /\ n = sI' - 1 /\ sI' # 1
  BY <1>1, <1>2, <1>5
<1>13. GoAt(n, s)
  BY <1>11, <1>12 DEF GoAt
<1>14. QED
  BY <1>1, <1>12, <1>13, GoesOnGo

\* A pair of quotes is two characters, and says one.
LEMMA EscapedQuoteGo ==
  ASSUME GoInv, Inv', EscapedQuote
  PROVE  GoInv'
<1>1. /\ Scanning /\ QuoteAt(sI) /\ QuoteAt(sI + qLen) /\ UNCHANGED <<given, answer>>
      /\ sI' = sI + 2 * qLen /\ s' = s \o quote
  BY DEF EscapedQuote
<1>2. /\ InputOK /\ Given /\ Opens /\ OneCodeUnit(opts.quote) /\ q \in Nat /\ qLen \in Nat
      /\ answer = Pending
  BY <1>1, HereGo
<1>3. PICK n \in Nat : sI = n + 1 /\ GoAt(n, s)
  BY <1>1, HereGo
<1>4. PICK m \in Nat : /\ Reached(m, 0, n, s) /\ m + 1 <= Len(src) /\ src[m + 1] = q
                       /\ Off(src, m + 1) = n + qLen
                       /\ m + 2 <= Len(src) /\ src[m + 2] = q
  BY <1>1, <1>2, <1>3, AtQuote
<1>5. 1 <= m /\ Chars!Passed(m) /\ Says(m) \in Seq(Nat) /\ s = Encoded(Says(m))
  BY <1>4 DEF Reached
<1>6. PICK l \in Nat, k \in Nat : l = m + 1 /\ k = l + 1 /\ k = m + 2
  OBVIOUS
<1>7. Chars!Passed(k) /\ Says(k) = Append(Says(m), q)
  <2>1. /\ Len(src) \in Nat /\ m + 2 <= Len(src) /\ Chars!q \in Nat
        /\ src[m + 1] = Chars!q /\ src[m + 2] = Chars!q
        /\ Chars!SaidUpTo(src, Chars!q, m) \in Seq(Nat)
    BY <1>2, <1>4, <1>5, LenProperties DEF q, Given, Says
  <2>2. /\ Chars!Passed(m + 2)
        /\ Chars!SaidUpTo(src, Chars!q, m + 2) = Append(Chars!SaidUpTo(src, Chars!q, m), Chars!q)
    BY <1>5, <2>1, Chars!PairPassed, TextAssumption, QuoteAssumption
       DEF Chars!Char, Chars!IsControl, Char
  <2>3. QED
    BY <1>6, <2>2 DEF q, Says
<1>8. PICK e \in Seq(Nat), c \in Nat : e = Says(m) /\ c = q
  BY <1>2, <1>5
<1>9. Says(k) \in Seq(Nat) /\ Says(k) = Append(e, c)
  BY <1>7, <1>8, AppendProperties
<1>10. s' = Encoded(Says(k))
  <2>1. Encoded(Append(e, c)) = Encoded(e) \o Utf8(c)
    BY EncodedOn
  <2>2. quote = Utf8(c)
    BY <1>2, <1>8, QuoteIs
  <2>3. QED
    BY <1>1, <1>5, <1>8, <1>9, <2>1, <2>2
<1>11. Off(src, k) = n + 2 * qLen
  <2>1. PICK x \in Seq(Nat) : x = src
    BY <1>2 DEF Given
  <2>2. Off(x, k) = Off(x, l) + Len(Utf8(x[k]))
    BY <1>4, <1>6, <2>1, UpToNext
  <2>3. Len(Utf8(x[k])) = qLen /\ Off(x, l) = n + qLen
    BY <1>2, <1>4, <1>6, <2>1, QuoteIs DEF qLen
  <2>4. QED
    BY <1>2, <2>1, <2>2, <2>3
<1>12. PICK i \in Nat : i = n + 2 * qLen
  BY <1>2
<1>13. i = sI' - 1 /\ sI' # 1
  <2>1. Scanning /\ sI > 1
    BY <1>1 DEF Scanning
  <2>2. QED
    BY <1>1, <1>2, <1>3, <1>12, <2>1
<1>14. PICK t : t = s'
  OBVIOUS
<1>15. Reached(k, 0, i, t)
  <2>1. i = Off(src, k) + 0 /\ 1 <= k /\ k <= Len(src)
    BY <1>4, <1>6, <1>11, <1>12
  <2>2. QED
    BY <1>7, <1>9, <1>10, <1>14, <2>1 DEF Reached
<1>16. GoAt(i, t)
  BY <1>15 DEF GoAt
<1>17. QED
  BY <1>1, <1>2, <1>13, <1>14, <1>16, GoesOnGo

\* The loop takes one byte.
LEMMA TakesGo ==
  ASSUME GoInv, Inv', InBody, UNCHANGED <<given, answer>>,
         opts.allow \/ ~IsControl(bytes[sI]) \/ bytes[sI] \in LineChars,
         s' = Append(s, bytes[sI]), sI' = sI + 1
  PROVE  GoInv'
<1>1. Scanning /\ sI <= Len(bytes) /\ ~QuoteAt(sI) /\ sI > 1
  BY DEF InBody, HasByte, Scanning
<1>2. InputOK /\ Opens /\ OneCodeUnit(opts.quote)
  BY <1>1, HereGo
<1>3. PICK n \in Nat : sI = n + 1 /\ GoAt(n, s)
  BY <1>1, HereGo
<1>4. PICK i \in Nat : i = n + 1 /\ i = sI
  BY <1>3
<1>5. PICK b, t : b = bytes[i] /\ t = Append(s, b)
  OBVIOUS
<1>6. GoAt(i, t)
  <2>1. GoAt(i, Append(s, b))
    BY <1>1, <1>2, <1>3, <1>4, <1>5, ByteOn
  <2>2. QED
    BY <1>5, <2>1
<1>7. i = sI' - 1 /\ sI' # 1 /\ t = s'
  BY <1>1, <1>4, <1>5
<1>8. QED
  BY <1>2, <1>6, <1>7, GoesOnGo

\* The inner loop may stop within a character.
LEMMA BodyGo ==
  ASSUME GoInv, Inv', Body
  PROVE  GoInv'
<1>1. /\ InBody /\ Scanning /\ UNCHANGED <<given, answer>> /\ sI <= Len(bytes) /\ ~QuoteAt(sI)
      /\ ~IsControl(bytes[sI])
      /\ s' = s \o SubSeq(bytes, sI, BodyStop - 1) /\ sI' = BodyStop
  BY DEF Body, InBody, HasByte
<1>2. InputOK /\ Opens /\ OneCodeUnit(opts.quote) /\ Len(bytes) \in Nat
  BY <1>1, HereGo
<1>3. PICK n \in Nat : sI = n + 1 /\ n # 0 /\ GoAt(n, s)
  BY <1>1, HereGo
<1>4. PICK stop \in Nat : /\ stop = BodyStop - 1 /\ BodyStop = stop + 1 /\ n <= stop
                          /\ stop <= Len(bytes)
                          /\ \A i \in sI .. stop : ~IsControl(bytes[i]) /\ bytes[i] # quote[1]
  <2>1. /\ BodyStop \in sI .. Len(bytes) + 1
        /\ \A i \in sI .. BodyStop - 1 : ~IsControl(bytes[i]) /\ bytes[i] # quote[1]
    BY <1>1, StopsAt DEF GoInv
  <2>2. PICK b : b = BodyStop
    OBVIOUS
  <2>3. b \in Int /\ n + 1 <= b /\ b <= Len(bytes) + 1
    BY <1>2, <1>3, <2>1, <2>2
  <2>4. PICK stop \in Nat : b = stop + 1
    BY <2>3
  <2>5. stop = BodyStop - 1 /\ n <= stop /\ stop <= Len(bytes)
    BY <1>2, <2>2, <2>3, <2>4
  <2>6. QED
    BY <2>1, <2>2, <2>4, <2>5
<1>5. \A i \in n + 1 .. stop : ~QuoteAt(i) /\ ~IsControl(bytes[i])
  <2>1. SUFFICES ASSUME NEW i \in n + 1 .. stop PROVE ~QuoteAt(i)
    BY <1>3, <1>4
  <2>2. bytes[i] # quote[1]
    BY <1>3, <1>4
  <2>3. i \in Nat /\ i >= 1
    OBVIOUS
  <2>4. QED
    BY <1>2, <2>2, <2>3, QuoteBegins
<1>6. GoAt(stop, s \o SubSeq(bytes, n + 1, stop))
  BY <1>2, <1>3, <1>4, <1>5, StretchOn
<1>7. PICK t : t = s'
  OBVIOUS
<1>8. GoAt(stop, t)
  BY <1>1, <1>3, <1>4, <1>6, <1>7
<1>9. stop = sI' - 1 /\ sI' # 1
  BY <1>1, <1>3, <1>4
<1>10. QED
  BY <1>1, <1>2, <1>7, <1>8, <1>9, GoesOnGo

\* Three texts, one behind the other.
Regroups(x, y, z) == (x \o y) \o z = x \o (y \o z)

LEMMA Regroup ==
  ASSUME NEW x \in Seq(Nat), NEW y \in Seq(Nat), NEW z \in Seq(Nat)
  PROVE  Regroups(x, y, z)
BY ConcatAssociative, SMTT(30) DEF Regroups

-----------------------------------------------------------------------------
(* What precedes the field, by bytes and by characters.                    *)

\* The text y ends with x: by what precedes it, and element by element.
Ends(x, y) == \E a \in Seq(Nat) : y = a \o x
EndsAt(x, y) ==
  /\ Len(x) <= Len(y)
  /\ \A k \in 1 .. Len(x) : y[Len(y) - Len(x) + k] = x[k]

\* What a part of a sequence holds.
LEMMA SubSeqOf ==
  ASSUME NEW S, NEW y \in Seq(S), NEW i \in Nat, 1 <= i, NEW n \in Nat, i <= n + 1, n <= Len(y)
  PROVE  /\ SubSeq(y, i, n) \in Seq(S) /\ Len(SubSeq(y, i, n)) = n + 1 - i
         /\ \A k \in 1 .. n + 1 - i : SubSeq(y, i, n)[k] = y[i + k - 1]
<1>1. \A j \in i .. n : y[j] \in S
  BY LenProperties, ElementOfSeq
<1>2. Len(SubSeq(y, i, n)) = IF i <= n THEN n - i + 1 ELSE 0
  BY <1>1, SubSeqProperties
<1>3. n - i + 1 = n + 1 - i /\ (~(i <= n) => n + 1 - i = 0)
  OBVIOUS
<1>4. QED
  BY <1>1, <1>2, <1>3, SubSeqProperties

\* What two texts, one behind the other, hold.
LEMMA ConcatIs ==
  ASSUME NEW a \in Seq(Nat), NEW x \in Seq(Nat)
  PROVE  /\ a \o x \in Seq(Nat) /\ Len(a \o x) = Len(a) + Len(x)
         /\ Len(a) \in Nat /\ Len(x) \in Nat
         /\ \A k \in 1 .. Len(a) : (a \o x)[k] = a[k]
         /\ \A k \in 1 .. Len(x) : (a \o x)[Len(a) + k] = x[k]
<1>1. Len(a) \in Nat /\ Len(x) \in Nat
  BY LenProperties
<1>2. \A k \in 1 .. Len(x) : (a \o x)[Len(a) + k] = x[k]
  <2>1. SUFFICES ASSUME NEW k \in 1 .. Len(x) PROVE (a \o x)[Len(a) + k] = x[k]
    OBVIOUS
  <2>2. PICK p \in Nat : p = Len(a) + k
    BY <1>1
  <2>3. p \in Len(a) + 1 .. Len(a) + Len(x) /\ p - Len(a) = k
    BY <1>1, <2>2
  <2>4. (a \o x)[p] = x[p - Len(a)]
    BY <2>3, ConcatProperties
  <2>5. QED
    BY <2>2, <2>3, <2>4
<1>3. QED
  BY <1>1, <1>2, ConcatProperties

\* A text is its first characters and its last ones.
LEMMA SplitAt ==
  ASSUME NEW y \in Seq(Nat), NEW m \in Nat, m <= Len(y)
  PROVE  y = SubSeq(y, 1, m) \o SubSeq(y, m + 1, Len(y))
<1>1. PICK n \in Nat, i \in Nat : n = Len(y) /\ i = m + 1
  BY LenProperties
<1>2. PICK a \in Seq(Nat), x \in Seq(Nat) :
        /\ a = SubSeq(y, 1, m) /\ x = SubSeq(y, i, n) /\ Len(a) = m /\ Len(x) = n - m
        /\ \A k \in 1 .. m : a[k] = y[k]
        /\ \A k \in 1 .. n - m : x[k] = y[m + k]
  <2>1. /\ SubSeq(y, 1, m) \in Seq(Nat) /\ Len(SubSeq(y, 1, m)) = m
        /\ \A k \in 1 .. m : SubSeq(y, 1, m)[k] = y[k]
    <3>1. /\ SubSeq(y, 1, m) \in Seq(Nat) /\ Len(SubSeq(y, 1, m)) = m + 1 - 1
          /\ \A k \in 1 .. m + 1 - 1 : SubSeq(y, 1, m)[k] = y[1 + k - 1]
      BY <1>1, SubSeqOf
    <3>2. m + 1 - 1 = m /\ \A k \in 1 .. m : 1 + k - 1 = k
      OBVIOUS
    <3>3. QED
      BY <3>1, <3>2
  <2>2. /\ SubSeq(y, i, n) \in Seq(Nat) /\ Len(SubSeq(y, i, n)) = n - m
        /\ \A k \in 1 .. n - m : SubSeq(y, i, n)[k] = y[m + k]
    <3>1. /\ SubSeq(y, i, n) \in Seq(Nat) /\ Len(SubSeq(y, i, n)) = n + 1 - i
          /\ \A k \in 1 .. n + 1 - i : SubSeq(y, i, n)[k] = y[i + k - 1]
      BY <1>1, SubSeqOf
    <3>2. n + 1 - i = n - m /\ \A k \in 1 .. n - m : i + k - 1 = m + k
      BY <1>1
    <3>3. QED
      BY <3>1, <3>2
  <2>3. QED
    BY <2>1, <2>2
<1>3. PICK z \in Seq(Nat) :
        /\ z = a \o x /\ Len(z) = n
        /\ \A k \in 1 .. m : z[k] = y[k]
        /\ \A k \in 1 .. n - m : z[m + k] = y[m + k]
  <2>1. PICK z \in Seq(Nat) : z = a \o x
    BY ConcatIs
  <2>2. Len(a \o x) = Len(a) + Len(x)
    BY ConcatIs
  <2>3. m + (n - m) = n
    BY <1>1
  <2>4. Len(z) = n
    BY <1>2, <2>1, <2>2, <2>3
  <2>5. \A k \in 1 .. m : z[k] = y[k]
    <3>1. \A k \in 1 .. Len(a) : (a \o x)[k] = a[k]
      BY ConcatIs
    <3>2. QED
      BY <1>2, <2>1, <3>1
  <2>6. \A k \in 1 .. n - m : z[m + k] = y[m + k]
    <3>1. \A k \in 1 .. Len(x) : (a \o x)[Len(a) + k] = x[k]
      BY ConcatIs
    <3>2. QED
      BY <1>2, <2>1, <3>1
  <2>7. QED
    BY <2>1, <2>4, <2>5, <2>6
<1>4. \A k \in 1 .. Len(z) : z[k] = y[k]
  <2>1. SUFFICES ASSUME NEW k \in 1 .. n PROVE z[k] = y[k]
    BY <1>3
  <2>2. CASE k <= m
    BY <1>3, <2>2
  <2>3. CASE ~(k <= m)
    <3>1. PICK j \in 1 .. n - m : k = m + j
      <4>1. k - m \in 1 .. n - m /\ k = m + (k - m)
        BY <1>1, <2>3
      <4>2. QED
        BY <4>1
    <3>2. QED
      BY <1>3, <3>1
  <2>4. QED
    BY <2>2, <2>3
<1>5. z = y
  BY <1>1, <1>3, <1>4, SameSeq
<1>6. QED
  BY <1>1, <1>2, <1>3, <1>5

\* Texts are written one behind the other.
LEMMA EncodedConcat ==
  ASSUME NEW a \in Seq(Nat), NEW x \in Seq(Nat)
  PROVE  Encoded(a \o x) = Encoded(a) \o Encoded(x)
<1>1. Len(x) \in Nat /\ \A k \in 1 .. Len(x) : x[k] \in Nat
  BY LenProperties, ElementOfSeq
<1>2. PICK ea \in Seq(Nat) : ea = Encoded(a)
  BY EncodedType
<1> DEFINE Holds(j) == Encoded(a \o SubSeq(x, 1, j)) = ea \o UpTo(x, j)
           T == {j \in Nat : j <= Len(x) /\ ~Holds(j)}
<1>3. T = {}
  <2>1. SUFFICES ASSUME T # {} PROVE FALSE
    OBVIOUS
  <2>2. PICK j \in Nat : j <= Len(x) /\ ~Holds(j)
                         /\ \A y \in Nat : y <= Len(x) /\ ~(j <= y) => Holds(y)
    <3>1. T \in SUBSET Nat
      OBVIOUS
    <3>2. PICK j \in T : \A y \in T : j <= y
      <4> HIDE DEF T
      <4>1. QED
        BY <2>1, <3>1, Least
    <3>3. QED
      BY <3>2
  <2> HIDE DEF T
  <2>3. j # 0
    <3>1. SubSeq(x, 1, 0) = <<>> /\ a \o <<>> = a /\ ea \o <<>> = ea
      OBVIOUS
    <3>2. UpTo(x, 0) = <<>>
      BY UpToStart
    <3>3. Holds(0)
      BY <1>2, <3>1, <3>2
    <3>4. QED
      BY <2>2, <3>3
  <2>4. PICK h \in Nat : j = h + 1 /\ h <= Len(x) /\ ~(j <= h)
    <3>1. j - 1 \in Nat /\ j = (j - 1) + 1
      BY <2>2, <2>3
    <3>2. QED
      BY <1>1, <2>2, <2>3, <3>1
  <2>5. Holds(h)
    BY <2>2, <2>4
  <2>6. PICK y \in Seq(Nat), c \in Nat : y = SubSeq(x, 1, h) /\ c = x[j]
    <3>1. SubSeq(x, 1, h) \in Seq(Nat)
      <4>1. 1 <= 1 /\ 1 <= h + 1
        BY <2>4
      <4>2. QED
        BY <2>4, <4>1, SubSeqOf
    <3>2. x[j] \in Nat
      BY <1>1, <2>2, <2>4
    <3>3. QED
      BY <3>1, <3>2
  <2>7. SubSeq(x, 1, j) = Append(y, c)
    <3>1. SubSeq(x, 1, h + 1) = Append(SubSeq(x, 1, h), x[h + 1])
      BY <1>1, <2>2, <2>4, SMTT(30)
    <3>2. QED
      BY <2>4, <2>6, <3>1
  <2>8. PICK ay \in Seq(Nat) : ay = a \o y
    BY ConcatProperties
  <2>9. a \o SubSeq(x, 1, j) = Append(ay, c)
    <3>1. Append(a \o y, c) = a \o Append(y, c)
      BY AppendTail, ZenonT(30)
    <3>2. QED
      BY <2>7, <2>8, <3>1
  <2>10. PICK u \in Seq(Nat), e \in Seq(Nat) : u = Utf8(c) /\ e = UpTo(x, h)
    BY <2>4, Utf8Type, UpToType
  <2>11. Encoded(Append(ay, c)) = Encoded(ay) \o u
    BY <2>10, EncodedOn
  <2>12. Encoded(ay) = ea \o e
    BY <2>5, <2>6, <2>8, <2>10
  <2>13. UpTo(x, j) = e \o u
    <3>1. j = h + 1 /\ j <= Len(x)
      BY <2>2, <2>4
    <3>2. UpTo(x, j) = UpTo(x, h) \o Utf8(x[j])
      BY <3>1, UpToNext
    <3>3. QED
      BY <2>6, <2>10, <3>2
  <2>14. (ea \o e) \o u = ea \o (e \o u)
    <3>1. Regroups(ea, e, u)
      BY Regroup
    <3>2. QED
      BY <3>1 DEF Regroups
  <2>15. Holds(j)
    BY <2>9, <2>11, <2>12, <2>13, <2>14
  <2>16. QED
    BY <2>2, <2>15
<1>4. Holds(Len(x))
  BY <1>1, <1>3
<1>5. SubSeq(x, 1, Len(x)) = x
  OBVIOUS
<1>6. QED
  BY <1>2, <1>4, <1>5, UpToEnd

\* What IsSuffix compares.
LEMMA ReverseIs ==
  ASSUME NEW S, NEW x \in Seq(S), NEW m \in Nat, m = Len(x)
  PROVE  /\ Reverse(x) \in Seq(S) /\ Len(Reverse(x)) = m
         /\ \A k \in 1 .. m : Reverse(x)[k] = x[m - k + 1]
<1>1. PICK r : r = Reverse(x) /\ r = [k \in 1 .. m |-> x[m - k + 1]]
  BY DEF Reverse
<1>2. \A k \in 1 .. m : m - k + 1 \in 1 .. m /\ x[m - k + 1] \in S
  BY ElementOfSeq
<1>3. r \in [1 .. m -> S]
  BY <1>1, <1>2
<1>4. r \in Seq(S) /\ Len(r) = m
  BY <1>3, IsSeq
<1>5. QED
  BY <1>1, <1>4

\* IsSuffix, element by element.
LEMMA SuffixAt ==
  ASSUME NEW S, NEW x \in Seq(S), NEW y \in Seq(S)
  PROVE  IsSuffix(x, y) <=> EndsAt(x, y)
<1>1. PICK m \in Nat, n \in Nat : m = Len(x) /\ n = Len(y)
  BY LenProperties
<1>2. PICK rx \in Seq(S), ry \in Seq(S) :
        /\ rx = Reverse(x) /\ Len(rx) = m /\ \A k \in 1 .. m : rx[k] = x[m - k + 1]
        /\ ry = Reverse(y) /\ Len(ry) = n /\ \A k \in 1 .. n : ry[k] = y[n - k + 1]
  <2>1. PICK rx \in Seq(S) :
          rx = Reverse(x) /\ Len(rx) = m /\ \A k \in 1 .. m : rx[k] = x[m - k + 1]
    BY <1>1, ReverseIs
  <2>2. PICK ry \in Seq(S) :
          ry = Reverse(y) /\ Len(ry) = n /\ \A k \in 1 .. n : ry[k] = y[n - k + 1]
    BY <1>1, ReverseIs
  <2>3. QED
    BY <2>1, <2>2
<1>3. IsSuffix(x, y) <=> m <= n /\ SubSeq(rx, 1, m) = SubSeq(ry, 1, m)
  BY <1>2 DEF IsSuffix, IsPrefix
<1>4. EndsAt(x, y) <=> m <= n /\ \A k \in 1 .. m : y[n - m + k] = x[k]
  BY <1>1 DEF EndsAt
<1>5. CASE ~(m <= n)
  BY <1>3, <1>4, <1>5
<1>6. CASE m <= n
  <2>1. PICK a \in Seq(S) : a = SubSeq(rx, 1, m) /\ Len(a) = m /\ \A k \in 1 .. m : a[k] = rx[k]
    <3>1. /\ SubSeq(rx, 1, m) \in Seq(S) /\ Len(SubSeq(rx, 1, m)) = m + 1 - 1
          /\ \A k \in 1 .. m + 1 - 1 : SubSeq(rx, 1, m)[k] = rx[1 + k - 1]
      BY <1>2, SubSeqOf
    <3>2. m + 1 - 1 = m /\ \A k \in 1 .. m : 1 + k - 1 = k
      OBVIOUS
    <3>3. QED
      BY <3>1, <3>2
  <2>2. PICK b \in Seq(S) : b = SubSeq(ry, 1, m) /\ Len(b) = m /\ \A k \in 1 .. m : b[k] = ry[k]
    <3>1. /\ SubSeq(ry, 1, m) \in Seq(S) /\ Len(SubSeq(ry, 1, m)) = m + 1 - 1
          /\ \A k \in 1 .. m + 1 - 1 : SubSeq(ry, 1, m)[k] = ry[1 + k - 1]
      BY <1>2, <1>6, SubSeqOf
    <3>2. m + 1 - 1 = m /\ \A k \in 1 .. m : 1 + k - 1 = k
      OBVIOUS
    <3>3. QED
      BY <3>1, <3>2
  <2>3. a = b <=> \A k \in 1 .. m : a[k] = b[k]
    BY <2>1, <2>2
  <2>4. \A k \in 1 .. m : a[k] = x[m - k + 1] /\ b[k] = y[n - k + 1]
    BY <1>2, <1>6, <2>1, <2>2
  <2>5. ASSUME \A k \in 1 .. m : a[k] = b[k], NEW k \in 1 .. m
        PROVE  y[n - m + k] = x[k]
    <3>1. PICK j \in 1 .. m : j = m - k + 1
      OBVIOUS
    <3>2. m - j + 1 = k /\ n - j + 1 = n - m + k
      BY <3>1
    <3>3. a[j] = x[k] /\ b[j] = y[n - m + k]
      BY <2>4, <3>2
    <3>4. QED
      BY <2>5, <3>3
  <2>6. ASSUME \A k \in 1 .. m : y[n - m + k] = x[k], NEW k \in 1 .. m
        PROVE  a[k] = b[k]
    <3>1. PICK j \in 1 .. m : j = m - k + 1
      OBVIOUS
    <3>2. n - m + j = n - k + 1
      BY <3>1
    <3>3. y[n - k + 1] = x[j]
      BY <2>6, <3>2
    <3>4. QED
      BY <2>4, <3>1, <3>3
  <2>7. QED
    BY <1>3, <1>4, <1>6, <2>1, <2>2, <2>3, <2>5, <2>6
<1>7. QED
  BY <1>5, <1>6

\* QuotedField's Follows, element by element.
LEMMA FollowsAt ==
  ASSUME NEW S, NEW x \in Seq(S), NEW y \in Seq(S), x # <<>>
  PROVE  (\E i \in 1 .. Len(y) : SubSeq(y, i, Len(y)) = x) <=> EndsAt(x, y)
<1>1. PICK m \in Nat, n \in Nat : m = Len(x) /\ n = Len(y) /\ m # 0
  BY LenProperties, EmptySeq
<1>2. ASSUME NEW i \in 1 .. n
      PROVE  SubSeq(y, i, n) = x <=> i = n + 1 - m /\ \A k \in 1 .. m : y[n - m + k] = x[k]
  <2>1. PICK a \in Seq(S) : /\ a = SubSeq(y, i, n) /\ Len(a) = n + 1 - i
                            /\ \A k \in 1 .. n + 1 - i : a[k] = y[i + k - 1]
    <3>1. i \in Nat /\ 1 <= i /\ i <= n + 1 /\ n <= Len(y)
      BY <1>1
    <3>2. /\ SubSeq(y, i, n) \in Seq(S) /\ Len(SubSeq(y, i, n)) = n + 1 - i
          /\ \A k \in 1 .. n + 1 - i : SubSeq(y, i, n)[k] = y[i + k - 1]
      BY <3>1, SubSeqOf
    <3>3. QED
      BY <3>2
  <2>2. a = x <=> n + 1 - i = m /\ \A k \in 1 .. m : a[k] = x[k]
    <3>1. Len(a) = Len(x) /\ (\A k \in 1 .. Len(a) : a[k] = x[k]) => a = x
      OBVIOUS
    <3>2. Len(a) = n + 1 - i /\ Len(x) = m
      BY <1>1, <2>1
    <3>3. QED
      BY <3>1, <3>2
  <2>3. ASSUME i = n + 1 - m
        PROVE  \A k \in 1 .. m : a[k] = y[n - m + k]
    <3>1. \A k \in 1 .. m : i + k - 1 = n - m + k /\ k \in 1 .. n + 1 - i
      BY <2>3
    <3>2. QED
      BY <2>1, <3>1
  <2>4. n + 1 - i = m <=> i = n + 1 - m
    OBVIOUS
  <2>5. QED
    BY <2>1, <2>2, <2>3, <2>4
<1>3. EndsAt(x, y) <=> m <= n /\ \A k \in 1 .. m : y[n - m + k] = x[k]
  BY <1>1 DEF EndsAt
<1>4. ASSUME EndsAt(x, y)
      PROVE  \E i \in 1 .. n : SubSeq(y, i, n) = x
  <2>1. PICK i \in 1 .. n : i = n + 1 - m
    BY <1>1, <1>3, <1>4
  <2>2. SubSeq(y, i, n) = x
    BY <1>2, <1>3, <1>4, <2>1
  <2>3. QED
    BY <2>2
<1>5. ASSUME NEW i \in 1 .. n, SubSeq(y, i, n) = x
      PROVE  EndsAt(x, y)
  BY <1>2, <1>3, <1>5
<1>6. QED
  BY <1>1, <1>4, <1>5

\* A text ends with another where some text stands before it.
LEMMA EndsIs ==
  ASSUME NEW x \in Seq(Nat), NEW y \in Seq(Nat)
  PROVE  EndsAt(x, y) <=> Ends(x, y)
<1>1. PICK m \in Nat, n \in Nat : m = Len(x) /\ n = Len(y)
  BY LenProperties
<1>2. ASSUME EndsAt(x, y)
      PROVE  Ends(x, y)
  <2>1. m <= n /\ \A k \in 1 .. m : y[n - m + k] = x[k]
    BY <1>1, <1>2 DEF EndsAt
  <2>2. PICK h \in Nat : h = n - m /\ h <= Len(y) /\ h + 1 <= n + 1 /\ n + 1 - (h + 1) = m
    <3>1. n - m \in Nat /\ n - m <= n /\ (n - m) + 1 <= n + 1 /\ n + 1 - ((n - m) + 1) = m
      BY <2>1
    <3>2. QED
      BY <1>1, <3>1
  <2>3. PICK i \in Nat : i = h + 1 /\ 1 <= i /\ i <= n + 1 /\ n + 1 - i = m /\ n <= Len(y)
    <3>1. PICK i \in Nat : i = h + 1
      OBVIOUS
    <3>2. 1 <= i /\ i <= n + 1 /\ n + 1 - i = m
      BY <2>2, <3>1
    <3>3. n <= Len(y)
      BY <1>1
    <3>4. QED
      BY <3>1, <3>2, <3>3
  <2>4. PICK a \in Seq(Nat) : a = SubSeq(y, 1, h)
    <3>1. 1 \in Nat /\ 1 <= 1 /\ 1 <= h + 1
      OBVIOUS
    <3>2. SubSeq(y, 1, h) \in Seq(Nat)
      BY <2>2, <3>1, SubSeqOf
    <3>3. QED
      BY <3>2
  <2>5. PICK b \in Seq(Nat) : /\ b = SubSeq(y, i, n) /\ Len(b) = m
                              /\ \A k \in 1 .. m : b[k] = y[i + k - 1]
    <3>1. /\ SubSeq(y, i, n) \in Seq(Nat) /\ Len(SubSeq(y, i, n)) = n + 1 - i
          /\ \A k \in 1 .. n + 1 - i : SubSeq(y, i, n)[k] = y[i + k - 1]
      BY <2>3, SubSeqOf
    <3>2. QED
      BY <2>3, <3>1
  <2>6. y = a \o b
    <3>1. y = SubSeq(y, 1, h) \o SubSeq(y, h + 1, Len(y))
      BY <2>2, SplitAt
    <3>2. QED
      BY <1>1, <2>3, <2>4, <2>5, <3>1
  <2>7. b = x
    <3>1. \A k \in 1 .. m : i + k - 1 = n - m + k
      BY <2>2, <2>3
    <3>2. \A k \in 1 .. m : b[k] = x[k]
      BY <2>1, <2>5, <3>1, ZenonT(30)
    <3>3. Len(b) = Len(x) /\ \A k \in 1 .. Len(b) : b[k] = x[k]
      BY <1>1, <2>5, <3>2
    <3>4. QED
      BY <3>3, SameSeq
  <2>8. QED
    BY <2>6, <2>7 DEF Ends
<1>3. ASSUME Ends(x, y)
      PROVE  EndsAt(x, y)
  <2>1. PICK a \in Seq(Nat) : y = a \o x
    BY <1>3 DEF Ends
  <2>2. PICK h \in Nat : h = Len(a)
    BY LenProperties
  <2>3. n = h + m /\ \A k \in 1 .. m : y[h + k] = x[k]
    <3>1. Len(a \o x) = Len(a) + Len(x) /\ \A k \in 1 .. Len(x) : (a \o x)[Len(a) + k] = x[k]
      BY ConcatIs
    <3>2. QED
      BY <1>1, <2>1, <2>2, <3>1
  <2>4. n - m = h /\ m <= n
    BY <2>3
  <2>5. QED
    BY <1>1, <2>3, <2>4 DEF EndsAt
<1>4. QED
  BY <1>2, <1>3

\* A byte that does not go on with a character begins one.
LEMMA CharacterAt ==
  ASSUME NEW y \in Seq(Nat), NEW p \in Nat, NEW i, i = p + 1, i <= Len(Encoded(y)),
         ~Continues(Encoded(y)[i])
  PROVE  \E h \in Nat : h <= Len(y) /\ p = Off(y, h)
<1>1. PICK n \in Nat : n = Len(y) /\ Off(y, n) = Len(Encoded(y)) /\ Off(y, n) \in Nat
  <2>1. Len(y) \in Nat /\ Off(y, Len(y)) = Len(Encoded(y))
    BY LenProperties, UpToEnd
  <2>2. Off(y, Len(y)) \in Nat
    BY <2>1, UpToType
  <2>3. QED
    BY <2>1, <2>2
<1> DEFINE T == {m \in Nat : m <= n /\ p < Off(y, m)}
<1>2. PICK m \in Nat : m <= n /\ p < Off(y, m)
                       /\ \A z \in Nat : z <= n /\ ~(m <= z) => ~(p < Off(y, z))
  <2>1. T \in SUBSET Nat /\ T # {}
    BY <1>1
  <2>2. PICK m \in T : \A z \in T : m <= z
    <3> HIDE DEF T
    <3>1. QED
      BY <2>1, Least
  <2>3. QED
    BY <2>2
<1> HIDE DEF T
<1>3. m # 0
  BY <1>2, UpToStart
<1>4. PICK h \in Nat : m = h + 1 /\ h <= n /\ ~(m <= h)
  <2>1. m - 1 \in Nat /\ m = (m - 1) + 1 /\ m - 1 <= n
    BY <1>2, <1>3
  <2>2. QED
    BY <2>1
<1>5. PICK o \in Nat : o = Off(y, h) /\ o <= p
  <2>1. Off(y, h) \in Nat
    BY <1>1, <1>4, UpToType
  <2>2. ~(p < Off(y, h))
    BY <1>2, <1>4
  <2>3. QED
    BY <2>1, <2>2
<1>6. PICK c \in Nat, u \in Seq(Nat) : c = y[m] /\ u = Utf8(c) /\ Off(y, m) = o + Len(u)
  <2>1. m <= Len(y)
    BY <1>1, <1>2
  <2>2. y[m] \in Nat /\ Off(y, m) = Off(y, h) + Len(Utf8(y[m]))
    BY <1>4, <2>1, UpToNext
  <2>3. QED
    BY <1>5, <2>2, Utf8Type
<1>7. Len(u) \in Nat /\ \A k \in 2 .. Len(u) : Continues(u[k])
  BY <1>6, Utf8Is
<1>8. PICK k \in Nat : k = p - o + 1 /\ 1 <= k /\ k <= Len(u) /\ o + k = i
  <2>1. p < o + Len(u)
    BY <1>2, <1>6
  <2>2. p - o + 1 \in Nat /\ 1 <= p - o + 1 /\ p - o + 1 <= Len(u) /\ o + (p - o + 1) = i
    BY <1>5, <1>7, <2>1
  <2>3. QED
    BY <2>2
<1>9. Encoded(y)[i] = u[k]
  <2>1. m <= Len(y) /\ k <= Len(Utf8(y[m]))
    BY <1>1, <1>2, <1>6, <1>8
  <2>2. Encoded(y)[Off(y, h) + k] = Utf8(y[m])[k]
    BY <1>4, <1>8, <2>1, ByteOf
  <2>3. QED
    BY <1>5, <1>6, <1>8, <2>2
<1>10. k = 1
  <2>1. SUFFICES ASSUME k # 1 PROVE FALSE
    OBVIOUS
  <2>2. k \in 2 .. Len(u)
    BY <1>7, <1>8, <2>1
  <2>3. QED
    BY <1>7, <1>9, <2>2
<1>11. p = o
  BY <1>8, <1>10
<1>12. QED
  BY <1>1, <1>4, <1>5, <1>11

\* The bytes of a text end with those of another where the text ends with it.
LEMMA EndsInBytes ==
  ASSUME NEW x \in Seq(Nat), NEW y \in Seq(Nat), x # <<>>
  PROVE  EndsAt(Encoded(x), Encoded(y)) <=> EndsAt(x, y)
<1>1. PICK ex \in Seq(Nat), ey \in Seq(Nat) : ex = Encoded(x) /\ ey = Encoded(y)
  BY EncodedType
<1>2. ASSUME Ends(x, y)
      PROVE  Ends(ex, ey)
  <2>1. PICK a \in Seq(Nat) : y = a \o x
    BY <1>2 DEF Ends
  <2>2. Encoded(a \o x) = Encoded(a) \o Encoded(x)
    BY EncodedConcat
  <2>3. PICK ea \in Seq(Nat) : ea = Encoded(a)
    BY EncodedType
  <2>4. ey = ea \o ex
    BY <1>1, <2>1, <2>2, <2>3
  <2>5. QED
    BY <2>4 DEF Ends
<1>3. ASSUME EndsAt(ex, ey)
      PROVE  Ends(x, y)
  <2>1. PICK m \in Nat, n \in Nat : m = Len(ex) /\ n = Len(ey)
    BY LenProperties
  <2>2. m <= n /\ \A k \in 1 .. m : ey[n - m + k] = ex[k]
    BY <1>3, <2>1 DEF EndsAt
  <2>3. 1 <= m /\ ~Continues(ex[1])
    <3>1. PICK z \in Nat, l \in Nat : z = 0 /\ l = z + 1
      OBVIOUS
    <3>2. l <= Len(x)
      BY <3>1, LenProperties, EmptySeq
    <3>3. x[l] \in Nat /\ Off(x, z) = 0
      BY <3>1, <3>2, UpToNext, UpToStart
    <3>4. PICK u \in Seq(Nat) : u = Utf8(x[l])
      BY <3>3, Utf8Type
    <3>5. Len(u) \in Nat /\ 1 <= Len(u) /\ ~Continues(u[1])
      BY <3>3, <3>4, Utf8Is
    <3>6. l <= Len(Utf8(x[l])) /\ 1 <= l
      BY <3>1, <3>4, <3>5
    <3>7. /\ Off(x, z) + l <= Len(Encoded(x))
          /\ Encoded(x)[Off(x, z) + l] = Utf8(x[l])[l]
      BY <3>1, <3>2, <3>6, ByteOf
    <3>8. Off(x, z) + l = 1 /\ l = 1
      BY <3>1, <3>3
    <3>9. QED
      BY <1>1, <2>1, <3>4, <3>5, <3>7, <3>8
  <2>4. PICK p \in Nat, i \in Nat : p = n - m /\ i = p + 1 /\ i <= n
    <3>1. n - m \in Nat /\ n - m + 1 \in Nat /\ n - m + 1 <= n
      BY <2>2, <2>3
    <3>2. QED
      BY <3>1
  <2>5. ey[i] = ex[1]
    <3>1. 1 \in 1 .. m
      BY <2>3
    <3>2. QED
      BY <2>2, <2>4, <3>1
  <2>6. PICK h \in Nat : h <= Len(y) /\ p = Off(y, h)
    <3>1. i <= Len(Encoded(y)) /\ ~Continues(Encoded(y)[i])
      BY <1>1, <2>1, <2>3, <2>4, <2>5
    <3>2. QED
      BY <2>4, <3>1, CharacterAt
  <2>7. PICK a \in Seq(Nat), b \in Seq(Nat) : y = a \o b /\ Len(Encoded(a)) = p
    <3>1. PICK a \in Seq(Nat) : a = SubSeq(y, 1, h)
      <4>1. 1 \in Nat /\ 1 <= 1 /\ 1 <= h + 1
        OBVIOUS
      <4>2. SubSeq(y, 1, h) \in Seq(Nat)
        BY <2>6, <4>1, SubSeqOf
      <4>3. QED
        BY <4>2
    <3>2. PICK b \in Seq(Nat) : b = SubSeq(y, h + 1, Len(y))
      <4>1. h + 1 \in Nat /\ 1 <= h + 1 /\ h + 1 <= Len(y) + 1 /\ Len(y) \in Nat /\ Len(y) <= Len(y)
        BY <2>6, LenProperties
      <4>2. SubSeq(y, h + 1, Len(y)) \in Seq(Nat)
        BY <4>1, SubSeqOf
      <4>3. QED
        BY <4>2
    <3>3. y = SubSeq(y, 1, h) \o SubSeq(y, h + 1, Len(y))
      BY <2>6, SplitAt
    <3>4. Len(Encoded(a)) = p
      BY <2>6, <3>1 DEF Off, UpTo
    <3>5. QED
      BY <3>1, <3>2, <3>3, <3>4
  <2>8. PICK ea \in Seq(Nat), eb \in Seq(Nat) :
          ea = Encoded(a) /\ eb = Encoded(b) /\ ey = ea \o eb
    <3>1. Encoded(a \o b) = Encoded(a) \o Encoded(b)
      BY EncodedConcat
    <3>2. Encoded(a) \in Seq(Nat) /\ Encoded(b) \in Seq(Nat)
      BY EncodedType
    <3>3. QED
      BY <1>1, <2>7, <3>1, <3>2
  <2>9. PICK w \in Nat : w = Len(eb) /\ n = p + w /\ \A k \in 1 .. w : ey[p + k] = eb[k]
    <3>1. /\ Len(ea \o eb) = Len(ea) + Len(eb) /\ Len(eb) \in Nat
          /\ \A k \in 1 .. Len(eb) : (ea \o eb)[Len(ea) + k] = eb[k]
      BY ConcatIs
    <3>2. Len(ea) = p
      BY <2>7, <2>8
    <3>3. QED
      BY <2>1, <2>8, <3>1, <3>2
  <2>10. w = m
    BY <2>4, <2>9
  <2>11. eb = ex
    <3>1. \A k \in 1 .. w : eb[k] = ex[k]
      BY <2>2, <2>4, <2>9, <2>10
    <3>2. Len(eb) = Len(ex) /\ \A k \in 1 .. Len(eb) : eb[k] = ex[k]
      BY <2>1, <2>9, <2>10, <3>1
    <3>3. QED
      BY <3>2, SameSeq
  <2>12. b = x
    <3>1. Decoded(Encoded(b)) = b /\ Decoded(Encoded(x)) = x
      BY ReadsBack
    <3>2. QED
      BY <1>1, <2>8, <2>11, <3>1
  <2>13. QED
    BY <2>7, <2>12 DEF Ends
<1>4. QED
  BY <1>1, <1>2, <1>3, EndsIs

\* A token's bytes precede the field where its characters do.
LEMMA FollowsToken ==
  ASSUME before \in Seq(Nat), NEW x \in Seq(Nat), x # <<>>
  PROVE  IsSuffix(Encoded(x), Encoded(before)) <=> Field!Follows(x)
<1>1. PICK y \in Seq(Nat) : y = before
  OBVIOUS
<1>2. PICK ex \in Seq(Nat), ey \in Seq(Nat) : ex = Encoded(x) /\ ey = Encoded(y)
  BY EncodedType
<1>3. IsSuffix(ex, ey) <=> EndsAt(ex, ey)
  BY SuffixAt
<1>4. EndsAt(ex, ey) <=> EndsAt(x, y)
  BY <1>2, EndsInBytes
<1>5. (\E i \in 1 .. Len(y) : SubSeq(y, i, Len(y)) = x) <=> EndsAt(x, y)
  BY FollowsAt
<1>6. Field!Follows(x) <=> \E i \in 1 .. Len(y) : SubSeq(y, i, Len(y)) = x
  BY <1>1 DEF Field!Follows
<1>7. QED
  BY <1>1, <1>2, <1>3, <1>4, <1>5, <1>6

\* A character is looked up as one byte, and for one character.
LEMMA FollowsChar ==
  ASSUME before \in Seq(Nat), NEW c
  PROVE  IsSuffix(<<c>>, before) <=> Field!Follows(<<c>>)
<1>1. PICK S : S = Nat \union {c}
  OBVIOUS
<1>2. PICK y \in Seq(S) : y = before
  <2>1. \A k \in 1 .. Len(before) : before[k] \in S
    BY <1>1, ElementOfSeq
  <2>2. before \in [1 .. Len(before) -> S] /\ Len(before) \in Nat
    BY <2>1, LenProperties
  <2>3. QED
    BY <2>2, IsSeq
<1>3. PICK x \in Seq(S) : x = <<c>> /\ x # <<>>
  <2>1. <<c>> \in [1 .. 1 -> S] /\ 1 \in Nat
    BY <1>1
  <2>2. <<c>> \in Seq(S)
    BY <2>1, IsSeq
  <2>3. Len(<<c>>) = 1 /\ Len(<<>>) = 0
    OBVIOUS
  <2>4. QED
    BY <2>2, <2>3
<1>4. IsSuffix(x, y) <=> EndsAt(x, y)
  BY SuffixAt
<1>5. (\E i \in 1 .. Len(y) : SubSeq(y, i, Len(y)) = x) <=> EndsAt(x, y)
  BY <1>3, FollowsAt
<1>6. QED
  BY <1>2, <1>3, <1>4, <1>5 DEF Field!Follows

\* No empty token precedes a field.
LEMMA FollowsNothing ==
  ASSUME before \in Seq(Nat)
  PROVE  ~Field!Follows(<<>>)
<1>1. PICK y \in Seq(Nat), n \in Nat : y = before /\ n = Len(y)
  BY LenProperties
<1>2. SUFFICES ASSUME NEW i \in 1 .. n, SubSeq(y, i, n) = <<>> PROVE FALSE
  BY <1>1 DEF Field!Follows
<1>3. i \in Nat /\ 1 <= i /\ i <= n + 1 /\ n <= Len(y)
  BY <1>1
<1>4. Len(SubSeq(y, i, n)) = n + 1 - i
  BY <1>3, SubSeqOf
<1>5. QED
  BY <1>2, <1>4

\* By bytes, a field starts where it starts by characters.
LEMMA FieldStarts ==
  ASSUME before \in Seq(Nat)
  PROVE  FieldStart <=> Field!AtFieldStart
<1>1. (\E c \in LineChars \union SpaceChars : IsSuffix(<<c>>, before))
        <=> \E c \in LineChars \union SpaceChars : Field!Follows(<<c>>)
  BY FollowsChar
<1>2. (\E fixed \in FixedTokens \ {<<>>} : IsSuffix(Encoded(fixed), Encoded(before)))
        <=> \E fixed \in FixedTokens : Field!Follows(fixed)
  <2>1. \A fixed \in FixedTokens : fixed \in Seq(Nat)
    BY FixedTokensAssumption DEF Char
  <2>2. \A fixed \in FixedTokens \ {<<>>} :
          IsSuffix(Encoded(fixed), Encoded(before)) <=> Field!Follows(fixed)
    BY <2>1, FollowsToken
  <2>3. QED
    BY <2>2, FollowsNothing
<1>3. QED
  BY <1>1, <1>2, Zenon DEF FieldStart, Field!AtFieldStart

\* It opens a field where QuotedField does.
LEMMA OpensWhere ==
  ASSUME Given, InputOK
  PROVE  Opens <=> Field!Fires
<1>1. FieldStart <=> Field!AtFieldStart
  BY FieldStarts DEF Given
<1>2. OneCodeUnit(opts.quote) <=> Field!OneCodeUnit(opts.quote)
  BY DEF OneCodeUnit, Field!OneCodeUnit
<1>3. ASSUME OneCodeUnit(opts.quote)
      PROVE  QuoteAt(1) <=> src[1] = q
  <2>1. PICK z \in Nat, l \in Nat : z = 0 /\ l = z + 1
    OBVIOUS
  <2>2. Len(src) \in Nat /\ l <= Len(src)
    BY <2>1, LenProperties, EmptySeq DEF Given
  <2>3. z <= Len(src) /\ l = Off(src, z) + 1
    BY <2>1, <2>2, UpToStart DEF Given
  <2>4. QuoteAt(l) <=> l <= Len(src) /\ src[l] = q
    BY <1>3, <2>1, <2>3, QuoteAtChar
  <2>5. QED
    BY <2>1, <2>2, <2>4
<1>4. q = opts.quote[1]
  BY DEF q, Chars!q
<1>5. Opens <=> OneCodeUnit(opts.quote) /\ QuoteAt(1) /\ FieldStart
  BY DEF Opens
<1>6. Field!Fires <=> Field!OneCodeUnit(opts.quote) /\ src[1] = q /\ Field!AtFieldStart
  BY <1>4 DEF Field!Fires
<1>7. QED
  BY <1>1, <1>2, <1>3, <1>5, <1>6

-----------------------------------------------------------------------------
(* The answer, in characters.                                              *)

\* An answer of the loop over the bytes bs.
InChars(a, bs) ==
  [a EXCEPT !.text = Decoded(@), !.end = Len(Decoded(SubSeq(bs, 1, @)))]

\* An answer in characters, from its text and its end.
LEMMA InCharsIs ==
  ASSUME NEW bs, NEW kind, NEW text, NEW end, NEW t, NEW e,
         Decoded(text) = t, Len(Decoded(SubSeq(bs, 1, end))) = e
  PROVE  InChars(Answer(kind, text, end), bs) = Answer(kind, t, e)
<1>1. PICK a : a = [kind |-> kind, text |-> text, end |-> end]
  OBVIOUS
<1>2. a.text = text /\ a.end = end
  BY <1>1
<1>3. PICK x, y : x = Decoded(a.text) /\ y = Len(Decoded(SubSeq(bs, 1, a.end)))
  OBVIOUS
<1>4. PICK b : b = InChars(a, bs) /\ b = [a EXCEPT !.text = x, !.end = y]
  BY <1>3, Zenon DEF InChars
<1>5. DOMAIN b = {"kind", "text", "end"} /\ b.kind = kind /\ b.text = x /\ b.end = y
  BY <1>1, <1>4
<1>6. b = [a EXCEPT !.text = x, !.end = y]
  BY <1>4
<1>7. b = [kind |-> kind, text |-> x, end |-> y]
  BY <1>1, <1>5, <1>6
<1>8. QED
  BY <1>1, <1>2, <1>3, <1>4, <1>7 DEF Answer

LEMMA DecodedEmpty == Decoded(<<>>) = <<>>
<1>1. <<>> \in Seq(Nat)
  OBVIOUS
<1>2. QED
  BY <1>1, EncodedEmpty, ReadsBack

\* The bytes of the first l characters are l characters.
LEMMA DecodedUpTo ==
  ASSUME NEW x \in Seq(Nat), NEW l \in Nat, l <= Len(x), NEW o, o = Off(x, l)
  PROVE  Len(Decoded(SubSeq(Encoded(x), 1, o))) = l
<1>1. PICK b \in Seq(Nat), n \in Nat : b = Encoded(x) /\ n = Len(b) /\ Len(x) \in Nat
  BY EncodedType, LenProperties
<1>2. PICK u \in Seq(Nat) : u = UpTo(x, l) /\ o \in Nat /\ Len(u) = o
  BY UpToType DEF Off
<1>3. o <= n /\ \A j \in 1 .. o : b[j] = u[j]
  <2>1. PICK w \in Nat : w = Len(x) /\ w <= Len(x)
    BY <1>1
  <2>2. UpTo(x, w) = b /\ Off(x, w) = n
    BY <1>1, <2>1, UpToEnd
  <2>3. Off(x, l) <= Off(x, w) /\ \A j \in 1 .. Off(x, l) : UpTo(x, w)[j] = UpTo(x, l)[j]
    BY <2>1, UpToSame
  <2>4. QED
    BY <1>2, <2>2, <2>3
<1>4. PICK a \in Seq(Nat) : a = SubSeq(b, 1, o) /\ Len(a) = o /\ \A j \in 1 .. o : a[j] = b[j]
  <2>1. 1 \in Nat /\ 1 <= 1 /\ 1 <= o + 1 /\ o <= Len(b)
    BY <1>1, <1>2, <1>3
  <2>2. /\ SubSeq(b, 1, o) \in Seq(Nat) /\ Len(SubSeq(b, 1, o)) = o + 1 - 1
        /\ \A j \in 1 .. o + 1 - 1 : SubSeq(b, 1, o)[j] = b[1 + j - 1]
    BY <1>2, <2>1, SubSeqOf
  <2>3. o + 1 - 1 = o /\ \A j \in 1 .. o : 1 + j - 1 = j
    BY <1>2
  <2>4. PICK a : a = SubSeq(b, 1, o)
    OBVIOUS
  <2>5. a \in Seq(Nat) /\ Len(a) = o
    BY <2>2, <2>3, <2>4
  <2>6. \A j \in 1 .. o : a[j] = b[j]
    BY <1>2, <2>2, <2>3, <2>4
  <2>7. QED
    BY <2>4, <2>5, <2>6
<1>5. a = u
  <2>1. Len(a) = Len(u) /\ \A j \in 1 .. Len(a) : a[j] = u[j]
    BY <1>2, <1>3, <1>4
  <2>2. QED
    BY <2>1, SameSeq
<1>6. PICK y \in Seq(Nat) : y = SubSeq(x, 1, l) /\ Len(y) = l
  <2>1. 1 \in Nat /\ 1 <= 1 /\ 1 <= l + 1
    OBVIOUS
  <2>2. SubSeq(x, 1, l) \in Seq(Nat) /\ Len(SubSeq(x, 1, l)) = l + 1 - 1
    BY <2>1, SubSeqOf
  <2>3. l + 1 - 1 = l
    OBVIOUS
  <2>4. QED
    BY <2>2, <2>3
<1>7. u = Encoded(y)
  BY <1>2, <1>6 DEF UpTo
<1>8. Decoded(u) = y
  BY <1>7, ReadsBack
<1>9. QED
  BY <1>1, <1>4, <1>5, <1>6, <1>8

\* No answer is none in characters too.
LEMMA InCharsNone ==
  ASSUME NEW bs \in Seq(Nat)
  PROVE  InChars(Pending, bs) = Pending /\ InChars(Unread, bs) = Unread
<1>1. PICK e \in Seq(Nat) : e = <<>>
  <2>1. <<>> \in Seq(Nat)
    OBVIOUS
  <2>2. QED
    BY <2>1
<1>2. SubSeq(bs, 1, 0) = e /\ Len(e) = 0 /\ Decoded(e) = e
  BY <1>1, DecodedEmpty
<1>3. Len(Decoded(SubSeq(bs, 1, 0))) = 0
  BY <1>2
<1>4. \A kind : InChars(Answer(kind, <<>>, 0), bs) = Answer(kind, <<>>, 0)
  BY <1>1, <1>2, <1>3, InCharsIs
<1>5. Pending = Answer("pending", <<>>, 0) /\ Unread = Answer("none", <<>>, 0)
  BY DEF Pending, Unread, Answer
<1>6. QED
  BY <1>4, <1>5

LEMMA InCharacter ==
  InCharacters = InChars(answer, bytes)
BY DEF InCharacters, InChars

-----------------------------------------------------------------------------
(* Every turn is a step of QuotedField, or none.                           *)

\* QuotedField's words are the ones the proofs about characters use.
LEMMA GoSameWords ==
  ASSUME NEW f, NEW c
  PROVE  /\ Chars!Field!Closings(f, c) = Field!Closings(f, c)
         /\ Chars!Field!Unprintables(f, c) = Field!Unprintables(f, c)
         /\ Chars!Field!Said(f, c) = Field!Said(f, c)
         /\ \A S : Chars!Field!Min(S) = Field!Min(S)
<1>1. \A S : Chars!Field!Cardinality(S) = Field!Cardinality(S)
  BY Zenon DEF Chars!Field!Cardinality, Field!Cardinality
<1>2. \A n : Chars!Field!QuotesUpTo(f, c, n) = Field!QuotesUpTo(f, c, n)
  BY <1>1 DEF Chars!Field!QuotesUpTo, Field!QuotesUpTo
<1>3. \A S : Chars!Field!Min(S) = Field!Min(S)
  BY DEF Chars!Field!Min, Field!Min
<1>4. Chars!Field!Closings(f, c) = Field!Closings(f, c)
  BY <1>2 DEF Chars!Field!Closings, Field!Closings, Chars!Field!Closes, Field!Closes
<1>5. Chars!Field!BodyEnd(f, c) = Field!BodyEnd(f, c)
  BY <1>3, <1>4 DEF Chars!Field!BodyEnd, Field!BodyEnd
<1>6. Chars!Field!Unprintables(f, c) = Field!Unprintables(f, c)
  BY <1>5 DEF Chars!Field!Unprintables, Field!Unprintables, Chars!Field!IsControl, Field!IsControl
<1>7. \A i : Chars!Field!Keeps(f, c, i) = Field!Keeps(f, c, i)
  BY <1>2 DEF Chars!Field!Keeps, Field!Keeps
<1>8. \A n : Chars!Field!KeptUpTo(f, c, n) = Field!KeptUpTo(f, c, n)
  BY <1>1, <1>7 DEF Chars!Field!KeptUpTo, Field!KeptUpTo
<1>9. \A k : Chars!Field!KeptAt(f, c, k) = Field!KeptAt(f, c, k)
  BY <1>7, <1>8 DEF Chars!Field!KeptAt, Field!KeptAt
<1>10. \A n : Chars!Field!SaidUpTo(f, c, n) = Field!SaidUpTo(f, c, n)
  BY <1>8, <1>9 DEF Chars!Field!SaidUpTo, Field!SaidUpTo
<1>11. Chars!Field!Said(f, c) = Field!Said(f, c)
  BY <1>5, <1>10 DEF Chars!Field!Said, Field!Said
<1>12. QED
  BY <1>3, <1>4, <1>6, <1>11

\* What the matcher reads, QuotedField reads, where it opens a field.
LEMMA GoReads ==
  ASSUME Field!Fires, Chars!Field!Read
  PROVE  Field!Read
<1>1. \A kind, text, end : Chars!Field!Answer(kind, text, end) = Field!Answer(kind, text, end)
  BY DEF Chars!Field!Answer, Field!Answer
<1>2. \A a : Chars!Field!Asked(a) => Field!Asked(a)
  BY DEF Chars!Field!Asked, Field!Asked, Chars!Field!Pending, Field!Pending
<1>3. QED
  BY <1>1, <1>2, GoSameWords DEF Chars!Field!Read, Field!Read

LEMMA GoAnswers ==
  \A kind, text, end : /\ Field!Answer(kind, text, end) = Answer(kind, text, end)
                       /\ Chars!Answer(kind, text, end) = Answer(kind, text, end)
BY DEF Field!Answer, Chars!Answer, Answer

\* The question is asked once.
LEMMA GoAsked ==
  ASSUME InputOK, answer = Pending, UNCHANGED given, NEW a, answer' = a, NEW c, InChars(a, bytes) = c
  PROVE  InCharacters = Pending /\ InCharacters' = c /\ Field!Asked(c)
<1>1. bytes' = bytes /\ bytes \in Seq(Nat)
  BY Kept, Bytes
<1>2. InCharacters = Pending
  BY <1>1, InCharacter, InCharsNone
<1>3. InCharacters' = InChars(answer', bytes')
  BY DEF InCharacters, InChars
<1>4. InCharacters' = c
  BY <1>1, <1>3
<1>5. QED
  BY <1>2, <1>4 DEF Field!Asked, Field!Pending, Pending, given

\* The turns that answer.
LEMMA GoDecline ==
  ASSUME GoInv, Decline
  PROVE  Field!Decline
<1>1. InputOK /\ Given /\ answer = Pending /\ ~Opens /\ answer' = Unread /\ UNCHANGED given
  BY DEF Decline, GoInv, Inv
<1>2. ~Field!Fires
  BY <1>1, OpensWhere
<1>3. InChars(Unread, bytes) = Unread
  BY <1>1, Bytes, InCharsNone
<1>4. Field!Asked(Unread)
  BY <1>1, <1>3, GoAsked
<1>5. Field!Unread = Unread
  BY GoAnswers DEF Field!Unread, Unread
<1>6. QED
  BY <1>2, <1>4, <1>5 DEF Field!Decline

LEMMA GoClosingQuote ==
  ASSUME GoInv, ClosingQuote
  PROVE  Field!Read
<1>1. /\ Scanning /\ QuoteAt(sI) /\ ~QuoteAt(sI + qLen) /\ UNCHANGED given
      /\ sI' = sI + qLen /\ answer' = Answer("field", s, sI' - 1)
  BY DEF ClosingQuote
<1>2. /\ answer = Pending /\ InputOK /\ Given /\ Opens /\ OneCodeUnit(opts.quote)
      /\ q \in Nat /\ qLen \in Nat
  BY <1>1, HereGo
<1>3. PICK n \in Nat : sI = n + 1 /\ GoAt(n, s)
  BY <1>1, HereGo
<1>4. PICK m \in Nat : /\ Reached(m, 0, n, s) /\ m + 1 <= Len(src) /\ src[m + 1] = q
                       /\ Off(src, m + 1) = n + qLen
                       /\ QuoteAt(sI + qLen) <=> m + 2 <= Len(src) /\ src[m + 2] = q
  BY <1>1, <1>2, <1>3, AtQuote
<1>5. /\ 1 <= m /\ m <= Len(src) /\ Chars!Passed(m)
      /\ Says(m) \in Seq(Nat) /\ s = Encoded(Says(m))
  BY <1>4 DEF Reached
<1>6. Len(src) \in Nat /\ (m + 1 < Len(src) => src[m + 2] # q)
  BY <1>1, <1>2, <1>4, LenProperties, SMTT(30) DEF Given
<1>7. PICK l \in Nat, o \in Nat : l = m + 1 /\ o = n + qLen
  BY <1>2
<1>8. PICK text : text = Says(m)
  OBVIOUS
<1>9. Decoded(s) = text
  BY <1>5, <1>8, ReadsBack
<1>10. answer' = Answer("field", s, o)
  <2>1. sI' - 1 = n + qLen
    BY <1>1, <1>2, <1>3
  <2>2. QED
    BY <1>1, <1>7, <2>1
<1>11. Len(Decoded(SubSeq(bytes, 1, o))) = l
  <2>1. src \in Seq(Nat) /\ l <= Len(src) /\ o = Off(src, l)
    BY <1>2, <1>4, <1>7 DEF Given
  <2>2. QED
    BY <2>1, DecodedUpTo DEF bytes
<1>12. InChars(Answer("field", s, o), bytes) = Answer("field", text, l)
  BY <1>9, <1>11, InCharsIs
<1>13. InCharacters = Pending /\ InCharacters' = Answer("field", text, l)
  BY <1>1, <1>2, <1>10, <1>12, GoAsked
<1>14. Chars!InputOK /\ Chars!Opens
  BY <1>2, OpensAt
<1>15. Chars!Field!Read
  <2>1. InCharacters = Chars!Pending /\ InCharacters' = Chars!Answer("field", text, m + 1)
    BY <1>7, <1>13, GoAnswers DEF Chars!Pending, Pending
  <2>2. UNCHANGED Chars!given
    BY <1>1 DEF Chars!given, given
  <2>3. text = Chars!SaidUpTo(src, Chars!q, m) /\ src[m + 1] = Chars!q
        /\ (m + 1 < Len(src) => src[m + 2] # Chars!q)
    BY <1>4, <1>6, <1>8 DEF Says, q
  <2>4. QED
    BY <1>4, <1>5, <1>14, <2>1, <2>2, <2>3, Chars!FieldRead, TextAssumption, QuoteAssumption
       DEF Chars!Char, Chars!IsControl, Char
<1>16. Field!Fires
  BY <1>2, OpensWhere
<1>17. QED
  BY <1>15, <1>16, GoReads

LEMMA GoExhausted ==
  ASSUME GoInv, Exhausted
  PROVE  Field!Read
<1>1. /\ Scanning /\ ~HasByte(sI) /\ UNCHANGED given
      /\ answer' = Answer("unterminated", <<>>, Len(bytes))
  BY DEF Exhausted
<1>2. /\ answer = Pending /\ InputOK /\ Given /\ Opens /\ q \in Nat /\ Len(bytes) \in Nat
  BY <1>1, HereGo
<1>3. PICK n \in Nat : sI = n + 1 /\ n <= Len(bytes) /\ GoAt(n, s)
  BY <1>1, HereGo
<1>4. n = Len(bytes)
  BY <1>1, <1>2, <1>3 DEF HasByte
<1>5. PICK l \in Nat : l = Len(src)
  BY <1>2, LenProperties DEF Given
<1>6. Chars!Passed(l)
  <2>1. Reached(Len(src), 0, n, s)
    BY <1>2, <1>3, <1>4, AtEnd
  <2>2. QED
    BY <1>5, <2>1 DEF Reached
<1>7. Len(Decoded(SubSeq(bytes, 1, Len(bytes)))) = l
  <2>1. src \in Seq(Nat) /\ l <= Len(src) /\ Len(bytes) = Off(src, l)
    BY <1>2, <1>5, UpToEnd DEF Given, bytes
  <2>2. QED
    BY <2>1, DecodedUpTo DEF bytes
<1>8. InChars(Answer("unterminated", <<>>, Len(bytes)), bytes) = Answer("unterminated", <<>>, l)
  BY <1>7, DecodedEmpty, InCharsIs
<1>9. InCharacters = Pending /\ InCharacters' = Answer("unterminated", <<>>, l)
  BY <1>1, <1>2, <1>8, GoAsked
<1>10. Chars!InputOK /\ Chars!Opens
  BY <1>2, OpensAt
<1>11. Chars!Field!Read
  <2>1. /\ InCharacters = Chars!Pending
        /\ InCharacters' = Chars!Answer("unterminated", <<>>, Len(src))
    BY <1>5, <1>9, GoAnswers DEF Chars!Pending, Pending
  <2>2. UNCHANGED Chars!given /\ Chars!Passed(Len(src))
    BY <1>1, <1>5, <1>6 DEF Chars!given, given
  <2>3. QED
    BY <1>10, <2>1, <2>2, Chars!FieldUnterminated, TextAssumption, QuoteAssumption
       DEF Chars!Char, Chars!IsControl, Char
<1>12. Field!Fires
  BY <1>2, OpensWhere
<1>13. QED
  BY <1>11, <1>12, GoReads

LEMMA GoControlRefused ==
  ASSUME GoInv, ControlRefused
  PROVE  Field!Refuse
<1>1. /\ Scanning /\ HasByte(sI) /\ ~QuoteAt(sI) /\ UNCHANGED given
      /\ bytes[sI] \notin LineChars /\ IsControl(bytes[sI]) /\ ~opts.allow
      /\ answer' = Unread
  BY DEF ControlRefused, InBody
<1>2. /\ answer = Pending /\ InputOK /\ Given /\ Opens /\ OneCodeUnit(opts.quote)
      /\ q \in Nat /\ Len(bytes) \in Nat
  BY <1>1, HereGo
<1>3. PICK n \in Nat : sI = n + 1 /\ n <= Len(bytes) /\ GoAt(n, s)
  BY <1>1, HereGo
<1>4. sI <= Len(bytes)
  BY <1>1 DEF HasByte
<1>5. PICK m \in Nat : Reached(m, 0, n, s) /\ m + 1 <= Len(src) /\ src[m + 1] = bytes[sI]
  BY <1>1, <1>2, <1>3, <1>4, AtControl
<1>6. 1 <= m /\ m <= Len(src) /\ Chars!Passed(m) /\ n = Off(src, m) + 0 /\ Len(src) \in Nat
  BY <1>2, <1>5, LenProperties DEF Reached, Given
<1>7. src[m + 1] # q
  <2>1. PICK l : l = m + 1
    OBVIOUS
  <2>2. PICK o \in Nat : o = Off(src, m)
    BY <1>2, <1>6, UpToType DEF Given
  <2>3. sI = Off(src, m) + 1
    BY <1>3, <1>6, <2>2
  <2>4. QuoteAt(sI) <=> l <= Len(src) /\ src[l] = q
    BY <1>2, <1>6, <2>1, <2>3, QuoteAtChar
  <2>5. QED
    BY <1>1, <1>5, <2>1, <2>4
<1>8. Chars!Barred(m + 1)
  BY <1>1, <1>5, <1>7 DEF Chars!Barred, Chars!IsControl, IsControl, q
<1>9. Chars!Unprintables(src, Chars!q) # {}
  BY <1>1, <1>5, <1>6, <1>8, Chars!BarredFirst, TextAssumption, QuoteAssumption
     DEF Chars!Char, Chars!IsControl, Char
<1>10. Chars!Field!Unprintables(src, Chars!q) = Chars!Unprintables(src, Chars!q)
  BY Chars!SameWords, TextAssumption, QuoteAssumption DEF Chars!Char, Chars!IsControl, Char
<1>11. Field!Unprintables(src, opts.quote[1]) # {}
  BY <1>9, <1>10, GoSameWords DEF Chars!q
<1>12. Field!Fires
  BY <1>2, OpensWhere
<1>13. InChars(Unread, bytes) = Unread
  BY <1>2, Bytes, InCharsNone
<1>14. Field!Asked(Field!Unread)
  <2>1. Field!Asked(Unread)
    BY <1>1, <1>2, <1>13, GoAsked
  <2>2. Field!Unread = Unread
    BY GoAnswers DEF Field!Unread, Unread
  <2>3. QED
    BY <2>1, <2>2
<1>15. QED
  BY <1>1, <1>11, <1>12, <1>14 DEF Field!Refuse

\* While the answer is open, and once it is given, it stays what it is in characters.
LEMMA GoSame ==
  ASSUME UNCHANGED <<given, answer>>
  PROVE  UNCHANGED Field!vars
<1>1. bytes' = bytes
  BY Kept
<1>2. InCharacters' = InChars(answer', bytes') /\ InCharacters = InChars(answer, bytes)
  BY DEF InCharacters, InChars
<1>3. InCharacters' = InCharacters
  BY <1>1, <1>2
<1>4. QED
  BY <1>3 DEF Field!vars, given

\* Every turn.
LEMMA GoStep ==
  ASSUME GoInv, [Next]_vars
  PROVE  GoInv' /\ [Field!Next]_(Field!vars)
<1>1. Inv'
  BY StepInv DEF GoInv
<1>2. CASE Decline
  <2>1. UNCHANGED given /\ answer' # Pending
    BY <1>2 DEF Decline, Unread, Answer, Pending
  <2>2. GoInv'
    BY <1>1, <2>1, AnswersGo
  <2>3. QED
    BY <1>2, <2>2, GoDecline DEF Field!Next
<1>3. CASE ClosingQuote
  <2>1. UNCHANGED given /\ answer' # Pending
    BY <1>3 DEF ClosingQuote, Answer, Pending
  <2>2. GoInv'
    BY <1>1, <2>1, AnswersGo
  <2>3. QED
    BY <1>3, <2>2, GoClosingQuote DEF Field!Next
<1>4. CASE ControlRefused
  <2>1. UNCHANGED given /\ answer' # Pending
    BY <1>4 DEF ControlRefused, Unread, Answer, Pending
  <2>2. GoInv'
    BY <1>1, <2>1, AnswersGo
  <2>3. QED
    BY <1>4, <2>2, GoControlRefused DEF Field!Next
<1>5. CASE Exhausted
  <2>1. UNCHANGED given /\ answer' # Pending
    BY <1>5 DEF Exhausted, Answer, Pending
  <2>2. GoInv'
    BY <1>1, <2>1, AnswersGo
  <2>3. QED
    BY <1>5, <2>2, GoExhausted DEF Field!Next
<1>6. CASE Open \/ EscapedQuote \/ LineChar \/ ControlKept \/ Body
  <2>1. UNCHANGED <<given, answer>>
    BY <1>6 DEF Open, EscapedQuote, LineChar, ControlKept, Body
  <2>2. GoInv'
    <3>1. Open \/ EscapedQuote \/ LineChar \/ ControlKept \/ Body
      BY <1>6
    <3>2. CASE Open
      BY <1>1, <3>2, OpenGo
    <3>3. CASE EscapedQuote
      BY <1>1, <3>3, EscapedQuoteGo
    <3>4. CASE LineChar \/ ControlKept
      <4>1. InBody /\ s' = Append(s, bytes[sI]) /\ sI' = sI + 1
        BY <3>4 DEF LineChar, ControlKept
      <4>2. opts.allow \/ ~IsControl(bytes[sI]) \/ bytes[sI] \in LineChars
        BY <3>4 DEF LineChar, ControlKept
      <4>3. QED
        BY <1>1, <2>1, <4>1, <4>2, TakesGo
    <3>5. CASE Body
      BY <1>1, <3>5, BodyGo
    <3>6. QED
      BY <3>1, <3>2, <3>3, <3>4, <3>5
  <2>3. QED
    BY <2>1, <2>2, GoSame
<1>7. CASE UNCHANGED vars
  <2>1. UNCHANGED <<given, answer>> /\ sI' = sI /\ s' = s
    BY <1>7 DEF vars, given
  <2>2. Given' /\ Opens' = Opens /\ \A n, t : GoAt(n, t)' <=> GoAt(n, t)
    BY <2>1, GoKept DEF GoInv
  <2>3. Going' <=> Going
    BY <2>1, <2>2 DEF Going
  <2>4. GoInv'
    BY <1>1, <2>1, <2>2, <2>3 DEF GoInv
  <2>5. QED
    BY <2>1, <2>4, GoSame
<1>8. QED
  BY <1>2, <1>3, <1>4, <1>5, <1>6, <1>7 DEF Next, Turn, Answered

LEMMA GoInit ==
  ASSUME Init
  PROVE  GoInv /\ Field!Init
<1>1. PICK input \in Inputs : src = input.src /\ before = input.before /\ opts = input.opts
  BY DEF Init
<1>2. sI = 1 /\ s = <<>> /\ answer = Pending
  BY DEF Init
<1>3. input \in [src : Seq(Char) \ {<<>>}, before : Seq(Char),
                 opts : [quote : Seq(Char), allow : BOOLEAN]]
  BY <1>1, TextAssumption
<1>4. Given
  BY <1>1, <1>3, QuoteAssumption DEF Given, Char
<1>5. [src |-> src, before |-> before, opts |-> opts] \in Inputs
  BY <1>1, <1>3
<1>6. Inv
  BY InitInv
<1>7. InCharacters = Pending
  <2>1. bytes \in Seq(Nat)
    BY <1>6, Bytes DEF Inv
  <2>2. QED
    BY <1>2, <2>1, InCharacter, InCharsNone
<1>8. Field!Init
  BY <1>5, <1>7 DEF Field!Init, Field!Pending, Pending
<1>9. QED
  BY <1>2, <1>4, <1>6, <1>8 DEF GoInv

\* Whatever the source, the quote and the fixed tokens are, in characters of one byte,
\* of two or of three, every turn of the loop over bytes but the last leaves the
\* answer open, and the last gives the one QuotedField promises for the characters:
\* the field's text and its end, the error at the end of the source, or no token
\* (buildCsvStringMatcher, csv.go:762-884).
THEOREM GoReadsTheField == Spec => ImplementsField
<1>1. Init => GoInv /\ Field!Init
  BY GoInit
<1>2. GoInv /\ [Next]_vars => GoInv' /\ [Field!Next]_(Field!vars)
  BY GoStep
<1>3. QED
  BY <1>1, <1>2, PTL DEF Spec, Field!Spec, ImplementsField
=============================================================================
