-------------------------- MODULE CsvParseGoProofs --------------------------
(***************************************************************************)
(* What the appends of the Go port's parse spare, for every source and     *)
(* every option setting.  The inductive invariant says which backing       *)
(* array is whose: the document's, the arrays of what was handed out, and  *)
(* the one of the line that is being read, which no one else has.          *)
(***************************************************************************)
EXTENDS CsvParseGo, CsvParseProofs

USE GoPortAssumption

-----------------------------------------------------------------------------
(* The backing arrays.                                                     *)

\* What the elements are does not matter here.
BackingArray(S) == [cells : Seq(S), cap : Nat]

IsSequence(s) == \E S : s \in Seq(S)

Put(s, i, e) == [s EXCEPT ![i] = e]

IsStore(hp) == \E S : hp \in Seq(BackingArray(S))

SliceSet == [k : {"slice"}, a : Nat, n : Nat]

Within(hp, slice) ==
  /\ slice \in SliceSet
  /\ slice.a \in 1 .. Len(hp)
  /\ slice.n <= Len(hp[slice.a].cells)

NewArray(cells, cap)   == [cells |-> cells, cap |-> cap]
WithCells(array, cells) == [array EXCEPT !.cells = cells]

LEMMA NewArrayOK ==
  ASSUME NEW S, NEW cells \in Seq(S), NEW cap \in Nat
  PROVE  NewArray(cells, cap) \in BackingArray(S) /\ NewArray(cells, cap).cells = cells
BY DEF NewArray, BackingArray

LEMMA WithCellsOK ==
  ASSUME NEW S, NEW array \in BackingArray(S), NEW T, NEW cells \in Seq(T)
  PROVE  WithCells(array, cells) \in BackingArray(T) /\ WithCells(array, cells).cells = cells
<1>1. array.cap \in Nat
  BY DEF BackingArray
<1>2. WithCells(array, cells) = NewArray(cells, array.cap)
  BY DEF WithCells, NewArray, BackingArray
<1>3. QED
  BY <1>1, <1>2, NewArrayOK

LEMMA ArraysWider ==
  ASSUME NEW S, NEW T, NEW hp \in Seq(BackingArray(S))
  PROVE  hp \in Seq(BackingArray(S \union T)) /\ BackingArray(T) \subseteq BackingArray(S \union T)
<1>1. Seq(S) \subseteq Seq(S \union T) /\ Seq(T) \subseteq Seq(S \union T)
  BY SeqMonotonic
<1>2. /\ BackingArray(S) \subseteq BackingArray(S \union T)
      /\ BackingArray(T) \subseteq BackingArray(S \union T)
  BY <1>1 DEF BackingArray
<1>3. QED
  BY <1>2, SeqMonotonic

LEMMA ArrayAdded ==
  ASSUME NEW hp, IsStore(hp), NEW T, NEW array \in BackingArray(T), NEW hp2, hp2 = Append(hp, array)
  PROVE  /\ IsStore(hp2) /\ Len(hp) \in Nat /\ Len(hp2) = Len(hp) + 1
         /\ \A a \in 1 .. Len(hp) : hp2[a] = hp[a]
         /\ hp2[Len(hp) + 1] = array
<1>1. PICK S : hp \in Seq(BackingArray(S))
  BY DEF IsStore
<1>2. hp \in Seq(BackingArray(S \union T)) /\ array \in BackingArray(S \union T)
  BY <1>1, ArraysWider
<1>3. hp2 \in Seq(BackingArray(S \union T))
  BY <1>2, AppendProperties
<1>4. QED
  BY <1>2, <1>3, AppendProperties, LenProperties DEF IsStore

LEMMA ArrayReplaced ==
  ASSUME NEW hp, IsStore(hp), NEW T, NEW array \in BackingArray(T), NEW a \in 1 .. Len(hp),
         NEW hp2, hp2 = Put(hp, a, array)
  PROVE  /\ IsStore(hp2) /\ Len(hp) \in Nat /\ Len(hp2) = Len(hp)
         /\ \A b \in 1 .. Len(hp) : hp2[b] = IF b = a THEN array ELSE hp[b]
<1>1. PICK S : hp \in Seq(BackingArray(S))
  BY DEF IsStore
<1>2. hp \in Seq(BackingArray(S \union T)) /\ array \in BackingArray(S \union T)
  BY <1>1, ArraysWider
<1>3. hp2 \in Seq(BackingArray(S \union T))
  BY <1>2, ExceptSeq DEF Put
<1>4. QED
  BY <1>2, <1>3, ExceptSeq, LenProperties DEF IsStore, Put

\* The elements of a slice, and those of the slice one longer.
LEMMA FirstCells ==
  ASSUME NEW S, NEW cells \in Seq(S), NEW n \in Nat, n <= Len(cells)
  PROVE  /\ SubSeq(cells, 1, n) \in Seq(S) /\ Len(SubSeq(cells, 1, n)) = n
         /\ \A i \in 1 .. n : SubSeq(cells, 1, n)[i] = cells[i]
<1>1. Len(cells) \in Nat /\ \A i \in 1 .. Len(cells) : cells[i] \in S
  BY LenProperties
<1>2. \A i \in 1 .. n : cells[i] \in S
  BY <1>1
<1>3. QED
  BY <1>1, <1>2, SubSeqProperties

LEMMA OneMore ==
  ASSUME NEW S, NEW cells \in Seq(S), NEW T, NEW more \in Seq(T), NEW n \in Nat,
         n <= Len(cells), n < Len(more), \A i \in 1 .. n : more[i] = cells[i]
  PROVE  SubSeq(more, 1, n + 1) = Append(SubSeq(cells, 1, n), more[n + 1])
<1>1. PICK first, last, next :
        first = SubSeq(cells, 1, n) /\ last = more[n + 1] /\ next = SubSeq(more, 1, n + 1)
  OBVIOUS
<1>2. first \in Seq(S) /\ Len(first) = n /\ \A i \in 1 .. n : first[i] = cells[i]
  BY <1>1, FirstCells
<1>3. /\ next \in Seq(T) /\ Len(next) = n + 1
      /\ \A i \in 1 .. n + 1 : next[i] = more[i]
  <2>1. n + 1 \in Nat /\ n + 1 <= Len(more)
    BY LenProperties
  <2>2. QED
    BY <1>1, <2>1, FirstCells
<1>4. first \in Seq(S \union T) /\ last \in S \union T
  <2>1. last \in T
    BY <1>1, LenProperties
  <2>2. QED
    BY <1>2, <2>1, SeqMonotonic
<1>5. /\ Append(first, last) \in Seq(S \union T) /\ Len(Append(first, last)) = n + 1
      /\ \A i \in 1 .. n : Append(first, last)[i] = first[i]
      /\ Append(first, last)[n + 1] = last
  BY <1>2, <1>4, AppendProperties
<1>6. next \in Seq(S \union T)
  BY <1>3, SeqMonotonic
<1>7. \A i \in 1 .. n + 1 : next[i] = Append(first, last)[i]
  BY <1>1, <1>2, <1>3, <1>5
<1>8. next = Append(first, last)
  BY <1>3, <1>5, <1>6, <1>7, SeqEqual
<1>9. QED
  BY <1>1, <1>8

\* An append writes beyond what the slice holds, in its array or in a new one.
Written(cells, n, cell) ==
  [i \in 1 .. (IF Len(cells) > n THEN Len(cells) ELSE n + 1) |->
     IF i = n + 1 THEN cell ELSE cells[i]]

LEMMA InPlace ==
  ASSUME NEW S, NEW cells \in Seq(S), NEW n \in Nat, n <= Len(cells), NEW cell, NEW more,
         more = Written(cells, n, cell)
  PROVE  /\ IsSequence(more) /\ Len(more) \in Nat /\ Len(cells) <= Len(more)
         /\ n < Len(more) /\ more[n + 1] = cell
         /\ \A i \in 1 .. n : more[i] = cells[i]
<1>1. PICK m \in Nat : m = IF Len(cells) > n THEN Len(cells) ELSE n + 1
  BY LenProperties
<1>2. /\ m >= Len(cells) /\ n < m /\ Len(cells) \in Nat
      /\ \A i \in 1 .. m : i # n + 1 => i \in 1 .. Len(cells)
  BY <1>1, LenProperties
<1>3. more = [i \in 1 .. m |-> IF i = n + 1 THEN cell ELSE cells[i]]
  BY <1>1 DEF Written
<1>4. \A i \in 1 .. m : (IF i = n + 1 THEN cell ELSE cells[i]) \in S \union {cell}
  BY <1>2, ElementOfSeq
<1>5. more \in [1 .. m -> S \union {cell}]
  BY <1>3, <1>4
<1>6. IsSequence(more) /\ Len(more) = m
  BY <1>5, FunctionIsSeq DEF IsSequence
<1>7. more[n + 1] = cell /\ \A i \in 1 .. n : more[i] = cells[i]
  BY <1>2, <1>3
<1>8. QED
  BY <1>2, <1>6, <1>7

\* What an append leaves: hp2 and longer are the arrays and the new slice.
AppendSpares(hp, slice, cell, hp2, longer) ==
  /\ IsStore(hp2) /\ Len(hp) \in Nat /\ Len(hp2) \in Nat /\ Len(hp) <= Len(hp2)
  /\ \A a \in 1 .. Len(hp) : a # slice.a => hp2[a] = hp[a]
  /\ \A any : Within(hp, any) => Within(hp2, any)
  /\ Within(hp2, longer)
  /\ longer.a = slice.a \/ (longer.a > Len(hp) /\ hp2[slice.a] = hp[slice.a])
  /\ CellsIn(hp2, longer) = Append(CellsIn(hp, slice), cell)

\* The array after an append in place.
\* The cells up to the one behind the n-th are the first n and that one.
OneLonger(more, n, cells, cell) == SubSeq(more, 1, n + 1) = Append(SubSeq(cells, 1, n), cell)

LEMMA ArrayWritten ==
  ASSUME NEW S, NEW old \in BackingArray(S), NEW n \in Nat, n <= Len(old.cells), NEW cell,
         NEW new, new = WithCells(old, Written(old.cells, n, cell))
  PROVE  /\ \E T : new \in BackingArray(T)
         /\ n + 1 <= Len(new.cells) /\ Len(old.cells) <= Len(new.cells)
         /\ Len(old.cells) \in Nat /\ Len(new.cells) \in Nat
         /\ OneLonger(new.cells, n, old.cells, cell)
<1>1. PICK cells : cells = old.cells
  OBVIOUS
<1>2. PICK more : more = Written(cells, n, cell)
  OBVIOUS
<1>3. cells \in Seq(S) /\ n <= Len(cells)
  BY <1>1 DEF BackingArray
<1>4. IsSequence(more) /\ Len(more) \in Nat /\ Len(cells) <= Len(more) /\ Len(cells) \in Nat
  BY <1>2, <1>3, InPlace, LenProperties
<1>5. n < Len(more) /\ more[n + 1] = cell
  BY <1>2, <1>3, InPlace
<1>6. \A i \in 1 .. n : more[i] = cells[i]
  BY <1>2, <1>3, InPlace
<1>7. PICK T : more \in Seq(T)
  BY <1>4 DEF IsSequence
<1>8. new \in BackingArray(T) /\ new.cells = more
  <2>1. new = WithCells(old, more)
    BY <1>1, <1>2
  <2>2. QED
    BY <1>7, <2>1, WithCellsOK
<1>9. OneLonger(more, n, cells, cell)
  <2>1. SubSeq(more, 1, n + 1) = Append(SubSeq(cells, 1, n), more[n + 1])
    BY <1>3, <1>5, <1>6, <1>7, OneMore
  <2>2. QED
    BY <1>5, <2>1 DEF OneLonger
<1>10. n + 1 <= Len(more) /\ Len(cells) <= Len(more) /\ Len(cells) \in Nat /\ Len(more) \in Nat
  BY <1>4, <1>5
<1>11. QED
  BY <1>1, <1>5, <1>8, <1>9, <1>10

LEMMA AppendInPlace ==
  ASSUME NEW hp, IsStore(hp), NEW slice, Within(hp, slice), NEW cell,
         NEW a \in 1 .. Len(hp), NEW n \in Nat, a = slice.a, n = slice.n,
         NEW new, new = WithCells(hp[a], Written(hp[a].cells, n, cell)),
         NEW hp2, hp2 = Put(hp, a, new),
         NEW longer, longer = Slice(a, n + 1)
  PROVE  AppendSpares(hp, slice, cell, hp2, longer)
<1>1. PICK S : hp \in Seq(BackingArray(S))
  BY DEF IsStore
<1>2. Len(hp) \in Nat
  BY <1>1, LenProperties
<1>4. PICK old : old = hp[a]
  OBVIOUS
<1>5. old \in BackingArray(S) /\ n <= Len(old.cells)
  BY <1>1, <1>4, ElementOfSeq DEF Within
<1>6. new = WithCells(old, Written(old.cells, n, cell))
  BY <1>4
<1>7. PICK T : new \in BackingArray(T)
  BY <1>5, <1>6, ArrayWritten
<1>8. n + 1 <= Len(new.cells)
  BY <1>5, <1>6, ArrayWritten
<1>9. OneLonger(new.cells, n, old.cells, cell)
  BY <1>5, <1>6, ArrayWritten, SMTT(30)
<1>11. IsStore(hp2) /\ Len(hp2) = Len(hp)
  BY <1>7, ArrayReplaced
<1>12. hp2[a] = new
  BY <1>7, ArrayReplaced
<1>13. \A b \in 1 .. Len(hp) : b # a => hp2[b] = hp[b]
  BY <1>7, ArrayReplaced
<1>14. longer \in SliceSet /\ longer.a = a /\ longer.n = n + 1
  BY <1>2 DEF Slice, SliceSet
<1>15. Within(hp2, longer)
  BY <1>8, <1>11, <1>12, <1>14 DEF Within
<1>16. CellsIn(hp2, longer) = Append(CellsIn(hp, slice), cell)
  <2>1. CellsIn(hp2, longer) = SubSeq(new.cells, 1, n + 1)
    BY <1>12, <1>14 DEF CellsIn
  <2>2. CellsIn(hp, slice) = SubSeq(old.cells, 1, n)
    BY <1>4 DEF CellsIn
  <2>3. QED
    BY <1>9, <2>1, <2>2 DEF OneLonger
<1>17. Len(hp2) \in Nat /\ Len(hp) <= Len(hp2)
  BY <1>2, <1>11
<1>18. \A b \in 1 .. Len(hp) : b # slice.a => hp2[b] = hp[b]
  BY <1>13
<1>19. longer.a = slice.a
  BY <1>14
<1>20. ASSUME NEW any, Within(hp, any) PROVE Within(hp2, any)
  <2>1. /\ any \in SliceSet /\ any.a \in 1 .. Len(hp) /\ any.n \in Nat
        /\ any.n <= Len(hp[any.a].cells)
    BY <1>20 DEF Within, SliceSet
  <2>2. any.a \in 1 .. Len(hp2)
    BY <1>11, <2>1
  <2>3. CASE any.a = a
    <3>1. /\ Len(old.cells) <= Len(new.cells)
          /\ Len(old.cells) \in Nat /\ Len(new.cells) \in Nat
      BY <1>5, <1>6, ArrayWritten
    <3>2. any.n <= Len(old.cells)
      BY <1>4, <2>1, <2>3
    <3>3. any.n <= Len(new.cells)
      BY <2>1, <3>1, <3>2
    <3>4. QED
      BY <1>12, <2>1, <2>2, <2>3, <3>3 DEF Within
  <2>4. CASE any.a # a
    BY <1>13, <2>1, <2>2, <2>4 DEF Within
  <2>5. QED
    BY <2>3, <2>4
<1>21. QED
  BY <1>2, <1>11, <1>15, <1>16, <1>17, <1>18, <1>19, <1>20 DEF AppendSpares

LEMMA AppendElsewhere ==
  ASSUME NEW hp, IsStore(hp), NEW slice, Within(hp, slice), NEW cell, NEW cap \in Nat,
         NEW new, new = NewArray(Append(CellsIn(hp, slice), cell), cap),
         NEW hp2, hp2 = Append(hp, new),
         NEW longer, longer = Slice(Len(hp) + 1, slice.n + 1)
  PROVE  AppendSpares(hp, slice, cell, hp2, longer)
<1>1. PICK S : hp \in Seq(BackingArray(S))
  BY DEF IsStore
<1>2. PICK old, n : old = hp[slice.a] /\ n = slice.n
  OBVIOUS
<1>3. /\ slice.a \in 1 .. Len(hp) /\ n \in Nat /\ n <= Len(old.cells) /\ slice.a \in Nat
      /\ Len(hp) \in Nat
  BY <1>1, <1>2, LenProperties DEF Within, SliceSet
<1>4. old \in BackingArray(S)
  BY <1>1, <1>2, <1>3, ElementOfSeq
<1>5. old.cells \in Seq(S)
  BY <1>4 DEF BackingArray
<1>6. PICK first : first = CellsIn(hp, slice)
  OBVIOUS
<1>7. first \in Seq(S) /\ Len(first) = n
  <2>1. first = SubSeq(old.cells, 1, n)
    BY <1>2, <1>6 DEF CellsIn
  <2>2. QED
    BY <1>3, <1>5, <2>1, FirstCells
<1>8. PICK more : more = Append(first, cell)
  OBVIOUS
<1>9. PICK T : T = S \union {cell}
  OBVIOUS
<1>10. more \in Seq(T) /\ Len(more) = n + 1
  <2>1. first \in Seq(T) /\ cell \in T
    BY <1>7, <1>9, SeqMonotonic
  <2>2. QED
    BY <1>7, <1>8, <2>1, AppendProperties
<1>11. new = NewArray(more, cap)
  BY <1>6, <1>8
<1>12. new \in BackingArray(T) /\ new.cells = more
  <2>1. more \in Seq(T)
    BY <1>10
  <2>2. QED
    BY <1>11, <2>1, NewArrayOK
<1>13. /\ IsStore(hp2) /\ Len(hp2) = Len(hp) + 1
       /\ \A b \in 1 .. Len(hp) : hp2[b] = hp[b]
       /\ hp2[Len(hp) + 1] = new
  <2>1. new \in BackingArray(T)
    BY <1>12
  <2>2. IsStore(hp2)
    BY <2>1, ArrayAdded
  <2>3. Len(hp2) = Len(hp) + 1
    BY <2>1, ArrayAdded
  <2>4. \A b \in 1 .. Len(hp) : hp2[b] = hp[b]
    BY <2>1, ArrayAdded
  <2>5. hp2[Len(hp) + 1] = new
    BY <2>1, ArrayAdded
  <2>6. QED
    BY <2>2, <2>3, <2>4, <2>5
<1>14. longer \in SliceSet /\ longer.a = Len(hp) + 1 /\ longer.n = n + 1
  BY <1>2, <1>3 DEF Slice, SliceSet
<1>15. Within(hp2, longer)
  <2>1. longer.a \in 1 .. Len(hp2)
    BY <1>3, <1>13, <1>14
  <2>2. hp2[longer.a].cells = more
    BY <1>12, <1>13, <1>14
  <2>3. longer.n <= Len(more)
    BY <1>3, <1>10, <1>14
  <2>4. QED
    BY <1>14, <2>1, <2>2, <2>3 DEF Within
<1>16. CellsIn(hp2, longer) = more
  <2>1. CellsIn(hp2, longer) = SubSeq(more, 1, n + 1)
    BY <1>12, <1>13, <1>14 DEF CellsIn
  <2>2. PICK all : all = SubSeq(more, 1, n + 1)
    OBVIOUS
  <2>3. all \in Seq(T) /\ Len(all) = n + 1 /\ \A i \in 1 .. n + 1 : all[i] = more[i]
    <3>1. n + 1 \in Nat /\ n + 1 <= Len(more)
      BY <1>3, <1>10
    <3>2. QED
      BY <1>10, <2>2, <3>1, FirstCells
  <2>4. all = more
    BY <1>10, <2>3, SeqEqual
  <2>5. QED
    BY <2>1, <2>2, <2>4
<1>17. longer.a > Len(hp) /\ hp2[slice.a] = hp[slice.a]
  BY <1>3, <1>13, <1>14
<1>18. Len(hp2) \in Nat /\ Len(hp) <= Len(hp2)
  BY <1>3, <1>13
<1>19. \A any : Within(hp, any) => Within(hp2, any)
  BY <1>3, <1>13 DEF Within
<1>20. QED
  BY <1>3, <1>6, <1>8, <1>13, <1>15, <1>16, <1>17, <1>18, <1>19 DEF AppendSpares

\* append of the model.
LEMMA HeapAppended ==
  ASSUME IsStore(heap), NEW slice, Within(heap, slice), NEW cell,
         NEW hp2, hp2 = HeapWith(slice, cell), NEW longer, longer = Longer(slice)
  PROVE  AppendSpares(heap, slice, cell, hp2, longer)
<1>1. PICK hp : hp = heap
  OBVIOUS
<1>2. PICK a \in 1 .. Len(hp), n \in Nat : a = slice.a /\ n = slice.n
  BY <1>1 DEF Within, SliceSet
<1>3. CASE HasRoom(slice)
  <2>1. PICK new : new = WithCells(hp[a], Written(hp[a].cells, n, cell))
    OBVIOUS
  <2>2. hp2 = [heap EXCEPT ![slice.a].cells = Written(heap[slice.a].cells, slice.n, cell)]
    BY <1>3 DEF HeapWith, Written
  <2>3. hp2 = Put(hp, a, new)
    BY <1>1, <1>2, <2>1, <2>2 DEF WithCells, Put
  <2>4. longer = Slice(a, n + 1)
    BY <1>2, <1>3 DEF Longer
  <2>5. IsStore(hp) /\ Within(hp, slice)
    BY <1>1
  <2>6. AppendSpares(hp, slice, cell, hp2, longer)
    BY <1>2, <2>1, <2>3, <2>4, <2>5, AppendInPlace
  <2>7. QED
    BY <1>1, <2>6
<1>4. CASE ~HasRoom(slice)
  <2>1. slice.n \in Nat /\ slice.a \in 1 .. Len(heap)
    BY DEF Within, SliceSet
  <2>2. PICK cap \in Nat : cap = IF slice.n = 0 THEN 1 ELSE 2 * slice.n
    BY <2>1
  <2>3. slice # NoSlice
    <3>1. NoSlice.a = 0
      BY DEF NoSlice, Slice
    <3>2. QED
      BY <2>1, <3>1
  <2>4. Cells(slice) = CellsIn(hp, slice)
    BY <1>1, <2>3 DEF Cells
  <2>5. PICK new : new = NewArray(Append(CellsIn(hp, slice), cell), cap)
    OBVIOUS
  <2>6. hp2 = Append(hp, new)
    BY <1>1, <1>4, <2>2, <2>4, <2>5 DEF HeapWith, NewArray
  <2>7. longer = Slice(Len(hp) + 1, slice.n + 1)
    BY <1>1, <1>4 DEF Longer
  <2>8. QED
    BY <1>1, <2>5, <2>6, <2>7, AppendElsewhere
<1>5. QED
  BY <1>3, <1>4

-----------------------------------------------------------------------------
(* Whose array is whose.  doc is the document's slice; mine the slices of  *)
(* the line that is being read or is about to be handed out; held what was *)
(* handed out, and the header.                                             *)

Apart(hp, doc, held, slice) ==
  Within(hp, slice) /\ slice.a # doc.a /\ \A other \in held : other.a # slice.a

Sound(hp, doc, mine, held) ==
  /\ IsStore(hp) /\ Within(hp, doc)
  /\ \A slice \in held : slice # NoSlice => Within(hp, slice) /\ slice.a # doc.a
  /\ \A slice \in mine : Apart(hp, doc, held, slice)

SameCells(hp, hp2, slice) == CellsIn(hp2, slice) = CellsIn(hp, slice)

LEMMA NotWithin ==
  ASSUME NEW hp, IsStore(hp), NEW slice, Within(hp, slice)
  PROVE  slice # NoSlice /\ slice # Undef /\ slice.a \in 1 .. Len(hp) /\ slice.a \in Nat
<1>1. slice.a \in 1 .. Len(hp) /\ slice.k = "slice"
  BY DEF Within, SliceSet
<1>2. Len(hp) \in Nat
  BY LenProperties DEF IsStore
<1>3. slice.a # 0 /\ slice.a \in Nat
  BY <1>1, <1>2
<1>4. NoSlice.a = 0
  BY DEF NoSlice, Slice
<1>5. Undef.k = "undef"
  BY DEF Undef
<1>6. QED
  BY <1>1, <1>3, <1>4, <1>5

LEMMA SoundLess ==
  ASSUME NEW hp, NEW doc, NEW mine, NEW held, Sound(hp, doc, mine, held),
         NEW mine2, mine2 \subseteq mine, NEW held2, held2 \subseteq held \union {NoSlice}
  PROVE  Sound(hp, doc, mine2, held2)
<1>1. \A slice : Within(hp, slice) => slice.a # 0
  BY NotWithin DEF Sound
<1>2. NoSlice.a = 0
  BY DEF NoSlice, Slice
<1>3. QED
  BY <1>1, <1>2 DEF Sound, Apart

\* The slice of the line is handed out, or kept as the header.
LEMMA SoundTaken ==
  ASSUME NEW hp, NEW doc, NEW mine, NEW held, Sound(hp, doc, mine, held),
         NEW held2, held2 \subseteq held \union mine
  PROVE  Sound(hp, doc, {}, held2)
BY DEF Sound, Apart

LEMMA SoundFresh ==
  ASSUME NEW hp, NEW doc, NEW mine, NEW held, Sound(hp, doc, mine, held), NEW cap \in Nat,
         NEW hp2, hp2 = Append(hp, NewArray(<<>>, cap)), NEW slice, slice = Slice(Len(hp) + 1, 0)
  PROVE  /\ Sound(hp2, doc, mine \union {slice}, held)
         /\ \A old : Within(hp, old) => SameCells(hp, hp2, old)
<1>1. PICK none, array : none = <<>> /\ array = NewArray(none, cap)
  OBVIOUS
<1>2. array \in BackingArray(Nat) /\ array.cells = none
  <2>1. none \in Seq(Nat)
    BY <1>1
  <2>2. QED
    BY <1>1, <2>1, NewArrayOK
<1>3. hp2 = Append(hp, array) /\ IsStore(hp)
  BY <1>1 DEF Sound
<1>4. IsStore(hp2) /\ Len(hp) \in Nat /\ Len(hp2) = Len(hp) + 1
  BY <1>2, <1>3, ArrayAdded
<1>5. \A a \in 1 .. Len(hp) : hp2[a] = hp[a]
  BY <1>2, <1>3, ArrayAdded
<1>6. hp2[Len(hp) + 1] = array
  BY <1>2, <1>3, ArrayAdded
<1>7. \A old : Within(hp, old) => Within(hp2, old)
  BY <1>4, <1>5 DEF Within
<1>8. \A old : Within(hp, old) => SameCells(hp, hp2, old)
  BY <1>5 DEF Within, SameCells, CellsIn
<1>9. slice \in SliceSet /\ slice.a = Len(hp) + 1 /\ slice.n = 0
  BY <1>4 DEF Slice, SliceSet
<1>10. Within(hp2, slice)
  <2>1. Len(none) = 0
    BY <1>1
  <2>2. slice.a \in 1 .. Len(hp2)
    BY <1>4, <1>9
  <2>3. hp2[slice.a].cells = none
    BY <1>2, <1>6, <1>9
  <2>4. slice.n <= Len(hp2[slice.a].cells)
    BY <1>9, <2>1, <2>3
  <2>5. QED
    BY <1>9, <2>2, <2>4 DEF Within
<1>11. \A old : Within(hp, old) => old.a # slice.a
  BY <1>4, <1>9 DEF Within
<1>12. Apart(hp2, doc, held, slice)
  <2>1. \A other \in held : other.a # slice.a
    <3>1. NoSlice.a = 0
      BY DEF NoSlice, Slice
    <3>2. slice.a # 0
      BY <1>4, <1>9
    <3>3. QED
      BY <1>11, <3>1, <3>2 DEF Sound
  <2>2. QED
    BY <1>10, <1>11, <2>1 DEF Sound, Apart
<1>13. QED
  BY <1>4, <1>7, <1>8, <1>12 DEF Sound, Apart

\* An append to the slice of the line.
LEMMA SoundLine ==
  ASSUME NEW hp, NEW doc, NEW mine, NEW held, Sound(hp, doc, mine, held),
         NEW slice \in mine, NEW cell, NEW hp2, NEW longer,
         AppendSpares(hp, slice, cell, hp2, longer)
  PROVE  /\ Sound(hp2, doc, mine \union {longer}, held)
         /\ SameCells(hp, hp2, doc)
         /\ \A old \in held : old # NoSlice => SameCells(hp, hp2, old)
<1>1. /\ IsStore(hp2) /\ Within(hp2, longer) /\ Len(hp) \in Nat
      /\ longer.a = slice.a \/ longer.a > Len(hp)
      /\ \A a \in 1 .. Len(hp) : a # slice.a => hp2[a] = hp[a]
      /\ \A any : Within(hp, any) => Within(hp2, any)
  BY DEF AppendSpares
<1>2. Within(hp, doc) /\ slice.a # doc.a /\ \A other \in held : other.a # slice.a
  BY DEF Sound, Apart
<1>3. \A old : Within(hp, old) /\ old.a # slice.a => SameCells(hp, hp2, old)
  BY <1>1 DEF Within, SameCells, CellsIn
<1>4. \A old : Within(hp, old) => old.a \in 1 .. Len(hp) /\ ~(old.a > Len(hp))
  BY <1>1 DEF Within
<1>5. longer.a # doc.a
  BY <1>1, <1>2, <1>4
<1>6. ASSUME NEW other \in held PROVE longer.a # other.a
  <2>1. CASE other = NoSlice
    <3>1. NoSlice.a = 0
      BY DEF NoSlice, Slice
    <3>2. longer.a # 0
      BY <1>1, NotWithin
    <3>3. QED
      BY <2>1, <3>1, <3>2
  <2>2. CASE other # NoSlice
    BY <1>1, <1>2, <1>4, <2>2 DEF Sound
  <2>3. QED
    BY <2>1, <2>2
<1>7. Apart(hp2, doc, held, longer)
  BY <1>1, <1>5, <1>6 DEF Apart
<1>8. QED
  BY <1>1, <1>2, <1>3, <1>7 DEF Sound, Apart

\* An append to the document, which may hand out the slice of the line.
LEMMA SoundDocument ==
  ASSUME NEW hp, NEW doc, NEW mine, NEW held, Sound(hp, doc, mine, held),
         NEW row, NEW hp2, NEW longer, AppendSpares(hp, doc, row, hp2, longer),
         NEW held2, held2 \subseteq held \union mine
  PROVE  /\ Sound(hp2, longer, {}, held2)
         /\ \A old \in held : old # NoSlice => SameCells(hp, hp2, old)
<1>1. /\ IsStore(hp2) /\ Within(hp2, longer) /\ Len(hp) \in Nat
      /\ longer.a = doc.a \/ longer.a > Len(hp)
      /\ \A a \in 1 .. Len(hp) : a # doc.a => hp2[a] = hp[a]
      /\ \A any : Within(hp, any) => Within(hp2, any)
  BY DEF AppendSpares
<1>2. \A old : Within(hp, old) /\ old.a # doc.a => SameCells(hp, hp2, old)
  BY <1>1 DEF Within, SameCells, CellsIn
<1>3. \A old : Within(hp, old) => old.a \in 1 .. Len(hp) /\ ~(old.a > Len(hp))
  BY <1>1 DEF Within
<1>4. \A slice \in held2 : slice # NoSlice => Within(hp, slice) /\ slice.a # doc.a
  BY DEF Sound, Apart
<1>5. \A slice \in held2 : slice # NoSlice => Within(hp2, slice) /\ slice.a # longer.a
  BY <1>1, <1>3, <1>4
<1>6. QED
  BY <1>1, <1>2, <1>5 DEF Sound

-----------------------------------------------------------------------------
(* The stack.  len is the number of backing arrays.                        *)

\* What a frame holds besides its rule, phase, node and child does not matter.
GoFrame(S) == [rule : Rules, at : Phase, node : S, kid : S, n : S, done : S, o0 : S,
               pushed : BOOLEAN]

GoStack(stk) == \E S : stk \in Seq(GoFrame(S))

\* The frames stand at their depths, and all but the running one have opened;
\* a line rule has the slice of the document's rule, elem that of list.
GoShape(stk, len) ==
  /\ GoStack(stk)
  /\ stk # <<>>
  /\ \A i \in 1 .. Len(stk) : Level(stk[i].rule) = i /\ (stk[i].rule = "list" => stk[i].pushed)
  /\ \A i \in 1 .. Len(stk) - 1 : stk[i].at \in {"bc", "close"}
  /\ \A i \in 1 .. Len(stk) - 1 : i \in {1, 3} => stk[i + 1].node = stk[i].node
  /\ len = 0 <=> stk[1].at = "bo"

\* The running record has seen the slice of its line when it is to close.
GoReady(stk) ==
  LET top == stk[Len(stk)] IN top.rule = "record" /\ top.at = "bc" => top.kid # Undef

\* The slices that a frame has of the line: list has one once it has opened,
\* record has seen one that it has not handed out.
Mine(frame) ==
  (IF frame.rule = "list" /\ frame.at # "bo" THEN {frame.node} ELSE {}) \union
  (IF frame.rule = "record" /\ frame.at # "close" /\ frame.kid # Undef THEN {frame.kid} ELSE {})

AllMine(stk) == UNION {Mine(stk[i]) : i \in 1 .. Len(stk)}

LEMMA GoFramesWider ==
  ASSUME NEW S, NEW T, NEW stk \in Seq(GoFrame(S))
  PROVE  stk \in Seq(GoFrame(S \union T)) /\ GoFrame(T) \subseteq GoFrame(S \union T)
<1>1. GoFrame(S) \subseteq GoFrame(S \union T) /\ GoFrame(T) \subseteq GoFrame(S \union T)
  BY DEF GoFrame
<1>2. QED
  BY <1>1, SeqMonotonic

LEMMA FramePut ==
  ASSUME NEW S, NEW stk \in Seq(GoFrame(S)), NEW T, NEW f \in GoFrame(T),
         NEW i \in 1 .. Len(stk), NEW new, new = Put(stk, i, f)
  PROVE  /\ GoStack(new)
         /\ Len(new) = Len(stk) /\ Len(stk) \in Nat
         /\ \A j \in 1 .. Len(stk) : new[j] = IF j = i THEN f ELSE stk[j]
<1>1. stk \in Seq(GoFrame(S \union T)) /\ f \in GoFrame(S \union T)
  BY GoFramesWider
<1>2. QED
  BY <1>1, ExceptSeq, LenProperties DEF Put, GoStack

LEMMA GoDepth ==
  ASSUME NEW stk, NEW len, GoShape(stk, len)
  PROVE  /\ Len(stk) \in Nat \ {0} /\ Len(stk) \in 1 .. Len(stk) /\ 1 \in 1 .. Len(stk)
         /\ \A i \in 1 .. Len(stk) : \E S : stk[i] \in GoFrame(S)
         /\ \A i \in 1 .. Len(stk) : stk[i].rule \in Rules /\ Level(stk[i].rule) = i
<1>1. PICK S : stk \in Seq(GoFrame(S))
  BY DEF GoShape, GoStack
<1>2. Len(stk) \in Nat \ {0}
  BY <1>1, EmptySeq, LenProperties DEF GoShape
<1>3. \A i \in 1 .. Len(stk) : stk[i] \in GoFrame(S)
  BY <1>1, ElementOfSeq
<1>4. QED
  BY <1>2, <1>3 DEF GoShape, GoFrame

\* The depths of record and elem.
Paired(d) == d \in {2, 4}

\* f may stand where the running frame does: len2 backing arrays are there then.
MayStand(f, stk, d, len, len2) ==
  /\ Level(f.rule) = d /\ (f.rule = "list" => f.pushed)
  /\ Paired(d) => f.node = stk[d].node
  /\ d = 1 => (len2 = 0 <=> f.at = "bo")
  /\ d > 1 => (len2 = 0 <=> len = 0)

\* The running frame gives way to another of its depth.
LEMMA GoTopSet ==
  ASSUME NEW stk, NEW len \in Nat, NEW len2 \in Nat, GoShape(stk, len),
         NEW d, d = Len(stk), NEW T, NEW f \in GoFrame(T),
         MayStand(f, stk, d, len, len2),
         NEW new, new = Put(stk, d, f)
  PROVE  /\ GoShape(new, len2) /\ Len(new) = d /\ new[d] = f
         /\ \A i \in 1 .. d - 1 : new[i] = stk[i]
         /\ AllMine(new) \subseteq AllMine(stk) \union Mine(f)
<1>1. PICK S : stk \in Seq(GoFrame(S))
  BY DEF GoShape, GoStack
<1>2. d \in Nat \ {0} /\ d \in 1 .. Len(stk) /\ 1 \in 1 .. d
  BY GoDepth
<1>3. /\ GoStack(new)
      /\ Len(new) = d
      /\ \A j \in 1 .. d : new[j] = IF j = d THEN f ELSE stk[j]
  <2>1. GoStack(new)
    BY <1>1, <1>2, FramePut
  <2>2. Len(new) = d
    BY <1>1, <1>2, FramePut
  <2>3. \A j \in 1 .. d : new[j] = IF j = d THEN f ELSE stk[j]
    BY <1>1, <1>2, FramePut
  <2>4. QED
    BY <2>1, <2>2, <2>3
<1>4. new # <<>> /\ new[d] = f /\ \A i \in 1 .. d - 1 : new[i] = stk[i]
  BY <1>2, <1>3
<1>5. \A i \in 1 .. d : Level(new[i].rule) = i /\ (new[i].rule = "list" => new[i].pushed)
  BY <1>2, <1>3 DEF GoShape, MayStand
<1>6. \A i \in 1 .. d - 1 : new[i].at \in {"bc", "close"}
  BY <1>2, <1>4 DEF GoShape
<1>7. ASSUME NEW i \in 1 .. d - 1, i \in {1, 3} PROVE new[i + 1].node = new[i].node
  <2>1. stk[i + 1].node = stk[i].node
    BY <1>7 DEF GoShape
  <2>2. CASE i + 1 = d
    BY <1>4, <1>7, <2>1, <2>2 DEF MayStand, Paired
  <2>3. CASE i + 1 # d
    <3>1. i + 1 \in 1 .. d - 1
      BY <1>2, <2>3
    <3>2. QED
      BY <1>4, <2>1, <3>1
  <2>4. QED
    BY <2>2, <2>3
<1>8. len2 = 0 <=> new[1].at = "bo"
  <2>1. CASE d = 1
    BY <1>4, <2>1 DEF MayStand
  <2>2. CASE d # 1
    <3>1. d > 1 /\ 1 \in 1 .. d - 1
      BY <1>2, <2>2
    <3>2. QED
      BY <1>4, <3>1 DEF GoShape, MayStand
  <2>3. QED
    BY <2>1, <2>2
<1>9. GoShape(new, len2)
  BY <1>3, <1>4, <1>5, <1>6, <1>7, <1>8 DEF GoShape
<1>10. AllMine(new) \subseteq AllMine(stk) \union Mine(f)
  <2>1. \A i \in 1 .. d : new[i] = f \/ new[i] = stk[i]
    BY <1>3
  <2>2. QED
    BY <1>3, <2>1 DEF AllMine
<1>11. QED
  BY <1>3, <1>4, <1>9, <1>10

\* f may be the child of the running frame.
MayBePushed(f, stk, d) ==
  /\ stk[d].at \in {"bc", "close"}
  /\ Level(f.rule) = d + 1 /\ f.pushed /\ f.node = stk[d].node /\ f.kid = Undef
  /\ f.rule = "list" => f.at = "bo"

\* The running frame gets a child.
WithChild(stk, f) == Append(stk, f)

LEMMA GoPushed ==
  ASSUME NEW stk, NEW len \in Nat, GoShape(stk, len), NEW d, d = Len(stk),
         NEW T, NEW f \in GoFrame(T), MayBePushed(f, stk, d),
         NEW new, new = WithChild(stk, f)
  PROVE  /\ GoShape(new, len) /\ Len(new) = d + 1 /\ new[d + 1] = f
         /\ \A i \in 1 .. d : new[i] = stk[i]
         /\ AllMine(new) \subseteq AllMine(stk)
<1>1. PICK S : stk \in Seq(GoFrame(S))
  BY DEF GoShape, GoStack
<1>2. stk \in Seq(GoFrame(S \union T)) /\ f \in GoFrame(S \union T)
  BY <1>1, GoFramesWider
<1>3. d \in Nat \ {0} /\ 1 \in 1 .. d
  BY GoDepth
<1>4. /\ new \in Seq(GoFrame(S \union T)) /\ new # <<>> /\ Len(new) = d + 1
      /\ \A j \in 1 .. d : new[j] = stk[j]
      /\ new[d + 1] = f
  BY <1>2, AppendProperties DEF WithChild
<1>5. \A i \in 1 .. d + 1 : Level(new[i].rule) = i /\ (new[i].rule = "list" => new[i].pushed)
  BY <1>3, <1>4 DEF GoShape, MayBePushed
<1>6. \A i \in 1 .. d : new[i].at \in {"bc", "close"}
  BY <1>3, <1>4 DEF GoShape, MayBePushed
<1>7. ASSUME NEW i \in 1 .. d, i \in {1, 3} PROVE new[i + 1].node = new[i].node
  <2>1. CASE i = d
    BY <1>3, <1>4, <2>1 DEF MayBePushed
  <2>2. CASE i # d
    <3>1. i \in 1 .. d - 1 /\ i + 1 \in 1 .. d
      BY <1>3, <2>2
    <3>2. stk[i + 1].node = stk[i].node
      BY <1>7, <3>1 DEF GoShape
    <3>3. QED
      BY <1>4, <3>1, <3>2
  <2>3. QED
    BY <2>1, <2>2
<1>8. len = 0 <=> new[1].at = "bo"
  BY <1>3, <1>4 DEF GoShape
<1>9. GoShape(new, len)
  <2>1. Len(new) - 1 = d
    BY <1>3, <1>4
  <2>2. QED
    BY <1>4, <1>5, <1>6, <1>7, <1>8, <2>1 DEF GoShape, GoStack
<1>10. AllMine(new) \subseteq AllMine(stk)
  <2>1. Mine(f) = {}
    BY DEF Mine, MayBePushed
  <2>2. \A i \in 1 .. d + 1 : i \in 1 .. d \/ i = d + 1
    BY <1>3
  <2>3. QED
    BY <1>4, <2>1, <2>2 DEF AllMine
<1>11. QED
  BY <1>4, <1>9, <1>10

\* The running frame ends.
WithoutTop(stk) == SubSeq(stk, 1, Len(stk) - 1)

LEMMA GoPopped ==
  ASSUME NEW stk, NEW len \in Nat, GoShape(stk, len), NEW d, d = Len(stk), d > 1,
         NEW new, new = WithoutTop(stk)
  PROVE  /\ GoShape(new, len) /\ Len(new) = d - 1
         /\ \A i \in 1 .. d - 1 : new[i] = stk[i]
         /\ AllMine(new) \subseteq AllMine(stk)
<1>1. PICK S : stk \in Seq(GoFrame(S))
  BY DEF GoShape, GoStack
<1>2. d \in Nat \ {0}
  BY GoDepth
<1>3. \A i \in 1 .. d : stk[i] \in GoFrame(S)
  BY <1>1, ElementOfSeq
<1>4. /\ new \in Seq(GoFrame(S)) /\ Len(new) = d - 1
      /\ \A i \in 1 .. d - 1 : new[i] = stk[i]
  BY <1>2, <1>3, SubSeqProperties DEF WithoutTop
<1>5. new # <<>>
  <2>1. Len(new) # 0
    BY <1>2, <1>4
  <2>2. QED
    BY <1>4, <2>1, EmptySeq
<1>6. \A i \in 1 .. d - 1 : Level(new[i].rule) = i /\ (new[i].rule = "list" => new[i].pushed)
  BY <1>2, <1>4 DEF GoShape
<1>7. \A i \in 1 .. d - 2 : new[i].at \in {"bc", "close"}
  BY <1>2, <1>4 DEF GoShape
<1>8. ASSUME NEW i \in 1 .. d - 2, i \in {1, 3} PROVE new[i + 1].node = new[i].node
  <2>1. i \in 1 .. d - 1 /\ i + 1 \in 1 .. d - 1
    BY <1>2
  <2>2. stk[i + 1].node = stk[i].node
    BY <1>8, <2>1 DEF GoShape
  <2>3. QED
    BY <1>4, <2>1, <2>2
<1>9. len = 0 <=> new[1].at = "bo"
  BY <1>2, <1>4 DEF GoShape
<1>10. GoShape(new, len)
  <2>1. Len(new) - 1 = d - 2
    BY <1>2, <1>4
  <2>2. QED
    BY <1>4, <1>5, <1>6, <1>7, <1>8, <1>9, <2>1 DEF GoShape, GoStack
<1>11. AllMine(new) \subseteq AllMine(stk)
  <2>1. \A i \in 1 .. d - 1 : i \in 1 .. d
    BY <1>2
  <2>2. QED
    BY <1>4, <2>1 DEF AllMine
<1>12. QED
  BY <1>4, <1>10, <1>11

\* The running frame and the one below it change in what they hold.
\* b is the place below d.
Under(b, d) == b = d - 1

SameButNode(f, g) == f.rule = g.rule /\ f.at = g.at /\ f.pushed = g.pushed

\* Nothing else changes than the running frame and the one below it.
SameBelow(new, stk, b, d) == \A i \in 1 .. d : i # b /\ i # d => new[i] = stk[i]

HandedDown(new, stk, b, d) ==
  /\ d \in {2, 4} => new[d].node = new[b].node
  /\ b \in {2, 4} => new[b].node = stk[b].node

LEMMA GoTwo ==
  ASSUME NEW stk, NEW len \in Nat, GoShape(stk, len), NEW d, d = Len(stk), d > 1,
         NEW new, GoStack(new), Len(new) = d, NEW b, Under(b, d),
         SameBelow(new, stk, b, d), HandedDown(new, stk, b, d),
         SameButNode(new[b], stk[b]), SameButNode(new[d], stk[d])
  PROVE  /\ GoShape(new, len)
         /\ AllMine(new) \subseteq AllMine(stk) \union Mine(new[b]) \union Mine(new[d])
<1>1. d \in Nat \ {0} /\ b \in 1 .. d /\ b # d /\ 1 \in 1 .. d /\ b + 1 = d
  BY GoDepth DEF Under
<1>2. new # <<>>
  BY <1>1
<1>3. \A i \in 1 .. d : /\ new[i].rule = stk[i].rule /\ new[i].at = stk[i].at
                        /\ new[i].pushed = stk[i].pushed
  BY <1>1 DEF SameButNode, SameBelow
<1>4. \A i \in 1 .. d : Level(new[i].rule) = i /\ (new[i].rule = "list" => new[i].pushed)
  BY <1>3 DEF GoShape
<1>5. \A i \in 1 .. d - 1 : new[i].at \in {"bc", "close"}
  BY <1>1, <1>3 DEF GoShape
<1>6. ASSUME NEW i \in 1 .. d - 1, i \in {1, 3} PROVE new[i + 1].node = new[i].node
  <2>1. i + 1 \in 1 .. d /\ i \in 1 .. d /\ stk[i + 1].node = stk[i].node
    BY <1>1, <1>6 DEF GoShape
  <2>2. CASE i + 1 = d
    <3>1. i = b /\ d \in {2, 4}
      BY <1>1, <1>6, <2>2
    <3>2. QED
      BY <2>2, <3>1 DEF HandedDown
  <2>3. CASE i + 1 # d
    <3>1. i # b /\ i # d
      BY <1>1, <2>3
    <3>2. new[i] = stk[i]
      BY <2>1, <3>1 DEF SameBelow
    <3>3. CASE i + 1 = b
      <4>1. b \in {2, 4}
        BY <1>6, <3>3
      <4>2. QED
        BY <2>1, <3>2, <3>3, <4>1 DEF HandedDown
    <3>4. CASE i + 1 # b
      BY <2>1, <2>3, <3>2, <3>4 DEF SameBelow
    <3>5. QED
      BY <3>3, <3>4
  <2>4. QED
    BY <2>2, <2>3
<1>7. len = 0 <=> new[1].at = "bo"
  BY <1>1, <1>3 DEF GoShape
<1>8. GoShape(new, len)
  BY <1>2, <1>4, <1>5, <1>6, <1>7 DEF GoShape
<1>9. \A i \in 1 .. d : Mine(new[i]) \subseteq AllMine(stk) \union Mine(new[b]) \union Mine(new[d])
  BY <1>1 DEF AllMine, SameBelow
<1>10. QED
  BY <1>8, <1>9 DEF AllMine

WithNode(frame, node) == [frame EXCEPT !.node = node]
WithKid(frame, kid)   == [frame EXCEPT !.kid = kid]
WithAt(frame, phase)  == [frame EXCEPT !.at = phase]

LEMMA NodeSet ==
  ASSUME NEW S, NEW f \in GoFrame(S), NEW node, NEW g, g = WithNode(f, node)
  PROVE  /\ g \in GoFrame(S \union {node})
         /\ g.node = node /\ g.rule = f.rule /\ g.at = f.at /\ g.kid = f.kid
         /\ g.pushed = f.pushed
BY DEF WithNode, GoFrame

LEMMA KidOnly ==
  ASSUME NEW S, NEW f \in GoFrame(S), NEW kid, NEW g, g = WithKid(f, kid)
  PROVE  /\ g \in GoFrame(S \union {kid})
         /\ g.node = f.node /\ g.rule = f.rule /\ g.at = f.at /\ g.kid = kid
         /\ g.pushed = f.pushed
BY DEF WithKid, GoFrame

LEMMA PhaseSet ==
  ASSUME NEW S, NEW f \in GoFrame(S), NEW phase \in Phase, NEW g, g = WithAt(f, phase)
  PROVE  /\ g \in GoFrame(S)
         /\ g.node = f.node /\ g.rule = f.rule /\ g.at = phase /\ g.kid = f.kid
         /\ g.pushed = f.pushed
BY DEF WithAt, GoFrame

\* r.Node = arr; r.Parent.Node = arr, at the depths of record and elem.
BothNodes(stk, d, b, node) ==
  Put(Put(stk, d, WithNode(stk[d], node)), b, WithNode(stk[b], node))

LEMMA TwoNodes ==
  ASSUME NEW stk, NEW len \in Nat, GoShape(stk, len), NEW d, d = Len(stk), Paired(d),
         NEW b, Under(b, d), NEW node, NEW new, new = BothNodes(stk, d, b, node)
  PROVE  /\ GoShape(new, len) /\ Len(new) = d
         /\ \A i \in 1 .. d : i # b /\ i # d => new[i] = stk[i]
         /\ new[d] = WithNode(stk[d], node) /\ new[b] = WithNode(stk[b], node)
         /\ AllMine(new) \subseteq AllMine(stk) \union {node}
<1>1. PICK S : stk \in Seq(GoFrame(S))
  BY DEF GoShape, GoStack
<1>2. d \in Nat \ {0} /\ d \in 1 .. Len(stk) /\ b \in 1 .. Len(stk) /\ b # d /\ d > 1
  BY GoDepth DEF Under, Paired
<1>3. stk[d] \in GoFrame(S) /\ stk[b] \in GoFrame(S)
  BY <1>1, <1>2, ElementOfSeq
<1>4. PICK f : f = WithNode(stk[d], node)
  OBVIOUS
<1>5. PICK g : g = WithNode(stk[b], node)
  OBVIOUS
<1>6. PICK T : T = S \union {node}
  OBVIOUS
<1>7. /\ f \in GoFrame(T) /\ f.node = node /\ f.rule = stk[d].rule /\ f.at = stk[d].at
      /\ f.kid = stk[d].kid /\ f.pushed = stk[d].pushed
  <2>1. PICK old : old = stk[d] /\ old \in GoFrame(S) /\ f = WithNode(old, node)
    BY <1>3, <1>4
  <2>2. f \in GoFrame(S \union {node})
    BY <2>1, NodeSet
  <2>3. f.node = node /\ f.rule = old.rule /\ f.at = old.at /\ f.kid = old.kid /\ f.pushed = old.pushed
    BY <2>1 DEF WithNode, GoFrame
  <2>4. QED
    BY <1>6, <2>1, <2>2, <2>3
<1>8. /\ g \in GoFrame(T) /\ g.node = node /\ g.rule = stk[b].rule /\ g.at = stk[b].at
      /\ g.kid = stk[b].kid /\ g.pushed = stk[b].pushed
  <2>1. PICK old : old = stk[b] /\ old \in GoFrame(S) /\ g = WithNode(old, node)
    BY <1>3, <1>5
  <2>2. g \in GoFrame(S \union {node})
    BY <2>1, NodeSet
  <2>3. g.node = node /\ g.rule = old.rule /\ g.at = old.at /\ g.kid = old.kid /\ g.pushed = old.pushed
    BY <2>1 DEF WithNode, GoFrame
  <2>4. QED
    BY <1>6, <2>1, <2>2, <2>3
<1>10. PICK mid : mid = Put(stk, d, f)
  OBVIOUS
<1>11. PICK U : mid \in Seq(GoFrame(U))
  BY <1>1, <1>2, <1>7, <1>10, FramePut DEF GoStack
<1>12. Len(mid) = d /\ \A j \in 1 .. d : mid[j] = IF j = d THEN f ELSE stk[j]
  <2>1. Len(mid) = Len(stk)
    BY <1>1, <1>2, <1>7, <1>10, FramePut
  <2>2. \A j \in 1 .. Len(stk) : mid[j] = IF j = d THEN f ELSE stk[j]
    BY <1>1, <1>2, <1>7, <1>10, FramePut
  <2>3. QED
    BY <2>1, <2>2
<1>13. new = Put(mid, b, g) /\ b \in 1 .. Len(mid)
  BY <1>2, <1>4, <1>5, <1>10, <1>12 DEF BothNodes
<1>14. GoStack(new)
  BY <1>8, <1>11, <1>13, FramePut
<1>15. Len(new) = d /\ \A j \in 1 .. d : new[j] = IF j = b THEN g ELSE mid[j]
  <2>1. Len(new) = Len(mid)
    BY <1>8, <1>11, <1>13, FramePut
  <2>2. \A j \in 1 .. Len(mid) : new[j] = IF j = b THEN g ELSE mid[j]
    BY <1>8, <1>11, <1>13, FramePut
  <2>3. QED
    BY <1>12, <2>1, <2>2
<1>16. new[d] = f /\ new[b] = g /\ \A i \in 1 .. d : i # b /\ i # d => new[i] = stk[i]
  BY <1>2, <1>12, <1>15
<1>17. SameButNode(new[b], stk[b]) /\ SameButNode(new[d], stk[d])
  BY <1>7, <1>8, <1>16 DEF SameButNode
<1>18. HandedDown(new, stk, b, d) /\ SameBelow(new, stk, b, d)
  <2>1. b \in {1, 3}
    BY DEF Under, Paired
  <2>2. QED
    BY <1>7, <1>8, <1>16, <2>1 DEF HandedDown, SameBelow
<1>19. Len(new) = d
  BY <1>15
<1>20. d > 1
  BY <1>2
<1>21. GoShape(new, len)
  BY <1>14, <1>17, <1>18, <1>19, <1>20, GoTwo
<1>22. AllMine(new) \subseteq AllMine(stk) \union Mine(new[b]) \union Mine(new[d])
  BY <1>14, <1>17, <1>18, <1>19, <1>20, GoTwo
<1>23. Mine(f) \subseteq Mine(stk[d]) \union {node} /\ Mine(g) \subseteq Mine(stk[b]) \union {node}
  BY <1>7, <1>8 DEF Mine
<1>24. AllMine(new) \subseteq AllMine(stk) \union {node}
  <2>1. Mine(stk[d]) \subseteq AllMine(stk) /\ Mine(stk[b]) \subseteq AllMine(stk)
    BY <1>2 DEF AllMine
  <2>2. QED
    BY <1>16, <1>22, <1>23, <2>1
<1>25. QED
  BY <1>4, <1>5, <1>15, <1>16, <1>21, <1>24

\* What a frame has of the line by a child it has seen.
SeenBy(frame, kid) == IF frame.rule = "record" THEN {kid} ELSE {}

\* The frame below sees what its child leaves.
KidBelow(stk, b, kid) == Put(stk, b, WithKid(stk[b], kid))

LEMMA KidSeen ==
  ASSUME NEW stk, NEW len \in Nat, GoShape(stk, len), NEW d, d = Len(stk), d > 1,
         NEW b, Under(b, d), NEW kid, NEW new, new = KidBelow(stk, b, kid)
  PROVE  /\ GoShape(new, len) /\ Len(new) = d
         /\ \A i \in 1 .. d : i # b => new[i] = stk[i]
         /\ new[b].kid = kid /\ new[b].node = stk[b].node
         /\ AllMine(new) \subseteq AllMine(stk) \union SeenBy(stk[b], kid)
<1>1. PICK S : stk \in Seq(GoFrame(S))
  BY DEF GoShape, GoStack
<1>2. d \in Nat \ {0} /\ d \in 1 .. Len(stk) /\ b \in 1 .. Len(stk) /\ b # d /\ b = d - 1
  BY GoDepth DEF Under
<1>3. PICK old : old = stk[b]
  OBVIOUS
<1>4. old \in GoFrame(S)
  BY <1>1, <1>2, <1>3, ElementOfSeq
<1>5. PICK g : g = WithKid(old, kid)
  OBVIOUS
<1>6. PICK T : T = S \union {kid}
  OBVIOUS
<1>7. /\ g \in GoFrame(T) /\ g.node = old.node /\ g.rule = old.rule
      /\ g.at = old.at /\ g.kid = kid /\ g.pushed = old.pushed
  <2>1. g \in GoFrame(S \union {kid})
    BY <1>4, <1>5, KidOnly
  <2>2. /\ g.node = old.node /\ g.rule = old.rule
        /\ g.at = old.at /\ g.kid = kid /\ g.pushed = old.pushed
    BY <1>4, <1>5 DEF WithKid, GoFrame
  <2>3. QED
    BY <1>6, <2>1, <2>2
<1>8. new = Put(stk, b, g)
  BY <1>3, <1>5 DEF KidBelow
<1>9. GoStack(new)
  BY <1>1, <1>2, <1>7, <1>8, FramePut
<1>10. Len(new) = d /\ \A j \in 1 .. d : new[j] = IF j = b THEN g ELSE stk[j]
  <2>1. Len(new) = Len(stk)
    BY <1>1, <1>2, <1>7, <1>8, FramePut
  <2>2. \A j \in 1 .. Len(stk) : new[j] = IF j = b THEN g ELSE stk[j]
    BY <1>1, <1>2, <1>7, <1>8, FramePut
  <2>3. QED
    BY <2>1, <2>2
<1>11. new[d] = stk[d] /\ new[b] = g /\ \A i \in 1 .. d : i # b => new[i] = stk[i]
  BY <1>2, <1>10
<1>12. SameButNode(new[b], stk[b]) /\ SameButNode(new[d], stk[d])
  BY <1>3, <1>7, <1>11 DEF SameButNode
<1>13. d \in {2, 4} => new[d].node = new[b].node
  <2>1. d \in {2, 4} => b \in {1, 3} /\ b \in 1 .. d - 1 /\ b + 1 = d
    BY <1>2
  <2>2. d \in {2, 4} => stk[d].node = stk[b].node
    BY <2>1 DEF GoShape
  <2>3. QED
    BY <1>3, <1>7, <1>11, <2>2
<1>14. b \in {2, 4} => new[b].node = stk[b].node
  BY <1>3, <1>7, <1>11
<1>15. /\ HandedDown(new, stk, b, d) /\ SameBelow(new, stk, b, d) /\ Len(new) = d
  BY <1>10, <1>11, <1>13, <1>14 DEF HandedDown, SameBelow
<1>16. GoShape(new, len)
  BY <1>9, <1>12, <1>15, GoTwo
<1>17. AllMine(new) \subseteq AllMine(stk) \union Mine(new[b]) \union Mine(new[d])
  BY <1>9, <1>12, <1>15, GoTwo
<1>18. Mine(g) \subseteq Mine(old) \union SeenBy(old, kid)
  BY <1>7 DEF Mine, SeenBy
<1>19. Mine(old) \subseteq AllMine(stk) /\ Mine(stk[d]) \subseteq AllMine(stk)
  BY <1>2, <1>3 DEF AllMine
<1>20. AllMine(new) \subseteq AllMine(stk) \union SeenBy(stk[b], kid)
  BY <1>3, <1>11, <1>17, <1>18, <1>19
<1>21. QED
  BY <1>3, <1>7, <1>10, <1>11, <1>16, <1>20

-----------------------------------------------------------------------------
(* What is held, and the document.                                         *)

RowsOf(evs)    == {evs[i].row : i \in {j \in DOMAIN evs : evs[j].ev = "record"}}
CellSet(cells) == {cells[i] : i \in DOMAIN cells}
ArraysOf(rows) == {row.a : row \in {r \in rows : r.k = "array"}}

\* Held, of what it is made from: cells are the document's elements.
HeldFrom(stream, evs, field, cells) ==
  {field} \union ArraysOf(IF stream THEN RowsOf(evs) ELSE CellSet(cells))

LEMMA EventAdded ==
  ASSUME NEW evs, IsSequence(evs), NEW event, NEW new, new = Append(evs, event)
  PROVE  /\ IsSequence(new)
         /\ RowsOf(new) \subseteq
              RowsOf(evs) \union (IF event.ev = "record" THEN {event.row} ELSE {})
<1>1. PICK S : evs \in Seq(S)
  BY DEF IsSequence
<1>2. PICK T : T = S \union {event}
  OBVIOUS
<1>3. evs \in Seq(T) /\ event \in T
  BY <1>1, <1>2, SeqMonotonic
<1>4. /\ new \in Seq(T) /\ Len(evs) \in Nat /\ DOMAIN evs = 1 .. Len(evs)
      /\ DOMAIN new = 1 .. Len(evs) + 1
      /\ \A i \in 1 .. Len(evs) : new[i] = evs[i]
      /\ new[Len(evs) + 1] = event
  BY <1>3, AppendProperties, LenProperties
<1>5. \A i \in DOMAIN new : (i \in DOMAIN evs /\ new[i] = evs[i]) \/ new[i] = event
  BY <1>4
<1>6. QED
  BY <1>4, <1>5 DEF IsSequence, RowsOf

LEMMA CellAdded ==
  ASSUME NEW cells, IsSequence(cells), NEW cell, NEW new, new = Append(cells, cell)
  PROVE  /\ IsSequence(new) /\ IsPrefix(cells, new)
         /\ CellSet(new) \subseteq CellSet(cells) \union {cell}
<1>1. PICK S : cells \in Seq(S)
  BY DEF IsSequence
<1>2. PICK T : T = S \union {cell}
  OBVIOUS
<1>3. cells \in Seq(T) /\ cell \in T
  BY <1>1, <1>2, SeqMonotonic
<1>4. PICK n \in Nat : n = Len(cells)
  BY <1>1, LenProperties
<1>5. /\ new \in Seq(T) /\ DOMAIN cells = 1 .. n /\ Len(new) = n + 1
      /\ DOMAIN new = 1 .. n + 1
      /\ \A i \in 1 .. n : new[i] = cells[i]
      /\ new[n + 1] = cell
  BY <1>3, <1>4, AppendProperties, LenProperties
<1>6. \A i \in DOMAIN new : (i \in DOMAIN cells /\ new[i] = cells[i]) \/ new[i] = cell
  BY <1>5
<1>7. SubSeq(new, 1, n) = SubSeq(cells, 1, n)
  <2>1. PICK first, whole : first = SubSeq(new, 1, n) /\ whole = SubSeq(cells, 1, n)
    OBVIOUS
  <2>2. first \in Seq(T) /\ Len(first) = n /\ \A i \in 1 .. n : first[i] = new[i]
    <3>1. n <= Len(new)
      BY <1>5
    <3>2. QED
      BY <1>5, <2>1, <3>1, FirstCells
  <2>3. whole \in Seq(T) /\ Len(whole) = n /\ \A i \in 1 .. n : whole[i] = cells[i]
    <3>1. n <= Len(cells)
      BY <1>4
    <3>2. QED
      BY <1>3, <2>1, <3>1, FirstCells
  <2>4. first = whole
    BY <1>5, <2>2, <2>3, SeqEqual
  <2>5. QED
    BY <2>1, <2>4
<1>8. IsPrefix(cells, new)
  BY <1>4, <1>5, <1>7 DEF IsPrefix
<1>9. CellSet(new) \subseteq CellSet(cells) \union {cell}
  BY <1>6 DEF CellSet
<1>10. QED
  BY <1>5, <1>8, <1>9 DEF IsSequence

LEMMA PrefixSame ==
  ASSUME NEW cells, IsSequence(cells)
  PROVE  IsPrefix(cells, cells)
<1>1. Len(cells) \in Nat
  BY LenProperties DEF IsSequence
<1>2. QED
  BY <1>1 DEF IsPrefix

LEMMA CellsAre ==
  ASSUME NEW hp, IsStore(hp), NEW slice, Within(hp, slice)
  PROVE  IsSequence(CellsIn(hp, slice))
<1>1. PICK S : hp \in Seq(BackingArray(S))
  BY DEF IsStore
<1>2. hp[slice.a] \in BackingArray(S)
  BY <1>1, ElementOfSeq DEF Within
<1>3. hp[slice.a].cells \in Seq(S) /\ slice.n \in Nat /\ slice.n <= Len(hp[slice.a].cells)
  BY <1>2 DEF Within, SliceSet, BackingArray
<1>4. QED
  BY <1>3, FirstCells DEF CellsIn, IsSequence

-----------------------------------------------------------------------------
(* The inductive invariant, and what every step keeps.                     *)

\* The slices of the line that is being read.  After the parse has ended they
\* matter no more.
Reading == IF outcome = "run" THEN AllMine(stack) ELSE {}

GoInv ==
  /\ opts.empty \in BOOLEAN
  /\ IsSequence(events)
  /\ IsStore(heap)
  /\ GoShape(stack, Len(heap)) /\ GoReady(stack)
  /\ IF heap = <<>> THEN Held \subseteq {NoSlice}
     ELSE Sound(heap, stack[1].node, Reading, Held)

\* The body of AppendsSpareTheHeld.
Spared ==
  /\ \A slice \in Held \ {NoSlice} : CellsIn(heap', slice) = Cells(slice)
  /\ IsPrefix(Document, Document')

LEMMA HeldIs == Held = HeldFrom(opts.stream, events, fields, Document)
BY DEF Held, HandedRows, HeldFrom, ArraysOf, RowsOf, CellSet

LEMMA HeldIsNext == Held' = HeldFrom(opts'.stream, events', fields', Document')
BY DEF Held, HandedRows, HeldFrom, ArraysOf, RowsOf, CellSet

LEMMA DocumentIs ==
  ASSUME IsStore(heap), heap # <<>>, NEW doc, doc = stack[1].node, Within(heap, doc)
  PROVE  Document = CellsIn(heap, doc) /\ IsSequence(Document)
<1>1. doc # NoSlice
  BY NotWithin
<1>2. Document = CellsIn(heap, doc)
  BY <1>1 DEF Document, Cells
<1>3. QED
  BY <1>2, CellsAre

LEMMA DocumentIsNext ==
  ASSUME IsStore(heap'), heap' # <<>>, NEW doc, doc = stack'[1].node, Within(heap', doc)
  PROVE  Document' = CellsIn(heap', doc) /\ IsSequence(Document')
<1>1. doc # NoSlice
  BY NotWithin
<1>2. Document' = CellsIn(heap', doc)
  BY <1>1 DEF Document, Cells
<1>3. QED
  BY <1>2, CellsAre

\* A store that has grown from one with arrays.
LEMMA SameShape ==
  ASSUME NEW stk, NEW len \in Nat, NEW len2 \in Nat, GoShape(stk, len), len # 0, len <= len2
  PROVE  GoShape(stk, len2)
BY DEF GoShape

\* A step that leaves the arrays and the document as they are, with nothing
\* handed out, or with the slice of the line.
LEMMA Quiet ==
  ASSUME GoInv, heap' = heap, opts' = opts, IsSequence(events'),
         GoShape(stack', Len(heap')), GoReady(stack'), stack'[1].node = stack[1].node,
         heap = <<>> => Held' \subseteq {NoSlice},
         heap # <<>> => \/ Held' \subseteq Held \union {NoSlice} /\ Reading' \subseteq Reading
                        \/ Held' \subseteq Held \union Reading /\ Reading' = {}
  PROVE  GoInv' /\ Spared
<1>1. CASE heap = <<>>
  <2>1. Document = <<>> /\ Document' = <<>>
    BY <1>1 DEF Document
  <2>2. PICK none : none = <<>>
    OBVIOUS
  <2>3. IsSequence(none)
    BY <2>2 DEF IsSequence
  <2>4. IsPrefix(Document, Document')
    BY <2>1, <2>2, <2>3, PrefixSame
  <2>5. Held \ {NoSlice} = {}
    BY <1>1 DEF GoInv
  <2>6. Spared
    BY <2>4, <2>5 DEF Spared
  <2>7. GoInv'
    BY <1>1 DEF GoInv
  <2>8. QED
    BY <2>6, <2>7
<1>2. CASE heap # <<>>
  <2>1. PICK doc, mine, held : doc = stack[1].node /\ mine = Reading /\ held = Held
    OBVIOUS
  <2>2. Sound(heap, doc, mine, held)
    BY <1>2, <2>1 DEF GoInv
  <2>3. IsStore(heap) /\ Within(heap, doc)
    BY <2>2 DEF Sound
  <2>4. Document' = Document /\ IsSequence(Document)
    <3>1. Document = CellsIn(heap, doc) /\ IsSequence(Document)
      BY <1>2, <2>1, <2>3, DocumentIs
    <3>2. Document' = CellsIn(heap', doc)
      BY <1>2, <2>1, <2>3, DocumentIsNext
    <3>3. QED
      BY <3>1, <3>2
  <2>5. IsPrefix(Document, Document')
    BY <2>4, PrefixSame
  <2>6. \A slice \in Held \ {NoSlice} : CellsIn(heap', slice) = Cells(slice)
    BY DEF Cells
  <2>7. PICK mine2, held2 : mine2 = Reading' /\ held2 = Held'
    OBVIOUS
  <2>8. Sound(heap, doc, mine2, held2)
    <3>1. CASE held2 \subseteq held \union {NoSlice} /\ mine2 \subseteq mine
      BY <2>2, <3>1, SoundLess
    <3>2. CASE held2 \subseteq held \union mine /\ mine2 = {}
      BY <2>2, <3>2, SoundTaken
    <3>3. QED
      BY <1>2, <2>1, <2>7, <3>1, <3>2
  <2>9. GoInv'
    BY <1>2, <2>1, <2>3, <2>7, <2>8 DEF GoInv
  <2>10. QED
    BY <2>5, <2>6, <2>9 DEF Spared
<1>3. QED
  BY <1>1, <1>2

\* The same, with no event of a record and no header.
LEMMA Silent ==
  ASSUME GoInv, heap' = heap, opts' = opts, fields' = fields, IsSequence(events'),
         RowsOf(events') \subseteq RowsOf(events),
         GoShape(stack', Len(heap')), GoReady(stack'), stack'[1].node = stack[1].node,
         Reading' \subseteq Reading
  PROVE  GoInv' /\ Spared
<1>1. Document' = Document
  <2>1. CASE heap = <<>>
    BY <2>1 DEF Document
  <2>2. CASE heap # <<>>
    BY <2>2 DEF Document, Cells
  <2>3. QED
    BY <2>1, <2>2
<1>2. Held' \subseteq Held
  <2>1. PICK e, e2, f, c, s : /\ e = events /\ e2 = events' /\ f = fields
                              /\ c = Document /\ s = opts.stream
    OBVIOUS
  <2>2. HeldFrom(s, e2, f, c) \subseteq HeldFrom(s, e, f, c)
    BY <2>1 DEF HeldFrom, ArraysOf
  <2>3. QED
    BY <1>1, <2>1, <2>2, HeldIs, HeldIsNext
<1>3. heap = <<>> => Held' \subseteq {NoSlice}
  BY <1>2 DEF GoInv
<1>4. QED
  BY <1>2, <1>3, Quiet

\* A step that appends to the slice of the line.
LEMMA LineGrows ==
  ASSUME GoInv, heap # <<>>, NEW slice \in Reading, NEW cell, heap' = HeapWith(slice, cell),
         opts' = opts, events' = events, fields' = fields,
         GoShape(stack', Len(heap)), GoReady(stack'), stack'[1].node = stack[1].node,
         Reading' \subseteq Reading \union {Longer(slice)}
  PROVE  GoInv' /\ Spared
<1>1. PICK hp, doc, mine, held : /\ hp = heap /\ doc = stack[1].node
                                 /\ mine = Reading /\ held = Held
  OBVIOUS
<1>2. Sound(hp, doc, mine, held)
  BY <1>1 DEF GoInv
<1>3. PICK hp2, longer : hp2 = heap' /\ longer = Longer(slice)
  OBVIOUS
<1>4. IsStore(hp) /\ Within(hp, doc) /\ Within(hp, slice)
  BY <1>1, <1>2 DEF Sound, Apart
<1>5. AppendSpares(hp, slice, cell, hp2, longer)
  <2>1. IsStore(heap) /\ Within(heap, slice) /\ hp2 = HeapWith(slice, cell)
    BY <1>1, <1>3, <1>4
  <2>2. QED
    BY <1>1, <1>3, <2>1, HeapAppended
<1>6. Sound(hp2, doc, mine \union {longer}, held)
  BY <1>1, <1>2, <1>5, SoundLine
<1>7. SameCells(hp, hp2, doc)
  BY <1>1, <1>2, <1>5, SoundLine
<1>8. \A old \in held : old # NoSlice => SameCells(hp, hp2, old)
  BY <1>1, <1>2, <1>5, SoundLine
<1>9. IsStore(hp2) /\ Within(hp2, doc) /\ hp2 # <<>>
  <2>1. IsStore(hp2) /\ Within(hp2, doc) /\ doc.a \in 1 .. Len(hp2)
    BY <1>6 DEF Sound, Within
  <2>2. hp2 # <<>>
    BY <2>1
  <2>3. QED
    BY <2>1, <2>2
<1>10. Document = CellsIn(hp, doc) /\ IsSequence(Document)
  BY <1>1, <1>4, DocumentIs
<1>11. Document' = CellsIn(hp2, doc)
  BY <1>1, <1>3, <1>9, DocumentIsNext
<1>12. Document' = Document
  BY <1>7, <1>10, <1>11 DEF SameCells
<1>13. Held' = held
  BY <1>1, <1>12, HeldIs, HeldIsNext
<1>14. PICK mine2 : mine2 = Reading'
  OBVIOUS
<1>15. Sound(hp2, doc, mine2, held)
  <2>1. mine2 \subseteq mine \union {longer}
    BY <1>1, <1>3, <1>14
  <2>2. QED
    BY <1>6, <2>1, SoundLess
<1>20. GoShape(stack', Len(heap'))
  <2>1. PICK stk, len, len2 : /\ stk = stack' /\ len = Len(heap) /\ len2 = Len(heap')
    OBVIOUS
  <2>2. len \in Nat /\ len2 \in Nat /\ len <= len2
    BY <1>1, <1>3, <1>5, <2>1 DEF AppendSpares
  <2>3. len # 0 /\ GoShape(stk, len)
    BY <1>1, <1>4, <2>1, <2>2 DEF Within
  <2>4. GoShape(stk, len2)
    BY <2>2, <2>3, SameShape
  <2>5. QED
    BY <2>1, <2>4
<1>16. GoInv'
  BY <1>1, <1>3, <1>9, <1>13, <1>14, <1>15, <1>20 DEF GoInv
<1>17. IsPrefix(Document, Document')
  BY <1>10, <1>12, PrefixSame
<1>18. \A old \in Held \ {NoSlice} : CellsIn(heap', old) = Cells(old)
  BY <1>1, <1>3, <1>8 DEF SameCells, Cells
<1>19. QED
  BY <1>16, <1>17, <1>18 DEF Spared

\* A step that appends a row to the document.
LEMMA DocumentGrows ==
  ASSUME GoInv, heap # <<>>, NEW doc, doc = stack[1].node, NEW row, heap' = HeapWith(doc, row),
         stack'[1].node = Longer(doc), row.k = "array" => row.a \in Reading,
         opts' = opts, ~opts.stream, IsSequence(events'), fields' = fields,
         GoShape(stack', Len(heap)), GoReady(stack'), Reading' = {}
  PROVE  GoInv' /\ Spared
<1>1. PICK hp, mine, held : hp = heap /\ mine = Reading /\ held = Held
  OBVIOUS
<1>2. Sound(hp, doc, mine, held)
  BY <1>1 DEF GoInv
<1>3. PICK hp2, longer : hp2 = heap' /\ longer = Longer(doc)
  OBVIOUS
<1>4. IsStore(hp) /\ Within(hp, doc)
  BY <1>2 DEF Sound
<1>5. AppendSpares(hp, doc, row, hp2, longer)
  <2>1. IsStore(heap) /\ Within(heap, doc) /\ hp2 = HeapWith(doc, row)
    BY <1>1, <1>3, <1>4
  <2>2. QED
    BY <1>1, <1>3, <2>1, HeapAppended
<1>6. /\ IsStore(hp2) /\ Within(hp2, longer) /\ hp2 # <<>>
      /\ CellsIn(hp2, longer) = Append(CellsIn(hp, doc), row)
  <2>1. /\ IsStore(hp2) /\ Within(hp2, longer)
        /\ CellsIn(hp2, longer) = Append(CellsIn(hp, doc), row)
    BY <1>5 DEF AppendSpares
  <2>2. hp2 # <<>>
    BY <2>1 DEF Within
  <2>3. QED
    BY <2>1, <2>2
<1>7. Document = CellsIn(hp, doc) /\ IsSequence(Document)
  BY <1>1, <1>4, DocumentIs
<1>8. Document' = CellsIn(hp2, longer)
  BY <1>3, <1>6, DocumentIsNext
<1>9. PICK c, c2 : c = Document /\ c2 = Document'
  OBVIOUS
<1>10. IsSequence(c) /\ c2 = Append(c, row)
  BY <1>6, <1>7, <1>8, <1>9
<1>11. IsPrefix(c, c2) /\ CellSet(c2) \subseteq CellSet(c) \union {row}
  BY <1>10, CellAdded
<1>12. PICK held2 : held2 = Held'
  OBVIOUS
<1>13. held2 \subseteq held \union mine
  <2>1. ArraysOf({row}) \subseteq mine
    BY <1>1 DEF ArraysOf
  <2>2. PICK e, e2, f : e = events /\ e2 = events' /\ f = fields
    OBVIOUS
  <2>3. PICK s : s = opts.stream
    OBVIOUS
  <2>4. ~s
    BY <2>3
  <2>5. HeldFrom(s, e2, f, c2) \subseteq HeldFrom(s, e, f, c) \union ArraysOf({row})
    BY <1>11, <2>4 DEF HeldFrom, ArraysOf
  <2>6. held = HeldFrom(s, e, f, c) /\ held2 = HeldFrom(s, e2, f, c2)
    BY <1>1, <1>9, <1>12, <2>2, <2>3, HeldIs, HeldIsNext
  <2>7. QED
    BY <2>1, <2>5, <2>6
<1>14. Sound(hp2, longer, {}, held2)
  BY <1>2, <1>5, <1>13, SoundDocument
<1>15. \A old \in held : old # NoSlice => SameCells(hp, hp2, old)
  BY <1>2, <1>5, <1>13, SoundDocument
<1>20. GoShape(stack', Len(heap'))
  <2>1. PICK stk, len, len2 : /\ stk = stack' /\ len = Len(heap) /\ len2 = Len(heap')
    OBVIOUS
  <2>2. len \in Nat /\ len2 \in Nat /\ len <= len2
    BY <1>1, <1>3, <1>5, <2>1 DEF AppendSpares
  <2>3. len # 0 /\ GoShape(stk, len)
    BY <1>1, <1>4, <2>1, <2>2 DEF Within
  <2>4. GoShape(stk, len2)
    BY <2>2, <2>3, SameShape
  <2>5. QED
    BY <2>1, <2>4
<1>16. GoInv'
  BY <1>3, <1>6, <1>12, <1>14, <1>20 DEF GoInv
<1>17. \A old \in Held \ {NoSlice} : CellsIn(heap', old) = Cells(old)
  BY <1>1, <1>3, <1>15 DEF SameCells, Cells
<1>18. QED
  BY <1>9, <1>11, <1>16, <1>17 DEF Spared

-----------------------------------------------------------------------------
(* The steps' stacks in terms of Put.                                      *)

\* The document is there once its rule has opened.
LEMMA GoRunning ==
  ASSUME GoInv
  PROVE  /\ Len(heap) \in Nat /\ (heap = <<>> <=> Len(heap) = 0)
         /\ Depth = Len(stack) /\ Depth \in Nat \ {0} /\ Top = stack[Depth]
         /\ Top.rule \in Rules /\ Level(Top.rule) = Depth /\ (\E S : Top \in GoFrame(S))
         /\ Depth > 1 => heap # <<>>
         /\ Depth = 1 => (heap = <<>> <=> Top.at = "bo")
<1>1. PICK S : heap \in Seq(BackingArray(S))
  BY DEF GoInv, IsStore
<1>2. Len(heap) \in Nat /\ (heap = <<>> <=> Len(heap) = 0)
  BY <1>1, EmptySeq, LenProperties
<1>3. PICK stk, len : stk = stack /\ len = Len(heap)
  OBVIOUS
<1>4. GoShape(stk, len)
  BY <1>3 DEF GoInv
<1>5. /\ Depth = Len(stack) /\ Depth \in Nat \ {0} /\ Top = stack[Depth]
      /\ Depth \in 1 .. Len(stack) /\ stk = stack
  BY <1>3, <1>4, GoDepth DEF Depth, Top
<1>6. Top.rule \in Rules /\ Level(Top.rule) = Depth /\ \E T : Top \in GoFrame(T)
  BY <1>3, <1>4, <1>5, GoDepth
<1>7. Depth > 1 => stack[1].at # "bo"
  BY <1>3, <1>4, <1>5 DEF GoShape
<1>8. len = 0 <=> stack[1].at = "bo"
  BY <1>3, <1>4 DEF GoShape
<1>9. QED
  BY <1>2, <1>3, <1>5, <1>6, <1>7, <1>8

LEMMA AdvanceIs ==
  ASSUME NEW frame, NEW phase
  PROVE  Advance(frame, phase) = Put(stack, Depth, WithAt(frame, phase))
BY DEF Advance, Put, WithAt

LEMMA PutPlaces ==
  ASSUME NEW stk, GoStack(stk), NEW d \in 1 .. Len(stk), NEW b \in 1 .. Len(stk), b # d, NEW f
  PROVE  /\ Put(stk, d, f)[d] = f /\ Put(stk, d, f)[b] = stk[b]
         /\ DOMAIN Put(stk, d, f) = DOMAIN stk
<1>1. DOMAIN stk = 1 .. Len(stk)
  BY LenProperties DEF GoStack
<1>2. QED
  BY <1>1 DEF Put

LEMMA SharedIs ==
  ASSUME NEW frames, GoStack(frames), NEW d, d = Depth, d \in 1 .. Len(frames),
         NEW b, b = d - 1, b \in 1 .. Len(frames), NEW node, node = Longer(Top.node)
  PROVE  SharedNode(frames) = BothNodes(frames, d, b, node)
<1>1. PICK mid : mid = Put(frames, d, WithNode(frames[d], node))
  OBVIOUS
<1>2. d \in Nat /\ b # d
  BY LenProperties DEF GoStack
<1>3. mid[b] = frames[b]
  BY <1>1, <1>2, PutPlaces
<1>4. SharedNode(frames) = Put(mid, b, WithNode(mid[b], node))
  BY <1>1 DEF SharedNode, Put, WithNode
<1>5. QED
  BY <1>1, <1>3, <1>4 DEF BothNodes

\* A line that has been read is nobody's.
LEMMA NoLine ==
  ASSUME NEW stk, NEW len, GoShape(stk, len), Len(stk) <= 2,
         Len(stk) = 1 \/ stk[Len(stk)].at = "close"
  PROVE  AllMine(stk) = {}
<1>1. \A i \in 1 .. Len(stk) : stk[i].rule \in Rules /\ Level(stk[i].rule) = i
  BY GoDepth
<1>2. \A i \in 1 .. Len(stk) : i = 1 \/ i = Len(stk)
  BY GoDepth
<1>3. \A i \in 1 .. Len(stk) : Mine(stk[i]) = {}
  <2>1. SUFFICES ASSUME NEW i \in 1 .. Len(stk) PROVE Mine(stk[i]) = {}
    OBVIOUS
  <2>2. PICK rule \in Rules : rule = stk[i].rule /\ Level(rule) = i
    BY <1>1
  <2>3. i \in {1, 2} /\ rule # "list"
    <3>1. i \in {1, 2}
      BY GoDepth
    <3>2. QED
      BY <2>2, <3>1, LevelOf
  <2>4. rule = "record" => stk[i].at = "close"
    <3>1. rule = "record" => i = 2
      BY <2>2, LevelOf
    <3>2. QED
      BY <1>2, <2>2, <3>1
  <2>5. QED
    BY <2>2, <2>3, <2>4 DEF Mine
<1>4. QED
  BY <1>3 DEF AllMine

SameButAt(f, g) == f.rule = g.rule /\ f.pushed = g.pushed

\* The running instance goes on, with the same rule.
LEMMA GoAdvanced ==
  ASSUME NEW stk, NEW len \in Nat, NEW len2 \in Nat, GoShape(stk, len),
         NEW d, d = Len(stk), NEW T, NEW f \in GoFrame(T), SameButAt(f, stk[d]),
         f.at # "bo",
         d \in {2, 4} => f.node = stk[d].node,
         d = 1 => len2 # 0, d > 1 => (len2 = 0 <=> len = 0),
         NEW new, new = Put(stk, d, f)
  PROVE  /\ GoShape(new, len2) /\ Len(new) = d /\ new[d] = f
         /\ \A i \in 1 .. d - 1 : new[i] = stk[i]
         /\ AllMine(new) \subseteq AllMine(stk) \union Mine(f)
<1>1. MayStand(f, stk, d, len, len2)
  <2>1. /\ Level(f.rule) = d /\ (f.rule = "list" => f.pushed)
        /\ (d = 1 => (len2 = 0 <=> f.at = "bo"))
    BY GoDepth DEF SameButAt, GoShape
  <2>2. QED
    BY <2>1 DEF MayStand, Paired
<1>2. GoShape(new, len2)
  BY <1>1, GoTopSet
<1>3. Len(new) = d /\ new[d] = f
  BY <1>1, GoTopSet
<1>4. \A i \in 1 .. d - 1 : new[i] = stk[i]
  <2>1. PICK S : stk \in Seq(GoFrame(S))
    BY DEF GoShape, GoStack
  <2>2. d \in Nat \ {0} /\ d \in 1 .. Len(stk)
    BY GoDepth
  <2>3. \A j \in 1 .. Len(stk) : new[j] = IF j = d THEN f ELSE stk[j]
    BY <2>1, <2>2, FramePut
  <2>4. QED
    BY <2>2, <2>3
<1>5. AllMine(new) \subseteq AllMine(stk) \union Mine(f)
  <2>1. \A i \in 1 .. d : new[i] = f \/ new[i] = stk[i]
    BY <1>3, <1>4, GoDepth
  <2>2. QED
    BY <1>3, <2>1 DEF AllMine
<1>6. QED
  BY <1>2, <1>3, <1>4, <1>5

LEMMA NodeAt ==
  ASSUME NEW S, NEW g \in GoFrame(S), NEW node, NEW phase \in Phase,
         NEW f, f = WithAt(WithNode(g, node), phase)
  PROVE  /\ \E T : f \in GoFrame(T)
         /\ f.node = node /\ f.rule = g.rule /\ f.at = phase /\ f.kid = g.kid
         /\ f.pushed = g.pushed
<1>1. PICK mid : mid = WithNode(g, node)
  OBVIOUS
<1>2. PICK T : T = S \union {node}
  OBVIOUS
<1>3. /\ mid \in GoFrame(T) /\ mid.node = node /\ mid.rule = g.rule /\ mid.kid = g.kid
      /\ mid.pushed = g.pushed
  BY <1>1, <1>2, NodeSet
<1>4. f = WithAt(mid, phase)
  BY <1>1
<1>5. /\ f \in GoFrame(T) /\ f.node = mid.node /\ f.rule = mid.rule /\ f.at = phase
      /\ f.kid = mid.kid /\ f.pushed = mid.pushed
  BY <1>3, <1>4, PhaseSet
<1>6. QED
  BY <1>3, <1>5

LEMMA OwnNode ==
  ASSUME NEW S, NEW g \in GoFrame(S)
  PROVE  WithNode(g, g.node) = g
BY DEF WithNode, GoFrame

\* The running instance gets a node and a phase.
LEMMA TopMoves ==
  ASSUME GoInv, NEW node, NEW phase \in Phase, phase # "bo", NEW len2 \in Nat, len2 # 0,
         Depth \in {2, 4} => node = Top.node,
         NEW f, f = WithAt(WithNode(Top, node), phase), NEW new, new = Put(stack, Depth, f)
  PROVE  /\ GoShape(new, len2) /\ Len(new) = Depth /\ new[Depth] = f
         /\ \A i \in 1 .. Depth - 1 : new[i] = stack[i]
         /\ AllMine(new) \subseteq AllMine(stack) \union Mine(f)
         /\ f.node = node /\ f.rule = Top.rule /\ f.at = phase /\ f.kid = Top.kid
<1>1. PICK stk, len, d : stk = stack /\ len = Len(heap) /\ d = Depth /\ len \in Nat
  BY GoRunning
<1>2. PICK S : Top \in GoFrame(S)
  BY GoRunning
<1>3. /\ f.node = node /\ f.rule = Top.rule /\ f.at = phase /\ f.kid = Top.kid
      /\ f.pushed = Top.pushed
  BY <1>2, NodeAt
<1>4. PICK T : f \in GoFrame(T)
  BY <1>2, NodeAt
<1>5. GoShape(stk, len) /\ d = Len(stk) /\ Top = stk[d]
  BY <1>1, GoRunning DEF GoInv
<1>6. SameButAt(f, stk[d]) /\ f.at # "bo" /\ (d \in {2, 4} => f.node = stk[d].node)
  BY <1>1, <1>3, <1>5 DEF SameButAt
<1>7. (d = 1 => len2 # 0) /\ (d > 1 => (len2 = 0 <=> len = 0))
  BY <1>1, GoRunning
<1>8. new = Put(stk, d, f)
  BY <1>1
<1>9. GoShape(new, len2)
  BY <1>1, <1>4, <1>5, <1>6, <1>7, <1>8, GoAdvanced
<1>10. Len(new) = d /\ new[d] = f
  BY <1>1, <1>4, <1>5, <1>6, <1>7, <1>8, GoAdvanced
<1>11. \A i \in 1 .. d - 1 : new[i] = stk[i]
  BY <1>1, <1>4, <1>5, <1>6, <1>7, <1>8, GoAdvanced
<1>12. AllMine(new) \subseteq AllMine(stk) \union Mine(f)
  BY <1>1, <1>4, <1>5, <1>6, <1>7, <1>8, GoAdvanced
<1>13. QED
  BY <1>1, <1>3, <1>9, <1>10, <1>11, <1>12

LEMMA EmitKeeps ==
  ASSUME GoInv, NEW event, event.ev # "record", NEW new, new = Emit(event)
  PROVE  IsSequence(new) /\ RowsOf(new) \subseteq RowsOf(events)
<1>1. PICK evs : evs = events
  OBVIOUS
<1>2. IsSequence(evs)
  BY <1>1 DEF GoInv
<1>3. CASE new = Append(evs, event)
  BY <1>1, <1>2, <1>3, EventAdded
<1>4. CASE new = events
  BY <1>1, <1>2, <1>4
<1>5. QED
  BY <1>1, <1>3, <1>4 DEF Emit

-----------------------------------------------------------------------------
(* The callbacks.                                                          *)

LEMMA GoCsvBOStep ==
  ASSUME GoInv, GoCsvBO
  PROVE  GoInv' /\ Spared
<1>1. Top.rule = "csv" /\ Top.at = "bo" /\ outcome = "run"
  BY DEF GoCsvBO, Running
<1>2. Depth = 1 /\ heap = <<>>
  <2>1. Depth = 1
    BY <1>1, GoRunning, LevelOf
  <2>2. QED
    BY <1>1, <2>1, GoRunning
<1>3. PICK none, array, hp2, slice :
        /\ none = <<>> /\ array = NewArray(none, 0) /\ hp2 = heap' /\ slice = Slice(1, 0)
  OBVIOUS
<1>4. array \in BackingArray(Nat) /\ array.cells = none
  <2>1. none \in Seq(Nat)
    BY <1>3
  <2>2. QED
    BY <1>3, <2>1, NewArrayOK
<1>5. IsStore(hp2) /\ Len(hp2) = 1 /\ hp2[1] = array /\ hp2 # <<>>
  <2>1. IsStore(heap) /\ Len(heap) = 0
    BY <1>2 DEF GoInv
  <2>2. hp2 = Append(heap, array)
    BY <1>3 DEF GoCsvBO, Fresh, NewArray
  <2>3. PICK hp : hp = heap
    OBVIOUS
  <2>4. IsStore(hp2)
    BY <1>4, <2>1, <2>2, <2>3, ArrayAdded
  <2>5. Len(hp2) = Len(hp) + 1
    BY <1>4, <2>1, <2>2, <2>3, ArrayAdded
  <2>6. hp2[Len(hp) + 1] = array
    BY <1>4, <2>1, <2>2, <2>3, ArrayAdded
  <2>7. Len(hp2) = 1 /\ hp2[1] = array
    BY <2>1, <2>3, <2>5, <2>6
  <2>8. QED
    BY <2>4, <2>7
<1>6. Within(hp2, slice) /\ CellsIn(hp2, slice) = <<>>
  <2>1. slice \in SliceSet /\ slice.a = 1 /\ slice.n = 0
    BY <1>3 DEF Slice, SliceSet
  <2>2. hp2[slice.a].cells = none /\ none \in Seq(Nat) /\ Len(none) = 0
    BY <1>3, <1>4, <1>5, <2>1
  <2>3. CellsIn(hp2, slice) = <<>>
    BY <2>1, <2>2, SubSeqEmpty DEF CellsIn
  <2>4. QED
    BY <1>5, <2>1, <2>2, <2>3 DEF Within
<1>7. PICK f : f = WithAt(WithNode(Top, slice), "open")
  OBVIOUS
<1>8. stack' = Put(stack, Depth, f)
  BY <1>2, <1>3, <1>7, AdvanceIs DEF GoCsvBO, WithNode
<1>9. /\ GoShape(stack', 1) /\ Len(stack') = 1 /\ stack'[1] = f
      /\ f.node = slice /\ f.rule = Top.rule /\ f.at = "open"
  <2>1. PICK new, len2 : new = stack' /\ len2 = 1 /\ len2 \in Nat
    OBVIOUS
  <2>2. "open" \in Phase /\ len2 # 0 /\ new = Put(stack, Depth, f)
    BY <1>8, <2>1 DEF Phase
  <2>3. GoShape(new, len2)
    BY <1>2, <1>7, <2>1, <2>2, TopMoves
  <2>4. Len(new) = Depth /\ new[Depth] = f
    BY <1>2, <1>7, <2>2, TopMoves
  <2>5. f.node = slice /\ f.rule = Top.rule /\ f.at = "open"
    <3>1. f.node = slice
      BY <1>2, <1>7, <2>2, TopMoves
    <3>2. f.rule = Top.rule
      BY <1>2, <1>7, <2>2, TopMoves
    <3>3. f.at = "open"
      BY <1>2, <1>7, <2>2, TopMoves
    <3>4. QED
      BY <3>1, <3>2, <3>3
  <2>6. QED
    BY <1>2, <2>1, <2>3, <2>4, <2>5
<1>10. GoShape(stack', Len(heap')) /\ GoReady(stack') /\ AllMine(stack') = {}
  <2>1. GoShape(stack', Len(heap')) /\ GoReady(stack')
    BY <1>1, <1>3, <1>5, <1>9 DEF GoReady
  <2>2. PICK stk, len : stk = stack' /\ len = Len(heap')
    OBVIOUS
  <2>3. GoShape(stk, len) /\ Len(stk) = 1 /\ Len(stk) <= 2
    <3>1. Len(stk) = 1
      BY <1>9, <2>2
    <3>2. GoShape(stk, len)
      BY <2>1, <2>2
    <3>3. QED
      BY <3>1, <3>2
  <2>4. AllMine(stk) = {}
    BY <2>3, NoLine
  <2>5. QED
    BY <2>1, <2>2, <2>4
<1>11. IsSequence(events') /\ RowsOf(events') \subseteq RowsOf(events)
  BY EmitKeeps DEF GoCsvBO
<1>12. Document = <<>> /\ Document' = <<>>
  <2>1. Document' = CellsIn(hp2, slice)
    BY <1>3, <1>5, <1>6, <1>9, DocumentIsNext
  <2>2. QED
    BY <1>2, <1>6, <2>1 DEF Document
<1>13. Held' \subseteq {NoSlice}
  <2>1. PICK e, e2, x, c, s : /\ e = events /\ e2 = events' /\ x = fields
                              /\ c = Document /\ s = opts.stream
    OBVIOUS
  <2>2. HeldFrom(s, e2, x, c) \subseteq HeldFrom(s, e, x, c)
    BY <1>11, <2>1 DEF HeldFrom, ArraysOf
  <2>3. Held' \subseteq Held
    BY <1>12, <2>1, <2>2, HeldIs, HeldIsNext DEF GoCsvBO
  <2>4. QED
    BY <1>2, <2>3 DEF GoInv
<1>14. Sound(heap', stack'[1].node, Reading', Held')
  <2>1. Reading' = {}
    BY <1>10 DEF Reading
  <2>2. Sound(hp2, slice, {}, Held')
    BY <1>5, <1>6, <1>13 DEF Sound
  <2>3. QED
    BY <1>3, <1>9, <2>1, <2>2
<1>15. GoInv'
  BY <1>3, <1>5, <1>10, <1>11, <1>14 DEF GoInv, GoCsvBO
<1>16. Spared
  <2>1. Held \ {NoSlice} = {}
    BY <1>2 DEF GoInv
  <2>2. PICK c : c = Document
    OBVIOUS
  <2>3. IsSequence(c) /\ Document' = c
    BY <1>3, <1>4, <1>12, <2>2 DEF IsSequence
  <2>4. IsPrefix(Document, Document')
    BY <2>2, <2>3, PrefixSame
  <2>5. QED
    BY <2>1, <2>4 DEF Spared
<1>17. QED
  BY <1>15, <1>16

LEMMA GoListBOStep ==
  ASSUME GoInv, GoListBO
  PROVE  GoInv' /\ Spared
<1>1. Top.rule = "list" /\ Top.at = "bo" /\ outcome = "run" /\ outcome' = "run"
  BY DEF GoListBO, Running
<1>2. Depth = 3 /\ heap # <<>>
  <2>1. Depth = 3
    BY <1>1, GoRunning, LevelOf
  <2>2. QED
    BY <2>1, GoRunning
<1>3. PICK hp, doc, mine, held, hp2, doc2, mine2, slice :
        /\ hp = heap /\ doc = stack[1].node /\ mine = Reading /\ held = Held
        /\ hp2 = heap' /\ doc2 = stack'[1].node /\ mine2 = Reading'
        /\ slice = Slice(Len(hp) + 1, 0)
  OBVIOUS
<1>4. Sound(hp, doc, mine, held)
  BY <1>2, <1>3 DEF GoInv
<1>5. hp2 = Append(hp, NewArray(<<>>, 0))
  BY <1>3 DEF GoListBO, Fresh, NewArray
<1>6. Sound(hp2, doc, mine \union {slice}, held)
  BY <1>3, <1>4, <1>5, SoundFresh
<1>7. \A old : Within(hp, old) => SameCells(hp, hp2, old)
  BY <1>3, <1>4, <1>5, SoundFresh
<1>8. IsStore(hp2) /\ Within(hp2, doc) /\ IsStore(hp) /\ Within(hp, doc)
  BY <1>4, <1>6 DEF Sound
<1>9. hp2 # <<>> /\ Len(hp2) \in Nat /\ Len(hp2) # 0
  <2>1. Len(hp2) \in Nat /\ doc.a \in 1 .. Len(hp2)
    BY <1>8, LenProperties DEF IsStore, Within
  <2>2. Len(hp2) # 0
    BY <2>1
  <2>3. QED
    BY <2>1, <2>2
<1>10. PICK f, new, len2 :
         /\ f = WithAt(WithNode(Top, slice), "open") /\ new = stack' /\ len2 = Len(hp2)
         /\ len2 \in Nat /\ len2 # 0
  BY <1>9
<1>11. new = Put(stack, Depth, f) /\ "open" \in Phase
  BY <1>3, <1>10, AdvanceIs DEF GoListBO, WithNode, Phase
<1>12. GoShape(new, len2)
  BY <1>2, <1>10, <1>11, TopMoves
<1>13. Len(new) = 3 /\ new[3] = f
  BY <1>2, <1>10, <1>11, TopMoves
<1>14. \A i \in 1 .. 2 : new[i] = stack[i]
  BY <1>2, <1>10, <1>11, TopMoves
<1>15. AllMine(new) \subseteq AllMine(stack) \union Mine(f)
  BY <1>2, <1>10, <1>11, TopMoves
<1>16. f.node = slice
  BY <1>2, <1>10, <1>11, TopMoves
<1>17. f.rule = "list"
  BY <1>1, <1>2, <1>10, <1>11, TopMoves
<1>18. Mine(f) \subseteq {slice}
  BY <1>16, <1>17 DEF Mine
<1>19. GoShape(stack', Len(heap')) /\ GoReady(stack')
  BY <1>3, <1>10, <1>12, <1>13, <1>17 DEF GoReady
<1>20. doc2 = doc /\ mine2 \subseteq mine \union {slice}
  BY <1>1, <1>3, <1>10, <1>14, <1>15, <1>18 DEF Reading
<1>21. Sound(hp2, doc, mine2, held)
  BY <1>6, <1>20, SoundLess
<1>22. Document = CellsIn(hp, doc) /\ IsSequence(Document)
  BY <1>2, <1>3, <1>8, DocumentIs
<1>23. Document' = Document
  <2>1. Document' = CellsIn(hp2, doc)
    BY <1>3, <1>8, <1>9, <1>20, DocumentIsNext
  <2>2. QED
    BY <1>7, <1>8, <1>22, <2>1 DEF SameCells
<1>24. Held' = held
  BY <1>3, <1>23, HeldIs, HeldIsNext DEF GoListBO
<1>25. GoInv'
  BY <1>3, <1>8, <1>9, <1>19, <1>20, <1>21, <1>24 DEF GoInv, GoListBO
<1>26. \A old \in Held \ {NoSlice} : CellsIn(heap', old) = Cells(old)
  BY <1>3, <1>4, <1>7 DEF Sound, SameCells, Cells
<1>27. QED
  BY <1>22, <1>23, <1>25, <1>26, PrefixSame DEF Spared

\* The steps that only give the running instance a value and a phase.
LEMMA TopSilent ==
  ASSUME GoInv, outcome = "run", outcome' = "run", heap' = heap, opts' = opts,
         fields' = fields, events' = events, Depth > 2, Top.rule # "list",
         NEW node, NEW phase \in Phase, phase # "bo", Depth \in {2, 4} => node = Top.node,
         stack' = Put(stack, Depth, WithAt(WithNode(Top, node), phase))
  PROVE  GoInv' /\ Spared
<1>1. PICK f, new, len2 :
         /\ f = WithAt(WithNode(Top, node), phase) /\ new = stack' /\ len2 = Len(heap)
         /\ len2 \in Nat /\ len2 # 0
  BY GoRunning
<1>2. new = Put(stack, Depth, f)
  BY <1>1
<1>3. GoShape(new, len2)
  BY <1>1, <1>2, TopMoves
<1>4. Len(new) = Depth /\ new[Depth] = f
  BY <1>1, <1>2, TopMoves
<1>5. \A i \in 1 .. Depth - 1 : new[i] = stack[i]
  BY <1>1, <1>2, TopMoves
<1>6. AllMine(new) \subseteq AllMine(stack) \union Mine(f)
  BY <1>1, <1>2, TopMoves
<1>7. f.rule = Top.rule
  BY <1>1, <1>2, TopMoves
<1>8. Top.rule # "record" /\ 1 \in 1 .. Depth - 1
  BY GoRunning, LevelOf
<1>9. Mine(f) = {}
  BY <1>7, <1>8 DEF Mine
<1>10. Reading' \subseteq Reading
  BY <1>1, <1>6, <1>9 DEF Reading
<1>11. GoShape(stack', Len(heap')) /\ GoReady(stack') /\ stack'[1].node = stack[1].node
  BY <1>1, <1>3, <1>4, <1>5, <1>7, <1>8 DEF GoReady
<1>12. IsSequence(events') /\ RowsOf(events') \subseteq RowsOf(events)
  BY DEF GoInv
<1>13. QED
  BY <1>10, <1>11, <1>12, Silent

LEMMA GoValBOStep ==
  ASSUME GoInv, ValBO
  PROVE  GoInv' /\ Spared
<1>1. Top.rule = "val" /\ outcome = "run" /\ Depth = 5
  BY GoRunning, LevelOf DEF ValBO, Running
<1>2. stack' = Put(stack, Depth, WithAt(WithNode(Top, Undef), "open"))
  BY AdvanceIs DEF ValBO, WithNode
<1>3. "open" \in Phase
  BY DEF Phase
<1>4. /\ outcome' = "run" /\ heap' = heap /\ opts' = opts /\ fields' = fields
      /\ events' = events
  BY <1>1 DEF ValBO
<1>5. QED
  BY <1>1, <1>2, <1>3, <1>4, TopSilent

LEMMA GoValBCStep ==
  ASSUME GoInv, ValBC
  PROVE  GoInv' /\ Spared
<1>1. Top.rule = "val" /\ outcome = "run" /\ Depth = 5
  BY GoRunning, LevelOf DEF ValBC, Running
<1>2. PICK node : stack' = Put(stack, Depth, WithAt(WithNode(Top, node), "close"))
  BY AdvanceIs DEF ValBC, WithNode
<1>3. "close" \in Phase
  BY DEF Phase
<1>4. /\ outcome' = "run" /\ heap' = heap /\ opts' = opts /\ fields' = fields
      /\ events' = events
  BY <1>1 DEF ValBC
<1>5. QED
  BY <1>1, <1>2, <1>3, <1>4, TopSilent

\* The value a text leaves with the val below it.
ValueBelow(stk, b, node) == Put(stk, b, WithNode(stk[b], node))

LEMMA ValueSet ==
  ASSUME NEW stk, NEW len \in Nat, GoShape(stk, len), NEW d, d = Len(stk), d > 1,
         NEW b, Under(b, d), stk[b].rule = "val",
         NEW node, NEW new, new = ValueBelow(stk, b, node)
  PROVE  /\ GoShape(new, len) /\ Len(new) = d /\ new[d] = stk[d] /\ new[1] = stk[1]
         /\ AllMine(new) \subseteq AllMine(stk)
<1>1. PICK S : stk \in Seq(GoFrame(S))
  BY DEF GoShape, GoStack
<1>17. b = 5 /\ d = 6
  <2>1. b \in 1 .. Len(stk) /\ d = b + 1
    BY GoDepth DEF Under
  <2>2. Level(stk[b].rule) = b
    BY <2>1, GoDepth
  <2>3. QED
    BY <2>1, <2>2 DEF Level
<1>2. d \in 1 .. Len(stk) /\ b \in 1 .. Len(stk) /\ b # d /\ b # 1 /\ 1 \in 1 .. d
  BY <1>17
<1>3. PICK old : old = stk[b]
  OBVIOUS
<1>4. old \in GoFrame(S)
  BY <1>1, <1>2, <1>3, ElementOfSeq
<1>5. PICK g : g = WithNode(old, node)
  OBVIOUS
<1>6. PICK T : T = S \union {node}
  OBVIOUS
<1>7. /\ g \in GoFrame(T) /\ g.rule = old.rule /\ g.at = old.at /\ g.kid = old.kid
      /\ g.pushed = old.pushed
  BY <1>4, <1>5, <1>6, NodeSet, SMTT(30)
<1>8. new = Put(stk, b, g)
  BY <1>3, <1>5 DEF ValueBelow
<1>9. GoStack(new)
  BY <1>1, <1>2, <1>7, <1>8, FramePut
<1>10. Len(new) = Len(stk)
  BY <1>1, <1>2, <1>7, <1>8, FramePut
<1>11. \A j \in 1 .. Len(stk) : new[j] = IF j = b THEN g ELSE stk[j]
  BY <1>1, <1>2, <1>7, <1>8, FramePut
<1>12. /\ Len(new) = d /\ new[d] = stk[d] /\ new[b] = g
       /\ \A j \in 1 .. d : j # b => new[j] = stk[j]
  BY <1>2, <1>10, <1>11
<1>13. SameButNode(new[b], stk[b]) /\ SameButNode(new[d], stk[d])
  BY <1>3, <1>7, <1>12 DEF SameButNode
<1>14. HandedDown(new, stk, b, d) /\ SameBelow(new, stk, b, d) /\ Len(new) = d
  BY <1>12, <1>17 DEF HandedDown, SameBelow
<1>15. GoShape(new, len)
  BY <1>2, <1>9, <1>13, <1>14, GoTwo
<1>16. AllMine(new) \subseteq AllMine(stk) \union Mine(new[b]) \union Mine(new[d])
  BY <1>2, <1>9, <1>13, <1>14, GoTwo
<1>18. g.rule = "val"
  BY <1>3, <1>7
<1>19. Mine(g) = {} /\ Mine(stk[d]) \subseteq AllMine(stk)
  BY <1>2, <1>18 DEF Mine, AllMine
<1>20. AllMine(new) \subseteq AllMine(stk)
  BY <1>12, <1>16, <1>19
<1>21. new[1] = stk[1]
  BY <1>2, <1>12
<1>22. QED
  BY <1>12, <1>15, <1>20, <1>21

LEMMA GoTextBCStep ==
  ASSUME GoInv, TextBC
  PROVE  GoInv' /\ Spared
<1>1. Top.rule = "text" /\ outcome = "run" /\ Depth = 6
  BY GoRunning, LevelOf DEF TextBC, Running
<1>2. PICK f, mid, len, d, b :
        /\ f = WithAt(WithNode(Top, Top.node), "close") /\ mid = Put(stack, Depth, f)
        /\ len = Len(heap) /\ len \in Nat /\ len # 0 /\ d = Depth /\ b = 5
        /\ Under(b, d)
  BY <1>1, GoRunning DEF Under
<1>3. "close" \in Phase
  BY DEF Phase
<1>4. GoShape(mid, len)
  BY <1>1, <1>2, <1>3, TopMoves
<1>5. Len(mid) = d
  BY <1>1, <1>2, <1>3, TopMoves
<1>6. mid[Depth] = f
  BY <1>1, <1>2, <1>3, TopMoves
<1>7. \A i \in 1 .. Depth - 1 : mid[i] = stack[i]
  BY <1>1, <1>2, <1>3, TopMoves
<1>8. AllMine(mid) \subseteq AllMine(stack) \union Mine(f)
  BY <1>1, <1>2, <1>3, TopMoves
<1>9. f.rule = "text"
  BY <1>1, <1>2, <1>3, TopMoves
<1>10. AllMine(mid) \subseteq AllMine(stack)
  BY <1>8, <1>9 DEF Mine
<1>11. PICK new, node : new = stack' /\ new = ValueBelow(mid, b, node)
  <2>1. Advance(Top, "close") = mid
    <3>1. PICK S : Top \in GoFrame(S)
      BY GoRunning
    <3>2. WithNode(Top, Top.node) = Top
      BY <3>1, OwnNode
    <3>3. QED
      BY <1>2, <3>2, AdvanceIs
  <2>2. Depth - 1 = b
    BY <1>1, <1>2
  <2>3. QED
    BY <2>1, <2>2 DEF TextBC, Put, WithNode, ValueBelow
<1>12. d = Len(mid) /\ d > 1 /\ mid[b].rule = "val"
  <2>1. d = Len(mid) /\ d > 1 /\ b \in 1 .. Len(mid)
    <3>1. d = 6 /\ Len(mid) = 6 /\ b = 5
      BY <1>1, <1>2, <1>5
    <3>2. QED
      BY <3>1
  <2>2. mid[b].rule \in Rules /\ Level(mid[b].rule) = 5
    BY <1>2, <1>4, <2>1, GoDepth
  <2>3. QED
    BY <2>1, <2>2, LevelOf
<1>13. GoShape(new, len)
  BY <1>2, <1>4, <1>11, <1>12, ValueSet
<1>14. Len(new) = d
  BY <1>2, <1>4, <1>11, <1>12, ValueSet
<1>15. new[d] = mid[d] /\ new[1] = mid[1]
  <2>1. new[d] = mid[d]
    BY <1>2, <1>4, <1>11, <1>12, ValueSet
  <2>2. new[1] = mid[1]
    BY <1>2, <1>4, <1>11, <1>12, ValueSet
  <2>3. QED
    BY <2>1, <2>2
<1>16. AllMine(new) \subseteq AllMine(mid)
  BY <1>2, <1>4, <1>11, <1>12, ValueSet
<1>17. Reading' \subseteq Reading
  BY <1>1, <1>10, <1>11, <1>16 DEF Reading, TextBC
<1>18. stack'[1].node = stack[1].node
  BY <1>1, <1>7, <1>11, <1>15
<1>19. GoReady(stack')
  BY <1>2, <1>6, <1>9, <1>11, <1>14, <1>15 DEF GoReady
<1>20. GoShape(stack', Len(heap'))
  BY <1>2, <1>11, <1>13 DEF TextBC
<1>21. IsSequence(events') /\ RowsOf(events') \subseteq RowsOf(events)
  BY DEF GoInv, TextBC
<1>22. QED
  BY <1>17, <1>18, <1>19, <1>20, <1>21, Silent DEF TextBC

\* r.Node = append(...), and for the parent: the running instance, already in
\* a later phase, and the one below it get the longer slice.
LEMMA NodesShared ==
  ASSUME GoInv, NEW mid, NEW len \in Nat, len # 0, GoShape(mid, len), Len(mid) = Depth,
         Depth \in {2, 4}, NEW longer, longer = Longer(Top.node), NEW new, new = SharedNode(mid)
  PROVE  /\ GoShape(new, len) /\ Len(new) = Depth
         /\ \A i \in 1 .. Depth - 2 : new[i] = mid[i]
         /\ new[Depth].node = longer /\ new[Depth - 1].node = longer
         /\ new[Depth].rule = mid[Depth].rule /\ new[Depth].at = mid[Depth].at
         /\ new[Depth - 1].rule = mid[Depth - 1].rule /\ new[Depth - 1].at = mid[Depth - 1].at
         /\ AllMine(new) \subseteq AllMine(mid) \union {longer}
<1>1. PICK d, b : d = Depth /\ b = d - 1 /\ Under(b, d)
  BY DEF Under
<1>2. PICK S : mid \in Seq(GoFrame(S))
  BY DEF GoShape, GoStack
<1>3. Paired(d) /\ d = Len(mid) /\ d \in 1 .. Len(mid) /\ b \in 1 .. Len(mid)
  BY <1>1 DEF Paired
<1>4. GoStack(mid)
  BY <1>2 DEF GoStack
<1>5. new = BothNodes(mid, d, b, longer)
  BY <1>1, <1>3, <1>4, SharedIs
<1>6. GoShape(new, len)
  BY <1>1, <1>3, <1>5, TwoNodes
<1>7. Len(new) = d
  BY <1>1, <1>3, <1>5, TwoNodes
<1>8. \A i \in 1 .. d : i # b /\ i # d => new[i] = mid[i]
  BY <1>1, <1>3, <1>5, TwoNodes
<1>9. new[d] = WithNode(mid[d], longer) /\ new[b] = WithNode(mid[b], longer)
  BY <1>1, <1>3, <1>5, TwoNodes
<1>10. AllMine(new) \subseteq AllMine(mid) \union {longer}
  BY <1>1, <1>3, <1>5, TwoNodes
<1>11. PICK g, h : g = mid[d] /\ h = mid[b]
  OBVIOUS
<1>12. g \in GoFrame(S) /\ h \in GoFrame(S)
  BY <1>2, <1>3, <1>11, ElementOfSeq
<1>13. /\ new[d].node = longer /\ new[d].rule = g.rule /\ new[d].at = g.at
  <2>1. PICK f : f = new[d] /\ f = WithNode(g, longer)
    BY <1>9, <1>11
  <2>2. f.node = longer /\ f.rule = g.rule /\ f.at = g.at
    BY <1>12, <2>1 DEF WithNode, GoFrame
  <2>3. QED
    BY <2>1, <2>2
<1>14. /\ new[b].node = longer /\ new[b].rule = h.rule /\ new[b].at = h.at
  <2>1. PICK f : f = new[b] /\ f = WithNode(h, longer)
    BY <1>9, <1>11
  <2>2. f.node = longer /\ f.rule = h.rule /\ f.at = h.at
    BY <1>12, <2>1 DEF WithNode, GoFrame
  <2>3. QED
    BY <2>1, <2>2
<1>15. \A i \in 1 .. Depth - 2 : new[i] = mid[i]
  BY <1>1, <1>3, <1>8
<1>16. QED
  BY <1>1, <1>6, <1>7, <1>10, <1>11, <1>13, <1>14, <1>15

\* elem has the slice of the line, which list holds below it.
LEMMA LineNode ==
  ASSUME GoInv, outcome = "run", Top.rule = "elem"
  PROVE  Depth = 4 /\ heap # <<>> /\ Top.node \in Reading
<1>1. Depth = 4 /\ heap # <<>>
  BY GoRunning, LevelOf
<1>2. PICK stk, len : stk = stack /\ len = Len(heap) /\ GoShape(stk, len) /\ Len(stk) = 4
  BY <1>1, GoRunning DEF GoInv
<1>3. stk[3].rule \in Rules /\ Level(stk[3].rule) = 3
  BY <1>2, GoDepth
<1>4. stk[3].rule = "list"
  BY <1>3, LevelOf
<1>5. stk[3].at \in {"bc", "close"} /\ stk[4].node = stk[3].node
  BY <1>2 DEF GoShape
<1>6. stk[3].node \in AllMine(stk)
  <2>1. stk[3].node \in Mine(stk[3]) /\ 3 \in 1 .. Len(stk)
    BY <1>2, <1>4, <1>5 DEF Mine
  <2>2. QED
    BY <2>1 DEF AllMine
<1>7. QED
  BY <1>1, <1>2, <1>5, <1>6, GoRunning DEF Reading

\* record has the slice of the line, and the document below it.
LEMMA RecordNode ==
  ASSUME GoInv, Running("bc"), Top.rule = "record"
  PROVE  Depth = 2 /\ heap # <<>> /\ Top.kid \in Reading /\ Top.node = stack[1].node
<1>1. Depth = 2 /\ heap # <<>> /\ Top.at = "bc" /\ outcome = "run"
  BY GoRunning, LevelOf DEF Running
<1>2. PICK stk, len : stk = stack /\ len = Len(heap) /\ GoShape(stk, len) /\ Len(stk) = 2
  BY <1>1, GoRunning DEF GoInv
<1>3. stk[2] = Top
  BY <1>1, <1>2, GoRunning
<1>4. stk[2].node = stk[1].node
  BY <1>2 DEF GoShape
<1>5. stk[2].kid # Undef
  BY <1>1, <1>2, <1>3 DEF GoInv, GoReady
<1>6. stk[2].kid \in Mine(stk[2]) /\ 2 \in 1 .. Len(stk)
  BY <1>1, <1>2, <1>3, <1>5 DEF Mine
<1>7. stk[2].kid \in AllMine(stk)
  BY <1>6 DEF AllMine
<1>8. QED
  BY <1>1, <1>2, <1>3, <1>4, <1>7 DEF Reading

\* The running instance closes with what it has.
LEMMA TopCloses ==
  ASSUME GoInv, heap # <<>>, NEW new, new = Advance(Top, "close")
  PROVE  /\ GoShape(new, Len(heap)) /\ Len(new) = Depth
         /\ new[Depth].rule = Top.rule /\ new[Depth].at = "close"
         /\ new[Depth].node = Top.node
         /\ \A i \in 1 .. Depth - 1 : new[i] = stack[i]
         /\ Top.rule = "elem" => AllMine(new) \subseteq AllMine(stack)
<1>1. PICK f, len : /\ f = WithAt(WithNode(Top, Top.node), "close") /\ len = Len(heap)
                    /\ len \in Nat /\ len # 0
  BY GoRunning
<1>2. new = Put(stack, Depth, f)
  <2>1. PICK S : Top \in GoFrame(S)
    BY GoRunning
  <2>2. WithNode(Top, Top.node) = Top
    BY <2>1, OwnNode
  <2>3. QED
    BY <1>1, <2>2, AdvanceIs
<1>3. "close" \in Phase
  BY DEF Phase
<1>4. GoShape(new, len)
  BY <1>1, <1>2, <1>3, TopMoves
<1>5. Len(new) = Depth /\ new[Depth] = f
  BY <1>1, <1>2, <1>3, TopMoves
<1>6. \A i \in 1 .. Depth - 1 : new[i] = stack[i]
  BY <1>1, <1>2, <1>3, TopMoves
<1>7. AllMine(new) \subseteq AllMine(stack) \union Mine(f)
  BY <1>1, <1>2, <1>3, TopMoves
<1>8. f.rule = Top.rule
  BY <1>1, <1>2, <1>3, TopMoves
<1>9. f.at = "close"
  BY <1>1, <1>2, <1>3, TopMoves
<1>10. f.node = Top.node
  BY <1>1, <1>2, <1>3, TopMoves
<1>11. Top.rule = "elem" => Mine(f) = {}
  BY <1>8 DEF Mine
<1>12. QED
  BY <1>1, <1>4, <1>5, <1>6, <1>7, <1>8, <1>9, <1>10, <1>11

LEMMA GoElemBCStep ==
  ASSUME GoInv, GoElemBC
  PROVE  GoInv' /\ Spared
<1>1. /\ Top.rule = "elem" /\ outcome = "run" /\ outcome' = "run" /\ opts' = opts
      /\ events' = events /\ fields' = fields
  BY DEF GoElemBC, Running
<1>2. Depth = 4 /\ heap # <<>> /\ Top.node \in Reading
  BY <1>1, LineNode
<1>3. PICK mid : mid = Advance(Top, "close")
  OBVIOUS
<1>4. GoShape(mid, Len(heap)) /\ Len(mid) = 4
  BY <1>2, <1>3, TopCloses
<1>5. mid[4].rule = "elem" /\ \A i \in 1 .. 3 : mid[i] = stack[i]
  BY <1>1, <1>2, <1>3, TopCloses
<1>6. AllMine(mid) \subseteq AllMine(stack)
  BY <1>1, <1>2, <1>3, TopCloses
<1>7. IsSequence(events') /\ RowsOf(events') \subseteq RowsOf(events)
  BY <1>1 DEF GoInv
<1>8. CASE heap' = heap /\ stack' = mid
  <2>1. Reading' \subseteq Reading
    BY <1>1, <1>6, <1>8 DEF Reading
  <2>2. GoReady(stack') /\ stack'[1].node = stack[1].node /\ GoShape(stack', Len(heap'))
    <3>1. GoReady(stack')
      BY <1>4, <1>5, <1>8 DEF GoReady
    <3>2. stack'[1].node = stack[1].node
      BY <1>5, <1>8
    <3>3. GoShape(stack', Len(heap'))
      BY <1>4, <1>8
    <3>4. QED
      BY <3>1, <3>2, <3>3
  <2>3. QED
    BY <1>1, <1>7, <1>8, <2>1, <2>2, Silent
<1>9. CASE heap' = HeapWith(Top.node, Top.kid) /\ stack' = SharedNode(mid)
  <2>1. PICK new, len, longer, slice, cell :
          /\ new = stack' /\ len = Len(heap) /\ longer = Longer(Top.node)
          /\ len \in Nat /\ len # 0 /\ slice = Top.node /\ cell = Top.kid
    BY <1>2, GoRunning
  <2>2. Len(mid) = Depth /\ Depth \in {2, 4} /\ new = SharedNode(mid) /\ GoShape(mid, len)
    BY <1>2, <1>4, <1>9, <2>1
  <2>3. GoShape(new, len)
    BY <2>1, <2>2, NodesShared
  <2>4. Len(new) = Depth
    BY <2>1, <2>2, NodesShared
  <2>5. \A i \in 1 .. Depth - 2 : new[i] = mid[i]
    BY <2>1, <2>2, NodesShared
  <2>6. new[Depth].rule = mid[Depth].rule
    BY <2>1, <2>2, NodesShared
  <2>7. AllMine(new) \subseteq AllMine(mid) \union {longer}
    BY <2>1, <2>2, NodesShared
  <2>8. GoReady(stack') /\ stack'[1].node = stack[1].node
    BY <1>2, <1>5, <2>1, <2>4, <2>5, <2>6 DEF GoReady
  <2>9. Reading' \subseteq Reading \union {Longer(slice)}
    BY <1>1, <1>6, <2>1, <2>7 DEF Reading
  <2>10. GoShape(stack', Len(heap))
    BY <2>1, <2>3
  <2>11. heap' = HeapWith(slice, cell) /\ slice \in Reading
    BY <1>2, <1>9, <2>1
  <2>12. QED
    BY <1>1, <1>2, <2>8, <2>9, <2>10, <2>11, LineGrows
<1>10. QED
  BY <1>3, <1>8, <1>9 DEF GoElemBC

\* What is handed out of the line: its slice, or nothing of it.
LEMMA ShapedSlice ==
  ASSUME GoInv, Running("bc"), Top.rule = "record"
  PROVE  ArraysOf({GoShaped}) \subseteq Reading
<1>1. Top.kid \in Reading
  BY RecordNode
<1>2. ArrayRow(Top.kid).a = Top.kid
  BY DEF ArrayRow
<1>3. \A o : ObjectRow(o).k # "array"
  BY DEF ObjectRow
<1>4. PICK row : row = GoShaped
  OBVIOUS
<1>5. row.k = "array" => row.a = Top.kid
  BY <1>2, <1>3, <1>4 DEF GoShaped
<1>6. QED
  BY <1>1, <1>4, <1>5 DEF ArraysOf

LEMMA LineRead ==
  ASSUME GoInv, Running("bc"), Top.rule = "record", NEW new, new = Advance(Top, "close")
  PROVE  /\ GoShape(new, Len(heap)) /\ Len(new) = 2 /\ new[2].at = "close"
         /\ new[1] = stack[1] /\ AllMine(new) = {} /\ GoReady(new)
<1>1. Depth = 2 /\ heap # <<>>
  BY RecordNode
<1>2. GoShape(new, Len(heap)) /\ Len(new) = 2
  BY <1>1, TopCloses
<1>3. new[2].at = "close"
  BY <1>1, TopCloses
<1>4. new[1] = stack[1]
  <2>1. \A i \in 1 .. Depth - 1 : new[i] = stack[i]
    BY <1>1, TopCloses
  <2>2. QED
    BY <1>1, <2>1
<1>5. PICK len : len = Len(heap)
  OBVIOUS
<1>6. AllMine(new) = {}
  <2>1. GoShape(new, len) /\ Len(new) <= 2 /\ new[Len(new)].at = "close"
    BY <1>2, <1>3, <1>5
  <2>2. QED
    BY <2>1, NoLine
<1>7. GoReady(new)
  BY <1>2, <1>3 DEF GoReady
<1>8. QED
  BY <1>2, <1>3, <1>4, <1>6, <1>7

LEMMA GoRecordHeaderStep ==
  ASSUME GoInv, GoRecordHeader
  PROVE  GoInv' /\ Spared
<1>1. /\ Running("bc") /\ Top.rule = "record" /\ heap' = heap /\ opts' = opts
      /\ events' = events /\ fields' = Top.kid /\ stack' = Advance(Top, "close")
  BY DEF GoRecordHeader
<1>2. heap # <<>> /\ Top.kid \in Reading
  BY <1>1, RecordNode
<1>3. PICK new : new = stack'
  OBVIOUS
<1>4. GoShape(new, Len(heap)) /\ AllMine(new) = {}
  BY <1>1, <1>3, LineRead
<1>5. new[1] = stack[1]
  BY <1>1, <1>3, LineRead
<1>6. GoReady(new)
  BY <1>1, <1>3, LineRead
<1>7. Reading' = {}
  BY <1>3, <1>4 DEF Reading
<1>8. Document' = Document
  BY <1>1, <1>3, <1>5 DEF Document, Cells
<1>9. Held' \subseteq Held \union Reading
  <2>1. PICK e, f, f2, c, s : /\ e = events /\ f = fields /\ f2 = fields'
                              /\ c = Document /\ s = opts.stream
    OBVIOUS
  <2>2. HeldFrom(s, e, f2, c) \subseteq HeldFrom(s, e, f, c) \union {f2}
    BY DEF HeldFrom
  <2>3. QED
    BY <1>1, <1>2, <1>8, <2>1, <2>2, HeldIs, HeldIsNext
<1>10. IsSequence(events')
  BY <1>1 DEF GoInv
<1>11. GoShape(stack', Len(heap')) /\ GoReady(stack')
  BY <1>1, <1>3, <1>4, <1>6
<1>12. stack'[1].node = stack[1].node
  BY <1>3, <1>5
<1>13. QED
  BY <1>1, <1>2, <1>7, <1>9, <1>10, <1>11, <1>12, Quiet

\* A record that goes to the callback.
LEMMA RowStreamed ==
  ASSUME GoInv, Running("bc"), Top.rule = "record", heap' = heap, opts' = opts, opts.stream,
         fields' = fields, events' = Append(events, [ev |-> "record", row |-> GoShaped]),
         GoShape(stack', Len(heap')), GoReady(stack'), stack'[1].node = stack[1].node,
         Reading' = {}
  PROVE  GoInv' /\ Spared
<1>1. heap # <<>> /\ ArraysOf({GoShaped}) \subseteq Reading
  BY RecordNode, ShapedSlice
<1>2. PICK row, event : row = GoShaped /\ event = [ev |-> "record", row |-> row]
  OBVIOUS
<1>3. event.ev = "record" /\ event.row = row
  BY <1>2
<1>4. PICK e, e2 : e = events /\ e2 = events'
  OBVIOUS
<1>5. IsSequence(e) /\ e2 = Append(e, event)
  BY <1>2, <1>4 DEF GoInv
<1>6. IsSequence(e2) /\ RowsOf(e2) \subseteq RowsOf(e) \union {row}
  BY <1>3, <1>5, EventAdded
<1>7. Held' \subseteq Held \union Reading
  <2>1. PICK f, c, c2, s : f = fields /\ c = Document /\ c2 = Document' /\ s = opts.stream
    OBVIOUS
  <2>2. HeldFrom(s, e2, f, c2) \subseteq HeldFrom(s, e, f, c) \union ArraysOf({row})
    BY <1>6, <2>1 DEF HeldFrom, ArraysOf
  <2>3. QED
    BY <1>1, <1>2, <1>4, <2>1, <2>2, HeldIs, HeldIsNext
<1>8. QED
  BY <1>1, <1>4, <1>6, <1>7, Quiet

LEMMA GoRecordRowStep ==
  ASSUME GoInv, GoRecordRow
  PROVE  GoInv' /\ Spared
<1>1. Running("bc") /\ Top.rule = "record" /\ opts' = opts /\ fields' = fields
  BY DEF GoRecordRow
<1>2. Depth = 2 /\ heap # <<>> /\ Top.node = stack[1].node
  BY <1>1, RecordNode
<1>3. PICK mid : mid = Advance(Top, "close")
  OBVIOUS
<1>4. GoShape(mid, Len(heap)) /\ Len(mid) = 2
  BY <1>1, <1>3, LineRead
<1>5. mid[2].at = "close" /\ mid[1] = stack[1]
  BY <1>1, <1>3, LineRead
<1>6. AllMine(mid) = {} /\ GoReady(mid)
  BY <1>1, <1>3, LineRead
<1>7. CASE /\ opts.stream /\ stack' = mid /\ heap' = heap
           /\ events' = Append(events, [ev |-> "record", row |-> GoShaped])
  <2>1. Reading' = {}
    BY <1>6, <1>7 DEF Reading
  <2>2. GoShape(stack', Len(heap')) /\ GoReady(stack')
    BY <1>4, <1>6, <1>7
  <2>3. stack'[1].node = stack[1].node
    BY <1>5, <1>7
  <2>4. QED
    BY <1>1, <1>7, <2>1, <2>2, <2>3, RowStreamed
<1>8. CASE /\ ~opts.stream /\ stack' = SharedNode(mid) /\ heap' = HeapWith(Top.node, GoShaped)
           /\ events' = events
  <2>1. PICK new, len, longer, doc, row :
          /\ new = stack' /\ len = Len(heap) /\ longer = Longer(Top.node)
          /\ len \in Nat /\ len # 0 /\ doc = Top.node /\ row = GoShaped
    BY <1>2, GoRunning
  <2>2. Len(mid) = Depth /\ Depth \in {2, 4} /\ new = SharedNode(mid) /\ GoShape(mid, len)
    BY <1>2, <1>4, <1>8, <2>1
  <2>3. GoShape(new, len)
    BY <2>1, <2>2, NodesShared
  <2>4. Len(new) = Depth
    BY <2>1, <2>2, NodesShared
  <2>5. new[Depth].at = mid[Depth].at
    BY <2>1, <2>2, NodesShared
  <2>6. new[Depth - 1].node = longer
    BY <2>1, <2>2, NodesShared
  <2>7. Len(new) = 2 /\ new[2].at = "close" /\ new[1].node = longer
    BY <1>2, <1>5, <2>4, <2>5, <2>6
  <2>8. AllMine(new) = {}
    <3>1. Len(new) <= 2 /\ new[Len(new)].at = "close"
      BY <2>7
    <3>2. QED
      BY <2>3, <3>1, NoLine
  <2>9. Reading' = {} /\ GoReady(stack') /\ stack'[1].node = Longer(doc)
    BY <2>1, <2>7, <2>8 DEF Reading, GoReady
  <2>10. GoShape(stack', Len(heap)) /\ heap' = HeapWith(doc, row) /\ doc = stack[1].node
    BY <1>2, <1>8, <2>1, <2>3
  <2>11. row.k = "array" => row.a \in Reading
    BY <1>1, <2>1, ShapedSlice DEF ArraysOf
  <2>12. IsSequence(events')
    BY <1>8 DEF GoInv
  <2>13. QED
    BY <1>1, <1>2, <1>8, <2>9, <2>10, <2>11, <2>12, DocumentGrows
<1>9. QED
  BY <1>3, <1>7, <1>8 DEF GoRecordRow

-----------------------------------------------------------------------------
(* The ends.                                                               *)

\* The stack stays as it is.
LEMMA Ended ==
  ASSUME GoInv, heap' = heap, opts' = opts, fields' = fields, stack' = stack,
         outcome = "run", IsSequence(events'), RowsOf(events') \subseteq RowsOf(events)
  PROVE  GoInv' /\ Spared
<1>1. Reading' \subseteq Reading
  BY DEF Reading
<1>2. GoShape(stack', Len(heap')) /\ GoReady(stack') /\ stack'[1].node = stack[1].node
  BY DEF GoInv
<1>3. QED
  BY <1>1, <1>2, Silent

LEMMA GoFailStep ==
  ASSUME GoInv, outcome = "run", NEW code, Fail(code)
  PROVE  GoInv' /\ Spared
<1>1. events' = events
  BY DEF Fail, ErrorEvents
<1>2. IsSequence(events') /\ RowsOf(events') \subseteq RowsOf(events)
  BY <1>1 DEF GoInv
<1>3. QED
  BY <1>2, Ended DEF Fail

LEMMA GoCsvCloseStep ==
  ASSUME GoInv, CsvClose
  PROVE  GoInv' /\ Spared
<1>1. IsSequence(events') /\ RowsOf(events') \subseteq RowsOf(events)
  BY EmitKeeps DEF CsvClose
<1>2. QED
  BY <1>1, Ended DEF CsvClose, Running

LEMMA GoPanicStep ==
  ASSUME GoInv, GoCallbackPanics
  PROVE  GoInv' /\ Spared
<1>1. ASSUME NEW event, event.ev # "record", Thrown(event), outcome = "run"
      PROVE  GoInv' /\ Spared
  <2>1. PICK e, e2 : e = events /\ e2 = events'
    OBVIOUS
  <2>2. IsSequence(e) /\ e2 = Append(e, event)
    BY <1>1, <2>1 DEF Thrown, GoInv
  <2>3. IsSequence(e2) /\ RowsOf(e2) \subseteq RowsOf(e)
    BY <1>1, <2>2, EventAdded
  <2>4. QED
    BY <1>1, <2>1, <2>3, Ended DEF Thrown
<1>2. CASE Running("bo") /\ Thrown([ev |-> "start"])
  BY <1>1, <1>2 DEF Running
<1>3. CASE Running("close") /\ Thrown([ev |-> "end"])
  BY <1>1, <1>3 DEF Running
<1>4. CASE /\ Running("bc") /\ Top.rule = "record"
           /\ Thrown([ev |-> "record", row |-> GoShaped])
  <2>1. /\ heap' = heap /\ opts' = opts /\ fields' = fields /\ stack' = stack
        /\ outcome' = "thrown" /\ events' = Append(events, [ev |-> "record", row |-> GoShaped])
    BY <1>4 DEF Thrown
  <2>2. Reading' = {}
    BY <2>1 DEF Reading
  <2>3. GoShape(stack', Len(heap')) /\ GoReady(stack') /\ stack'[1].node = stack[1].node
    BY <2>1 DEF GoInv
  <2>4. opts.stream
    BY DEF GoCallbackPanics
  <2>5. QED
    BY <1>4, <2>1, <2>2, <2>3, <2>4, RowStreamed
<1>5. QED
  BY <1>2, <1>3, <1>4 DEF GoCallbackPanics

-----------------------------------------------------------------------------
(* The alternates.                                                         *)

ActedWith(frame, n, o0, done, node) ==
  [frame EXCEPT !.n = n, !.o0 = o0, !.done = done, !.node = node]

LEMMA ActedFields ==
  ASSUME NEW S, NEW g \in GoFrame(S), NEW n, NEW o0, NEW done, NEW node,
         NEW f, f = ActedWith(g, n, o0, done, node)
  PROVE  /\ f \in GoFrame(S \union {n, o0, done, node})
         /\ f.node = node /\ f.rule = g.rule /\ f.at = g.at /\ f.kid = g.kid
         /\ f.pushed = g.pushed
<1>1. f \in GoFrame(S \union {n, o0, done, node})
  BY DEF ActedWith, GoFrame
<1>2. /\ f.node = node /\ f.rule = g.rule /\ f.at = g.at /\ f.kid = g.kid
      /\ f.pushed = g.pushed
  BY DEF ActedWith, GoFrame
<1>3. QED
  BY <1>1, <1>2

\* What an alternate's action changes of the running instance.
LikeTop(f) ==
  /\ \E S : f \in GoFrame(S)
  /\ f.rule = Top.rule /\ f.at = Top.at /\ f.kid = Top.kid /\ f.pushed = Top.pushed

LEMMA ActedLike ==
  ASSUME GoInv, NEW alt, NEW f, f = Acted(alt)
  PROVE  LikeTop(f) /\ (alt.a \notin TextActions => f.node = Top.node)
<1>1. PICK g, S : g = Top /\ g \in GoFrame(S)
  BY GoRunning
<1>2. PICK n, o0, done, node :
        /\ n = Top.n + alt.n /\ o0 = (IF alt.s = <<>> THEN NoToken ELSE Tok(1))
        /\ done = (Top.done \/ alt.a = "elem-open-empty")
        /\ node = (IF alt.a \in TextActions THEN JoinedText(alt.a, n) ELSE Top.node)
  OBVIOUS
<1>3. f = ActedWith(g, n, o0, done, node)
  BY <1>1, <1>2 DEF Acted, ActedWith
<1>8. g \in GoFrame(S)
  BY <1>1
<1>4. f \in GoFrame(S \union {n, o0, done, node})
  BY <1>3, <1>8, ActedFields
<1>5. f.node = node /\ f.rule = g.rule /\ f.at = g.at /\ f.kid = g.kid /\ f.pushed = g.pushed
  BY <1>3, <1>8 DEF ActedWith, GoFrame
<1>6. alt.a \notin TextActions => node = Top.node
  BY <1>2
<1>7. QED
  BY <1>1, <1>4, <1>5, <1>6 DEF LikeTop

LEMMA GoActedLike ==
  ASSUME GoInv, NEW alt, AltOK(Top.rule, alt), NEW f, f = GoActed(alt)
  PROVE  /\ LikeTop(f)
         /\ alt.a \in EmptyActions => f.node = Longer(Top.node)
         /\ alt.a \notin EmptyActions \union TextActions => f.node = Top.node
<1>1. PICK g : g = Acted(alt)
  OBVIOUS
<1>2. LikeTop(g) /\ (alt.a \notin TextActions => g.node = Top.node)
  BY <1>1, ActedLike
<1>3. CASE alt.a \in EmptyActions
  <2>1. PICK S : g \in GoFrame(S)
    BY <1>2 DEF LikeTop
  <2>2. PICK node : node = Longer(Top.node)
    OBVIOUS
  <2>3. f = WithNode(g, node)
    BY <1>1, <1>3, <2>2 DEF GoActed, WithNode
  <2>4. f \in GoFrame(S \union {node})
    BY <2>1, <2>3, NodeSet
  <2>5. f.node = node /\ f.rule = g.rule /\ f.at = g.at /\ f.kid = g.kid /\ f.pushed = g.pushed
    BY <2>1, <2>3 DEF WithNode, GoFrame
  <2>6. QED
    BY <1>2, <1>3, <2>2, <2>4, <2>5 DEF LikeTop
<1>4. CASE alt.a \notin EmptyActions
  BY <1>1, <1>2, <1>4 DEF GoActed
<1>5. QED
  BY <1>3, <1>4

\* list has a slice of its own once it has opened.
LEMMA ListNode ==
  ASSUME GoInv, outcome = "run", Top.rule = "list", Top.at # "bo"
  PROVE  Depth = 3 /\ Top.node \in AllMine(stack) /\ Top.node # Undef
<1>1. Depth = 3 /\ heap # <<>>
  BY GoRunning, LevelOf
<1>2. Top.node \in AllMine(stack)
  <2>1. PICK stk : stk = stack /\ Len(stk) = 3 /\ stk[3] = Top
    BY <1>1, GoRunning
  <2>2. Top.node \in Mine(stk[3]) /\ 3 \in 1 .. Len(stk)
    BY <2>1 DEF Mine
  <2>3. Top.node \in AllMine(stk)
    BY <2>2 DEF AllMine
  <2>4. QED
    BY <2>1, <2>3
<1>3. PICK doc, mine, held, slice :
        /\ doc = stack[1].node /\ mine = Reading /\ held = Held /\ slice = Top.node
  OBVIOUS
<1>4. Sound(heap, doc, mine, held) /\ slice \in mine
  BY <1>1, <1>2, <1>3 DEF GoInv, Reading
<1>5. IsStore(heap) /\ Within(heap, slice)
  BY <1>4 DEF Sound, Apart
<1>6. slice # Undef
  BY <1>5, NotWithin
<1>7. QED
  BY <1>1, <1>2, <1>3, <1>6

LEMMA SeenOK ==
  ASSUME GoInv, outcome = "run", Top.at # "bo", NEW alt, AltOK(Top.rule, alt), NEW left,
         NEW new, new = Seen(alt, left)
  PROVE  /\ GoShape(new, Len(heap)) /\ Len(new) = Depth /\ new[Depth] = Top
         /\ new[1].node = stack[1].node
         /\ AllMine(new) \subseteq AllMine(stack)
         /\ left /\ Top.rule = "list" => new[2].kid # Undef
<1>1. PICK stk, len, d, b : /\ stk = stack /\ len = Len(heap) /\ d = Depth /\ b = d - 1
                            /\ Under(b, d) /\ len \in Nat
  BY GoRunning DEF Under
<1>2. GoShape(stk, len) /\ d = Len(stk) /\ Top = stk[d] /\ d \in Nat \ {0}
  BY <1>1, GoRunning DEF GoInv
<1>3. PICK f : f = Acted(alt)
  OBVIOUS
<1>4. f.pushed = Top.pushed /\ (alt.a \notin TextActions => f.node = Top.node)
  BY <1>3, ActedLike DEF LikeTop
<1>5. Top.rule = "list" => Top.pushed
  BY <1>2, GoDepth DEF GoShape
<1>6. CASE new = stack /\ ~(Depth > 1 /\ left /\ f.pushed)
  <2>1. Top.rule = "list" => Depth > 1
    BY ListNode
  <2>2. QED
    BY <1>1, <1>2, <1>4, <1>5, <1>6, <2>1
<1>7. CASE d > 1 /\ new = [stack EXCEPT ![Depth - 1].kid = f.node]
  <2>1. PICK kid : kid = f.node
    OBVIOUS
  <2>2. new = KidBelow(stk, b, kid)
    BY <1>1, <1>7, <2>1 DEF KidBelow, Put, WithKid
  <2>0. GoShape(stk, len) /\ d = Len(stk) /\ d > 1 /\ Under(b, d) /\ len \in Nat
    BY <1>1, <1>2, <1>7
  <2>3. GoShape(new, len)
    BY <2>0, <2>2, KidSeen
  <2>4. Len(new) = d
    BY <2>0, <2>2, KidSeen
  <2>5. \A i \in 1 .. d : i # b => new[i] = stk[i]
    BY <2>0, <2>2, KidSeen
  <2>6. new[b].kid = kid
    BY <2>0, <2>2, KidSeen
  <2>7. new[b].node = stk[b].node
    BY <2>0, <2>2, KidSeen
  <2>8. AllMine(new) \subseteq AllMine(stk) \union SeenBy(stk[b], kid)
    BY <2>0, <2>2, KidSeen
  <2>9. new[d] = stk[d]
    BY <1>1, <1>2, <1>7, <2>5
  <2>10. new[1].node = stk[1].node
    BY <1>1, <1>2, <1>7, <2>5, <2>7
  <2>11. Top.rule = "list" => kid = Top.node
    <3>1. Top.rule = "list" => alt.a \notin TextActions
      BY DEF AltOK
    <3>2. QED
      BY <1>4, <2>1, <3>1
  <2>12. stk[b].rule = "record" => Top.rule = "list"
    <3>1. b \in 1 .. Len(stk) /\ d \in 1 .. Len(stk)
      BY <1>1, <1>2, <1>7
    <3>2. PICK rule, child : rule = stk[b].rule /\ child = stk[d].rule
      OBVIOUS
    <3>3. rule \in Rules /\ child \in Rules /\ Level(rule) = b /\ Level(child) = d
      BY <1>2, <3>1, <3>2, GoDepth
    <3>4. Level(child) = Level(rule) + 1
      <4>1. d = b + 1
        BY <1>1, <1>2
      <4>2. QED
        BY <3>3, <4>1
    <3>5. rule = "record" => child = "list"
      BY <3>3, <3>4, LevelBelow
    <3>6. QED
      BY <1>2, <3>2, <3>5
  <2>13. Top.rule = "list" => kid \in AllMine(stack) /\ kid # Undef /\ b = 2
    BY <1>1, <2>11, ListNode
  <2>14. AllMine(new) \subseteq AllMine(stack)
    BY <1>1, <2>8, <2>12, <2>13 DEF SeenBy
  <2>15. QED
    BY <1>1, <1>2, <2>3, <2>4, <2>6, <2>9, <2>10, <2>13, <2>14
<1>8. QED
  BY <1>1, <1>3, <1>6, <1>7 DEF Seen

\* The slice that an empty field's action makes.
Appended(alt) == IF alt.a \in EmptyActions THEN {Longer(Top.node)} ELSE {}

\* What the stack is before the alternate pushes, replaces or ends.
LEMMA GoSeenOK ==
  ASSUME GoInv, outcome = "run", Top.at # "bo", NEW alt, AltOK(Top.rule, alt), NEW left,
         NEW below, below = GoSeen(alt, left)
  PROVE  /\ GoShape(below, Len(heap)) /\ Len(below) = Depth
         /\ below[1].node = stack[1].node
         /\ AllMine(below) \subseteq AllMine(stack) \union Appended(alt)
         /\ Paired(Depth) => below[Depth].node = GoActed(alt).node
         /\ left /\ Top.rule = "list" => below[2].kid # Undef
<1>1. PICK mid, f, len : /\ mid = Seen(alt, left) /\ f = GoActed(alt)
                         /\ len = Len(heap) /\ len \in Nat
  BY GoRunning
<1>2. GoShape(mid, len) /\ Len(mid) = Depth
  BY <1>1, SeenOK
<1>3. mid[Depth] = Top /\ mid[1].node = stack[1].node
  BY <1>1, SeenOK
<1>4. AllMine(mid) \subseteq AllMine(stack)
  BY <1>1, SeenOK
<1>5. left /\ Top.rule = "list" => mid[2].kid # Undef
  BY <1>1, SeenOK
<1>6. /\ alt.a \in EmptyActions => f.node = Longer(Top.node)
      /\ alt.a \notin EmptyActions \union TextActions => f.node = Top.node
  BY <1>1, GoActedLike
<1>7. CASE alt.a \notin EmptyActions
  <2>1. below = mid
    BY <1>1, <1>7 DEF GoSeen
  <2>2. Paired(Depth) => alt.a \notin TextActions
    <3>1. alt.a \in TextActions => Depth = 6
      BY GoRunning, LevelOf DEF AltOK
    <3>2. QED
      BY <3>1 DEF Paired
  <2>3. Paired(Depth) => below[Depth].node = f.node
    BY <1>3, <1>6, <1>7, <2>1, <2>2
  <2>4. QED
    BY <1>1, <1>2, <1>3, <1>4, <1>5, <2>1, <2>3
<1>8. CASE alt.a \in EmptyActions
  <2>1. Top.rule = "elem" /\ Depth = 4
    <3>1. Top.rule = "elem"
      BY <1>8 DEF AltOK
    <3>2. QED
      BY <3>1, GoRunning, LevelOf
  <2>2. PICK longer : longer = Longer(Top.node)
    OBVIOUS
  <2>3. below = SharedNode(mid)
    BY <1>1, <1>8 DEF GoSeen
  <2>4. Depth \in {2, 4} /\ len # 0
    BY <1>1, <2>1, GoRunning
  <2>5. GoShape(below, len)
    BY <1>1, <1>2, <2>2, <2>3, <2>4, NodesShared
  <2>6. Len(below) = Depth
    BY <1>1, <1>2, <2>2, <2>3, <2>4, NodesShared
  <2>7. \A i \in 1 .. Depth - 2 : below[i] = mid[i]
    BY <1>1, <1>2, <2>2, <2>3, <2>4, NodesShared
  <2>8. below[Depth].node = longer
    BY <1>1, <1>2, <2>2, <2>3, <2>4, NodesShared
  <2>9. AllMine(below) \subseteq AllMine(mid) \union {longer}
    BY <1>1, <1>2, <2>2, <2>3, <2>4, NodesShared
  <2>10. below[1] = mid[1] /\ below[2] = mid[2]
    BY <2>1, <2>7
  <2>11. AllMine(below) \subseteq AllMine(stack) \union Appended(alt)
    BY <1>4, <1>8, <2>2, <2>9 DEF Appended
  <2>12. below[Depth].node = f.node
    BY <1>6, <1>8, <2>2, <2>8
  <2>13. QED
    BY <1>1, <1>3, <1>5, <2>5, <2>6, <2>10, <2>11, <2>12
<1>9. QED
  BY <1>7, <1>8

MayBePlaced(f, alt) ==
  /\ Level(f.rule) = Depth /\ (f.rule = "list" => f.pushed)
  /\ f.node = GoActed(alt).node
  /\ Depth = 1 => f.at # "bo"
  /\ Mine(f) \subseteq AllMine(stack)

\* The running instance of the step's stack: f is it as it goes on, or the one
\* that replaces it.
LEMMA GoPlaced ==
  ASSUME GoInv, outcome = "run", Top.at # "bo", NEW alt, AltOK(Top.rule, alt), NEW left,
         NEW T, NEW f \in GoFrame(T), MayBePlaced(f, alt),
         NEW new, new = Put(GoSeen(alt, left), Depth, f)
  PROVE  /\ GoShape(new, Len(heap)) /\ Len(new) = Depth /\ new[Depth] = f
         /\ new[1].node = stack[1].node
         /\ AllMine(new) \subseteq AllMine(stack) \union Appended(alt)
<1>1. PICK below, d, len : /\ below = GoSeen(alt, left) /\ d = Depth
                           /\ len = Len(heap) /\ len \in Nat
  BY GoRunning
<1>2. GoShape(below, len) /\ d = Len(below)
  BY <1>1, GoSeenOK
<1>3. below[1].node = stack[1].node
  BY <1>1, GoSeenOK
<1>4. AllMine(below) \subseteq AllMine(stack) \union Appended(alt)
  BY <1>1, GoSeenOK
<1>20. /\ Level(f.rule) = Depth /\ (f.rule = "list" => f.pushed) /\ f.node = GoActed(alt).node
       /\ (Depth = 1 => f.at # "bo") /\ Mine(f) \subseteq AllMine(stack)
  BY DEF MayBePlaced
<1>5. Paired(d) => below[d].node = f.node
  <2>1. Paired(Depth) => below[Depth].node = GoActed(alt).node
    BY <1>1, GoSeenOK
  <2>2. QED
    BY <1>1, <1>20, <2>1
<1>6. MayStand(f, below, d, len, len)
  BY <1>1, <1>5, <1>20, GoRunning DEF MayStand
<1>7. new = Put(below, d, f)
  BY <1>1
<1>8. GoShape(new, len)
  BY <1>1, <1>2, <1>6, <1>7, GoTopSet
<1>9. Len(new) = d /\ new[d] = f
  BY <1>1, <1>2, <1>6, <1>7, GoTopSet
<1>10. \A i \in 1 .. d - 1 : new[i] = below[i]
  BY <1>1, <1>2, <1>6, <1>7, GoTopSet
<1>11. AllMine(new) \subseteq AllMine(below) \union Mine(f)
  BY <1>1, <1>2, <1>6, <1>7, GoTopSet
<1>12. new[1].node = stack[1].node
  <2>1. CASE d = 1
    <3>1. Top.rule = "csv" /\ Top = stack[1]
      BY <1>1, <2>1, GoRunning, LevelOf
    <3>2. alt.a \notin EmptyActions \union TextActions
      BY <3>1 DEF AltOK
    <3>3. GoActed(alt).node = Top.node
      BY <3>2, GoActedLike
    <3>4. QED
      BY <1>1, <1>9, <1>20, <2>1, <3>1, <3>3
  <2>2. CASE d # 1
    <3>1. 1 \in 1 .. d - 1
      BY <1>1, <2>2, GoRunning
    <3>2. QED
      BY <1>3, <1>10, <3>1
  <2>3. QED
    BY <2>1, <2>2
<1>13. QED
  BY <1>1, <1>4, <1>8, <1>9, <1>11, <1>12, <1>20

\* f is an instance of rule that has not opened yet.
Unopened(f, rule, node) ==
  /\ \E T : f \in GoFrame(T)
  /\ f.rule = rule /\ f.node = node /\ f.kid = Undef
  /\ f.at \in {"bo", "open"} /\ (rule = "list" => f.at = "bo")

LEMMA NewGoFrame ==
  ASSUME NEW rule \in Rules, NEW node, NEW n, NEW pushed, pushed \in BOOLEAN
  PROVE  Unopened(NewFrame(rule, node, n, pushed), rule, node)
<1>1. PICK f : f = NewFrame(rule, node, n, pushed)
  OBVIOUS
<1>2. FirstPhase(rule) \in {"bo", "open"} /\ FirstPhase(rule) \in Phase
  BY DEF FirstPhase, Phase
<1>3. rule = "list" => FirstPhase(rule) = "bo"
  BY DEF FirstPhase, HasBO
<1>4. PICK T : T = {node, n, Undef, FALSE, NoToken}
  OBVIOUS
<1>5. f \in GoFrame(T)
  BY <1>1, <1>2, <1>4 DEF NewFrame, GoFrame
<1>6. f.rule = rule /\ f.at = FirstPhase(rule) /\ f.node = node /\ f.kid = Undef
  BY <1>1 DEF NewFrame
<1>7. QED
  BY <1>1, <1>2, <1>3, <1>5, <1>6 DEF Unopened

\* The alternate has read its tokens, and appended the empty cell it adds.
LEMMA GoTaken ==
  ASSUME GoInv, outcome = "run", Top.at # "bo", NEW alt, AltOK(Top.rule, alt), GoTake(alt),
         GoShape(stack', Len(heap)), GoReady(stack'), stack'[1].node = stack[1].node,
         AllMine(stack') \subseteq AllMine(stack) \union Appended(alt)
  PROVE  GoInv' /\ Spared
<1>1. /\ opts' = opts /\ fields' = fields /\ events' = events /\ outcome' = outcome
  BY DEF GoTake
<1>2. Reading' \subseteq Reading \union Appended(alt)
  BY <1>1 DEF Reading
<1>3. CASE alt.a \in EmptyActions
  <2>1. Top.rule = "elem"
    BY <1>3 DEF AltOK
  <2>2. heap # <<>> /\ Top.node \in Reading
    BY <2>1, LineNode
  <2>3. PICK slice, cell : slice = Top.node /\ cell = EmptyCell
    OBVIOUS
  <2>4. heap' = HeapWith(slice, cell)
    BY <1>3, <2>3 DEF GoTake
  <2>5. Reading' \subseteq Reading \union {Longer(slice)}
    BY <1>2, <1>3, <2>3 DEF Appended
  <2>6. QED
    BY <1>1, <2>2, <2>3, <2>4, <2>5, LineGrows
<1>4. CASE alt.a \notin EmptyActions
  <2>1. heap' = heap
    BY <1>4 DEF GoTake
  <2>2. Reading' \subseteq Reading
    BY <1>2, <1>4 DEF Appended
  <2>3. IsSequence(events') /\ RowsOf(events') \subseteq RowsOf(events)
    BY <1>1 DEF GoInv
  <2>4. GoShape(stack', Len(heap'))
    BY <2>1
  <2>5. QED
    BY <1>1, <2>1, <2>2, <2>3, <2>4, Silent
<1>5. QED
  BY <1>3, <1>4

Replacing(alt) == alt.r # ""
Pushing(alt)   == alt.p # ""

Heir(alt, frame)  == NewFrame(alt.r, frame.node, frame.n, FALSE)
Child(alt, frame) == NewFrame(alt.p, frame.node, frame.n, TRUE)

LEMMA HeirOf ==
  ASSUME NEW alt, alt.r \in Rules, NEW frame, NEW f, f = Heir(alt, frame)
  PROVE  Unopened(f, alt.r, frame.node)
<1>1. PICK rule, node, n, no :
        rule \in Rules /\ rule = alt.r /\ node = frame.node /\ n = frame.n /\ no = FALSE
  OBVIOUS
<1>2. no \in BOOLEAN
  BY <1>1
<1>3. f = NewFrame(rule, node, n, no)
  BY <1>1 DEF Heir
<1>4. QED
  BY <1>1, <1>2, <1>3, NewGoFrame

LEMMA ChildOf ==
  ASSUME NEW alt, alt.p \in Rules, NEW frame, NEW f, f = Child(alt, frame)
  PROVE  Unopened(f, alt.p, frame.node) /\ f.pushed
<1>1. PICK rule, node, n, yes :
        rule \in Rules /\ rule = alt.p /\ node = frame.node /\ n = frame.n /\ yes = TRUE
  OBVIOUS
<1>2. yes \in BOOLEAN
  BY <1>1
<1>3. f = NewFrame(rule, node, n, yes)
  BY <1>1 DEF Child
<1>4. f.pushed
  BY <1>1, <1>3 DEF NewFrame
<1>5. QED
  BY <1>1, <1>2, <1>3, <1>4, NewGoFrame

\* Another instance of the depth replaces the running one.
LEMMA GoReplaces ==
  ASSUME GoInv, outcome = "run", Top.at # "bo", NEW alt, AltOK(Top.rule, alt), Replacing(alt),
         NEW left, NEW frame, frame = GoActed(alt), NEW new,
         new = Put(GoSeen(alt, left), Depth, Heir(alt, frame))
  PROVE  /\ GoShape(new, Len(heap)) /\ GoReady(new) /\ new[1].node = stack[1].node
         /\ AllMine(new) \subseteq AllMine(stack) \union Appended(alt)
<1>1. PICK rule, node, f : rule = alt.r /\ node = frame.node /\ f = Heir(alt, frame)
  OBVIOUS
<1>2. rule \in Rules /\ rule \notin {"csv", "list"} /\ Level(rule) = Depth
  BY <1>1, GoRunning DEF AltOK, Replacing
<1>3. Unopened(f, rule, node)
  BY <1>1, <1>2, HeirOf
<1>4. PICK T : f \in GoFrame(T)
  BY <1>3 DEF Unopened
<1>5. f.rule = rule /\ f.at \in {"bo", "open"} /\ f.node = node /\ f.kid = Undef
  BY <1>3 DEF Unopened
<1>8. Depth = 1 => f.at # "bo"
  BY <1>2, LevelOf
<1>9. Mine(f) \subseteq AllMine(stack)
  BY <1>2, <1>5 DEF Mine
<1>10. MayBePlaced(f, alt)
  BY <1>1, <1>2, <1>5, <1>8, <1>9 DEF MayBePlaced
<1>11. new = Put(GoSeen(alt, left), Depth, f)
  BY <1>1
<1>12. GoShape(new, Len(heap))
  BY <1>4, <1>10, <1>11, GoPlaced
<1>13. Len(new) = Depth /\ new[Depth] = f
  BY <1>4, <1>10, <1>11, GoPlaced
<1>14. new[1].node = stack[1].node
  BY <1>4, <1>10, <1>11, GoPlaced
<1>15. AllMine(new) \subseteq AllMine(stack) \union Appended(alt)
  BY <1>4, <1>10, <1>11, GoPlaced
<1>16. GoReady(new)
  BY <1>5, <1>13 DEF GoReady
<1>17. QED
  BY <1>12, <1>14, <1>15, <1>16

\* The running instance goes on to a later phase.
LEMMA GoStays ==
  ASSUME GoInv, outcome = "run", Top.at = "open", NEW alt, AltOK(Top.rule, alt),
         NEW left, NEW phase \in {"bc", "close"}, NEW frame, frame = GoActed(alt), NEW new,
         new = Put(GoSeen(alt, left), Depth, WithAt(frame, phase))
  PROVE  /\ GoShape(new, Len(heap)) /\ Len(new) = Depth
         /\ new[Depth].at = phase /\ new[Depth].rule = Top.rule
         /\ new[Depth].node = frame.node
         /\ new[1].node = stack[1].node
         /\ AllMine(new) \subseteq AllMine(stack) \union Appended(alt)
<1>1. PICK f : f = WithAt(frame, phase)
  OBVIOUS
<1>2. LikeTop(frame)
  BY GoActedLike
<1>3. PICK S : frame \in GoFrame(S)
  BY <1>2 DEF LikeTop
<1>4. phase \in Phase /\ phase # "bo"
  BY DEF Phase
<1>5. f \in GoFrame(S) /\ f.node = frame.node /\ f.rule = frame.rule /\ f.at = phase
  BY <1>1, <1>3, <1>4, PhaseSet
<1>6. f.kid = frame.kid /\ f.pushed = frame.pushed
  BY <1>1, <1>3, <1>4, PhaseSet
<1>7. /\ f.rule = Top.rule /\ f.pushed = Top.pushed /\ f.kid = Top.kid /\ f.at = phase
      /\ f.node = frame.node
  BY <1>2, <1>5, <1>6 DEF LikeTop
<1>8. Level(f.rule) = Depth
  BY <1>7, GoRunning
<1>9. f.rule = "list" => f.pushed
  <2>1. PICK stk, len : stk = stack /\ len = Len(heap)
    OBVIOUS
  <2>2. GoShape(stk, len) /\ Top = stk[Len(stk)] /\ Len(stk) \in 1 .. Len(stk)
    BY <2>1, GoRunning, GoDepth DEF GoInv
  <2>3. Top.rule = "list" => Top.pushed
    BY <2>2 DEF GoShape
  <2>4. QED
    BY <1>7, <2>3
<1>10. f.rule = "list" => f.node = Top.node
  <2>1. Top.rule = "list" => alt.a \notin EmptyActions \union TextActions
    BY DEF AltOK
  <2>2. QED
    BY <1>7, <2>1, GoActedLike
<1>11. Mine(f) \subseteq AllMine(stack)
  <2>1. Mine(Top) \subseteq AllMine(stack)
    <3>1. PICK stk, len : stk = stack /\ len = Len(heap)
      OBVIOUS
    <3>2. GoShape(stk, len) /\ Top = stk[Len(stk)] /\ Len(stk) \in 1 .. Len(stk)
      BY <3>1, GoRunning, GoDepth DEF GoInv
    <3>3. QED
      BY <3>1, <3>2 DEF AllMine
  <2>2. f.rule = "list" => f.node \in AllMine(stack)
    BY <1>7, <1>10, ListNode
  <2>3. f.rule = "record" /\ f.at # "close" /\ f.kid # Undef => f.kid \in AllMine(stack)
    BY <1>7, <2>1 DEF Mine
  <2>4. QED
    BY <2>2, <2>3 DEF Mine
<1>13. new = Put(GoSeen(alt, left), Depth, f)
  BY <1>1
<1>14. MayBePlaced(f, alt)
  BY <1>4, <1>7, <1>8, <1>9, <1>11 DEF MayBePlaced
<1>15. GoShape(new, Len(heap))
  BY <1>5, <1>13, <1>14, GoPlaced
<1>16. Len(new) = Depth /\ new[Depth] = f
  BY <1>5, <1>13, <1>14, GoPlaced
<1>17. new[1].node = stack[1].node
  BY <1>5, <1>13, <1>14, GoPlaced
<1>18. AllMine(new) \subseteq AllMine(stack) \union Appended(alt)
  BY <1>5, <1>13, <1>14, GoPlaced
<1>19. QED
  BY <1>7, <1>15, <1>16, <1>17, <1>18

LEMMA GoAltOK ==
  ASSUME GoInv, NEW alt, alt \in AltsOf(TopOpenAlts) \/ alt \in AltsOf(TopCloseAlts)
  PROVE  AltOK(Top.rule, alt)
<1>1. Top.rule \in Rules /\ opts.empty \in BOOLEAN
  BY GoRunning DEF GoInv
<1>2. QED
  BY <1>1, AltTypes DEF TopOpenAlts, TopCloseAlts

\* The running instance gets a child.
LEMMA GoPushes ==
  ASSUME GoInv, outcome = "run", NEW alt, AltOK(Top.rule, alt), Pushing(alt),
         NEW mid, GoShape(mid, Len(heap)), Len(mid) = Depth, mid[Depth].at \in {"bc", "close"},
         mid[1].node = stack[1].node, NEW frame, mid[Depth].node = frame.node,
         NEW new, new = WithChild(mid, Child(alt, frame))
  PROVE  /\ GoShape(new, Len(heap)) /\ GoReady(new) /\ new[1].node = stack[1].node
         /\ AllMine(new) \subseteq AllMine(mid)
<1>1. PICK rule, node, f, d, len :
        /\ rule = alt.p /\ node = frame.node /\ f = Child(alt, frame)
        /\ d = Depth /\ len = Len(heap) /\ len \in Nat
  BY GoRunning
<1>2. rule \in Rules /\ Level(rule) = d + 1
  BY <1>1, GoRunning DEF AltOK, Pushing
<1>3. Unopened(f, rule, node) /\ f.pushed
  BY <1>1, <1>2, ChildOf
<1>4. PICK T : f \in GoFrame(T)
  BY <1>3 DEF Unopened
<1>5. /\ f.rule = rule /\ f.at \in {"bo", "open"} /\ f.node = node /\ f.kid = Undef
      /\ (rule = "list" => f.at = "bo")
  BY <1>3 DEF Unopened
<1>8. d \in Nat \ {0}
  BY <1>1, GoRunning
<1>9. /\ GoShape(mid, len) /\ d = Len(mid) /\ MayBePushed(f, mid, d) /\ new = WithChild(mid, f)
      /\ len \in Nat
  BY <1>1, <1>2, <1>3, <1>5 DEF MayBePushed
<1>10. GoShape(new, len)
  BY <1>4, <1>9, GoPushed
<1>16. PICK S : mid \in Seq(GoFrame(S))
  BY <1>9 DEF GoShape, GoStack
<1>17. mid \in Seq(GoFrame(S \union T)) /\ f \in GoFrame(S \union T)
  BY <1>4, <1>16, GoFramesWider
<1>11. Len(new) = d + 1 /\ new[d + 1] = f /\ \A i \in 1 .. d : new[i] = mid[i]
  BY <1>9, <1>17, AppendProperties DEF WithChild
<1>13. AllMine(new) \subseteq AllMine(mid)
  <2>1. Mine(f) = {}
    BY <1>5, <1>9 DEF Mine, MayBePushed
  <2>2. \A i \in 1 .. d + 1 : i \in 1 .. d \/ i = d + 1
    BY <1>8
  <2>3. QED
    BY <1>9, <1>11, <2>1, <2>2 DEF AllMine
<1>14. GoReady(new)
  BY <1>5, <1>11 DEF GoReady
<1>15. new[1] = mid[1]
  <2>1. 1 \in 1 .. d
    BY <1>8
  <2>2. QED
    BY <1>11, <2>1
<1>18. QED
  BY <1>1, <1>10, <1>13, <1>14, <1>15

LEMMA AfterOpenPhase == \A rule : AfterOpen(rule) \in {"bc", "close"}
BY DEF AfterOpen

\* An append of nothing, and of one.
LEMMA ConcatNone ==
  ASSUME NEW stk, GoStack(stk), NEW none, none = <<>>
  PROVE  stk \o none = stk
<1>1. PICK S : stk \in Seq(GoFrame(S))
  BY DEF GoStack
<1>2. none \in Seq(GoFrame(S)) /\ Len(none) = 0 /\ Len(stk) \in Nat
  BY <1>1, LenProperties
<1>3. PICK whole : whole = stk \o none
  OBVIOUS
<1>4. /\ whole \in Seq(GoFrame(S)) /\ Len(whole) = Len(stk)
      /\ \A i \in 1 .. Len(stk) : whole[i] = stk[i]
  BY <1>1, <1>2, <1>3, ConcatProperties
<1>5. whole = stk
  BY <1>1, <1>4, SeqEqual
<1>6. QED
  BY <1>3, <1>5

LEMMA ConcatOne ==
  ASSUME NEW S, NEW stk \in Seq(GoFrame(S)), NEW T, NEW f \in GoFrame(T),
         NEW one, one = <<f>>
  PROVE  stk \o one = WithChild(stk, f)
<1>1. PICK U : U = GoFrame(S \union T)
  OBVIOUS
<1>2. stk \in Seq(U) /\ f \in U
  BY <1>1, GoFramesWider
<1>3. one \in Seq(U) /\ Len(one) = 1 /\ one[1] = f /\ Len(stk) \in Nat
  BY <1>2, LenProperties
<1>4. PICK whole, longer : whole = stk \o one /\ longer = Append(stk, f)
  OBVIOUS
<1>5. /\ whole \in Seq(U) /\ Len(whole) = Len(stk) + 1
      /\ \A i \in 1 .. Len(stk) : whole[i] = stk[i]
      /\ whole[Len(stk) + 1] = f
  BY <1>2, <1>3, <1>4, ConcatProperties
<1>6. /\ longer \in Seq(U) /\ Len(longer) = Len(stk) + 1
      /\ \A i \in 1 .. Len(stk) : longer[i] = stk[i]
      /\ longer[Len(stk) + 1] = f
  BY <1>2, <1>4, AppendProperties
<1>7. \A i \in 1 .. Len(stk) + 1 : whole[i] = longer[i]
  BY <1>3, <1>5, <1>6
<1>8. whole = longer
  BY <1>5, <1>6, <1>7, SeqEqual
<1>9. QED
  BY <1>4, <1>8 DEF WithChild

LEMMA GoOpenStep ==
  ASSUME GoInv, GoOpen
  PROVE  GoInv' /\ Spared
<1>1. outcome = "run" /\ Top.at = "open" /\ Top.at # "bo"
  BY DEF GoOpen, Running
<1>2. PICK alt \in AltsOf(TopOpenAlts) :
        /\ GoTake(alt)
        /\ stack' =
             IF alt.r # ""
             THEN [GoSeen(alt, alt.r # "") EXCEPT
                     ![Depth] = NewFrame(alt.r, GoActed(alt).node, GoActed(alt).n, FALSE)]
             ELSE [GoSeen(alt, alt.r # "") EXCEPT
                     ![Depth] = [GoActed(alt) EXCEPT !.at = AfterOpen(Top.rule)]]
                    \o (IF alt.p = "" THEN <<>>
                        ELSE <<NewFrame(alt.p, GoActed(alt).node, GoActed(alt).n, TRUE)>>)
  BY DEF GoOpen
<1>3. AltOK(Top.rule, alt) /\ GoTake(alt)
  BY <1>2, GoAltOK
<1>4. PICK left, frame, phase, new :
        left = (alt.r # "") /\ frame = GoActed(alt) /\ phase = AfterOpen(Top.rule) /\ new = stack'
  OBVIOUS
<1>5. PICK mid : mid = Put(GoSeen(alt, left), Depth, WithAt(frame, phase))
  OBVIOUS
<1>22. frame = GoActed(alt)
  BY <1>4
<1>6. Replacing(alt) => new = Put(GoSeen(alt, left), Depth, Heir(alt, frame))
  BY <1>2, <1>4 DEF Replacing, Put, Heir
<1>7. ~Replacing(alt) /\ Pushing(alt) => new = mid \o <<Child(alt, frame)>>
  BY <1>2, <1>4, <1>5 DEF Replacing, Pushing, Put, WithAt, Child
<1>8. ~Replacing(alt) /\ ~Pushing(alt) => new = mid \o <<>>
  BY <1>2, <1>4, <1>5 DEF Replacing, Pushing, Put, WithAt
<1>9. phase \in {"bc", "close"}
  BY <1>4, AfterOpenPhase
<1>10. GoShape(mid, Len(heap))
  BY <1>1, <1>3, <1>5, <1>9, <1>22, GoStays
<1>11. Len(mid) = Depth
  BY <1>1, <1>3, <1>5, <1>9, <1>22, GoStays
<1>12. mid[Depth].at = phase
  BY <1>1, <1>3, <1>5, <1>9, <1>22, GoStays
<1>13. mid[Depth].rule = Top.rule
  BY <1>1, <1>3, <1>5, <1>9, <1>22, GoStays
<1>14. mid[Depth].node = frame.node
  BY <1>1, <1>3, <1>5, <1>9, <1>22, GoStays
<1>15. mid[1].node = stack[1].node
  BY <1>1, <1>3, <1>5, <1>9, <1>22, GoStays
<1>16. AllMine(mid) \subseteq AllMine(stack) \union Appended(alt)
  BY <1>1, <1>3, <1>5, <1>9, <1>22, GoStays
<1>17. PICK S : mid \in Seq(GoFrame(S))
  BY <1>10 DEF GoShape, GoStack
<1>18. CASE Replacing(alt)
  <2>1. new = Put(GoSeen(alt, left), Depth, Heir(alt, frame))
    BY <1>6, <1>18
  <2>2. GoShape(new, Len(heap))
    BY <1>1, <1>3, <1>4, <1>18, <2>1, GoReplaces
  <2>3. GoReady(new)
    BY <1>1, <1>3, <1>4, <1>18, <2>1, GoReplaces
  <2>4. new[1].node = stack[1].node
    BY <1>1, <1>3, <1>4, <1>18, <2>1, GoReplaces
  <2>5. AllMine(new) \subseteq AllMine(stack) \union Appended(alt)
    BY <1>1, <1>3, <1>4, <1>18, <2>1, GoReplaces
  <2>6. QED
    BY <1>1, <1>3, <1>4, <2>2, <2>3, <2>4, <2>5, GoTaken
<1>19. CASE ~Replacing(alt) /\ Pushing(alt)
  <2>1. PICK f, one : f = Child(alt, frame) /\ one = <<f>>
    OBVIOUS
  <2>2. PICK T : f \in GoFrame(T)
    <3>1. alt.p \in Rules
      BY <1>3, <1>19 DEF AltOK, Pushing
    <3>2. Unopened(f, alt.p, frame.node)
      BY <2>1, <3>1, ChildOf
    <3>3. QED
      BY <3>2 DEF Unopened
  <2>3. new = WithChild(mid, Child(alt, frame))
    <3>1. new = mid \o one
      BY <1>7, <1>19, <2>1
    <3>2. mid \o one = WithChild(mid, f)
      BY <1>17, <2>1, <2>2, ConcatOne
    <3>3. QED
      BY <2>1, <3>1, <3>2
  <2>4. mid[Depth].at \in {"bc", "close"}
    BY <1>9, <1>12
  <2>5. GoShape(new, Len(heap))
    BY <1>1, <1>3, <1>10, <1>11, <1>14, <1>15, <1>19, <2>3, <2>4, GoPushes
  <2>6. GoReady(new)
    BY <1>1, <1>3, <1>10, <1>11, <1>14, <1>15, <1>19, <2>3, <2>4, GoPushes
  <2>7. new[1].node = stack[1].node
    BY <1>1, <1>3, <1>10, <1>11, <1>14, <1>15, <1>19, <2>3, <2>4, GoPushes
  <2>8. AllMine(new) \subseteq AllMine(mid)
    BY <1>1, <1>3, <1>10, <1>11, <1>14, <1>15, <1>19, <2>3, <2>4, GoPushes
  <2>9. AllMine(new) \subseteq AllMine(stack) \union Appended(alt)
    BY <1>16, <2>8
  <2>10. QED
    BY <1>1, <1>3, <1>4, <2>5, <2>6, <2>7, <2>9, GoTaken
<1>20. CASE ~Replacing(alt) /\ ~Pushing(alt)
  <2>1. new = mid
    <3>1. PICK none : none = <<>>
      OBVIOUS
    <3>2. mid \o none = mid
      BY <1>17, <3>1, ConcatNone DEF GoStack
    <3>3. QED
      BY <1>8, <1>20, <3>1, <3>2
  <2>2. GoReady(mid)
    <3>1. Top.rule # "record"
      <4>1. Top.rule = "record" => alt.p = "list"
        BY <1>2, RecordPushes
      <4>2. QED
        BY <1>20, <4>1 DEF Pushing
    <3>2. QED
      BY <1>11, <1>13, <3>1 DEF GoReady
  <2>3. QED
    BY <1>1, <1>3, <1>4, <1>10, <1>15, <1>16, <2>1, <2>2, GoTaken
<1>21. QED
  BY <1>18, <1>19, <1>20

LEMMA KeepsAllBut ==
  ASSUME NEW S, NEW below \in Seq(S), NEW d, d = Len(below), d > 1,
         NEW new, new = WithoutTop(below)
  PROVE  new[1] = below[1] /\ new[d - 1] = below[d - 1]
<1>1. d \in Nat
  BY LenProperties
<1>2. PICK n : n = d - 1 /\ n \in Nat /\ n <= Len(below) /\ 1 \in 1 .. n /\ n \in 1 .. n
  BY <1>1
<1>3. new = SubSeq(below, 1, n)
  BY <1>2 DEF WithoutTop
<1>4. \A i \in 1 .. n : new[i] = below[i]
  BY <1>2, <1>3, FirstCells
<1>5. QED
  BY <1>2, <1>4

\* The running instance ends.
LEMMA GoPops ==
  ASSUME GoInv, outcome = "run", Top.at # "bo", NEW alt, AltOK(Top.rule, alt), Depth > 1,
         NEW left, left, NEW new, new = WithoutTop(GoSeen(alt, left))
  PROVE  /\ GoShape(new, Len(heap)) /\ GoReady(new) /\ new[1].node = stack[1].node
         /\ AllMine(new) \subseteq AllMine(stack) \union Appended(alt)
<1>1. PICK below, d, len : /\ below = GoSeen(alt, left) /\ d = Depth
                           /\ len = Len(heap) /\ len \in Nat
  BY GoRunning
<1>2. GoShape(below, len) /\ d = Len(below) /\ d > 1 /\ d \in Nat
  BY <1>1, GoSeenOK, GoRunning
<1>3. below[1].node = stack[1].node
  BY <1>1, GoSeenOK
<1>4. AllMine(below) \subseteq AllMine(stack) \union Appended(alt)
  BY <1>1, GoSeenOK
<1>5. Top.rule = "list" => below[2].kid # Undef
  BY <1>1, GoSeenOK
<1>6. new = WithoutTop(below)
  BY <1>1
<1>16. GoShape(below, len) /\ d = Len(below) /\ d > 1 /\ len \in Nat
  BY <1>1, <1>2
<1>7. GoShape(new, len)
  BY <1>6, <1>16, GoPopped
<1>8. Len(new) = d - 1
  BY <1>6, <1>16, GoPopped
<1>9. new[1] = below[1] /\ new[d - 1] = below[d - 1]
  <2>1. PICK S : below \in Seq(GoFrame(S))
    BY <1>2 DEF GoShape, GoStack
  <2>2. d = Len(below) /\ d > 1
    BY <1>2
  <2>3. QED
    BY <1>6, <2>1, <2>2, KeepsAllBut
<1>10. AllMine(new) \subseteq AllMine(below)
  BY <1>6, <1>16, GoPopped
<1>11. PICK top : top = new[Len(new)]
  OBVIOUS
<1>12. top = below[d - 1] /\ new[1] = below[1]
  BY <1>8, <1>9, <1>11
<1>13. top.rule = "record" => top.kid # Undef
  <2>1. SUFFICES ASSUME top.rule = "record" PROVE top.kid # Undef
    OBVIOUS
  <2>2. Level(top.rule) = d - 1
    <3>1. d - 1 \in 1 .. Len(below)
      BY <1>2
    <3>2. QED
      BY <1>2, <1>12, <3>1, GoDepth
  <2>3. Level("record") = 2
    BY DEF Level
  <2>4. d = 3
    BY <1>2, <2>1, <2>2, <2>3
  <2>5. Top.rule = "list"
    BY <1>1, <2>4, GoRunning, LevelOf
  <2>6. QED
    BY <1>5, <1>12, <2>4, <2>5
<1>14. GoReady(new)
  BY <1>11, <1>13 DEF GoReady
<1>15. QED
  BY <1>1, <1>3, <1>4, <1>7, <1>10, <1>12, <1>14

LEMMA GoCloseStep ==
  ASSUME GoInv, GoClose
  PROVE  GoInv' /\ Spared
<1>1. outcome = "run" /\ Top.at = "close" /\ Top.at # "bo" /\ Depth > 1
  BY DEF GoClose, Running
<1>2. PICK alt \in AltsOf(TopCloseAlts) :
        /\ GoTake(alt)
        /\ stack' =
             IF alt.r # ""
             THEN [GoSeen(alt, TRUE) EXCEPT
                     ![Depth] = NewFrame(alt.r, GoActed(alt).node, GoActed(alt).n, FALSE)]
             ELSE SubSeq(GoSeen(alt, TRUE), 1, Depth - 1)
  BY DEF GoClose
<1>3. AltOK(Top.rule, alt) /\ GoTake(alt)
  BY <1>2, GoAltOK
<1>4. PICK left, frame, new : left = TRUE /\ frame = GoActed(alt) /\ new = stack'
  OBVIOUS
<1>5. left
  BY <1>4
<1>6. Replacing(alt) => new = Put(GoSeen(alt, left), Depth, Heir(alt, frame))
  BY <1>2, <1>4 DEF Replacing, Put, Heir
<1>7. ~Replacing(alt) => new = SubSeq(GoSeen(alt, left), 1, Depth - 1)
  BY <1>2, <1>4 DEF Replacing
<1>8. /\ GoShape(new, Len(heap)) /\ GoReady(new) /\ new[1].node = stack[1].node
      /\ AllMine(new) \subseteq AllMine(stack) \union Appended(alt)
  <2>1. CASE Replacing(alt)
    <3>1. frame = GoActed(alt) /\ new = Put(GoSeen(alt, left), Depth, Heir(alt, frame))
      BY <1>4, <1>6, <2>1
    <3>2. GoShape(new, Len(heap))
      BY <1>1, <1>3, <2>1, <3>1, GoReplaces
    <3>3. GoReady(new)
      BY <1>1, <1>3, <2>1, <3>1, GoReplaces
    <3>4. new[1].node = stack[1].node
      BY <1>1, <1>3, <2>1, <3>1, GoReplaces
    <3>5. AllMine(new) \subseteq AllMine(stack) \union Appended(alt)
      BY <1>1, <1>3, <2>1, <3>1, GoReplaces
    <3>6. QED
      BY <3>2, <3>3, <3>4, <3>5
  <2>2. CASE ~Replacing(alt)
    <3>1. new = WithoutTop(GoSeen(alt, left))
      <4>1. Len(GoSeen(alt, left)) = Depth
        BY <1>1, <1>3, GoSeenOK
      <4>2. QED
        BY <1>7, <2>2, <4>1 DEF WithoutTop
    <3>2. GoShape(new, Len(heap))
      BY <1>1, <1>3, <1>5, <3>1, GoPops
    <3>3. GoReady(new)
      BY <1>1, <1>3, <1>5, <3>1, GoPops
    <3>4. new[1].node = stack[1].node
      BY <1>1, <1>3, <1>5, <3>1, GoPops
    <3>5. AllMine(new) \subseteq AllMine(stack) \union Appended(alt)
      BY <1>1, <1>3, <1>5, <3>1, GoPops
    <3>6. QED
      BY <3>2, <3>3, <3>4, <3>5
  <2>3. QED
    BY <2>1, <2>2
<1>9. QED
  BY <1>1, <1>3, <1>4, <1>8, GoTaken

-----------------------------------------------------------------------------
(* The specification.                                                      *)

LEMMA GoInitInv ==
  ASSUME GoInit
  PROVE  GoInv
<1>1. opts.empty \in BOOLEAN
  <2>1. opts \in Options
    BY InputAssumption DEF GoInit
  <2>2. QED
    BY <2>1 DEF Options
<1>2. PICK none : none = <<>> /\ heap = none /\ events = none
  BY DEF GoInit
<1>3. none \in Seq(Nat) /\ none \in Seq(BackingArray(Nat)) /\ Len(none) = 0
  BY <1>2
<1>4. IsSequence(events) /\ IsStore(heap)
  BY <1>2, <1>3 DEF IsSequence, IsStore
<1>5. PICK rule, node, n, no, f :
        rule = "csv" /\ node = Undef /\ n = 0 /\ no = FALSE /\ f = NewFrame(rule, node, n, no)
  OBVIOUS
<1>6. Unopened(f, rule, node)
  <2>1. rule \in Rules /\ no \in BOOLEAN
    BY <1>5 DEF Rules
  <2>2. QED
    BY <1>5, <2>1, NewGoFrame
<1>7. PICK T : f \in GoFrame(T)
  BY <1>6 DEF Unopened
<1>8. f.rule = "csv" /\ f.at = "bo"
  BY <1>5 DEF NewFrame, FirstPhase, HasBO
<1>9. PICK stk : stk = stack /\ stk = <<f>>
  BY <1>5 DEF GoInit
<1>10. stk \in Seq(GoFrame(T)) /\ Len(stk) = 1 /\ stk[1] = f
  BY <1>7, <1>9
<1>11. GoShape(stk, 0)
  <2>1. GoStack(stk) /\ stk # <<>>
    BY <1>10 DEF GoStack
  <2>2. Level(f.rule) = 1
    BY <1>8 DEF Level
  <2>3. \A i \in 1 .. Len(stk) : Level(stk[i].rule) = i /\ (stk[i].rule = "list" => stk[i].pushed)
    BY <1>8, <1>10, <2>2
  <2>4. \A i \in 1 .. Len(stk) - 1 : FALSE
    BY <1>10
  <2>5. 0 = 0 <=> stk[1].at = "bo"
    BY <1>8, <1>10
  <2>6. QED
    BY <2>1, <2>3, <2>4, <2>5 DEF GoShape
<1>12. GoReady(stk)
  BY <1>8, <1>10 DEF GoReady
<1>13. Held \subseteq {NoSlice}
  <2>1. PICK s : s = opts.stream
    OBVIOUS
  <2>2. Document = none
    BY <1>2 DEF Document
  <2>3. DOMAIN none = {}
    BY <1>2
  <2>4. HeldFrom(s, none, fields, none) = {fields}
    BY <2>3 DEF HeldFrom, RowsOf, CellSet, ArraysOf
  <2>5. Held = {fields}
    BY <1>2, <2>1, <2>2, <2>4, HeldIs
  <2>6. QED
    BY <2>5 DEF GoInit
<1>14. Len(heap) = 0 /\ heap = <<>>
  BY <1>2, <1>3
<1>15. GoShape(stack, Len(heap)) /\ GoReady(stack)
  BY <1>9, <1>11, <1>12, <1>14
<1>16. QED
  BY <1>1, <1>4, <1>13, <1>14, <1>15 DEF GoInv

LEMMA GoIdle ==
  ASSUME GoInv, UNCHANGED vars
  PROVE  GoInv' /\ Spared
<1>1. /\ heap' = heap /\ opts' = opts /\ fields' = fields /\ events' = events
      /\ stack' = stack /\ outcome' = outcome
  BY DEF vars
<1>2. IsSequence(events') /\ RowsOf(events') \subseteq RowsOf(events)
  BY <1>1 DEF GoInv
<1>3. Reading' \subseteq Reading
  BY <1>1 DEF Reading
<1>4. GoShape(stack', Len(heap')) /\ GoReady(stack') /\ stack'[1].node = stack[1].node
  BY <1>1 DEF GoInv
<1>5. QED
  BY <1>1, <1>2, <1>3, <1>4, Silent

LEMMA GoStepInv ==
  ASSUME GoInv, [GoStep \/ Returned]_vars
  PROVE  GoInv' /\ Spared
<1>1. CASE GoCsvBO
  BY <1>1, GoCsvBOStep
<1>2. CASE GoListBO
  BY <1>2, GoListBOStep
<1>3. CASE ValBO
  BY <1>3, GoValBOStep
<1>4. CASE TextBC
  BY <1>4, GoTextBCStep
<1>5. CASE ValBC
  BY <1>5, GoValBCStep
<1>6. CASE GoElemBC
  BY <1>6, GoElemBCStep
<1>7. CASE GoRecordHeader
  BY <1>7, GoRecordHeaderStep
<1>8. CASE GoRecordRefused
  <2>1. PICK code : code = GoCountError
    OBVIOUS
  <2>2. outcome = "run" /\ Fail(code)
    BY <1>8, <2>1 DEF GoRecordRefused, Running
  <2>3. QED
    BY <2>2, GoFailStep
<1>9. CASE GoRecordRow
  BY <1>9, GoRecordRowStep
<1>10. CASE GoOpen
  BY <1>10, GoOpenStep
<1>11. CASE GoClose
  BY <1>11, GoCloseStep
<1>12. CASE CsvClose
  BY <1>12, GoCsvCloseStep
<1>13. CASE GoCallbackPanics
  BY <1>13, GoPanicStep
<1>14. CASE Unexpected
  <2>1. outcome = "run" /\ Fail("unexpected")
    BY <1>14 DEF Unexpected, Running
  <2>2. QED
    BY <2>1, GoFailStep
<1>15. CASE UNCHANGED vars
  BY <1>15, GoIdle
<1>16. QED
  BY <1>1, <1>2, <1>3, <1>4, <1>5, <1>6, <1>7, <1>8, <1>9, <1>10, <1>11, <1>12, <1>13, <1>14,
     <1>15 DEF GoStep, Returned

\* Whatever the source and the options, no append of the Go port's parse
\* writes over what the caller holds: the slices of the records handed out, to
\* the callback or in the document, and the header's keep their elements, and
\* the document only gets longer.
THEOREM AppendsSpare == GoSpec => AppendsSpareTheHeld
<1>1. GoInit => GoInv
  BY GoInitInv
<1>2. GoInv /\ [GoStep \/ Returned]_vars => GoInv' /\ [Spared]_vars
  BY GoStepInv
<1>3. AppendsSpareTheHeld <=> [][Spared]_vars
  BY PTL DEF AppendsSpareTheHeld, Spared
<1>4. QED
  BY <1>1, <1>2, <1>3, PTL DEF GoSpec
=============================================================================
