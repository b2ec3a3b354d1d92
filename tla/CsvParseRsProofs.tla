-------------------------- MODULE CsvParseRsProofs --------------------------
(***************************************************************************)
(* Which rules of the Rust port's parse may share a node cell, for every   *)
(* source and every option setting.                                        *)
(***************************************************************************)
EXTENDS CsvParseRs, CsvParseProofs

USE RsPortAssumption

-----------------------------------------------------------------------------
(* The stack.  len is the number of cells taken.                           *)

\* What a frame holds besides its rule, phase and cell does not matter here.
RsFrame(S) == [rule : Rules, at : Phase, node : Nat, kid : S, n : S, done : S,
               o0 : S, pushed : S]

\* One frame for each depth, all but the last opened; and the property.
CellsOK(stk, len) ==
  /\ \E S : stk \in Seq(RsFrame(S))
  /\ stk # <<>>
  /\ \A i \in 1 .. Len(stk) : Level(stk[i].rule) = i /\ stk[i].node \in 1 .. len
  /\ \A i \in 1 .. Len(stk) - 1 : stk[i].at \in {"bc", "close"}
  /\ \A i, j \in 1 .. Len(stk) :
       stk[i].node = stk[j].node /\ stk[i].at # "bo" /\ stk[j].at # "bo" =>
         Tier(stk[i].rule) = Tier(stk[j].rule)

IsSequence(s) == \E S : s \in Seq(S)

RsInv == opts.empty \in BOOLEAN /\ IsSequence(heap) /\ CellsOK(stack, Len(heap))

\* A rule of another level than its parent waits for its before-open callback.
LEMMA TierBelow ==
  ASSUME NEW rule \in Rules, NEW child \in Rules, Level(child) = Level(rule) + 1
  PROVE  FirstPhase(child) = "bo" \/ Tier(child) = Tier(rule)
<1>1. /\ rule = "csv" => child \in {"newline", "record"}
      /\ rule \in {"newline", "record"} => child = "list"
      /\ rule = "list" => child = "elem"
      /\ rule = "elem" => child = "val"
      /\ rule = "val" => child = "text"
      /\ rule # "text"
  <2>1. /\ Level("csv") = 1 /\ Level("newline") = 2 /\ Level("record") = 2
        /\ Level("list") = 3 /\ Level("elem") = 4 /\ Level("val") = 5 /\ Level("text") = 6
    BY DEF Level
  <2>2. /\ Level(child) = 2 => child \in {"newline", "record"}
        /\ Level(child) = 3 => child = "list"
        /\ Level(child) = 4 => child = "elem"
        /\ Level(child) = 5 => child = "val"
        /\ Level(child) = 6 => child = "text"
        /\ Level(child) # 7
    BY LevelOf
  <2>3. QED
    BY <2>1, <2>2
<1>2. rule \in {"csv", "newline", "record", "list", "elem", "val", "text"}
  BY DEF Rules
<1>3. QED
  BY <1>1, <1>2 DEF Tier, FirstPhase, HasBO

\* Rules of one depth are of one level.
LEMMA TierBeside ==
  ASSUME NEW rule \in Rules, NEW heir \in Rules, Level(heir) = Level(rule)
  PROVE  Tier(heir) = Tier(rule)
<1>1. heir = rule \/ {heir, rule} \subseteq {"newline", "record"}
  BY LevelOf DEF Rules
<1>2. QED
  BY <1>1 DEF Tier

LEMMA FramesWider ==
  ASSUME NEW S, NEW T, NEW stk \in Seq(RsFrame(S))
  PROVE  stk \in Seq(RsFrame(S \union T)) /\ RsFrame(T) \subseteq RsFrame(S \union T)
<1>1. RsFrame(S) \subseteq RsFrame(S \union T) /\ RsFrame(T) \subseteq RsFrame(S \union T)
  BY DEF RsFrame
<1>2. QED
  BY <1>1, SeqMonotonic

LEMMA FrameSet ==
  ASSUME NEW S, NEW stk \in Seq(RsFrame(S)), NEW T, NEW f \in RsFrame(T),
         NEW i \in 1 .. Len(stk), NEW new, new = [stk EXCEPT ![i] = f]
  PROVE  /\ new \in Seq(RsFrame(S \union T))
         /\ Len(new) = Len(stk) /\ Len(stk) \in Nat
         /\ \A j \in 1 .. Len(stk) : new[j] = IF j = i THEN f ELSE stk[j]
<1>1. stk \in Seq(RsFrame(S \union T)) /\ f \in RsFrame(S \union T)
  BY FramesWider
<1>2. QED
  BY <1>1, ExceptSeq, LenProperties

\* The running instance, or the one that replaces it: it waits, or it has a
\* cell of its own, or the cell of one of its level.
LEMMA TopSet ==
  ASSUME NEW stk, NEW len \in Nat, NEW len2 \in Nat, len <= len2, CellsOK(stk, len),
         NEW T, NEW f \in RsFrame(T), Level(f.rule) = Len(stk), f.node \in 1 .. len2,
         NEW top, top = stk[Len(stk)],
         \/ f.at = "bo"
         \/ f.node > len
         \/ f.node = top.node /\ top.at # "bo" /\ Tier(f.rule) = Tier(top.rule)
  PROVE  CellsOK([stk EXCEPT ![Len(stk)] = f], len2)
<1>1. PICK S : stk \in Seq(RsFrame(S))
  BY DEF CellsOK
<1>2. Len(stk) \in Nat \ {0} /\ Len(stk) \in 1 .. Len(stk)
  BY <1>1, EmptySeq, LenProperties DEF CellsOK
<1>3. PICK new : new = [stk EXCEPT ![Len(stk)] = f]
  OBVIOUS
<1>4. /\ \E U : new \in Seq(RsFrame(U))
      /\ Len(new) = Len(stk)
      /\ \A j \in 1 .. Len(stk) : new[j] = IF j = Len(stk) THEN f ELSE stk[j]
  <2>1. PICK n \in 1 .. Len(stk) : n = Len(stk)
    BY <1>2
  <2>2. new = [stk EXCEPT ![n] = f]
    BY <1>3, <2>1
  <2>3. /\ new \in Seq(RsFrame(S \union T))
        /\ Len(new) = Len(stk)
        /\ \A j \in 1 .. Len(stk) : new[j] = IF j = n THEN f ELSE stk[j]
    BY <1>1, <2>1, <2>2, FrameSet, SMTT(30)
  <2>4. QED
    BY <2>1, <2>3
<1>5. new # <<>>
  BY <1>2, <1>4
<1>6. \A i \in 1 .. Len(new) : Level(new[i].rule) = i /\ new[i].node \in 1 .. len2
  BY <1>2, <1>4 DEF CellsOK
<1>7. \A i \in 1 .. Len(new) - 1 : new[i].at \in {"bc", "close"}
  BY <1>2, <1>4 DEF CellsOK
<1>8. ASSUME NEW i \in 1 .. Len(new), NEW j \in 1 .. Len(new),
             new[i].node = new[j].node, new[i].at # "bo", new[j].at # "bo"
      PROVE  Tier(new[i].rule) = Tier(new[j].rule)
  <2>1. \A k \in 1 .. Len(stk) : k # Len(stk) => new[k] = stk[k] /\ stk[k].node \in 1 .. len
    BY <1>4 DEF CellsOK
  <2>2. new[Len(stk)] = f
    BY <1>2, <1>4
  <2>3. ASSUME NEW k \in 1 .. Len(stk), k # Len(stk), new[k].node = f.node, f.at # "bo",
               new[k].at # "bo"
        PROVE  Tier(new[k].rule) = Tier(f.rule)
    <3>1. f.node = top.node /\ top.at # "bo" /\ Tier(f.rule) = Tier(top.rule)
      BY <2>1, <2>3
    <3>2. Tier(stk[k].rule) = Tier(top.rule)
      BY <1>2, <2>1, <2>3, <3>1 DEF CellsOK
    <3>3. QED
      BY <2>1, <2>3, <3>1, <3>2
  <2>4. CASE i = Len(stk) /\ j = Len(stk)
    BY <2>4
  <2>5. CASE i = Len(stk) /\ j # Len(stk)
    BY <1>4, <1>8, <2>2, <2>3, <2>5
  <2>6. CASE i # Len(stk) /\ j = Len(stk)
    BY <1>4, <1>8, <2>2, <2>3, <2>6
  <2>7. CASE i # Len(stk) /\ j # Len(stk)
    BY <1>4, <1>8, <2>1, <2>7 DEF CellsOK
  <2>8. QED
    BY <2>4, <2>5, <2>6, <2>7
<1>9. CellsOK(new, len2)
  BY <1>4, <1>5, <1>6, <1>7, <1>8 DEF CellsOK
<1>10. QED
  BY <1>3, <1>9

LEMMA Pushed ==
  ASSUME NEW stk, NEW len \in Nat, CellsOK(stk, len),
         NEW top, top = stk[Len(stk)], top.at \in {"bc", "close"},
         NEW T, NEW f \in RsFrame(T), Level(f.rule) = Len(stk) + 1, f.node = top.node,
         f.at = "bo" \/ Tier(f.rule) = Tier(top.rule)
  PROVE  CellsOK(Append(stk, f), len)
<1>1. PICK S : stk \in Seq(RsFrame(S))
  BY DEF CellsOK
<1>2. stk \in Seq(RsFrame(S \union T)) /\ f \in RsFrame(S \union T)
  BY <1>1, FramesWider
<1>3. Len(stk) \in Nat \ {0} /\ Len(stk) \in 1 .. Len(stk)
  BY <1>1, EmptySeq, LenProperties DEF CellsOK
<1>4. PICK new : new = Append(stk, f)
  OBVIOUS
<1>5. /\ new \in Seq(RsFrame(S \union T)) /\ new # <<>> /\ Len(new) = Len(stk) + 1
      /\ \A j \in 1 .. Len(stk) : new[j] = stk[j]
      /\ new[Len(stk) + 1] = f
  BY <1>2, <1>4, AppendProperties
<1>6. \A i \in 1 .. Len(new) : Level(new[i].rule) = i /\ new[i].node \in 1 .. len
  BY <1>3, <1>5 DEF CellsOK
<1>7. \A i \in 1 .. Len(new) - 1 : new[i].at \in {"bc", "close"}
  BY <1>3, <1>5 DEF CellsOK
<1>8. ASSUME NEW i \in 1 .. Len(new), NEW j \in 1 .. Len(new),
             new[i].node = new[j].node, new[i].at # "bo", new[j].at # "bo"
      PROVE  Tier(new[i].rule) = Tier(new[j].rule)
  <2>1. ASSUME NEW k \in 1 .. Len(stk), stk[k].node = f.node, f.at # "bo", stk[k].at # "bo"
        PROVE  Tier(stk[k].rule) = Tier(f.rule)
    BY <1>3, <2>1 DEF CellsOK
  <2>2. \A k \in 1 .. Len(new) : k \in 1 .. Len(stk) \/ k = Len(stk) + 1
    BY <1>3, <1>5
  <2>3. CASE i \in 1 .. Len(stk) /\ j \in 1 .. Len(stk)
    BY <1>5, <1>8, <2>3 DEF CellsOK
  <2>4. CASE i = Len(stk) + 1 /\ j \in 1 .. Len(stk)
    BY <1>5, <1>8, <2>1, <2>4
  <2>5. CASE i \in 1 .. Len(stk) /\ j = Len(stk) + 1
    BY <1>5, <1>8, <2>1, <2>5
  <2>6. CASE i = Len(stk) + 1 /\ j = Len(stk) + 1
    BY <2>6
  <2>7. QED
    BY <2>2, <2>3, <2>4, <2>5, <2>6
<1>9. CellsOK(new, len)
  BY <1>5, <1>6, <1>7, <1>8 DEF CellsOK
<1>10. QED
  BY <1>4, <1>9

LEMMA Popped ==
  ASSUME NEW stk, NEW len \in Nat, CellsOK(stk, len), Len(stk) > 1
  PROVE  CellsOK(SubSeq(stk, 1, Len(stk) - 1), len)
<1>1. PICK S : stk \in Seq(RsFrame(S))
  BY DEF CellsOK
<1>2. Len(stk) \in Nat /\ \A i \in 1 .. Len(stk) : stk[i] \in RsFrame(S)
  BY <1>1, LenProperties
<1>3. PICK new : new = SubSeq(stk, 1, Len(stk) - 1)
  OBVIOUS
<1>4. /\ new \in Seq(RsFrame(S)) /\ Len(new) = Len(stk) - 1
      /\ \A i \in 1 .. Len(stk) - 1 : new[i] = stk[i]
  BY <1>2, <1>3, SubSeqProperties
<1>5. new # <<>>
  BY <1>2, <1>4
<1>6. CellsOK(new, len)
  <2>1. \A i \in 1 .. Len(new) : Level(new[i].rule) = i /\ new[i].node \in 1 .. len
    BY <1>2, <1>4 DEF CellsOK
  <2>2. \A i \in 1 .. Len(new) - 1 : new[i].at \in {"bc", "close"}
    BY <1>2, <1>4 DEF CellsOK
  <2>3. \A i, j \in 1 .. Len(new) :
          new[i].node = new[j].node /\ new[i].at # "bo" /\ new[j].at # "bo" =>
            Tier(new[i].rule) = Tier(new[j].rule)
    BY <1>2, <1>4 DEF CellsOK
  <2>4. QED
    BY <1>4, <1>5, <2>1, <2>2, <2>3 DEF CellsOK
<1>7. QED
  BY <1>3, <1>6

\* A frame may change in what does not matter here.
LEMMA KidSet ==
  ASSUME NEW stk, NEW len \in Nat, CellsOK(stk, len), NEW n \in 1 .. Len(stk),
         NEW T, NEW f \in RsFrame(T),
         f.rule = stk[n].rule, f.at = stk[n].at, f.node = stk[n].node,
         NEW new, new = [stk EXCEPT ![n] = f]
  PROVE  /\ CellsOK(new, len) /\ Len(new) = Len(stk)
         /\ \A i \in 1 .. Len(stk) : i # n => new[i] = stk[i]
<1>1. PICK S : stk \in Seq(RsFrame(S))
  BY DEF CellsOK
<1>2. /\ new \in Seq(RsFrame(S \union T))
      /\ Len(new) = Len(stk) /\ Len(stk) \in Nat
      /\ \A j \in 1 .. Len(stk) : new[j] = IF j = n THEN f ELSE stk[j]
  BY <1>1, FrameSet
<1>3. \A j \in 1 .. Len(stk) :
        new[j].rule = stk[j].rule /\ new[j].at = stk[j].at /\ new[j].node = stk[j].node
  BY <1>2
<1>4. new # <<>>
  BY <1>2
<1>5. CellsOK(new, len)
  <2>1. \A i \in 1 .. Len(new) : Level(new[i].rule) = i /\ new[i].node \in 1 .. len
    BY <1>2, <1>3 DEF CellsOK
  <2>2. \A i \in 1 .. Len(new) - 1 : new[i].at \in {"bc", "close"}
    BY <1>2, <1>3 DEF CellsOK
  <2>3. \A i, j \in 1 .. Len(new) :
          new[i].node = new[j].node /\ new[i].at # "bo" /\ new[j].at # "bo" =>
            Tier(new[i].rule) = Tier(new[j].rule)
    BY <1>2, <1>3 DEF CellsOK
  <2>4. QED
    BY <1>2, <1>4, <2>1, <2>2, <2>3 DEF CellsOK
<1>6. QED
  BY <1>2, <1>5

-----------------------------------------------------------------------------
(* The state.                                                              *)

LEMMA RsTop ==
  ASSUME RsInv
  PROVE  /\ Depth \in Nat \ {0} /\ Depth \in 1 .. Len(stack) /\ Len(heap) \in Nat
         /\ Top.rule \in Rules /\ Level(Top.rule) = Depth
         /\ Top.node \in 1 .. Len(heap)
         /\ \E S : Top \in RsFrame(S)
<1>1. PICK S : stack \in Seq(RsFrame(S))
  BY DEF RsInv, CellsOK
<1>2. PICK T : heap \in Seq(T)
  BY DEF RsInv, IsSequence
<1>3. Len(heap) \in Nat
  BY <1>2, LenProperties
<1>4. Depth \in Nat \ {0} /\ Depth \in 1 .. Len(stack)
  BY <1>1, EmptySeq, LenProperties DEF RsInv, CellsOK, Depth
<1>5. Top \in RsFrame(S)
  BY <1>1, <1>4, ElementOfSeq DEF Top
<1>6. Level(Top.rule) = Depth /\ Top.node \in 1 .. Len(heap)
  BY <1>4 DEF RsInv, CellsOK, Top
<1>7. Top.rule \in Rules
  BY <1>5 DEF RsFrame
<1>8. QED
  BY <1>3, <1>4, <1>5, <1>6, <1>7

LEMMA CellAdded ==
  ASSUME NEW cells, IsSequence(cells), NEW value
  PROVE  IsSequence(Append(cells, value)) /\ Len(Append(cells, value)) = Len(cells) + 1
<1>1. PICK S : cells \in Seq(S)
  BY DEF IsSequence
<1>2. cells \in Seq(S \union {value})
  BY <1>1, SeqMonotonic
<1>3. QED
  BY <1>2, AppendProperties DEF IsSequence

LEMMA CellWritten ==
  ASSUME NEW cells, IsSequence(cells), NEW k, NEW value
  PROVE  /\ IsSequence([cells EXCEPT ![k] = value])
         /\ Len([cells EXCEPT ![k] = value]) = Len(cells)
<1>1. PICK S : cells \in Seq(S)
  BY DEF IsSequence
<1>2. PICK n \in Nat : n = Len(cells) /\ cells \in [1 .. n -> S]
  BY <1>1, LenProperties
<1>3. [cells EXCEPT ![k] = value] \in [1 .. n -> S \union {value}]
  BY <1>2
<1>4. QED
  BY <1>2, <1>3, FunctionIsSeq DEF IsSequence

\* A callback leaves the running rule where it is, with its cell or a new one.
LEMMA TopMoves ==
  ASSUME RsInv, NEW T, NEW f \in RsFrame(T), f.rule = Top.rule,
         IsSequence(heap'), Len(heap') \in Nat,
         \/ f.node = Top.node /\ Top.at # "bo" /\ Len(heap') = Len(heap)
         \/ f.node = Len(heap) + 1 /\ Len(heap') = Len(heap) + 1,
         opts' = opts, stack' = [stack EXCEPT ![Depth] = f]
  PROVE  RsInv'
<1>1. PICK stk : stk = stack
  OBVIOUS
<1>2. PICK len \in Nat : len = Len(heap)
  BY RsTop
<1>3. PICK len2 \in Nat : len2 = Len(heap')
  OBVIOUS
<1>4. PICK top : top = Top
  OBVIOUS
<1>5. CellsOK(stk, len) /\ len <= len2 /\ Level(f.rule) = Len(stk) /\ f.node \in 1 .. len2
  BY <1>1, <1>2, <1>3, RsTop DEF RsInv, Depth
<1>6. /\ top = stk[Len(stk)]
      /\ \/ f.node > len
         \/ f.node = top.node /\ top.at # "bo" /\ Tier(f.rule) = Tier(top.rule)
  BY <1>1, <1>2, <1>4, RsTop DEF Top, Depth
<1>7. CellsOK([stk EXCEPT ![Len(stk)] = f], len2)
  BY <1>5, <1>6, TopSet
<1>8. CellsOK(stack', Len(heap'))
  BY <1>1, <1>3, <1>7 DEF Depth
<1>9. QED
  BY <1>8 DEF RsInv

-----------------------------------------------------------------------------
(* The callbacks.                                                          *)

LEMMA Assigned ==
  ASSUME RsInv, NEW value, NEW phase \in Phase, AssignNode(value, phase), opts' = opts
  PROVE  RsInv'
<1>1. PICK S : Top \in RsFrame(S)
  BY RsTop
<1>2. PICK f : f = [[Top EXCEPT !.node = Len(heap) + 1] EXCEPT !.at = phase]
  OBVIOUS
<1>3. f \in RsFrame(S) /\ f.rule = Top.rule /\ f.node = Len(heap) + 1
  <2>1. PICK node \in Nat : node = Len(heap) + 1
    BY RsTop
  <2>2. f = [[Top EXCEPT !.node = node] EXCEPT !.at = phase]
    BY <1>2, <2>1
  <2>3. f \in RsFrame(S) /\ f.rule = Top.rule /\ f.node = node
    BY <1>1, <2>1, <2>2 DEF RsFrame
  <2>4. QED
    BY <2>1, <2>3
<1>4. heap' = Append(heap, value) /\ stack' = [stack EXCEPT ![Depth] = f]
  BY <1>2 DEF AssignNode, SetNode, Advance
<1>5. IsSequence(heap') /\ Len(heap') = Len(heap) + 1 /\ Len(heap') \in Nat
  BY <1>4, CellAdded, RsTop DEF RsInv
<1>6. QED
  BY <1>3, <1>4, <1>5, TopMoves

LEMMA Stays ==
  ASSUME RsInv, Top.at # "bo", stack' = Advance(Top, "close"), opts' = opts,
         IsSequence(heap'), Len(heap') = Len(heap)
  PROVE  RsInv'
<1>1. PICK S : Top \in RsFrame(S)
  BY RsTop
<1>2. PICK f : f = [Top EXCEPT !.at = "close"]
  OBVIOUS
<1>3. f \in RsFrame(S) /\ f.rule = Top.rule /\ f.node = Top.node
  BY <1>1, <1>2 DEF RsFrame, Phase
<1>4. stack' = [stack EXCEPT ![Depth] = f]
  BY <1>2 DEF Advance
<1>5. Len(heap') \in Nat
  BY RsTop
<1>6. QED
  BY <1>3, <1>4, <1>5, TopMoves

LEMMA CallbacksKeep ==
  ASSUME RsInv,
         \/ RsCsvBO \/ RsListBO \/ RsValBO
         \/ RsTextBC \/ RsValBC \/ RsElemBC
         \/ RsRecordHeader \/ RsRecordRow
  PROVE  RsInv'
<1>1. CASE RsCsvBO \/ RsListBO \/ RsValBO
  BY <1>1, Assigned DEF RsCsvBO, RsListBO, RsValBO, Phase
<1>2. CASE RsTextBC
  <2>1. Top.at # "bo" /\ stack' = Advance(Top, "close") /\ opts' = opts
    BY <1>2 DEF RsTextBC, Running
  <2>2. IsSequence(heap') /\ Len(heap') = Len(heap)
    BY <1>2, CellWritten DEF RsTextBC, RsInv
  <2>3. QED
    BY <2>1, <2>2, Stays
<1>3. CASE RsValBC
  <2>1. Top.at # "bo" /\ opts' = opts
    BY <1>3 DEF RsValBC, Running
  <2>2. \/ \E value : AssignNode(value, "close")
        \/ heap' = heap /\ stack' = Advance(Top, "close")
    BY <1>3 DEF RsValBC
  <2>3. QED
    BY <2>1, <2>2, Assigned, Stays DEF RsInv, Phase
<1>4. CASE RsElemBC
  <2>1. Top.at # "bo" /\ stack' = Advance(Top, "close") /\ opts' = opts
    BY <1>4 DEF RsElemBC, Running
  <2>2. IsSequence(heap') /\ Len(heap') = Len(heap)
    BY <1>4, CellWritten DEF RsElemBC, RsInv, ListPush
  <2>3. QED
    BY <2>1, <2>2, Stays
<1>5. CASE RsRecordHeader
  <2>1. /\ Top.at # "bo" /\ stack' = Advance(Top, "close") /\ opts' = opts
        /\ heap' = heap
    BY <1>5 DEF RsRecordHeader, Running
  <2>2. QED
    BY <2>1, Stays DEF RsInv
<1>6. CASE RsRecordRow
  <2>1. Top.at # "bo" /\ stack' = Advance(Top, "close") /\ opts' = opts
    BY <1>6 DEF RsRecordRow, Running
  <2>2. heap' = heap \/ heap' = ListPush(Top.node, RsShaped)
    BY <1>6 DEF RsRecordRow
  <2>3. /\ IsSequence(ListPush(Top.node, RsShaped))
        /\ Len(ListPush(Top.node, RsShaped)) = Len(heap)
    BY CellWritten DEF ListPush, RsInv
  <2>4. IsSequence(heap') /\ Len(heap') = Len(heap)
    BY <2>2, <2>3 DEF RsInv
  <2>5. QED
    BY <2>1, <2>4, Stays
<1>7. QED
  BY <1>1, <1>2, <1>3, <1>4, <1>5, <1>6

-----------------------------------------------------------------------------
(* The alternates.                                                         *)

\* A text action gives the running rule a cell; no other does, and none moves
\* a rule.
LEMMA RsActedOK ==
  ASSUME RsInv, NEW alt, NEW acted, acted = RsActed(alt)
  PROVE  /\ \E T : acted.frame \in RsFrame(T)
         /\ acted.frame.rule = Top.rule /\ acted.frame.at = Top.at
         /\ IsSequence(acted.cells)
         /\ \/ acted.frame.node = Top.node /\ Len(acted.cells) = Len(heap)
            \/ acted.frame.node = Len(heap) + 1 /\ Len(acted.cells) = Len(heap) + 1
<1>1. PICK S : Top \in RsFrame(S)
  BY RsTop
<1>2. PICK n, o0, done : /\ n = Top.n + alt.n
                         /\ o0 = (IF alt.s = <<>> THEN NoToken ELSE Tok(1))
                         /\ done = (Top.done \/ alt.a = "elem-open-empty")
  OBVIOUS
<1>3. PICK T : T = S \union {n, o0, done}
  OBVIOUS
<1>4. PICK frame : frame = [Top EXCEPT !.n = n, !.o0 = o0, !.done = done]
  OBVIOUS
<1>5. /\ frame \in RsFrame(T)
      /\ frame.rule = Top.rule /\ frame.at = Top.at /\ frame.node = Top.node
  BY <1>1, <1>3, <1>4 DEF RsFrame
<1>6. frame = [Top EXCEPT !.n = @ + alt.n, !.o0 = IF alt.s = <<>> THEN NoToken ELSE Tok(1),
                          !.done = @ \/ alt.a = "elem-open-empty"]
  BY <1>2, <1>4
<1>7. acted = IF alt.a \in TextActions THEN AssignText(frame, alt.a)
              ELSE [cells |-> IF alt.a \in EmptyActions THEN ListPush(Top.node, EmptyCell) ELSE heap,
                    frame |-> frame]
  BY <1>6 DEF RsActed
<1>8. CASE alt.a \in TextActions
  <2>1. PICK text : text = Text((IF frame.n = 1 THEN <<>> ELSE TopNode.t)
                                  \o TextPiece(alt.a, frame.n))
    OBVIOUS
  <2>2. PICK mine : mine = [frame EXCEPT !.node = Len(heap) + 1]
    OBVIOUS
  <2>3. PICK cells : cells = Append(heap, text)
    OBVIOUS
  <2>4. PICK own : own = [cells |-> cells, frame |-> mine]
    OBVIOUS
  <2>5. acted = IF frame.n = 1 THEN own ELSE [own EXCEPT !.cells[Top.node] = text]
    BY <1>7, <1>8, <2>1, <2>2, <2>3, <2>4 DEF AssignText, SetNode
  <2>6. /\ acted.frame = mine
        /\ acted.cells = cells \/ acted.cells = [cells EXCEPT ![Top.node] = text]
    BY <2>4, <2>5
  <2>7. mine \in RsFrame(T) /\ mine.rule = Top.rule /\ mine.at = Top.at /\ mine.node = Len(heap) + 1
    BY <1>5, <2>2, RsTop DEF RsFrame
  <2>8. IsSequence(cells) /\ Len(cells) = Len(heap) + 1
    BY <2>3, CellAdded DEF RsInv
  <2>9. IsSequence([cells EXCEPT ![Top.node] = text]) /\ Len([cells EXCEPT ![Top.node] = text]) = Len(cells)
    BY <2>8, CellWritten
  <2>10. IsSequence(acted.cells) /\ Len(acted.cells) = Len(cells)
    BY <2>6, <2>8, <2>9
  <2>11. QED
    BY <2>6, <2>7, <2>8, <2>10
<1>9. CASE alt.a \notin TextActions
  <2>1. /\ acted.frame = frame
        /\ acted.cells = heap \/ acted.cells = ListPush(Top.node, EmptyCell)
    BY <1>7, <1>9
  <2>2. /\ IsSequence(ListPush(Top.node, EmptyCell))
        /\ Len(ListPush(Top.node, EmptyCell)) = Len(heap)
    BY CellWritten DEF ListPush, RsInv
  <2>3. IsSequence(acted.cells) /\ Len(acted.cells) = Len(heap)
    BY <2>1, <2>2 DEF RsInv
  <2>4. QED
    BY <1>5, <2>1, <2>3
<1>10. QED
  BY <1>8, <1>9

LEMMA NewFrameOK ==
  ASSUME NEW rule \in Rules, NEW cell \in Nat, NEW count, NEW isChild,
         NEW f, f = NewFrame(rule, cell, count, isChild)
  PROVE  /\ \E T : f \in RsFrame(T)
         /\ f.rule = rule /\ f.node = cell /\ f.at = FirstPhase(rule)
<1>1. f \in RsFrame({Undef, count, FALSE, NoToken, isChild})
  BY DEF NewFrame, RsFrame, FirstPhase, Phase
<1>2. QED
  BY <1>1 DEF NewFrame

LEMMA LeftOK ==
  ASSUME RsInv, NEW acted, NEW left, left = RsLeft(acted)
  PROVE  CellsOK(left, Len(heap)) /\ Len(left) = Len(stack) /\ left[Depth] = Top
<1>1. CASE left = stack
  BY <1>1, RsTop DEF RsInv, Top
<1>2. CASE left # stack
  <2>1. /\ Depth > 1
        /\ left = [stack EXCEPT ![Depth - 1].kid = acted.cells[acted.frame.node]]
    BY <1>2 DEF RsLeft
  <2>2. PICK below \in 1 .. Len(stack) : below = Depth - 1
    BY <2>1, RsTop DEF Depth
  <2>3. PICK len \in Nat : len = Len(heap)
    BY RsTop
  <2>4. left = [stack EXCEPT ![below].kid = acted.cells[acted.frame.node]]
    BY <2>1, <2>2
  <2>5. PICK stk, value : stk = stack /\ value = acted.cells[acted.frame.node]
    OBVIOUS
  <2>6. /\ CellsOK(left, len) /\ Len(left) = Len(stack)
        /\ \A i \in 1 .. Len(stack) : i # below => left[i] = stack[i]
    <3>1. CellsOK(stk, len) /\ below \in 1 .. Len(stk)
      BY <2>2, <2>3, <2>5 DEF RsInv
    <3>2. PICK old, f, new : /\ old = stk[below]
                             /\ f = [old EXCEPT !.kid = value]
                             /\ new = [stk EXCEPT ![below] = f]
      OBVIOUS
    <3>3. /\ CellsOK(new, len) /\ Len(new) = Len(stk)
          /\ \A i \in 1 .. Len(stk) : i # below => new[i] = stk[i]
      <4>1. PICK S : stk \in Seq(RsFrame(S))
        BY <3>1 DEF CellsOK
      <4>2. old \in RsFrame(S)
        BY <3>1, <3>2, <4>1, ElementOfSeq
      <4>3. PICK T : T = S \union {value}
        OBVIOUS
      <4>4. /\ f \in RsFrame(T)
            /\ f.rule = old.rule /\ f.at = old.at /\ f.node = old.node
        BY <3>2, <4>2, <4>3 DEF RsFrame
      <4>5. /\ f.rule = stk[below].rule /\ f.at = stk[below].at /\ f.node = stk[below].node
            /\ new = [stk EXCEPT ![below] = f]
        BY <3>2, <4>4
      <4>6. CellsOK(stk, len) /\ len \in Nat /\ below \in 1 .. Len(stk)
        BY <2>3, <3>1
      <4>7. f \in RsFrame(T)
        BY <4>4
      <4>8. CellsOK(new, len)
        BY <4>5, <4>6, <4>7, KidSet
      <4>9. Len(new) = Len(stk)
        BY <4>5, <4>6, <4>7, KidSet
      <4>10. \A i \in 1 .. Len(stk) : i # below => new[i] = stk[i]
        BY <4>5, <4>6, <4>7, KidSet
      <4>11. QED
        BY <4>8, <4>9, <4>10
    <3>4. new = [stk EXCEPT ![below].kid = value]
      BY <3>2
    <3>5. QED
      BY <2>4, <2>5, <3>3, <3>4
  <2>7. Depth # below /\ Depth \in 1 .. Len(stack)
    BY <2>2, RsTop
  <2>8. QED
    BY <2>3, <2>6, <2>7 DEF Top
<1>3. QED
  BY <1>1, <1>2

\* The running rule after its action, in the phase that follows.
LEMMA ActedStays ==
  ASSUME RsInv, Top.at # "bo", NEW alt, NEW acted, acted = RsActed(alt), NEW phase \in Phase,
         NEW f, f = [acted.frame EXCEPT !.at = phase]
  PROVE  /\ CellsOK([stack EXCEPT ![Depth] = f], Len(acted.cells))
         /\ Len([stack EXCEPT ![Depth] = f]) = Depth
         /\ [stack EXCEPT ![Depth] = f][Depth] = f
         /\ f.rule = Top.rule /\ f.at = phase /\ f.node = acted.frame.node
         /\ f.node \in 1 .. Len(acted.cells) /\ Len(acted.cells) \in Nat
<1>1. PICK T : acted.frame \in RsFrame(T)
  BY RsActedOK
<1>2. /\ acted.frame.rule = Top.rule
      /\ \/ acted.frame.node = Top.node /\ Len(acted.cells) = Len(heap)
         \/ acted.frame.node = Len(heap) + 1 /\ Len(acted.cells) = Len(heap) + 1
  BY RsActedOK
<1>3. /\ f \in RsFrame(T) /\ f.rule = Top.rule /\ f.at = phase
      /\ f.node = acted.frame.node
  BY <1>1, <1>2 DEF RsFrame
<1>4. PICK len \in Nat, len2 \in Nat : len = Len(heap) /\ len2 = Len(acted.cells)
  BY <1>2, RsTop
<1>5. PICK stk, top : stk = stack /\ top = Top
  OBVIOUS
<1>6. CellsOK(stk, len) /\ top = stk[Len(stk)] /\ Level(f.rule) = Len(stk)
  BY <1>3, <1>4, <1>5, RsTop DEF RsInv, Top, Depth
<1>7. len <= len2 /\ f.node \in 1 .. len2
  BY <1>2, <1>3, <1>4, RsTop
<1>8. \/ f.node > len
      \/ f.node = top.node /\ top.at # "bo" /\ Tier(f.rule) = Tier(top.rule)
  BY <1>2, <1>3, <1>4, <1>5
<1>9. CellsOK([stk EXCEPT ![Len(stk)] = f], len2)
  BY <1>3, <1>6, <1>7, <1>8, TopSet
<1>10. PICK S : stk \in Seq(RsFrame(S))
  BY <1>5 DEF RsInv, CellsOK
<1>11. PICK d \in 1 .. Len(stk) : d = Depth
  BY <1>5, RsTop
<1>12. PICK new : new = [stk EXCEPT ![d] = f]
  OBVIOUS
<1>13. Len(new) = Len(stk) /\ new[d] = f
  BY <1>3, <1>10, <1>11, <1>12, FrameSet
<1>14. QED
  BY <1>3, <1>4, <1>5, <1>7, <1>9, <1>11, <1>12, <1>13 DEF Depth

LEMMA CellPlace ==
  ASSUME NEW len \in Nat, NEW cell \in 1 .. len, NEW len2, NEW node,
         (node = cell /\ len2 = len) \/ (node = len + 1 /\ len2 = len + 1)
  PROVE  /\ len2 \in Nat /\ node \in Nat /\ len <= len2 /\ node \in 1 .. len2
         /\ node > len \/ node = cell
OBVIOUS

\* A rule that takes the running one's place stands where it stood, and takes
\* over its cell.
LEMMA ReplacedKeeps ==
  ASSUME RsInv, Top.at # "bo", NEW alt, AltOK(Top.rule, alt), alt.r # "",
         NEW acted, acted = RsActed(alt)
  PROVE  CellsOK(RsReplaced(alt, acted), Len(acted.cells))
<1>1. alt.r \in Rules /\ Level(alt.r) = Level(Top.rule)
  BY DEF AltOK
<1>2. PICK left : left = RsLeft(acted)
  OBVIOUS
<1>3. CellsOK(left, Len(heap)) /\ Len(left) = Len(stack) /\ left[Depth] = Top
  BY <1>2, LeftOK
<1>4. \/ acted.frame.node = Top.node /\ Len(acted.cells) = Len(heap)
      \/ acted.frame.node = Len(heap) + 1 /\ Len(acted.cells) = Len(heap) + 1
  BY RsActedOK
<1>5. PICK len, len2, cell :
        len = Len(heap) /\ len2 = Len(acted.cells) /\ cell = acted.frame.node
  OBVIOUS
<1>6. /\ len \in Nat /\ len2 \in Nat /\ cell \in Nat /\ len <= len2 /\ cell \in 1 .. len2
      /\ cell > len \/ cell = Top.node
  <2>1. PICK old : old = Top.node
    OBVIOUS
  <2>2. len \in Nat /\ old \in 1 .. len
    BY <1>5, <2>1, RsTop
  <2>3. (cell = old /\ len2 = len) \/ (cell = len + 1 /\ len2 = len + 1)
    BY <1>4, <1>5, <2>1
  <2>4. /\ len2 \in Nat /\ cell \in Nat /\ len <= len2 /\ cell \in 1 .. len2
        /\ cell > len \/ cell = old
    BY <2>2, <2>3, CellPlace
  <2>5. QED
    BY <2>1, <2>2, <2>4
<1>7. PICK f, count, isChild : /\ f = NewFrame(alt.r, cell, count, isChild)
                               /\ count = acted.frame.n /\ isChild = FALSE
  OBVIOUS
<1>8. PICK T : f \in RsFrame(T)
  BY <1>1, <1>6, <1>7, NewFrameOK
<1>9. f.rule = alt.r /\ f.node = cell
  BY <1>7 DEF NewFrame
<1>10. PICK top : top = Top
  OBVIOUS
<1>11. top = left[Len(left)] /\ Level(f.rule) = Len(left)
  BY <1>1, <1>3, <1>9, <1>10, RsTop DEF Depth
<1>12. len <= len2 /\ f.node \in 1 .. len2
  BY <1>6, <1>9
<1>13. Tier(alt.r) = Tier(Top.rule)
  BY <1>1, RsTop, TierBeside
<1>14. \/ f.node > len
       \/ f.node = top.node /\ top.at # "bo" /\ Tier(f.rule) = Tier(top.rule)
  BY <1>6, <1>9, <1>10, <1>13
<1>15. CellsOK(left, len)
  BY <1>3, <1>5
<1>16. CellsOK([left EXCEPT ![Len(left)] = f], len2)
  BY <1>6, <1>8, <1>11, <1>12, <1>14, <1>15, TopSet
<1>17. QED
  BY <1>2, <1>3, <1>5, <1>7, <1>16 DEF RsReplaced, Depth

LEMMA AltsTyped ==
  ASSUME RsInv, NEW alt, alt \in AltsOf(TopOpenAlts) \union AltsOf(TopCloseAlts)
  PROVE  AltOK(Top.rule, alt)
<1>1. opts.empty \in BOOLEAN /\ Top.rule \in Rules
  BY RsTop DEF RsInv
<1>2. QED
  BY <1>1, AltTypes DEF TopOpenAlts, TopCloseAlts

LEMMA PushKeeps ==
  ASSUME RsInv, Top.at # "bo", NEW alt, alt.p \in Rules, Level(alt.p) = Level(Top.rule) + 1,
         NEW acted, acted = RsActed(alt),
         NEW phase \in Phase, phase \notin {"bo", "open"}
  PROVE  CellsOK([stack EXCEPT ![Depth] = [acted.frame EXCEPT !.at = phase]]
                   \o <<NewFrame(alt.p, acted.frame.node, acted.frame.n, TRUE)>>,
                 Len(acted.cells))
<1>1. PICK f, stk : /\ f = [acted.frame EXCEPT !.at = phase]
                    /\ stk = [stack EXCEPT ![Depth] = f]
  OBVIOUS
<1>2. /\ CellsOK(stk, Len(acted.cells)) /\ Len(stk) = Depth /\ stk[Depth] = f
      /\ f.rule = Top.rule /\ f.at = phase /\ f.node = acted.frame.node
      /\ f.node \in 1 .. Len(acted.cells) /\ Len(acted.cells) \in Nat
  <2>1. f = [acted.frame EXCEPT !.at = phase]
    BY <1>1
  <2>2. CellsOK(stk, Len(acted.cells))
    BY <1>1, ActedStays
  <2>3. Len(stk) = Depth
    BY <1>1, ActedStays
  <2>4. stk[Depth] = f
    BY <1>1, ActedStays
  <2>5. f.rule = Top.rule /\ f.at = phase /\ f.node = acted.frame.node
    <3>1. PICK T : acted.frame \in RsFrame(T)
      BY RsActedOK
    <3>2. acted.frame.rule = Top.rule
      BY RsActedOK
    <3>3. QED
      BY <2>1, <3>1, <3>2 DEF RsFrame
  <2>6. f.node \in 1 .. Len(acted.cells) /\ Len(acted.cells) \in Nat
    BY <2>1, ActedStays
  <2>7. QED
    BY <2>2, <2>3, <2>4, <2>5, <2>6
<1>3. PICK len, cell, count, isChild :
        /\ len = Len(acted.cells) /\ cell = acted.frame.node
        /\ count = acted.frame.n /\ isChild = TRUE
  OBVIOUS
<1>4. PICK child : child = NewFrame(alt.p, cell, count, isChild)
  OBVIOUS
<1>5. /\ alt.p \in Rules /\ Level(alt.p) = Level(Top.rule) + 1
      /\ Top.rule \in Rules /\ Level(Top.rule) = Depth
  BY RsTop
<1>6. len \in Nat /\ cell \in 1 .. len /\ cell \in Nat
  <2>1. cell = f.node
    BY <1>2, <1>3
  <2>2. len \in Nat /\ cell \in 1 .. len
    BY <1>2, <1>3, <2>1
  <2>3. QED
    BY <2>2
<1>7. PICK T : child \in RsFrame(T)
  <2>1. alt.p \in Rules /\ cell \in Nat
    BY <1>5, <1>6
  <2>2. QED
    BY <1>4, <2>1, NewFrameOK
<1>8. child.rule = alt.p /\ child.node = cell /\ child.at = FirstPhase(alt.p)
  BY <1>4 DEF NewFrame
<1>9. CellsOK(stk, len) /\ f = stk[Len(stk)] /\ f.at \in {"bc", "close"}
  BY <1>2, <1>3 DEF Phase
<1>10. Level(child.rule) = Len(stk) + 1 /\ child.node = f.node
  BY <1>2, <1>3, <1>5, <1>8
<1>11. child.at = "bo" \/ Tier(child.rule) = Tier(f.rule)
  BY <1>2, <1>5, <1>8, TierBelow
<1>12. CellsOK(Append(stk, child), len)
  BY <1>6, <1>7, <1>9, <1>10, <1>11, Pushed
<1>13. Append(stk, child) = stk \o <<child>>
  <2>1. PICK S : stk \in Seq(RsFrame(S))
    BY <1>9 DEF CellsOK
  <2>2. stk \in Seq(RsFrame(S \union T)) /\ child \in RsFrame(S \union T)
    BY <1>7, <2>1, FramesWider
  <2>3. QED
    BY <2>2, AppendIsConcat
<1>14. QED
  BY <1>1, <1>3, <1>4, <1>12, <1>13

LEMMA StayKeeps ==
  ASSUME RsInv, Top.at # "bo", NEW alt, NEW acted, acted = RsActed(alt), NEW phase \in Phase
  PROVE  CellsOK([stack EXCEPT ![Depth] = [acted.frame EXCEPT !.at = phase]] \o <<>>,
                 Len(acted.cells))
<1>1. PICK f, stk : /\ f = [acted.frame EXCEPT !.at = phase]
                    /\ stk = [stack EXCEPT ![Depth] = f]
  OBVIOUS
<1>2. CellsOK(stk, Len(acted.cells))
  BY <1>1, ActedStays
<1>3. PICK S : stk \in Seq(RsFrame(S))
  BY <1>2 DEF CellsOK
<1>4. stk \o <<>> = stk
  BY <1>3, ConcatEmptySeq
<1>5. QED
  BY <1>1, <1>2, <1>4

LEMMA PopKeeps ==
  ASSUME RsInv, Depth > 1, Top.at # "bo", NEW alt, NEW acted, acted = RsActed(alt)
  PROVE  CellsOK(SubSeq(RsLeft(acted), 1, Depth - 1), Len(acted.cells))
<1>1. PICK left, len : left = RsLeft(acted) /\ len = Len(heap)
  OBVIOUS
<1>2. CellsOK(left, len) /\ Len(left) = Depth /\ len \in Nat
  BY <1>1, LeftOK, RsTop DEF Depth
<1>3. CellsOK(SubSeq(left, 1, Len(left) - 1), len)
  BY <1>2, Popped
<1>4. PICK len2 : len2 = Len(acted.cells)
  OBVIOUS
<1>5. len2 \in Nat /\ len <= len2
  <2>1. len2 = len \/ len2 = len + 1
    BY <1>1, <1>4, RsActedOK
  <2>2. QED
    BY <1>2, <2>1
<1>6. PICK stk : stk = SubSeq(left, 1, Len(left) - 1)
  OBVIOUS
<1>7. CellsOK(stk, len)
  BY <1>3, <1>6
<1>8. \A i \in 1 .. Len(stk) : stk[i].node \in 1 .. len2
  BY <1>2, <1>5, <1>7 DEF CellsOK
<1>9. CellsOK(stk, len2)
  BY <1>7, <1>8 DEF CellsOK
<1>10. QED
  BY <1>1, <1>2, <1>4, <1>6, <1>9

LEMMA Taken ==
  ASSUME RsInv, NEW alt, NEW acted, acted = RsActed(alt), RsTake(alt),
         CellsOK(stack', Len(acted.cells))
  PROVE  RsInv'
<1>1. heap' = acted.cells /\ opts' = opts
  BY DEF RsTake
<1>2. IsSequence(acted.cells)
  BY RsActedOK
<1>3. QED
  BY <1>1, <1>2 DEF RsInv

LEMMA OpenKeeps ==
  ASSUME RsInv, RsOpen
  PROVE  RsInv'
<1>1. Top.at # "bo"
  BY DEF RsOpen, Running
<1>2. PICK alt \in AltsOf(TopOpenAlts) :
        /\ RsTake(alt)
        /\ stack' =
             IF alt.r # "" THEN RsReplaced(alt, RsActed(alt))
             ELSE [stack EXCEPT ![Depth] = [RsActed(alt).frame EXCEPT !.at = AfterOpen(Top.rule)]]
                    \o (IF alt.p = "" THEN <<>>
                        ELSE <<NewFrame(alt.p, RsActed(alt).frame.node, RsActed(alt).frame.n, TRUE)>>)
  BY DEF RsOpen
<1>3. AltOK(Top.rule, alt)
  BY AltsTyped
<1>4. PICK acted : acted = RsActed(alt)
  OBVIOUS
<1>5. PICK phase \in Phase : phase = AfterOpen(Top.rule) /\ phase \notin {"bo", "open"}
  BY DEF AfterOpen, Phase
<1>6. CASE alt.r # ""
  <2>1. CellsOK(RsReplaced(alt, acted), Len(acted.cells))
    BY <1>1, <1>3, <1>4, <1>6, ReplacedKeeps
  <2>2. QED
    BY <1>2, <1>4, <1>6, <2>1, Taken
<1>7. CASE alt.r = "" /\ alt.p # ""
  <2>1. CellsOK([stack EXCEPT ![Depth] = [acted.frame EXCEPT !.at = phase]]
                  \o <<NewFrame(alt.p, acted.frame.node, acted.frame.n, TRUE)>>, Len(acted.cells))
    <3>1. alt.p \in Rules /\ Level(alt.p) = Level(Top.rule) + 1
      BY <1>3, <1>7 DEF AltOK
    <3>2. QED
      BY <1>1, <1>4, <1>5, <3>1, PushKeeps
  <2>2. QED
    BY <1>2, <1>4, <1>5, <1>7, <2>1, Taken
<1>8. CASE alt.r = "" /\ alt.p = ""
  <2>1. CellsOK([stack EXCEPT ![Depth] = [acted.frame EXCEPT !.at = phase]] \o <<>>,
                Len(acted.cells))
    BY <1>1, <1>4, <1>5, StayKeeps
  <2>2. QED
    BY <1>2, <1>4, <1>5, <1>8, <2>1, Taken
<1>9. QED
  BY <1>6, <1>7, <1>8

LEMMA CloseKeeps ==
  ASSUME RsInv, RsClose
  PROVE  RsInv'
<1>1. Top.at # "bo" /\ Depth > 1
  BY DEF RsClose, Running
<1>2. PICK alt \in AltsOf(TopCloseAlts) :
        /\ RsTake(alt)
        /\ stack' = IF alt.r # "" THEN RsReplaced(alt, RsActed(alt))
                                  ELSE SubSeq(RsLeft(RsActed(alt)), 1, Depth - 1)
  BY DEF RsClose
<1>3. AltOK(Top.rule, alt)
  BY AltsTyped
<1>4. PICK acted : acted = RsActed(alt)
  OBVIOUS
<1>5. CASE alt.r # ""
  <2>1. CellsOK(RsReplaced(alt, acted), Len(acted.cells))
    BY <1>1, <1>3, <1>4, <1>5, ReplacedKeeps
  <2>2. QED
    BY <1>2, <1>4, <1>5, <2>1, Taken
<1>6. CASE alt.r = ""
  <2>1. CellsOK(SubSeq(RsLeft(acted), 1, Depth - 1), Len(acted.cells))
    BY <1>1, <1>4, PopKeeps
  <2>2. QED
    BY <1>2, <1>4, <1>6, <2>1, Taken
<1>7. QED
  BY <1>5, <1>6

-----------------------------------------------------------------------------
(* The theorem.                                                            *)

LEMMA RsInitInv ==
  ASSUME RsInit
  PROVE  RsInv
<1>1. opts.empty \in BOOLEAN
  BY InputAssumption DEF RsInit, Options
<1>2. PICK f, cell, count, isChild : /\ f = NewFrame("csv", cell, count, isChild)
                                     /\ cell = 1 /\ count = 0 /\ isChild = FALSE
  OBVIOUS
<1>3. stack = <<f>> /\ heap = <<Undef>>
  BY <1>2 DEF RsInit
<1>4. "csv" \in Rules /\ Level("csv") = 1 /\ cell \in Nat
  BY <1>2 DEF Rules, Level
<1>5. PICK T : f \in RsFrame(T)
  BY <1>2, <1>4, NewFrameOK
<1>6. f.rule = "csv" /\ f.node = 1
  BY <1>2 DEF NewFrame
<1>7. stack \in Seq(RsFrame(T)) /\ Len(stack) = 1 /\ stack[1] = f /\ stack # <<>>
  BY <1>3, <1>5
<1>8. heap \in Seq({Undef}) /\ Len(heap) = 1
  BY <1>3
<1>9. CellsOK(stack, 1)
  BY <1>4, <1>6, <1>7 DEF CellsOK
<1>10. QED
  BY <1>1, <1>8, <1>9 DEF RsInv, IsSequence

LEMMA RsStepInv ==
  ASSUME RsInv, [RsStep \/ Returned]_vars
  PROVE  RsInv'
<1>1. CASE RsRecordRefused \/ CsvClose \/ Unexpected \/ Returned \/ UNCHANGED vars
  <2>1. opts' = opts /\ stack' = stack /\ heap' = heap
    BY <1>1 DEF RsRecordRefused, CsvClose, Unexpected, Fail, Returned, vars
  <2>2. QED
    BY <2>1 DEF RsInv
<1>2. QED
  BY <1>1, CallbacksKeep, OpenKeeps, CloseKeeps DEF RsStep

LEMMA RsInvariance == RsSpec => []RsInv
<1>1. RsInit => RsInv
  BY RsInitInv
<1>2. RsInv /\ [RsStep \/ Returned]_vars => RsInv'
  BY RsStepInv
<1>3. QED
  BY <1>1, <1>2, PTL DEF RsSpec

\* No rule of the Rust port's parse shares its node cell with a rule that holds
\* another kind of thing, but while it waits to be given its own: so nothing
\* that is written through a shared cell - a cell of a line, a record, a text -
\* reaches the document, the line or the field above it (rs/src/lib.rs:388-397).
THEOREM CellsApart == RsSpec => []CellsSharedInLevel
<1>1. RsInv => CellsSharedInLevel
  <2>1. SUFFICES ASSUME RsInv PROVE CellsSharedInLevel
    OBVIOUS
  <2>2. DOMAIN stack = 1 .. Len(stack)
    BY <2>1, LenProperties DEF RsInv, CellsOK
  <2>3. QED
    BY <2>1, <2>2 DEF RsInv, CellsOK, CellsSharedInLevel
<1>2. QED
  BY <1>1, RsInvariance, PTL
=============================================================================
