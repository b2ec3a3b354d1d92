-------------------------- MODULE ValueWalkProofs ---------------------------
(***************************************************************************)
(* Theorems about ValueWalk, for every value and either walk.              *)
(***************************************************************************)
EXTENDS ValueWalk, TLAPS

-----------------------------------------------------------------------------
(* What lies below a part.                                                 *)

(* A part's own parts are parts of the value. *)
LEMMA PartsType ==
  ASSUME value \in Value, NEW n \in Nodes
  PROVE  Parts(n) \in Seq(Nodes)
  BY DEF Parts, Value

(* A part's own parts lie below it. *)
LEMMA PartBelow ==
  ASSUME value \in Value, NEW n \in Nodes, NEW i \in DOMAIN Parts(n)
  PROVE  Parts(n)[i] \in Nodes /\ Parts(n)[i] \in Below(n)
<1>1. Parts(n)[i] \in Nodes
  BY PartsType
<1> QED
  BY <1>1 DEF Below, Holds

(* What lies directly below what lies below a part lies below it. *)
LEMMA BelowFurther ==
  ASSUME value \in Value, NEW n \in Nodes, NEW m \in Below(n),
         NEW i \in DOMAIN Parts(m)
  PROVE  Parts(m)[i] \in Below(n)
<1>1. m \in Nodes
  BY DEF Below
<1>2. Parts(m)[i] \in Nodes
  BY <1>1, PartBelow
<1>3. ASSUME NEW S \in SUBSET Nodes, Holds(S, n), IsClosed(S)
      PROVE  Parts(m)[i] \in S
  <2>1. m \in S
    BY <1>3 DEF Below
  <2> QED
    BY <1>3, <2>1 DEF IsClosed
<1> QED
  BY <1>2, <1>3 DEF Below

(* What lies below a part lies in every closed set that holds its parts. *)
LEMMA BelowLeast ==
  ASSUME NEW n \in Nodes, NEW S \in SUBSET Nodes, Holds(S, n), IsClosed(S)
  PROVE  Below(n) \subseteq S
  BY DEF Below

(* The same value has the same parts. *)
LEMMA Unmoved ==
  ASSUME UNCHANGED value
  PROVE  /\ Walker' = Walker
         /\ \A n : Kind(n)' = Kind(n) /\ Parts(n)' = Parts(n)
         /\ \A n : IsTracked(n)' = IsTracked(n) /\ IsCorrupt(n)' = IsCorrupt(n)
         /\ \A n : Below(n)' = Below(n)
         /\ Reached' = Reached /\ Cyclic' = Cyclic
         /\ \A S : IsClosed(S)' = IsClosed(S)
<1>1. (\A n : Kind(n)' = Kind(n)) /\ Walker' = Walker
  BY DEF Kind, Walker
<1>2. \A n : Parts(n)' = Parts(n)
  BY <1>1 DEF Parts, Walked
<1>3. \A n : IsTracked(n)' = IsTracked(n) /\ IsCorrupt(n)' = IsCorrupt(n)
  BY <1>1 DEF IsTracked, IsCorrupt
<1>4. \A S : IsClosed(S)' = IsClosed(S)
  BY <1>2 DEF IsClosed
<1>5. \A S, n : Holds(S, n)' = Holds(S, n)
  BY <1>2 DEF Holds
<1>6. \A n : Below(n)' = Below(n)
  BY <1>4, <1>5 DEF Below
<1>7. Reached' = Reached
  BY <1>6 DEF Reached
<1>8. Cyclic' = Cyclic
  BY <1>6, <1>7 DEF Cyclic
<1> QED
  BY <1>1, <1>2, <1>3, <1>4, <1>6, <1>7, <1>8

-----------------------------------------------------------------------------
(* The invariant.                                                          *)

\* The calls: each looks at a part that can be reached, the first at the root.
CallsOK ==
  /\ stack \in Seq([node : Nodes, left : SUBSET Nat])
  /\ answer = "walking" => stack # <<>>
  /\ \A i \in DOMAIN stack : stack[i].node \in Reached
  /\ \A i \in DOMAIN stack : answer \notin Corrupt => ~IsCorrupt(stack[i].node)
  /\ stack # <<>> => stack[1].node = value.root

\* A call looks at a part below those the calls before it look at.
Nested == \A i, j \in DOMAIN stack : i < j => stack[j].node \in Below(stack[i].node)

\* What a call has been past is done, but for the part the next call is at.
PassedOK ==
  \A i \in DOMAIN stack : \A k \in DOMAIN Parts(stack[i].node) \ stack[i].left :
    \/ Parts(stack[i].node)[k] \in done
    \/ i < Len(stack) /\ Parts(stack[i].node)[k] = stack[i + 1].node

\* The path holds containers that calls are under way for.
PathOK == \A n \in path : IsTracked(n) /\ \E i \in DOMAIN stack : stack[i].node = n

\* What is done has all its parts done, does not contain itself, and is sound.
DoneOK ==
  /\ done \in SUBSET Nodes
  /\ IsClosed(done)
  /\ \A n \in done : n \notin Below(n) /\ ~IsCorrupt(n)

\* The objects are those that were met.
IsTagged(n) == Kind(n) = "object" /\ Walker = "options"

ObjectsOK ==
  /\ objects \subseteq {n \in Reached : IsTagged(n)}
  /\ \A n \in done : IsTagged(n) => n \in objects
  /\ \A i \in DOMAIN stack : IsTagged(stack[i].node) => stack[i].node \in objects

Verdicts ==
  /\ answer \in {"walking", "ok", "cycle"} \union Corrupt
  /\ answer = "cycle" => Cyclic
  /\ answer = "ok" => value.root \in done
  /\ answer \in Corrupt => \E n \in Reached : Kind(n) = answer

Inv ==
  /\ value \in Values
  /\ CallsOK /\ Nested /\ PassedOK /\ PathOK /\ DoneOK /\ ObjectsOK /\ Verdicts

-----------------------------------------------------------------------------

LEMMA ReachedType ==
  ASSUME value \in Values
  PROVE  value \in Value /\ value.root \in Nodes /\ Reached \subseteq Nodes
  BY WalkAssumption DEF Value, Reached, Below

(* The initial states satisfy the invariant. *)
LEMMA InitInv == Init => Inv
<1> SUFFICES ASSUME Init PROVE Inv
  OBVIOUS
<1>1. value \in Value /\ value.root \in Nodes /\ Reached \subseteq Nodes
  BY ReachedType DEF Init
<1> DEFINE root == value.root
<1>2. Parts(root) \in Seq(Nodes)
  BY <1>1, PartsType
<1>3. /\ DOMAIN stack = {1} /\ Len(stack) = 1 /\ stack # <<>>
      /\ stack[1].node = root /\ stack[1].left = DOMAIN Parts(root)
  BY DEF Init, Call
<1>4. stack \in Seq([node : Nodes, left : SUBSET Nat])
  BY <1>1, <1>2 DEF Init, Call
<1>5. root \in Reached
  BY DEF Reached
<1>6. answer \notin Corrupt => ~IsCorrupt(root)
  BY DEF Init, IsCorrupt
<1>7. CallsOK
  BY <1>3, <1>4, <1>5, <1>6 DEF CallsOK
<1>8. Nested /\ PassedOK
  BY <1>3 DEF Nested, PassedOK
<1>9. PathOK
  BY <1>3 DEF Init, PathOK, Tracking
<1>10. DoneOK
  BY DEF Init, DoneOK, IsClosed
<1>11. ObjectsOK
  BY <1>3, <1>5 DEF Init, ObjectsOK, Tagging, IsTagged
<1>12. Verdicts
  BY <1>5 DEF Init, Verdicts, IsCorrupt, Corrupt
<1> QED
  BY <1>7, <1>8, <1>9, <1>10, <1>11, <1>12 DEF Init, Inv

(* While the walk is under way there is a call on top. *)
LEMMA TopCall ==
  ASSUME Inv, Walking
  PROVE  /\ Depth \in Nat \ {0} /\ DOMAIN stack = 1 .. Depth
         /\ Depth \in DOMAIN stack
         /\ Top \in [node : Nodes, left : SUBSET Nat]
<1> DEFINE Calls == [node : Nodes, left : SUBSET Nat]
<1>1. stack \in Seq(Calls) /\ stack # <<>>
  BY DEF Inv, CallsOK, Walking
<1> HIDE DEF Calls
<1>2. Len(stack) \in Nat \ {0} /\ DOMAIN stack = 1 .. Len(stack)
  BY <1>1
<1>3. stack[Len(stack)] \in Calls
  BY <1>1, <1>2
<1> QED
  BY <1>2, <1>3 DEF Calls, Depth, Top

(* What a step that meets a part knows of it: it lies below every part that *)
(* a call is under way for, and can be reached.                             *)
LEMMA PartMet ==
  ASSUME Inv, Walking, NEW i \in DOMAIN Parts(Top.node)
  PROVE  /\ Depth \in DOMAIN stack /\ Top \in [node : Nodes, left : SUBSET Nat]
         /\ Part(i) \in Nodes /\ Part(i) \in Reached
         /\ \A j \in DOMAIN stack : Part(i) \in Below(stack[j].node)
<1>1. value \in Value /\ value.root \in Nodes /\ Reached \subseteq Nodes
  BY ReachedType DEF Inv
<1>2. Depth \in DOMAIN stack /\ Top \in [node : Nodes, left : SUBSET Nat]
  BY TopCall
<1>3. Part(i) \in Nodes /\ Part(i) \in Below(Top.node)
  BY <1>1, <1>2, PartBelow DEF Part
<1>4. ASSUME NEW j \in DOMAIN stack
      PROVE  Part(i) \in Below(stack[j].node)
  <2>1. CASE j = Depth
    BY <1>3, <2>1 DEF Top
  <2>2. CASE j # Depth
    <3>1. Top.node \in Below(stack[j].node)
      BY <1>2, <2>2 DEF Inv, CallsOK, Nested, Depth, Top
    <3>2. stack[j].node \in Nodes
      BY <1>1 DEF Inv, CallsOK
    <3> QED
      BY <1>1, <3>1, <3>2, BelowFurther DEF Part
  <2> QED
    BY <2>1, <2>2
<1>5. Part(i) \in Reached
  <2>1. 1 \in DOMAIN stack /\ stack[1].node = value.root
    BY <1>2 DEF Inv, CallsOK, Depth
  <2> QED
    BY <1>4, <2>1 DEF Reached
<1> QED
  BY <1>2, <1>3, <1>4, <1>5

LEMMA MeetCycleInv == Inv /\ MeetCycle => Inv'
<1> SUFFICES ASSUME Inv, MeetCycle PROVE Inv'
  OBVIOUS
<1>1. PICK i \in DOMAIN Parts(Top.node) : OnPath(Part(i))
  BY DEF MeetCycle
<1>2. /\ Walking /\ answer' = "cycle"
      /\ UNCHANGED <<value, stack, path, objects, done>>
  BY DEF MeetCycle
<1>3. Part(i) \in Reached /\ \A j \in DOMAIN stack : Part(i) \in Below(stack[j].node)
  BY <1>2, PartMet
<1>4. Cyclic
  BY <1>1, <1>3 DEF Inv, PathOK, OnPath, Cyclic
<1> USE Unmoved
<1>5. CallsOK'
  BY <1>2 DEF Inv, CallsOK, Walking, Corrupt
<1>6. Nested' /\ PassedOK' /\ PathOK' /\ DoneOK'
  BY <1>2 DEF Inv, Nested, PassedOK, PathOK, DoneOK
<1>7. ObjectsOK'
  BY <1>2 DEF Inv, ObjectsOK, IsTagged
<1>8. Verdicts'
  BY <1>2, <1>4 DEF Verdicts, Corrupt
<1> QED
  BY <1>2, <1>5, <1>6, <1>7, <1>8 DEF Inv

LEMMA MeetCorruptInv == Inv /\ MeetCorrupt => Inv'
<1> SUFFICES ASSUME Inv, MeetCorrupt PROVE Inv'
  OBVIOUS
<1>1. PICK i \in DOMAIN Parts(Top.node) : IsCorrupt(Part(i)) /\ answer' = Kind(Part(i))
  BY DEF MeetCorrupt
<1>2. Walking /\ UNCHANGED <<value, stack, path, objects, done>>
  BY DEF MeetCorrupt
<1>3. Part(i) \in Reached
  BY <1>2, PartMet
<1>4. answer' \in Corrupt
  BY <1>1 DEF IsCorrupt
<1> USE Unmoved
<1>5. CallsOK'
  BY <1>2, <1>4 DEF Inv, CallsOK, Walking, Corrupt
<1>6. Nested' /\ PassedOK' /\ PathOK' /\ DoneOK'
  BY <1>2 DEF Inv, Nested, PassedOK, PathOK, DoneOK
<1>7. ObjectsOK'
  BY <1>2 DEF Inv, ObjectsOK, IsTagged
<1>8. Verdicts'
  BY <1>1, <1>2, <1>3, <1>4 DEF Verdicts, Corrupt
<1> QED
  BY <1>2, <1>5, <1>6, <1>7, <1>8 DEF Inv

LEMMA EnterInv == Inv /\ Enter => Inv'
<1> SUFFICES ASSUME Inv, Enter PROVE Inv'
  OBVIOUS
<1> DEFINE Calls == [node : Nodes, left : SUBSET Nat]
<1>1. Walking
  BY DEF Enter
<1>2. PICK i \in DOMAIN Parts(Top.node) :
        /\ ~OnPath(Part(i)) /\ ~IsCorrupt(Part(i))
        /\ stack' = Append(Passing(i), Call(Part(i)))
        /\ path' = path \union Tracking(Part(i))
        /\ objects' = objects \union Tagging(Part(i))
  BY DEF Enter
<1>3. UNCHANGED <<value, done, answer>>
  BY DEF Enter
<1>4. value \in Value /\ Reached \subseteq Nodes
  BY ReachedType DEF Inv
<1>5. /\ Depth \in Nat \ {0} /\ DOMAIN stack = 1 .. Depth
      /\ Top \in Calls /\ stack \in Seq(Calls)
  BY <1>1, TopCall DEF Inv, CallsOK
<1>6. /\ Part(i) \in Nodes /\ Part(i) \in Reached
      /\ \A j \in DOMAIN stack : Part(i) \in Below(stack[j].node)
  BY <1>1, PartMet
<1> DEFINE p == Part(i)
           d == Depth
<1>7. DOMAIN Parts(p) \in SUBSET Nat
  BY <1>4, <1>6, PartsType
<1>8. Call(p) \in Calls /\ Call(p).node = p /\ Call(p).left = DOMAIN Parts(p)
  BY <1>6, <1>7 DEF Call
<1>9. /\ Passing(i) \in Seq(Calls) /\ Len(Passing(i)) = d
      /\ \A j \in 1 .. d : Passing(i)[j].node = stack[j].node
      /\ \A j \in 1 .. d : j # d => Passing(i)[j].left = stack[j].left
      /\ Passing(i)[d].left = Top.left \ {i}
  <2>1. [Top EXCEPT !.left = @ \ {i}] \in Calls
    BY <1>5
  <2>2. Passing(i) = [stack EXCEPT ![d] = [Top EXCEPT !.left = @ \ {i}]]
    BY DEF Passing, Top
  <2>3. [Top EXCEPT !.left = @ \ {i}].node = Top.node
        /\ [Top EXCEPT !.left = @ \ {i}].left = Top.left \ {i}
    BY <1>5
  <2> DEFINE c == [Top EXCEPT !.left = @ \ {i}]
  <2> HIDE DEF c, Calls
  <2>4. Passing(i) \in Seq(Calls) /\ Len(Passing(i)) = d
    BY <1>5, <2>1, <2>2 DEF Depth, c
  <2>5. \A j \in 1 .. d : Passing(i)[j] = IF j = d THEN c ELSE stack[j]
    BY <1>5, <2>2 DEF c
  <2>6. Passing(i)[d] = c /\ \A j \in 1 .. d : j # d => Passing(i)[j] = stack[j]
    BY <1>5, <2>5
  <2>7. c.node = stack[d].node /\ c.left = Top.left \ {i}
    BY <2>3 DEF c, Top
  <2> QED
    BY <2>4, <2>6, <2>7
<1>10. /\ stack' \in Seq(Calls) /\ Len(stack') = d + 1
       /\ stack'[d + 1] = Call(p)
       /\ \A j \in 1 .. d : stack'[j] = Passing(i)[j]
  <2> HIDE DEF Calls
  <2> QED
    BY <1>2, <1>5, <1>8, <1>9
<1>11. DOMAIN stack' = 1 .. (d + 1) /\ stack' # <<>>
  <2> HIDE DEF Calls
  <2> QED
    BY <1>5, <1>10
<1>12. /\ \A j \in 1 .. d : stack'[j].node = stack[j].node
       /\ stack'[d + 1].node = p
  BY <1>8, <1>9, <1>10
<1>13. /\ \A j \in 1 .. d : j # d => stack'[j].left = stack[j].left
       /\ stack'[d].left = Top.left \ {i}
       /\ stack'[d + 1].left = DOMAIN Parts(p)
  BY <1>5, <1>8, <1>9, <1>10
<1> HIDE DEF Calls, p, d
<1>14. CallsOK'
  <2>1. \A j \in DOMAIN stack' : stack'[j].node \in Reached
    BY <1>5, <1>6, <1>11, <1>12 DEF Inv, CallsOK, p, d
  <2>2. \A j \in DOMAIN stack' : ~IsCorrupt(stack'[j].node)
    <3>1. \A j \in DOMAIN stack : ~IsCorrupt(stack[j].node)
      BY <1>1 DEF Inv, CallsOK, Walking, Corrupt
    <3> QED
      BY <1>2, <1>5, <1>11, <1>12, <3>1 DEF p, d
  <2>3. stack'[1].node = value.root
    BY <1>5, <1>12 DEF Inv, CallsOK, d
  <2> QED
    BY <1>3, <1>10, <1>11, <2>1, <2>2, <2>3, Unmoved DEF CallsOK, Calls
<1>15. Nested'
  <2>1. ASSUME NEW a \in DOMAIN stack', NEW b \in DOMAIN stack', a < b
        PROVE  stack'[b].node \in Below(stack'[a].node)
    <3>1. a \in 1 .. d /\ stack'[a].node = stack[a].node /\ a \in DOMAIN stack
      BY <1>5, <1>11, <1>12, <2>1 DEF d
    <3>2. CASE b = d + 1
      BY <1>6, <1>12, <3>1, <3>2 DEF p
    <3>3. CASE b # d + 1
      BY <1>5, <1>11, <1>12, <2>1, <3>1, <3>3 DEF Inv, Nested, d
    <3> QED
      BY <3>2, <3>3
  <2> QED
    BY <1>3, <2>1, Unmoved DEF Nested
<1>16. PassedOK'
  <2>1. ASSUME NEW a \in DOMAIN stack',
               NEW k \in DOMAIN Parts(stack'[a].node) \ stack'[a].left
        PROVE  \/ Parts(stack'[a].node)[k] \in done
               \/ a < d + 1 /\ Parts(stack'[a].node)[k] = stack'[a + 1].node
    <3>1. CASE a = d + 1
      BY <1>12, <1>13, <3>1
    <3>2. CASE a = d
      <4>1. stack'[a].node = Top.node /\ Top = stack[d]
        BY <1>5, <1>12, <3>2 DEF d, Top
      <4>2. CASE k = i
        BY <1>5, <1>12, <3>2, <4>1, <4>2 DEF p, d, Part
      <4>3. CASE k # i
        <5>1. d \in DOMAIN stack /\ k \in DOMAIN Parts(stack[d].node) \ stack[d].left
          BY <1>5, <1>13, <3>2, <4>1, <4>3 DEF d
        <5>2. ~(d < Len(stack))
          BY <1>5 DEF d, Depth
        <5> QED
          BY <4>1, <5>1, <5>2 DEF Inv, PassedOK
      <4> QED
        BY <4>2, <4>3
    <3>3. CASE a # d /\ a # d + 1
      <4>1. a \in 1 .. d /\ a + 1 \in 1 .. d /\ a \in DOMAIN stack /\ a < d + 1
        BY <1>5, <1>11, <3>3 DEF d
      <4>2. /\ stack'[a].node = stack[a].node /\ stack'[a].left = stack[a].left
            /\ stack'[a + 1].node = stack[a + 1].node
        BY <1>12, <1>13, <3>3, <4>1
      <4> QED
        BY <2>1, <4>1, <4>2 DEF Inv, PassedOK
    <3> QED
      BY <3>1, <3>2, <3>3
  <2> QED
    BY <1>3, <1>10, <2>1, Unmoved DEF PassedOK
<1>17. PathOK'
  <2>1. ASSUME NEW n \in path'
        PROVE  IsTracked(n) /\ \E j \in DOMAIN stack' : stack'[j].node = n
    <3>1. CASE n \in path
      <4>1. IsTracked(n) /\ \E j \in DOMAIN stack : stack[j].node = n
        BY <3>1 DEF Inv, PathOK
      <4> QED
        BY <1>5, <1>11, <1>12, <4>1 DEF d
    <3>2. CASE n \notin path
      <4>1. n = p /\ IsTracked(p)
        BY <1>2, <2>1, <3>2 DEF Tracking, p
      <4>2. d + 1 \in DOMAIN stack'
        BY <1>5, <1>11 DEF d
      <4> QED
        BY <1>12, <4>1, <4>2
    <3> QED
      BY <3>1, <3>2
  <2> QED
    BY <1>3, <2>1, Unmoved DEF PathOK
<1>18. DoneOK'
  BY <1>3, Unmoved DEF Inv, DoneOK
<1>19. ObjectsOK'
  <2>1. objects' \subseteq {n \in Reached : IsTagged(n)}
    BY <1>2, <1>6 DEF Inv, ObjectsOK, Tagging, IsTagged
  <2>2. \A n \in done : IsTagged(n) => n \in objects'
    BY <1>2 DEF Inv, ObjectsOK
  <2>3. IsTagged(p) => p \in objects'
    BY <1>2 DEF Tagging, IsTagged, p
  <2>4. \A j \in DOMAIN stack : IsTagged(stack[j].node) => stack[j].node \in objects'
    BY <1>2 DEF Inv, ObjectsOK
  <2>5. \A j \in DOMAIN stack' : IsTagged(stack'[j].node) => stack'[j].node \in objects'
    BY <1>5, <1>11, <1>12, <2>3, <2>4 DEF d
  <2>6. \A n : IsTagged(n)' = IsTagged(n)
    BY <1>3, Unmoved DEF IsTagged
  <2> QED
    BY <1>3, <2>1, <2>2, <2>5, <2>6, Unmoved DEF ObjectsOK
<1>20. Verdicts'
  BY <1>3, Unmoved DEF Inv, Verdicts
<1> QED
  BY <1>3, <1>14, <1>15, <1>16, <1>17, <1>18, <1>19, <1>20 DEF Inv

(* What a call leaves behind: its part, all of whose parts are done, does   *)
(* not lie below itself, for then it would have been done before.           *)
LEMMA Left ==
  ASSUME Inv, Walking, Top.left = {}
  PROVE  /\ Holds(done, Top.node)
         /\ IsClosed(done \union {Top.node})
         /\ Top.node \notin Below(Top.node)
<1>1. Depth \in DOMAIN stack /\ Top \in [node : Nodes, left : SUBSET Nat]
  BY TopCall
<1>2. ~(Depth < Len(stack))
  BY TopCall DEF Depth
<1>3. Holds(done, Top.node)
  BY <1>1, <1>2 DEF Inv, PassedOK, Holds, Top
<1>4. IsClosed(done) /\ done \in SUBSET Nodes
  BY DEF Inv, DoneOK
<1>5. Below(Top.node) \subseteq done
  BY <1>1, <1>3, <1>4, BelowLeast
<1>6. Top.node \notin Below(Top.node)
  BY <1>5 DEF Inv, DoneOK
<1>7. IsClosed(done \union {Top.node})
  BY <1>3, <1>4 DEF IsClosed, Holds
<1> QED
  BY <1>3, <1>6, <1>7

LEMMA LeaveInv == Inv /\ Leave => Inv'
<1> SUFFICES ASSUME Inv, Leave PROVE Inv'
  OBVIOUS
<1> DEFINE Calls == [node : Nodes, left : SUBSET Nat]
           d == Depth
<1>1. Walking /\ Top.left = {}
  BY DEF Leave
<1>2. /\ stack' = SubSeq(stack, 1, d - 1)
      /\ path' = path \ Leaving(Top.node)
      /\ done' = done \union {Top.node}
      /\ answer' = IF d = 1 THEN "ok" ELSE "walking"
      /\ UNCHANGED <<value, objects>>
  BY DEF Leave
<1>3. /\ d \in Nat \ {0} /\ DOMAIN stack = 1 .. d /\ d \in DOMAIN stack
      /\ Top \in Calls /\ stack \in Seq(Calls) /\ Top = stack[d]
  BY <1>1, TopCall DEF Inv, CallsOK, Top
<1>4. /\ Holds(done, Top.node) /\ IsClosed(done \union {Top.node})
      /\ Top.node \notin Below(Top.node)
  BY <1>1, Left
<1> HIDE DEF Calls
<1>5. /\ stack' \in Seq(Calls) /\ Len(stack') = d - 1
      /\ DOMAIN stack' = 1 .. (d - 1)
      /\ \A j \in 1 .. (d - 1) : stack'[j] = stack[j]
  BY <1>2, <1>3 DEF Depth
<1>6. ~IsCorrupt(Top.node) /\ (IsTagged(Top.node) => Top.node \in objects)
  BY <1>1, <1>3 DEF Inv, CallsOK, ObjectsOK, Walking, Corrupt
<1> HIDE DEF d
<1>7. CallsOK'
  <2>1. answer' = "walking" => stack' # <<>>
    BY <1>2, <1>3, <1>5
  <2>2. \A j \in DOMAIN stack' : j \in DOMAIN stack /\ stack'[j] = stack[j]
    BY <1>3, <1>5
  <2>3. \A j \in DOMAIN stack' : stack'[j].node \in Reached /\ ~IsCorrupt(stack'[j].node)
    BY <1>1, <2>2 DEF Inv, CallsOK, Walking, Corrupt
  <2>4. stack' # <<>> => stack'[1].node = value.root
    BY <1>3, <1>5, <2>2 DEF Inv, CallsOK
  <2> QED
    BY <1>2, <1>5, <2>1, <2>3, <2>4, Unmoved DEF CallsOK, Calls
<1>8. Nested'
  BY <1>2, <1>3, <1>5, Unmoved DEF Inv, Nested
<1>9. PassedOK'
  <2>1. ASSUME NEW a \in DOMAIN stack',
               NEW k \in DOMAIN Parts(stack'[a].node) \ stack'[a].left
        PROVE  \/ Parts(stack'[a].node)[k] \in done'
               \/ a < d - 1 /\ Parts(stack'[a].node)[k] = stack'[a + 1].node
    <3>1. a \in DOMAIN stack /\ stack'[a] = stack[a] /\ a \in Nat
      BY <1>3, <1>5
    <3>2. \/ Parts(stack[a].node)[k] \in done
          \/ a < Len(stack) /\ Parts(stack[a].node)[k] = stack[a + 1].node
      BY <2>1, <3>1 DEF Inv, PassedOK
    <3>3. CASE a + 1 = d
      BY <1>2, <1>3, <3>1, <3>2, <3>3
    <3>4. CASE a + 1 # d
      <4>1. a < d - 1 /\ a + 1 \in 1 .. (d - 1)
        BY <1>3, <1>5, <3>4
      <4> QED
        BY <1>2, <1>5, <3>1, <3>2, <4>1
    <3> QED
      BY <3>3, <3>4
  <2>2. \A n : Parts(n)' = Parts(n)
    BY <1>2, Unmoved
  <2> QED
    BY <1>5, <2>1, <2>2 DEF PassedOK
<1>10. PathOK'
  <2>1. ASSUME NEW n \in path'
        PROVE  IsTracked(n) /\ \E j \in DOMAIN stack' : stack'[j].node = n
    <3>1. IsTracked(n)
      BY <1>2 DEF Inv, PathOK
    <3>2. PICK j \in DOMAIN stack : stack[j].node = n
      BY <1>2 DEF Inv, PathOK
    <3>3. n # Top.node
      BY <1>2, <3>1 DEF Leaving, Tracking
    <3>4. j \in 1 .. (d - 1)
      BY <1>3, <3>2, <3>3
    <3> QED
      BY <1>5, <3>1, <3>2, <3>4
  <2> QED
    BY <1>2, <2>1, Unmoved DEF PathOK
<1>11. DoneOK'
  <2>1. done' \in SUBSET Nodes
    BY <1>2, <1>3 DEF Inv, DoneOK, Calls
  <2>2. \A n : Parts(n)' = Parts(n)
    BY <1>2, Unmoved
  <2>3. \A n \in done' : \A i \in DOMAIN Parts(n) : Parts(n)[i] \in done'
    BY <1>2, <1>4 DEF IsClosed
  <2>4. IsClosed(done)'
    BY <2>2, <2>3 DEF IsClosed
  <2>5. \A n \in done' : n \notin Below(n) /\ ~IsCorrupt(n)
    BY <1>2, <1>4, <1>6 DEF Inv, DoneOK
  <2>6. \A n : Below(n)' = Below(n) /\ IsCorrupt(n)' = IsCorrupt(n)
    BY <1>2, Unmoved
  <2> QED
    BY <2>1, <2>4, <2>5, <2>6 DEF DoneOK
<1>12. ObjectsOK'
  <2>1. \A n : IsTagged(n)' = IsTagged(n)
    BY <1>2, Unmoved DEF IsTagged
  <2>2. \A n \in done' : IsTagged(n) => n \in objects
    BY <1>2, <1>6 DEF Inv, ObjectsOK
  <2>3. \A j \in DOMAIN stack' : IsTagged(stack'[j].node) => stack'[j].node \in objects
    BY <1>3, <1>5 DEF Inv, ObjectsOK
  <2>4. objects \subseteq {n \in Reached : IsTagged(n)}
    BY DEF Inv, ObjectsOK
  <2> QED
    BY <1>2, <2>1, <2>2, <2>3, <2>4, Unmoved DEF ObjectsOK
<1>13. Verdicts'
  <2>1. stack # <<>> => stack[1].node = value.root
    BY DEF Inv, CallsOK
  <2>2. stack # <<>>
    BY <1>3
  <2>3. d = 1 => value.root \in done'
    BY <1>2, <1>3, <2>1, <2>2
  <2> QED
    BY <1>2, <2>3, Unmoved DEF Verdicts, Corrupt
<1> QED
  BY <1>2, <1>7, <1>8, <1>9, <1>10, <1>11, <1>12, <1>13 DEF Inv

(* Every step keeps the invariant. *)
LEMMA StepInv == Inv /\ [Next]_vars => Inv'
<1> SUFFICES ASSUME Inv, [Next]_vars PROVE Inv'
  OBVIOUS
<1>1. CASE MeetCycle
  BY <1>1, MeetCycleInv
<1>2. CASE MeetCorrupt
  BY <1>2, MeetCorruptInv
<1>3. CASE Enter
  BY <1>3, EnterInv
<1>4. CASE Leave
  BY <1>4, LeaveInv
<1>5. CASE UNCHANGED vars
  <2>1. UNCHANGED <<value, stack, path, objects, done, answer>>
    BY <1>5 DEF vars
  <2> USE Unmoved
  <2>2. CallsOK' /\ Nested' /\ PassedOK' /\ PathOK' /\ DoneOK'
    BY <2>1 DEF Inv, CallsOK, Nested, PassedOK, PathOK, DoneOK
  <2>3. ObjectsOK' /\ Verdicts'
    BY <2>1 DEF Inv, ObjectsOK, IsTagged, Verdicts
  <2> QED
    BY <2>1, <2>2, <2>3 DEF Inv
<1> QED
  BY <1>1, <1>2, <1>3, <1>4, <1>5 DEF Next, Step, Answered

(* The invariant holds of every walk. *)
LEMMA SpecInv == Spec => []Inv
<1> QED
  BY InitInv, StepInv, PTL DEF Spec

-----------------------------------------------------------------------------
(* Nothing is missing from the path.                                       *)

PathFull == \A i \in DOMAIN stack : IsTracked(stack[i].node) => stack[i].node \in path

LEMMA EnterFull ==
  ASSUME Inv, PathFull, Enter
  PROVE  PathFull'
<1> DEFINE Calls == [node : Nodes, left : SUBSET Nat]
<1>1. PICK i \in DOMAIN Parts(Top.node) :
        /\ stack' = Append(Passing(i), Call(Part(i)))
        /\ path' = path \union Tracking(Part(i))
  BY DEF Enter
<1>2. Walking /\ UNCHANGED value
  BY DEF Enter
<1>3. /\ Depth \in Nat \ {0} /\ DOMAIN stack = 1 .. Depth /\ Len(stack) = Depth
      /\ Top \in Calls /\ stack \in Seq(Calls)
  BY <1>2, TopCall DEF Inv, CallsOK, Depth
<1> DEFINE c == [Top EXCEPT !.left = @ \ {i}]
<1>4. c \in Calls /\ c.node = stack[Depth].node
  BY <1>3 DEF Top
<1>5. Passing(i) = [stack EXCEPT ![Depth] = c]
  BY DEF Passing, Top
<1> HIDE DEF Calls, c
<1>6. /\ Passing(i) \in Seq(Calls) /\ Len(Passing(i)) = Depth
      /\ \A j \in 1 .. Depth : Passing(i)[j] = IF j = Depth THEN c ELSE stack[j]
  BY <1>3, <1>4, <1>5
<1>7. DOMAIN stack' = 1 .. Depth + 1
  BY <1>1, <1>3, <1>6
<1>8. stack'[Depth + 1] = Call(Part(i))
  BY <1>1, <1>3, <1>6
<1>9. \A j \in 1 .. Depth : stack'[j] = Passing(i)[j]
  BY <1>1, <1>3, <1>6
<1>10. ASSUME NEW j \in DOMAIN stack', IsTracked(stack'[j].node)
       PROVE  stack'[j].node \in path'
  <2>1. CASE j = Depth + 1
    <3>1. stack'[j].node = Part(i)
      BY <1>8, <2>1 DEF Call
    <3>2. Part(i) \in Tracking(Part(i))
      BY <1>10, <3>1 DEF Tracking
    <3>3. QED
      BY <1>1, <3>1, <3>2
  <2>2. CASE j # Depth + 1
    <3>1. j \in 1 .. Depth
      BY <1>3, <1>7, <2>2
    <3>2. stack'[j].node = stack[j].node
      BY <1>4, <1>6, <1>9, <3>1
    <3>3. QED
      BY <1>1, <1>3, <1>10, <3>1, <3>2 DEF PathFull
  <2>3. QED
    BY <2>1, <2>2
<1>11. QED
  BY <1>2, <1>10, Unmoved DEF PathFull

\* Two calls never look at the same part, so none loses its place to another.
LEMMA LeaveFull ==
  ASSUME Inv, PathFull, Leave
  PROVE  PathFull'
<1>1. /\ Walking /\ Top.left = {} /\ UNCHANGED value
      /\ stack' = SubSeq(stack, 1, Depth - 1) /\ path' = path \ Leaving(Top.node)
  BY DEF Leave
<1>2. Depth \in Nat \ {0} /\ DOMAIN stack = 1 .. Depth
  BY <1>1, TopCall
<1>3. Top.node \notin Below(Top.node)
  BY <1>1, Left
<1>4. /\ DOMAIN stack' = 1 .. Depth - 1
      /\ \A j \in 1 .. Depth - 1 : stack'[j] = stack[j]
  BY <1>1, <1>2 DEF Inv, CallsOK, Depth
<1>5. ASSUME NEW j \in DOMAIN stack', IsTracked(stack'[j].node)
      PROVE  stack'[j].node \in path'
  <2>1. j \in DOMAIN stack /\ Depth \in DOMAIN stack /\ j < Depth /\ stack'[j] = stack[j]
    BY <1>2, <1>4
  <2>2. Top.node \in Below(stack[j].node)
    BY <2>1 DEF Inv, Nested, Top
  <2>3. stack[j].node # Top.node
    BY <1>3, <2>2
  <2>4. QED
    BY <1>1, <1>5, <2>1, <2>3 DEF PathFull, Leaving, Tracking
<1>6. QED
  BY <1>1, <1>5, Unmoved DEF PathFull

LEMMA FullStep ==
  ASSUME Inv, PathFull, [Next]_vars
  PROVE  PathFull'
<1>1. CASE Enter
  BY <1>1, EnterFull
<1>2. CASE Leave
  BY <1>2, LeaveFull
<1>3. CASE UNCHANGED <<value, stack, path>>
  BY <1>3, Unmoved DEF PathFull
<1>4. QED
  BY <1>1, <1>2, <1>3 DEF Next, Step, MeetCycle, MeetCorrupt, Answered, vars

LEMMA InitFull == Init => PathFull
BY DEF Init, PathFull, Call, Tracking

LEMMA FullInv == Spec => []PathFull
<1>1. Init => PathFull
  BY InitFull
<1>2. Inv /\ PathFull /\ [Next]_vars => PathFull'
  BY FullStep
<1>3. QED
  BY <1>1, <1>2, SpecInv, PTL DEF Spec

LEMMA PathTyped ==
  ASSUME Inv, PathFull
  PROVE  TypeOK
<1>1. Reached \subseteq Nodes
  BY ReachedType DEF Inv
<1>2. path = {n \in {stack[i].node : i \in DOMAIN stack} : IsTracked(n)}
  BY DEF Inv, PathOK, PathFull
<1>3. path \subseteq Nodes
  BY <1>1 DEF Inv, CallsOK, PathOK
<1>4. objects \subseteq Nodes
  BY <1>1 DEF Inv, ObjectsOK
<1>5. QED
  BY <1>2, <1>3, <1>4 DEF Inv, CallsOK, DoneOK, Verdicts, TypeOK

-----------------------------------------------------------------------------
(* The theorems.                                                           *)

(* A walk that let the value through has been past all of it: what is done  *)
(* is closed, and the root is done.                                         *)
LEMMA WalkedAll ==
  ASSUME Inv, answer = "ok"
  PROVE  Reached \subseteq done
<1>1. value.root \in done /\ IsClosed(done) /\ done \in SUBSET Nodes
  BY DEF Inv, Verdicts, DoneOK, Corrupt
<1>2. Holds(done, value.root) /\ value.root \in Nodes
  BY <1>1 DEF IsClosed, Holds
<1>3. Below(value.root) \subseteq done
  BY <1>1, <1>2, BelowLeast
<1> QED
  BY <1>1, <1>3 DEF Reached

(* The path holds the containers by whose parts the walk came, and no other: *)
(* the deferred delete takes off what its own call put there and never what  *)
(* another call, still under way, relies on (csv.go:1232-1245,               *)
(* core.go:373-377).                                                         *)
THEOREM PathIsTheWay == Spec => []TypeOK
<1>1. Inv /\ PathFull => TypeOK
  BY PathTyped
<1> QED
  BY <1>1, SpecInv, FullInv, PTL

(* A value is refused for containing itself exactly when it does: the walk  *)
(* looks for its parts on the path it came by, and takes them off again.    *)
THEOREM CyclesRefused == Spec => []RefusesCycles
<1>1. Inv => RefusesCycles
  BY WalkedAll DEF Inv, Verdicts, DoneOK, RefusesCycles, Cyclic
<1> QED
  BY <1>1, SpecInv, PTL

(* The walk over the options misses no object, and takes nothing for one    *)
(* that is not.                                                             *)
THEOREM ObjectsTagged == Spec => []TagsObjects
<1>1. Inv => TagsObjects
  <2> SUFFICES ASSUME Inv, answer = "ok"
               PROVE  objects = {n \in Reached : IsTagged(n)}
    BY DEF TagsObjects, IsTagged
  <2> QED
    BY WalkedAll DEF Inv, ObjectsOK
<1> QED
  BY <1>1, SpecInv, PTL

(* A result goes to the encoder only when no part of it would be corrupted, *)
(* and the reason it is withheld for is one that it gives.                  *)
THEOREM CorruptionReported == Spec => []ReportsCorruption
<1>1. Inv => ReportsCorruption
  BY WalkedAll DEF Inv, Verdicts, DoneOK, ReportsCorruption
<1> QED
  BY <1>1, SpecInv, PTL
=============================================================================
