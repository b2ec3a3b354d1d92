----------------------------- MODULE ValueWalk ------------------------------
(***************************************************************************)
(* The two walks over a Go value that may contain itself: tagOptionValue   *)
(* (csv.go), over the options a caller supplies, and unsafeWalk            *)
(* (clib/core.go), over a parse result about to be encoded as JSON.  Each  *)
(* is a recursion that keeps the containers it is inside of on a path, by  *)
(* identity; here its call stack is a variable and a step is a call or a   *)
(* return.                                                                 *)
(***************************************************************************)
EXTENDS Naturals, Sequences, FiniteSets

CONSTANTS
  Nodes,    \* the parts a value is made of
  Values    \* the values there may be

\* What Go's reflection tells of a part.  An "object" is an *OrderedMap, the
\* engine's object node; the kinds of Corrupt are what JSON would corrupt.
Corrupt == {"utf8", "number", "opaque"}
Kinds   == {"map", "slice", "object", "pointer", "array", "struct", "leaf"} \union Corrupt

Value == [walk : {"options", "result"}, root : Nodes, kind : [Nodes -> Kinds], kids : [Nodes -> Seq(Nodes)]]

ASSUME WalkAssumption == Values \subseteq Value

VARIABLES
  value,     \* the value walked, and which of the walks it is
  stack,     \* the calls under way: the part each looks at, and which of its
             \* parts it has still to look at
  path,      \* the containers on the path
  objects,   \* the objects seen: optionObjects
  done,      \* history: the parts a call has returned from without complaint
  answer     \* "walking", "ok", "cycle", or what JSON would corrupt

vars == <<value, stack, path, objects, done, answer>>

-----------------------------------------------------------------------------
(* What a walk looks into.                                                 *)

Walker  == value.walk
Kind(n) == value.kind[n]

\* A pointer to anything but an object, and a struct, have no spelling as a
\* column name: the walk of the options returns from them at once.
Walked == {"map", "slice", "object", "array"}
            \union IF Walker = "result" THEN {"pointer", "struct"} ELSE {}

Parts(n) == IF Kind(n) \in Walked THEN value.kids[n] ELSE <<>>

\* What is known by its address: an array or a struct lies inside its holder.
IsTracked(n) == Kind(n) \in {"map", "slice", "object", "pointer"}

\* Go visits the entries of a map in any order; unsafeWalk sorts them first.
InAnyOrder(n) == Kind(n) = "map" /\ Walker = "options"

IsCorrupt(n) == Walker = "result" /\ Kind(n) \in Corrupt

-----------------------------------------------------------------------------

\* Mutant: the loop over the parts stops one short.
CallButLast(n) == [node |-> n, left |-> DOMAIN Parts(n) \ {Len(Parts(n))}]

Call(n) == [node |-> n, left |-> DOMAIN Parts(n)]

Tracking(n) == IF IsTracked(n) THEN {n} ELSE {}

\* Mutant: only the objects at the top are told apart.
TaggingTop(n) == IF Kind(n) = "object" /\ Len(stack) < 2 THEN {n} ELSE {}

Tagging(n) == IF Kind(n) = "object" /\ Walker = "options" THEN {n} ELSE {}

Init ==
  /\ value \in Values
  /\ stack = <<Call(value.root)>>
  /\ path = Tracking(value.root)
  /\ objects = Tagging(value.root)
  /\ done = {}
  /\ answer = IF IsCorrupt(value.root) THEN Kind(value.root) ELSE "walking"

Walking == answer = "walking"
Depth   == Len(stack)
Top     == stack[Depth]

\* It is the turn of the top call's i-th part.
TurnOf(i) ==
  /\ i \in Top.left
  /\ InAnyOrder(Top.node) \/ \A j \in Top.left : i <= j

Part(i) == Parts(Top.node)[i]

\* Mutant: the call does not get past the part.
StayingAt(i) == stack

Passing(i) == [stack EXCEPT ![Depth].left = @ \ {i}]

OnPath(n) == n \in path

\* A part that lies on the path contains itself.
MeetCycle ==
  /\ Walking
  /\ \E i \in DOMAIN Parts(Top.node) :
       /\ TurnOf(i) /\ OnPath(Part(i))
       /\ answer' = "cycle"
       /\ UNCHANGED <<value, stack, path, objects, done>>

MeetCorrupt ==
  /\ Walking
  /\ \E i \in DOMAIN Parts(Top.node) :
       /\ TurnOf(i) /\ IsCorrupt(Part(i))
       /\ answer' = Kind(Part(i))
       /\ UNCHANGED <<value, stack, path, objects, done>>

Enter ==
  /\ Walking
  /\ \E i \in DOMAIN Parts(Top.node) :
       /\ TurnOf(i) /\ ~OnPath(Part(i)) /\ ~IsCorrupt(Part(i))
       /\ stack' = Append(Passing(i), Call(Part(i)))
       /\ path' = path \union Tracking(Part(i))
       /\ objects' = objects \union Tagging(Part(i))
       /\ UNCHANGED <<value, done, answer>>

\* Mutant: the container stays on the path.
LeavingNone(n) == {}

Leaving(n) == Tracking(n)

\* The call returns; the deferred delete takes its container off the path.
Leave ==
  /\ Walking /\ Top.left = {}
  /\ stack' = SubSeq(stack, 1, Depth - 1)
  /\ path' = path \ Leaving(Top.node)
  /\ done' = done \union {Top.node}
  /\ answer' = IF Depth = 1 THEN "ok" ELSE "walking"
  /\ UNCHANGED <<value, objects>>

Step == MeetCycle \/ MeetCorrupt \/ Enter \/ Leave

Answered == ~Walking /\ UNCHANGED vars

Next == Step \/ Answered

Spec == Init /\ [][Next]_vars
FairSpec == Spec /\ WF_vars(Step)

-----------------------------------------------------------------------------
(* What lies inside a part, with no walk: in every set that holds the       *)
(* part's own parts and the parts of its members.                           *)

IsClosed(S) == \A n \in S : \A i \in DOMAIN Parts(n) : Parts(n)[i] \in S

Holds(S, n) == \A i \in DOMAIN Parts(n) : Parts(n)[i] \in S

Below(n) == {m \in Nodes : \A S \in SUBSET Nodes : Holds(S, n) /\ IsClosed(S) => m \in S}

Reached == {value.root} \union Below(value.root)

Cyclic == \E n \in Reached : n \in Below(n)

-----------------------------------------------------------------------------

(* The variables have their types, and the path is that of the calls under  *)
(* way: each container by whose parts the walk came, and no other.          *)
TypeOK ==
  /\ value \in Values
  /\ stack \in Seq([node : Nodes, left : SUBSET Nat])
  /\ path \subseteq Nodes /\ objects \subseteq Nodes /\ done \subseteq Nodes
  /\ answer \in {"walking", "ok", "cycle"} \union Corrupt
  /\ path = {n \in {stack[i].node : i \in DOMAIN stack} : IsTracked(n)}

(* A value is refused for containing itself when it does, and one that is   *)
(* let through does not: neither a part met twice, along two ways, nor the  *)
(* order in which entries are visited makes a difference (csv.go:1232-1245, *)
(* core.go:373-377).                                                        *)
RefusesCycles ==
  /\ answer = "cycle" => Cyclic
  /\ answer = "ok" => ~Cyclic

(* Every object an option supplies, however deep, is known for one; without *)
(* that a column it names is refused as if the document held it (csv.go:    *)
(* 1250-1258).                                                              *)
TagsObjects ==
  answer = "ok" =>
    objects = {n \in Reached : Kind(n) = "object" /\ Walker = "options"}

(* A result is encoded only if no part of it is one that JSON would         *)
(* corrupt, and a reason given for withholding it is there (core.go:249).   *)
ReportsCorruption ==
  /\ answer = "ok" => \A n \in Reached : ~IsCorrupt(n)
  /\ answer \in Corrupt => \E n \in Reached : Kind(n) = answer

(* The walk ends, on a value that contains itself too: a Go stack overflow  *)
(* could not be recovered from (csv.go:1176, core.go:320).                  *)
Ends == <>(answer # "walking")
=============================================================================
