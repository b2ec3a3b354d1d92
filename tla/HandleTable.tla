----------------------------- MODULE HandleTable -----------------------------
(***************************************************************************)
(* What libtabnascsv promises its callers: a table of parser handles on    *)
(* which every call acts at one instant between its start and its return.  *)
(* A handle is issued once; a parse is answered by the parser of a live    *)
(* handle, or told that there is none.                                     *)
(***************************************************************************)
EXTENDS Naturals

CONSTANTS
  Threads,
  Passed,    \* the handles callers pass, unknown ones among them
  Verdicts   \* the documents that answer a parse of a live handle

VARIABLES
  issued,    \* how many handles have been issued: 1 .. issued
  live,      \* those that have not been freed
  call       \* the call each thread is in

tableVars == <<issued, live, call>>

Idle            == [op |-> "none"]
Call(op, h, as) == [op |-> op, handle |-> h, answer |-> as]
Doc(kind)       == [doc |-> kind, handle |-> 0]
Handed(h)       == [doc |-> "ok", handle |-> h]
Pending         == Doc("pending")
Admitted        == Doc("admitted")

Begin(t) ==
  /\ call[t] = Idle
  /\ \/ call' = [call EXCEPT ![t] = Call("grammar", 0, Pending)]
     \/ \E h \in Passed :
          \/ call' = [call EXCEPT ![t] = Call("parse", h, Pending)]
          \/ call' = [call EXCEPT ![t] = Call("free", h, Pending)]
  /\ UNCHANGED <<issued, live>>

InCall(t, op, answer) == /\ call[t] # Idle
                         /\ call[t].op = op
                         /\ call[t].answer = answer

Settle(t, answer) == call' = [call EXCEPT ![t].answer = answer]

Issue(t) ==
  /\ InCall(t, "grammar", Pending)
  /\ issued' = issued + 1
  /\ live' = live \union {issued + 1}
  /\ Settle(t, Handed(issued + 1))

RefuseGrammar(t) ==
  /\ InCall(t, "grammar", Pending)
  /\ \E why \in {"usage", "grammar"} : Settle(t, Doc(why))
  /\ UNCHANGED <<issued, live>>

\* A parse is bound to its parser, or refused, at one instant ...
Bind(t) ==
  /\ InCall(t, "parse", Pending)
  /\ Settle(t, IF call[t].handle \in live THEN Admitted ELSE Doc("handle"))
  /\ UNCHANGED <<issued, live>>

\* ... after which freeing the handle no longer matters to it.
Judge(t) ==
  /\ InCall(t, "parse", Admitted)
  /\ \E verdict \in Verdicts : Settle(t, Doc(verdict))
  /\ UNCHANGED <<issued, live>>

RefuseParse(t) ==
  /\ InCall(t, "parse", Pending)
  /\ Settle(t, Doc("usage"))
  /\ UNCHANGED <<issued, live>>

Free(t) ==
  /\ InCall(t, "free", Pending)
  /\ live' = live \ {call[t].handle}
  /\ Settle(t, Doc("freed"))
  /\ UNCHANGED issued

Return(t) ==
  /\ call[t] # Idle /\ call[t].answer \notin {Pending, Admitted}
  /\ call' = [call EXCEPT ![t] = Idle]
  /\ UNCHANGED <<issued, live>>

Init ==
  /\ issued = 0
  /\ live = {}
  /\ call = [t \in Threads |-> Idle]

Next == \E t \in Threads :
  \/ Begin(t) \/ Issue(t) \/ RefuseGrammar(t) \/ Bind(t) \/ Judge(t)
  \/ RefuseParse(t) \/ Free(t) \/ Return(t)

Spec == Init /\ [][Next]_tableVars
=============================================================================
