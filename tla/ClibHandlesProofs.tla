-------------------------- MODULE ClibHandlesProofs --------------------------
(***************************************************************************)
(* The safety of the handle registry for any number of threads and         *)
(* parsers.  The inductive invariant ties each thread's place in the code  *)
(* to the locks it holds, to the call it is in and to what it has decided. *)
(***************************************************************************)
EXTENDS ClibHandles, FiniteSetTheorems, TLAPS

USE ThreadAssumption, HandleAssumption

\* writer names the one thread between the announcement and the unlocking;
\* readers are the threads at the lookup, and none while the map is written;
\* a parser's mutex is held by the one thread inside its engine.
LocksHeld ==
  /\ \A t \in Threads :
       /\ pc[t] \in {"drain", "update", "unlock"} <=> writer = t
       /\ pc[t] \in {"lookup", "runlock"} <=> t \in readers
       /\ pc[t] \in {"update", "unlock"} => readers = {}
  /\ \A t \in Threads : \A h \in Handles : holder[h] = t <=> InEngine(t) /\ got[t] = h

\* Where each entry point leads.
CallAt == \A t \in Threads :
  /\ pc[t] = "check" => op[t] \in {"grammar", "parse"}
  /\ pc[t] = "build" => op[t] = "grammar"
  /\ pc[t] \in {"lock", "drain", "update"} => op[t] \in {"grammar", "free"}
  /\ pc[t] \in {"rlock", "lookup", "runlock", "mutex", "engine", "leave"} => op[t] = "parse"

\* What a thread has decided, and found, by the time it is at a place.
AnswerAt == \A t \in Threads :
  /\ pc[t] \in {"idle", "check", "build", "lock", "drain", "update", "rlock", "lookup"} =>
       answer[t] = Pending
  /\ pc[t] = "runlock" => answer[t] = IF got[t] = 0 THEN Doc("handle") ELSE Admitted
  /\ pc[t] \in {"mutex", "engine"} => answer[t] = Admitted
  /\ pc[t] \in {"mutex", "engine", "leave"} => got[t] # 0
  /\ pc[t] \in {"unlock", "leave", "reply"} => answer[t] \notin {Pending, Admitted}

\* A handle that is in the map, or was handed out, has been issued, and was
\* handed out once.
HandlesIssued ==
  /\ \A h \in loaded : h <= nextID
  /\ \A t \in Threads : \A h \in Handles : answer[t] = Handed(h) => h <= nextID
  /\ HandedOnce

\* The parsers built and being built are within the bound.
Bounded == nextID + Cardinality(Building) <= MaxHandles

Inv == TypeOK /\ LocksHeld /\ CallAt /\ AnswerAt /\ HandlesIssued /\ Bounded

-----------------------------------------------------------------------------

\* Nothing is held, handed out or built at the start.
LEMMA InitInv == Init => Inv
<1> SUFFICES ASSUME Init PROVE Inv
  OBVIOUS
<1>1. Building = {}
  BY DEF Init, Building
<1>2. Bounded
  BY <1>1, FS_EmptySet DEF Init, Bounded
<1>3. TypeOK /\ LocksHeld /\ CallAt /\ AnswerAt /\ HandlesIssued
  BY DEF Init, TypeOK, LocksHeld, CallAt, AnswerAt, HandlesIssued, HandedOnce, InEngine,
         PC, Handles, Passed, Answers, Verdicts, Doc, Handed, Pending, Admitted
<1>4. QED
  BY <1>2, <1>3 DEF Inv

\* Every step keeps the parsers built and being built within the bound: only
\* BuildSucceeds adds one, and it looks at the bound.
LEMMA StepBounded == Inv /\ [Next]_vars => Bounded'
<1> SUFFICES ASSUME Inv, [Next]_vars PROVE Bounded'
  OBVIOUS
<1> USE DEF Inv, TypeOK, At, Goto, Reply, Enter
<1>1. ASSUME Building' = Building, nextID' = nextID PROVE Bounded'
  BY <1>1 DEF Bounded
<1>2. CASE UNCHANGED vars
  BY <1>1, <1>2 DEF vars, Building
<1>3. IsFiniteSet(Building) /\ Cardinality(Building) \in Nat
  BY FS_Subset, FS_CardinalityType DEF Building
<1>4. ASSUME NEW t \in Threads, BuildSucceeds(t) PROVE Bounded'
  <2>1. t \notin Building /\ Building' = Building \union {t}
    BY <1>4 DEF BuildSucceeds, Building, CallAt, PC
  <2>2. Cardinality(Building') = Cardinality(Building) + 1
    BY <2>1, <1>3, FS_AddElement
  <2>3. QED
    BY <1>3, <1>4, <2>2 DEF BuildSucceeds, Bounded
<1>5. ASSUME NEW t \in Threads, Register(t) PROVE Bounded'
  <2>1. t \in Building /\ Building' = Building \ {t}
    BY <1>5 DEF Register, Building
  <2>2. Cardinality(Building') = Cardinality(Building) - 1
    BY <2>1, <1>3, FS_RemoveElement
  <2>3. QED
    BY <1>3, <1>5, <2>2 DEF Register, Bounded
<1>6. ASSUME NEW t \in Threads, CallGrammar(t) PROVE Bounded'
  BY <1>1, <1>6 DEF CallGrammar, Building, CallAt
<1>7. ASSUME NEW t \in Threads, CallParse(t) PROVE Bounded'
  BY <1>1, <1>7 DEF CallParse, Building, CallAt
<1>8. ASSUME NEW t \in Threads, CallFree(t) PROVE Bounded'
  BY <1>1, <1>8 DEF CallFree, Building, CallAt
<1>9. ASSUME NEW t \in Threads, Refuse(t) PROVE Bounded'
  BY <1>1, <1>9 DEF Refuse, Building, CallAt
<1>10. ASSUME NEW t \in Threads, Accept(t) PROVE Bounded'
  BY <1>1, <1>10 DEF Accept, Building, CallAt
<1>11. ASSUME NEW t \in Threads, BuildFails(t) PROVE Bounded'
  BY <1>1, <1>11 DEF BuildFails, Building, CallAt
<1>12. ASSUME NEW t \in Threads, Announce(t) PROVE Bounded'
  BY <1>1, <1>12 DEF Announce, Building, CallAt
<1>13. ASSUME NEW t \in Threads, Lock(t) PROVE Bounded'
  BY <1>1, <1>13 DEF Lock, Building, CallAt
<1>14. ASSUME NEW t \in Threads, Delete(t) PROVE Bounded'
  BY <1>1, <1>14 DEF Delete, Building, CallAt
<1>15. ASSUME NEW t \in Threads, Unlock(t) PROVE Bounded'
  BY <1>1, <1>15 DEF Unlock, Building, CallAt
<1>16. ASSUME NEW t \in Threads, RLock(t) PROVE Bounded'
  BY <1>1, <1>16 DEF RLock, Building, CallAt
<1>17. ASSUME NEW t \in Threads, Lookup(t) PROVE Bounded'
  BY <1>1, <1>17 DEF Lookup, Building, CallAt
<1>18. ASSUME NEW t \in Threads, RUnlock(t) PROVE Bounded'
  BY <1>1, <1>18 DEF RUnlock, Building, CallAt
<1>19. ASSUME NEW t \in Threads, LockEngine(t) PROVE Bounded'
  BY <1>1, <1>19 DEF LockEngine, Building, CallAt
<1>20. ASSUME NEW t \in Threads, Parse(t) PROVE Bounded'
  BY <1>1, <1>20 DEF Parse, Building, CallAt
<1>21. ASSUME NEW t \in Threads, UnlockEngine(t) PROVE Bounded'
  BY <1>1, <1>21 DEF UnlockEngine, Building, CallAt
<1>22. ASSUME NEW t \in Threads, Return(t) PROVE Bounded'
  BY <1>1, <1>22 DEF Return, Building, CallAt
<1>23. QED
  BY <1>2, <1>4, <1>5, <1>6, <1>7, <1>8, <1>9, <1>10, <1>11, <1>12, <1>13, <1>14, <1>15, <1>16, <1>17, <1>18, <1>19, <1>20, <1>21, <1>22 DEF Next, Waits, Proceeds

\* Every step keeps the invariant.
LEMMA StepInv == Inv /\ [Next]_vars => Inv'
<1> SUFFICES ASSUME Inv, [Next]_vars PROVE Inv'
  OBVIOUS
<1>1. Bounded'
  BY StepBounded
<1> USE DEF Inv, At, Goto, Reply, Doc, Handed, Pending, Admitted
<1>2. CASE UNCHANGED vars
  BY <1>1, <1>2 DEF vars, TypeOK, LocksHeld, CallAt, AnswerAt, HandlesIssued, HandedOnce, InEngine
<1>3. ASSUME NEW t \in Threads, CallGrammar(t) PROVE Inv'
  <2>1. TypeOK'
    BY <1>3 DEF CallGrammar, Enter, TypeOK, PC, Handles, Passed, Answers, Verdicts
  <2>2. LocksHeld'
    BY <1>3 DEF CallGrammar, Enter, TypeOK, LocksHeld, InEngine, PC, Handles
  <2>3. CallAt' /\ AnswerAt'
    BY <1>3 DEF CallGrammar, Enter, TypeOK, CallAt, AnswerAt, PC, Verdicts
  <2>4. HandlesIssued'
    BY <1>3 DEF CallGrammar, Enter, TypeOK, HandlesIssued, HandedOnce, AnswerAt, PC, Handles, Verdicts
  <2>5. QED
    BY <1>1, <2>1, <2>2, <2>3, <2>4
<1>4. ASSUME NEW t \in Threads, CallParse(t) PROVE Inv'
  <2>1. TypeOK'
    BY <1>4 DEF CallParse, Enter, TypeOK, PC, Handles, Passed, Answers, Verdicts
  <2>2. LocksHeld'
    BY <1>4 DEF CallParse, Enter, TypeOK, LocksHeld, InEngine, PC, Handles
  <2>3. CallAt' /\ AnswerAt'
    BY <1>4 DEF CallParse, Enter, TypeOK, CallAt, AnswerAt, PC, Verdicts
  <2>4. HandlesIssued'
    BY <1>4 DEF CallParse, Enter, TypeOK, HandlesIssued, HandedOnce, AnswerAt, PC, Handles, Verdicts
  <2>5. QED
    BY <1>1, <2>1, <2>2, <2>3, <2>4
<1>5. ASSUME NEW t \in Threads, CallFree(t) PROVE Inv'
  <2>1. TypeOK'
    BY <1>5 DEF CallFree, Enter, TypeOK, PC, Handles, Passed, Answers, Verdicts
  <2>2. LocksHeld'
    BY <1>5 DEF CallFree, Enter, TypeOK, LocksHeld, InEngine, PC, Handles
  <2>3. CallAt' /\ AnswerAt'
    BY <1>5 DEF CallFree, Enter, TypeOK, CallAt, AnswerAt, PC, Verdicts
  <2>4. HandlesIssued'
    BY <1>5 DEF CallFree, Enter, TypeOK, HandlesIssued, HandedOnce, AnswerAt, PC, Handles, Verdicts
  <2>5. QED
    BY <1>1, <2>1, <2>2, <2>3, <2>4
<1>6. ASSUME NEW t \in Threads, Refuse(t) PROVE Inv'
  <2>1. TypeOK'
    BY <1>6 DEF Refuse, TypeOK, PC, Handles, Passed, Answers, Verdicts
  <2>2. LocksHeld'
    BY <1>6 DEF Refuse, TypeOK, LocksHeld, InEngine, PC, Handles
  <2>3. CallAt' /\ AnswerAt'
    BY <1>6 DEF Refuse, TypeOK, CallAt, AnswerAt, PC, Verdicts
  <2>4. HandlesIssued'
    BY <1>6 DEF Refuse, TypeOK, HandlesIssued, HandedOnce, AnswerAt, PC, Handles, Verdicts
  <2>5. QED
    BY <1>1, <2>1, <2>2, <2>3, <2>4
<1>7. ASSUME NEW t \in Threads, Accept(t) PROVE Inv'
  <2>1. TypeOK'
    BY <1>7 DEF Accept, TypeOK, PC, Handles, Passed, Answers, Verdicts
  <2>2. LocksHeld'
    BY <1>7 DEF Accept, TypeOK, LocksHeld, InEngine, PC, Handles
  <2>3. CallAt' /\ AnswerAt'
    BY <1>7 DEF Accept, TypeOK, CallAt, AnswerAt, PC, Verdicts
  <2>4. HandlesIssued'
    BY <1>7 DEF Accept, TypeOK, HandlesIssued, HandedOnce, AnswerAt, PC, Handles, Verdicts
  <2>5. QED
    BY <1>1, <2>1, <2>2, <2>3, <2>4
<1>8. ASSUME NEW t \in Threads, BuildFails(t) PROVE Inv'
  <2>1. TypeOK'
    BY <1>8 DEF BuildFails, TypeOK, PC, Handles, Passed, Answers, Verdicts
  <2>2. LocksHeld'
    BY <1>8 DEF BuildFails, TypeOK, LocksHeld, InEngine, PC, Handles
  <2>3. CallAt' /\ AnswerAt'
    BY <1>8 DEF BuildFails, TypeOK, CallAt, AnswerAt, PC, Verdicts
  <2>4. HandlesIssued'
    BY <1>8 DEF BuildFails, TypeOK, HandlesIssued, HandedOnce, AnswerAt, PC, Handles, Verdicts
  <2>5. QED
    BY <1>1, <2>1, <2>2, <2>3, <2>4
<1>9. ASSUME NEW t \in Threads, BuildSucceeds(t) PROVE Inv'
  <2>1. TypeOK'
    BY <1>9 DEF BuildSucceeds, TypeOK, PC, Handles, Passed, Answers, Verdicts
  <2>2. LocksHeld'
    BY <1>9 DEF BuildSucceeds, TypeOK, LocksHeld, InEngine, PC, Handles
  <2>3. CallAt' /\ AnswerAt'
    BY <1>9 DEF BuildSucceeds, TypeOK, CallAt, AnswerAt, PC, Verdicts
  <2>4. HandlesIssued'
    BY <1>9 DEF BuildSucceeds, TypeOK, HandlesIssued, HandedOnce, AnswerAt, PC, Handles, Verdicts
  <2>5. QED
    BY <1>1, <2>1, <2>2, <2>3, <2>4
<1>10. ASSUME NEW t \in Threads, Announce(t) PROVE Inv'
  <2>1. TypeOK'
    BY <1>10 DEF Announce, TypeOK, PC, Handles, Passed, Answers, Verdicts
  <2>2. LocksHeld'
    BY <1>10 DEF Announce, TypeOK, LocksHeld, InEngine, PC, Handles
  <2>3. CallAt' /\ AnswerAt'
    BY <1>10 DEF Announce, TypeOK, CallAt, AnswerAt, PC, Verdicts
  <2>4. HandlesIssued'
    BY <1>10 DEF Announce, TypeOK, HandlesIssued, HandedOnce, AnswerAt, PC, Handles, Verdicts
  <2>5. QED
    BY <1>1, <2>1, <2>2, <2>3, <2>4
<1>11. ASSUME NEW t \in Threads, Lock(t) PROVE Inv'
  <2>1. TypeOK'
    BY <1>11 DEF Lock, TypeOK, PC, Handles, Passed, Answers, Verdicts
  <2>2. LocksHeld'
    BY <1>11 DEF Lock, TypeOK, LocksHeld, InEngine, PC, Handles
  <2>3. CallAt' /\ AnswerAt'
    BY <1>11 DEF Lock, TypeOK, CallAt, AnswerAt, PC, Verdicts
  <2>4. HandlesIssued'
    BY <1>11 DEF Lock, TypeOK, HandlesIssued, HandedOnce, AnswerAt, PC, Handles, Verdicts
  <2>5. QED
    BY <1>1, <2>1, <2>2, <2>3, <2>4
<1>12. ASSUME NEW t \in Threads, Register(t) PROVE Inv'
  <2>0. nextID + 1 <= MaxHandles
    <3>1. Cardinality(Building') \in Nat
      BY FS_Subset, FS_CardinalityType DEF Building
    <3>2. QED
      BY <1>1, <1>12, <3>1 DEF Register, Bounded, TypeOK
  <2>1. TypeOK'
    BY <1>12, <2>0 DEF Register, TypeOK, PC, Handles, Passed, Answers, Verdicts
  <2>2. LocksHeld'
    BY <1>12 DEF Register, TypeOK, LocksHeld, InEngine, PC, Handles
  <2>3. CallAt' /\ AnswerAt'
    BY <1>12 DEF Register, TypeOK, CallAt, AnswerAt, PC, Verdicts
  <2>4. HandlesIssued'
    BY <1>12 DEF Register, TypeOK, HandlesIssued, HandedOnce, AnswerAt, PC, Handles, Verdicts
  <2>5. QED
    BY <1>1, <2>1, <2>2, <2>3, <2>4
<1>13. ASSUME NEW t \in Threads, Delete(t) PROVE Inv'
  <2>1. TypeOK'
    BY <1>13 DEF Delete, TypeOK, PC, Handles, Passed, Answers, Verdicts
  <2>2. LocksHeld'
    BY <1>13 DEF Delete, TypeOK, LocksHeld, InEngine, PC, Handles
  <2>3. CallAt' /\ AnswerAt'
    BY <1>13 DEF Delete, TypeOK, CallAt, AnswerAt, PC, Verdicts
  <2>4. HandlesIssued'
    BY <1>13 DEF Delete, TypeOK, HandlesIssued, HandedOnce, AnswerAt, PC, Handles, Verdicts
  <2>5. QED
    BY <1>1, <2>1, <2>2, <2>3, <2>4
<1>14. ASSUME NEW t \in Threads, Unlock(t) PROVE Inv'
  <2>1. TypeOK'
    BY <1>14 DEF Unlock, TypeOK, PC, Handles, Passed, Answers, Verdicts
  <2>2. LocksHeld'
    BY <1>14 DEF Unlock, TypeOK, LocksHeld, InEngine, PC, Handles
  <2>3. CallAt' /\ AnswerAt'
    BY <1>14 DEF Unlock, TypeOK, CallAt, AnswerAt, PC, Verdicts
  <2>4. HandlesIssued'
    BY <1>14 DEF Unlock, TypeOK, HandlesIssued, HandedOnce, AnswerAt, PC, Handles, Verdicts
  <2>5. QED
    BY <1>1, <2>1, <2>2, <2>3, <2>4
<1>15. ASSUME NEW t \in Threads, RLock(t) PROVE Inv'
  <2>1. TypeOK'
    BY <1>15 DEF RLock, TypeOK, PC, Handles, Passed, Answers, Verdicts
  <2>2. LocksHeld'
    BY <1>15 DEF RLock, TypeOK, LocksHeld, InEngine, PC, Handles
  <2>3. CallAt' /\ AnswerAt'
    BY <1>15 DEF RLock, TypeOK, CallAt, AnswerAt, PC, Verdicts
  <2>4. HandlesIssued'
    BY <1>15 DEF RLock, TypeOK, HandlesIssued, HandedOnce, AnswerAt, PC, Handles, Verdicts
  <2>5. QED
    BY <1>1, <2>1, <2>2, <2>3, <2>4
<1>16. ASSUME NEW t \in Threads, Lookup(t) PROVE Inv'
  <2>1. TypeOK'
    BY <1>16 DEF Lookup, TypeOK, PC, Handles, Passed, Answers, Verdicts
  <2>2. LocksHeld'
    BY <1>16 DEF Lookup, TypeOK, LocksHeld, InEngine, PC, Handles
  <2>3. CallAt' /\ AnswerAt'
    BY <1>16 DEF Lookup, TypeOK, CallAt, AnswerAt, PC, Verdicts, Handles, Passed
  <2>4. HandlesIssued'
    BY <1>16 DEF Lookup, TypeOK, HandlesIssued, HandedOnce, AnswerAt, PC, Handles, Verdicts
  <2>5. QED
    BY <1>1, <2>1, <2>2, <2>3, <2>4
<1>17. ASSUME NEW t \in Threads, RUnlock(t) PROVE Inv'
  <2>1. TypeOK'
    BY <1>17 DEF RUnlock, TypeOK, PC, Handles, Passed, Answers, Verdicts
  <2>2. LocksHeld'
    BY <1>17 DEF RUnlock, TypeOK, LocksHeld, InEngine, PC, Handles
  <2>3. CallAt' /\ AnswerAt'
    BY <1>17 DEF RUnlock, TypeOK, CallAt, AnswerAt, PC, Verdicts
  <2>4. HandlesIssued'
    BY <1>17 DEF RUnlock, TypeOK, HandlesIssued, HandedOnce, AnswerAt, PC, Handles, Verdicts
  <2>5. QED
    BY <1>1, <2>1, <2>2, <2>3, <2>4
<1>18. ASSUME NEW t \in Threads, LockEngine(t) PROVE Inv'
  <2>1. TypeOK'
    BY <1>18 DEF LockEngine, TypeOK, PC, Handles, Passed, Answers, Verdicts
  <2>2. LocksHeld'
    BY <1>18 DEF LockEngine, TypeOK, LocksHeld, InEngine, PC, Handles
  <2>3. CallAt' /\ AnswerAt'
    BY <1>18 DEF LockEngine, TypeOK, CallAt, AnswerAt, PC, Verdicts
  <2>4. HandlesIssued'
    BY <1>18 DEF LockEngine, TypeOK, HandlesIssued, HandedOnce, AnswerAt, PC, Handles, Verdicts
  <2>5. QED
    BY <1>1, <2>1, <2>2, <2>3, <2>4
<1>19. ASSUME NEW t \in Threads, Parse(t) PROVE Inv'
  <2>1. TypeOK'
    BY <1>19 DEF Parse, TypeOK, PC, Handles, Passed, Answers, Verdicts
  <2>2. LocksHeld'
    BY <1>19 DEF Parse, TypeOK, LocksHeld, InEngine, PC, Handles
  <2>3. CallAt' /\ AnswerAt'
    BY <1>19 DEF Parse, TypeOK, CallAt, AnswerAt, PC, Verdicts
  <2>4. HandlesIssued'
    BY <1>19 DEF Parse, TypeOK, HandlesIssued, HandedOnce, AnswerAt, PC, Handles, Verdicts
  <2>5. QED
    BY <1>1, <2>1, <2>2, <2>3, <2>4
<1>20. ASSUME NEW t \in Threads, UnlockEngine(t) PROVE Inv'
  <2>1. TypeOK'
    BY <1>20 DEF UnlockEngine, TypeOK, PC, Handles, Passed, Answers, Verdicts
  <2>2. LocksHeld'
    BY <1>20 DEF UnlockEngine, TypeOK, LocksHeld, InEngine, PC, Handles
  <2>3. CallAt' /\ AnswerAt'
    BY <1>20 DEF UnlockEngine, TypeOK, CallAt, AnswerAt, PC, Verdicts
  <2>4. HandlesIssued'
    BY <1>20 DEF UnlockEngine, TypeOK, HandlesIssued, HandedOnce, AnswerAt, PC, Handles, Verdicts
  <2>5. QED
    BY <1>1, <2>1, <2>2, <2>3, <2>4
<1>21. ASSUME NEW t \in Threads, Return(t) PROVE Inv'
  <2>1. TypeOK'
    BY <1>21 DEF Return, TypeOK, PC, Handles, Passed, Answers, Verdicts
  <2>2. LocksHeld'
    BY <1>21 DEF Return, TypeOK, LocksHeld, InEngine, PC, Handles
  <2>3. CallAt' /\ AnswerAt'
    BY <1>21 DEF Return, TypeOK, CallAt, AnswerAt, PC, Verdicts
  <2>4. HandlesIssued'
    BY <1>21 DEF Return, TypeOK, HandlesIssued, HandedOnce, AnswerAt, PC, Handles, Verdicts
  <2>5. QED
    BY <1>1, <2>1, <2>2, <2>3, <2>4
<1>22. QED
  BY <1>2, <1>3, <1>4, <1>5, <1>6, <1>7, <1>8, <1>9, <1>10, <1>11, <1>12, <1>13, <1>14, <1>15, <1>16, <1>17, <1>18, <1>19, <1>20, <1>21 DEF Next, Waits, Proceeds

\* The invariant holds in every reachable state.
LEMMA Invariance == Spec => []Inv
  BY InitInv, StepInv, PTL DEF Spec

-----------------------------------------------------------------------------
(* What follows from the invariant.                                        *)

\* TypeOK, for any number of threads and parsers.
THEOREM TypeCorrect == Spec => []TypeOK
  BY Invariance, PTL DEF Inv

\* No two threads are ever inside the engine of one parser: parseWith holds
\* the parser's mutex around the engine, and finds no parser but its own.
THEOREM EnginesExclude == Spec => []EngineExclusion
<1>1. Inv => EngineExclusion
  BY DEF Inv, TypeOK, LocksHeld, AnswerAt, EngineExclusion, InEngine, Handles
<1>2. QED
  BY <1>1, Invariance, PTL

\* The map is never written while another thread reads or writes it.
THEOREM RegistryExcludes == Spec => []RegistryExclusion
<1>1. Inv => RegistryExclusion
  BY DEF Inv, LocksHeld, RegistryExclusion
<1>2. QED
  BY <1>1, Invariance, PTL

\* A thread that is back in the host holds no lock.
THEOREM LocksReturned == Spec => []NoLockKept
<1>1. Inv => NoLockKept
  BY DEF Inv, LocksHeld, NoLockKept, InEngine
<1>2. QED
  BY <1>1, Invariance, PTL

\* No handle is handed to two threads.
THEOREM HandlesHandedOnce == Spec => []HandedOnce
  BY Invariance, PTL DEF Inv, HandlesIssued

\* A handle that was freed never names a parser again: ids only grow.
THEOREM FreedForGood == Spec => NeverRevived
<1>1. ASSUME Inv, [Next]_vars,
             NEW h \in Handles, h <= nextID, h \notin loaded
      PROVE  h \notin loaded'
  <2> USE DEF Inv, TypeOK, Handles
  <2>1. CASE UNCHANGED vars
    BY <1>1, <2>1 DEF vars
  <2>2. CASE loaded' = loaded
    BY <1>1, <2>2
  <2>3. ASSUME NEW t \in Threads, Register(t) PROVE h \notin loaded'
    BY <1>1, <2>3 DEF Register
  <2>4. ASSUME NEW t \in Threads, Delete(t) PROVE h \notin loaded'
    BY <1>1, <2>4 DEF Delete
  <2>5. QED
    BY <1>1, <2>1, <2>2, <2>3, <2>4
    DEF Next, Waits, Proceeds, CallGrammar, CallParse, CallFree, Enter, Refuse, Accept,
        BuildFails, BuildSucceeds, Announce, Lock, Unlock, RLock, Lookup, RUnlock,
        LockEngine, Parse, UnlockEngine, Return
<1>2. Inv /\ [Next]_vars =>
        [\A h \in Handles : h <= nextID /\ h \notin loaded => h \notin loaded']_vars
  BY <1>1
<1>3. QED
  BY <1>2, Invariance, PTL DEF Spec, NeverRevived

-----------------------------------------------------------------------------
(* The registry implements the atomic table: every call takes its effect   *)
(* at the step that reads or writes the map, and every other step of it    *)
(* leaves the table as it is.                                              *)

\* What the refinement mapping gives for call.
TableCall == [t \in Threads |->
                IF pc[t] = "idle" THEN [op |-> "none"]
                ELSE [op |-> op[t], handle |-> arg[t], answer |-> answer[t]]]

LEMMA TableInit == Init => Table!Init
  BY DEF Init, Table!Init, Table!Idle

LEMMA TableStep == Inv /\ [Next]_vars => [Table!Next]_(Table!tableVars)
<1> SUFFICES ASSUME Inv, [Next]_vars PROVE [Table!Next]_(Table!tableVars)
  OBVIOUS
<1> USE DEF Inv, TypeOK, CallAt, AnswerAt, At, Goto, Reply, Doc, Handed, Pending, Admitted
<1>1. CASE UNCHANGED vars
  BY <1>1 DEF vars, Table!tableVars
<1>2. ASSUME NEW t \in Threads, CallGrammar(t) PROVE Table!Begin(t)
  BY <1>2 DEF CallGrammar, Enter, Table!Begin, Table!Call, Table!Idle, Table!Pending, Table!Doc, PC
<1>3. ASSUME NEW t \in Threads, CallParse(t) PROVE Table!Begin(t)
  <2>1. PICK h \in Passed : Enter(t, "parse", h, "check")
    BY <1>3 DEF CallParse
  <2>2. TableCall[t] = Table!Idle
    BY <2>1 DEF Enter, TableCall, Table!Idle
  <2>3. TableCall' = [TableCall EXCEPT ![t] = Table!Call("parse", h, Table!Pending)]
    BY <2>1 DEF Enter, TableCall, Table!Call, Table!Pending, Table!Doc, PC
  <2>4. QED
    BY <2>1, <2>2, <2>3 DEF Enter, Table!Begin, TableCall
<1>4. ASSUME NEW t \in Threads, CallFree(t) PROVE Table!Begin(t)
  <2>1. PICK h \in Passed : Enter(t, "free", h, "lock")
    BY <1>4 DEF CallFree
  <2>2. TableCall[t] = Table!Idle
    BY <2>1 DEF Enter, TableCall, Table!Idle
  <2>3. TableCall' = [TableCall EXCEPT ![t] = Table!Call("free", h, Table!Pending)]
    BY <2>1 DEF Enter, TableCall, Table!Call, Table!Pending, Table!Doc, PC
  <2>4. QED
    BY <2>1, <2>2, <2>3 DEF Enter, Table!Begin, TableCall
<1>5. ASSUME NEW t \in Threads, Refuse(t) PROVE Table!RefuseGrammar(t) \/ Table!RefuseParse(t)
  BY <1>5 DEF Refuse, Table!RefuseGrammar, Table!RefuseParse, Table!InCall, Table!Settle, Table!Idle, Table!Call,
        Table!Doc, Table!Handed, Table!Pending, Table!Admitted, PC, Verdicts
<1>6. ASSUME NEW t \in Threads, Accept(t) PROVE UNCHANGED Table!tableVars
  BY <1>6 DEF Accept, Table!tableVars, PC
<1>7. ASSUME NEW t \in Threads, BuildFails(t) PROVE Table!RefuseGrammar(t)
  BY <1>7 DEF BuildFails, Table!RefuseGrammar, Table!InCall, Table!Settle, Table!Idle, Table!Call,
        Table!Doc, Table!Handed, Table!Pending, Table!Admitted, PC, Verdicts
<1>8. ASSUME NEW t \in Threads, BuildSucceeds(t) PROVE UNCHANGED Table!tableVars
  BY <1>8 DEF BuildSucceeds, Table!tableVars, PC
<1>9. ASSUME NEW t \in Threads, Announce(t) PROVE UNCHANGED Table!tableVars
  BY <1>9 DEF Announce, Table!tableVars, PC
<1>10. ASSUME NEW t \in Threads, Lock(t) PROVE UNCHANGED Table!tableVars
  BY <1>10 DEF Lock, Table!tableVars, PC
<1>11. ASSUME NEW t \in Threads, Register(t) PROVE Table!Issue(t)
  BY <1>11 DEF Register, Table!Issue, Table!InCall, Table!Settle, Table!Idle, Table!Call,
        Table!Doc, Table!Handed, Table!Pending, Table!Admitted, PC, Verdicts
<1>12. ASSUME NEW t \in Threads, Delete(t) PROVE Table!Free(t)
  BY <1>12 DEF Delete, Table!Free, Table!InCall, Table!Settle, Table!Idle, Table!Call,
        Table!Doc, Table!Handed, Table!Pending, Table!Admitted, PC, Verdicts
<1>13. ASSUME NEW t \in Threads, Unlock(t) PROVE UNCHANGED Table!tableVars
  BY <1>13 DEF Unlock, Table!tableVars, PC
<1>14. ASSUME NEW t \in Threads, RLock(t) PROVE UNCHANGED Table!tableVars
  BY <1>14 DEF RLock, Table!tableVars, PC
<1>15. ASSUME NEW t \in Threads, Lookup(t) PROVE Table!Bind(t)
  BY <1>15 DEF Lookup, Table!Bind, Table!InCall, Table!Settle, Table!Idle, Table!Call,
        Table!Doc, Table!Handed, Table!Pending, Table!Admitted, PC, Verdicts
<1>16. ASSUME NEW t \in Threads, RUnlock(t) PROVE UNCHANGED Table!tableVars
  BY <1>16 DEF RUnlock, Table!tableVars, PC
<1>17. ASSUME NEW t \in Threads, LockEngine(t) PROVE UNCHANGED Table!tableVars
  BY <1>17 DEF LockEngine, Table!tableVars, PC
<1>18. ASSUME NEW t \in Threads, Parse(t) PROVE Table!Judge(t)
  <2>1. PICK verdict \in Verdicts : Reply(t, Doc(verdict))
    BY <1>18 DEF Parse
  <2>2. Table!InCall(t, "parse", Table!Admitted)
    BY <1>18 DEF Parse, Table!InCall, Table!Idle, Table!Doc, Table!Admitted
  <2>3. Table!Settle(t, Table!Doc(verdict))
    BY <1>18, <2>1 DEF Parse, Table!Settle, Table!Doc, PC
  <2>4. QED
    BY <1>18, <2>2, <2>3 DEF Parse, Table!Judge
<1>19. ASSUME NEW t \in Threads, UnlockEngine(t) PROVE UNCHANGED Table!tableVars
  BY <1>19 DEF UnlockEngine, Table!tableVars, PC
<1>20. ASSUME NEW t \in Threads, Return(t) PROVE Table!Return(t)
  BY <1>20 DEF Return, Table!Return, Table!InCall, Table!Settle, Table!Idle, Table!Call,
        Table!Doc, Table!Handed, Table!Pending, Table!Admitted, PC, Verdicts
<1>21. QED
  BY <1>1, <1>2, <1>3, <1>4, <1>5, <1>6, <1>7, <1>8, <1>9, <1>10, <1>11, <1>12, <1>13, <1>14, <1>15, <1>16, <1>17, <1>18, <1>19, <1>20
  DEF Next, Waits, Proceeds, Table!Next

\* Every behaviour of the registry is a behaviour of the atomic table.
THEOREM RegistryIsTable == Spec => ImplementsTable
  BY TableInit, TableStep, Invariance, PTL DEF Spec, ImplementsTable, Table!Spec
=============================================================================
