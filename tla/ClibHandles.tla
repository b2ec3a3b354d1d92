----------------------------- MODULE ClibHandles -----------------------------
(***************************************************************************)
(* libtabnascsv's handle registry (go/clib/core.go): threads of the host   *)
(* call tabnas_grammar, tabnas_parse and tabnas_grammar_free at will.  The *)
(* map of loaded parsers is guarded by a sync.RWMutex; every parser, whose *)
(* engine is not safe for concurrent use, by a sync.Mutex of its own that  *)
(* is taken after the registry lock has been given back.                   *)
(*                                                                         *)
(* The two kinds of lock are the Go library's, modelled by what they do:   *)
(* a writer announces itself, which holds new readers back, then waits for *)
(* the readers inside to leave.                                            *)
(***************************************************************************)
EXTENDS Naturals, FiniteSets

CONSTANTS
  Threads,      \* the threads of the host process
  NoThread,
  MaxHandles    \* bound: how many parsers a behaviour builds

\* A process has finitely many threads.
ASSUME ThreadAssumption == IsFiniteSet(Threads) /\ NoThread \notin Threads
ASSUME HandleAssumption == MaxHandles \in Nat

VARIABLES
  pc,        \* where each thread is in the code
  op,        \* the entry point it called
  arg,       \* the handle it passed
  got,       \* the parser it found (g), or 0 for nil
  answer,    \* the reply document it has decided on
  writer,    \* reg: the thread that announced or holds the write lock
  readers,   \* reg: the threads that hold the read lock
  nextID,
  loaded,    \* the ids with a parser in the map
  holder     \* instance.mu: who holds each parser's mutex

vars == <<pc, op, arg, got, answer, writer, readers, nextID, loaded, holder>>

Handles  == 1 .. MaxHandles
Passed   == 0 .. MaxHandles + 1     \* what callers pass, unknown handles too
Verdicts == {"accept", "withheld", "reject", "internal"}
Answers  == Verdicts \union {"pending", "admitted", "usage", "grammar", "handle", "freed"}

\* The reply documents: only a registration's names a handle.
Doc(kind) == [doc |-> kind, handle |-> 0]
Handed(h) == [doc |-> "ok", handle |-> h]
Pending   == Doc("pending")        \* not decided yet
Admitted  == Doc("admitted")       \* a parser was found, its verdict is open

PC == {"idle", "check", "build", "lock", "drain", "update", "unlock",
       "rlock", "lookup", "runlock", "mutex", "engine", "leave", "reply"}

At(t, from)  == pc[t] = from
Goto(t, to)  == pc' = [pc EXCEPT ![t] = to]
Reply(t, as) == answer' = [answer EXCEPT ![t] = as]

-----------------------------------------------------------------------------
(* The entry points.                                                       *)

Enter(t, entry, handle, to) ==
  /\ At(t, "idle")
  /\ op' = [op EXCEPT ![t] = entry]
  /\ arg' = [arg EXCEPT ![t] = handle]
  /\ Goto(t, to)
  /\ UNCHANGED <<got, answer, writer, readers, nextID, loaded, holder>>

CallGrammar(t) == Enter(t, "grammar", 0, "check")
CallParse(t)   == \E h \in Passed : Enter(t, "parse", h, "check")
\* Mutant: the deletion does not take the registry lock.
CallFreeUnlocked(t) == \E h \in Passed : Enter(t, "free", h, "update")

CallFree(t)    == \E h \in Passed : Enter(t, "free", h, "lock")

\* A pointer and a length that make no buffer, and options other than none,
\* are refused before the registry is touched.
Refuse(t) ==
  /\ At(t, "check")
  /\ Goto(t, "reply") /\ Reply(t, Doc("usage"))
  /\ UNCHANGED <<op, arg, got, writer, readers, nextID, loaded, holder>>

Accept(t) ==
  /\ At(t, "check")
  /\ Goto(t, IF op[t] = "grammar" THEN "build" ELSE "rlock")
  /\ UNCHANGED <<op, arg, got, answer, writer, readers, nextID, loaded, holder>>

\* safeNew: an error or a panic of the construction is a reply.  The bound
\* counts parsers under construction too.
BuildFails(t) ==
  /\ At(t, "build")
  /\ Goto(t, "reply") /\ Reply(t, Doc("grammar"))
  /\ UNCHANGED <<op, arg, got, writer, readers, nextID, loaded, holder>>

Building == {t \in Threads : op[t] = "grammar" /\ pc[t] \in {"lock", "drain", "update"}}

BuildSucceeds(t) ==
  /\ At(t, "build")
  /\ nextID + Cardinality(Building) < MaxHandles
  /\ Goto(t, "lock")
  /\ UNCHANGED <<op, arg, got, answer, writer, readers, nextID, loaded, holder>>

-----------------------------------------------------------------------------
(* reg.Lock() ... reg.Unlock(), around the registration and the deletion.  *)

Announce(t) ==
  /\ At(t, "lock") /\ writer = NoThread
  /\ writer' = t
  /\ Goto(t, "drain")
  /\ UNCHANGED <<op, arg, got, answer, readers, nextID, loaded, holder>>

Lock(t) ==
  /\ At(t, "drain") /\ readers = {}
  /\ Goto(t, "update")
  /\ UNCHANGED <<op, arg, got, answer, writer, readers, nextID, loaded, holder>>

\* Mutant: the handle is the number of parsers in the map.
RegisterByCount(t) ==
  /\ At(t, "update") /\ op[t] = "grammar"
  /\ nextID' = Cardinality(loaded) + 1
  /\ loaded' = loaded \union {Cardinality(loaded) + 1}
  /\ Reply(t, Handed(Cardinality(loaded) + 1))
  /\ Goto(t, "unlock")
  /\ UNCHANGED <<op, arg, got, writer, readers, holder>>

Register(t) ==
  /\ At(t, "update") /\ op[t] = "grammar"
  /\ nextID' = nextID + 1
  /\ loaded' = loaded \union {nextID + 1}
  /\ Reply(t, Handed(nextID + 1))
  /\ Goto(t, "unlock")
  /\ UNCHANGED <<op, arg, got, writer, readers, holder>>

\* Mutant: nothing is deleted.
DeleteNothing(t) ==
  /\ At(t, "update") /\ op[t] = "free"
  /\ Reply(t, Doc("freed"))
  /\ Goto(t, "unlock")
  /\ UNCHANGED <<op, arg, got, writer, readers, nextID, loaded, holder>>

Delete(t) ==
  /\ At(t, "update") /\ op[t] = "free"
  /\ loaded' = loaded \ {arg[t]}
  /\ Reply(t, Doc("freed"))
  /\ Goto(t, "unlock")
  /\ UNCHANGED <<op, arg, got, writer, readers, nextID, holder>>

Unlock(t) ==
  /\ At(t, "unlock")
  /\ writer' = NoThread
  /\ Goto(t, "reply")
  /\ UNCHANGED <<op, arg, got, answer, readers, nextID, loaded, holder>>

-----------------------------------------------------------------------------
(* parseWith.                                                              *)

RLock(t) ==
  /\ At(t, "rlock") /\ writer = NoThread
  /\ readers' = readers \union {t}
  /\ Goto(t, "lookup")
  /\ UNCHANGED <<op, arg, got, answer, writer, nextID, loaded, holder>>

\* Mutant: an unknown handle is taken for a parser.
LookupUnchecked(t) ==
  /\ At(t, "lookup")
  /\ got' = [got EXCEPT ![t] = arg[t]]
  /\ Reply(t, IF arg[t] \in loaded THEN Admitted ELSE Doc("handle"))
  /\ Goto(t, "runlock")
  /\ UNCHANGED <<op, arg, writer, readers, nextID, loaded, holder>>

Lookup(t) ==
  /\ At(t, "lookup")
  /\ got' = [got EXCEPT ![t] = IF arg[t] \in loaded THEN arg[t] ELSE 0]
  /\ Reply(t, IF arg[t] \in loaded THEN Admitted ELSE Doc("handle"))
  /\ Goto(t, "runlock")
  /\ UNCHANGED <<op, arg, writer, readers, nextID, loaded, holder>>

\* Mutant: the reply to an unknown handle leaves without RUnlock.
RUnlockFound(t) ==
  /\ At(t, "runlock")
  /\ readers' = IF got[t] = 0 THEN readers ELSE readers \ {t}
  /\ Goto(t, IF got[t] = 0 THEN "reply" ELSE "mutex")
  /\ UNCHANGED <<op, arg, got, answer, writer, nextID, loaded, holder>>

RUnlock(t) ==
  /\ At(t, "runlock")
  /\ readers' = readers \ {t}
  /\ Goto(t, IF got[t] = 0 THEN "reply" ELSE "mutex")
  /\ UNCHANGED <<op, arg, got, answer, writer, nextID, loaded, holder>>

\* Mutant: the parser's mutex is not waited for.
LockEngineUnheld(t) ==
  /\ At(t, "mutex")
  /\ holder' = [holder EXCEPT ![got[t]] = t]
  /\ Goto(t, "engine")
  /\ UNCHANGED <<op, arg, got, answer, writer, readers, nextID, loaded>>

LockEngine(t) ==
  /\ At(t, "mutex") /\ holder[got[t]] = NoThread
  /\ holder' = [holder EXCEPT ![got[t]] = t]
  /\ Goto(t, "engine")
  /\ UNCHANGED <<op, arg, got, answer, writer, readers, nextID, loaded>>

\* Mutant: a panic leaves without unlocking.
ParsePanics(t) ==
  /\ At(t, "engine")
  /\ \E verdict \in Verdicts :
       /\ Reply(t, Doc(verdict))
       /\ Goto(t, IF verdict = "internal" THEN "reply" ELSE "leave")
  /\ UNCHANGED <<op, arg, got, writer, readers, nextID, loaded, holder>>

\* safeParse: the engine returns a value or an error, or panics, which
\* becomes an error.  What the reply will say is known here: acceptDoc and
\* errPayload only look at the result.
Parse(t) ==
  /\ At(t, "engine")
  /\ \E verdict \in Verdicts : Reply(t, Doc(verdict))
  /\ Goto(t, "leave")
  /\ UNCHANGED <<op, arg, got, writer, readers, nextID, loaded, holder>>

UnlockEngine(t) ==
  /\ At(t, "leave")
  /\ holder' = [holder EXCEPT ![got[t]] = NoThread]
  /\ Goto(t, "reply")
  /\ UNCHANGED <<op, arg, got, answer, writer, readers, nextID, loaded>>

Return(t) ==
  /\ At(t, "reply")
  /\ Goto(t, "idle")
  /\ op' = [op EXCEPT ![t] = "none"]
  /\ arg' = [arg EXCEPT ![t] = 0]
  /\ got' = [got EXCEPT ![t] = 0]
  /\ Reply(t, Pending)
  /\ UNCHANGED <<writer, readers, nextID, loaded, holder>>

-----------------------------------------------------------------------------

Init ==
  /\ pc = [t \in Threads |-> "idle"]
  /\ op = [t \in Threads |-> "none"]
  /\ arg = [t \in Threads |-> 0]
  /\ got = [t \in Threads |-> 0]
  /\ answer = [t \in Threads |-> Pending]
  /\ writer = NoThread
  /\ readers = {}
  /\ nextID = 0
  /\ loaded = {}
  /\ holder = [h \in Handles |-> NoThread]

\* The steps that wait for a lock, and those that do not.
Waits(t)    == Announce(t) \/ Lock(t) \/ RLock(t) \/ LockEngine(t)
Proceeds(t) ==
  \/ Refuse(t) \/ Accept(t)
  \/ BuildFails(t) \/ BuildSucceeds(t)
  \/ Register(t) \/ Delete(t) \/ Unlock(t)
  \/ Lookup(t) \/ RUnlock(t)
  \/ Parse(t) \/ UnlockEngine(t) \/ Return(t)

Next == \E t \in Threads :
  CallGrammar(t) \/ CallParse(t) \/ CallFree(t) \/ Waits(t) \/ Proceeds(t)

Spec == Init /\ [][Next]_vars

\* A thread inside the library keeps running, the engine returns, and the Go
\* runtime's locks starve nobody; whether a thread calls again is its affair.
Fairness == \A t \in Threads : WF_vars(Proceeds(t)) /\ SF_vars(Waits(t))

FairSpec == Spec /\ Fairness

-----------------------------------------------------------------------------
(* Properties.                                                             *)

TypeOK ==
  /\ pc \in [Threads -> PC]
  /\ op \in [Threads -> {"none", "grammar", "parse", "free"}]
  /\ arg \in [Threads -> Passed]
  /\ got \in [Threads -> {0} \union Handles]
  /\ answer \in [Threads -> {Doc(kind) : kind \in Answers} \union {Handed(h) : h \in Handles}]
  /\ writer \in Threads \union {NoThread}
  /\ readers \subseteq Threads
  /\ nextID \in 0 .. MaxHandles
  /\ loaded \subseteq Handles
  /\ holder \in [Handles -> Threads \union {NoThread}]

InEngine(t) == pc[t] \in {"engine", "leave"}

\* "Engines are not safe for concurrent Parse": no two threads are ever inside
\* the engine of one parser, freed in the meantime or not.
EngineExclusion ==
  \A t, u \in Threads : t # u /\ InEngine(t) /\ InEngine(u) => got[t] # got[u]

\* The map is never written while another thread reads or writes it: Go maps
\* are not safe for concurrent use.
RegistryExclusion ==
  \A t, u \in Threads :
    t # u /\ pc[t] = "update" => pc[u] \notin {"update", "lookup"}

\* A thread that is back in the host holds no lock, whatever became of its
\* call: a lock kept after a panic would block every later call.
NoLockKept ==
  \A t \in Threads : pc[t] \in {"idle", "check", "build", "reply"} =>
    writer # t /\ t \notin readers /\ \A h \in Handles : holder[h] # t

\* A handle that is not in the map, but has been issued, was freed, and stays
\* so: no later parser gets its number.
NeverRevived ==
  [][\A h \in Handles : h <= nextID /\ h \notin loaded => h \notin loaded']_vars

\* Two threads never hold the same handle fresh from tabnas_grammar.
HandedOnce ==
  \A t, u \in Threads : \A h \in Handles :
    t # u /\ answer[t] = Handed(h) => answer[u] # Handed(h)

\* Every call returns to its caller.
CallsReturn == \A t \in Threads : pc[t] # "idle" ~> pc[t] = "idle"

\* The registry implements HandleTable: each call acts at one instant, the
\* one at which it reads or writes the map.
Table == INSTANCE HandleTable
           WITH issued <- nextID,
                live   <- loaded,
                call   <- [t \in Threads |->
                             IF pc[t] = "idle" THEN [op |-> "none"]
                             ELSE [op |-> op[t], handle |-> arg[t], answer |-> answer[t]]]

ImplementsTable == Table!Spec
=============================================================================
