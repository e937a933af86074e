------------------------------ MODULE StoreLock ------------------------------
(***************************************************************************)
(* Store.Mutate step by step (internal/coordinator/store.go): the mutex    *)
(* that the handlers of one process share, the file lock that processes    *)
(* share, the load, the caller's function, the temporary file and the      *)
(* rename that replaces config.json.  Any step may fail and any process    *)
(* may die; the kernel then drops its file lock, and its memory is gone.   *)
(*                                                                         *)
(* Mutation <<a, n>> is the n-th call of actor a, a handler goroutine of   *)
(* the daemon or a management command.  The config is the set of mutations *)
(* it carries, so that one saved over another's shows as one missing.      *)
(***************************************************************************)
EXTENDS Naturals

CONSTANTS
  Actor,     \* goroutines and commands that call Mutate
  NoActor,   \* the holder of a free lock
  Process,   \* operating system processes
  ProcOf,    \* the process each actor runs in
  MaxCalls   \* bound: calls by each actor (a command makes one)

ASSUME LockAssumption ==
  /\ NoActor \notin Actor
  /\ ProcOf \in [Actor -> Process]
  /\ MaxCalls \in [Actor -> Nat]

VARIABLES
  pc,     \* where each actor is in Mutate
  calls,  \* how many calls each actor has made
  mu,     \* who holds the mutex of each process
  lock,   \* who holds the file lock
  copy,   \* the config each actor has in memory, {} for none
  file,   \* config.json
  acked   \* mutations reported as done

lockVars == <<pc, calls, mu, lock, copy, file, acked>>

Mutation == UNION {{a} \X (1 .. MaxCalls[a]) : a \in Actor}

PC == {"idle", "enter", "haveMu", "haveLock", "applied", "temp", "saved", "failed",
       "savedUnlocked", "failedUnlocked"}

LockTypeOK ==
  /\ pc \in [Actor -> PC]
  /\ calls \in [Actor -> Nat] /\ \A a \in Actor : calls[a] <= MaxCalls[a]
  /\ mu \in [Process -> Actor \cup {NoActor}]
  /\ lock \in Actor \cup {NoActor}
  /\ copy \in [Actor -> SUBSET Mutation]
  /\ file \in SUBSET Mutation
  /\ acked \in SUBSET Mutation

\* The mutation an actor is making, or has last made.
Mine(a) == <<a, calls[a]>>

LockInit ==
  /\ pc = [a \in Actor |-> "idle"]
  /\ calls = [a \in Actor |-> 0]
  /\ mu = [p \in Process |-> NoActor]
  /\ lock = NoActor
  /\ copy = [a \in Actor |-> {}]
  /\ file = {} /\ acked = {}

Goto(a, from, to) == pc[a] = from /\ pc' = [pc EXCEPT ![a] = to]

(***************************************************************************)
(* Mutate.                                                                 *)
(***************************************************************************)
Call(a) ==
  /\ Goto(a, "idle", "enter")
  /\ calls[a] < MaxCalls[a]
  /\ calls' = [calls EXCEPT ![a] = @ + 1]
  /\ UNCHANGED <<mu, lock, copy, file, acked>>

LockMu(a) ==
  /\ Goto(a, "enter", "haveMu")
  /\ mu[ProcOf[a]] = NoActor
  /\ mu' = [mu EXCEPT ![ProcOf[a]] = a]
  /\ UNCHANGED <<calls, lock, copy, file, acked>>

\* Mutant: the file lock is shared.
FlockShared(a) ==
  /\ Goto(a, "haveMu", "haveLock")
  /\ lock' = a
  /\ UNCHANGED <<calls, mu, copy, file, acked>>

\* The lock belongs to the file opened for this call, so it excludes other
\* goroutines of the same process as well.
Flock(a) ==
  /\ Goto(a, "haveMu", "haveLock")
  /\ lock = NoActor
  /\ lock' = a
  /\ UNCHANGED <<calls, mu, copy, file, acked>>

\* The lock file cannot be opened or locked.
FlockFails(a) ==
  /\ Goto(a, "haveMu", "failedUnlocked")
  /\ UNCHANGED <<calls, mu, lock, copy, file, acked>>

\* config.Load, and the caller's function on what it read.
LoadAndApply(a) ==
  /\ Goto(a, "haveLock", "applied")
  /\ copy' = [copy EXCEPT ![a] = file \cup {Mine(a)}]
  /\ UNCHANGED <<calls, mu, lock, file, acked>>

\* Mutant: config.json itself is truncated and written.
WriteInPlace(a) ==
  /\ Goto(a, "applied", "temp")
  /\ file' = {}
  /\ UNCHANGED <<calls, mu, lock, copy, acked>>

WriteTemp(a) ==
  /\ Goto(a, "applied", "temp")
  /\ UNCHANGED <<calls, mu, lock, copy, file, acked>>

\* Mutant: a failed rename is not reported.
RenameUnchecked(a) ==
  /\ Goto(a, "temp", "saved")
  /\ file' \in {file, copy[a]}
  /\ copy' = [copy EXCEPT ![a] = {}]
  /\ UNCHANGED <<calls, mu, lock, acked>>

Rename(a) ==
  /\ Goto(a, "temp", "saved")
  /\ file' = copy[a]
  /\ copy' = [copy EXCEPT ![a] = {}]
  /\ UNCHANGED <<calls, mu, lock, acked>>

\* The load, the caller's function, the temporary file or the rename fails.
Fail(a) ==
  /\ Goto(a, "haveLock", "failed") \/ Goto(a, "applied", "failed") \/ Goto(a, "temp", "failed")
  /\ copy' = [copy EXCEPT ![a] = {}]
  /\ UNCHANGED <<calls, mu, lock, file, acked>>

\* Mutant: the lock is not released after an error.
UnflockOnSuccess(a) ==
  \/ /\ Goto(a, "saved", "savedUnlocked")
     /\ lock' = NoActor
     /\ UNCHANGED <<calls, mu, copy, file, acked>>
  \/ /\ Goto(a, "failed", "failedUnlocked")
     /\ UNCHANGED <<calls, mu, lock, copy, file, acked>>

\* Deferred calls run last first: the file lock goes before the mutex.
Unflock(a) ==
  /\ Goto(a, "saved", "savedUnlocked") \/ Goto(a, "failed", "failedUnlocked")
  /\ lock' = NoActor
  /\ UNCHANGED <<calls, mu, copy, file, acked>>

Return(a) ==
  /\ \/ Goto(a, "savedUnlocked", "idle") /\ acked' = acked \cup {Mine(a)}
     \/ Goto(a, "failedUnlocked", "idle") /\ UNCHANGED acked
  /\ mu' = [mu EXCEPT ![ProcOf[a]] = NoActor]
  /\ UNCHANGED <<calls, lock, copy, file>>

(***************************************************************************)
(* What happens around it.                                                 *)
(***************************************************************************)

\* A process dies with all its calls; the kernel drops the file lock it held.
Crash(p) ==
  /\ pc' = [a \in Actor |-> IF ProcOf[a] = p THEN "idle" ELSE pc[a]]
  /\ mu' = [mu EXCEPT ![p] = NoActor]
  /\ lock' = IF lock \in Actor /\ ProcOf[lock] = p THEN NoActor ELSE lock
  /\ copy' = [a \in Actor |-> IF ProcOf[a] = p THEN {} ELSE copy[a]]
  /\ UNCHANGED <<calls, file, acked>>

(***************************************************************************)
(* Specification.                                                          *)
(***************************************************************************)
Step(a) == LoadAndApply(a) \/ WriteTemp(a) \/ Rename(a) \/ Unflock(a) \/ Return(a)

LockNext ==
  \/ \E a \in Actor : Call(a) \/ LockMu(a) \/ Flock(a) \/ FlockFails(a) \/ Step(a) \/ Fail(a)
  \/ \E p \in Process : Crash(p)

LockSpec == LockInit /\ [][LockNext]_lockVars

\* Goroutines and processes keep running, and whoever waits for a lock that is
\* free again and again gets it (the mutex and the kernel queue their waiters).
LockFairness ==
  \A a \in Actor : /\ WF_lockVars(Step(a) \/ Fail(a))
                   /\ SF_lockVars(LockMu(a)) /\ SF_lockVars(Flock(a))

LockLiveSpec == LockSpec /\ LockFairness

(***************************************************************************)
(* Properties.                                                             *)
(***************************************************************************)

Holding(a) == pc[a] \in {"haveLock", "applied", "temp", "saved", "failed"}

\* The config that an actor is about to save is the current one with its own
\* mutation added, from the load to the rename: one actor at a time holds the
\* lock, and no one else writes meanwhile.
CopyIsCurrent ==
  /\ LockTypeOK
  /\ \A a \in Actor :
       /\ Holding(a) <=> lock = a
       /\ pc[a] \in {"applied", "temp"} => copy[a] = file \cup {Mine(a)}
       /\ pc[a] \in {"saved", "savedUnlocked"} => Mine(a) \in file

\* No mutation reported as done is ever lost, whoever else mutates, fails or dies.
AckedSurvive == acked \subseteq file

\* Mutate is the atomic operation of module Store.
Atomic == INSTANCE Store

MutateIsAtomic == Atomic!Spec

\* Every call comes to an end, with an answer or with its process.
CallsReturn == \A a \in Actor : pc[a] # "idle" ~> pc[a] = "idle"

==============================================================================
