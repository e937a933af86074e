--------------------------- MODULE StoreLockProofs ---------------------------
(***************************************************************************)
(* Store.Mutate implements the atomic store, for any number of processes   *)
(* and goroutines.  The invariant says that the copy in the hands of the   *)
(* lock's holder is the current config with its own mutation added; the    *)
(* rename is then the instant at which the mutation is applied, and every  *)
(* other step leaves the store alone.  The mutex plays no part in it: the  *)
(* file lock is taken on a file opened anew and excludes goroutines too.   *)
(***************************************************************************)
EXTENDS StoreLock, TLAPS

StoreInv == CopyIsCurrent /\ AckedSurvive

\* An actor in the middle of a call has a mutation to make.
Busy == \A a \in Actor : pc[a] # "idle" => calls[a] \in 1 .. MaxCalls[a]

LockInv == StoreInv /\ Busy

LEMMA MineIsMutation ==
  ASSUME LockInv, NEW a \in Actor, pc[a] # "idle" PROVE Mine(a) \in Mutation
BY DEF LockInv, Busy, Mine, Mutation

LEMMA InitLockInv == LockInit => LockInv
BY LockAssumption DEF LockAssumption, LockInit, LockInv, StoreInv, LockTypeOK, CopyIsCurrent,
   AckedSurvive, Busy, Holding, PC

(***************************************************************************)
(* Each step keeps the invariant.                                          *)
(***************************************************************************)
\* Only a call's start changes which mutation is an actor's own, and it is then
\* neither held nor saved.
LEMMA CallKeepsInv ==
  ASSUME LockInv, NEW a \in Actor, Call(a) PROVE LockInv'
<1>1. /\ pc[a] = "idle" /\ pc' = [pc EXCEPT ![a] = "enter"]
      /\ calls[a] < MaxCalls[a] /\ calls' = [calls EXCEPT ![a] = @ + 1]
      /\ UNCHANGED <<mu, lock, copy, file, acked>>
  BY DEF Call, Goto
<1>2. calls[a] + 1 \in 1 .. MaxCalls[a]
  <2>1. MaxCalls[a] \in Nat
    BY LockAssumption DEF LockAssumption
  <2>2. calls[a] \in Nat
    BY DEF LockInv, StoreInv, CopyIsCurrent, LockTypeOK
  <2>3. QED
    BY <1>1, <2>1, <2>2
<1>3. /\ calls' \in [Actor -> Nat]
      /\ \A b \in Actor : calls'[b] = IF b = a THEN calls[a] + 1 ELSE calls[b]
  BY <1>1, <1>2 DEF LockInv, StoreInv, CopyIsCurrent, LockTypeOK
<1>4. LockTypeOK'
  <2>1. pc' \in [Actor -> PC]
    BY <1>1 DEF LockInv, StoreInv, CopyIsCurrent, LockTypeOK, PC
  <2>2. \A b \in Actor : calls'[b] <= MaxCalls[b]
    BY <1>2, <1>3 DEF LockInv, StoreInv, CopyIsCurrent, LockTypeOK
  <2>3. QED
    BY <1>1, <1>3, <2>1, <2>2 DEF LockInv, StoreInv, CopyIsCurrent, LockTypeOK
<1>5. CopyIsCurrent'
  <2> SUFFICES ASSUME NEW b \in Actor
               PROVE  /\ Holding(b)' <=> lock' = b
                      /\ pc'[b] \in {"applied", "temp"} => copy'[b] = file' \cup {Mine(b)'}
                      /\ pc'[b] \in {"saved", "savedUnlocked"} => Mine(b)' \in file'
    BY <1>4 DEF CopyIsCurrent
  <2>1. CASE b = a
    BY <1>1, <2>1 DEF LockInv, StoreInv, CopyIsCurrent, LockTypeOK, Holding
  <2>2. CASE b # a
    <3>1. pc'[b] = pc[b] /\ Mine(b)' = Mine(b)
      BY <1>1, <2>2 DEF LockInv, StoreInv, CopyIsCurrent, LockTypeOK, Mine
    <3>2. QED
      BY <1>1, <3>1 DEF LockInv, StoreInv, CopyIsCurrent, Holding
  <2>3. QED
    BY <2>1, <2>2
<1>6. AckedSurvive'
  BY <1>1 DEF LockInv, StoreInv, AckedSurvive
<1>7. Busy'
  BY <1>1, <1>2, <1>3 DEF LockInv, StoreInv, CopyIsCurrent, LockTypeOK, Busy
<1>8. QED
  BY <1>5, <1>6, <1>7 DEF LockInv, StoreInv

LEMMA LockMuKeepsInv ==
  ASSUME LockInv, NEW a \in Actor, LockMu(a) PROVE LockInv'
BY LockAssumption DEF LockAssumption, LockInv, StoreInv, Busy, LockTypeOK, CopyIsCurrent,
   AckedSurvive, Holding, PC, LockMu, Goto, Mine

LEMMA FlockKeepsInv ==
  ASSUME LockInv, NEW a \in Actor, Flock(a) \/ FlockFails(a) PROVE LockInv'
BY LockAssumption DEF LockAssumption, LockInv, StoreInv, Busy, LockTypeOK, CopyIsCurrent,
   AckedSurvive, Holding, PC, Flock, FlockFails, Goto, Mine

LEMMA LoadKeepsInv ==
  ASSUME LockInv, NEW a \in Actor, LoadAndApply(a) PROVE LockInv'
BY MineIsMutation DEF LockInv, StoreInv, Busy, LockTypeOK, CopyIsCurrent,
   AckedSurvive, Holding, PC, LoadAndApply, Goto, Mine

LEMMA WriteTempKeepsInv ==
  ASSUME LockInv, NEW a \in Actor, WriteTemp(a) PROVE LockInv'
BY DEF LockInv, StoreInv, Busy, LockTypeOK, CopyIsCurrent,
   AckedSurvive, Holding, PC, WriteTemp, Goto, Mine

LEMMA RenameKeepsInv ==
  ASSUME LockInv, NEW a \in Actor, Rename(a) PROVE LockInv'
BY DEF LockInv, StoreInv, Busy, LockTypeOK, CopyIsCurrent,
   AckedSurvive, Holding, PC, Rename, Goto, Mine

LEMMA FailKeepsInv ==
  ASSUME LockInv, NEW a \in Actor, Fail(a) PROVE LockInv'
BY DEF LockInv, StoreInv, Busy, LockTypeOK, CopyIsCurrent,
   AckedSurvive, Holding, PC, Fail, Goto, Mine

LEMMA UnflockKeepsInv ==
  ASSUME LockInv, NEW a \in Actor, Unflock(a) PROVE LockInv'
BY LockAssumption DEF LockAssumption, LockInv, StoreInv, Busy, LockTypeOK, CopyIsCurrent,
   AckedSurvive, Holding, PC, Unflock, Goto, Mine

LEMMA ReturnKeepsInv ==
  ASSUME LockInv, NEW a \in Actor, Return(a) PROVE LockInv'
BY LockAssumption, MineIsMutation DEF LockAssumption, LockInv, StoreInv, Busy, LockTypeOK, CopyIsCurrent,
   AckedSurvive, Holding, PC, Return, Goto, Mine

LEMMA CrashKeepsInv ==
  ASSUME LockInv, NEW p \in Process, Crash(p) PROVE LockInv'
BY LockAssumption DEF LockAssumption, LockInv, StoreInv, Busy, LockTypeOK, CopyIsCurrent,
   AckedSurvive, Holding, PC, Crash, Mine

LEMMA NextKeepsInv == LockInv /\ [LockNext]_lockVars => LockInv'
<1> SUFFICES ASSUME LockInv, [LockNext]_lockVars PROVE LockInv'
  OBVIOUS
<1>1. CASE UNCHANGED lockVars
  BY <1>1 DEF lockVars, LockInv, StoreInv, Busy, LockTypeOK, CopyIsCurrent, AckedSurvive,
     Holding, Mine
<1>2. CASE LockNext
  BY <1>2, CallKeepsInv, LockMuKeepsInv, FlockKeepsInv, LoadKeepsInv, WriteTempKeepsInv,
     RenameKeepsInv, FailKeepsInv, UnflockKeepsInv, ReturnKeepsInv, CrashKeepsInv
     DEF LockNext, Step
<1>3. QED
  BY <1>1, <1>2

LEMMA LockInvariant == LockSpec => []LockInv
BY InitLockInv, NextKeepsInv, PTL DEF LockSpec

\* Whoever holds the lock is alone with it and is about to save the current config
\* with its own mutation added, for any number of goroutines and processes.
THEOREM HolderIsCurrent == LockSpec => []CopyIsCurrent
<1>1. LockInv => CopyIsCurrent
  BY DEF LockInv, StoreInv
<1> QED BY <1>1, LockInvariant, PTL

\* Every mutation reported as done is in config.json, whatever failed or died since.
THEOREM AcknowledgedIsSaved == LockSpec => []AckedSurvive
<1>1. LockInv => AckedSurvive
  BY DEF LockInv, StoreInv
<1> QED BY <1>1, LockInvariant, PTL

(***************************************************************************)
(* Refinement: a rename applies a mutation, a successful return            *)
(* acknowledges one, and nothing else shows.                               *)
(***************************************************************************)
LEMMA StepIsAtomic ==
  ASSUME LockInv, [LockNext]_lockVars PROVE [Atomic!Next]_<<file, acked>>
<1>1. CASE \E a \in Actor : Rename(a)
  <2>1. PICK a \in Actor : Rename(a)
    BY <1>1
  <2>2. file' = file \cup {Mine(a)} /\ UNCHANGED acked
    BY <2>1 DEF Rename, Goto, LockInv, StoreInv, CopyIsCurrent
  <2>3. Mine(a) \in Mutation
    BY <2>1, MineIsMutation DEF Rename, Goto
  <2>4. QED
    BY <2>2, <2>3 DEF Atomic!Next, Atomic!Apply
<1>2. CASE \E a \in Actor : Return(a)
  <2>1. PICK a \in Actor : Return(a)
    BY <1>2
  <2>2. CASE acked' = acked
    BY <2>1, <2>2 DEF Return
  <2>3. CASE acked' # acked
    <3>1. /\ pc[a] = "savedUnlocked" /\ acked' = acked \cup {Mine(a)}
          /\ UNCHANGED file
      BY <2>1, <2>3 DEF Return, Goto
    <3>2. Mine(a) \in file /\ Mine(a) \in Mutation
      BY <3>1, MineIsMutation DEF LockInv, StoreInv, CopyIsCurrent
    <3>3. QED
      BY <3>1, <3>2 DEF Atomic!Next, Atomic!Acknowledge
  <2>4. QED
    BY <2>2, <2>3
<1>3. CASE UNCHANGED <<file, acked>>
  BY <1>3
<1>4. QED
  BY <1>1, <1>2, <1>3 DEF LockNext, lockVars, Call, LockMu, Flock, FlockFails, Step,
     LoadAndApply, WriteTemp, Fail, Unflock, Crash

\* Store.Mutate, with failures and crashes at every step, is the atomic store of
\* module Store: no update is lost, none is applied in part.
THEOREM MutateImplementsStore == LockSpec => MutateIsAtomic
<1>1. LockInit => Atomic!Init
  BY DEF LockInit, Atomic!Init
<1>2. LockInv /\ [LockNext]_lockVars => [Atomic!Next]_<<file, acked>>
  BY StepIsAtomic
<1>3. QED
  BY <1>1, <1>2, LockInvariant, PTL DEF LockSpec, MutateIsAtomic, Atomic!Spec

================================================================================
