------------------------------ MODULE StoreForced ------------------------------
(***************************************************************************)
(* `coordinator init --force` beside the daemon: it overwrites config.json *)
(* by a plain config.Save, without the locks of Store.Mutate               *)
(* (cmd/wgcoord/coordinator_cmd.go).                                       *)
(***************************************************************************)
EXTENDS StoreLock

VARIABLE wiped  \* the mutations that init --force has done away with

forcedVars == <<lockVars, wiped>>

ForcedInit == LockInit /\ wiped = {}

\* Starting over an empty config changes nothing, and doing it once is enough.
ForceInit ==
  /\ file # {} /\ wiped = {}
  /\ wiped' = file
  /\ file' = {} /\ acked' = {}
  /\ UNCHANGED <<pc, calls, mu, lock, copy>>

ForcedNext == ForceInit \/ (LockNext /\ UNCHANGED wiped)

ForcedSpec == ForcedInit /\ [][ForcedNext]_forcedVars

\* Once the operator is told that the coordinator starts over, the clients and
\* changes of the old config are gone.
WipedStaysWiped == file \cap wiped = {}

================================================================================
