-------------------------------- MODULE Store --------------------------------
(***************************************************************************)
(* What Store.Mutate promises to those who share config.json: a mutation   *)
(* is applied to the config as all earlier ones left it, at one instant,   *)
(* and its caller is told of success only afterwards.  The config is       *)
(* abstracted to the set of mutations it carries; a mutation whose caller  *)
(* failed or died may have been applied or not, but never in part.         *)
(***************************************************************************)
CONSTANT Mutation

VARIABLES
  file,   \* the mutations config.json carries
  acked   \* those whose callers were told they succeeded

Init == file = {} /\ acked = {}

Apply(m) == file' = file \cup {m} /\ UNCHANGED acked

Acknowledge(m) == m \in file /\ acked' = acked \cup {m} /\ UNCHANGED file

Next == \E m \in Mutation : Apply(m) \/ Acknowledge(m)

Spec == Init /\ [][Next]_<<file, acked>>

==============================================================================
