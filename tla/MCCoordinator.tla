---------------------------- MODULE MCCoordinator ----------------------------
(***************************************************************************)
(* The registry on a small mesh: two client ids, two names of which one is *)
(* also a word for the hub, and a pool one address larger than the members *)
(* that may share it.                                                      *)
(***************************************************************************)
EXTENDS Coordinator, TLC

MCName == {"hub", "web"}
MCHubName == {"hub", "coordinator"}
MCPort == {51820}
MCClientWGPort == 51820

Symmetry == Permutations(ID)

=============================================================================
