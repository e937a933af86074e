----------------------------- MODULE MCMeshSync -----------------------------
(***************************************************************************)
(* A few clients and the hub: what each is told of the others while        *)
(* operators change them, their machines join again and clients go.        *)
(***************************************************************************)
EXTENDS MeshSync, TLC

MCPort == {51820}
MCClientWGPort == 51820

Symmetry == Permutations(ID) \cup Permutations(Name)

=============================================================================
