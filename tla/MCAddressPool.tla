---------------------------- MODULE MCAddressPool ----------------------------
(***************************************************************************)
(* Every prefix of a space of eight addresses, shared by the hub and two   *)
(* clients.                                                                *)
(***************************************************************************)
EXTENDS AddressPool, TLC

MCFamily == {"v4", "v6"}

Symmetry == Permutations(Client)

=============================================================================
