---------------------------- MODULE MCHubInterface ----------------------------
(***************************************************************************)
(* The hub and two clients that come, go, are banned and return.           *)
(***************************************************************************)
EXTENDS HubInterface

MCPort == {51820}
MCClientWGPort == 51820

===============================================================================
