----------------------------- MODULE MCClientNode -----------------------------
(***************************************************************************)
(* A machine that caches the hub and at most one other peer, with the      *)
(* daemon and one command beside it.                                       *)
(***************************************************************************)
EXTENDS ClientNode

MCName == {"web"}
MCPinKey == {"p1", "web"}
MCPeer == {"p1"}
MCHub == "coordinator"
MCNoHost == ""
MCPort == {1}
MCDefaultPort == 2
MCHubEndpoint == [host |-> "public", port |-> 1]
MCHost == {"public"}
MCLocalHost == {"lan"}
MCPin == {[host |-> "lan", port |-> 0], NoEndpoint}
MCJoinPins == {[k \in {"web"} |-> NoEndpoint]}

\* The addresses are alike, so a behaviour starts with the first; a peer that
\* advertises no endpoint comes about by an edit.
MCInit ==
  /\ NodeInit
  /\ cfg.addr = 1
  /\ \A p \in DOMAIN world : world[p].endpoint # NoEndpoint

MCSpec == MCInit /\ [][NodeNext]_nodeVars /\ NodeFairness

===============================================================================
