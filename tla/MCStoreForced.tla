---------------------------- MODULE MCStoreForced ----------------------------
(***************************************************************************)
(* One handler of the daemon, and `init --force` run beside it.            *)
(***************************************************************************)
EXTENDS StoreForced

CONSTANT h1

MCActor == {h1}
MCProcess == {"daemon"}
MCProcOf == [a \in MCActor |-> "daemon"]
MCMaxCalls == [a \in MCActor |-> 2]

==============================================================================
