----------------------------- MODULE MCStoreLock -----------------------------
(***************************************************************************)
(* The daemon with two handlers at work, and a management command.         *)
(***************************************************************************)
EXTENDS StoreLock

CONSTANTS h1, h2, cli

MCActor == {h1, h2, cli}
MCProcess == {"daemon", "command"}
MCProcOf == [a \in MCActor |-> IF a = cli THEN "command" ELSE "daemon"]
MCMaxCalls == [a \in MCActor |-> IF a = h1 THEN 2 ELSE 1]

==============================================================================
