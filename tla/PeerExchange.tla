----------------------------- MODULE PeerExchange -----------------------------
(***************************************************************************)
(* What the exchange of peers promises when nothing is lost, apart from    *)
(* how requests, snapshots, timestamps and deltas bring it about: a        *)
(* machine holds what was advertised to its client at one instant, the     *)
(* whole of it, and only a sync of its own changes what it holds.          *)
(***************************************************************************)
CONSTANT Client

VARIABLES
  advert,  \* the clients of the registry -> the peers advertised to each
  held     \* the machines that hold peers -> those they hold

exchangeVars == <<advert, held>>

Init == held = [c \in {} |-> {}]

\* Operators change what is advertised at any time, to any extent.
Change == held' = held

\* Client c gets what is advertised to it now.
Sync(c) ==
  /\ c \in DOMAIN advert'
  /\ held' = [d \in DOMAIN held \cup {c} |-> IF d = c THEN advert'[c] ELSE held[d]]

\* Machine c throws its config away.
Forget(c) ==
  /\ c \in DOMAIN held
  /\ held' = [d \in DOMAIN held \ {c} |-> held[d]]

Next == Change \/ \E c \in Client : Sync(c) \/ Forget(c)

Spec == Init /\ [][Next]_exchangeVars

=============================================================================
