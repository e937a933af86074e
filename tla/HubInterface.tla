----------------------------- MODULE HubInterface -----------------------------
(***************************************************************************)
(* The hub's own WireGuard interface (internal/coordinator/service.go): the*)
(* daemon loads the registry at its start and on every tick, and applies   *)
(* what it read while commands and handlers go on changing it (module      *)
(* Coordinator).  A tick that cannot load or apply leaves the rest to the  *)
(* next one.  The interface outlives the daemon.                           *)
(*                                                                         *)
(* `wg syncconf` makes the peers of the interface exactly those it is      *)
(* given.  An entry carries the client's id beside its key, since keys are *)
(* counted per client.                                                     *)
(***************************************************************************)
EXTENDS Coordinator

VARIABLES
  live,   \* the interface: whether it is up, its key, addresses and peers
  stage,  \* where the daemon is in reconcile
  snap    \* the hub and its peers as reconcile loaded them

hubVars == <<clients, hub, issued, now, live, stage, snap>>

Entry == [id: ID, key: Key, endpoint: Endpoint, addr: Pool, routes: SUBSET Route]

HubKey == 1 .. MaxHubKey

NoInterface == [key |-> NoKey, addrs |-> {}, peers |-> {}, link |-> "none"]

HubTypeOK ==
  /\ TypeOK
  /\ live \in [key: HubKey \cup {NoKey}, addrs: SUBSET Pool, peers: SUBSET Entry,
               link: {"none", "down", "up"}]
  /\ stage \in {"idle", "loaded", "synced"}
  /\ stage # "idle" => snap \in [key: HubKey, addr: Pool, peers: SUBSET Entry]

EntryOf(c) == [id |-> c, key |-> clients[c].key, endpoint |-> clients[c].endpoint,
               addr |-> clients[c].addr, routes |-> clients[c].routes]

\* Mutant: a blacklisted client is kept.
ServedBanned == {c \in DOMAIN clients : clients[c].key # NoKey}

\* Mutant: a client that has not registered is added.
ServedPending == {c \in DOMAIN clients : ~clients[c].banned}

\* The clients the hub keeps a tunnel to.
Served == {c \in DOMAIN clients : ~clients[c].banned /\ clients[c].key # NoKey}

DesiredInterface == [key |-> hub.key, addr |-> hub.addr, peers |-> {EntryOf(c) : c \in Served}]

HubInit ==
  /\ Init
  /\ live = NoInterface
  /\ stage = "idle" /\ snap = NoInterface

(***************************************************************************)
(* reconcile.                                                              *)
(***************************************************************************)

\* Mutant: the registry is applied only when there is no interface.
LoadSnapshotOnce ==
  /\ stage = "idle"
  /\ IF live.link = "none"
       THEN stage' = "loaded" /\ snap' = DesiredInterface
       ELSE UNCHANGED <<stage, snap>>
  /\ UNCHANGED <<coordVars, live>>

LoadSnapshot ==
  /\ stage = "idle" /\ stage' = "loaded"
  /\ snap' = DesiredInterface
  /\ UNCHANGED <<coordVars, live>>

\* The link is made if there is none, and given the hub's key and its peers.
SyncPeers ==
  /\ stage = "loaded" /\ stage' = "synced"
  /\ live' = [live EXCEPT !.key = snap.key, !.peers = snap.peers,
                          !.link = IF @ = "none" THEN "down" ELSE @]
  /\ UNCHANGED <<coordVars, snap>>

\* The address is assigned, beside any other, and the link brought up.
BringUp ==
  /\ stage = "synced" /\ stage' = "idle"
  /\ live' = [live EXCEPT !.addrs = @ \cup {snap.addr}, !.link = "up"]
  /\ snap' = NoInterface
  /\ UNCHANGED coordVars

\* A step of Apply fails, or the daemon dies: what was done stays done.
GiveUp ==
  /\ stage # "idle" /\ stage' = "idle"
  /\ snap' = NoInterface
  /\ live' \in {live}
       \cup (IF stage = "loaded" /\ live.link = "none" THEN {[live EXCEPT !.link = "down"]} ELSE {})
       \cup (IF stage = "synced" THEN {[live EXCEPT !.addrs = @ \cup {snap.addr}]} ELSE {})
  /\ UNCHANGED coordVars

Reconcile == LoadSnapshot \/ SyncPeers \/ BringUp \/ GiveUp

HubNext == Reconcile \/ (Next /\ UNCHANGED <<live, stage, snap>>)

HubSpec == HubInit /\ [][HubNext]_hubVars

\* The ticker keeps ticking, and no step fails every time.
HubFairness == SF_hubVars(LoadSnapshot) /\ SF_hubVars(SyncPeers) /\ SF_hubVars(BringUp)

HubLiveSpec == HubSpec /\ HubFairness

(***************************************************************************)
(* Properties.                                                             *)
(***************************************************************************)

\* No two peers of the hub's interface claim one address, however old the
\* snapshot is that it was given: WireGuard would route to only one of them.
LiveAddressesUnique ==
  \A d, e \in live.peers : d.addr = e.addr => d = e

\* Until `init --force` gives the hub another key, and with it perhaps another
\* address, no peer of the interface claims an address the hub has there, through
\* old snapshots and failed applies.  Afterwards one may: the address is added
\* beside the one before it, which the coordinator gives away again.
HubAddressApart ==
  hub.key = 1 => \A e \in live.peers : e.addr \notin live.addrs

\* A client that stays banned or removed comes to be off the interface for good,
\* though requests authenticated earlier are written later and snapshots loaded
\* earlier are applied later: "The hub removes its peer on the next reconcile"
\* (cmd/wgcoord/coordinator_cmd.go).
BansAreEnforced ==
  \A c \in ID :
    <>[](c \notin DOMAIN clients \/ clients[c].banned) => <>[](\A e \in live.peers : e.id # c)

SettlesIdentity(c) ==
  c \in Served \cap Served' => /\ clients'[c].key = clients[c].key
                               /\ clients'[c].addr = clients[c].addr

\* A client that stays registered and unbanned, and that in the end changes neither its
\* key nor its address, comes to have its tunnel under both for good, on a link that is
\* up under the hub's key, whatever older snapshots are still applied and however often
\* an apply fails.  (A client that registers another key between each load and its apply
\* may never be served; the hub itself has settled, since `init --force` drops everyone.)
MembersAreServed ==
  \A c \in ID :
    <>[](c \in Served) /\ <>[][SettlesIdentity(c)]_hubVars
      => <>[](/\ c \in Served
              /\ live.link = "up" /\ live.key = hub.key /\ hub.addr \in live.addrs
              /\ \E e \in live.peers : e.id = c /\ e.key = clients[c].key /\ e.addr = clients[c].addr)

===============================================================================
