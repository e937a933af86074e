-------------------------- MODULE HubInterfaceProofs --------------------------
(***************************************************************************)
(* Proofs about the hub's interface, for every number of clients, names,   *)
(* addresses and keys: whatever was loaded and however late it is applied, *)
(* no two of its peers claim one address, and until `init --force` none    *)
(* claims the hub's.  The registry is the one of Coordinator, so what      *)
(* CoordinatorProofs shows of it carries over.                             *)
(***************************************************************************)
EXTENDS HubInterface, CoordinatorProofs

\* The hub's reconcile loop leaves the registry alone.
LEMMA HubRunsRegistry == HubSpec => Spec
<1>1. HubInit => Init
  BY DEF HubInit
<1>2. [HubNext]_hubVars => [Next]_coordVars
  BY DEF HubNext, Reconcile, LoadSnapshot, SyncPeers, BringUp, GiveUp, hubVars, coordVars
<1> QED BY <1>1, <1>2, PTL DEF HubSpec, Spec

(***************************************************************************)
(* The invariant.  A snapshot has the properties of the registry it was    *)
(* loaded from, however old it is, and the interface those of the snapshot *)
(* it was given last.                                                      *)
(***************************************************************************)
Apart(peers) == \A d, e \in peers : d.addr = e.addr => d = e

LiveOK ==
  /\ live \in [key: HubKey \cup {NoKey}, addrs: SUBSET Pool, peers: SUBSET Entry,
               link: {"none", "down", "up"}]
  /\ Apart(live.peers)
  /\ hub.key = 1 => live.addrs \subseteq {hub.addr} /\ \A e \in live.peers : e.addr # hub.addr

SnapOK ==
  /\ stage \in {"idle", "loaded", "synced"}
  /\ stage # "idle" =>
       /\ snap \in [key: HubKey, addr: Pool, peers: SUBSET Entry]
       /\ Apart(snap.peers)
       /\ hub.key = 1 => snap.addr = hub.addr /\ \A e \in snap.peers : e.addr # hub.addr

HubInv == LiveOK /\ SnapOK

\* Nothing is live before the first apply.
LEMMA HubInitially == HubInit => HubInv
BY DEF HubInit, HubInv, LiveOK, SnapOK, NoInterface, Apart, NoKey

\* What reconcile loads from the registry.
LEMMA DesiredOK ==
  ASSUME TypeOK, AddressesUnique
  PROVE  /\ DesiredInterface \in [key: HubKey, addr: Pool, peers: SUBSET Entry]
         /\ Apart(DesiredInterface.peers)
         /\ DesiredInterface.addr = hub.addr
         /\ \A e \in DesiredInterface.peers : e.addr # hub.addr
<1>1. ASSUME NEW c \in Served
      PROVE  c \in DOMAIN clients /\ EntryOf(c) \in Entry /\ EntryOf(c).addr = clients[c].addr
  <2>1. c \in DOMAIN clients /\ c \in ID /\ clients[c].key \in Key
    BY <1>1, FieldsOfClient DEF Served, TypeOK
  <2> QED BY <2>1, FieldsOfClient DEF EntryOf, Entry
<1>2. hub.key \in HubKey /\ hub.addr \in Pool
  BY DEF TypeOK, HubKey
<1>3. DesiredInterface.peers \in SUBSET Entry
  BY <1>1 DEF DesiredInterface
<1>4. ASSUME NEW d \in DesiredInterface.peers, NEW e \in DesiredInterface.peers, d.addr = e.addr
      PROVE  d = e
  BY <1>1, <1>4 DEF DesiredInterface, AddressesUnique
<1>5. \A e \in DesiredInterface.peers : e.addr # hub.addr
  BY <1>1 DEF DesiredInterface, AddressesUnique
<1> QED BY <1>2, <1>3, <1>4, <1>5 DEF DesiredInterface, Apart

\* The hub keeps its address until it gets another key, and no key comes back.
LEMMA HubKeptUntilForced ==
  ASSUME TypeOK, Next, hub'.key = 1
  PROVE  hub.key = 1 /\ hub'.addr = hub.addr
<1>1. hub.key \in Nat \ {0}
  BY DEF TypeOK
<1>2. CASE \E a \in HubAddr, rs \in SUBSET Route : InitForce(a, rs)
  BY <1>1, <1>2 DEF InitForce
<1>3. CASE \E node \in Name \cup HubName, rs \in SUBSET Route :
             AddRoutes(node, rs) \/ RemoveRoutes(node, rs)
  <2>1. PICK node, gain, drop : SetRoutes(node, gain, drop)
    BY <1>3 DEF AddRoutes, RemoveRoutes
  <2>2. CASE IsHub(node)
    <3>1. hub' = [hub EXCEPT !.routes = (@ \cup gain) \ drop, !.updated = now]
      BY <2>1, <2>2 DEF SetRoutes
    <3> QED BY <3>1 DEF TypeOK
  <2>3. CASE ~IsHub(node)
    BY <2>1, <2>3 DEF SetRoutes
  <2> QED BY <2>2, <2>3
<1>4. CASE hub' = hub
  BY <1>4
<1>5. \/ hub' = hub
      \/ \E a \in HubAddr, rs \in SUBSET Route : InitForce(a, rs)
      \/ \E node \in Name \cup HubName, rs \in SUBSET Route :
           AddRoutes(node, rs) \/ RemoveRoutes(node, rs)
  <2>1. \A n, want, rs : AddClient(n, want, rs) => hub' = hub
    BY DEF AddClient
  <2>2. \A n : RemoveClient(n) \/ RegenToken(n) => hub' = hub
    BY DEF RemoveClient, RegenToken
  <2>3. \A n, m : RenameClient(n, m) \/ SetBlacklist(n, m) => hub' = hub
    BY DEF RenameClient, SetBlacklist
  <2>4. \A c, who, want : Register(c, who, want) \/ Heartbeat(c, who) => hub' = hub
    BY DEF Register, Heartbeat
  <2>5. Tick => hub' = hub
    BY DEF Tick
  <2> QED BY <2>1, <2>2, <2>3, <2>4, <2>5 DEF Next, Manage, Serve
<1> QED BY <1>2, <1>3, <1>4, <1>5

\* Neither the registry's steps nor an apply broken off disturb it.
LEMMA HubStep ==
  ASSUME TypeOK, AddressesUnique, HubInv, [HubNext]_hubVars
  PROVE  HubInv'
<1>1. CASE LoadSnapshot
  BY <1>1, DesiredOK DEF LoadSnapshot, HubInv, LiveOK, SnapOK, coordVars
<1>2. CASE SyncPeers
  BY <1>2 DEF SyncPeers, HubInv, LiveOK, SnapOK, coordVars
<1>3. CASE BringUp
  BY <1>3 DEF BringUp, HubInv, LiveOK, SnapOK, coordVars
<1>4. CASE GiveUp
  BY <1>4 DEF GiveUp, HubInv, LiveOK, SnapOK, coordVars
<1>5. CASE Next /\ UNCHANGED <<live, stage, snap>>
  BY <1>5, HubKeptUntilForced DEF HubInv, LiveOK, SnapOK
<1>6. CASE UNCHANGED hubVars
  BY <1>6 DEF hubVars, HubInv, LiveOK, SnapOK
<1> QED BY <1>1, <1>2, <1>3, <1>4, <1>5, <1>6 DEF HubNext, Reconcile

\* Together with the registry's own invariants, it always holds.
LEMMA HubInvariant == HubSpec => [](TypeOK /\ HubInv)
BY HubRunsRegistry, TypeCorrect, AddressesAreUnique, HubInitially, HubStep, PTL DEF HubSpec

(***************************************************************************)
(* Theorems.                                                               *)
(***************************************************************************)

\* The registry, the interface and what reconcile holds in its hand are well typed.
THEOREM HubTypeCorrect == HubSpec => []HubTypeOK
<1>1. TypeOK /\ HubInv => HubTypeOK
  BY DEF HubInv, LiveOK, SnapOK, HubTypeOK
<1> QED BY <1>1, HubInvariant, PTL

\* No two peers of the interface claim one address, however old the snapshot is
\* that it was given, and wherever an apply was broken off.
THEOREM LivePeersApart == HubSpec => []LiveAddressesUnique
<1>1. HubInv => LiveAddressesUnique
  BY DEF HubInv, LiveOK, Apart, LiveAddressesUnique
<1> QED BY <1>1, HubInvariant, PTL

\* Nor does one claim an address of the hub's, until the hub is given another.
THEOREM HubStaysApart == HubSpec => []HubAddressApart
<1>1. HubInv => HubAddressApart
  BY DEF HubInv, LiveOK, HubAddressApart
<1> QED BY <1>1, HubInvariant, PTL

===============================================================================
