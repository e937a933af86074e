----------------------------- MODULE Coordinator -----------------------------
(***************************************************************************)
(* The coordinator's registry (internal/coordinator): the named clients,   *)
(* the hub's own advertised identity, and every operation that changes     *)
(* them.  Each action is one call of Store.Mutate, taken as atomic here    *)
(* (StoreLock models how the mutex, the file lock, the load and the save   *)
(* make it so).                                                            *)
(*                                                                         *)
(* Keys and tokens are counted per client: key n of client c is the n-th   *)
(* keypair its machine generated, token n the n-th token minted for it.    *)
(* Both are drawn from 256 random bits, so those of different clients      *)
(* never coincide.  Addresses are offsets into the mesh prefix: 0 is the   *)
(* network address, PoolSize + 1 the broadcast address, and what lies      *)
(* between is assignable.  The hub's public endpoint is chosen with its    *)
(* key by `coordinator init` and never changes apart from it, so its key   *)
(* stands for both.  Time is the wall clock in whole seconds, as RFC3339   *)
(* prints it; 0 is the empty timestamp.                                    *)
(***************************************************************************)
EXTENDS Integers, FiniteSets

CONSTANTS
  ID,            \* the ids newID may draw
  HubID,         \* api.CoordinatorPeerID, the id the hub is advertised under
  Name,          \* the names an operator gives to clients
  HubName,       \* the words that name the hub itself in a route command
  Route,         \* canonical CIDRs
  Host,          \* public hosts a client may report
  NoHost,        \* the empty host
  Port,          \* WireGuard ports a client may report
  ClientWGPort,  \* the port recorded for a client that reports none
  PoolSize,      \* how many assignable addresses the mesh prefix has
  HubAddr,       \* the addresses an operator may give the hub
  MaxKey,        \* bound: keypairs one client machine generates
  MaxToken,      \* bound: tokens minted for one client
  MaxHubKey,     \* bound: times the hub is initialised
  MaxTime        \* bound: seconds the clock counts

ASSUME ConstantsAssumption ==
  /\ HubID \notin ID
  /\ NoHost \notin Host
  /\ Port \subseteq Nat \ {0}
  /\ ClientWGPort \in Nat \ {0}
  /\ PoolSize \in Nat \ {0}
  /\ HubAddr \subseteq 1 .. PoolSize
  /\ {MaxKey, MaxToken, MaxHubKey, MaxTime} \subseteq Nat \ {0}

VARIABLES
  clients,  \* cc.Clients: client id -> its record
  hub,      \* the hub's key, mesh address, routes and cc.UpdatedAt
  issued,   \* every id newID has drawn (ids are random, so never drawn twice)
  now       \* the clock nowRFC3339 reads

coordVars == <<clients, hub, issued, now>>

(***************************************************************************)
(* Data.                                                                   *)
(***************************************************************************)
Pool == 1 .. PoolSize
NoAddr == -1
AddrRequest == NoAddr .. PoolSize + 1

NoKey == 0
Key == 1 .. MaxKey
Token == 1 .. MaxToken
Time == 0 .. MaxTime

Endpoint == [host: Host \cup {NoHost}, port: Nat]
NoEndpoint == [host |-> NoHost, port |-> 0]

Client == [name: Name, token: Token, addr: Pool, key: Key \cup {NoKey},
           endpoint: Endpoint, port: Nat, banned: BOOLEAN,
           seen: Time, updated: Time, routes: SUBSET Route]

PeerID == ID \cup {HubID}

TypeOK ==
  /\ issued \subseteq ID
  /\ DOMAIN clients \subseteq issued
  /\ clients \in [DOMAIN clients -> Client]
  /\ hub \in [key: 1 .. MaxHubKey, addr: Pool, routes: SUBSET Route, updated: Time]
  /\ now \in 1 .. MaxTime

(***************************************************************************)
(* Helpers of the store and of the HTTP handlers.                          *)
(***************************************************************************)
ByName(n) == {c \in DOMAIN clients : clients[c].name = n}

IsHub(node) == node \in HubName

\* Mutant: a requested address is not checked against the pool.
AddrFreeOutOfPool(a, c) == a # hub.addr /\ \A d \in DOMAIN clients : d # c => clients[d].addr # a

\* Mutant: an address is not compared with the hub's.
AddrFreeAtHub(a, c) == a \in Pool /\ \A d \in DOMAIN clients : d # c => clients[d].addr # a

\* An address no one but c holds: usable, not the hub's, not another client's.
AddrFree(a, c) ==
  /\ a \in Pool
  /\ a # hub.addr
  /\ \A d \in DOMAIN clients : d # c => clients[d].addr # a

\* Mutant: the allocator forgets addresses reserved for clients yet to register.
UnusedByRegistered ==
  {a \in Pool : /\ a # hub.addr
                /\ \A d \in DOMAIN clients : clients[d].key # NoKey => clients[d].addr # a}

Unused == {a \in Pool : a # hub.addr /\ \A d \in DOMAIN clients : clients[d].addr # a}

LowestFree(a) == a \in Unused /\ \A b \in Unused : a <= b

PickPort(preferred, fallback) == IF preferred > 0 THEN preferred ELSE fallback

EndpointFrom(h, p) == IF h = NoHost THEN NoEndpoint ELSE [host |-> h, port |-> p]

\* What the hub says of itself, and of client c, to everyone else.
HubAdvert == [name |-> HubID, key |-> hub.key, endpoint |-> NoEndpoint,
              addr |-> hub.addr, routes |-> hub.routes]

Advert(c) == [name |-> clients[c].name, key |-> clients[c].key,
              endpoint |-> clients[c].endpoint,
              addr |-> clients[c].addr, routes |-> clients[c].routes]

\* Mutant: a client is advertised to itself.
AdvertisedToSelf(self) ==
  {c \in DOMAIN clients : ~clients[c].banned /\ clients[c].key # NoKey}

Advertised(self) ==
  {c \in DOMAIN clients : c # self /\ ~clients[c].banned /\ clients[c].key # NoKey}

BuildPeers(self) ==
  [p \in Advertised(self) \cup {HubID} |-> IF p = HubID THEN HubAdvert ELSE Advert(p)]

UpdatedAt(p) == IF p = HubID THEN hub.updated ELSE clients[p].updated

\* Whether p changed since client self last synced.
Changed(p, self) ==
  /\ UpdatedAt(p) # 0
  /\ clients[self].seen # 0
  /\ UpdatedAt(p) > clients[self].seen

\* Mutant: a peer the client lacks is sent only when it changed.
AddIDsChanged(self, have) == {p \in DOMAIN BuildPeers(self) : Changed(p, self)}

\* The ids a heartbeat of self that reports `have` is sent, and told to drop.
AddIDs(self, have) ==
  {p \in DOMAIN BuildPeers(self) : p \notin have \/ Changed(p, self)}

\* Mutant: a blacklisted peer is not reported as gone.
RemoveIDsKnown(self, have) == {p \in have : p # HubID /\ p \notin DOMAIN clients}

RemoveIDs(self, have) ==
  {p \in have : p # HubID /\ p \notin DOMAIN BuildPeers(self)}

(***************************************************************************)
(* Requests.  A register names the address it wants, or none; a heartbeat  *)
(* reports the ids it holds.                                               *)
(***************************************************************************)
Identity == [key: Key, host: Host \cup {NoHost}, port: Port \cup {0}]

(***************************************************************************)
(* Initial state: `coordinator init` has just written the config.          *)
(***************************************************************************)
Init ==
  /\ clients = [c \in {} |-> {}]
  /\ hub \in [key: {1}, addr: HubAddr, routes: SUBSET Route, updated: {0}]
  /\ issued = {}
  /\ now = 1

(***************************************************************************)
(* Management commands.  The order of cc.Clients and of a node's routes is *)
(* never read, so both are unordered here.                                 *)
(***************************************************************************)
NewClient(n, a, rs) ==
  [name |-> n, token |-> 1, addr |-> a, key |-> NoKey, endpoint |-> NoEndpoint,
   port |-> 0, banned |-> FALSE, seen |-> 0, updated |-> 0, routes |-> rs]

AddClient(n, want, rs) ==
  /\ ByName(n) = {}
  /\ \E id \in ID \ issued, a \in Pool :
       /\ IF want = NoAddr THEN LowestFree(a) ELSE a = want /\ AddrFree(a, id)
       /\ clients' = [c \in DOMAIN clients \cup {id} |->
                        IF c = id THEN NewClient(n, a, rs) ELSE clients[c]]
       /\ issued' = issued \cup {id}
  /\ UNCHANGED <<hub, now>>

RemoveClient(n) ==
  \E c \in ByName(n) :
    /\ clients' = [d \in DOMAIN clients \ {c} |-> clients[d]]
    /\ UNCHANGED <<hub, issued, now>>

\* Mutant: a rename does not look for another client of the new name.
RenameClientUnchecked(old, new) ==
  /\ \E c \in ByName(old) :
       clients' = [clients EXCEPT ![c].name = new, ![c].updated = now]
  /\ UNCHANGED <<hub, issued, now>>

RenameClient(old, new) ==
  /\ ByName(new) = {}
  /\ \E c \in ByName(old) :
       clients' = [clients EXCEPT ![c].name = new, ![c].updated = now]
  /\ UNCHANGED <<hub, issued, now>>

RegenToken(n) ==
  \E c \in ByName(n) :
    /\ clients[c].token < MaxToken
    /\ clients' = [clients EXCEPT ![c].token = @ + 1, ![c].updated = now]
    /\ UNCHANGED <<hub, issued, now>>

SetBlacklist(n, b) ==
  \E c \in ByName(n) :
    /\ clients' = [clients EXCEPT ![c].banned = b, ![c].updated = now]
    /\ UNCHANGED <<hub, issued, now>>

\* Mutant: the hub's new routes are not stamped.
SetRoutesHubUnstamped(node, gain, drop) ==
  \/ /\ IsHub(node)
     /\ hub' = [hub EXCEPT !.routes = (@ \cup gain) \ drop]
     /\ UNCHANGED <<clients, issued, now>>
  \/ /\ ~IsHub(node)
     /\ \E c \in ByName(node) :
          clients' = [clients EXCEPT ![c].routes = (@ \cup gain) \ drop, ![c].updated = now]
     /\ UNCHANGED <<hub, issued, now>>

\* Gives a node routes, or drops some, and stamps it if that changes any.
SetRoutes(node, gain, drop) ==
  \/ /\ IsHub(node)
     /\ (hub.routes \cup gain) \ drop # hub.routes
     /\ hub' = [hub EXCEPT !.routes = (@ \cup gain) \ drop, !.updated = now]
     /\ UNCHANGED <<clients, issued, now>>
  \/ /\ ~IsHub(node)
     /\ \E c \in ByName(node) :
          /\ (clients[c].routes \cup gain) \ drop # clients[c].routes
          /\ clients' = [clients EXCEPT ![c].routes = (@ \cup gain) \ drop,
                                        ![c].updated = now]
     /\ UNCHANGED <<hub, issued, now>>

AddRoutes(node, rs) == SetRoutes(node, rs, {})

RemoveRoutes(node, rs) == SetRoutes(node, {}, rs)

\* Mutant: starting over keeps the clients.
InitForceKeepsClients(addr, rs) ==
  /\ hub.key < MaxHubKey
  /\ hub' = [key |-> hub.key + 1, addr |-> addr, routes |-> rs, updated |-> 0]
  /\ UNCHANGED <<clients, issued, now>>

\* `coordinator init --force` starts over: a new keypair and no clients.
InitForce(addr, rs) ==
  /\ hub.key < MaxHubKey
  /\ clients' = [c \in {} |-> {}]
  /\ hub' = [key |-> hub.key + 1, addr |-> addr, routes |-> rs, updated |-> 0]
  /\ UNCHANGED <<issued, now>>

(***************************************************************************)
(* The write of POST /register, inside Mutate; the request has passed      *)
(* auth, possibly before other mutations.                                  *)
(***************************************************************************)
KeepsAddr(c, want) == want \in {NoAddr, clients[c].addr}

RegisterAccepts(c, want) ==
  c \in DOMAIN clients /\ (KeepsAddr(c, want) \/ AddrFree(want, c))

RegisteredAddr(c, want) == IF KeepsAddr(c, want) THEN clients[c].addr ELSE want

Register(c, who, want) ==
  /\ RegisterAccepts(c, want)
  /\ LET port == PickPort(who.port, ClientWGPort) IN
     clients' = [clients EXCEPT ![c].addr = RegisteredAddr(c, want),
                                ![c].key = who.key,
                                ![c].port = port,
                                ![c].endpoint = EndpointFrom(who.host, port),
                                ![c].updated = now,
                                ![c].seen = now]
  /\ UNCHANGED <<hub, issued, now>>

(***************************************************************************)
(* The write of POST /heartbeat.  Of the identity it carries, only a new   *)
(* endpoint moves the timestamp that re-advertises the client.             *)
(***************************************************************************)
BeatPort(c, who) == PickPort(PickPort(who.port, clients[c].port), ClientWGPort)

BeatEndpoint(c, who) ==
  IF who.host = NoHost THEN clients[c].endpoint
                       ELSE EndpointFrom(who.host, BeatPort(c, who))

\* Mutant: a heartbeat does not report the key again.
HeartbeatWithoutKey(c, who) ==
  /\ c \in DOMAIN clients
  /\ clients' = [clients EXCEPT ![c].port = BeatPort(c, who),
                                ![c].endpoint = BeatEndpoint(c, who), ![c].seen = now]
  /\ UNCHANGED <<hub, issued, now>>

Heartbeat(c, who) ==
  /\ c \in DOMAIN clients
  /\ clients' = [clients EXCEPT
       ![c].key = who.key,
       ![c].port = BeatPort(c, who),
       ![c].endpoint = BeatEndpoint(c, who),
       ![c].updated = IF BeatEndpoint(c, who) # clients[c].endpoint THEN now ELSE @,
       ![c].seen = now]
  /\ UNCHANGED <<hub, issued, now>>

Tick ==
  /\ now < MaxTime
  /\ now' = now + 1
  /\ UNCHANGED <<clients, hub, issued>>

(***************************************************************************)
(* Specification.                                                          *)
(***************************************************************************)
Manage ==
  \/ \E n \in Name, want \in AddrRequest, rs \in SUBSET Route : AddClient(n, want, rs)
  \/ \E n \in Name : RemoveClient(n)
  \/ \E old, new \in Name : RenameClient(old, new)
  \/ \E n \in Name : RegenToken(n)
  \/ \E n \in Name, b \in BOOLEAN : SetBlacklist(n, b)
  \/ \E node \in Name \cup HubName, rs \in SUBSET Route : AddRoutes(node, rs)
  \/ \E node \in Name \cup HubName, rs \in SUBSET Route : RemoveRoutes(node, rs)
  \/ \E a \in HubAddr, rs \in SUBSET Route : InitForce(a, rs)

Serve ==
  \/ \E c \in ID, who \in Identity, want \in AddrRequest : Register(c, who, want)
  \/ \E c \in ID, who \in Identity : Heartbeat(c, who)

Next == Manage \/ Serve \/ Tick

Spec == Init /\ [][Next]_coordVars

(***************************************************************************)
(* Properties.                                                             *)
(***************************************************************************)

\* No two mesh members hold one address: not two clients, and no client the
\* hub's, whichever of auto-allocation, `client add --address` and a register's
\* requested address assigned it (NextFree, checkAddrFree).
AddressesUnique ==
  /\ \A c \in DOMAIN clients : clients[c].addr # hub.addr
  /\ \A c, d \in DOMAIN clients : clients[c].addr = clients[d].addr => c = d

\* And every operation implements the lease of an address to one member: it
\* gives one member an address no other holds, or takes one member's away, or
\* (init --force) starts over with the hub alone.
Lease == INSTANCE AddressLease WITH
  Member <- PeerID,
  Address <- Pool,
  lease <- [p \in DOMAIN clients \cup {HubID} |->
              IF p = HubID THEN hub.addr ELSE clients[p].addr]

AddressesAreLeased == Lease!Spec

\* A name resolves to one client, so that every command acts on the client it
\* names (findByName returns the first match), through adds and renames.
NamesUnique ==
  \A c, d \in DOMAIN clients : clients[c].name = clients[d].name => c = d

\* Whatever ids a client reports, stale ones included, the heartbeat answer
\* turns them into exactly the ids advertised to it (handleHeartbeat's delta).
DeltaReconciles ==
  \A c \in DOMAIN clients : \A have \in SUBSET (PeerID \ {c}) :
    (have \cup AddIDs(c, have)) \ RemoveIDs(c, have) = DOMAIN BuildPeers(c)

=============================================================================
