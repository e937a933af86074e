--------------------------- MODULE CoordinatorProofs ---------------------------
(***************************************************************************)
(* Proofs about the registry, for every number of clients, names, routes,  *)
(* addresses, keys and seconds: its type, the uniqueness of addresses and  *)
(* of names, and that a heartbeat's delta reconciles whatever the client   *)
(* reports with what is advertised to it.                                  *)
(***************************************************************************)
EXTENDS Coordinator, TLAPS

(***************************************************************************)
(* The records that handlers and commands write are records of a client.   *)
(***************************************************************************)

\* The type of the registry, as facts about the fields of one record.
LEMMA FieldsOfClient ==
  ASSUME TypeOK, NEW c \in DOMAIN clients
  PROVE  /\ clients[c].name \in Name /\ clients[c].token \in Token
         /\ clients[c].addr \in Pool /\ clients[c].key \in Key \cup {NoKey}
         /\ clients[c].endpoint \in Endpoint /\ clients[c].port \in Nat
         /\ clients[c].banned \in BOOLEAN /\ clients[c].seen \in Time
         /\ clients[c].updated \in Time /\ clients[c].routes \in SUBSET Route
BY DEF TypeOK, Client

\* The clock shows a time that a record may hold.
LEMMA NowIsTime == ASSUME TypeOK PROVE now \in Time
BY DEF TypeOK, Time

\* A port a client reports, or the default in its place, is a port.
LEMMA PickPortType ==
  ASSUME NEW p \in Nat, NEW q \in Nat PROVE PickPort(p, q) \in Nat
BY DEF PickPort

LEMMA EndpointFromType ==
  ASSUME NEW h \in Host \cup {NoHost}, NEW p \in Nat PROVE EndpointFrom(h, p) \in Endpoint
BY DEF EndpointFrom, NoEndpoint, Endpoint

LEMMA ReportedPort == ASSUME NEW who \in Identity PROVE who.port \in Nat
<1>1. Port \cup {0} \subseteq Nat
  BY ConstantsAssumption DEF ConstantsAssumption
<1>2. who.port \in Port \cup {0}
  BY DEF Identity
<1>3. QED
  BY <1>1, <1>2

\* Replacing one client's record by a record of a client keeps the type.
LEMMA UpdateKeepsType ==
  ASSUME TypeOK, NEW c \in DOMAIN clients, NEW r \in Client,
         clients' = [clients EXCEPT ![c] = r], UNCHANGED <<hub, issued, now>>
  PROVE  TypeOK'
BY DEF TypeOK

(***************************************************************************)
(* Type correctness.                                                       *)
(***************************************************************************)
LEMMA InitType == Init => TypeOK
<1> SUFFICES ASSUME Init PROVE TypeOK
  OBVIOUS
<1>1. DOMAIN clients = {} /\ clients \in [DOMAIN clients -> Client]
  BY DEF Init
<1>2. hub \in [key: 1 .. MaxHubKey, addr: Pool, routes: SUBSET Route, updated: Time]
  <2>1. 1 \in 1 .. MaxHubKey /\ 0 \in Time /\ HubAddr \subseteq Pool
    BY ConstantsAssumption DEF ConstantsAssumption, Time, Pool
  <2>2. QED
    BY <2>1 DEF Init
<1>3. now \in 1 .. MaxTime
  BY ConstantsAssumption DEF ConstantsAssumption, Init
<1>4. QED
  BY <1>1, <1>2, <1>3 DEF Init, TypeOK

LEMMA AddClientType ==
  ASSUME TypeOK, NEW n \in Name, NEW want \in AddrRequest, NEW rs \in SUBSET Route,
         AddClient(n, want, rs)
  PROVE  TypeOK'
<1>1. PICK id \in ID \ issued, a \in Pool :
        /\ clients' = [c \in DOMAIN clients \cup {id} |->
                         IF c = id THEN NewClient(n, a, rs) ELSE clients[c]]
        /\ issued' = issued \cup {id}
  BY DEF AddClient
<1>2. NewClient(n, a, rs) \in Client
  BY ConstantsAssumption
     DEF ConstantsAssumption, NewClient, Client, Token, Time, NoKey, Endpoint, NoEndpoint
<1>3. DOMAIN clients' = DOMAIN clients \cup {id}
  BY <1>1
<1>4. clients' \in [DOMAIN clients' -> Client]
  BY <1>1, <1>2 DEF TypeOK
<1>5. QED
  BY <1>1, <1>3, <1>4 DEF TypeOK, AddClient

LEMMA RemoveClientType ==
  ASSUME TypeOK, NEW n \in Name, RemoveClient(n) PROVE TypeOK'
<1>1. PICK c \in ByName(n) : /\ clients' = [d \in DOMAIN clients \ {c} |-> clients[d]]
                             /\ UNCHANGED <<hub, issued, now>>
  BY DEF RemoveClient
<1>2. QED
  BY <1>1 DEF TypeOK

LEMMA RenameClientType ==
  ASSUME TypeOK, NEW old \in Name, NEW new \in Name, RenameClient(old, new)
  PROVE  TypeOK'
<1>1. PICK c \in ByName(old) :
        clients' = [clients EXCEPT ![c].name = new, ![c].updated = now]
  BY DEF RenameClient
<1>2. c \in DOMAIN clients
  BY DEF ByName
<1> DEFINE r == [clients[c] EXCEPT !.name = new, !.updated = now]
<1>3. r \in Client
  BY <1>2, NowIsTime, FieldsOfClient DEF TypeOK, Client
<1>4. clients' = [clients EXCEPT ![c] = r]
  BY <1>1, <1>2
<1>5. QED
  BY <1>2, <1>3, <1>4, UpdateKeepsType DEF RenameClient

LEMMA RegenTokenType ==
  ASSUME TypeOK, NEW n \in Name, RegenToken(n) PROVE TypeOK'
<1>1. PICK c \in ByName(n) :
        /\ clients[c].token < MaxToken
        /\ clients' = [clients EXCEPT ![c].token = @ + 1, ![c].updated = now]
  BY DEF RegenToken
<1>2. c \in DOMAIN clients
  BY DEF ByName
<1> DEFINE r == [clients[c] EXCEPT !.token = @ + 1, !.updated = now]
<1>3. clients[c].token + 1 \in Token
  BY <1>1, <1>2, FieldsOfClient, ConstantsAssumption DEF ConstantsAssumption, Token
<1>4. r \in Client
  BY <1>2, <1>3, NowIsTime, FieldsOfClient DEF TypeOK, Client
<1>5. clients' = [clients EXCEPT ![c] = r]
  BY <1>1, <1>2
<1>6. QED
  BY <1>2, <1>4, <1>5, UpdateKeepsType DEF RegenToken

LEMMA SetBlacklistType ==
  ASSUME TypeOK, NEW n \in Name, NEW b \in BOOLEAN, SetBlacklist(n, b) PROVE TypeOK'
<1>1. PICK c \in ByName(n) :
        clients' = [clients EXCEPT ![c].banned = b, ![c].updated = now]
  BY DEF SetBlacklist
<1>2. c \in DOMAIN clients
  BY DEF ByName
<1> DEFINE r == [clients[c] EXCEPT !.banned = b, !.updated = now]
<1>3. r \in Client
  BY <1>2, NowIsTime, FieldsOfClient DEF TypeOK, Client
<1>4. clients' = [clients EXCEPT ![c] = r]
  BY <1>1, <1>2
<1>5. QED
  BY <1>2, <1>3, <1>4, UpdateKeepsType DEF SetBlacklist

LEMMA SetRoutesType ==
  ASSUME TypeOK, NEW node, NEW gain \in SUBSET Route, NEW drop \in SUBSET Route,
         SetRoutes(node, gain, drop)
  PROVE  TypeOK'
<1>1. CASE IsHub(node)
  <2>1. hub' = [hub EXCEPT !.routes = (@ \cup gain) \ drop, !.updated = now]
        /\ UNCHANGED <<clients, issued, now>>
    BY <1>1 DEF SetRoutes
  <2>2. hub' \in [key: 1 .. MaxHubKey, addr: Pool, routes: SUBSET Route, updated: Time]
    BY <2>1, NowIsTime DEF TypeOK
  <2>3. QED
    BY <2>1, <2>2 DEF TypeOK
<1>2. CASE ~IsHub(node)
  <2>1. PICK c \in ByName(node) :
          clients' = [clients EXCEPT ![c].routes = (@ \cup gain) \ drop, ![c].updated = now]
    BY <1>2 DEF SetRoutes
  <2>2. c \in DOMAIN clients /\ UNCHANGED <<hub, issued, now>>
    BY <1>2 DEF ByName, SetRoutes
  <2> DEFINE r == [clients[c] EXCEPT !.routes = (@ \cup gain) \ drop, !.updated = now]
  <2>3. r \in Client
    BY <2>2, NowIsTime, FieldsOfClient DEF TypeOK, Client
  <2>4. clients' = [clients EXCEPT ![c] = r]
    BY <2>1, <2>2
  <2>5. QED
    BY <2>2, <2>3, <2>4, UpdateKeepsType
<1>3. QED
  BY <1>1, <1>2

LEMMA InitForceType ==
  ASSUME TypeOK, NEW a \in HubAddr, NEW rs \in SUBSET Route, InitForce(a, rs) PROVE TypeOK'
<1>1. /\ DOMAIN clients' = {}
      /\ clients' \in [DOMAIN clients' -> Client]
      /\ UNCHANGED <<issued, now>>
  BY DEF InitForce
<1>2. hub.key + 1 \in 1 .. MaxHubKey /\ 0 \in Time /\ a \in Pool
  BY ConstantsAssumption DEF ConstantsAssumption, InitForce, TypeOK, Time, Pool
<1>3. hub' \in [key: 1 .. MaxHubKey, addr: Pool, routes: SUBSET Route, updated: Time]
  BY <1>2 DEF InitForce
<1>4. QED
  BY <1>1, <1>3 DEF TypeOK

LEMMA RegisterType ==
  ASSUME TypeOK, NEW c \in ID, NEW who \in Identity, NEW want \in AddrRequest,
         Register(c, who, want)
  PROVE  TypeOK'
<1> DEFINE port == PickPort(who.port, ClientWGPort)
           r == [clients[c] EXCEPT !.addr = RegisteredAddr(c, want), !.key = who.key,
                                   !.port = port, !.endpoint = EndpointFrom(who.host, port),
                                   !.updated = now, !.seen = now]
<1>1. c \in DOMAIN clients /\ UNCHANGED <<hub, issued, now>>
  BY DEF Register, RegisterAccepts
<1>2. clients' = [clients EXCEPT ![c] = r]
  BY <1>1 DEF Register
<1>3. RegisteredAddr(c, want) \in Pool
  BY <1>1, FieldsOfClient DEF Register, RegisterAccepts, RegisteredAddr, AddrFree
<1>4. port \in Nat /\ EndpointFrom(who.host, port) \in Endpoint /\ who.key \in Key
  <2>1. port \in Nat
    BY ReportedPort, PickPortType, ConstantsAssumption DEF ConstantsAssumption
  <2>2. who.host \in Host \cup {NoHost} /\ who.key \in Key
    BY DEF Identity
  <2>3. QED
    BY <2>1, <2>2, EndpointFromType
<1> HIDE DEF port
<1>5. r \in Client
  BY <1>1, <1>3, <1>4, NowIsTime, FieldsOfClient DEF TypeOK, Client
<1>6. QED
  BY <1>1, <1>2, <1>5, UpdateKeepsType

LEMMA HeartbeatType ==
  ASSUME TypeOK, NEW c \in ID, NEW who \in Identity, Heartbeat(c, who)
  PROVE  TypeOK'
<1> DEFINE stamp == IF BeatEndpoint(c, who) # clients[c].endpoint THEN now
                                                                  ELSE clients[c].updated
           r == [clients[c] EXCEPT !.key = who.key, !.port = BeatPort(c, who),
                                   !.endpoint = BeatEndpoint(c, who),
                                   !.updated = stamp, !.seen = now]
<1>1. c \in DOMAIN clients /\ UNCHANGED <<hub, issued, now>>
  BY DEF Heartbeat
<1>2. clients' = [clients EXCEPT ![c] = r]
  BY <1>1 DEF Heartbeat
<1>3. BeatPort(c, who) \in Nat
  <2>1. PickPort(who.port, clients[c].port) \in Nat
    BY <1>1, FieldsOfClient, ReportedPort, PickPortType
  <2>2. QED
    BY <2>1, PickPortType, ConstantsAssumption DEF ConstantsAssumption, BeatPort
<1>4. BeatEndpoint(c, who) \in Endpoint /\ who.key \in Key
  <2>1. who.host \in Host \cup {NoHost} /\ who.key \in Key
    BY DEF Identity
  <2>2. QED
    BY <1>1, <1>3, <2>1, FieldsOfClient, EndpointFromType DEF BeatEndpoint
<1>5. stamp \in Time
  BY <1>1, NowIsTime, FieldsOfClient
<1> HIDE DEF stamp
<1>6. r \in Client
  BY <1>1, <1>3, <1>4, <1>5, NowIsTime, FieldsOfClient DEF TypeOK, Client
<1>7. QED
  BY <1>1, <1>2, <1>6, UpdateKeepsType

LEMMA TickType == ASSUME TypeOK, Tick PROVE TypeOK'
BY ConstantsAssumption DEF ConstantsAssumption, TypeOK, Tick

\* Whatever step the registry takes, it stays well typed.
LEMMA RegistryStepType == TypeOK /\ [Next]_coordVars => TypeOK'
<1> SUFFICES ASSUME TypeOK, [Next]_coordVars PROVE TypeOK'
  OBVIOUS
<1>1. CASE Manage
  BY <1>1, AddClientType, RemoveClientType, RenameClientType, RegenTokenType,
     SetBlacklistType, SetRoutesType, InitForceType DEF Manage, AddRoutes, RemoveRoutes
<1>2. CASE Serve
  BY <1>2, RegisterType, HeartbeatType DEF Serve
<1>3. CASE Tick
  BY <1>3, TickType
<1>4. CASE UNCHANGED coordVars
  BY <1>4 DEF TypeOK, coordVars
<1> QED BY <1>1, <1>2, <1>3, <1>4 DEF Next

\* Every state of the registry is well typed: each record has the fields of
\* config.Client with values in their sets, and no client has an id never issued.
THEOREM TypeCorrect == Spec => []TypeOK
BY InitType, RegistryStepType, PTL DEF Spec

(***************************************************************************)
(* Addresses.  Only AddClient and Register assign one, and both look for   *)
(* it among the addresses in use, in the state they write to; ids are      *)
(* fresh, so that a new client disturbs no other.                          *)
(***************************************************************************)
SameAddresses ==
  /\ DOMAIN clients' \subseteq DOMAIN clients
  /\ \A c \in DOMAIN clients' : clients'[c].addr = clients[c].addr
  /\ hub'.addr = hub.addr

LEMMA SameAddressesUnique == AddressesUnique /\ SameAddresses => AddressesUnique'
BY DEF AddressesUnique, SameAddresses

\* A step that gives c a free address, and moves no other, keeps them unique.
LEMMA FreeAddressUnique ==
  ASSUME AddressesUnique, NEW c, NEW a \in Pool, AddrFree(a, c),
         DOMAIN clients' = DOMAIN clients \cup {c},
         clients'[c].addr = a,
         \A d \in DOMAIN clients : d # c => clients'[d].addr = clients[d].addr,
         hub' = hub
  PROVE  AddressesUnique'
BY DEF AddressesUnique, AddrFree

\* The allocator's choice is free for whoever gets it.
LEMMA LowestFreeIsFree ==
  ASSUME NEW a \in Pool, LowestFree(a), NEW c PROVE AddrFree(a, c)
BY DEF LowestFree, Unused, AddrFree

\* Commands that change one field of one record, and not its address.
LEMMA CommandsKeepAddresses ==
  ASSUME TypeOK,
         \/ \E n \in Name : RemoveClient(n)
         \/ \E old, new \in Name : RenameClient(old, new)
         \/ \E n \in Name : RegenToken(n)
         \/ \E n \in Name, b \in BOOLEAN : SetBlacklist(n, b)
  PROVE  SameAddresses
<1>1. CASE \E n \in Name : RemoveClient(n)
  BY <1>1 DEF RemoveClient, SameAddresses
<1>2. CASE \E old, new \in Name : RenameClient(old, new)
  <2>1. PICK c \in DOMAIN clients, new \in Name :
          /\ clients' = [clients EXCEPT ![c].name = new, ![c].updated = now]
          /\ UNCHANGED hub
    BY <1>2 DEF RenameClient, ByName
  <2>2. \A d \in DOMAIN clients : clients'[d].addr = clients[d].addr
    BY <2>1 DEF TypeOK, Client
  <2>3. QED
    BY <2>1, <2>2 DEF SameAddresses
<1>3. CASE \E n \in Name : RegenToken(n)
  <2>1. PICK c \in DOMAIN clients :
          /\ clients' = [clients EXCEPT ![c].token = @ + 1, ![c].updated = now]
          /\ UNCHANGED hub
    BY <1>3 DEF RegenToken, ByName
  <2>2. \A d \in DOMAIN clients : clients'[d].addr = clients[d].addr
    BY <2>1 DEF TypeOK, Client
  <2>3. QED
    BY <2>1, <2>2 DEF SameAddresses
<1>4. CASE \E n \in Name, b \in BOOLEAN : SetBlacklist(n, b)
  <2>1. PICK c \in DOMAIN clients, b \in BOOLEAN :
          /\ clients' = [clients EXCEPT ![c].banned = b, ![c].updated = now]
          /\ UNCHANGED hub
    BY <1>4 DEF SetBlacklist, ByName
  <2>2. \A d \in DOMAIN clients : clients'[d].addr = clients[d].addr
    BY <2>1 DEF TypeOK, Client
  <2>3. QED
    BY <2>1, <2>2 DEF SameAddresses
<1>5. QED
  BY <1>1, <1>2, <1>3, <1>4

LEMMA SetRoutesKeepsAddresses ==
  ASSUME TypeOK, NEW node, NEW gain, NEW drop, SetRoutes(node, gain, drop)
  PROVE  SameAddresses
<1>1. CASE IsHub(node)
  BY <1>1 DEF SetRoutes, SameAddresses, TypeOK
<1>2. CASE ~IsHub(node)
  <2>1. PICK c \in DOMAIN clients :
          /\ clients' = [clients EXCEPT ![c].routes = (@ \cup gain) \ drop, ![c].updated = now]
          /\ UNCHANGED hub
    BY <1>2 DEF SetRoutes, ByName
  <2>2. \A d \in DOMAIN clients : clients'[d].addr = clients[d].addr
    BY <2>1 DEF TypeOK, Client
  <2>3. QED
    BY <2>1, <2>2 DEF SameAddresses
<1>3. QED
  BY <1>1, <1>2

LEMMA AddClientAddresses ==
  ASSUME TypeOK, AddressesUnique, NEW n \in Name, NEW want \in AddrRequest,
         NEW rs \in SUBSET Route, AddClient(n, want, rs)
  PROVE  AddressesUnique'
<1>1. PICK id \in ID \ issued, a \in Pool :
        /\ IF want = NoAddr THEN LowestFree(a) ELSE a = want /\ AddrFree(a, id)
        /\ clients' = [c \in DOMAIN clients \cup {id} |->
                         IF c = id THEN NewClient(n, a, rs) ELSE clients[c]]
        /\ hub' = hub
  BY DEF AddClient
<1>2. AddrFree(a, id)
  BY <1>1, LowestFreeIsFree
<1>3. clients'[id].addr = a
  BY <1>1 DEF NewClient
<1>4. \A d \in DOMAIN clients : d # id => clients'[d].addr = clients[d].addr
  BY <1>1
<1>5. DOMAIN clients' = DOMAIN clients \cup {id}
  BY <1>1
<1>6. QED
  BY <1>1, <1>2, <1>3, <1>4, <1>5, FreeAddressUnique

LEMMA RegisterAddresses ==
  ASSUME TypeOK, AddressesUnique, NEW c \in ID, NEW who \in Identity,
         NEW want \in AddrRequest, Register(c, who, want)
  PROVE  AddressesUnique'
<1>1. /\ c \in DOMAIN clients /\ RegisterAccepts(c, want) /\ hub' = hub
      /\ DOMAIN clients' = DOMAIN clients
      /\ clients'[c].addr = RegisteredAddr(c, want)
      /\ \A d \in DOMAIN clients : d # c => clients'[d].addr = clients[d].addr
  BY DEF Register, RegisterAccepts, TypeOK, Client
<1>2. CASE KeepsAddr(c, want)
  BY <1>1, <1>2, SameAddressesUnique DEF RegisteredAddr, SameAddresses
<1>3. CASE ~KeepsAddr(c, want)
  <2>1. AddrFree(want, c) /\ want \in Pool /\ clients'[c].addr = want
    BY <1>1, <1>3 DEF RegisterAccepts, RegisteredAddr, AddrFree
  <2>2. QED
    BY <1>1, <2>1, FreeAddressUnique
<1>4. QED
  BY <1>2, <1>3

LEMMA HeartbeatKeepsAddresses ==
  ASSUME TypeOK, NEW c \in ID, NEW who \in Identity, Heartbeat(c, who)
  PROVE  SameAddresses
BY DEF Heartbeat, TypeOK, Client, SameAddresses

\* Whatever step the registry takes, no address comes to be held twice.
LEMMA RegistryStepAddresses == TypeOK /\ AddressesUnique /\ [Next]_coordVars => AddressesUnique'
<1> SUFFICES ASSUME TypeOK, AddressesUnique, [Next]_coordVars PROVE AddressesUnique'
  OBVIOUS
<1>1. CASE Manage
  <2>1. CASE \E n \in Name, want \in AddrRequest, rs \in SUBSET Route :
               AddClient(n, want, rs)
    BY <2>1, AddClientAddresses
  <2>2. CASE \/ \E n \in Name : RemoveClient(n)
             \/ \E old, new \in Name : RenameClient(old, new)
             \/ \E n \in Name : RegenToken(n)
             \/ \E n \in Name, b \in BOOLEAN : SetBlacklist(n, b)
    BY <2>2, CommandsKeepAddresses, SameAddressesUnique
  <2>3. CASE \E node \in Name \cup HubName, rs \in SUBSET Route :
               AddRoutes(node, rs) \/ RemoveRoutes(node, rs)
    BY <2>3, SetRoutesKeepsAddresses, SameAddressesUnique DEF AddRoutes, RemoveRoutes
  <2>4. CASE \E a \in HubAddr, rs \in SUBSET Route : InitForce(a, rs)
    BY <2>4 DEF InitForce, AddressesUnique
  <2> QED BY <1>1, <2>1, <2>2, <2>3, <2>4 DEF Manage
<1>2. CASE \E c \in ID, who \in Identity, want \in AddrRequest : Register(c, who, want)
  BY <1>2, RegisterAddresses
<1>3. CASE \E c \in ID, who \in Identity : Heartbeat(c, who)
  BY <1>3, HeartbeatKeepsAddresses, SameAddressesUnique
<1>4. CASE Tick \/ UNCHANGED coordVars
  BY <1>4 DEF Tick, coordVars, AddressesUnique
<1> QED BY <1>1, <1>2, <1>3, <1>4 DEF Next, Serve

LEMMA InitAddresses == Init => AddressesUnique
BY DEF Init, AddressesUnique

\* No two members of the mesh ever hold one address, whoever assigned it and
\* however commands and registers interleave.
THEOREM AddressesAreUnique == Spec => []AddressesUnique
BY InitAddresses, RegistryStepAddresses, TypeCorrect, PTL DEF Spec

(***************************************************************************)
(* Names.  Only AddClient and RenameClient give one, after looking for it. *)
(***************************************************************************)
SameNames ==
  /\ DOMAIN clients' \subseteq DOMAIN clients
  /\ \A c \in DOMAIN clients' : clients'[c].name = clients[c].name

LEMMA SameNamesUnique == NamesUnique /\ SameNames => NamesUnique'
BY DEF NamesUnique, SameNames

\* A step that gives c a name no one has, and renames no other.
LEMMA NewNameUnique ==
  ASSUME NamesUnique, NEW c, NEW n, ByName(n) = {},
         DOMAIN clients' = DOMAIN clients \cup {c},
         clients'[c].name = n,
         \A d \in DOMAIN clients : d # c => clients'[d].name = clients[d].name
  PROVE  NamesUnique'
BY DEF NamesUnique, ByName

LEMMA AddClientNames ==
  ASSUME NamesUnique, NEW n \in Name, NEW want \in AddrRequest,
         NEW rs \in SUBSET Route, AddClient(n, want, rs)
  PROVE  NamesUnique'
<1>1. PICK id \in ID \ issued, a \in Pool :
        clients' = [c \in DOMAIN clients \cup {id} |->
                      IF c = id THEN NewClient(n, a, rs) ELSE clients[c]]
  BY DEF AddClient
<1>2. /\ clients'[id].name = n
      /\ \A d \in DOMAIN clients : d # id => clients'[d].name = clients[d].name
      /\ DOMAIN clients' = DOMAIN clients \cup {id}
  BY <1>1 DEF NewClient
<1>3. QED
  BY <1>2, NewNameUnique DEF AddClient

LEMMA RenameClientNames ==
  ASSUME TypeOK, NamesUnique, NEW old \in Name, NEW new \in Name, RenameClient(old, new)
  PROVE  NamesUnique'
<1>1. PICK c \in DOMAIN clients :
        clients' = [clients EXCEPT ![c].name = new, ![c].updated = now]
  BY DEF RenameClient, ByName
<1>2. /\ clients'[c].name = new
      /\ \A d \in DOMAIN clients : d # c => clients'[d].name = clients[d].name
      /\ DOMAIN clients' = DOMAIN clients \cup {c}
  BY <1>1 DEF TypeOK, Client
<1>3. QED
  BY <1>2, NewNameUnique DEF RenameClient

\* Every other step leaves the names of those it keeps alone.
LEMMA OthersKeepNames ==
  ASSUME TypeOK,
         \/ \E n \in Name : RemoveClient(n) \/ RegenToken(n)
         \/ \E n \in Name, b \in BOOLEAN : SetBlacklist(n, b)
         \/ \E node \in Name \cup HubName, rs \in SUBSET Route :
              AddRoutes(node, rs) \/ RemoveRoutes(node, rs)
         \/ \E a \in HubAddr, rs \in SUBSET Route : InitForce(a, rs)
         \/ Serve
         \/ Tick
         \/ UNCHANGED coordVars
  PROVE  SameNames
<1>1. CASE \E n \in Name : RemoveClient(n)
  BY <1>1 DEF RemoveClient, SameNames
<1>2. CASE \E n \in Name : RegenToken(n)
  <2>1. PICK c \in DOMAIN clients :
          clients' = [clients EXCEPT ![c].token = @ + 1, ![c].updated = now]
    BY <1>2 DEF RegenToken, ByName
  <2>2. QED
    BY <2>1 DEF SameNames, TypeOK, Client
<1>3. CASE \E n \in Name, b \in BOOLEAN : SetBlacklist(n, b)
  <2>1. PICK c \in DOMAIN clients, b \in BOOLEAN :
          clients' = [clients EXCEPT ![c].banned = b, ![c].updated = now]
    BY <1>3 DEF SetBlacklist, ByName
  <2>2. QED
    BY <2>1 DEF SameNames, TypeOK, Client
<1>4. CASE \E node \in Name \cup HubName, rs \in SUBSET Route :
             AddRoutes(node, rs) \/ RemoveRoutes(node, rs)
  <2>1. PICK node, gain, drop : SetRoutes(node, gain, drop)
    BY <1>4 DEF AddRoutes, RemoveRoutes
  <2>2. CASE clients' = clients
    BY <2>2 DEF SameNames
  <2>3. CASE \E c \in DOMAIN clients :
               clients' = [clients EXCEPT ![c].routes = (@ \cup gain) \ drop, ![c].updated = now]
    BY <2>3 DEF SameNames, TypeOK, Client
  <2>4. QED
    BY <2>1, <2>2, <2>3 DEF SetRoutes, ByName
<1>5. CASE \E a \in HubAddr, rs \in SUBSET Route : InitForce(a, rs)
  BY <1>5 DEF InitForce, SameNames
<1>6. CASE Serve
  <2>1. CASE \E c \in ID, who \in Identity, want \in AddrRequest : Register(c, who, want)
    BY <2>1 DEF Register, RegisterAccepts, SameNames, TypeOK, Client
  <2>2. CASE \E c \in ID, who \in Identity : Heartbeat(c, who)
    BY <2>2 DEF Heartbeat, SameNames, TypeOK, Client
  <2>3. QED
    BY <1>6, <2>1, <2>2 DEF Serve
<1>7. CASE Tick \/ UNCHANGED coordVars
  BY <1>7 DEF Tick, coordVars, SameNames
<1>8. QED
  BY <1>1, <1>2, <1>3, <1>4, <1>5, <1>6, <1>7

\* A name always resolves to at most one client.
THEOREM NamesAreUnique == Spec => []NamesUnique
<1>1. Init => NamesUnique
  BY DEF Init, NamesUnique
<1>2. TypeOK /\ NamesUnique /\ [Next]_coordVars => NamesUnique'
  BY AddClientNames, RenameClientNames, OthersKeepNames, SameNamesUnique DEF Next, Manage
<1>3. QED
  BY <1>1, <1>2, TypeCorrect, PTL DEF Spec

(***************************************************************************)
(* The delta of a heartbeat.                                               *)
(***************************************************************************)

\* What a client reports, with what it is sent and without what it is told to
\* drop, is what is advertised to it: in every reachable state, whatever it
\* reports.
THEOREM DeltaAlwaysReconciles == Spec => []DeltaReconciles
<1>1. DeltaReconciles
  <2> SUFFICES ASSUME NEW c \in DOMAIN clients, NEW have \in SUBSET (PeerID \ {c})
               PROVE  (have \cup AddIDs(c, have)) \ RemoveIDs(c, have) = DOMAIN BuildPeers(c)
    BY DEF DeltaReconciles
  <2>1. HubID \in DOMAIN BuildPeers(c)
    BY DEF BuildPeers
  <2>2. QED
    BY <2>1 DEF AddIDs, RemoveIDs
<1>2. QED
  BY <1>1, PTL

(***************************************************************************)
(* The registry implements AddressLease: AddClient and Register are an     *)
(* Assign (a register that keeps its address assigns it again), a removal  *)
(* is a Release, init --force a Start, and all else leaves the lease alone.*)
(***************************************************************************)
LeasedTo == [p \in DOMAIN clients \cup {HubID} |->
               IF p = HubID THEN hub.addr ELSE clients[p].addr]

LEMMA HubIsNoClient == ASSUME TypeOK PROVE HubID \notin DOMAIN clients
BY ConstantsAssumption DEF ConstantsAssumption, TypeOK

LEMMA LeaseUntouched ==
  ASSUME SameAddresses, DOMAIN clients' = DOMAIN clients
  PROVE  UNCHANGED LeasedTo
BY DEF SameAddresses, LeasedTo

\* Giving client c an address that is free for it assigns that address.
LEMMA FreeAddressAssigned ==
  ASSUME TypeOK, NEW c \in ID, NEW a \in Pool, AddrFree(a, c),
         DOMAIN clients' = DOMAIN clients \cup {c},
         clients'[c].addr = a,
         \A d \in DOMAIN clients : d # c => clients'[d].addr = clients[d].addr,
         hub' = hub
  PROVE  Lease!Next
<1>1. c # HubID
  BY ConstantsAssumption DEF ConstantsAssumption
<1>2. \A p \in DOMAIN LeasedTo \ {c} : LeasedTo[p] # a
  BY HubIsNoClient DEF AddrFree, LeasedTo
<1>3. LeasedTo' = [p \in DOMAIN LeasedTo \cup {c} |-> IF p = c THEN a ELSE LeasedTo[p]]
  BY <1>1 DEF LeasedTo
<1>4. Lease!Assign(c, a)
  BY <1>2, <1>3 DEF Lease!Assign, LeasedTo
<1> QED BY <1>4 DEF Lease!Next, PeerID

LEMMA AddClientLease ==
  ASSUME TypeOK, NEW n \in Name, NEW want \in AddrRequest, NEW rs \in SUBSET Route,
         AddClient(n, want, rs)
  PROVE  Lease!Next
<1>1. PICK id \in ID \ issued, a \in Pool :
        /\ IF want = NoAddr THEN LowestFree(a) ELSE a = want /\ AddrFree(a, id)
        /\ clients' = [c \in DOMAIN clients \cup {id} |->
                         IF c = id THEN NewClient(n, a, rs) ELSE clients[c]]
        /\ hub' = hub
  BY DEF AddClient
<1>2. AddrFree(a, id)
  BY <1>1, LowestFreeIsFree
<1>3. /\ clients'[id].addr = a
      /\ \A d \in DOMAIN clients : d # id => clients'[d].addr = clients[d].addr
      /\ DOMAIN clients' = DOMAIN clients \cup {id}
  BY <1>1 DEF NewClient
<1> QED BY <1>1, <1>2, <1>3, FreeAddressAssigned

LEMMA RegisterLease ==
  ASSUME TypeOK, NEW c \in ID, NEW who \in Identity, NEW want \in AddrRequest,
         Register(c, who, want)
  PROVE  Lease!Next \/ UNCHANGED LeasedTo
<1>1. /\ c \in DOMAIN clients /\ RegisterAccepts(c, want) /\ hub' = hub
      /\ DOMAIN clients' = DOMAIN clients
      /\ clients'[c].addr = RegisteredAddr(c, want)
      /\ \A d \in DOMAIN clients : d # c => clients'[d].addr = clients[d].addr
  BY DEF Register, RegisterAccepts, TypeOK, Client
<1>2. CASE KeepsAddr(c, want)
  BY <1>1, <1>2, LeaseUntouched DEF RegisteredAddr, SameAddresses
<1>3. CASE ~KeepsAddr(c, want)
  <2>1. AddrFree(want, c) /\ want \in Pool /\ clients'[c].addr = want
    BY <1>1, <1>3 DEF RegisterAccepts, RegisteredAddr, AddrFree
  <2>2. DOMAIN clients' = DOMAIN clients \cup {c}
    BY <1>1
  <2> QED BY <1>1, <2>1, <2>2, FreeAddressAssigned
<1> QED BY <1>2, <1>3

LEMMA RemoveClientLease ==
  ASSUME TypeOK, NEW n \in Name, RemoveClient(n) PROVE Lease!Next
<1>1. PICK c \in DOMAIN clients : /\ clients' = [d \in DOMAIN clients \ {c} |-> clients[d]]
                                  /\ hub' = hub
  BY DEF RemoveClient, ByName
<1>2. c # HubID /\ c \in ID
  BY HubIsNoClient DEF TypeOK
<1>3. LeasedTo' = [p \in DOMAIN LeasedTo \ {c} |-> LeasedTo[p]]
  BY <1>1, <1>2 DEF LeasedTo
<1>4. Lease!Release(c)
  BY <1>3 DEF Lease!Release, LeasedTo
<1> QED BY <1>2, <1>4 DEF Lease!Next, PeerID

LEMMA InitForceLease ==
  ASSUME TypeOK, NEW a \in HubAddr, NEW rs \in SUBSET Route, InitForce(a, rs)
  PROVE  Lease!Next
<1>1. LeasedTo' = [p \in {HubID} |-> a]
  BY DEF InitForce, LeasedTo
<1>2. a \in Pool /\ HubID \in PeerID
  BY ConstantsAssumption DEF ConstantsAssumption, Pool, PeerID
<1> QED BY <1>1, <1>2 DEF Lease!Next, Lease!Start, LeasedTo

LEMMA LeaseStep ==
  ASSUME TypeOK, [Next]_coordVars PROVE [Lease!Next]_LeasedTo
<1>1. ASSUME NEW old \in Name, NEW new \in Name, RenameClient(old, new)
      PROVE  UNCHANGED LeasedTo
  BY <1>1, CommandsKeepAddresses, LeaseUntouched DEF RenameClient
<1>2. ASSUME NEW n \in Name, RegenToken(n) PROVE UNCHANGED LeasedTo
  BY <1>2, CommandsKeepAddresses, LeaseUntouched DEF RegenToken
<1>3. ASSUME NEW n \in Name, NEW b \in BOOLEAN, SetBlacklist(n, b)
      PROVE  UNCHANGED LeasedTo
  BY <1>3, CommandsKeepAddresses, LeaseUntouched DEF SetBlacklist
<1>4. ASSUME NEW node, NEW gain, NEW drop, SetRoutes(node, gain, drop)
      PROVE  UNCHANGED LeasedTo
  <2>1. DOMAIN clients' = DOMAIN clients
    BY <1>4 DEF SetRoutes
  <2> QED BY <1>4, <2>1, SetRoutesKeepsAddresses, LeaseUntouched
<1>5. CASE Manage
  BY <1>1, <1>2, <1>3, <1>4, <1>5, AddClientLease, RemoveClientLease, InitForceLease
     DEF Manage, AddRoutes, RemoveRoutes
<1>6. ASSUME NEW c \in ID, NEW who \in Identity, Heartbeat(c, who)
      PROVE  UNCHANGED LeasedTo
  BY <1>6, HeartbeatKeepsAddresses, LeaseUntouched DEF Heartbeat
<1>7. CASE Serve
  BY <1>6, <1>7, RegisterLease DEF Serve
<1>8. CASE Tick \/ UNCHANGED coordVars
  BY <1>8 DEF Tick, coordVars, LeasedTo
<1> QED BY <1>5, <1>7, <1>8 DEF Next

LEMMA LeaseInitially == Init => Lease!Init
<1> SUFFICES ASSUME Init PROVE Lease!Init
  OBVIOUS
<1>1. LeasedTo = [p \in {HubID} |-> hub.addr]
  BY DEF Init, LeasedTo
<1>2. hub.addr \in Pool /\ HubID \in PeerID
  BY ConstantsAssumption DEF ConstantsAssumption, Init, Pool, PeerID
<1> QED BY <1>1, <1>2 DEF Lease!Init, Lease!Start, LeasedTo

\* Every operation of the registry is one of the lease, so that no address is
\* given to a second member and none moves without its holder.
THEOREM RegistryImplementsLease == Spec => AddressesAreLeased
<1>1. TypeOK /\ [Next]_coordVars => [Lease!Next]_LeasedTo
  BY LeaseStep
<1> QED BY TypeCorrect, LeaseInitially, <1>1, PTL
        DEF Spec, AddressesAreLeased, Lease!Spec, LeasedTo

=============================================================================
