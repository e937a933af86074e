--------------------------- MODULE PeerExchangeProofs ---------------------------
(***************************************************************************)
(* Proofs about the exchange of peers on a network that loses nothing, for *)
(* every number of machines and peers.  Hub and machine agree on key and   *)
(* address; and when, besides, an advertised change is stamped later than  *)
(* every sync on record, a cached record is either the advertised one or   *)
(* one that the next heartbeat is sent again.  From that follows that      *)
(* MeshSync implements PeerExchange, and that no cache holds two owners of *)
(* one address.                                                            *)
(***************************************************************************)
EXTENDS MeshSyncProofs

(***************************************************************************)
(* The invariants.                                                         *)
(***************************************************************************)

\* Machine c holds peers, in its config or in an answer on its way.
Holds(c) == c \in DOMAIN node \/ Answered(c)

\* An answer carries the address on record, and the key on record is its request's.
AnswersAgree ==
  \A c \in DOMAIN clients : Answered(c) =>
    clients[c].key = call[c].req.who.key /\ clients[c].addr = call[c].answer.addr

IdentityInv == stray = {} /\ IdentityAgrees /\ AnswersAgree

\* What everyone is told of p.
AdvertOf(p) == IF p = HubID THEN HubAdvert ELSE Advert(p)

\* What a machine holds of a peer is what is advertised, or was changed since.
\* Unlike NextBeatRefreshes, this covers a machine whose first peers are in an answer
\* on its way, and the sync that a machine with peers has on record.
Fresh(c) ==
  /\ Holds(c) => clients[c].seen # 0
  /\ \A p \in DOMAIN View(c) :
       p \in DOMAIN clients \cup {HubID} => View(c)[p] = AdvertOf(p) \/ Changed(p, c)

FreshInv == \A c \in DOMAIN clients : Fresh(c)

\* Peers with addresses of their own, none of them a.
Apart(a, peers) ==
  \A p, q \in DOMAIN peers : peers[p].addr # a /\ (peers[p].addr = peers[q].addr => p = q)

ApartInv ==
  /\ \A c \in DOMAIN node : Apart(node[c].addr, node[c].peers)
  /\ \A c \in DOMAIN call : Answered(c) => Apart(call[c].answer.addr, View(c))

(***************************************************************************)
(* Steps of the registry alone.                                            *)
(***************************************************************************)

\* What a command may do to clients that stay, and to the hub: what it changes,
\* it stamps.
Stamped(c) ==
  /\ clients'[c].key = clients[c].key
  /\ clients'[c].addr = clients[c].addr
  /\ clients'[c].seen = clients[c].seen
  /\ clients'[c] = clients[c] \/ clients'[c].updated = now

StampingStep ==
  /\ DOMAIN clients' \ DOMAIN clients \subseteq issued' \ issued
  /\ \A c \in DOMAIN clients \cap DOMAIN clients' : Stamped(c)
  /\ DOMAIN clients' = {} \/ hub' = hub \/ (hub'.key = hub.key /\ hub'.updated = now)

LEMMA OneIsStamped ==
  ASSUME TypeOK, NEW c \in DOMAIN clients, NEW r, clients' = [clients EXCEPT ![c] = r],
         r.key = clients[c].key, r.addr = clients[c].addr, r.seen = clients[c].seen,
         r.updated = now, hub' = hub
  PROVE  StampingStep
<1>1. \A d \in DOMAIN clients : clients'[d] = IF d = c THEN r ELSE clients[d]
  BY DEF TypeOK
<1>2. DOMAIN clients' = DOMAIN clients
  BY DEF TypeOK
<1> QED BY <1>1, <1>2 DEF StampingStep, Stamped

LEMMA SetRoutesStamps ==
  ASSUME TypeOK, NEW n, NEW gain, NEW drop, SetRoutes(n, gain, drop) PROVE StampingStep
<1>1. CASE IsHub(n)
  <2>1. hub' = [hub EXCEPT !.routes = (@ \cup gain) \ drop, !.updated = now] /\ clients' = clients
    BY <1>1 DEF SetRoutes
  <2>2. hub'.key = hub.key /\ hub'.updated = now
    BY <2>1 DEF TypeOK
  <2> QED BY <2>1, <2>2 DEF StampingStep, Stamped
<1>2. CASE ~IsHub(n)
  <2>1. PICK c \in DOMAIN clients :
          /\ clients' = [clients EXCEPT ![c].routes = (@ \cup gain) \ drop, ![c].updated = now]
          /\ hub' = hub
    BY <1>2 DEF SetRoutes, ByName
  <2> DEFINE r == [clients[c] EXCEPT !.routes = (@ \cup gain) \ drop, !.updated = now]
  <2>2. clients' = [clients EXCEPT ![c] = r]
    BY <2>1
  <2>3. /\ r.key = clients[c].key /\ r.addr = clients[c].addr /\ r.seen = clients[c].seen
        /\ r.updated = now
    BY DEF TypeOK, Client
  <2> QED BY <2>1, <2>2, <2>3, OneIsStamped
<1> QED BY <1>1, <1>2

LEMMA ManageStamps == ASSUME TypeOK, Manage PROVE StampingStep
<1>1. ASSUME NEW n, NEW want, NEW rs, AddClient(n, want, rs) PROVE StampingStep
  <2>1. PICK id \in ID \ issued, a \in Pool :
          /\ clients' = [c \in DOMAIN clients \cup {id} |->
                           IF c = id THEN NewClient(n, a, rs) ELSE clients[c]]
          /\ issued' = issued \cup {id} /\ hub' = hub
    BY <1>1 DEF AddClient
  <2>2. id \notin DOMAIN clients
    BY DEF TypeOK
  <2> QED BY <2>1, <2>2 DEF StampingStep, Stamped
<1>2. ASSUME NEW n, RemoveClient(n) PROVE StampingStep
  BY <1>2 DEF RemoveClient, StampingStep, Stamped
<1>3. ASSUME NEW old, NEW new, RenameClient(old, new) PROVE StampingStep
  <2>1. PICK c \in DOMAIN clients :
          clients' = [clients EXCEPT ![c].name = new, ![c].updated = now] /\ hub' = hub
    BY <1>3 DEF RenameClient, ByName
  <2> DEFINE r == [clients[c] EXCEPT !.name = new, !.updated = now]
  <2>2. clients' = [clients EXCEPT ![c] = r]
    BY <2>1
  <2>3. /\ r.key = clients[c].key /\ r.addr = clients[c].addr /\ r.seen = clients[c].seen
        /\ r.updated = now
    BY DEF TypeOK, Client
  <2> QED BY <2>1, <2>2, <2>3, OneIsStamped
<1>4. ASSUME NEW n, RegenToken(n) PROVE StampingStep
  <2>1. PICK c \in DOMAIN clients :
          clients' = [clients EXCEPT ![c].token = @ + 1, ![c].updated = now] /\ hub' = hub
    BY <1>4 DEF RegenToken, ByName
  <2> DEFINE r == [clients[c] EXCEPT !.token = @ + 1, !.updated = now]
  <2>2. clients' = [clients EXCEPT ![c] = r]
    BY <2>1
  <2>3. /\ r.key = clients[c].key /\ r.addr = clients[c].addr /\ r.seen = clients[c].seen
        /\ r.updated = now
    BY DEF TypeOK, Client
  <2> QED BY <2>1, <2>2, <2>3, OneIsStamped
<1>5. ASSUME NEW n, NEW b, SetBlacklist(n, b) PROVE StampingStep
  <2>1. PICK c \in DOMAIN clients :
          clients' = [clients EXCEPT ![c].banned = b, ![c].updated = now] /\ hub' = hub
    BY <1>5 DEF SetBlacklist, ByName
  <2> DEFINE r == [clients[c] EXCEPT !.banned = b, !.updated = now]
  <2>2. clients' = [clients EXCEPT ![c] = r]
    BY <2>1
  <2>3. /\ r.key = clients[c].key /\ r.addr = clients[c].addr /\ r.seen = clients[c].seen
        /\ r.updated = now
    BY DEF TypeOK, Client
  <2> QED BY <2>1, <2>2, <2>3, OneIsStamped
<1>6. ASSUME NEW a, NEW rs, InitForce(a, rs) PROVE StampingStep
  BY <1>6 DEF InitForce, StampingStep
<1> QED BY <1>1, <1>2, <1>3, <1>4, <1>5, <1>6, SetRoutesStamps DEF Manage, AddRoutes, RemoveRoutes

\* A step of operators or of the clock, and what it leaves of the machines.
Operators == Admit \/ Edit \/ Pass \/ StepBack

LEMMA OperatorsStamp ==
  ASSUME TypeOK, Operators
  PROVE  /\ StampingStep
         /\ UNCHANGED <<node, call, stray>>
         /\ \A c \in DOMAIN clients \cap DOMAIN clients' : clients'[c] # clients[c] => Unshared(c)
         /\ DOMAIN clients' = {} \/ hub' = hub \/ (hub'.updated = now /\ Unshared(HubID))
<1>1. CASE Admit
  <2>1. StampingStep
    BY <1>1, AdmitManages, ManageStamps
  <2>2. hub' = hub /\ UNCHANGED <<node, call, stray>>
    BY <1>1 DEF Admit, AddClient, machineVars
  <2>3. \A c \in DOMAIN clients \cap DOMAIN clients' : clients'[c] = clients[c]
    BY <1>1 DEF Admit, AddClient, TypeOK
  <2> QED BY <2>1, <2>2, <2>3
<1>2. CASE Edit
  <2>1. StampingStep
    BY <1>2, EditManages, ManageStamps
  <2>2. /\ \A c \in DOMAIN clients \cap DOMAIN clients' : clients'[c] # clients[c] => Unshared(c)
        /\ hub' # hub /\ hub'.key = hub.key => Unshared(HubID)
        /\ UNCHANGED <<node, call, stray>>
    BY <1>2 DEF Edit, machineVars
  <2> QED BY <2>1, <2>2 DEF StampingStep
<1>3. CASE Pass \/ StepBack
  <2>1. UNCHANGED <<clients, hub, issued, node, call, stray>>
    BY <1>3 DEF Pass, Tick, StepBack, machineVars
  <2> QED BY <2>1 DEF StampingStep, Stamped
<1> QED BY <1>1, <1>2, <1>3 DEF Operators

(***************************************************************************)
(* Steps of the machines, and of a handler that writes nothing.            *)
(***************************************************************************)
SameCache(d) ==
  /\ node'[d].who.key = node[d].who.key
  /\ node'[d].addr = node[d].addr
  /\ node'[d].peers = node[d].peers

TakesAnswer(d) ==
  /\ Answered(d)
  /\ node'[d].who.key = call[d].req.who.key
  /\ node'[d].addr = call[d].answer.addr
  /\ node'[d].peers = View(d)

\* Machine d holds what it held before, in its config or in an answer.
MachineKeeps(d) ==
  /\ d \in DOMAIN node' => TakesAnswer(d) \/ (d \in DOMAIN node /\ SameCache(d))
  /\ Answered(d)' => Answered(d) /\ call'[d] = call[d]
  /\ Holds(d)' => Holds(d) /\ View(d)' = View(d)

LEMMA QuietKeeps ==
  ASSUME NEW d \in ID, d \in DOMAIN node' <=> d \in DOMAIN node, d \in DOMAIN node => SameCache(d),
         Answered(d)' <=> Answered(d), Answered(d) => call'[d] = call[d]
  PROVE  MachineKeeps(d) /\ (Holds(d)' <=> Holds(d))
<1>1. CachedBefore(d)' = CachedBefore(d)
  BY DEF CachedBefore, SameCache
<1>2. View(d)' = View(d)
  BY <1>1 DEF View
<1> QED BY <1>2 DEF MachineKeeps, Holds

\* A machine that changes neither its peers nor an answer to it.
Quiet(c) ==
  \/ StartJoin(c) \/ StartBeat(c) \/ Roam(c) \/ EnterToken(c) \/ Authenticate(c) \/ Refuse(c)

LEMMA QuietStep ==
  ASSUME MeshInv, NEW c \in ID, Quiet(c)
  PROVE  \A d \in ID : MachineKeeps(d) /\ (Holds(d)' <=> Holds(d))
<1> SUFFICES ASSUME NEW d \in ID PROVE MachineKeeps(d) /\ (Holds(d)' <=> Holds(d))
  OBVIOUS
<1>1. CASE StartJoin(c)
  <2>1. PICK r : call' = Replace(call, c, [stage |-> "sent", req |-> r])
    BY <1>1 DEF StartJoin
  <2>2. c \notin DOMAIN call /\ node' = node
    BY <1>1 DEF StartJoin
  <2> QED BY <2>1, <2>2, QuietKeeps DEF Replace, Answered, SameCache
<1>2. CASE StartBeat(c)
  <2>1. PICK r : call' = Replace(call, c, [stage |-> "sent", req |-> r])
    BY <1>2 DEF StartBeat
  <2>2. c \notin DOMAIN call /\ node' = node
    BY <1>2 DEF StartBeat
  <2> QED BY <2>1, <2>2, QuietKeeps DEF Replace, Answered, SameCache
<1>3. CASE Roam(c)
  <2>1. PICK h \in Host \cup {NoHost}, p \in Port :
          node' = [node EXCEPT ![c].who.host = h, ![c].who.port = p]
    BY <1>3 DEF Roam
  <2>2. c \in DOMAIN node /\ NodeOK(c) /\ call' = call
    BY <1>3 DEF Roam, MeshInv, MachineOK
  <2>3. SameCache(c)
    BY <2>1, <2>2 DEF SameCache, NodeOK, Identity
  <2> QED BY <2>1, <2>2, <2>3, QuietKeeps DEF Answered, SameCache
<1>4. CASE EnterToken(c)
  <2>1. node' = [node EXCEPT ![c].token = clients[c].token] /\ c \in DOMAIN node /\ call' = call
    BY <1>4 DEF EnterToken
  <2>2. SameCache(c)
    BY <2>1 DEF SameCache, MeshInv, MachineOK, NodeOK
  <2> QED BY <2>1, <2>2, QuietKeeps DEF Answered, SameCache
<1>5. CASE Authenticate(c)
  <2>1. call' = [call EXCEPT ![c].stage = "authed"] /\ c \in DOMAIN call /\ node' = node
    BY <1>5 DEF Authenticate
  <2>2. call[c] \in Stray /\ call[c].stage = "sent"
    BY <1>5 DEF Authenticate, MeshInv, MachineOK, CallOK
  <2>3. ~Answered(c) /\ ~Answered(c)'
    BY <2>1, <2>2 DEF Answered, Stray
  <2> QED BY <2>1, <2>3, QuietKeeps DEF Answered, SameCache
<1>6. CASE Refuse(c)
  <2>1. call' = Drop(call, c) /\ ~Answered(c) /\ node' = node
    BY <1>6 DEF Refuse, Answered
  <2> QED BY <2>1, QuietKeeps DEF Drop, Answered, SameCache
<1> QED BY <1>1, <1>2, <1>3, <1>4, <1>5, <1>6 DEF Quiet

LEMMA DeliverStep ==
  ASSUME MeshInv, NEW c \in ID, Deliver(c)
  PROVE  \A d \in ID : MachineKeeps(d) /\ (Holds(d)' <=> Holds(d))
<1>1. /\ Answered(c) /\ call' = Drop(call, c)
      /\ node' = Replace(node, c, [token |-> call[c].req.token, who |-> call[c].req.who,
                                   addr |-> call[c].answer.addr, peers |-> View(c)])
  BY DEF Deliver
<1>2. ASSUME NEW d \in ID, d # c PROVE MachineKeeps(d) /\ (Holds(d)' <=> Holds(d))
  BY <1>1, <1>2, QuietKeeps DEF Replace, Drop, Answered, SameCache
<1>3. c \in DOMAIN node' /\ TakesAnswer(c) /\ ~Answered(c)'
  BY <1>1 DEF Replace, Drop, Answered, TakesAnswer
<1>4. View(c)' = View(c)
  <2>1. View(c)' = node'[c].peers
    BY <1>3 DEF View, CachedBefore
  <2> QED BY <1>3, <2>1 DEF TakesAnswer
<1>5. MachineKeeps(c) /\ (Holds(c)' <=> Holds(c))
  BY <1>1, <1>3, <1>4 DEF MachineKeeps, Holds
<1> QED BY <1>2, <1>5

LEMMA LeaveStep ==
  ASSUME MeshInv, NEW c \in ID, Leave(c)
  PROVE  /\ \A d \in ID : MachineKeeps(d)
         /\ \A d \in ID \ {c} : Holds(d)' <=> Holds(d)
         /\ Holds(c) /\ ~Holds(c)'
<1>1. c \in DOMAIN node /\ c \notin DOMAIN call /\ node' = Drop(node, c) /\ call' = call
  BY DEF Leave
<1>2. ASSUME NEW d \in ID, d # c PROVE MachineKeeps(d) /\ (Holds(d)' <=> Holds(d))
  BY <1>1, <1>2, QuietKeeps DEF Drop, Answered, SameCache
<1>3. Holds(c) /\ ~Holds(c)' /\ c \notin DOMAIN node' /\ ~Answered(c)'
  BY <1>1 DEF Drop, Holds, Answered
<1> QED BY <1>2, <1>3 DEF MachineKeeps

\* A step of a machine, or of a handler that writes nothing.
Local(c) == Machine(c) \/ Authenticate(c) \/ Refuse(c)

\* Without loss, machines keep what they hold until they leave.
LEMMA LocalStep ==
  ASSUME ~Lossy, MeshInv, NEW c \in ID, Local(c)
  PROVE  /\ UNCHANGED <<clients, hub, issued, now, stray>>
         /\ \A d \in ID : MachineKeeps(d)
         /\ Leave(c) \/ \A d \in ID : Holds(d)' <=> Holds(d)
<1>1. Quiet(c) \/ Deliver(c) \/ Leave(c)
  BY DEF Local, Machine, Quiet, Abandon
<1>2. UNCHANGED <<clients, hub, issued, now, stray>>
  BY <1>1 DEF Quiet, StartJoin, StartBeat, Deliver, Roam, EnterToken, Leave, Authenticate,
     Refuse, coordVars
<1> QED BY <1>1, <1>2, QuietStep, DeliverStep, LeaveStep

(***************************************************************************)
(* The coordinator's write of an answer.                                   *)
(***************************************************************************)
LEMMA WriteRecords ==
  ASSUME TypeOK, NEW r \in Request, Write(r)
  PROVE  LET c == r.client IN
         /\ clients'[c].key = r.who.key /\ clients'[c].addr = Answer(r).addr
         /\ clients'[c].seen = now
         /\ r.op = "heartbeat" => clients'[c].addr = clients[c].addr
         /\ \/ clients'[c].updated = now
            \/ /\ r.op = "heartbeat"
               /\ clients'[c].name = clients[c].name /\ clients'[c].endpoint = clients[c].endpoint
               /\ clients'[c].routes = clients[c].routes /\ clients'[c].updated = clients[c].updated
         /\ clients'[c].updated = now => Unshared(c)
<1> DEFINE c == r.client
<1>1. c \in DOMAIN clients /\ clients[c] \in Client /\ r.op \in {"register", "heartbeat"}
  BY WriteChangesOne DEF TypeOK, Request
<1>2. clients'[c].updated = now => Unshared(c)
  BY DEF Write
<1>3. CASE r.op = "register" /\ Register(c, r.who, r.want)
  <2>1. /\ clients'[c].addr = RegisteredAddr(c, r.want) /\ clients'[c].key = r.who.key
        /\ clients'[c].updated = now /\ clients'[c].seen = now
    BY <1>1, <1>3 DEF Register, Client
  <2>2. Answer(r).addr = RegisteredAddr(c, r.want)
    BY <1>3 DEF Answer
  <2> QED BY <1>2, <1>3, <2>1, <2>2
<1>4. CASE r.op = "heartbeat" /\ Heartbeat(c, r.who)
  <2>1. /\ clients'[c].key = r.who.key /\ clients'[c].seen = now
        /\ clients'[c].addr = clients[c].addr /\ clients'[c].name = clients[c].name
        /\ clients'[c].routes = clients[c].routes
        /\ clients'[c].endpoint = BeatEndpoint(c, r.who)
        /\ clients'[c].updated = IF BeatEndpoint(c, r.who) # clients[c].endpoint
                                   THEN now ELSE clients[c].updated
    BY <1>1, <1>4 DEF Heartbeat, Client
  <2>2. Answer(r).addr = clients[c].addr
    BY <1>4 DEF Answer
  <2> QED BY <1>2, <1>4, <2>1, <2>2
<1> QED BY <1>3, <1>4 DEF Write

\* What a write leaves of hub and machines: it stamps its client if that is
\* advertised otherwise than before.
Answers(c) ==
  /\ c \in DOMAIN clients /\ DOMAIN clients' = DOMAIN clients
  /\ \A d \in DOMAIN clients \ {c} : clients'[d] = clients[d]
  /\ UNCHANGED <<hub, issued, now, node, stray>>
  /\ ~Answered(c) /\ Answered(c)'
  /\ clients'[c].key = call'[c].req.who.key /\ clients'[c].addr = call'[c].answer.addr
  /\ clients'[c].seen = now
  /\ c \in DOMAIN node => clients'[c].key = clients[c].key /\ clients'[c].addr = clients[c].addr
  /\ \/ clients'[c].updated = now /\ Unshared(c)
     \/ clients'[c].updated = clients[c].updated /\ Advert(c)' = Advert(c)
  /\ \A d \in ID \ {c} :
       MachineKeeps(d) /\ (Holds(d)' <=> Holds(d)) /\ (Answered(d)' <=> Answered(d))

LEMMA CommitStep ==
  ASSUME MeshInv, IdentityAgrees, NEW c \in ID, Commit(c) PROVE Answers(c)
<1>1. PICK r \in Request :
        /\ r.client = c /\ Write(r) /\ r = call[c].req
        /\ r.op = "heartbeat" <=> c \in DOMAIN node
        /\ c \in DOMAIN node => r.who = node[c].who
        /\ Answered(c)' /\ call'[c].req = r /\ call'[c].answer = Answer(r)
  BY CommitAnswers
<1>2. /\ c \in DOMAIN clients /\ DOMAIN clients' = DOMAIN clients
      /\ \A d \in DOMAIN clients \ {c} : clients'[d] = clients[d]
      /\ UNCHANGED <<hub, issued, now>>
  BY <1>1, WriteChangesOne DEF MeshInv
<1>3. /\ ~Answered(c) /\ UNCHANGED <<node, stray>>
      /\ call' = Replace(call, c, [stage |-> "answered", req |-> call[c].req,
                                   answer |-> Answer(call[c].req)])
  BY DEF Commit, Answered
<1>4. c \in DOMAIN node => clients'[c].key = clients[c].key /\ clients'[c].addr = clients[c].addr
  BY <1>1, <1>2, WriteRecords DEF MeshInv, IdentityAgrees
<1>5. \/ clients'[c].updated = now /\ Unshared(c)
      \/ clients'[c].updated = clients[c].updated /\ Advert(c)' = Advert(c)
  BY <1>1, <1>4, WriteRecords DEF MeshInv, Advert
<1>6. ASSUME NEW d \in ID \ {c}
      PROVE  MachineKeeps(d) /\ (Holds(d)' <=> Holds(d)) /\ (Answered(d)' <=> Answered(d))
  BY <1>3, QuietKeeps DEF Replace, Answered, SameCache
<1>7. /\ clients'[c].key = call'[c].req.who.key /\ clients'[c].addr = call'[c].answer.addr
      /\ clients'[c].seen = now
  BY <1>1, WriteRecords DEF MeshInv
<1> QED BY <1>1, <1>2, <1>3, <1>4, <1>5, <1>6, <1>7 DEF Answers

\* Folded into records that are current or changed since, an answer makes them
\* the records advertised.
LEMMA DeltaFixesContent ==
  ASSUME NEW r, r.op \in {"register", "heartbeat"}, NEW cache, r.have = DOMAIN cache,
         r.op = "register" => DOMAIN cache = {},
         \A p \in DOMAIN cache \cap DOMAIN BuildPeers(r.client) :
           cache[p] = BuildPeers(r.client)[p] \/ Changed(p, r.client)
  PROVE  ApplyDelta(cache, Answer(r)) = BuildPeers(r.client)
<1> DEFINE c == r.client
           next == ApplyDelta(cache, Answer(r))
<1>1. DOMAIN next = DOMAIN BuildPeers(c)
  BY DeltaFixesIds
<1>2. /\ next = [p \in DOMAIN next |-> next[p]]
      /\ BuildPeers(c) = [p \in DOMAIN BuildPeers(c) |-> BuildPeers(c)[p]]
  BY DEF ApplyDelta, BuildPeers
<1>3. ASSUME NEW p \in DOMAIN next PROVE next[p] = BuildPeers(c)[p]
  <2>1. next[p] = IF p \in DOMAIN Answer(r).add THEN Answer(r).add[p] ELSE cache[p]
    BY <1>3 DEF ApplyDelta
  <2>2. CASE p \in DOMAIN Answer(r).add
    BY <2>1, <2>2 DEF Answer
  <2>3. CASE p \notin DOMAIN Answer(r).add
    <3>1. r.op = "heartbeat"
      BY <1>1, <2>3 DEF Answer
    <3>2. p \in r.have /\ ~Changed(p, c)
      BY <1>1, <2>3, <3>1 DEF Answer, AddIDs
    <3> QED BY <1>1, <2>1, <2>3, <3>2
  <2> QED BY <2>2, <2>3
<1> HIDE DEF next, c
<1>4. next = BuildPeers(c)
  BY <1>1, <1>2, <1>3
<1> QED BY <1>4 DEF next, c

(***************************************************************************)
(* The invariants, step by step.                                           *)
(***************************************************************************)

\* Without loss no request is left behind, and every write is an answer.
LEMMA KindsOfStep ==
  ASSUME stray = {}, [MeshNext]_meshVars
  PROVE  Operators \/ (\E c \in ID : Local(c)) \/ (\E c \in ID : Commit(c)) \/ UNCHANGED meshVars
BY DEF MeshNext, Operators, Local, Handle

\* The machines of clients just added hold nothing yet, and wait for nothing.
LEMMA NewClientsAreBlank ==
  ASSUME MeshInv, StampingStep, NEW c \in DOMAIN clients', c \in DOMAIN node \cup DOMAIN call
  PROVE  c \in DOMAIN clients
<1>1. c \in ID /\ c \in issued
  BY DEF MeshInv, MachineOK
<1> QED BY <1>1 DEF StampingStep

LEMMA IdentityInitially == MeshInit => IdentityInv
BY DEF MeshInit, Init, IdentityInv, IdentityAgrees, AnswersAgree

LEMMA IdentityStep ==
  ASSUME ~Lossy, MeshInv, IdentityInv, [MeshNext]_meshVars PROVE IdentityInv'
<1>1. CASE Operators
  <2>1. StampingStep /\ UNCHANGED <<node, call, stray>>
    BY <1>1, OperatorsStamp DEF MeshInv
  <2>2. ASSUME NEW c \in DOMAIN clients', c \in DOMAIN node \cup DOMAIN call
        PROVE  /\ c \in DOMAIN clients
               /\ clients'[c].key = clients[c].key /\ clients'[c].addr = clients[c].addr
    <3>1. c \in DOMAIN clients
      BY <2>1, <2>2, NewClientsAreBlank
    <3> QED BY <2>1, <3>1 DEF StampingStep, Stamped
  <2>3. IdentityAgrees'
    BY <2>1, <2>2 DEF IdentityInv, IdentityAgrees
  <2>4. AnswersAgree'
    BY <2>1, <2>2 DEF IdentityInv, AnswersAgree, Answered
  <2> QED BY <2>1, <2>3, <2>4 DEF IdentityInv
<1>2. ASSUME NEW c \in ID, Local(c) PROVE IdentityInv'
  <2>1. UNCHANGED <<clients, stray>> /\ \A d \in ID : MachineKeeps(d)
    BY <1>2, LocalStep
  <2>2. DOMAIN clients \subseteq ID
    BY DEF MeshInv, TypeOK
  <2>3. IdentityAgrees'
    BY <2>1, <2>2 DEF IdentityInv, IdentityAgrees, AnswersAgree, MachineKeeps, SameCache, TakesAnswer
  <2>4. AnswersAgree'
    BY <2>1, <2>2 DEF IdentityInv, AnswersAgree, MachineKeeps
  <2> QED BY <2>1, <2>3, <2>4 DEF IdentityInv
<1>3. ASSUME NEW c \in ID, Commit(c) PROVE IdentityInv'
  <2>1. Answers(c)
    BY <1>3, CommitStep DEF IdentityInv
  <2>2. DOMAIN clients \subseteq ID
    BY DEF MeshInv, TypeOK
  <2>3. IdentityAgrees'
    BY <2>1 DEF Answers, IdentityInv, IdentityAgrees
  <2>4. ASSUME NEW d \in DOMAIN clients', Answered(d)'
        PROVE  clients'[d].key = call'[d].req.who.key /\ clients'[d].addr = call'[d].answer.addr
    <3>1. CASE d = c
      BY <2>1, <3>1 DEF Answers
    <3>2. CASE d # c
      <4>1. clients'[d] = clients[d] /\ Answered(d) /\ call'[d] = call[d] /\ d \in DOMAIN clients
        BY <2>1, <2>2, <2>4, <3>2 DEF Answers, MachineKeeps
      <4> QED BY <4>1 DEF IdentityInv, AnswersAgree
    <3> QED BY <3>1, <3>2
  <2>5. AnswersAgree'
    BY <2>4 DEF AnswersAgree
  <2> QED BY <2>1, <2>3, <2>5 DEF Answers, IdentityInv
<1>4. CASE UNCHANGED meshVars
  BY <1>4 DEF meshVars, IdentityInv, IdentityAgrees, AnswersAgree, Answered
<1> QED BY <1>1, <1>2, <1>3, <1>4, KindsOfStep DEF IdentityInv

\* Hub and machine agree on a key and an address, if nothing is lost.
LEMMA IdentityInvariant == ASSUME ~Lossy PROVE MeshSpec => []IdentityInv
<1>1. MeshInv /\ IdentityInv /\ [MeshNext]_meshVars => IdentityInv'
  BY IdentityStep
<1> QED BY <1>1, IdentityInitially, MeshInvariant, PTL DEF MeshSpec

\* The coordinator advertises the key and the address its clients really use, as
\* long as no request and no answer is lost: a register is applied once, and the
\* machine that sent it then writes what was applied.
THEOREM HubKnowsItsClients == ASSUME ~Lossy PROVE MeshSpec => []IdentityAgrees
<1>1. IdentityInv => IdentityAgrees
  BY DEF IdentityInv
<1> QED BY <1>1, IdentityInvariant, PTL

(***************************************************************************)
(* Freshness, given that advertised changes are stamped past every sync.   *)
(***************************************************************************)
LEMMA FreshInitially == MeshInit => FreshInv
BY DEF MeshInit, Init, FreshInv, Fresh

\* A cache names ids that were issued, and only a machine that holds peers has one.
LEMMA ViewIsHeld ==
  ASSUME MeshInv, NEW c \in ID, NEW p \in DOMAIN View(c)
  PROVE  Holds(c) /\ p # c /\ (p \in issued \/ p = HubID)
<1>1. p \in OthersOf(c)
  BY ViewType
<1>2. Holds(c)
  BY DEF View, CachedBefore, NoPeers, Holds
<1> QED BY <1>1, <1>2 DEF OthersOf

\* A record stamped later than c's last sync is one that c's next beat is sent.
LEMMA StampedIsChanged ==
  ASSUME TypeOK', NEW c \in DOMAIN clients', NEW p,
         UpdatedAt(p)' \in Nat, UpdatedAt(p)' > 0, clients'[c].seen # 0, clients'[c].seen < UpdatedAt(p)'
  PROVE  Changed(p, c)'
<1>1. clients'[c].seen \in Nat
  BY DEF TypeOK, Client, Time
<1> QED BY <1>1 DEF Changed

\* Peer p, held by a machine whose client only others have changed, stays fresh.
LEMMA FreshStays ==
  ASSUME FreshStamps, MeshInv, TypeOK', FreshInv, HubID \notin DOMAIN clients',
         NEW c \in DOMAIN clients \cap DOMAIN clients', Holds(c),
         clients'[c].seen = clients[c].seen,
         NEW p \in DOMAIN View(c), View(c)' = View(c), p \in DOMAIN clients' \cup {HubID},
         \/ p = HubID /\ (hub' = hub \/ (hub'.updated = now /\ Unshared(HubID)))
         \/ /\ p \in DOMAIN clients
            /\ \/ clients'[p].updated = clients[p].updated /\ Advert(p)' = Advert(p)
               \/ clients'[p].updated = now /\ Unshared(p)
  PROVE  View(c)'[p] = AdvertOf(p)' \/ Changed(p, c)'
<1>1. /\ c \in ID /\ p # c /\ HubID \notin DOMAIN clients
      /\ clients[c].seen # 0 /\ (View(c)[p] = AdvertOf(p) \/ Changed(p, c))
  <2>1. c \in ID /\ HubID \notin DOMAIN clients
    BY HubIsNoClient DEF MeshInv, TypeOK
  <2>2. p # c
    BY <2>1, ViewIsHeld
  <2>3. p \in DOMAIN clients \cup {HubID}
    OBVIOUS
  <2> QED BY <2>1, <2>2, <2>3 DEF FreshInv, Fresh
<1>2. CASE AdvertOf(p)' = AdvertOf(p) /\ UpdatedAt(p)' = UpdatedAt(p)
  BY <1>1, <1>2 DEF Changed
<1>3. CASE UpdatedAt(p)' = now /\ Unshared(p)
  <2>1. clients[c].seen < now
    BY <1>1, <1>3 DEF Unshared
  <2>2. now \in Nat /\ now > 0
    BY DEF MeshInv, TypeOK
  <2> QED BY <1>1, <1>3, <2>1, <2>2, StampedIsChanged
<1>4. CASE p = HubID
  BY <1>2, <1>3, <1>4, <1>1 DEF AdvertOf, HubAdvert, UpdatedAt
<1>5. CASE p # HubID
  BY <1>2, <1>3, <1>5, <1>1 DEF AdvertOf, UpdatedAt
<1> QED BY <1>4, <1>5

LEMMA OperatorsKeepFresh ==
  ASSUME FreshStamps, MeshInv, TypeOK', FreshInv, Operators, NEW c \in DOMAIN clients' PROVE Fresh(c)'
<1>1. /\ StampingStep /\ UNCHANGED <<node, call>>
      /\ \A d \in DOMAIN clients \cap DOMAIN clients' : clients'[d] # clients[d] => Unshared(d)
      /\ DOMAIN clients' = {} \/ hub' = hub \/ (hub'.updated = now /\ Unshared(HubID))
  BY OperatorsStamp DEF MeshInv
<1>2. Holds(c)' = Holds(c) /\ View(c)' = View(c)
  BY <1>1 DEF Holds, View, Answered, CachedBefore
<1>3. c \in ID /\ HubID \notin DOMAIN clients' /\ HubID \notin ID
  BY ConstantsAssumption DEF ConstantsAssumption, TypeOK
<1>4. CASE Holds(c)
  <2>1. c \in DOMAIN clients
    BY <1>1, <1>4, NewClientsAreBlank DEF Holds, Answered
  <2>2. clients'[c].seen = clients[c].seen /\ clients[c].seen # 0
    BY <1>1, <1>4, <2>1 DEF StampingStep, Stamped, FreshInv, Fresh
  <2>3. ASSUME NEW p \in DOMAIN View(c), p \in DOMAIN clients' \cup {HubID}
        PROVE  View(c)'[p] = AdvertOf(p)' \/ Changed(p, c)'
    <3>1. CASE p = HubID
      BY <1>1, <1>2, <1>3, <1>4, <2>1, <2>2, <2>3, <3>1, FreshStays
    <3>2. CASE p # HubID
      <4>1. p \in DOMAIN clients
        <5>1. p \in issued
          BY <1>3, <2>3, <3>2, ViewIsHeld
        <5> QED BY <1>1, <2>3, <3>2, <5>1 DEF StampingStep
      <4>2. \/ clients'[p].updated = clients[p].updated /\ Advert(p)' = Advert(p)
            \/ clients'[p].updated = now /\ Unshared(p)
        BY <1>1, <2>3, <3>2, <4>1 DEF StampingStep, Stamped, Advert
      <4> QED BY <1>2, <1>3, <1>4, <2>1, <2>2, <2>3, <4>1, <4>2, FreshStays
    <3> QED BY <3>1, <3>2
  <2> QED BY <1>2, <2>2, <2>3 DEF Fresh
<1>5. CASE ~Holds(c)
  <2>1. DOMAIN View(c) = {}
    BY <1>3, <1>5, ViewIsHeld
  <2> QED BY <1>2, <1>5, <2>1 DEF Fresh
<1> QED BY <1>4, <1>5

LEMMA LocalKeepsFresh ==
  ASSUME ~Lossy, MeshInv, FreshInv, NEW d \in ID, Local(d), NEW c \in DOMAIN clients' PROVE Fresh(c)'
<1>1. UNCHANGED <<clients, hub, issued, now>> /\ c \in ID /\ MachineKeeps(c)
  BY LocalStep DEF MeshInv, TypeOK
<1>2. CASE Holds(c)'
  <2>1. View(c)' = View(c) /\ Holds(c)
    BY <1>1, <1>2 DEF MachineKeeps
  <2> QED BY <1>1, <2>1 DEF Fresh, FreshInv, AdvertOf, HubAdvert, Advert, Changed, UpdatedAt
<1>3. CASE ~Holds(c)'
  <2>1. DOMAIN View(c)' = {}
    BY <1>3 DEF View, CachedBefore, NoPeers, Holds
  <2> QED BY <1>3, <2>1 DEF Fresh
<1> QED BY <1>2, <1>3

\* An answer leaves its client with what is advertised to it, content included.
LEMMA AnswerIsCurrent ==
  ASSUME MeshInv, FreshInv, NEW c \in ID, Commit(c)
  PROVE  View(c)' = BuildPeers(c)'
<1>1. PICK r \in Request :
        /\ r.client = c /\ Write(r) /\ r.have = DOMAIN CachedBefore(c)
        /\ r.op = "register" => DOMAIN CachedBefore(c) = {}
        /\ View(c)' = ApplyDelta(CachedBefore(c), Answer(r))
        /\ BuildPeers(c)' = BuildPeers(c)
  BY CommitAnswers
<1>2. c \in DOMAIN clients /\ r.op \in {"register", "heartbeat"}
  BY <1>1, WriteChangesOne DEF MeshInv, Request
<1>3. View(c) = CachedBefore(c)
  BY DEF Commit, View, Answered
<1>4. ASSUME NEW p \in DOMAIN CachedBefore(c) \cap DOMAIN BuildPeers(c)
      PROVE  CachedBefore(c)[p] = BuildPeers(c)[p] \/ Changed(p, c)
  <2>1. p \in DOMAIN clients \cup {HubID} /\ BuildPeers(c)[p] = AdvertOf(p)
    BY <1>4 DEF BuildPeers, Advertised, AdvertOf
  <2> QED BY <1>2, <1>3, <1>4, <2>1 DEF FreshInv, Fresh
<1> QED BY <1>1, <1>2, <1>4, DeltaFixesContent

LEMMA CommitKeepsFresh ==
  ASSUME FreshStamps, MeshInv, TypeOK', IdentityInv, FreshInv, NEW d \in ID, Commit(d),
         NEW c \in DOMAIN clients'
  PROVE  Fresh(c)'
<1>1. Answers(d)
  BY CommitStep DEF IdentityInv
<1>2. c \in ID /\ c \in DOMAIN clients /\ HubID \notin DOMAIN clients' /\ HubID \notin ID
  BY <1>1, ConstantsAssumption DEF ConstantsAssumption, TypeOK, Answers
<1>3. CASE c = d
  <2>1. View(c)' = BuildPeers(c)'
    BY <1>3, AnswerIsCurrent
  <2>2. clients'[c].seen # 0
    BY <1>1, <1>3 DEF Answers, MeshInv, TypeOK
  <2>3. ASSUME NEW p \in DOMAIN BuildPeers(c)' PROVE BuildPeers(c)'[p] = AdvertOf(p)'
    BY <2>3 DEF BuildPeers, AdvertOf
  <2> QED BY <2>1, <2>2, <2>3 DEF Fresh
<1>4. CASE c # d
  <2>1. MachineKeeps(c) /\ (Holds(c)' <=> Holds(c)) /\ clients'[c] = clients[c]
    BY <1>1, <1>2, <1>4 DEF Answers
  <2>2. CASE Holds(c)
    <3>1. View(c)' = View(c) /\ clients'[c].seen # 0
      BY <1>2, <2>1, <2>2 DEF MachineKeeps, FreshInv, Fresh
    <3>2. ASSUME NEW p \in DOMAIN View(c), p \in DOMAIN clients' \cup {HubID}
          PROVE  View(c)'[p] = AdvertOf(p)' \/ Changed(p, c)'
      <4>1. CASE p = HubID
        BY <1>1, <1>2, <2>1, <2>2, <3>1, <3>2, <4>1, FreshStays DEF Answers
      <4>2. CASE p # HubID
        <5>1. p \in DOMAIN clients
          BY <1>1, <3>2, <4>2 DEF Answers
        <5>2. \/ clients'[p].updated = clients[p].updated /\ Advert(p)' = Advert(p)
              \/ clients'[p].updated = now /\ Unshared(p)
          BY <1>1, <5>1 DEF Answers, Advert
        <5> QED BY <1>2, <2>1, <2>2, <3>1, <3>2, <5>1, <5>2, FreshStays
      <4> QED BY <4>1, <4>2
    <3> QED BY <3>1, <3>2 DEF Fresh
  <2>3. CASE ~Holds(c)
    <3>1. DOMAIN View(c)' = {}
      BY <2>1, <2>3 DEF View, CachedBefore, NoPeers, Holds
    <3> QED BY <2>1, <2>3, <3>1 DEF Fresh
  <2> QED BY <2>2, <2>3
<1> QED BY <1>3, <1>4

LEMMA FreshStep ==
  ASSUME ~Lossy, FreshStamps, MeshInv, IdentityInv, FreshInv, [MeshNext]_meshVars PROVE FreshInv'
<1>1. TypeOK'
  BY MeshStep DEF MeshInv
<1>2. CASE Operators
  BY <1>1, <1>2, OperatorsKeepFresh DEF FreshInv
<1>3. ASSUME NEW c \in ID, Local(c) PROVE FreshInv'
  BY <1>3, LocalKeepsFresh DEF FreshInv
<1>4. ASSUME NEW c \in ID, Commit(c) PROVE FreshInv'
  BY <1>1, <1>4, CommitKeepsFresh DEF FreshInv
<1>5. CASE UNCHANGED meshVars
  BY <1>5 DEF meshVars, FreshInv, Fresh, Holds, View, Answered, CachedBefore, AdvertOf, HubAdvert,
     Advert, Changed, UpdatedAt
<1> QED BY <1>2, <1>3, <1>4, <1>5, KindsOfStep DEF IdentityInv

LEMMA FreshInvariant == ASSUME ~Lossy, FreshStamps PROVE MeshSpec => []FreshInv
<1>1. MeshInv /\ IdentityInv /\ FreshInv /\ [MeshNext]_meshVars => FreshInv'
  BY FreshStep
<1> QED BY <1>1, FreshInitially, MeshInvariant, IdentityInvariant, PTL DEF MeshSpec

\* A cached record that differs from the one advertised is one the client's next
\* heartbeat is sent again, when nothing is lost and no change is stamped within
\* the second of a sync: the comparison of timestamps misses nothing.
THEOREM StaleRecordsAreResent == ASSUME ~Lossy, FreshStamps PROVE MeshSpec => []NextBeatRefreshes
<1>1. ASSUME FreshInv PROVE NextBeatRefreshes
  <2>1. ASSUME NEW c \in DOMAIN node \cap DOMAIN clients,
               NEW p \in DOMAIN View(c) \cap DOMAIN BuildPeers(c),
               View(c)[p] # BuildPeers(c)[p]
        PROVE  Changed(p, c)
    <3>1. p \in DOMAIN clients \cup {HubID} /\ BuildPeers(c)[p] = AdvertOf(p)
      BY DEF BuildPeers, Advertised, AdvertOf
    <3> QED BY <1>1, <2>1, <3>1 DEF FreshInv, Fresh
  <2> QED BY <2>1 DEF NextBeatRefreshes
<1> QED BY <1>1, FreshInvariant, PTL

(***************************************************************************)
(* Addresses in caches.                                                    *)
(***************************************************************************)
LEMMA ApartInitially == MeshInit => ApartInv
BY DEF MeshInit, ApartInv

\* The peers advertised at one instant have addresses of their own.
LEMMA AdvertisedApart ==
  ASSUME AddressesUnique', NEW c \in DOMAIN clients', HubID \notin DOMAIN clients'
  PROVE  Apart(clients'[c].addr, BuildPeers(c)')
<1>1. \A p \in Advertised(c)' : p # HubID /\ p # c /\ p \in DOMAIN clients'
  BY DEF Advertised
<1>2. ASSUME NEW p \in DOMAIN BuildPeers(c)'
      PROVE  /\ p \in Advertised(c)' \cup {HubID}
             /\ BuildPeers(c)'[p].addr = IF p = HubID THEN hub'.addr ELSE clients'[p].addr
  BY DEF BuildPeers, HubAdvert, Advert
<1> QED BY <1>1, <1>2 DEF Apart, AddressesUnique

LEMMA ApartStep ==
  ASSUME ~Lossy, MeshInv, MeshInv', AddressesUnique', IdentityInv, FreshInv, ApartInv, [MeshNext]_meshVars
  PROVE  ApartInv'
<1>1. CASE Operators
  BY <1>1, OperatorsStamp DEF MeshInv, ApartInv, Answered, View, CachedBefore
<1>2. ASSUME NEW c \in ID, Local(c) PROVE ApartInv'
  <2>1. \A d \in ID : MachineKeeps(d)
    BY <1>2, LocalStep
  <2>2. DOMAIN node' \subseteq ID /\ DOMAIN call' \subseteq ID
    BY DEF MeshInv
  <2>3. ASSUME NEW d \in DOMAIN node' PROVE Apart(node'[d].addr, node'[d].peers)
    <3>1. TakesAnswer(d) \/ (d \in DOMAIN node /\ SameCache(d))
      BY <2>1, <2>2 DEF MachineKeeps
    <3> QED BY <3>1 DEF TakesAnswer, SameCache, ApartInv, Answered
  <2>4. ASSUME NEW d \in DOMAIN call', Answered(d)' PROVE Apart(call'[d].answer.addr, View(d)')
    <3>1. Answered(d) /\ call'[d] = call[d] /\ View(d)' = View(d)
      BY <2>1, <2>2, <2>4 DEF MachineKeeps, Holds
    <3> QED BY <3>1 DEF ApartInv, Answered
  <2> QED BY <2>3, <2>4 DEF ApartInv, Apart
<1>3. ASSUME NEW c \in ID, Commit(c) PROVE ApartInv'
  <2>1. Answers(c)
    BY <1>3, CommitStep DEF IdentityInv
  <2>2. \A d \in DOMAIN node' : Apart(node'[d].addr, node'[d].peers)
    BY <2>1 DEF Answers, ApartInv
  <2>3. Apart(call'[c].answer.addr, View(c)')
    <3>1. c \in DOMAIN clients' /\ HubID \notin DOMAIN clients'
      BY <2>1, HubIsNoClient DEF Answers, MeshInv, TypeOK
    <3>2. Apart(clients'[c].addr, BuildPeers(c)')
      BY <3>1, AdvertisedApart
    <3> QED BY <1>3, <2>1, <3>2, AnswerIsCurrent DEF Answers
  <2>4. ASSUME NEW d \in DOMAIN call', d # c, Answered(d)' PROVE Apart(call'[d].answer.addr, View(d)')
    <3>1. d \in ID
      BY DEF MeshInv
    <3>2. Answered(d) /\ call'[d] = call[d] /\ View(d)' = View(d)
      BY <2>1, <2>4, <3>1 DEF Answers, MachineKeeps, Holds
    <3> QED BY <3>2 DEF ApartInv, Answered
  <2> QED BY <2>2, <2>3, <2>4 DEF ApartInv, Apart
<1>4. CASE UNCHANGED meshVars
  BY <1>4 DEF meshVars, ApartInv, Apart, Answered, View, CachedBefore
<1> QED BY <1>1, <1>2, <1>3, <1>4, KindsOfStep DEF IdentityInv

\* No machine caches two peers under one address, or a peer under its own: it
\* caches what was advertised at one instant, never the records of two.
THEOREM CachesKeepAddressesApart == ASSUME ~Lossy, FreshStamps PROVE MeshSpec => []CachedAddressesUnique
<1>1. MeshInv /\ MeshInv' /\ AddressesUnique' /\ IdentityInv /\ FreshInv /\ ApartInv
        /\ [MeshNext]_meshVars => ApartInv'
  BY ApartStep
<1>2. ApartInv => CachedAddressesUnique
  BY DEF ApartInv, Apart, CachedAddressesUnique
<1> QED BY <1>1, <1>2, ApartInitially, MeshInvariant, MeshAddressesUnique, IdentityInvariant,
           FreshInvariant, PTL DEF MeshSpec

(***************************************************************************)
(* MeshSync implements PeerExchange: the write of an answer is a Sync, a   *)
(* machine that leaves a Forget, and all else leaves what machines hold.   *)
(***************************************************************************)
AdvertisedTo == [c \in DOMAIN clients |-> BuildPeers(c)]

HeldBy == [c \in DOMAIN node \cup {d \in DOMAIN call : Answered(d)} |-> View(c)]

exchanged == <<AdvertisedTo, HeldBy>>

LEMMA HeldByThose ==
  /\ \A c : c \in DOMAIN HeldBy <=> Holds(c)
  /\ \A c \in DOMAIN HeldBy : HeldBy[c] = View(c)
BY DEF HeldBy, Holds, Answered

LEMMA ExchangeInitially == MeshInit => Exchange!Init
<1> SUFFICES ASSUME MeshInit PROVE HeldBy = [c \in {} |-> {}]
  BY DEF Exchange!Init, HeldBy
<1> QED BY DEF MeshInit, HeldBy

\* Machines that go on holding what they held leave the exchange alone.
LEMMA HeldStays ==
  ASSUME MeshInv, MeshInv', \A d \in ID : MachineKeeps(d) /\ (Holds(d)' <=> Holds(d))
  PROVE  Exchange!Next
<1>1. \A d : Holds(d) \/ Holds(d)' => d \in ID
  BY DEF MeshInv, Holds, Answered
<1>2. \A d : Holds(d)' <=> Holds(d)
  BY <1>1
<1>3. \A d : Holds(d) => View(d)' = View(d)
  BY <1>1, <1>2 DEF MachineKeeps
<1>4. HeldBy' = HeldBy
  BY <1>2, <1>3 DEF HeldBy, Holds, Answered
<1> QED BY <1>4 DEF Exchange!Next, Exchange!Change, HeldBy

LEMMA LeaveForgets ==
  ASSUME MeshInv, MeshInv', NEW c \in ID, Leave(c) PROVE Exchange!Next
<1>1. /\ \A d \in ID : MachineKeeps(d)
      /\ \A d \in ID \ {c} : Holds(d)' <=> Holds(d)
      /\ Holds(c) /\ ~Holds(c)'
  BY LeaveStep
<1>2. \A d : Holds(d) \/ Holds(d)' => d \in ID
  BY DEF MeshInv, Holds, Answered
<1>3. \A d : Holds(d)' <=> Holds(d) /\ d # c
  BY <1>1, <1>2
<1>4. \A d : Holds(d)' => View(d)' = View(d)
  BY <1>1, <1>2 DEF MachineKeeps
<1>5. DOMAIN HeldBy = {d \in ID : Holds(d)} /\ DOMAIN HeldBy' = DOMAIN HeldBy \ {c}
  BY <1>2, <1>3 DEF HeldBy, Holds, Answered
<1>6. HeldBy' = [d \in DOMAIN HeldBy \ {c} |-> HeldBy[d]]
  BY <1>3, <1>4, <1>5 DEF HeldBy, Holds, Answered
<1>7. Exchange!Forget(c)
  BY <1>1, <1>5, <1>6 DEF Exchange!Forget, HeldBy
<1> QED BY <1>7 DEF Exchange!Next

LEMMA CommitSyncs ==
  ASSUME MeshInv, MeshInv', IdentityInv, FreshInv, NEW c \in ID, Commit(c) PROVE Exchange!Next
<1>1. Answers(c) /\ View(c)' = BuildPeers(c)'
  BY CommitStep, AnswerIsCurrent DEF IdentityInv
<1>2. \A d : Holds(d) \/ Holds(d)' => d \in ID
  BY DEF MeshInv, Holds, Answered
<1>3. Holds(c)' /\ \A d : d # c => (Holds(d)' <=> Holds(d))
  BY <1>1, <1>2 DEF Answers, Holds
<1>4. \A d : Holds(d) /\ d # c => View(d)' = View(d)
  BY <1>1, <1>2 DEF Answers, MachineKeeps
<1>5. DOMAIN HeldBy' = DOMAIN HeldBy \cup {c}
  BY <1>2, <1>3 DEF HeldBy, Holds, Answered
<1>6. c \in DOMAIN AdvertisedTo' /\ AdvertisedTo'[c] = BuildPeers(c)'
  BY <1>1 DEF Answers, AdvertisedTo
<1>7. HeldBy' = [d \in DOMAIN HeldBy \cup {c} |-> IF d = c THEN AdvertisedTo'[c] ELSE HeldBy[d]]
  <2>1. ASSUME NEW d \in DOMAIN HeldBy'
        PROVE  HeldBy'[d] = IF d = c THEN AdvertisedTo'[c] ELSE HeldBy[d]
    <3>1. HeldBy'[d] = View(d)'
      BY DEF HeldBy
    <3>2. d # c => d \in DOMAIN HeldBy /\ HeldBy[d] = View(d)
      BY <1>5, HeldByThose
    <3> QED BY <1>1, <1>3, <1>4, <1>6, <3>1, <3>2, HeldByThose
  <2>2. HeldBy' = [d \in DOMAIN HeldBy' |-> HeldBy'[d]]
    BY DEF HeldBy
  <2> HIDE DEF HeldBy, AdvertisedTo
  <2> QED BY <1>5, <2>1, <2>2
<1>8. Exchange!Sync(c)
  BY <1>6, <1>7 DEF Exchange!Sync, HeldBy, AdvertisedTo
<1> QED BY <1>8 DEF Exchange!Next

LEMMA ExchangeStep ==
  ASSUME ~Lossy, MeshInv, MeshInv', IdentityInv, FreshInv, [MeshNext]_meshVars
  PROVE  [Exchange!Next]_exchanged
<1>1. CASE Operators
  <2>1. UNCHANGED <<node, call>>
    BY <1>1, OperatorsStamp DEF MeshInv
  <2> QED BY <2>1 DEF Exchange!Next, Exchange!Change, HeldBy, Answered, View, CachedBefore
<1>2. ASSUME NEW c \in ID, Local(c) PROVE Exchange!Next
  BY <1>2, LocalStep, LeaveForgets, HeldStays
<1>3. ASSUME NEW c \in ID, Commit(c) PROVE Exchange!Next
  BY <1>3, CommitSyncs
<1>4. CASE UNCHANGED meshVars
  <2>1. UNCHANGED <<clients, hub, node, call>>
    BY <1>4 DEF meshVars
  <2> QED BY <2>1 DEF Exchange!Next, Exchange!Change, HeldBy, Answered, View, CachedBefore
<1> QED BY <1>1, <1>2, <1>3, <1>4, KindsOfStep DEF IdentityInv

\* Snapshots, requests, timestamps and deltas implement an exchange of whole peer
\* sets at an instant: an answer leaves its client with exactly the peers then
\* advertised to it, and nothing but its own answers changes what it holds.
THEOREM MeshImplementsExchange == ASSUME ~Lossy, FreshStamps PROVE MeshSpec => ExchangeIsAtomic
<1>1. MeshInv /\ MeshInv' /\ IdentityInv /\ FreshInv /\ [MeshNext]_meshVars => [Exchange!Next]_exchanged
  BY ExchangeStep
<1> QED BY <1>1, ExchangeInitially, MeshInvariant, IdentityInvariant, FreshInvariant, PTL
        DEF MeshSpec, ExchangeIsAtomic, Exchange!Spec, Exchange!exchangeVars, exchanged,
            AdvertisedTo, HeldBy

===============================================================================
