---------------------------- MODULE MeshSyncProofs ----------------------------
(***************************************************************************)
(* Proofs about the exchange of peers, for every number of machines, peers *)
(* and requests under way, on a network that loses and delays what it      *)
(* likes: the types, what the registry keeps promising under a clock that  *)
(* is set back, and that each answer fixes the membership of a cache.      *)
(***************************************************************************)
EXTENDS MeshSync, CoordinatorProofs

(***************************************************************************)
(* What the invariant says of one machine and of the request it waits on.  *)
(* A cache holds ids that were issued, never the machine's own, and a      *)
(* request still says what the config says.                                *)
(***************************************************************************)
OthersOf(c) == (issued \cup {HubID}) \ {c}

NodeOK(c) ==
  /\ DOMAIN node[c] = {"token", "who", "addr", "peers"}
  /\ node[c].token \in Token /\ node[c].who \in Identity /\ node[c].addr \in Pool
  /\ IsPeers(node[c].peers)
  /\ DOMAIN node[c].peers \subseteq OthersOf(c)

CallOK(c) ==
  /\ call[c].req \in Request /\ call[c].req.client = c
  /\ call[c].req.op = "heartbeat" <=> c \in DOMAIN node
  /\ call[c].req.have = DOMAIN CachedBefore(c)
  /\ c \in DOMAIN node => call[c].req.who = node[c].who
  /\ IF call[c].stage = "answered"
       THEN /\ DOMAIN call[c] = {"stage", "req", "answer"}
            /\ IsAnswer(call[c].answer)
            /\ DOMAIN call[c].answer.add \subseteq OthersOf(c)
       ELSE call[c] \in Stray

MachineOK(c) ==
  /\ c \in DOMAIN node => c \in issued /\ NodeOK(c)
  /\ c \in DOMAIN call => c \in issued /\ CallOK(c)

MeshInv ==
  /\ TypeOK
  /\ DOMAIN node \subseteq ID /\ DOMAIN call \subseteq ID
  /\ \A c \in ID : MachineOK(c)
  /\ keys \in [ID -> 0 .. MaxKey]
  /\ stray \subseteq Stray
  /\ ops \in 0 .. MaxOps

LEMMA MeshInvTypes == MeshInv => MeshTypeOK
<1> SUFFICES ASSUME MeshInv PROVE MeshTypeOK
  OBVIOUS
<1>1. \A c \in DOMAIN node : c \in issued /\ NodeOK(c)
  BY DEF MeshInv, MachineOK
<1>2. \A c \in DOMAIN call : c \in issued /\ CallOK(c)
  BY DEF MeshInv, MachineOK
<1>3. \A c \in DOMAIN node :
       /\ DOMAIN node[c] = {"token", "who", "addr", "peers"}
       /\ node[c].token \in Token /\ node[c].who \in Identity /\ node[c].addr \in Pool
       /\ IsPeers(node[c].peers) /\ c \notin DOMAIN node[c].peers
  BY <1>1 DEF NodeOK, OthersOf
<1>4. \A c \in DOMAIN call :
       /\ call[c].req \in Request /\ call[c].req.client = c
       /\ call[c].req.op = "heartbeat" <=> c \in DOMAIN node
       /\ IF call[c].stage = "answered"
            THEN DOMAIN call[c] = {"stage", "req", "answer"} /\ IsAnswer(call[c].answer)
            ELSE call[c] \in Stray
  BY <1>2 DEF CallOK
<1> QED BY <1>1, <1>2, <1>3, <1>4 DEF MeshInv, MeshTypeOK

LEMMA MeshInitially == MeshInit => MeshInv
<1> SUFFICES ASSUME MeshInit PROVE MeshInv
  OBVIOUS
<1>1. TypeOK
  BY InitType DEF MeshInit
<1>2. 0 \in 0 .. MaxKey /\ 0 \in 0 .. MaxOps
  BY ConstantsAssumption, MeshAssumption DEF ConstantsAssumption, MeshAssumption
<1>3. DOMAIN node = {} /\ DOMAIN call = {} /\ stray = {} /\ ops = 0 /\ keys = [c \in ID |-> 0]
  BY DEF MeshInit
<1> QED BY <1>1, <1>2, <1>3 DEF MeshInv, MachineOK

(***************************************************************************)
(* Steps of the registry.                                                  *)
(***************************************************************************)
ClockSetBack == now' \in 1 .. now - 1 /\ UNCHANGED <<clients, hub, issued>>

\* A request accepted by a handler is one the registry knows.
LEMMA WriteServes ==
  ASSUME NEW r \in Request, Write(r) PROVE Serve
<1>1. r.client \in ID /\ r.who \in Identity /\ r.want \in AddrRequest
  <2>1. r.want \in Wanted \cup {NoAddr} /\ r.client \in ID /\ r.who \in Identity
    BY DEF Request
  <2>2. NoAddr \in AddrRequest
    BY ConstantsAssumption DEF ConstantsAssumption, NoAddr, AddrRequest
  <2> QED BY <2>1, <2>2, MeshAssumption DEF MeshAssumption
<1> QED BY <1>1 DEF Write, Serve

LEMMA AdmitManages == Admit => Manage
<1>1. Wanted \cup {NoAddr} \subseteq AddrRequest
  BY ConstantsAssumption, MeshAssumption DEF ConstantsAssumption, MeshAssumption, NoAddr, AddrRequest
<1>2. {} \in SUBSET Route
  OBVIOUS
<1> QED BY <1>1, <1>2 DEF Admit, Manage

LEMMA EditManages == Edit => Manage
BY DEF Edit, Manage

\* Only a clock set back is a step that the registry alone does not take.
LEMMA MeshRunsRegistry ==
  ASSUME MeshInv, [MeshNext]_meshVars PROVE [Next]_coordVars \/ ClockSetBack
<1>1. CASE Admit \/ Edit \/ Pass
  BY <1>1, AdmitManages, EditManages DEF Pass, Next
<1>2. CASE StepBack
  BY <1>2 DEF StepBack, ClockSetBack
<1>3. ASSUME NEW c \in ID, Machine(c) \/ Authenticate(c) \/ Refuse(c) PROVE UNCHANGED coordVars
  BY <1>3 DEF Machine, StartJoin, StartBeat, Deliver, Abandon, Roam, EnterToken, Leave,
     Authenticate, Refuse
<1>4. ASSUME NEW c \in ID, Commit(c) PROVE Next
  <2>1. call[c].req \in Request
    BY <1>4 DEF Commit, MeshInv, MachineOK, CallOK
  <2> QED BY <1>4, <2>1, WriteServes DEF Commit, Next
<1>5. ASSUME NEW s \in stray, HandleStray(s) PROVE [Next]_coordVars
  <2>1. s.req \in Request
    BY DEF MeshInv, Stray
  <2>2. CASE CommitStray(s)
    BY <2>1, <2>2, WriteServes DEF CommitStray, Next
  <2>3. CASE AuthenticateStray(s) \/ LoseStray(s)
    BY <2>3 DEF AuthenticateStray, LoseStray
  <2> QED BY <1>5, <2>2, <2>3 DEF HandleStray
<1>6. CASE UNCHANGED meshVars
  BY <1>6 DEF meshVars, coordVars
<1> QED BY <1>1, <1>2, <1>3, <1>4, <1>5, <1>6 DEF MeshNext, Handle

LEMMA ClockSetBackType == TypeOK /\ ClockSetBack => TypeOK'
<1> SUFFICES ASSUME TypeOK, ClockSetBack PROVE TypeOK'
  OBVIOUS
<1>1. now' \in 1 .. MaxTime
  BY ConstantsAssumption DEF ConstantsAssumption, TypeOK, ClockSetBack
<1> QED BY <1>1 DEF TypeOK, ClockSetBack

\* Ids are drawn and never given back.
LEMMA IssuedGrows ==
  ASSUME [Next]_coordVars \/ ClockSetBack PROVE issued \subseteq issued'
<1>1. \A n, want, rs : AddClient(n, want, rs) => issued \subseteq issued'
  BY DEF AddClient
<1>2. \A n : RemoveClient(n) \/ RegenToken(n) => issued' = issued
  BY DEF RemoveClient, RegenToken
<1>3. \A n, m : RenameClient(n, m) \/ SetBlacklist(n, m) \/ InitForce(n, m) => issued' = issued
  BY DEF RenameClient, SetBlacklist, InitForce
<1>4. \A n, gain, drop : SetRoutes(n, gain, drop) => issued' = issued
  BY DEF SetRoutes
<1>5. \A c, who, want : Register(c, who, want) \/ Heartbeat(c, who) => issued' = issued
  BY DEF Register, Heartbeat
<1>6. ClockSetBack \/ Tick \/ UNCHANGED coordVars => issued' = issued
  BY DEF ClockSetBack, Tick, coordVars
<1> QED BY <1>1, <1>2, <1>3, <1>4, <1>5, <1>6 DEF Next, Manage, Serve, AddRoutes, RemoveRoutes

(***************************************************************************)
(* What is answered, and what folding an answer in makes of a cache.       *)
(***************************************************************************)

\* Whatever is advertised is a record of a peer, of an id that was issued.
LEMMA BuildPeersType ==
  ASSUME TypeOK, NEW c \in ID
  PROVE  /\ DOMAIN BuildPeers(c) \subseteq OthersOf(c) /\ DOMAIN BuildPeers(c) \subseteq PeerID
         /\ \A p \in DOMAIN BuildPeers(c) : BuildPeers(c)[p] \in PeerRecord
<1>1. DOMAIN BuildPeers(c) = Advertised(c) \cup {HubID}
  BY DEF BuildPeers
<1>2. Advertised(c) \subseteq issued \ {c} /\ issued \subseteq ID /\ HubID # c
  BY ConstantsAssumption DEF ConstantsAssumption, Advertised, TypeOK
<1>3. HubAdvert \in PeerRecord
  <2>1. hub.key \in Nat /\ hub.addr \in Pool /\ hub.routes \in SUBSET Route
    BY DEF TypeOK
  <2>2. NoEndpoint \in Endpoint
    BY DEF NoEndpoint, Endpoint
  <2> QED BY <2>1, <2>2 DEF HubAdvert, PeerRecord
<1>4. ASSUME NEW p \in Advertised(c) PROVE Advert(p) \in PeerRecord
  <2>1. p \in DOMAIN clients
    BY DEF Advertised
  <2>2. clients[p].key \in Nat
    BY <2>1, FieldsOfClient DEF Key, NoKey
  <2> QED BY <2>1, <2>2, FieldsOfClient DEF Advert, PeerRecord
<1>5. ASSUME NEW p \in DOMAIN BuildPeers(c) PROVE BuildPeers(c)[p] \in PeerRecord
  BY <1>1, <1>3, <1>4 DEF BuildPeers
<1> QED BY <1>1, <1>2, <1>5 DEF OthersOf, PeerID

LEMMA AnswerType ==
  ASSUME TypeOK, NEW r \in Request, Write(r)
  PROVE  /\ IsAnswer(Answer(r))
         /\ DOMAIN Answer(r).add \subseteq OthersOf(r.client)
<1> DEFINE c == r.client
           sent == IF r.op = "register" THEN DOMAIN BuildPeers(c) ELSE AddIDs(c, r.have)
<1>1. c \in DOMAIN clients /\ c \in ID /\ r.have \subseteq PeerID
  BY DEF Write, Register, RegisterAccepts, Heartbeat, Request
<1>2. sent \subseteq DOMAIN BuildPeers(c)
  BY DEF AddIDs
<1>3. /\ DOMAIN Answer(r) = {"addr", "add", "remove"}
      /\ Answer(r).add = [p \in sent |-> BuildPeers(c)[p]]
      /\ Answer(r).remove \subseteq r.have
      /\ Answer(r).addr = IF r.op = "register" THEN RegisteredAddr(c, r.want) ELSE clients[c].addr
  BY DEF Answer, RemoveIDs
<1>4. Answer(r).addr \in Pool
  <2>1. clients[c].addr \in Pool
    BY <1>1, FieldsOfClient
  <2>2. ASSUME r.op = "register" PROVE KeepsAddr(c, r.want) \/ r.want \in Pool
    BY <2>2 DEF Write, Register, RegisterAccepts, AddrFree
  <2> QED BY <1>3, <2>1, <2>2 DEF RegisteredAddr
<1> HIDE DEF c, sent
<1>5. DOMAIN Answer(r).add = sent /\ \A p \in sent : Answer(r).add[p] = BuildPeers(c)[p]
  BY <1>3
<1>6. IsPeers(Answer(r).add)
  BY <1>1, <1>2, <1>5, BuildPeersType DEF IsPeers
<1>7. DOMAIN Answer(r).add \subseteq OthersOf(c)
  BY <1>1, <1>2, <1>5, BuildPeersType
<1> QED BY <1>1, <1>3, <1>4, <1>6, <1>7 DEF IsAnswer, c

LEMMA ApplyDeltaType ==
  ASSUME NEW peers, NEW a, IsPeers(peers), IsPeers(a.add)
  PROVE  /\ IsPeers(ApplyDelta(peers, a))
         /\ DOMAIN ApplyDelta(peers, a) \subseteq DOMAIN peers \cup DOMAIN a.add
BY DEF ApplyDelta, IsPeers

LEMMA CacheType ==
  ASSUME MeshInv, NEW c \in ID
  PROVE  IsPeers(CachedBefore(c)) /\ DOMAIN CachedBefore(c) \subseteq OthersOf(c)
<1>1. IsPeers(NoPeers) /\ DOMAIN NoPeers = {}
  BY DEF IsPeers, NoPeers
<1>2. c \in DOMAIN node => NodeOK(c)
  BY DEF MeshInv, MachineOK
<1> QED BY <1>1, <1>2 DEF CachedBefore, NodeOK

LEMMA ViewType ==
  ASSUME MeshInv, NEW c \in ID
  PROVE  IsPeers(View(c)) /\ DOMAIN View(c) \subseteq OthersOf(c)
<1>1. CASE Answered(c)
  <2>1. IsPeers(call[c].answer.add) /\ DOMAIN call[c].answer.add \subseteq OthersOf(c)
    BY <1>1 DEF Answered, MeshInv, MachineOK, CallOK, IsAnswer
  <2> QED BY <1>1, <2>1, CacheType, ApplyDeltaType DEF View
<1>2. CASE ~Answered(c)
  BY <1>2, CacheType DEF View
<1> QED BY <1>1, <1>2

(***************************************************************************)
(* Steps of machines, and of the coordinator answering them.               *)
(***************************************************************************)

\* The machines other than c are left alone.
OnlyMachine(c) ==
  /\ DOMAIN node' \subseteq DOMAIN node \cup {c} /\ DOMAIN node \ {c} \subseteq DOMAIN node'
  /\ DOMAIN call' \subseteq DOMAIN call \cup {c} /\ DOMAIN call \ {c} \subseteq DOMAIN call'
  /\ \A d \in DOMAIN node \ {c} : node'[d] = node[d]
  /\ \A d \in DOMAIN call \ {c} : call'[d] = call[d]

\* Ids issued since are no harm to a machine that did nothing.
LEMMA StillOK ==
  ASSUME NEW d \in ID, MachineOK(d), issued \subseteq issued',
         d \in DOMAIN node' <=> d \in DOMAIN node, d \in DOMAIN node => node'[d] = node[d],
         d \in DOMAIN call' <=> d \in DOMAIN call, d \in DOMAIN call => call'[d] = call[d]
  PROVE  MachineOK(d)'
<1>1. OthersOf(d) \subseteq OthersOf(d)'
  BY DEF OthersOf
<1>2. CachedBefore(d)' = CachedBefore(d)
  BY DEF CachedBefore
<1>3. d \in DOMAIN node' => d \in issued' /\ NodeOK(d)'
  BY <1>1 DEF MachineOK, NodeOK
<1>4. d \in DOMAIN call' => d \in issued' /\ CallOK(d)'
  BY <1>1, <1>2 DEF MachineOK, CallOK
<1> QED BY <1>3, <1>4 DEF MachineOK

LEMMA OneMachineKeeps ==
  ASSUME MeshInv, NEW c \in ID, OnlyMachine(c), MachineOK(c)', TypeOK', issued \subseteq issued',
         keys' \in [ID -> 0 .. MaxKey], stray' \subseteq Stray, ops' \in 0 .. MaxOps
  PROVE  MeshInv'
<1>1. ASSUME NEW d \in ID, d # c PROVE MachineOK(d)'
  BY <1>1, StillOK DEF MeshInv, OnlyMachine
<1>2. DOMAIN node' \subseteq ID /\ DOMAIN call' \subseteq ID
  BY DEF MeshInv, OnlyMachine
<1> QED BY <1>1, <1>2 DEF MeshInv

LEMMA NoMachineKeeps ==
  ASSUME MeshInv, TypeOK', issued \subseteq issued', UNCHANGED <<node, keys, call>>,
         stray' \subseteq Stray, ops' \in 0 .. MaxOps
  PROVE  MeshInv'
<1>1. ASSUME NEW d \in ID PROVE MachineOK(d)'
  BY StillOK DEF MeshInv
<1> QED BY <1>1 DEF MeshInv

LEMMA BudgetType == ASSUME ops \in 0 .. MaxOps, Budget PROVE ops' \in 0 .. MaxOps
BY MeshAssumption DEF MeshAssumption, Budget

\* Of a machine that sends a request, and has sent none.
LEMMA SendsOnly ==
  ASSUME NEW c \in ID, NEW v, call' = Replace(call, c, v), node' = node
  PROVE  OnlyMachine(c) /\ c \in DOMAIN call' /\ call'[c] = v
BY DEF Replace, OnlyMachine

LEMMA StartJoinKeeps == ASSUME MeshInv, NEW c \in ID, StartJoin(c) PROVE MeshInv'
<1>1. PICK h \in JoinHost, p \in Port, a \in Wanted \cup {NoAddr} :
        call' = Replace(call, c,
         [stage |-> "sent",
          req |-> [op |-> "register", client |-> c, token |-> clients[c].token,
                   who |-> [key |-> keys[c] + 1, host |-> h, port |-> p],
                   want |-> a, have |-> {}]])
  BY DEF StartJoin
<1> DEFINE r == [op |-> "register", client |-> c, token |-> clients[c].token,
                 who |-> [key |-> keys[c] + 1, host |-> h, port |-> p],
                 want |-> a, have |-> {}]
           v == [stage |-> "sent", req |-> r]
<1>2. /\ c \in DOMAIN clients /\ c \notin DOMAIN node /\ keys[c] < MaxKey
      /\ keys' = [keys EXCEPT ![c] = @ + 1]
      /\ UNCHANGED <<coordVars, node, stray>>
      /\ ops' = ops \/ Budget
  BY DEF StartJoin
<1>3. keys[c] + 1 \in 1 .. MaxKey /\ keys' \in [ID -> 0 .. MaxKey]
  BY <1>2, ConstantsAssumption DEF ConstantsAssumption, MeshInv
<1>4. r \in Request
  <2>1. r.who \in Identity
    BY <1>3, MeshAssumption DEF MeshAssumption, Identity, Key
  <2>2. clients[c].token \in Token
    BY <1>2, FieldsOfClient DEF MeshInv
  <2> QED BY <2>1, <2>2 DEF Request
<1>5. v \in Stray /\ v.stage = "sent" /\ v.req = r /\ r.client = c /\ r.op = "register" /\ r.have = {}
  BY <1>4 DEF Stray
<1> HIDE DEF r, v
<1>6. OnlyMachine(c) /\ c \in DOMAIN call' /\ call'[c] = v
  BY <1>1, <1>2, SendsOnly DEF r, v
<1>7. UNCHANGED <<clients, hub, issued, now>> /\ c \in issued
  BY <1>2 DEF coordVars, MeshInv, TypeOK
<1>8. DOMAIN CachedBefore(c)' = {}
  BY <1>2 DEF CachedBefore, NoPeers
<1>9. CallOK(c)'
  BY <1>2, <1>4, <1>5, <1>6, <1>8 DEF CallOK
<1>10. MachineOK(c)'
  BY <1>2, <1>7, <1>9 DEF MachineOK
<1>11. TypeOK' /\ ops' \in 0 .. MaxOps
  BY <1>2, <1>7, BudgetType DEF MeshInv, TypeOK
<1> QED BY <1>2, <1>3, <1>6, <1>7, <1>10, <1>11, OneMachineKeeps DEF MeshInv

LEMMA StartBeatKeeps == ASSUME MeshInv, NEW c \in ID, StartBeat(c) PROVE MeshInv'
<1> DEFINE r == [op |-> "heartbeat", client |-> c, token |-> node[c].token,
                 who |-> node[c].who, want |-> NoAddr, have |-> DOMAIN node[c].peers]
           v == [stage |-> "sent", req |-> r]
<1>1. /\ c \in DOMAIN node /\ call' = Replace(call, c, v)
      /\ UNCHANGED <<coordVars, node, keys, stray, ops>>
  BY DEF StartBeat
<1>2. NodeOK(c) /\ c \in issued
  BY <1>1 DEF MeshInv, MachineOK
<1>3. r \in Request
  BY <1>2 DEF NodeOK, Request, IsPeers
<1>4. /\ v \in Stray /\ v.stage = "sent" /\ v.req = r /\ r.client = c
      /\ r.op = "heartbeat" /\ r.have = DOMAIN node[c].peers /\ r.who = node[c].who
  BY <1>3 DEF Stray
<1> HIDE DEF r, v
<1>5. OnlyMachine(c) /\ c \in DOMAIN call' /\ call'[c] = v
  BY <1>1, SendsOnly
<1>6. UNCHANGED <<clients, hub, issued, now>>
  BY <1>1 DEF coordVars
<1>7. CachedBefore(c)' = node[c].peers
  BY <1>1 DEF CachedBefore
<1>8. CallOK(c)'
  BY <1>1, <1>3, <1>4, <1>5, <1>7 DEF CallOK
<1>9. NodeOK(c)'
  BY <1>1, <1>2, <1>6 DEF NodeOK, OthersOf
<1>10. TypeOK'
  BY <1>6 DEF MeshInv, TypeOK
<1> QED BY <1>1, <1>2, <1>5, <1>6, <1>8, <1>9, <1>10, OneMachineKeeps DEF MeshInv, MachineOK

LEMMA DeliverKeeps == ASSUME MeshInv, NEW c \in ID, Deliver(c) PROVE MeshInv'
<1> DEFINE v == [token |-> call[c].req.token, who |-> call[c].req.who,
                 addr |-> call[c].answer.addr, peers |-> View(c)]
<1>1. /\ c \in DOMAIN call /\ call[c].stage = "answered"
      /\ node' = Replace(node, c, v) /\ call' = Drop(call, c)
      /\ UNCHANGED <<coordVars, keys, stray, ops>>
  BY DEF Deliver, Answered
<1>2. c \in issued /\ call[c].req \in Request /\ IsAnswer(call[c].answer)
  BY <1>1 DEF MeshInv, MachineOK, CallOK
<1>3. OnlyMachine(c) /\ c \notin DOMAIN call' /\ node'[c] = v
  BY <1>1 DEF OnlyMachine, Replace, Drop
<1>4. UNCHANGED <<clients, hub, issued, now>>
  BY <1>1 DEF coordVars
<1>5. /\ DOMAIN v = {"token", "who", "addr", "peers"} /\ v.token \in Token
      /\ v.who \in Identity /\ v.addr \in Pool /\ v.peers = View(c)
  BY <1>2 DEF Request, IsAnswer
<1> HIDE DEF v
<1>6. NodeOK(c)'
  BY <1>3, <1>4, <1>5, ViewType DEF NodeOK, OthersOf
<1>7. TypeOK'
  BY <1>4 DEF MeshInv, TypeOK
<1> QED BY <1>1, <1>2, <1>3, <1>4, <1>6, <1>7, OneMachineKeeps DEF MeshInv, MachineOK

\* A machine that stops waiting keeps its config.
LEMMA StopsWaiting ==
  ASSUME MeshInv, NEW c \in ID, call' = Drop(call, c),
         UNCHANGED <<coordVars, node, keys, ops>>, stray' \subseteq Stray
  PROVE  MeshInv'
<1>1. OnlyMachine(c) /\ c \notin DOMAIN call'
  BY DEF OnlyMachine, Drop
<1>2. UNCHANGED <<clients, hub, issued, now>>
  BY DEF coordVars
<1>3. c \in DOMAIN node' => c \in issued' /\ NodeOK(c)'
  BY <1>2 DEF MeshInv, MachineOK, NodeOK, OthersOf
<1>4. TypeOK'
  BY <1>2 DEF MeshInv, TypeOK
<1> QED BY <1>1, <1>2, <1>3, <1>4, OneMachineKeeps DEF MeshInv, MachineOK

LEMMA AbandonKeeps == ASSUME MeshInv, NEW c \in ID, Abandon(c) PROVE MeshInv'
<1>1. stray' \subseteq Stray
  BY DEF Abandon, Answered, MeshInv, MachineOK, CallOK
<1> QED BY <1>1, StopsWaiting DEF Abandon

LEMMA RefuseKeeps == ASSUME MeshInv, NEW c \in ID, Refuse(c) PROVE MeshInv'
BY StopsWaiting DEF Refuse, MeshInv

\* A machine that waits for nothing may change its config.
LEMMA ConfigChanges ==
  ASSUME MeshInv, NEW c \in ID, c \notin DOMAIN call, DOMAIN node' \subseteq ID,
         DOMAIN node' \ {c} = DOMAIN node \ {c}, \A d \in DOMAIN node \ {c} : node'[d] = node[d],
         c \in DOMAIN node' => c \in issued /\ NodeOK(c)',
         UNCHANGED <<coordVars, keys, call, stray>>, ops' \in 0 .. MaxOps
  PROVE  MeshInv'
<1>1. OnlyMachine(c)
  BY DEF OnlyMachine
<1>2. UNCHANGED <<clients, hub, issued, now>>
  BY DEF coordVars
<1>3. TypeOK'
  BY <1>2 DEF MeshInv, TypeOK
<1> QED BY <1>1, <1>2, <1>3, OneMachineKeeps DEF MeshInv, MachineOK

LEMMA RoamKeeps == ASSUME MeshInv, NEW c \in ID, Roam(c) PROVE MeshInv'
<1>1. PICK h \in Host \cup {NoHost}, p \in Port :
        node' = [node EXCEPT ![c].who.host = h, ![c].who.port = p]
  BY DEF Roam
<1>2. c \in DOMAIN node /\ c \notin DOMAIN call /\ NodeOK(c) /\ c \in issued
  BY DEF Roam, MeshInv, MachineOK
<1> DEFINE who == [node[c].who EXCEPT !.host = h, !.port = p]
           v == [node[c] EXCEPT !.who = who]
<1>3. node' = [node EXCEPT ![c] = v]
  BY <1>1, <1>2
<1>4. who \in Identity
  BY <1>2 DEF NodeOK, Identity
<1> HIDE DEF who
<1>5. /\ DOMAIN v = DOMAIN node[c] /\ v.token = node[c].token /\ v.who = who
      /\ v.addr = node[c].addr /\ v.peers = node[c].peers
  BY <1>2 DEF NodeOK
<1> HIDE DEF v
<1>6. DOMAIN node' = DOMAIN node /\ node'[c] = v /\ \A d \in DOMAIN node \ {c} : node'[d] = node[d]
  BY <1>2, <1>3
<1>7. NodeOK(c)'
  BY <1>2, <1>4, <1>5, <1>6 DEF NodeOK, OthersOf, Roam, coordVars
<1>8. ops' \in 0 .. MaxOps
  BY BudgetType DEF Roam, MeshInv
<1> QED BY <1>2, <1>6, <1>7, <1>8, ConfigChanges DEF Roam, MeshInv

LEMMA EnterTokenKeeps == ASSUME MeshInv, NEW c \in ID, EnterToken(c) PROVE MeshInv'
<1>1. c \in DOMAIN node /\ c \in DOMAIN clients /\ c \notin DOMAIN call /\ NodeOK(c) /\ c \in issued
  BY DEF EnterToken, MeshInv, MachineOK
<1> DEFINE v == [node[c] EXCEPT !.token = clients[c].token]
<1>2. node' = [node EXCEPT ![c] = v]
  BY <1>1 DEF EnterToken
<1>3. clients[c].token \in Token
  BY <1>1, FieldsOfClient DEF MeshInv
<1>4. /\ DOMAIN v = DOMAIN node[c] /\ v.token \in Token /\ v.who = node[c].who
      /\ v.addr = node[c].addr /\ v.peers = node[c].peers
  BY <1>1, <1>3 DEF NodeOK
<1> HIDE DEF v
<1>5. DOMAIN node' = DOMAIN node /\ node'[c] = v /\ \A d \in DOMAIN node \ {c} : node'[d] = node[d]
  BY <1>1, <1>2
<1>6. NodeOK(c)'
  BY <1>1, <1>4, <1>5 DEF NodeOK, OthersOf, EnterToken, coordVars
<1>7. ops' \in 0 .. MaxOps
  BY BudgetType DEF EnterToken, MeshInv
<1> QED BY <1>1, <1>5, <1>6, <1>7, ConfigChanges DEF EnterToken, MeshInv

LEMMA LeaveKeeps == ASSUME MeshInv, NEW c \in ID, Leave(c) PROVE MeshInv'
<1>1. /\ c \notin DOMAIN call /\ c \notin DOMAIN node' /\ DOMAIN node' \subseteq ID
      /\ DOMAIN node' \ {c} = DOMAIN node \ {c} /\ \A d \in DOMAIN node \ {c} : node'[d] = node[d]
      /\ UNCHANGED <<coordVars, keys, call, stray>> /\ ops' \in 0 .. MaxOps
  BY DEF Leave, Drop, MeshInv
<1> QED BY <1>1, ConfigChanges

LEMMA AuthenticateKeeps == ASSUME MeshInv, NEW c \in ID, Authenticate(c) PROVE MeshInv'
<1> DEFINE v == [call[c] EXCEPT !.stage = "authed"]
<1>1. /\ c \in DOMAIN call /\ call[c].stage = "sent" /\ call' = [call EXCEPT ![c] = v]
      /\ UNCHANGED <<coordVars, node, keys, stray, ops>>
  BY DEF Authenticate
<1>2. c \in issued /\ CallOK(c) /\ call[c] \in Stray
  BY <1>1 DEF MeshInv, MachineOK, CallOK
<1>3. v \in Stray /\ v.stage = "authed" /\ v.req = call[c].req
  BY <1>2 DEF Stray
<1> HIDE DEF v
<1>4. OnlyMachine(c) /\ DOMAIN call' = DOMAIN call /\ call'[c] = v
  BY <1>1 DEF OnlyMachine
<1>5. UNCHANGED <<clients, hub, issued, now>>
  BY <1>1 DEF coordVars
<1>6. CachedBefore(c)' = CachedBefore(c)
  BY <1>1 DEF CachedBefore
<1>7. CallOK(c)'
  BY <1>1, <1>2, <1>3, <1>4, <1>6 DEF CallOK
<1>8. c \in DOMAIN node' => NodeOK(c)'
  BY <1>1, <1>5 DEF MeshInv, MachineOK, NodeOK, OthersOf
<1>9. TypeOK'
  BY <1>5 DEF MeshInv, TypeOK
<1> QED BY <1>1, <1>2, <1>4, <1>5, <1>7, <1>8, <1>9, OneMachineKeeps DEF MeshInv, MachineOK

\* The write leaves the ids alone.
LEMMA WriteIssuesNone == ASSUME NEW r, Write(r) PROVE UNCHANGED <<hub, issued, now>>
BY DEF Write, Register, Heartbeat

LEMMA CommitKeeps == ASSUME MeshInv, TypeOK', NEW c \in ID, Commit(c) PROVE MeshInv'
<1> DEFINE r == call[c].req
           v == [stage |-> "answered", req |-> r, answer |-> Answer(r)]
<1>1. /\ c \in DOMAIN call /\ call[c].stage = "authed" /\ Write(r)
      /\ call' = Replace(call, c, v) /\ UNCHANGED <<node, keys, stray, ops>>
  BY DEF Commit
<1>2. c \in issued /\ CallOK(c)
  BY <1>1 DEF MeshInv, MachineOK
<1>3. r \in Request /\ r.client = c
  BY <1>2 DEF CallOK
<1>4. /\ DOMAIN v = {"stage", "req", "answer"} /\ v.stage = "answered" /\ v.req = call[c].req
      /\ IsAnswer(v.answer) /\ DOMAIN v.answer.add \subseteq OthersOf(c)
  BY <1>1, <1>3, AnswerType DEF MeshInv
<1> HIDE DEF v
<1>5. OnlyMachine(c) /\ c \in DOMAIN call' /\ call'[c] = v
  BY <1>1, SendsOnly
<1>6. issued' = issued /\ OthersOf(c)' = OthersOf(c)
  BY <1>1, WriteIssuesNone DEF OthersOf
<1>7. CachedBefore(c)' = CachedBefore(c)
  BY <1>1 DEF CachedBefore
<1>8. CallOK(c)'
  BY <1>1, <1>2, <1>4, <1>5, <1>6, <1>7 DEF CallOK
<1>9. c \in DOMAIN node' => NodeOK(c)'
  BY <1>1, <1>6 DEF MeshInv, MachineOK, NodeOK
<1> QED BY <1>1, <1>2, <1>5, <1>6, <1>8, <1>9, OneMachineKeeps DEF MeshInv, MachineOK

LEMMA StrayKeeps ==
  ASSUME MeshInv, TypeOK', issued \subseteq issued', NEW s \in stray, HandleStray(s) PROVE MeshInv'
<1>1. stray' \subseteq Stray /\ UNCHANGED <<node, keys, call, ops>>
  BY DEF HandleStray, AuthenticateStray, CommitStray, LoseStray, MeshInv, Stray
<1> QED BY <1>1, NoMachineKeeps DEF MeshInv

LEMMA RegistryKeeps ==
  ASSUME MeshInv, TypeOK', issued \subseteq issued', Admit \/ Edit \/ Pass \/ StepBack PROVE MeshInv'
<1>1. UNCHANGED <<node, keys, call, stray>>
  BY DEF Admit, Edit, Pass, StepBack, machineVars
<1>2. ops' \in 0 .. MaxOps
  BY BudgetType DEF Admit, Edit, Pass, StepBack, MeshInv
<1> QED BY <1>1, <1>2, NoMachineKeeps DEF MeshInv

LEMMA MeshStep == MeshInv /\ [MeshNext]_meshVars => MeshInv'
<1> SUFFICES ASSUME MeshInv, [MeshNext]_meshVars PROVE MeshInv'
  OBVIOUS
<1>1. TypeOK' /\ issued \subseteq issued'
  BY MeshRunsRegistry, RegistryStepType, ClockSetBackType, IssuedGrows DEF MeshInv
<1>2. CASE Admit \/ Edit \/ Pass \/ StepBack
  BY <1>1, <1>2, RegistryKeeps
<1>3. ASSUME NEW c \in ID, Machine(c) PROVE MeshInv'
  BY <1>3, StartJoinKeeps, StartBeatKeeps, DeliverKeeps, AbandonKeeps, RoamKeeps,
     EnterTokenKeeps, LeaveKeeps DEF Machine
<1>4. ASSUME NEW c \in ID, Handle(c) PROVE MeshInv'
  BY <1>1, <1>4, AuthenticateKeeps, CommitKeeps, RefuseKeeps DEF Handle
<1>5. ASSUME NEW s \in stray, HandleStray(s) PROVE MeshInv'
  BY <1>1, <1>5, StrayKeeps
<1>6. CASE UNCHANGED meshVars
  <2>1. UNCHANGED <<clients, hub, issued, now, node, keys, call, stray, ops>>
    BY <1>6 DEF meshVars
  <2> QED BY <1>1, <2>1, NoMachineKeeps DEF MeshInv
<1> QED BY <1>2, <1>3, <1>4, <1>5, <1>6 DEF MeshNext

LEMMA MeshInvariant == MeshSpec => []MeshInv
BY MeshInitially, MeshStep, PTL DEF MeshSpec

\* Config, requests and answers of every machine are well typed, whatever the
\* network loses and however late a request is applied: no machine caches itself,
\* and only a machine that has a config sends heartbeats.
THEOREM MeshTypeCorrect == MeshSpec => []MeshTypeOK
BY MeshInvariant, MeshInvTypes, PTL

\* No two members hold one address, whichever requests are applied late or twice
\* and however the clock moves: a late register is checked against the registry it
\* is applied to.
THEOREM MeshAddressesUnique == MeshSpec => []AddressesUnique
<1>1. MeshInit => AddressesUnique
  BY InitAddresses DEF MeshInit
<1>2. AddressesUnique /\ ClockSetBack => AddressesUnique'
  BY DEF AddressesUnique, ClockSetBack
<1>3. MeshInv /\ AddressesUnique /\ [MeshNext]_meshVars => AddressesUnique'
  BY <1>2, MeshRunsRegistry, RegistryStepAddresses DEF MeshInv
<1> QED BY <1>1, <1>3, MeshInvariant, PTL DEF MeshSpec

\* And they are leased one at a time, as in the registry alone: no request, however
\* late, moves an address that it does not ask for.
THEOREM MeshLeasesAddresses == MeshSpec => AddressesAreLeased
<1>1. ClockSetBack => UNCHANGED LeasedTo
  BY DEF ClockSetBack, LeasedTo
<1>2. MeshInv /\ [MeshNext]_meshVars => [Lease!Next]_LeasedTo
  BY <1>1, MeshRunsRegistry, LeaseStep DEF MeshInv
<1>3. MeshInit => Lease!Init
  BY LeaseInitially DEF MeshInit
<1> QED BY <1>2, <1>3, MeshInvariant, PTL DEF MeshSpec, AddressesAreLeased, Lease!Spec, LeasedTo

(***************************************************************************)
(* Membership.  A heartbeat reports the ids in the cache it will be folded *)
(* into, and a register is folded into none.                               *)
(***************************************************************************)

\* Only the coordinator's write makes a machine one with an answer.
LEMMA OnlyCommitAnswers ==
  ASSUME MeshInv, [MeshNext]_meshVars, NEW c \in ID, ~Answered(c), Answered(c)'
  PROVE  Commit(c)
<1>1. CASE Admit \/ Edit \/ Pass \/ StepBack
  BY <1>1 DEF Admit, Edit, Pass, StepBack, machineVars, Answered
<1>2. ASSUME NEW d \in ID, Machine(d) PROVE FALSE
  BY <1>2 DEF Machine, StartJoin, StartBeat, Deliver, Abandon, Roam, EnterToken, Leave,
     Answered, Replace, Drop
<1>3. ASSUME NEW d \in ID, Authenticate(d) \/ Refuse(d) PROVE FALSE
  <2>1. CASE Authenticate(d)
    <3>1. call[d] \in Stray
      BY <2>1 DEF Authenticate, MeshInv, MachineOK, CallOK
    <3> QED BY <2>1, <3>1 DEF Authenticate, Answered, Stray
  <2>2. CASE Refuse(d)
    BY <2>2 DEF Refuse, Answered, Drop
  <2> QED BY <1>3, <2>1, <2>2
<1>4. ASSUME NEW d \in ID, Commit(d) PROVE Commit(c)
  <2>1. d = c
    BY <1>4 DEF Commit, Answered, Replace
  <2> QED BY <1>4, <2>1
<1>5. ASSUME NEW s \in stray, HandleStray(s) PROVE FALSE
  BY <1>5 DEF HandleStray, AuthenticateStray, CommitStray, LoseStray, Answered
<1>6. CASE UNCHANGED meshVars
  BY <1>6 DEF meshVars, Answered
<1> QED BY <1>1, <1>2, <1>3, <1>4, <1>5, <1>6 DEF MeshNext, Handle

\* The write for client c changes its record and no other's.
LEMMA WriteChangesOne ==
  ASSUME TypeOK, NEW r \in Request, Write(r)
  PROVE  /\ r.client \in DOMAIN clients /\ DOMAIN clients' = DOMAIN clients
         /\ \A d \in DOMAIN clients \ {r.client} : clients'[d] = clients[d]
         /\ UNCHANGED <<hub, issued, now>>
<1>1. CASE r.op = "register" /\ Register(r.client, r.who, r.want)
  BY <1>1 DEF Register, RegisterAccepts
<1>2. CASE r.op = "heartbeat" /\ Heartbeat(r.client, r.who)
  BY <1>2 DEF Heartbeat
<1> QED BY <1>1, <1>2 DEF Write

\* What is advertised to a client is not changed by its own request.
LEMMA OwnWriteKeepsPeers ==
  ASSUME TypeOK, NEW r \in Request, Write(r) PROVE BuildPeers(r.client)' = BuildPeers(r.client)
<1> DEFINE c == r.client
<1>1. /\ DOMAIN clients' = DOMAIN clients /\ hub' = hub
      /\ \A d \in DOMAIN clients \ {c} : clients'[d] = clients[d]
  BY WriteChangesOne
<1> HIDE DEF c
<1>2. Advertised(c)' = Advertised(c)
  BY <1>1 DEF Advertised
<1>3. HubAdvert' = HubAdvert
  BY <1>1 DEF HubAdvert
<1>4. \A p \in Advertised(c) : Advert(p)' = Advert(p)
  BY <1>1 DEF Advertised, Advert
<1>5. BuildPeers(c)' = BuildPeers(c)
  BY <1>2, <1>3, <1>4 DEF BuildPeers
<1> QED BY <1>5 DEF c

\* Folded into the cache that was reported, an answer makes it the ids advertised.
LEMMA DeltaFixesIds ==
  ASSUME NEW r, r.op \in {"register", "heartbeat"}, NEW cache, r.have = DOMAIN cache,
         r.op = "register" => DOMAIN cache = {}
  PROVE  DOMAIN ApplyDelta(cache, Answer(r)) = DOMAIN BuildPeers(r.client)
<1>1. DOMAIN ApplyDelta(cache, Answer(r)) = (r.have \cup DOMAIN Answer(r).add) \ Answer(r).remove
  BY DEF ApplyDelta
<1>2. CASE r.op = "register"
  BY <1>1, <1>2 DEF Answer
<1>3. CASE r.op = "heartbeat"
  <2>1. /\ DOMAIN Answer(r).add = AddIDs(r.client, r.have)
        /\ Answer(r).remove = RemoveIDs(r.client, r.have)
    BY <1>3 DEF Answer
  <2>2. HubID \in DOMAIN BuildPeers(r.client)
    BY DEF BuildPeers
  <2> QED BY <1>1, <2>1, <2>2 DEF AddIDs, RemoveIDs
<1> QED BY <1>2, <1>3

\* What the write for machine c leaves it with.
LEMMA CommitAnswers ==
  ASSUME MeshInv, NEW c \in ID, Commit(c)
  PROVE  \E r \in Request :
           /\ r = call[c].req /\ r.client = c /\ Write(r)
           /\ r.have = DOMAIN CachedBefore(c)
           /\ r.op = "heartbeat" <=> c \in DOMAIN node
           /\ r.op = "register" => DOMAIN CachedBefore(c) = {}
           /\ c \in DOMAIN node => r.who = node[c].who
           /\ Answered(c)' /\ call'[c].req = r /\ call'[c].answer = Answer(r)
           /\ View(c)' = ApplyDelta(CachedBefore(c), Answer(r))
           /\ BuildPeers(c)' = BuildPeers(c)
<1>1. PICK r \in Request : r = call[c].req
  BY DEF Commit, MeshInv, MachineOK, CallOK
<1>2. /\ c \in DOMAIN call /\ Write(r) /\ node' = node
      /\ call' = Replace(call, c, [stage |-> "answered", req |-> r, answer |-> Answer(r)])
  BY <1>1 DEF Commit
<1>3. /\ r.client = c /\ r.have = DOMAIN CachedBefore(c)
      /\ r.op = "heartbeat" <=> c \in DOMAIN node
      /\ c \in DOMAIN node => r.who = node[c].who
  BY <1>1, <1>2 DEF MeshInv, MachineOK, CallOK
<1>4. r.op = "register" => DOMAIN CachedBefore(c) = {}
  BY <1>3 DEF CachedBefore, NoPeers
<1>5. Answered(c)' /\ call'[c].req = r /\ call'[c].answer = Answer(r)
  BY <1>2 DEF Answered, Replace
<1>6. View(c)' = ApplyDelta(CachedBefore(c), Answer(r))
  BY <1>2, <1>5 DEF View, CachedBefore
<1>7. BuildPeers(c)' = BuildPeers(c)
  BY <1>2, <1>3, OwnWriteKeepsPeers DEF MeshInv
<1> QED BY <1>1, <1>2, <1>3, <1>4, <1>5, <1>6, <1>7

\* Every answer leaves its client with exactly the ids advertised to it when the
\* coordinator wrote it, whatever requests and answers were lost before.
THEOREM EachAnswerFixesMembership == MeshSpec => AnswersFixMembership
<1>1. ASSUME MeshInv, NEW c \in ID, Commit(c) PROVE DOMAIN View(c)' = DOMAIN BuildPeers(c)'
  <2>1. PICK r \in Request :
          /\ r.client = c /\ r.have = DOMAIN CachedBefore(c)
          /\ r.op = "register" => DOMAIN CachedBefore(c) = {}
          /\ View(c)' = ApplyDelta(CachedBefore(c), Answer(r))
          /\ BuildPeers(c)' = BuildPeers(c)
    BY <1>1, CommitAnswers
  <2>2. r.op \in {"register", "heartbeat"}
    BY DEF Request
  <2> QED BY <2>1, <2>2, DeltaFixesIds
<1>2. MeshInv /\ [MeshNext]_meshVars =>
        [\A c \in ID : Answered(c)' /\ ~Answered(c) =>
           DOMAIN View(c)' = DOMAIN BuildPeers(c)']_meshVars
  BY <1>1, OnlyCommitAnswers
<1> QED BY <1>2, MeshInvariant, PTL DEF MeshSpec, AnswersFixMembership

===============================================================================
