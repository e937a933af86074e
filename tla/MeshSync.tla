------------------------------- MODULE MeshSync -------------------------------
(***************************************************************************)
(* Peer exchange: client machines that join, beat and cache the peers they *)
(* are handed (internal/client), the network between, and the coordinator  *)
(* answering from its registry (module Coordinator).  Client c runs on one *)
(* machine, machine c, the one its token was given to.                     *)
(*                                                                         *)
(* A request is authenticated against a snapshot of the registry and       *)
(* applied later under the lock (auth, then Mutate), so that anything may  *)
(* happen in between.  A client gives up on a request after a timeout or   *)
(* dies with it; the coordinator may still apply it afterwards.            *)
(*                                                                         *)
(* A machine waits for one request at a time here, and does nothing else   *)
(* meanwhile.  The code has no lock to that end: a `client sync` beside    *)
(* `client run` sends a second one, and each saves the config as it loaded *)
(* it.  What comes of that is the subject of ClientNode.                   *)
(*                                                                         *)
(* The switches FreshStamps, ClockSteps and Lossy tell apart the           *)
(* conditions under which the exchange keeps its promises.                 *)
(***************************************************************************)
EXTENDS Coordinator

CONSTANTS
  FreshStamps,      \* an advertised change is stamped later than any recorded sync
  ClockSteps,       \* the wall clock may be set back
  Lossy,            \* a request or its answer may get lost or be given up
  JoinHost,         \* the public hosts machines join with
  Wanted,           \* the addresses operators and owners ask for, none aside
  MaxOps,           \* bound: commands, edits, re-joins and clocks set back, after
                    \*   the first adds and joins
  MaxStray          \* bound: given-up requests the coordinator still holds

ASSUME MeshAssumption ==
  /\ {FreshStamps, ClockSteps, Lossy} \subseteq BOOLEAN
  /\ JoinHost \subseteq Host \cup {NoHost}
  /\ Wanted \subseteq AddrRequest
  /\ {MaxOps, MaxStray} \subseteq Nat

VARIABLES
  node,   \* config.json of each machine that has joined
  keys,   \* how many keypairs each machine has generated
  call,   \* the request each machine waits on
  stray,  \* requests nobody waits on, still with the coordinator
  ops     \* how many of these changes were made

meshVars == <<clients, hub, issued, now, node, keys, call, stray, ops>>

(***************************************************************************)
(* Data.                                                                   *)
(***************************************************************************)
PeerRecord == [name: Name \cup {HubID}, key: Nat, endpoint: Endpoint, addr: Pool,
               routes: SUBSET Route]

IsPeers(f) == DOMAIN f \subseteq PeerID /\ \A p \in DOMAIN f : f[p] \in PeerRecord

NoPeers == [p \in {} |-> {}]

Request == [op: {"register", "heartbeat"}, client: ID, token: Token, who: Identity,
            want: Wanted \cup {NoAddr}, have: SUBSET PeerID]

Stray == [stage: {"sent", "authed"}, req: Request]

IsAnswer(a) ==
  /\ DOMAIN a = {"addr", "add", "remove"}
  /\ a.addr \in Pool
  /\ IsPeers(a.add)
  /\ a.remove \subseteq PeerID

MeshTypeOK ==
  /\ TypeOK
  /\ DOMAIN node \subseteq issued
  /\ \A c \in DOMAIN node :
       /\ DOMAIN node[c] = {"token", "who", "addr", "peers"}
       /\ node[c].token \in Token /\ node[c].who \in Identity /\ node[c].addr \in Pool
       /\ IsPeers(node[c].peers) /\ c \notin DOMAIN node[c].peers
  /\ keys \in [ID -> 0 .. MaxKey]
  /\ DOMAIN call \subseteq issued
  /\ \A c \in DOMAIN call :
       /\ call[c].req \in Request /\ call[c].req.client = c
       /\ call[c].req.op = "heartbeat" <=> c \in DOMAIN node
       /\ IF call[c].stage = "answered"
            THEN DOMAIN call[c] = {"stage", "req", "answer"} /\ IsAnswer(call[c].answer)
            ELSE call[c] \in Stray
  /\ stray \subseteq Stray
  /\ ops \in 0 .. MaxOps

Replace(f, c, v) == [d \in DOMAIN f \cup {c} |-> IF d = c THEN v ELSE f[d]]
Drop(f, c) == [d \in DOMAIN f \ {c} |-> f[d]]

\* Mutant: a cached record is not replaced by the one sent.
ApplyDeltaKeepsOld(peers, a) ==
  [p \in (DOMAIN peers \cup DOMAIN a.add) \ a.remove |->
     IF p \in DOMAIN peers THEN peers[p] ELSE a.add[p]]

\* Mutant: ids told to go stay.
ApplyDeltaKeepsGone(peers, a) ==
  [p \in DOMAIN peers \cup DOMAIN a.add |-> IF p \in DOMAIN a.add THEN a.add[p] ELSE peers[p]]

(***************************************************************************)
(* What a machine caches once it has folded an answer in (applyDelta):     *)
(* records sent replace or extend the cached ones, ids told to go are gone.*)
(***************************************************************************)
ApplyDelta(peers, a) ==
  [p \in (DOMAIN peers \cup DOMAIN a.add) \ a.remove |->
     IF p \in DOMAIN a.add THEN a.add[p] ELSE peers[p]]

CachedBefore(c) == IF c \in DOMAIN node THEN node[c].peers ELSE NoPeers

Answered(c) == c \in DOMAIN call /\ call[c].stage = "answered"

\* The peers machine c holds, an answer on its way included.
View(c) == IF Answered(c) THEN ApplyDelta(CachedBefore(c), call[c].answer) ELSE CachedBefore(c)

(***************************************************************************)
(* Initial state: an empty registry, no machine joined.                    *)
(***************************************************************************)
MeshInit ==
  /\ Init
  /\ node = [c \in {} |-> {}]
  /\ keys = [c \in ID |-> 0]
  /\ call = [c \in {} |-> {}]
  /\ stray = {}
  /\ ops = 0

machineVars == <<node, keys, call, stray>>

(***************************************************************************)
(* Operators of the coordinator.                                           *)
(***************************************************************************)

\* Under FreshStamps, a change of p's record is written in a second later than
\* anyone else's last sync: not in one they share, and not before the clock, once
\* set back, has passed it again.
Unshared(p) ==
  FreshStamps => \A d \in DOMAIN clients \ {p} : clients[d].seen < now

Budget == ops < MaxOps /\ ops' = ops + 1

\* No one is told of a client before it registers, so its first routes may as
\* well come from a later command.
Admit ==
  /\ \E n \in Name, want \in Wanted \cup {NoAddr} : AddClient(n, want, {})
  /\ UNCHANGED <<machineVars, ops>>

Edit ==
  /\ Budget
  /\ \/ \E n \in Name : RemoveClient(n)
     \/ \E old, new \in Name : RenameClient(old, new)
     \/ \E n \in Name : RegenToken(n)
     \/ \E n \in Name, b \in BOOLEAN : SetBlacklist(n, b)
     \/ \E m \in Name \cup HubName, rs \in SUBSET Route : AddRoutes(m, rs) \/ RemoveRoutes(m, rs)
     \/ \E a \in HubAddr, rs \in SUBSET Route : InitForce(a, rs)
  /\ \A c \in DOMAIN clients \cap DOMAIN clients' : clients'[c] # clients[c] => Unshared(c)
  /\ hub' # hub /\ hub'.key = hub.key => Unshared(HubID)
  /\ UNCHANGED machineVars

\* A second in which no one synced is not told apart from the one before it by
\* any comparison of timestamps, so the clock may skip it.
Pass ==
  /\ \E c \in DOMAIN clients : clients[c].seen = now
  /\ Tick
  /\ UNCHANGED <<machineVars, ops>>

\* The clock is set back, by hand or by a time server.
StepBack ==
  /\ ClockSteps /\ Budget
  /\ now' \in 1 .. now - 1
  /\ UNCHANGED <<clients, hub, issued, machineVars>>

(***************************************************************************)
(* Client machines.                                                        *)
(***************************************************************************)

\* `client join`: a new keypair, and a register with the token handed over.
StartJoin(c) ==
  /\ c \in DOMAIN clients /\ c \notin DOMAIN node \cup DOMAIN call
  /\ keys[c] < MaxKey
  /\ IF keys[c] = 0 THEN UNCHANGED ops ELSE Budget
  /\ keys' = [keys EXCEPT ![c] = @ + 1]
  /\ \E h \in JoinHost, p \in Port, a \in Wanted \cup {NoAddr} :
       call' = Replace(call, c,
         [stage |-> "sent",
          req |-> [op |-> "register", client |-> c, token |-> clients[c].token,
                   who |-> [key |-> keys[c] + 1, host |-> h, port |-> p],
                   want |-> a, have |-> {}]])
  /\ UNCHANGED <<coordVars, node, stray>>

\* A tick of the daemon, or `client sync`: a heartbeat that lists the cached ids.
StartBeat(c) ==
  /\ c \in DOMAIN node \ DOMAIN call
  /\ call' = Replace(call, c,
       [stage |-> "sent",
        req |-> [op |-> "heartbeat", client |-> c, token |-> node[c].token,
                 who |-> node[c].who, want |-> NoAddr, have |-> DOMAIN node[c].peers]])
  /\ UNCHANGED <<coordVars, node, keys, stray, ops>>

\* The answer is folded in and the config saved, or written for the first time.
Deliver(c) ==
  /\ Answered(c)
  /\ node' = Replace(node, c, [token |-> call[c].req.token, who |-> call[c].req.who,
                               addr |-> call[c].answer.addr, peers |-> View(c)])
  /\ call' = Drop(call, c)
  /\ UNCHANGED <<coordVars, keys, stray, ops>>

\* A timeout, a broken connection or the death of the process: the machine stops
\* waiting, the request may still be on its way, and the answer is lost.  The
\* retry over the public URL is a request sent anew.
Abandon(c) ==
  /\ Lossy /\ c \in DOMAIN call
  /\ call' = Drop(call, c)
  /\ \/ UNCHANGED stray
     \/ /\ ~Answered(c)
        /\ Cardinality(stray) < MaxStray
        /\ stray' = stray \cup {call[c]}
  /\ UNCHANGED <<coordVars, node, keys, ops>>

\* The owner edits the machine's host or port between two beats.
Roam(c) ==
  /\ Budget
  /\ c \in DOMAIN node \ DOMAIN call
  /\ \E h \in Host \cup {NoHost}, p \in Port :
       node' = [node EXCEPT ![c].who.host = h, ![c].who.port = p]
  /\ UNCHANGED <<coordVars, keys, call, stray>>

\* The owner enters a regenerated token, so that heartbeats go on.
EnterToken(c) ==
  /\ Budget
  /\ c \in DOMAIN node \cap DOMAIN clients /\ c \notin DOMAIN call
  /\ node' = [node EXCEPT ![c].token = clients[c].token]
  /\ UNCHANGED <<coordVars, keys, call, stray>>

\* The owner removes the config, to join again.
Leave(c) ==
  /\ c \in DOMAIN node \ DOMAIN call
  /\ node' = Drop(node, c)
  /\ UNCHANGED <<coordVars, keys, call, stray, ops>>

(***************************************************************************)
(* The coordinator's handlers.                                             *)
(***************************************************************************)

\* auth: the token is that of a client not blacklisted, in the snapshot read now.
Authentic(r) ==
  /\ r.client \in DOMAIN clients
  /\ clients[r.client].token = r.token
  /\ ~clients[r.client].banned

Accepts(r) ==
  IF r.op = "register" THEN RegisterAccepts(r.client, r.want) ELSE r.client \in DOMAIN clients

\* The write, under the lock; it checks neither token nor blacklist again.
Write(r) ==
  /\ \/ r.op = "register" /\ Register(r.client, r.who, r.want)
     \/ r.op = "heartbeat" /\ Heartbeat(r.client, r.who)
  /\ clients'[r.client].updated = now => Unshared(r.client)

\* Mutant: the answer to a register is built before the address is assigned.
AnswerBeforeAssigned(r) ==
  LET c == r.client
      full == r.op = "register"
  IN [addr |-> clients[c].addr,
      add |-> [p \in IF full THEN DOMAIN BuildPeers(c) ELSE AddIDs(c, r.have) |->
                 BuildPeers(c)[p]],
      remove |-> IF full THEN {} ELSE RemoveIDs(c, r.have)]

\* What it answers: the whole peer set to a register, a delta to a heartbeat.
Answer(r) ==
  LET c == r.client
      full == r.op = "register"
  IN [addr |-> IF full THEN RegisteredAddr(c, r.want) ELSE clients[c].addr,
      add |-> [p \in IF full THEN DOMAIN BuildPeers(c) ELSE AddIDs(c, r.have) |->
                 BuildPeers(c)[p]],
      remove |-> IF full THEN {} ELSE RemoveIDs(c, r.have)]

Authenticate(c) ==
  /\ c \in DOMAIN call /\ call[c].stage = "sent"
  /\ Authentic(call[c].req)
  /\ call' = [call EXCEPT ![c].stage = "authed"]
  /\ UNCHANGED <<coordVars, node, keys, stray, ops>>

Commit(c) ==
  /\ c \in DOMAIN call /\ call[c].stage = "authed"
  /\ Write(call[c].req)
  /\ call' = Replace(call, c, [stage |-> "answered", req |-> call[c].req,
                               answer |-> Answer(call[c].req)])
  /\ UNCHANGED <<node, keys, stray, ops>>

\* 401, 403, 404 or 409: the machine keeps what it has.
Refuse(c) ==
  /\ c \in DOMAIN call
  /\ \/ call[c].stage = "sent" /\ ~Authentic(call[c].req)
     \/ call[c].stage = "authed" /\ ~Accepts(call[c].req)
  /\ call' = Drop(call, c)
  /\ UNCHANGED <<coordVars, node, keys, stray, ops>>

\* A stray request goes through the same two steps; it may also go nowhere.
AuthenticateStray(s) ==
  /\ s.stage = "sent" /\ Authentic(s.req)
  /\ stray' = (stray \ {s}) \cup {[s EXCEPT !.stage = "authed"]}
  /\ UNCHANGED <<coordVars, node, keys, call, ops>>

CommitStray(s) ==
  /\ s.stage = "authed" /\ Write(s.req)
  /\ stray' = stray \ {s}
  /\ UNCHANGED <<node, keys, call, ops>>

LoseStray(s) ==
  /\ stray' = stray \ {s}
  /\ UNCHANGED <<coordVars, node, keys, call, ops>>

(***************************************************************************)
(* Specification.                                                          *)
(***************************************************************************)
Machine(c) ==
  \/ StartJoin(c) \/ StartBeat(c) \/ Deliver(c) \/ Abandon(c)
  \/ Roam(c) \/ EnterToken(c) \/ Leave(c)

Handle(c) == Authenticate(c) \/ Commit(c) \/ Refuse(c)

HandleStray(s) == AuthenticateStray(s) \/ CommitStray(s) \/ LoseStray(s)

MeshNext ==
  \/ Admit \/ Edit \/ Pass \/ StepBack
  \/ \E c \in ID : Machine(c) \/ Handle(c)
  \/ \E s \in stray : HandleStray(s)

MeshSpec == MeshInit /\ [][MeshNext]_meshVars

\* The daemon's ticker keeps beating; the network and the coordinator keep
\* answering, though any single request may fail.
MeshFairness ==
  \A c \in ID :
    /\ WF_meshVars(StartBeat(c)) /\ WF_meshVars(Refuse(c))
    /\ SF_meshVars(Authenticate(c)) /\ SF_meshVars(Commit(c)) /\ SF_meshVars(Deliver(c))

MeshLiveSpec == MeshSpec /\ MeshFairness

(***************************************************************************)
(* Properties.                                                             *)
(***************************************************************************)

\* A cached record that differs from what the coordinator now advertises is one
\* the client's next heartbeat will be sent again: its change is stamped later
\* than the client's last sync (the comparison in handleHeartbeat, LastSeenAt).
NextBeatRefreshes ==
  \A c \in DOMAIN node \cap DOMAIN clients : \A p \in DOMAIN View(c) \cap DOMAIN BuildPeers(c) :
    View(c)[p] # BuildPeers(c)[p] => Changed(p, c)

\* Requests, snapshots and deltas implement an exchange of whole peer sets at an
\* instant: an answer leaves its client with exactly the peers advertised to it
\* when the coordinator wrote it, content included, and nothing else changes them.
Exchange == INSTANCE PeerExchange WITH
  Client <- ID,
  advert <- [c \in DOMAIN clients |-> BuildPeers(c)],
  held <- [c \in DOMAIN node \cup {d \in DOMAIN call : Answered(d)} |-> View(c)]

ExchangeIsAtomic == Exchange!Spec

\* An answer leaves its client with exactly the ids advertised to it, whatever
\* requests and answers were lost before.
AnswersFixMembership ==
  [][\A c \in ID : Answered(c)' /\ ~Answered(c) =>
       DOMAIN View(c)' = DOMAIN BuildPeers(c)']_meshVars

\* No client caches two peers under one address, or a peer under its own: their
\* AllowedIPs would overlap and WireGuard route to only one of them.
CachedAddressesUnique ==
  \A c \in DOMAIN node :
    LET peers == node[c].peers IN
    \A p, q \in DOMAIN peers : /\ peers[p].addr # node[c].addr
                               /\ peers[p].addr = peers[q].addr => p = q

\* Whatever others are told of a client is stamped when it changes, or they would not be
\* told again: config.Client.UpdatedAt is "bumped when key/endpoint/address/routes
\* change".  The code breaks it for the key that a heartbeat reports.
AdvertChangesAreStamped ==
  [][\A c \in DOMAIN clients \cap DOMAIN clients' :
       clients[c].key # NoKey /\ Advert(c)' # Advert(c) => clients'[c].updated = now]_meshVars

\* The coordinator advertises the key and the address its clients really use.
IdentityAgrees ==
  \A c \in DOMAIN node \cap DOMAIN clients :
    clients[c].key = node[c].who.key /\ clients[c].addr = node[c].addr

Member(c) ==
  /\ c \in DOMAIN node \cap DOMAIN clients
  /\ node[c].token = clients[c].token
  /\ ~clients[c].banned

\* Once operators and owners leave it alone, every member comes to cache exactly
\* the peers advertised to it, though requests and answers get lost.
MembershipConverges ==
  <>[](\A c \in ID : Member(c) => DOMAIN node[c].peers = DOMAIN BuildPeers(c))

\* And every member comes to agree with the coordinator on its key and address,
\* though a register it gave up on may be applied late.
IdentityConverges ==
  <>[](\A c \in ID : Member(c) => /\ clients[c].key = node[c].who.key
                                  /\ clients[c].addr = node[c].addr)

=============================================================================
