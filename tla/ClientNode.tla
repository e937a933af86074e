------------------------------ MODULE ClientNode ------------------------------
(***************************************************************************)
(* One client machine (internal/client, cmd/wgcoord/client_cmd.go): its    *)
(* config.json, the WireGuard interface programmed from it, and the        *)
(* processes that share both without any lock: the daemon of `client run`  *)
(* and one-shot commands.  Every process loads the file, works on its copy *)
(* in memory and saves the whole copy back; a beat waits for the network   *)
(* in between.  The owner may remove the file and join again, with a new   *)
(* keypair, while the daemon is in the middle of a beat.                   *)
(*                                                                         *)
(* The coordinator is reduced to the key and address it has on record for  *)
(* this machine, what it advertises to it, and which of that changed since *)
(* the machine's last request was written.  Deltas, lost answers and       *)
(* timestamps are the subject of MeshSync.                                 *)
(*                                                                         *)
(* `wg syncconf` makes the key and the peers of the interface exactly those*)
(* it is given; `ip address replace` adds an address and takes none away.  *)
(* The endpoint of a peer is the one it was last given.                    *)
(***************************************************************************)
EXTENDS Naturals, FiniteSets

CONSTANTS
  Hub,          \* the hub's peer id, which is its name as well
  HubEndpoint,  \* the endpoint the hub advertises
  Peer,         \* ids of the other clients
  Name,         \* names of peers
  Host,         \* hosts that peers advertise
  LocalHost,    \* hosts an owner pins peers to
  NoHost,       \* the empty host
  Port,         \* ports that are advertised or pinned
  Pin,          \* the overrides the owner sets
  PinKey,       \* the ids and names the owner sets them for
  DefaultPort,  \* config.DefaultClientWGPort
  JoinPins,     \* the overrides a join may come with
  Addr,         \* addresses the coordinator may give this machine
  Daemon,       \* the process of `client run`
  Command,      \* processes of one-shot commands
  MeshOffered,  \* the hub offers its control plane inside the mesh
  MaxKey,       \* bound: keypairs the machine generates
  MaxEdits,     \* bound: changes to what is advertised
  MaxCommands   \* bound: one-shot commands

(***************************************************************************)
(* Data.                                                                   *)
(***************************************************************************)
Process == {Daemon} \cup Command
PeerID == {Hub} \cup Peer

Endpoint == [host: Host, port: Port]
NoEndpoint == [host |-> NoHost, port |-> 0]

\* The hub's name is its id.
Record == [name: Name \cup {Hub}, endpoint: Endpoint \cup {NoEndpoint}]

\* A host alone has port 0; `-`, which drops the endpoint, is NoEndpoint.
Override == [host: LocalHost, port: Port \cup {0}] \cup {NoEndpoint}
OverrideKey == PeerID \cup Name

NoKey == 0
Key == 1 .. MaxKey
NoAddr == 0

\* The functions from some of S to T.
Partial(S, T) == UNION {[D -> T] : D \in SUBSET S}

ASSUME ClientAssumption ==
  /\ Hub \notin Peer \cup Name
  /\ HubEndpoint \in Endpoint \cup {NoEndpoint}
  /\ NoHost \notin Host \cup LocalHost
  /\ Port \subseteq Nat \ {0} /\ DefaultPort \in Nat \ {0}
  /\ Pin \subseteq Override /\ PinKey \subseteq OverrideKey
  /\ JoinPins \subseteq Partial(PinKey, Pin)
  /\ Daemon \notin Command
  /\ MeshOffered \in BOOLEAN
  /\ Addr \subseteq Nat \ {NoAddr} /\ Addr # {}
  /\ MaxKey \in Nat \ {0}
  /\ {MaxEdits, MaxCommands} \subseteq Nat

VARIABLES
  world,    \* what the coordinator advertises: peer id -> record
  fresh,    \* the peers stamped after this machine's last request
  me,       \* the key and address the coordinator has for this machine
  cfg,      \* config.json: key, address, cached peers and endpoint overrides
  wg,       \* the live interface
  pc,       \* where each process is
  work,     \* the copy of the config each process holds, with what it awaits
  cooling,  \* the daemon avoids the mesh path
  meant,    \* the key and overrides as the commands that succeeded left them
  raced,    \* two processes, or one and the owner, had the config in hand at once
  missed,   \* cached peers whose last change went out in an answer that was lost
  keys,     \* how many keypairs were generated
  edits,    \* how often the advertised peers changed
  commands  \* how many commands were run

nodeVars == <<world, fresh, me, cfg, wg, pc, work, cooling, meant, raced, missed, keys, edits,
              commands>>

Nothing == [i \in {} |-> {}]
NoConfig == [key |-> NoKey, addr |-> NoAddr, peers |-> Nothing, overrides |-> Nothing]
NoWork == [cfg |-> NoConfig]
NoLink == [link |-> "none", key |-> NoKey, addrs |-> {}, peers |-> Nothing]

\* What the interface may be told to dial.
Dialled == [host: Host \cup LocalHost, port: Port \cup {DefaultPort}] \cup {NoEndpoint}

Config ==
  [key: Key, addr: Addr \cup {NoAddr}, peers: Partial(PeerID, Record),
   overrides: Partial(PinKey, Pin)] \cup {NoConfig}

\* The part of the config that is the owner's to change.
Owned(c) == [key |-> c.key, overrides |-> c.overrides]

Joined == cfg # NoConfig

\* Where a process has a config in hand that it will save.
Copying == {"mesh", "public", "answered", "change", "register", "registered"}

ClientTypeOK ==
  /\ world \in Partial(PeerID, Record) /\ Hub \in DOMAIN world
  /\ fresh \subseteq PeerID
  /\ me \in [key: Key, addr: Addr]
  /\ cfg \in Config /\ (Joined => cfg.addr \in Addr)
  /\ wg \in [link: {"none", "down", "up"}, key: Key \cup {NoKey}, addrs: SUBSET Addr,
             peers: Partial(PeerID, Dialled)]
  /\ wg.link = "none" => wg = NoLink
  /\ pc \in [Process -> Copying \cup {"idle", "apply", "address"}]
  /\ DOMAIN work = Process /\ \A p \in Process : work[p].cfg \in Config
  /\ {cooling, raced} \subseteq BOOLEAN
  /\ missed \subseteq PeerID
  /\ meant \in [key: Key \cup {NoKey}, overrides: Partial(PinKey, Pin)]
  /\ keys \in Key /\ edits \in 0 .. MaxEdits /\ commands \in 0 .. MaxCommands

\* Mutant: an override found by the peer's name comes before one by its id.
EndpointOverrideForNameFirst(overrides, p, r) ==
  IF r.name \in DOMAIN overrides THEN {overrides[r.name]}
  ELSE IF p \in DOMAIN overrides THEN {overrides[p]} ELSE {}

(***************************************************************************)
(* The endpoint to program for a peer.                                     *)
(***************************************************************************)

\* The override for peer p, matched on its id first and then its name, if any.
EndpointOverrideFor(overrides, p, r) ==
  IF p \in DOMAIN overrides THEN {overrides[p]}
  ELSE IF r.name \in DOMAIN overrides THEN {overrides[r.name]} ELSE {}

\* Mutant: a peer that advertises no endpoint has port 0.
AdvertisedPortUnchecked(e) == e.port

AdvertisedPort(e) == IF e = NoEndpoint THEN DefaultPort ELSE e.port

\* A pinned host alone keeps the port that is advertised.
ResolveEndpoint(overrides, p, r) ==
  IF EndpointOverrideFor(overrides, p, r) = {} THEN r.endpoint
  ELSE LET ov == CHOOSE o \in EndpointOverrideFor(overrides, p, r) : TRUE IN
       IF ov = NoEndpoint \/ ov.port # 0 THEN ov
       ELSE [ov EXCEPT !.port = AdvertisedPort(r.endpoint)]

\* What Apply asks of the interface.
Desired(c) == [p \in DOMAIN c.peers |-> ResolveEndpoint(c.overrides, p, c.peers[p])]

Put(f, k, v) == [i \in DOMAIN f \cup {k} |-> IF i = k THEN v ELSE f[i]]
Remove(f, k) == [i \in DOMAIN f \ {k} |-> f[i]]

ApplyDelta(peers, d) ==
  [p \in (DOMAIN peers \cup DOMAIN d.add) \ d.remove |->
     IF p \in DOMAIN d.add THEN d.add[p] ELSE peers[p]]

\* What a heartbeat that reports `have` is answered.
Delta(have) ==
  [addr |-> me.addr,
   add |-> [p \in {q \in DOMAIN world : q \notin have \/ q \in fresh} |-> world[p]],
   remove |-> have \ (DOMAIN world \cup {Hub})]

(***************************************************************************)
(* Initial state: `client join` has just saved what it was answered, with  *)
(* the overrides given by --peer-endpoint, and not applied it yet.         *)
(***************************************************************************)
NodeInit ==
  /\ world \in {w \in Partial(PeerID, Record) :
                  /\ Hub \in DOMAIN w /\ w[Hub] = [name |-> Hub, endpoint |-> HubEndpoint]
                  /\ \A p \in DOMAIN w : w[p].name = Hub <=> p = Hub
                  /\ \A p, q \in DOMAIN w : w[p].name = w[q].name => p = q}
  /\ \E o \in JoinPins, a \in Addr :
       cfg = [key |-> 1, addr |-> a, peers |-> world, overrides |-> o]
  /\ me = [key |-> 1, addr |-> cfg.addr]
  /\ meant = Owned(cfg)
  /\ fresh = {}
  /\ wg = NoLink
  /\ pc = [p \in Process |-> "idle"]
  /\ work = [p \in Process |-> NoWork]
  /\ cooling = FALSE /\ raced = FALSE /\ missed = {}
  /\ keys = 1 /\ edits = 0 /\ commands = 0

(***************************************************************************)
(* The coordinator's side: a client is added, removed, banned or changed.  *)
(* The hub's own endpoint stays as it is.                                  *)
(***************************************************************************)
EditWorld ==
  /\ edits < MaxEdits /\ edits' = edits + 1
  /\ \E p \in Peer :
       /\ \/ p \in DOMAIN world /\ world' = Remove(world, p) /\ fresh' = fresh \ {p}
          \/ \E r \in Record :
               /\ \A q \in DOMAIN world \ {p} : world[q].name # r.name
               /\ world' = Put(world, p, r) /\ fresh' = fresh \cup {p}
       /\ missed' = missed \ {p}
  /\ UNCHANGED <<me, cfg, wg, pc, work, cooling, meant, raced, keys, commands>>

(***************************************************************************)
(* Steps of a process.                                                     *)
(***************************************************************************)
Goto(p, from, to) == pc[p] = from /\ pc' = [pc EXCEPT ![p] = to]

Holds(p, w) == work' = [work EXCEPT ![p] = w]

\* A command is run; the daemon's beats are not counted.
Begin(p) == IF p = Daemon THEN UNCHANGED commands
            ELSE commands < MaxCommands /\ commands' = commands + 1

\* A copy is taken to be saved back later.
TakesCopy == raced' = (raced \/ \E q \in Process : pc[q] \in Copying)

\* internalBase: the mesh is tried first when offered, when the hub is a peer and
\* unless this process has lately failed on it.
MeshFirst(p) == MeshOffered /\ Hub \in DOMAIN cfg.peers /\ ~(p = Daemon /\ cooling)

\* Sync: the config is loaded and a heartbeat sent.
StartSync(p) ==
  /\ Joined /\ Begin(p) /\ TakesCopy
  /\ Goto(p, "idle", IF MeshFirst(p) THEN "mesh" ELSE "public")
  /\ Holds(p, [cfg |-> cfg])
  /\ UNCHANGED <<world, fresh, me, cfg, wg, cooling, meant, missed, keys, edits>>

\* The tunnel carries a request while it is up under the key the hub knows.
Sent(p) ==
  \/ pc[p] \in {"public", "register"}
  \/ pc[p] = "mesh" /\ wg.link = "up" /\ wg.key = me.key

\* Mutant: a heartbeat does not report the key again.
WrittenWithoutKey(p) == fresh' = {} /\ UNCHANGED me

\* A heartbeat is written: the key it reports is on record again.
Written(p) == fresh' = {} /\ me' = [me EXCEPT !.key = work[p].cfg.key]

\* The heartbeat is written and its answer lost, with the records it would have
\* sent again.
WrittenInVain(p) == Written(p) /\ missed' = missed \cup (fresh \cap DOMAIN work[p].cfg.peers)

\* The heartbeat is written and its answer arrives.
Answered(p) ==
  /\ Sent(p) /\ pc[p] # "register"
  /\ pc' = [pc EXCEPT ![p] = "answered"]
  /\ Holds(p, [cfg |-> work[p].cfg, delta |-> Delta(DOMAIN work[p].cfg.peers)])
  /\ Written(p)
  /\ UNCHANGED <<world, cfg, wg, cooling, meant, raced, missed, keys, edits, commands>>

\* 4xx, or an answer that cannot be decoded (its heartbeat was written), over
\* either path: definitive, not tried again.
Refused(p) ==
  /\ Sent(p) /\ pc[p] # "register"
  /\ pc' = [pc EXCEPT ![p] = "idle"]
  /\ Holds(p, NoWork)
  /\ UNCHANGED <<fresh, me, missed>> \/ WrittenInVain(p)
  /\ UNCHANGED <<world, cfg, wg, cooling, meant, raced, keys, edits, commands>>

\* Mutant: a transport error over the mesh ends the beat.
TransportErrorNoFallback(p) ==
  /\ pc[p] \in {"mesh", "public"}
  /\ UNCHANGED <<fresh, me, missed>> \/ (Sent(p) /\ WrittenInVain(p))
  /\ pc' = [pc EXCEPT ![p] = "idle"] /\ Holds(p, NoWork)
  /\ UNCHANGED <<world, cfg, wg, cooling, meant, raced, keys, edits, commands>>

\* No answer arrives, though the heartbeat may have been written.  The mesh is
\* then left alone for a while, and the public URL tried at once.
TransportError(p) ==
  /\ pc[p] \in {"mesh", "public"}
  /\ UNCHANGED <<fresh, me, missed>> \/ (Sent(p) /\ WrittenInVain(p))
  /\ \/ /\ Goto(p, "mesh", "public")
        /\ cooling' = (cooling \/ p = Daemon)
        /\ UNCHANGED work
     \/ /\ Goto(p, "public", "idle")
        /\ Holds(p, NoWork)
        /\ UNCHANGED cooling
  /\ UNCHANGED <<world, cfg, wg, meant, raced, keys, edits, commands>>

Folded(p) == [work[p].cfg EXCEPT !.peers = ApplyDelta(@, work[p].delta), !.addr = work[p].delta.addr]

\* Mutant: the endpoints given at the join are not carried over.
SaveSyncForgets(p) ==
  /\ Goto(p, "answered", "apply")
  /\ cfg' = [Folded(p) EXCEPT !.overrides = Nothing]
  /\ Holds(p, [cfg |-> cfg'])
  /\ missed' = missed \ DOMAIN work[p].delta.add
  /\ UNCHANGED <<world, fresh, me, wg, cooling, meant, raced, keys, edits, commands>>

\* The delta and the address are folded into the copy and the copy saved.
SaveSync(p) ==
  /\ Goto(p, "answered", "apply")
  /\ cfg' = Folded(p)
  /\ Holds(p, [cfg |-> cfg'])
  /\ missed' = missed \ DOMAIN work[p].delta.add
  /\ UNCHANGED <<world, fresh, me, wg, cooling, meant, raced, keys, edits, commands>>

\* `client endpoint set` and `clear` change their copy of the overrides.
StartChange(p) ==
  /\ Joined /\ p \in Command /\ Begin(p) /\ TakesCopy
  /\ Goto(p, "idle", "change")
  /\ \/ \E k \in PinKey, v \in Pin :
          Holds(p, [cfg |-> [cfg EXCEPT !.overrides = Put(@, k, v)], pin |-> k])
     \/ \E k \in DOMAIN cfg.overrides :
          Holds(p, [cfg |-> [cfg EXCEPT !.overrides = Remove(@, k)], pin |-> k])
  /\ UNCHANGED <<world, fresh, me, cfg, wg, cooling, meant, missed, keys, edits>>

SaveChange(p) ==
  LET o == work[p].cfg.overrides
      k == work[p].pin
  IN
  /\ Goto(p, "change", "apply")
  /\ cfg' = work[p].cfg
  /\ meant' = [meant EXCEPT !.overrides = IF k \in DOMAIN o THEN Put(@, k, o[k]) ELSE Remove(@, k)]
  /\ Holds(p, [cfg |-> work[p].cfg])
  /\ UNCHANGED <<world, fresh, me, wg, cooling, raced, missed, keys, edits, commands>>

(***************************************************************************)
(* Joining again.                                                          *)
(***************************************************************************)

\* The owner removes config.json, as a refused `client join` says.
RemoveConfig ==
  /\ Joined /\ commands < MaxCommands /\ commands' = commands + 1
  /\ TakesCopy
  /\ cfg' = NoConfig /\ meant' = Owned(NoConfig)
  /\ UNCHANGED <<world, fresh, me, wg, pc, work, cooling, missed, keys, edits>>

\* `client join` finds no config, makes a keypair and registers it, over the public
\* URL, which is the only one it has.
StartJoin(p) ==
  /\ ~Joined /\ p \in Command /\ TakesCopy
  /\ keys < MaxKey /\ keys' = keys + 1
  /\ Goto(p, "idle", "register")
  /\ \E o \in JoinPins, a \in Addr \cup {NoAddr} :
       Holds(p, [cfg |-> [key |-> keys', addr |-> a, peers |-> Nothing, overrides |-> o]])
  /\ UNCHANGED <<world, fresh, me, cfg, wg, cooling, meant, missed, edits, commands>>

\* The register is written: the new key, and the address asked for, if any.
RegisterWritten(p) ==
  LET want == work[p].cfg.addr IN
  /\ fresh' = {}
  /\ me' = [key |-> work[p].cfg.key, addr |-> IF want = NoAddr THEN me.addr ELSE want]

Registered(p) ==
  /\ Goto(p, "register", "registered")
  /\ RegisterWritten(p)
  /\ Holds(p, [cfg |-> [work[p].cfg EXCEPT !.addr = me'.addr, !.peers = world]])
  /\ UNCHANGED <<world, cfg, wg, cooling, meant, raced, missed, keys, edits, commands>>

\* It is refused, or no answer arrives, though it may have been written.
JoinFails(p) ==
  /\ Goto(p, "register", "idle")
  /\ UNCHANGED <<fresh, me>> \/ RegisterWritten(p)
  /\ Holds(p, NoWork)
  /\ UNCHANGED <<world, cfg, wg, cooling, meant, raced, missed, keys, edits, commands>>

\* The config is written, over whatever another process has written meanwhile.
SaveJoin(p) ==
  /\ Goto(p, "registered", "apply")
  /\ cfg' = work[p].cfg /\ meant' = Owned(work[p].cfg) /\ missed' = {}
  /\ UNCHANGED <<world, fresh, me, wg, work, cooling, raced, keys, edits, commands>>

(***************************************************************************)
(* The interface.                                                          *)
(***************************************************************************)

\* `client up`.
StartUp(p) ==
  /\ Joined /\ p \in Command /\ Begin(p)
  /\ Goto(p, "idle", "apply")
  /\ Holds(p, [cfg |-> cfg])
  /\ UNCHANGED <<world, fresh, me, cfg, wg, cooling, meant, raced, missed, keys, edits>>

\* `client down`: the interface goes, the config stays.
TakeDown(p) ==
  /\ Joined /\ p \in Command /\ Begin(p) /\ pc[p] = "idle"
  /\ wg' = NoLink
  /\ UNCHANGED <<world, fresh, me, cfg, pc, work, cooling, meant, raced, missed, keys, edits>>

\* wgctl.Apply: the link is made if there is none, and `wg syncconf` makes its key
\* and peers those of the copy in hand.
ApplyPeers(p) ==
  /\ Goto(p, "apply", "address")
  /\ wg' = [wg EXCEPT !.link = IF @ = "none" THEN "down" ELSE @,
                      !.key = work[p].cfg.key, !.peers = Desired(work[p].cfg)]
  /\ UNCHANGED <<world, fresh, me, cfg, work, cooling, meant, raced, missed, keys, edits, commands>>

\* The address is assigned and the link brought up, if it is still there.
BringUp(p) ==
  /\ Goto(p, "address", "idle")
  /\ wg' = IF wg.link = "none" THEN wg
           ELSE [wg EXCEPT !.addrs = @ \cup {work[p].cfg.addr}, !.link = "up"]
  /\ Holds(p, NoWork)
  /\ UNCHANGED <<world, fresh, me, cfg, cooling, meant, raced, missed, keys, edits, commands>>

\* A save or one of the commands that program the interface fails; or the process
\* dies, and with it what it remembers of the mesh path.
Stop(p) ==
  /\ pc[p] # "idle"
  /\ pc' = [pc EXCEPT ![p] = "idle"]
  /\ Holds(p, NoWork)
  /\ cooling' \in {cooling} \cup (IF p = Daemon THEN {FALSE} ELSE {})
  \* The link may have been made, or the address assigned, and nothing more.
  /\ wg' \in {wg}
       \cup (IF pc[p] = "apply" /\ wg.link = "none" THEN {[wg EXCEPT !.link = "down"]} ELSE {})
       \cup (IF pc[p] = "address" /\ wg.link # "none"
               THEN {[wg EXCEPT !.addrs = @ \cup {work[p].cfg.addr}]} ELSE {})
  /\ missed' = IF pc[p] = "answered"
                 THEN missed \cup (DOMAIN work[p].delta.add \cap DOMAIN work[p].cfg.peers)
                 ELSE missed
  /\ UNCHANGED <<world, fresh, me, cfg, meant, raced, keys, edits, commands>>

\* Five minutes after the failed attempt.
CoolDownEnds ==
  /\ cooling /\ cooling' = FALSE
  /\ UNCHANGED <<world, fresh, me, cfg, wg, pc, work, meant, raced, missed, keys, edits, commands>>

(***************************************************************************)
(* Specification.                                                          *)
(***************************************************************************)
Beat(p) == StartSync(p) \/ Answered(p) \/ Refused(p) \/ TransportError(p) \/ SaveSync(p)

Apply(p) == ApplyPeers(p) \/ BringUp(p)

Join(p) == StartJoin(p) \/ Registered(p) \/ JoinFails(p) \/ SaveJoin(p)

ChangeOverride(p) == StartChange(p) \/ SaveChange(p)

UpOrDown(p) == StartUp(p) \/ TakeDown(p)

NodeNext ==
  \/ EditWorld \/ CoolDownEnds \/ RemoveConfig
  \/ \E p \in Process :
       \/ Beat(p) \/ Apply(p) \/ Join(p)
       \/ ChangeOverride(p) \/ UpOrDown(p) \/ Stop(p)

NodeSpec == NodeInit /\ [][NodeNext]_nodeVars

\* The daemon keeps beating, its requests end (they time out), and what may fail
\* does not fail every time.
NodeFairness ==
  /\ WF_nodeVars(StartSync(Daemon)) /\ SF_nodeVars(Answered(Daemon))
  /\ SF_nodeVars(Refused(Daemon) \/ TransportError(Daemon) \/ Answered(Daemon))
  /\ SF_nodeVars(SaveSync(Daemon)) /\ SF_nodeVars(ApplyPeers(Daemon)) /\ SF_nodeVars(BringUp(Daemon))

NodeLiveSpec == NodeSpec /\ NodeFairness

(***************************************************************************)
(* Properties.                                                             *)
(***************************************************************************)

\* An override that was set stays until a command changes it, whatever heartbeats
\* and deltas do: "The override is local to this machine and survives heartbeats"
\* (cmd/wgcoord/client_cmd.go).
OverridesSurvive ==
  \A k \in DOMAIN meant.overrides :
    k \in DOMAIN cfg.overrides /\ cfg.overrides[k] = meant.overrides[k]

\* What the owner did to the config stands, unless two processes had it in hand at
\* once: heartbeats, failures and deaths leave every override as it was set, the
\* key as the last join made it, and a removed config removed.
OwnerChangesKept == raced \/ Owned(cfg) = meant

\* Once advertised peers and owner leave it alone, the daemon of a machine that has
\* joined comes to program exactly the peers that are advertised, on a link that is up,
\* though beats, the mesh path, saves and applies fail and commands overwrote the config;
\* and each of them as it is advertised, pinned or not.  Two things leave the record of a
\* peer stale for good, until the peer changes again: its last change went out in an
\* answer that was lost (`missed`), or an overlapping process saved an older copy of the
\* config over it (`raced`).
PeersConverge ==
  <>[](Joined =>
         /\ wg.link = "up" /\ DOMAIN wg.peers = DOMAIN world
         /\ \A p \in DOMAIN world \ missed :
              raced \/ wg.peers[p] = ResolveEndpoint(cfg.overrides, p, world[p]))

\* And the coordinator, the config and the interface come to agree on the machine's
\* key and address, though a beat of the old config is written after a re-join, or
\* saved over the new config, and though the interface is under another key than
\* the hub expects, which cuts the mesh path.
IdentitySettles ==
  <>[](Joined => /\ cfg.key = me.key /\ cfg.addr = me.addr
                 /\ wg.key = cfg.key /\ cfg.addr \in wg.addrs)

\* A peer pinned by id comes to be dialled at the pinned host, on the pinned port
\* or else the one cached for it, whatever override its name has.
PinsHold ==
  <>[](\A p \in DOMAIN wg.peers \cap DOMAIN cfg.peers \cap DOMAIN cfg.overrides :
         LET ov == cfg.overrides[p] IN
         /\ wg.peers[p].host = ov.host
         /\ wg.peers[p].port = IF ov.port # 0 \/ ov = NoEndpoint THEN ov.port
                               ELSE IF cfg.peers[p].endpoint = NoEndpoint THEN DefaultPort
                               ELSE cfg.peers[p].endpoint.port)

===============================================================================
