--------------------------- MODULE ClientNodeProofs ---------------------------
(***************************************************************************)
(* Proofs about one client machine, for every number of commands, peers,   *)
(* overrides, addresses and keypairs: its type, and that what the owner    *)
(* did to the config stands unless two processes had it in hand at once.   *)
(***************************************************************************)
EXTENDS ClientNode, TLAPS

(***************************************************************************)
(* Partial functions: caches, overrides, deltas.                           *)
(***************************************************************************)
LEMMA PartialDef ==
  ASSUME NEW S, NEW T, NEW f
  PROVE  f \in Partial(S, T) <=> DOMAIN f \subseteq S /\ f \in [DOMAIN f -> T]
BY DEF Partial

LEMMA NothingPartial == ASSUME NEW S, NEW T PROVE Nothing \in Partial(S, T)
BY PartialDef DEF Nothing

LEMMA PutPartial ==
  ASSUME NEW S, NEW T, NEW f \in Partial(S, T), NEW k \in S, NEW v \in T
  PROVE  Put(f, k, v) \in Partial(S, T)
<1>1. DOMAIN f \subseteq S /\ f \in [DOMAIN f -> T]
  BY PartialDef
<1>2. DOMAIN Put(f, k, v) \subseteq S /\ Put(f, k, v) \in [DOMAIN Put(f, k, v) -> T]
  BY <1>1 DEF Put
<1> QED BY <1>2, PartialDef

LEMMA RemovePartial ==
  ASSUME NEW S, NEW T, NEW f \in Partial(S, T), NEW k
  PROVE  Remove(f, k) \in Partial(S, T)
<1>1. DOMAIN f \subseteq S /\ f \in [DOMAIN f -> T]
  BY PartialDef
<1>2. DOMAIN Remove(f, k) \subseteq S /\ Remove(f, k) \in [DOMAIN Remove(f, k) -> T]
  BY <1>1 DEF Remove
<1> QED BY <1>2, PartialDef

DeltaType == [addr: Addr, add: Partial(PeerID, Record), remove: SUBSET PeerID]

\* Folding a delta in makes peers out of peers.
LEMMA ApplyDeltaPartial ==
  ASSUME NEW f \in Partial(PeerID, Record), NEW d \in DeltaType
  PROVE  ApplyDelta(f, d) \in Partial(PeerID, Record)
<1>1. DOMAIN f \subseteq PeerID /\ f \in [DOMAIN f -> Record]
  BY PartialDef
<1>2. d.add \in Partial(PeerID, Record)
  BY DEF DeltaType
<1>3. DOMAIN d.add \subseteq PeerID /\ d.add \in [DOMAIN d.add -> Record]
  BY <1>2, PartialDef
<1>4. /\ DOMAIN ApplyDelta(f, d) \subseteq PeerID
      /\ ApplyDelta(f, d) \in [DOMAIN ApplyDelta(f, d) -> Record]
  BY <1>1, <1>3 DEF ApplyDelta
<1> QED BY <1>4, PartialDef

(***************************************************************************)
(* What the interface is told to dial.                                     *)
(***************************************************************************)
Real == [key: Key, addr: Addr \cup {NoAddr}, peers: Partial(PeerID, Record),
         overrides: Partial(PinKey, Pin)]

LEMMA ResolvedIsDialled ==
  ASSUME NEW o \in Partial(PinKey, Pin), NEW p, NEW r \in Record
  PROVE  ResolveEndpoint(o, p, r) \in Dialled
<1>1. r.endpoint \in Endpoint \cup {NoEndpoint}
  BY DEF Record
<1>2. CASE EndpointOverrideFor(o, p, r) = {}
  BY <1>1, <1>2 DEF ResolveEndpoint, Dialled, Endpoint
<1>3. CASE EndpointOverrideFor(o, p, r) # {}
  <2> DEFINE ov == CHOOSE x \in EndpointOverrideFor(o, p, r) : TRUE
  <2>1. ov \in EndpointOverrideFor(o, p, r)
    BY <1>3
  <2>2. EndpointOverrideFor(o, p, r) \subseteq Pin
    BY PartialDef DEF EndpointOverrideFor
  <2>3. ov \in Override
    BY <2>1, <2>2, ClientAssumption DEF ClientAssumption
  <2>4. AdvertisedPort(r.endpoint) \in Port \cup {DefaultPort}
    BY <1>1 DEF AdvertisedPort, Endpoint
  <2>5. ResolveEndpoint(o, p, r)
          = IF ov = NoEndpoint \/ ov.port # 0 THEN ov
            ELSE [ov EXCEPT !.port = AdvertisedPort(r.endpoint)]
    BY <1>3 DEF ResolveEndpoint
  <2> HIDE DEF ov
  <2> QED BY <2>3, <2>4, <2>5 DEF Override, Dialled
<1> QED BY <1>2, <1>3

LEMMA DesiredPartial ==
  ASSUME NEW c \in Real PROVE Desired(c) \in Partial(PeerID, Dialled)
<1>1. c.peers \in Partial(PeerID, Record) /\ c.overrides \in Partial(PinKey, Pin)
  BY DEF Real
<1>2. DOMAIN c.peers \subseteq PeerID /\ c.peers \in [DOMAIN c.peers -> Record]
  BY <1>1, PartialDef
<1>3. \A p \in DOMAIN c.peers : ResolveEndpoint(c.overrides, p, c.peers[p]) \in Dialled
  BY <1>1, <1>2, ResolvedIsDialled
<1>4. DOMAIN Desired(c) \subseteq PeerID /\ Desired(c) \in [DOMAIN Desired(c) -> Dialled]
  BY <1>2, <1>3 DEF Desired
<1> QED BY <1>4, PartialDef

(***************************************************************************)
(* Types.  What a process has in hand is fit for where it is: a config it  *)
(* will save has a key and, unless it waits for its first address, one.    *)
(***************************************************************************)
Fits(at, w) ==
  /\ at \in Copying \cup {"idle", "apply", "address"}
  /\ w.cfg \in Config
  /\ at # "idle" => w.cfg \in Real
  /\ at \notin {"idle", "register"} => w.cfg.addr \in Addr
  /\ at = "answered" => w.delta \in DeltaType
  /\ at = "change" => w.pin \in PinKey

AllFit ==
  /\ pc \in [Process -> Copying \cup {"idle", "apply", "address"}]
  /\ DOMAIN work = Process
  /\ \A p \in Process : Fits(pc[p], work[p])

TypeInv == ClientTypeOK /\ AllFit

\* A step of one process, to a place that what it then has in hand is fit for.
LEMMA OneStepFits ==
  ASSUME AllFit, NEW p \in Process, NEW at, NEW w, Fits(at, w),
         pc' = [pc EXCEPT ![p] = at], work' = [work EXCEPT ![p] = w]
  PROVE  AllFit'
BY DEF AllFit, Fits

LEMMA SameFits == ASSUME AllFit, UNCHANGED <<pc, work>> PROVE AllFit'
BY DEF AllFit

LEMMA AllFitTypes ==
  AllFit => /\ pc \in [Process -> Copying \cup {"idle", "apply", "address"}]
            /\ DOMAIN work = Process /\ \A p \in Process : work[p].cfg \in Config
BY DEF AllFit, Fits

LEMMA NoWorkFits == Fits("idle", NoWork)
BY DEF Fits, NoWork, Config

\* A config on disk is one that can be in hand.
LEMMA JoinedFits ==
  ASSUME ClientTypeOK, Joined PROVE cfg \in Real /\ cfg.addr \in Addr
BY DEF ClientTypeOK, Joined, Config, Real

LEMMA DeltaFits ==
  ASSUME ClientTypeOK, NEW have \in SUBSET PeerID PROVE Delta(have) \in DeltaType
<1>1. world \in Partial(PeerID, Record) /\ me.addr \in Addr
  BY DEF ClientTypeOK
<1> DEFINE add == [p \in {q \in DOMAIN world : q \notin have \/ q \in fresh} |-> world[p]]
<1>2. DOMAIN world \subseteq PeerID /\ world \in [DOMAIN world -> Record]
  BY <1>1, PartialDef
<1>3. DOMAIN add \subseteq PeerID /\ add \in [DOMAIN add -> Record]
  BY <1>2
<1>4. add \in Partial(PeerID, Record)
  BY <1>3, PartialDef
<1> HIDE DEF add
<1>5. Delta(have) = [addr |-> me.addr, add |-> add, remove |-> have \ (DOMAIN world \cup {Hub})]
  BY DEF Delta, add
<1> QED BY <1>1, <1>4, <1>5 DEF DeltaType

LEMMA NodeInitially == NodeInit => TypeInv
<1> SUFFICES ASSUME NodeInit PROVE TypeInv
  OBVIOUS
<1>1. PICK o \in JoinPins, a \in Addr :
        cfg = [key |-> 1, addr |-> a, peers |-> world, overrides |-> o]
  BY DEF NodeInit
<1>2. world \in Partial(PeerID, Record) /\ Hub \in DOMAIN world /\ 1 \in Key
      /\ o \in Partial(PinKey, Pin)
  BY ClientAssumption DEF ClientAssumption, NodeInit, Key
<1>3. cfg \in Config /\ cfg.addr \in Addr /\ me \in [key: Key, addr: Addr]
      /\ meant \in [key: Key \cup {NoKey}, overrides: Partial(PinKey, Pin)]
  BY <1>1, <1>2 DEF NodeInit, Config, Owned
<1>4. wg = NoLink /\ wg \in [link: {"none", "down", "up"}, key: Key \cup {NoKey},
                              addrs: SUBSET Addr, peers: Partial(PeerID, Dialled)]
  BY NothingPartial DEF NodeInit, NoLink
<1>5. AllFit
  BY NoWorkFits DEF NodeInit, AllFit
<1>6. /\ fresh = {} /\ cooling = FALSE /\ raced = FALSE /\ missed = {}
      /\ keys \in Key /\ edits \in 0 .. MaxEdits /\ commands \in 0 .. MaxCommands
  BY <1>2, ClientAssumption DEF NodeInit, ClientAssumption
<1> QED BY <1>2, <1>3, <1>4, <1>5, <1>6, AllFitTypes DEF TypeInv, ClientTypeOK

LEMMA GotoFits ==
  ASSUME AllFit, NEW p \in Process, NEW at, Fits(at, work[p]),
         pc' = [pc EXCEPT ![p] = at], UNCHANGED work
  PROVE  AllFit'
BY DEF AllFit, Fits

\* Where a process has a config in hand, it is one with a key.
LEMMA InHand ==
  ASSUME AllFit, NEW p \in Process, pc[p] # "idle"
  PROVE  /\ work[p].cfg \in Real /\ work[p].cfg.key \in Key
         /\ work[p].cfg.addr \in Addr \cup {NoAddr}
         /\ pc[p] # "register" => work[p].cfg.addr \in Addr
BY DEF AllFit, Fits, Real

LEMMA BeginType ==
  ASSUME ClientTypeOK, NEW p \in Process, Begin(p) PROVE commands' \in 0 .. MaxCommands
BY ClientAssumption DEF ClientAssumption, ClientTypeOK, Begin

LEMMA TakesCopyType == ASSUME TakesCopy PROVE raced' \in BOOLEAN
BY DEF TakesCopy

\* What a heartbeat or a register leaves on record.
LEMMA WrittenType ==
  ASSUME TypeInv, NEW p \in Process, pc[p] # "idle",
         Written(p) \/ RegisterWritten(p) \/ UNCHANGED <<fresh, me>>
  PROVE  fresh' \subseteq PeerID /\ me' \in [key: Key, addr: Addr]
<1>1. work[p].cfg.key \in Key /\ work[p].cfg.addr \in Addr \cup {NoAddr}
  BY InHand DEF TypeInv
<1>2. fresh \subseteq PeerID /\ me \in [key: Key, addr: Addr]
  BY DEF TypeInv, ClientTypeOK
<1> QED BY <1>1, <1>2 DEF Written, RegisterWritten

(***************************************************************************)
(* Each step keeps the types.                                              *)
(***************************************************************************)
LEMMA EditWorldType == TypeInv /\ EditWorld => TypeInv'
<1> SUFFICES ASSUME TypeInv, EditWorld PROVE TypeInv'
  OBVIOUS
<1>1. world \in Partial(PeerID, Record) /\ Hub \in DOMAIN world /\ fresh \subseteq PeerID
      /\ edits \in 0 .. MaxEdits
  BY DEF TypeInv, ClientTypeOK
<1>2. world' \in Partial(PeerID, Record) /\ Hub \in DOMAIN world' /\ fresh' \subseteq PeerID
  <2>1. CASE \E p \in Peer \cap DOMAIN world : world' = Remove(world, p) /\ fresh' = fresh \ {p}
    BY <1>1, <2>1, RemovePartial, ClientAssumption DEF ClientAssumption, Remove
  <2>2. CASE \E p \in Peer, r \in Record : world' = Put(world, p, r) /\ fresh' = fresh \cup {p}
    <3>1. PICK p \in Peer, r \in Record : world' = Put(world, p, r) /\ fresh' = fresh \cup {p}
      BY <2>2
    <3>2. p \in PeerID
      BY DEF PeerID
    <3> QED BY <1>1, <3>1, <3>2, PutPartial DEF Put
  <2> QED BY <2>1, <2>2 DEF EditWorld
<1>3. edits' \in 0 .. MaxEdits
  BY <1>1, ClientAssumption DEF ClientAssumption, EditWorld
<1>4. AllFit'
  BY SameFits DEF TypeInv, EditWorld
<1> QED BY <1>2, <1>3, <1>4, AllFitTypes DEF TypeInv, ClientTypeOK, EditWorld, Joined

LEMMA StartSyncType == ASSUME TypeInv, NEW p \in Process, StartSync(p) PROVE TypeInv'
<1>1. AllFit'
  BY JoinedFits, OneStepFits DEF TypeInv, StartSync, Goto, Holds, Fits, Copying, Config, Real
<1> QED BY <1>1, BeginType, TakesCopyType DEF TypeInv, ClientTypeOK, StartSync, Joined, AllFit, Fits

LEMMA AnsweredType == ASSUME TypeInv, NEW p \in Process, Answered(p) PROVE TypeInv'
<1>1. pc[p] # "idle" /\ pc[p] # "register"
  BY DEF Answered, Sent
<1>2. DOMAIN work[p].cfg.peers \in SUBSET PeerID
  BY <1>1, InHand, PartialDef DEF TypeInv, Real
<1>3. AllFit'
  BY <1>1, <1>2, InHand, DeltaFits, OneStepFits
     DEF TypeInv, Answered, Holds, Fits, Copying, Config, Real
<1>4. fresh' \subseteq PeerID /\ me' \in [key: Key, addr: Addr]
  BY <1>1, WrittenType DEF Answered
<1> QED BY <1>3, <1>4 DEF TypeInv, ClientTypeOK, Answered, Joined, AllFit, Fits

\* What is lost with an answer are peers of the machine's.
LEMMA InVainType ==
  ASSUME TypeInv, NEW p \in Process, pc[p] # "idle",
         WrittenInVain(p) \/ UNCHANGED <<fresh, me, missed>>
  PROVE  fresh' \subseteq PeerID /\ me' \in [key: Key, addr: Addr] /\ missed' \subseteq PeerID
<1>1. fresh' \subseteq PeerID /\ me' \in [key: Key, addr: Addr]
  BY WrittenType DEF WrittenInVain
<1>2. missed' \subseteq PeerID
  BY DEF WrittenInVain, TypeInv, ClientTypeOK
<1> QED BY <1>1, <1>2

LEMMA RefusedType == ASSUME TypeInv, NEW p \in Process, Refused(p) PROVE TypeInv'
<1>1. pc[p] # "idle"
  BY DEF Refused, Sent
<1>2. AllFit'
  BY NoWorkFits, OneStepFits DEF TypeInv, Refused, Holds
<1>3. fresh' \subseteq PeerID /\ me' \in [key: Key, addr: Addr] /\ missed' \subseteq PeerID
  BY <1>1, InVainType DEF Refused
<1> QED BY <1>2, <1>3 DEF TypeInv, ClientTypeOK, Refused, Joined, AllFit, Fits

LEMMA TransportErrorType == ASSUME TypeInv, NEW p \in Process, TransportError(p) PROVE TypeInv'
<1>1. pc[p] \in {"mesh", "public"}
  BY DEF TransportError
<1>2. AllFit'
  <2>1. CASE Goto(p, "mesh", "public") /\ UNCHANGED work
    <3>1. Fits("public", work[p])
      BY <2>1, InHand DEF TypeInv, AllFit, Goto, Fits, Copying
    <3> QED BY <2>1, <3>1, GotoFits DEF TypeInv, Goto
  <2>2. CASE Goto(p, "public", "idle") /\ Holds(p, NoWork)
    BY <2>2, NoWorkFits, OneStepFits DEF TypeInv, Goto, Holds
  <2> QED BY <2>1, <2>2 DEF TransportError
<1>3. fresh' \subseteq PeerID /\ me' \in [key: Key, addr: Addr] /\ missed' \subseteq PeerID
  BY <1>1, InVainType DEF TransportError
<1>4. cooling' \in BOOLEAN
  BY DEF TransportError, TypeInv, ClientTypeOK
<1> QED BY <1>2, <1>3, <1>4 DEF TypeInv, ClientTypeOK, TransportError, Joined, AllFit, Fits

LEMMA SaveSyncType == ASSUME TypeInv, NEW p \in Process, SaveSync(p) PROVE TypeInv'
<1>1. /\ pc[p] = "answered" /\ work[p].cfg \in Real /\ work[p].delta \in DeltaType
      /\ work[p].delta.addr \in Addr
  BY InHand DEF SaveSync, Goto, TypeInv, AllFit, Fits, DeltaType
<1>2. ApplyDelta(work[p].cfg.peers, work[p].delta) \in Partial(PeerID, Record)
  BY <1>1, ApplyDeltaPartial DEF Real
<1>3. Folded(p) \in Real /\ Folded(p).addr \in Addr
  BY <1>1, <1>2 DEF Folded, Real
<1>4. cfg' \in Config /\ cfg' \in Real /\ cfg'.addr \in Addr
  BY <1>3 DEF SaveSync, Config, Real
<1>5. AllFit'
  BY <1>4, OneStepFits DEF TypeInv, SaveSync, Goto, Holds, Fits, Copying
<1> QED BY <1>4, <1>5 DEF TypeInv, ClientTypeOK, SaveSync, AllFit, Fits

LEMMA StartChangeType == ASSUME TypeInv, NEW p \in Process, StartChange(p) PROVE TypeInv'
<1>1. cfg \in Real /\ cfg.addr \in Addr /\ cfg.overrides \in Partial(PinKey, Pin)
  BY JoinedFits DEF TypeInv, StartChange, Real
<1>2. PICK k \in PinKey, o \in Partial(PinKey, Pin) :
        Holds(p, [cfg |-> [cfg EXCEPT !.overrides = o], pin |-> k])
  <2>1. ASSUME NEW k \in PinKey, NEW v \in Pin PROVE Put(cfg.overrides, k, v) \in Partial(PinKey, Pin)
    BY <1>1, PutPartial
  <2>2. ASSUME NEW k \in DOMAIN cfg.overrides
        PROVE  k \in PinKey /\ Remove(cfg.overrides, k) \in Partial(PinKey, Pin)
    BY <1>1, RemovePartial, PartialDef
  <2>3. CASE \E k \in PinKey, v \in Pin :
               Holds(p, [cfg |-> [cfg EXCEPT !.overrides = Put(@, k, v)], pin |-> k])
    BY <2>1, <2>3
  <2>4. CASE \E k \in DOMAIN cfg.overrides :
               Holds(p, [cfg |-> [cfg EXCEPT !.overrides = Remove(@, k)], pin |-> k])
    BY <2>2, <2>4
  <2> QED BY <2>3, <2>4 DEF StartChange
<1>3. [cfg EXCEPT !.overrides = o] \in Real /\ [cfg EXCEPT !.overrides = o].addr \in Addr
  BY <1>1 DEF Real
<1>4. AllFit'
  BY <1>2, <1>3, OneStepFits DEF TypeInv, StartChange, Goto, Holds, Fits, Copying, Config, Real
<1> QED BY <1>4, BeginType, TakesCopyType DEF TypeInv, ClientTypeOK, StartChange, Joined, AllFit, Fits

LEMMA SaveChangeType == ASSUME TypeInv, NEW p \in Process, SaveChange(p) PROVE TypeInv'
<1>1. pc[p] = "change" /\ work[p].cfg \in Real /\ work[p].cfg.addr \in Addr /\ work[p].pin \in PinKey
  BY InHand DEF SaveChange, Goto, TypeInv, AllFit, Fits
<1>2. cfg' = work[p].cfg /\ cfg' \in Config
  BY <1>1 DEF SaveChange, Config, Real
<1>3. meant' \in [key: Key \cup {NoKey}, overrides: Partial(PinKey, Pin)]
  <2> DEFINE o == work[p].cfg.overrides
             k == work[p].pin
             n == IF k \in DOMAIN o THEN Put(meant.overrides, k, o[k]) ELSE Remove(meant.overrides, k)
  <2>1. meant \in [key: Key \cup {NoKey}, overrides: Partial(PinKey, Pin)]
    BY DEF TypeInv, ClientTypeOK
  <2>2. o \in Partial(PinKey, Pin)
    BY <1>1 DEF Real
  <2>3. k \in DOMAIN o => o[k] \in Pin
    BY <2>2, PartialDef
  <2>4. n \in Partial(PinKey, Pin)
    BY <1>1, <2>1, <2>3, PutPartial, RemovePartial
  <2>5. meant' = [meant EXCEPT !.overrides = n]
    BY DEF SaveChange
  <2> HIDE DEF n
  <2> QED BY <2>1, <2>4, <2>5
<1>4. AllFit'
  BY <1>1, <1>2, OneStepFits DEF TypeInv, SaveChange, Goto, Holds, Fits, Copying
<1> QED BY <1>1, <1>2, <1>3, <1>4 DEF TypeInv, ClientTypeOK, SaveChange, AllFit, Fits

LEMMA RemoveConfigType == TypeInv /\ RemoveConfig => TypeInv'
<1> SUFFICES ASSUME TypeInv, RemoveConfig PROVE TypeInv'
  OBVIOUS
<1>1. cfg' \in Config /\ ~Joined'
  BY DEF RemoveConfig, Config, Joined
<1>2. meant' \in [key: Key \cup {NoKey}, overrides: Partial(PinKey, Pin)]
  BY NothingPartial DEF RemoveConfig, Owned, NoConfig
<1>3. AllFit'
  BY SameFits DEF TypeInv, RemoveConfig
<1>4. commands' \in 0 .. MaxCommands
  BY ClientAssumption DEF ClientAssumption, TypeInv, ClientTypeOK, RemoveConfig
<1> QED BY <1>1, <1>2, <1>3, <1>4, TakesCopyType DEF TypeInv, ClientTypeOK, RemoveConfig, AllFit, Fits

LEMMA StartJoinType == ASSUME TypeInv, NEW p \in Process, StartJoin(p) PROVE TypeInv'
<1>1. keys' \in Key
  BY ClientAssumption DEF ClientAssumption, TypeInv, ClientTypeOK, StartJoin, Key
<1>2. PICK o \in JoinPins, a \in Addr \cup {NoAddr} :
        Holds(p, [cfg |-> [key |-> keys', addr |-> a, peers |-> Nothing, overrides |-> o]])
  BY DEF StartJoin
<1>3. [key |-> keys', addr |-> a, peers |-> Nothing, overrides |-> o] \in Real
  BY <1>1, NothingPartial, ClientAssumption DEF ClientAssumption, Real
<1>4. AllFit'
  BY <1>2, <1>3, OneStepFits DEF TypeInv, StartJoin, Goto, Holds, Fits, Copying, Config, Real
<1> QED BY <1>1, <1>4, TakesCopyType DEF TypeInv, ClientTypeOK, StartJoin, Joined, AllFit, Fits

LEMMA RegisteredType == ASSUME TypeInv, NEW p \in Process, Registered(p) PROVE TypeInv'
<1>1. pc[p] = "register" /\ work[p].cfg \in Real
  BY InHand DEF Registered, Goto, TypeInv
<1>2. fresh' \subseteq PeerID /\ me' \in [key: Key, addr: Addr]
  BY <1>1, WrittenType DEF Registered
<1>3. world \in Partial(PeerID, Record)
  BY DEF TypeInv, ClientTypeOK
<1> DEFINE c == [work[p].cfg EXCEPT !.addr = me'.addr, !.peers = world]
<1>4. c \in Real /\ c.addr \in Addr
  BY <1>1, <1>2, <1>3 DEF Real
<1> HIDE DEF c
<1>5. AllFit'
  BY <1>4, OneStepFits DEF TypeInv, Registered, Goto, Holds, Fits, Copying, Config, Real, c
<1> QED BY <1>2, <1>5 DEF TypeInv, ClientTypeOK, Registered, Joined, AllFit, Fits

LEMMA JoinFailsType == ASSUME TypeInv, NEW p \in Process, JoinFails(p) PROVE TypeInv'
<1>1. pc[p] # "idle"
  BY DEF JoinFails, Goto
<1>2. AllFit'
  BY NoWorkFits, OneStepFits DEF TypeInv, JoinFails, Goto, Holds
<1>3. fresh' \subseteq PeerID /\ me' \in [key: Key, addr: Addr]
  BY <1>1, WrittenType DEF JoinFails
<1> QED BY <1>2, <1>3 DEF TypeInv, ClientTypeOK, JoinFails, Joined, AllFit, Fits

LEMMA SaveJoinType == ASSUME TypeInv, NEW p \in Process, SaveJoin(p) PROVE TypeInv'
<1>1. pc[p] = "registered" /\ work[p].cfg \in Real /\ work[p].cfg.addr \in Addr
  BY InHand DEF SaveJoin, Goto, TypeInv
<1>2. cfg' \in Config /\ cfg'.addr \in Addr
      /\ meant' \in [key: Key \cup {NoKey}, overrides: Partial(PinKey, Pin)]
  BY <1>1 DEF SaveJoin, Config, Real, Owned
<1>3. Fits("apply", work[p])
  BY <1>1 DEF Fits, Copying, Config, Real
<1>4. AllFit'
  BY <1>3, GotoFits DEF TypeInv, SaveJoin, Goto
<1> QED BY <1>2, <1>4 DEF TypeInv, ClientTypeOK, SaveJoin, AllFit, Fits

LEMMA StartUpType == ASSUME TypeInv, NEW p \in Process, StartUp(p) PROVE TypeInv'
<1>1. AllFit'
  BY JoinedFits, OneStepFits DEF TypeInv, StartUp, Goto, Holds, Fits, Copying, Config, Real
<1> QED BY <1>1, BeginType DEF TypeInv, ClientTypeOK, StartUp, Joined, AllFit, Fits

LEMMA TakeDownType == ASSUME TypeInv, NEW p \in Process, TakeDown(p) PROVE TypeInv'
<1>1. AllFit'
  BY SameFits DEF TypeInv, TakeDown
<1> QED BY <1>1, BeginType, NothingPartial
        DEF TypeInv, ClientTypeOK, TakeDown, NoLink, Joined, AllFit, Fits

LEMMA ApplyPeersType == ASSUME TypeInv, NEW p \in Process, ApplyPeers(p) PROVE TypeInv'
<1>1. pc[p] = "apply" /\ work[p].cfg \in Real /\ work[p].cfg.addr \in Addr /\ work[p].cfg.key \in Key
  BY InHand DEF ApplyPeers, Goto, TypeInv
<1>2. Desired(work[p].cfg) \in Partial(PeerID, Dialled)
  BY <1>1, DesiredPartial
<1>3. Fits("address", work[p])
  BY <1>1 DEF Fits, Copying, Config, Real
<1>4. AllFit'
  BY <1>3, GotoFits DEF TypeInv, ApplyPeers, Goto
<1> QED BY <1>1, <1>2, <1>4 DEF TypeInv, ClientTypeOK, ApplyPeers, Joined, AllFit, Fits

LEMMA BringUpType == ASSUME TypeInv, NEW p \in Process, BringUp(p) PROVE TypeInv'
<1>1. work[p].cfg.addr \in Addr
  BY InHand DEF BringUp, Goto, TypeInv
<1>2. AllFit'
  BY NoWorkFits, OneStepFits DEF TypeInv, BringUp, Goto, Holds
<1> QED BY <1>1, <1>2 DEF TypeInv, ClientTypeOK, BringUp, Joined, AllFit, Fits

LEMMA StopType == ASSUME TypeInv, NEW p \in Process, Stop(p) PROVE TypeInv'
<1>1. pc[p] = "address" => work[p].cfg.addr \in Addr
  BY InHand DEF TypeInv
<1>2. AllFit'
  BY NoWorkFits, OneStepFits DEF TypeInv, Stop, Holds
<1>3. wg \in [link: {"none", "down", "up"}, key: Key \cup {NoKey}, addrs: SUBSET Addr,
              peers: Partial(PeerID, Dialled)]
  BY DEF TypeInv, ClientTypeOK
<1>4. \/ wg' = wg
      \/ wg.link = "none" /\ wg' = [wg EXCEPT !.link = "down"]
      \/ pc[p] = "address" /\ wg.link # "none"
           /\ wg' = [wg EXCEPT !.addrs = @ \cup {work[p].cfg.addr}]
  BY DEF Stop
<1>5. /\ wg' \in [link: {"none", "down", "up"}, key: Key \cup {NoKey}, addrs: SUBSET Addr,
                  peers: Partial(PeerID, Dialled)]
      /\ wg'.link = "none" => wg' = NoLink
  BY <1>1, <1>3, <1>4 DEF TypeInv, ClientTypeOK
<1>6. missed' \subseteq PeerID
  <2>1. missed \subseteq PeerID
    BY DEF TypeInv, ClientTypeOK
  <2>2. DOMAIN work[p].cfg.peers \subseteq PeerID
    BY InHand, PartialDef DEF Stop, TypeInv, Real
  <2> QED BY <2>1, <2>2 DEF Stop
<1> QED BY <1>2, <1>5, <1>6 DEF TypeInv, ClientTypeOK, Stop, Joined, AllFit, Fits

LEMMA CoolDownEndsType == TypeInv /\ CoolDownEnds => TypeInv'
BY SameFits DEF TypeInv, ClientTypeOK, CoolDownEnds, Joined, AllFit, Fits

LEMMA NodeStepType == TypeInv /\ [NodeNext]_nodeVars => TypeInv'
<1> SUFFICES ASSUME TypeInv, [NodeNext]_nodeVars PROVE TypeInv'
  OBVIOUS
<1>1. CASE EditWorld \/ CoolDownEnds \/ RemoveConfig
  BY <1>1, EditWorldType, CoolDownEndsType, RemoveConfigType
<1>2. ASSUME NEW p \in Process, Beat(p) PROVE TypeInv'
  BY <1>2, StartSyncType, AnsweredType, RefusedType, TransportErrorType, SaveSyncType DEF Beat
<1>3. ASSUME NEW p \in Process, Apply(p) PROVE TypeInv'
  BY <1>3, ApplyPeersType, BringUpType DEF Apply
<1>4. ASSUME NEW p \in Process, Join(p) PROVE TypeInv'
  BY <1>4, StartJoinType, RegisteredType, JoinFailsType, SaveJoinType DEF Join
<1>5. ASSUME NEW p \in Process, ChangeOverride(p) \/ UpOrDown(p) PROVE TypeInv'
  BY <1>5, StartChangeType, SaveChangeType, StartUpType, TakeDownType DEF ChangeOverride, UpOrDown
<1>6. CASE UNCHANGED nodeVars
  BY <1>6, SameFits DEF nodeVars, TypeInv, ClientTypeOK, Joined, AllFit, Fits
<1> QED BY <1>1, <1>2, <1>3, <1>4, <1>5, <1>6, StopType DEF NodeNext

LEMMA TypeInvariant == NodeSpec => []TypeInv
BY NodeInitially, NodeStepType, PTL DEF NodeSpec

\* The machine's config, its interface and what each process has in hand are well
\* typed: whatever is saved has a key and an address, and whatever is dialled is an
\* endpoint with a port or none at all.
THEOREM ClientTypeCorrect == NodeSpec => []ClientTypeOK
<1>1. TypeInv => ClientTypeOK
  BY DEF TypeInv
<1> QED BY <1>1, TypeInvariant, PTL

(***************************************************************************)
(* What the owner did stands.  As long as no two had the config in hand at *)
(* once, at most one process is to save a copy, and its copy differs from  *)
(* the file in what it is meant to change and in nothing else the owner's. *)
(***************************************************************************)
InHandIsCurrent(p) ==
  /\ pc[p] \in {"mesh", "public", "answered"} =>
       /\ work[p].cfg.key = cfg.key
       /\ work[p].cfg.overrides = cfg.overrides
  /\ pc[p] = "change" =>
       LET o == work[p].cfg.overrides
           k == work[p].pin
       IN /\ work[p].cfg.key = cfg.key
          /\ o = IF k \in DOMAIN o THEN Put(cfg.overrides, k, o[k]) ELSE Remove(cfg.overrides, k)

OneInHand == \A p, q \in Process : pc[p] \in Copying /\ pc[q] \in Copying => p = q

OwnerInv ==
  ~raced => /\ Owned(cfg) = meant
            /\ OneInHand
            /\ \A p \in Process : InHandIsCurrent(p)

\* A step that saves nothing, and after which only p has what it had not before,
\* which is current.
LEMMA UnsavedKeeps ==
  ASSUME TypeInv, OwnerInv, NEW p \in Process,
         UNCHANGED <<cfg, meant>>, raced => raced',
         \A q \in Process \ {p} : pc'[q] = pc[q] /\ work'[q] = work[q],
         pc'[p] \in Copying /\ ~raced' => \A q \in Process \ {p} : pc[q] \notin Copying,
         ~raced' => InHandIsCurrent(p)'
  PROVE  OwnerInv'
BY DEF OwnerInv, OneInHand, InHandIsCurrent, TypeInv, ClientTypeOK

\* A process that is done with its copy saves nothing later.
LEMMA PutDownKeeps ==
  ASSUME TypeInv, OwnerInv, NEW p \in Process, UNCHANGED <<cfg, meant, raced>>,
         pc' = [pc EXCEPT ![p] = pc'[p]], pc'[p] \notin Copying,
         \A q \in Process \ {p} : work'[q] = work[q]
  PROVE  OwnerInv'
<1>1. \A q \in Process \ {p} : pc'[q] = pc[q] /\ work'[q] = work[q]
  BY DEF TypeInv, ClientTypeOK
<1>2. InHandIsCurrent(p)'
  BY DEF InHandIsCurrent, Copying
<1> QED BY <1>1, <1>2, UnsavedKeeps

\* A process that saves was the only one with a copy, and puts it down.
LEMMA SaverIsAlone ==
  ASSUME TypeInv, OwnerInv, ~raced, NEW p \in Process, pc[p] \in Copying,
         pc' = [pc EXCEPT ![p] = pc'[p]], pc'[p] \notin Copying
  PROVE  \A q \in Process : pc'[q] \notin Copying
BY DEF TypeInv, ClientTypeOK, OwnerInv, OneInHand

LEMMA SavedKeeps ==
  ASSUME TypeInv, OwnerInv, NEW p \in Process, pc[p] \in Copying, raced' = raced,
         pc' = [pc EXCEPT ![p] = pc'[p]], pc'[p] \notin Copying,
         ~raced => Owned(cfg') = meant'
  PROVE  OwnerInv'
<1>1. CASE raced
  BY <1>1 DEF OwnerInv
<1>2. CASE ~raced
  <2>1. \A q \in Process : pc'[q] \notin Copying
    BY <1>2, SaverIsAlone
  <2>2. OneInHand' /\ \A q \in Process : InHandIsCurrent(q)'
    BY <2>1 DEF OneInHand, InHandIsCurrent, Copying
  <2>3. Owned(cfg)' = meant'
    BY <1>2 DEF Owned
  <2> QED BY <2>2, <2>3 DEF OwnerInv
<1> QED BY <1>1, <1>2

(***************************************************************************)
(* The steps that take a copy.                                             *)
(***************************************************************************)
LEMMA StartSyncOwner ==
  ASSUME TypeInv, OwnerInv, NEW p \in Process, StartSync(p) PROVE OwnerInv'
<1>1. work'[p] = [cfg |-> cfg] /\ UNCHANGED <<cfg, meant>>
      /\ pc'[p] \in {"mesh", "public"}
      /\ \A q \in Process \ {p} : pc'[q] = pc[q] /\ work'[q] = work[q]
  BY DEF StartSync, Goto, Holds, TypeInv, ClientTypeOK
<1>2. /\ raced => raced'
      /\ ~raced' => \A q \in Process : pc[q] \notin Copying
  BY DEF StartSync, TakesCopy
<1>3. InHandIsCurrent(p)'
  BY <1>1 DEF InHandIsCurrent
<1> QED BY <1>1, <1>2, <1>3, UnsavedKeeps

LEMMA StartChangeOwner ==
  ASSUME TypeInv, OwnerInv, NEW p \in Process, StartChange(p) PROVE OwnerInv'
<1>1. UNCHANGED <<cfg, meant>> /\ pc'[p] = "change"
      /\ \A q \in Process \ {p} : pc'[q] = pc[q] /\ work'[q] = work[q]
  BY DEF StartChange, Goto, Holds, TypeInv, ClientTypeOK
<1>2. /\ raced => raced'
      /\ ~raced' => \A q \in Process : pc[q] \notin Copying
  BY DEF StartChange, TakesCopy
<1>3. cfg \in Real
  BY JoinedFits DEF TypeInv, StartChange
<1>4. InHandIsCurrent(p)'
  <2>1. CASE \E k \in PinKey, v \in Pin :
               Holds(p, [cfg |-> [cfg EXCEPT !.overrides = Put(@, k, v)], pin |-> k])
    <3>1. PICK k \in PinKey, v \in Pin :
            Holds(p, [cfg |-> [cfg EXCEPT !.overrides = Put(@, k, v)], pin |-> k])
      BY <2>1
    <3>2. /\ work'[p].cfg = [cfg EXCEPT !.overrides = Put(@, k, v)]
          /\ work'[p].pin = k
      BY <3>1 DEF Holds, TypeInv, ClientTypeOK
    <3>3. work'[p].cfg.key = cfg.key /\ work'[p].cfg.overrides = Put(cfg.overrides, k, v)
      BY <1>3, <3>2 DEF Real
    <3>4. k \in DOMAIN Put(cfg.overrides, k, v) /\ Put(cfg.overrides, k, v)[k] = v
      BY DEF Put
    <3> QED BY <1>1, <3>2, <3>3, <3>4 DEF InHandIsCurrent
  <2>2. CASE \E k \in DOMAIN cfg.overrides :
               Holds(p, [cfg |-> [cfg EXCEPT !.overrides = Remove(@, k)], pin |-> k])
    <3>1. PICK k \in DOMAIN cfg.overrides :
            Holds(p, [cfg |-> [cfg EXCEPT !.overrides = Remove(@, k)], pin |-> k])
      BY <2>2
    <3>2. /\ work'[p].cfg = [cfg EXCEPT !.overrides = Remove(@, k)]
          /\ work'[p].pin = k
      BY <3>1 DEF Holds, TypeInv, ClientTypeOK
    <3>3. work'[p].cfg.key = cfg.key /\ work'[p].cfg.overrides = Remove(cfg.overrides, k)
      BY <1>3, <3>2 DEF Real
    <3>4. k \notin DOMAIN Remove(cfg.overrides, k)
      BY DEF Remove
    <3> QED BY <1>1, <3>2, <3>3, <3>4 DEF InHandIsCurrent
  <2> QED BY <2>1, <2>2 DEF StartChange
<1> QED BY <1>1, <1>2, <1>4, UnsavedKeeps

LEMMA StartJoinOwner ==
  ASSUME TypeInv, OwnerInv, NEW p \in Process, StartJoin(p) PROVE OwnerInv'
<1>1. UNCHANGED <<cfg, meant>> /\ pc'[p] = "register"
      /\ \A q \in Process \ {p} : pc'[q] = pc[q] /\ work'[q] = work[q]
  BY DEF StartJoin, Goto, Holds, TypeInv, ClientTypeOK
<1>2. /\ raced => raced'
      /\ ~raced' => \A q \in Process : pc[q] \notin Copying
  BY DEF StartJoin, TakesCopy
<1>3. InHandIsCurrent(p)'
  BY <1>1 DEF InHandIsCurrent
<1> QED BY <1>1, <1>2, <1>3, UnsavedKeeps

\* The owner takes the file away from under nobody, or it counts as a race.
LEMMA RemoveConfigOwner == TypeInv /\ OwnerInv /\ RemoveConfig => OwnerInv'
<1> SUFFICES ASSUME TypeInv, OwnerInv, RemoveConfig, ~raced' PROVE OwnerInv'
  BY DEF OwnerInv
<1>1. \A q \in Process : pc'[q] \notin Copying
  BY DEF RemoveConfig, TakesCopy
<1>2. OneInHand' /\ \A q \in Process : InHandIsCurrent(q)'
  BY <1>1 DEF OneInHand, InHandIsCurrent, Copying
<1>3. Owned(cfg)' = meant'
  BY DEF RemoveConfig, Owned
<1> QED BY <1>2, <1>3 DEF OwnerInv

(***************************************************************************)
(* The steps that keep one in hand.                                        *)
(***************************************************************************)
LEMMA CarriesOn ==
  ASSUME TypeInv, OwnerInv, NEW p \in Process, pc[p] \in Copying,
         UNCHANGED <<cfg, meant, raced>>, pc' = [pc EXCEPT ![p] = pc'[p]],
         \A q \in Process \ {p} : work'[q] = work[q],
         ~raced => InHandIsCurrent(p)'
  PROVE  OwnerInv'
<1>1. \A q \in Process \ {p} : pc'[q] = pc[q] /\ work'[q] = work[q]
  BY DEF TypeInv, ClientTypeOK
<1>2. ~raced => \A q \in Process \ {p} : pc[q] \notin Copying
  BY DEF OwnerInv, OneInHand
<1> QED BY <1>1, <1>2, UnsavedKeeps

LEMMA AnsweredOwner ==
  ASSUME TypeInv, OwnerInv, NEW p \in Process, Answered(p) PROVE OwnerInv'
<1>1. pc[p] \in {"mesh", "public"} /\ pc'[p] = "answered" /\ work'[p].cfg = work[p].cfg
      /\ UNCHANGED <<cfg, meant, raced>>
      /\ pc' = [pc EXCEPT ![p] = "answered"]
      /\ \A q \in Process \ {p} : work'[q] = work[q]
  BY DEF Answered, Sent, Holds, TypeInv, ClientTypeOK
<1>2. ~raced => InHandIsCurrent(p)'
  BY <1>1 DEF OwnerInv, InHandIsCurrent
<1> QED BY <1>1, <1>2, CarriesOn DEF Copying

LEMMA TransportErrorOwner ==
  ASSUME TypeInv, OwnerInv, NEW p \in Process, TransportError(p) PROVE OwnerInv'
<1>1. UNCHANGED <<cfg, meant, raced>>
  BY DEF TransportError
<1>2. CASE Goto(p, "mesh", "public") /\ UNCHANGED work
  <2>1. pc[p] = "mesh" /\ pc'[p] = "public" /\ pc' = [pc EXCEPT ![p] = "public"]
    BY <1>2 DEF Goto, TypeInv, ClientTypeOK
  <2>2. ~raced => InHandIsCurrent(p)'
    BY <1>1, <1>2, <2>1 DEF OwnerInv, InHandIsCurrent
  <2> QED BY <1>1, <1>2, <2>1, <2>2, CarriesOn DEF Copying
<1>3. CASE Goto(p, "public", "idle") /\ Holds(p, NoWork)
  <2>1. pc'[p] = "idle" /\ pc' = [pc EXCEPT ![p] = "idle"]
        /\ \A q \in Process \ {p} : work'[q] = work[q]
    BY <1>3 DEF Goto, Holds, TypeInv, ClientTypeOK
  <2> QED BY <1>1, <2>1, PutDownKeeps DEF Copying
<1> QED BY <1>2, <1>3 DEF TransportError

LEMMA RegisteredOwner ==
  ASSUME TypeInv, OwnerInv, NEW p \in Process, Registered(p) PROVE OwnerInv'
<1>1. pc[p] = "register" /\ pc'[p] = "registered" /\ pc' = [pc EXCEPT ![p] = "registered"]
      /\ UNCHANGED <<cfg, meant, raced>>
      /\ \A q \in Process \ {p} : work'[q] = work[q]
  BY DEF Registered, Goto, Holds, TypeInv, ClientTypeOK
<1>2. InHandIsCurrent(p)'
  BY <1>1 DEF InHandIsCurrent
<1> QED BY <1>1, <1>2, CarriesOn DEF Copying

(***************************************************************************)
(* The steps that save one, or put it down.                                *)
(***************************************************************************)
LEMMA SaveSyncOwner ==
  ASSUME TypeInv, OwnerInv, NEW p \in Process, SaveSync(p) PROVE OwnerInv'
<1>1. pc[p] = "answered" /\ pc'[p] = "apply" /\ pc' = [pc EXCEPT ![p] = "apply"]
      /\ UNCHANGED <<meant, raced>> /\ cfg' = Folded(p)
  BY DEF SaveSync, Goto, TypeInv, ClientTypeOK
<1>2. work[p].cfg \in Real
  BY <1>1, InHand DEF TypeInv
<1>3. cfg'.key = work[p].cfg.key /\ cfg'.overrides = work[p].cfg.overrides
  BY <1>1, <1>2 DEF Folded, Real
<1>4. ~raced => Owned(cfg') = meant'
  BY <1>1, <1>3 DEF OwnerInv, InHandIsCurrent, Owned
<1> QED BY <1>1, <1>4, SavedKeeps DEF Copying

LEMMA SaveChangeOwner ==
  ASSUME TypeInv, OwnerInv, NEW p \in Process, SaveChange(p) PROVE OwnerInv'
<1>1. pc[p] = "change" /\ pc'[p] = "apply" /\ pc' = [pc EXCEPT ![p] = "apply"]
      /\ UNCHANGED raced /\ cfg' = work[p].cfg
  BY DEF SaveChange, Goto, TypeInv, ClientTypeOK
<1> DEFINE o == work[p].cfg.overrides
           k == work[p].pin
<1>2. meant' = [meant EXCEPT !.overrides =
                  IF k \in DOMAIN o THEN Put(meant.overrides, k, o[k])
                                    ELSE Remove(meant.overrides, k)]
  BY DEF SaveChange
<1>3. meant \in [key: Key \cup {NoKey}, overrides: Partial(PinKey, Pin)]
  BY DEF TypeInv, ClientTypeOK
<1>4. ASSUME ~raced PROVE Owned(cfg') = meant'
  <2>1. meant.key = cfg.key /\ meant.overrides = cfg.overrides
    BY <1>4 DEF OwnerInv, Owned
  <2>2. /\ work[p].cfg.key = cfg.key
        /\ o = IF k \in DOMAIN o THEN Put(cfg.overrides, k, o[k]) ELSE Remove(cfg.overrides, k)
    BY <1>1, <1>4 DEF OwnerInv, InHandIsCurrent
  <2>3. meant' = [key |-> meant.key, overrides |-> o]
    <3> DEFINE n == IF k \in DOMAIN o THEN Put(meant.overrides, k, o[k])
                                      ELSE Remove(meant.overrides, k)
    <3>1. n = o
      BY <2>1, <2>2
    <3> HIDE DEF n, o
    <3>2. meant' = [meant EXCEPT !.overrides = n]
      BY <1>2 DEF n, o
    <3> QED BY <1>3, <3>1, <3>2
  <2> QED BY <1>1, <2>1, <2>2, <2>3 DEF Owned
<1> QED BY <1>1, <1>4, SavedKeeps DEF Copying

LEMMA SaveJoinOwner ==
  ASSUME TypeInv, OwnerInv, NEW p \in Process, SaveJoin(p) PROVE OwnerInv'
<1>1. pc[p] = "registered" /\ pc'[p] = "apply" /\ pc' = [pc EXCEPT ![p] = "apply"]
      /\ UNCHANGED raced /\ Owned(cfg') = meant'
  BY DEF SaveJoin, Goto, TypeInv, ClientTypeOK
<1> QED BY <1>1, SavedKeeps DEF Copying

LEMMA PutsDown ==
  ASSUME TypeInv, OwnerInv, NEW p \in Process,
         \/ Refused(p) \/ JoinFails(p) \/ Stop(p) \/ ApplyPeers(p) \/ BringUp(p) \/ StartUp(p)
  PROVE  OwnerInv'
<1>1. UNCHANGED <<cfg, meant, raced>>
  BY DEF Refused, JoinFails, Stop, ApplyPeers, BringUp, StartUp
<1>2. /\ pc' = [pc EXCEPT ![p] = pc'[p]] /\ pc'[p] \notin Copying
      /\ \A q \in Process \ {p} : work'[q] = work[q]
  BY DEF Refused, JoinFails, Stop, ApplyPeers, BringUp, StartUp, Goto, Holds, Copying,
         TypeInv, ClientTypeOK
<1> QED BY <1>1, <1>2, PutDownKeeps

LEMMA OwnerStep == TypeInv /\ OwnerInv /\ [NodeNext]_nodeVars => OwnerInv'
<1> SUFFICES ASSUME TypeInv, OwnerInv, [NodeNext]_nodeVars PROVE OwnerInv'
  OBVIOUS
<1>1. CASE EditWorld \/ CoolDownEnds \/ UNCHANGED nodeVars
  BY <1>1 DEF EditWorld, CoolDownEnds, nodeVars, OwnerInv, OneInHand, InHandIsCurrent, Owned
<1>2. ASSUME NEW p \in Process, TakeDown(p) PROVE OwnerInv'
  BY <1>2 DEF TakeDown, OwnerInv, OneInHand, InHandIsCurrent, Owned
<1>3. ASSUME NEW p \in Process, Beat(p) PROVE OwnerInv'
  BY <1>3, StartSyncOwner, AnsweredOwner, PutsDown, TransportErrorOwner, SaveSyncOwner DEF Beat
<1>4. ASSUME NEW p \in Process, Join(p) PROVE OwnerInv'
  BY <1>4, StartJoinOwner, RegisteredOwner, PutsDown, SaveJoinOwner DEF Join
<1>5. ASSUME NEW p \in Process, ChangeOverride(p) \/ UpOrDown(p) PROVE OwnerInv'
  BY <1>2, <1>5, StartChangeOwner, SaveChangeOwner, PutsDown DEF ChangeOverride, UpOrDown
<1>6. ASSUME NEW p \in Process, Apply(p) \/ Stop(p) PROVE OwnerInv'
  BY <1>6, PutsDown DEF Apply
<1> QED BY <1>1, <1>3, <1>4, <1>5, <1>6, RemoveConfigOwner DEF NodeNext

\* What the owner set, joined as or removed is what the file says, through
\* heartbeats, failures and deaths, unless two had the config in hand at once.
THEOREM OwnerIsObeyed == NodeSpec => []OwnerChangesKept
<1>1. NodeInit => OwnerInv
  BY DEF NodeInit, OwnerInv, OneInHand, InHandIsCurrent, Copying
<1>2. OwnerInv => OwnerChangesKept
  BY DEF OwnerInv, OwnerChangesKept
<1> QED BY <1>1, <1>2, OwnerStep, TypeInvariant, PTL DEF NodeSpec

===============================================================================
