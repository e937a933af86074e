# Verification of wgcoord

TLA+ models of wgcoord, the coordinator of a full-mesh WireGuard network, with
the TLC configurations that check them and TLAPS proofs of what matters most.
Everything is translated from the Go source; paths below are relative to the
repository, and `PROJECT.json` maps each definition to its lines.

## 1. Inventory

wgcoord is one program with two modes.

| Component | Source | State | Operations |
|---|---|---|---|
| Coordinator registry | `internal/coordinator/store.go`, `server.go` | `cc.Clients` (name, token hash, address, key, endpoint, port, ban, `LastSeenAt`, `UpdatedAt`, routes), the hub's key, address, routes and `UpdatedAt` | `client add/remove/rename`, `route add/remove`, `token regenerate`, `blacklist`, the writes of `POST /register` and `POST /heartbeat`, `init --force` |
| Config store | `store.go` (`Mutate`, `flock`), `config.go` (`Load`, `Save`) | `config.json`, its lock file, a mutex per process | read, change and rewrite under both locks |
| HTTP control plane | `server.go` (`auth`, handlers), `api.go` | none of its own | authenticate on a snapshot, then mutate, then answer |
| Client daemon and commands | `internal/client/client.go`, `cmd/wgcoord/client_cmd.go` | the machine's `config.json`: token, keys, address, cached peers, endpoint overrides; the mesh cooldown | `join`, `sync`, `run`, `up`, `down`, `endpoint set/clear` |
| Control path selection | `client.go` (`post`, `do`, `internalBase`) | cooldown instant | mesh URL first, public URL after a transport error |
| Hub interface | `service.go` (`Serve`, `reconcile`) | the live WireGuard interface | load the registry and apply it, every 15 s |
| Address pool | `internal/ipalloc` | none | usable addresses, lowest free one, first host |
| Endpoint resolution | `config.go` | none | override by id, then by name; bare hosts keep the port |
| WireGuard driver | `internal/wgctl` | none (calls `ip` and `wg`) | apply, remove, write the `.conf` |
| Keys, tokens, validation | `wgkey`, `token`, `valid` | none | pure |

Interaction: machines post requests over an unreliable network; `auth` reads one
snapshot of the registry and the handler later mutates another, under a lock it
shares with the other handlers and, through a file, with management commands in
other processes. A heartbeat reports the ids the machine holds and is answered
with a delta: the peers it lacks, those stamped later than its last sync, and
the ids to drop. Machines fold the delta into their cache and program WireGuard
from it; the hub programs its own interface from the registry.

What is hard here, and what each component must guarantee:

* **Registry.** Addresses come from three sources (lowest free, `--address`, a
  register's wish) and return to the pool on removal; names are given and
  changed freely. Must hold: one owner per address, one client per name, and a
  delta that repairs whatever list of ids a machine reports.
* **Store.** Concurrent read-modify-write by goroutines and processes that may
  fail or die at any step. Must hold: no acknowledged change is lost, none is
  applied in part, nobody waits for ever.
* **Peer exchange.** Requests and answers get lost, are given up, are applied
  late or twice; the registry changes between `auth` and write; seconds are
  shared. Must hold: membership converges; content is refreshed when it changed;
  hub and machine agree on key and address; no cache holds two owners of one
  address.
* **Client machine.** Two processes (daemon and command) rewrite one file
  without a lock around a wait for the network. Must hold: what the owner set stands
  where nothing overlaps (where it does, an override or a newer peer record may be
  lost, section 6); the interface comes to have the advertised peers, coordinator and
  machine to agree on key and address; the fallback path is tried.
* **Hub interface.** A snapshot is applied some time after it was read. Must
  hold: a banned or removed client leaves the interface, and stays out.

`PROJECT.json` lists the single hazards with their lines.

## 2. Plan

| Order | Module | Content | State |
|---|---|---|---|
| 1 | `Coordinator` | the registry, one action per command and handler write | done, with proofs |
| 2 | `Store`, `StoreLock`, `StoreForced` | `Mutate` step by step, refining an atomic store; `init --force` beside it | done, with proofs |
| 3 | `MeshSync` | machines and network composed with `Coordinator` | done, with proofs |
| 4 | `ClientNode` | one machine: daemon and commands on one `config.json` without a lock, endpoint overrides, the two control paths, apply | done |
| 5 | `HubInterface` | the hub's reconcile loop composed with `Coordinator` | done, with proofs |
| 6 | `AddressPool`, `AddressLease` | `ipalloc` as arithmetic on prefixes of both families, the search of `NextFree`, two spellings of one address; what the coordinator promises of addresses, implemented by `AddressPool` and by `Coordinator` | done, with proofs |
| 7 | `PeerExchange` | what the exchange of peers promises when nothing is lost, implemented by `MeshSync` | done, with proofs |
| 8 | `ClientNode` | joining again beside the daemon of the config that was removed; the machine's key and address | done |
| 9 | proofs about `HubInterface`, `ClientNode` | `HubTypeOK`, `LiveAddressesUnique` and `HubAddressApart` (invariants of the snapshot), `ClientTypeOK`, `OwnerChangesKept` | done |
| 10 | proofs about `MeshSync` | on any network: `MeshTypeOK`, `AnswersFixMembership` and what the registry promises; where nothing is lost: `IdentityAgrees`, and with `FreshStamps` `NextBeatRefreshes`, `CachedAddressesUnique` and `ExchangeIsAtomic` | done |

No module has a RECURSIVE operator, so that all of them can be proved about.

## 3. Modules

**`Coordinator`** is the registry between calls of `Mutate`: `clients`, `hub`,
`issued` (ids ever drawn) and the clock `now`. Each action is one mutation with
its guard, early returns and every field it writes. Tokens and keypairs are
counted per client, since each is 256 random bits; addresses are offsets into
the prefix, with the network and broadcast address outside the pool; routes and
`cc.Clients` are sets because nothing reads their order. `Have` is left out: it is
written and never read. `BuildPeers`, `AddIDs` and `RemoveIDs` are the peer set
and the delta of a heartbeat.

**`AddressLease`** says what the coordinator promises of addresses: each is leased to
one member at a time, by `Assign` one at a time, until `Release`, and a mesh that
starts over starts with one member. `Coordinator` implements it (`AddressesAreLeased`:
the lease of a member is its `addr` in the registry, the hub's included), and so
does **`AddressPool`**, which opens up what `Coordinator` abstracts: a pool is any
prefix of a `Width`-bit address space of either family, with its host bits as they
were written, and an address is a number or, in the registry, a text, a number with
its spelling. `NextFree` runs one address at a time (`StartScan`, `StepOver`,
`Allocate`, `Exhausted`) under the store's lock, and compares numbers; `TakeRequested`
is `checkAddrFree`, which compares texts; `PoolInit` is the hub's address at `init`, a
usable one that was given or the first host, which is not checked. `net/netip` is
modelled from its use: `Next` past the last address is invalid, an IPv4 address has
one spelling and an IPv6 one several. IPv6 in fact has no broadcast address, so
`LastAddr` of an IPv6 prefix, which is its network address, is never asked for.

**`Store`** says what a store of mutations promises: apply one at an instant,
acknowledge only what was applied. **`StoreLock`** is `Mutate` step by step for
any number of actors (handler goroutines, commands) in any number of processes:
mutex, file lock, load, temporary file, rename, unlock, return, with `Fail` at
each step that can fail and `Crash` of a process at any instant. The config is
the set of mutations it carries, so an overwritten change shows as a missing
member. **`StoreForced`** adds `init --force`, which saves without the locks.

**`MeshSync`** extends `Coordinator` with machines: `node` (each machine's
`config.json`), `keys`, `call` (the request a machine waits on) and `stray`
(requests nobody waits on that the coordinator may still apply). A request goes
through `StartJoin` or `StartBeat`, `Authenticate`, `Commit`, `Deliver`, so that
anything may happen between the snapshot `auth` reads and the write, and between
write and delivery. `Abandon` is a timeout, a broken connection or a dead
process; the retry over the public URL is a request sent anew. A machine acts only
while no request of its own is out: it has one process. The code has no lock between
`client run`, `client sync` and `client join` that would see to it; what two
processes of one machine do to each other is `ClientNode`'s subject. `JoinHost` has the
public hosts that machines join with, so that an instance may leave endpoints to later
edits, and `MaxOps` counts every edit, command, re-join and step back of the clock. Three switches
tell conditions apart: `FreshStamps` (an advertised change is stamped later than
every sync that another client has on record), `ClockSteps` (the wall clock may be
set back) and `Lossy`. `Pass` lets the clock
move only out of a second in which someone synced: no comparison of timestamps
tells the seconds it skips from the one before.

**`PeerExchange`** says what that is for when nothing is lost: a machine holds all that
was advertised to its client at one instant, and only a sync of its own changes it.
`MeshSync` implements it (`ExchangeIsAtomic`): `Commit` maps to the abstract `Sync`, an
answer on its way counting as held, a removed config to `Forget`, and every edit in
between to `Change`, by which nothing that is held moves.

**`ClientNode`** is one machine: `cfg` (its `config.json`), `wg` (the live
interface), and for each process `pc` and `work`, the copy of the config it has
in memory and will save as a whole. A beat is `StartSync` (load, choose the
path), then `Answered`, `Refused` or `TransportError` on the mesh path and then
on the public one, `SaveSync`, `ApplyPeers`, `BringUp`; `endpoint set/clear` are
`StartChange`, `SaveChange` and the same apply; `up` and `down` touch only the
interface. `RemoveConfig` is the owner who
removes the file, and `StartJoin`, `Registered` or `JoinFails`, and `SaveJoin` are
`client join`: the check that there is no config, a new keypair, the register and,
after the network, the save. `Stop` is a failing save or tool, or the death of a
process, at any step. The coordinator is reduced to `me`, the key and address it has
for this machine, `world`, what it advertises, and `fresh`, what it stamped since this
machine's last request was written; the mesh path carries a request only while the
interface is under the key in `me`, that is, the hub is taken to have reconciled. A
request that fails in transport may have been written all the same. Three
variables are history: `meant`, the key and the overrides as the commands that
succeeded left them; `raced`, whether two processes, or one and the owner, have
ever had the config in hand at the same time; and `missed`, the peers whose last change
went out in an answer that never reached the config. `PeersConverge` claims of the
interface the advertised peers always, and the advertised record of each peer save of
those in `missed` and, once `raced`, of any: in either case a stale record stays until
the peer changes again, and TLC refutes the property without the one exception or the
other. Whether the hub offers the mesh path
does not change (`MeshOffered`), and requested addresses are granted.

**`HubInterface`** extends `Coordinator` with `live` (the hub's interface), `stage`
and `snap` (where `reconcile` is and what it loaded). `LoadSnapshot`, `SyncPeers`
and `BringUp` are steps of their own, so that commands and handlers change the
registry between them; `GiveUp` is a failing tool or the daemon's death, which
leave the interface as far as it came.

In both, what the tools do is taken from how `wgctl` uses them: `wg syncconf` makes
the set of peers exactly the one given (its package comment), `ip address replace`
adds an address and removes none. The endpoint of a live peer is the one it was
last given; WireGuard itself goes on to follow peers that roam. The `.conf` file is
written and read by nobody in the code, and a failure to write it is one of the
failures of an apply (in the hub's, it changes nothing).

`*Proofs` modules hold the theorems, `MC*` modules the constants of the runs.

## 4. Runs

| Run | Shows | Bounds and why they are enough |
|---|---|---|
| `registry` | type, unique addresses, leased one at a time, unique names, the delta reconciles any reported ids | 2 clients, 2 names of which one is the word `hub`, 3 addresses (exhausted by the hub and two clients), 2 hub keys, 2 seconds: every pair of members meets on every address |
| `address_pool` | a search finds the lowest free host, or rightly none; clients' addresses are usable, the hub's if any is; two members share a number only as two spellings of an IPv6 one | 3 bits, both families: every prefix from /0 to a single address at every place, the first and last of the address space included, with the hub and two clients on up to six hosts; the proofs cover every width |
| `mesh_exact` | reliable network, one request per machine at a time, changes stamped later than every sync on record, a clock that may be set back: what a machine holds is what was advertised to it at one instant, stale records are always re-sent, no cache holds two owners of an address, hub and machine agree on key and address | 3 ids for 2 names and 3 addresses, so that an address freed by a removal is given to a newcomer while the third still caches the old owner; a requested address, a route, a public host, two keypairs, 2 edits, 2 seconds: before, at and after a sync, and back |
| `mesh_lossy` | losses, late requests, one shared second: each answer still fixes membership; membership and identity converge | 2 clients, 2 keypairs each, one stray request, one edit |
| `store_lock` | the copy saved is current, acknowledged changes survive, `Mutate` refines `Store`, calls end | 2 handlers in one process, a command in another, two calls of one handler |
| `same_second` | violated: a change in the second of a sync is never re-sent | |
| `lost_answer` | violated: a lost answer takes its changes along | |
| `unstamped_key` | violated: a heartbeat puts another key on record without a stamp | 2 clients, one re-join, one register applied late |
| `init_force` | violated: `init --force` is undone by a mutation in progress | |
| `client` | what the owner set stands unless it raced another copy; the interface converges to the advertised peers, each as advertised save where a lost answer or an overlapping save left it stale; coordinator, config and interface come to agree on key and address; a pin by id wins | the daemon and one command, the hub and a peer that comes, goes or changes once, two keypairs and two addresses (one re-join, to the same address or another), an override by name from the join and one by id or name from the command, a bare host and `-`. The first address is fixed, since the two are alike |
| `override_lost` | violated: an override set during a beat is overwritten by the copy the beat loaded | |
| `hub` | no two live peers share an address nor, until `init --force`, claim one of the hub's; bans and removals reach the interface for good; a member whose key and address, and the hub's, come to rest comes to be served under them (one that re-registers between every load and its apply need not be, so the antecedent is needed) | 2 clients that come, register, are banned and return, 2 hub addresses and keys (`init --force`), addresses that run out: a snapshot can be older than a removal and a re-add of the same address |

`MaxOps`, `MaxStray`, `MaxKey`, `MaxToken`, `MaxHubKey`, `MaxTime`, `MaxCalls`,
`MaxEdits` and `MaxCommands` are the only bounds; each stands in the guard of the action it limits.
Deadlock is not checked in the mesh runs: a mesh that nobody has joined, with
the operators idle and the bounds used up, is quiet by design. Nor is it in
`client`: a machine whose config was removed and that does not join again has
nothing left to do. The other passing runs check it.

### Fairness

`LockFairness`: goroutines keep running (weak fairness on each step), and a
waiter for a lock that is free again and again gets it (strong fairness), as the
mutex's starvation mode and the kernel's queue of `flock` waiters provide.
`MeshFairness`: the ticker of `client run` keeps sending heartbeats and a refusal
is always delivered (weak); authentication, write and delivery happen if they
are possible again and again (strong), that is, not every request is lost.
`NodeFairness`: the daemon's ticker keeps starting beats (weak), a request ends because it
times out, and none of the steps of a beat fails every time (strong fairness on
each of the daemon's steps, since failures and deaths interrupt it). Nothing is
assumed of commands: a join may fail for ever or never be made.
`HubFairness`: the hub's ticker runs every 15 s and no step of an apply fails every
time (strong, since a failure ends the tick).
Nothing is assumed of operators, owners, re-joins or stray requests.

## 5. Proofs

All for every value of the constants, from the constants' assumptions alone, except
that the theorems of `PeerExchangeProofs` are about meshes with `~Lossy`, and three of
them with `FreshStamps` too. Those two are not promises of the code but the conditions
under which it keeps its own: the runs `lost_answer` and `same_second` show what
happens without one or the other, and each theorem names the conditions it needs. A
third condition is built into `MeshSync`: one request per machine at a time. The code
does not enforce it, since a `client sync` or `client join` may run beside the daemon and an
older copy of the config be saved over a newer one, and nothing said of `MeshSync`, on
any network, covers that. Of the properties that look into a machine's cache or config
(`NextBeatRefreshes`, `ExchangeIsAtomic`, `CachedAddressesUnique`, `IdentityAgrees`,
`AnswersFixMembership`, `MembershipConverges`, `IdentityConverges`) it is as much a part
as the switches; `ClientNode` is where it is given up.

`CachedAddressesUnique` is about addresses as the registry has them. What peers are
given is the address as a /32 (`server.go:226`), which is one host in an IPv4 mesh only.

* `CoordinatorProofs`. `TypeCorrect`: each record a handler or command writes
  is a client's record. `AddressesAreUnique`: the invariant is inductive together
  with `TypeOK`; every writer of an address passes `AddrFree` or `Unused`, and all
  other actions keep the addresses. `NamesAreUnique`: likewise, from the guards of
  `AddClient` and `RenameClient`. `DeltaAlwaysReconciles`: whatever ids are
  reported, those added and removed leave exactly the advertised ones.
  `RegistryImplementsLease`: a mutation assigns at most one address, and from
  `AddressesUnique` nobody else holds it; `InitForce` maps to `Start`.
* `AddressPoolProofs`. `PoolInv` is inductive: the types, with every client's address
  usable, and, while a search runs, each usable address below where it has come taken
  (`Searched`). The latter is what `AllocationIsLowest` needs: when the search ends
  with an address all lower ones are taken, and when it ends past the end no usable
  address is left beyond (`PastEndBehind`). `AddressesHeldOnce` and `PoolImplementsLease` rest on a second
  invariant, that no two members hold one text. `HubIsUsable` is arithmetic on the
  first host. `PoolAssumption` states that `2^n` is a positive integer for each `n` up
  to `Width`, which the provers, having no rules for `^`, cannot find themselves;
  TLC evaluates it in the run.
* `StoreLockProofs`. `HolderIsCurrent`, `AcknowledgedIsSaved`: the inductive invariant
  is `CopyIsCurrent /\ AckedSurvive /\ Busy`; exactly the lock's holder is between
  lock and unlock, its copy is `file` with its own mutation added, and what is
  saved and not yet acknowledged is in `file`. `Busy` (an actor in a call has a
  mutation to make) is needed for the refinement's witness. `MutateImplementsStore`:
  `Rename` maps to `Apply`, a successful `Return` to `Acknowledge`, all else to
  stuttering. The proof never uses the mutex: the file lock, taken on a
  file opened anew by each call, already excludes goroutines of one process.
* `MeshSyncProofs`, on a network that may lose, delay and repeat requests, with a clock
  that may be set back. `MeshTypeCorrect`: `MeshInv` says of each machine that its
  cache names only ids that were issued and never its own, that a request on its way
  reports the ids in the cache its answer will be folded into, and that it carries the
  config's identity; the machine waits for one request at a time, so no step of it or
  of anyone else changes that. `EachAnswerFixesMembership` follows: a heartbeat's delta
  is computed from just the cache it is applied to, and a register is folded into none.
  `MeshAddressesUnique` and `MeshLeasesAddresses`: every step of the mesh is one of the
  registry or sets its clock back (`MeshRunsRegistry`), so a request authenticated on
  one snapshot and written on another gives no address to two.
* `PeerExchangeProofs`, where nothing is lost. `HubKnowsItsClients`: `IdentityInv` says
  that no request is left behind, that an answer on its way carries the address on
  record and its request the key on record, and that the config agrees with both.
  The next theorem needs it: a heartbeat overwrites the key without a stamp, which is no
  news to anybody as long as it is the key on record. `StaleRecordsAreResent`: `FreshInv`
  says that a machine that holds peers has a sync on record and that each record it
  holds is the one on record at the hub or was stamped since. `NextBeatRefreshes` alone
  is not inductive: it says nothing of a machine that joins, whose first peers are in an
  answer on its way, nor of the sync on record, without which no peer counts as changed.
  A step either leaves a record and its stamp alone or stamps it later than every other sync
  (`OperatorsStamp`, `CommitStep`, `FreshStays`), and an answer leaves its machine with
  exactly `BuildPeers` (`AnswerIsCurrent`). `MeshImplementsExchange`: `Commit` maps to
  `Sync`, `Leave` to `Forget`, everything else to `Change` or stuttering.
  `CachesKeepAddressesApart`: what is advertised at one instant has addresses of its
  own (`MeshAddressesUnique`), and caches and answers on their way are such sets
  (`ApartInv`). None of them needs the clock to move forward only (`ClockSteps` is free).

* `HubInterfaceProofs`. `HubRunsRegistry`: the hub's specification implies the
  registry's, so that all that is proved of `Coordinator` holds here too. A snapshot
  taken in one step inherits it, and `HubInv` says that it keeps what it inherited:
  the interface and what `reconcile` has in hand claim each address once, and while
  the hub has its first key, neither claims the hub's address for a client. The latter
  needs `HubKeptUntilForced`: only `InitForce` changes the hub's address, and it
  gives the hub a key it never had.
* `ClientNodeProofs`. `ClientTypeCorrect`: typing alone is not inductive, since what a
  process has in hand is fit only for the place where it stands (`Fits`: a config
  with a key from `Join` on, with an address once registered, a delta once answered);
  `AllFit` says so of all processes. `OwnerIsObeyed`: as long as nobody raced, one
  process at most has a copy of the config, that copy differs from the file only in what
  its command is to change (`InHandIsCurrent`), and the file says what the owner
  meant. Both are of the safety part, `NodeSpec`, which the specification with
  fairness implies.

Each safety property of a passing run, action properties and refinements included, is
stated by a theorem. Only model-checked is liveness (`CallsReturn`,
`MembershipConverges`, `IdentityConverges`, `PeersConverge`, `IdentitySettles`,
`PinsHold`, `BansAreEnforced`, `MembersAreServed`), which the prover cannot treat. What the runs
that are expected to be violated check is false of the code (`OverridesSurvive`,
`WipedStaysWiped`, `AdvertChangesAreStamped`), or, like `NextBeatRefreshes`,
true only under the conditions its theorem names.

## 6. Findings

* `internal/coordinator/server.go:161` compares whole-second timestamps
  strictly, so a change in the second of a sync never reaches that client
  (`same_second`), against "the change reaches peers on their next heartbeat".
* `server.go:144` counts a heartbeat as a sync although its answer may be lost
  (`lost_answer`).
* `internal/coordinator/server.go:133` stores the key a heartbeat reports and leaves
  `UpdatedAt` alone (`unstamped_key`), against "bumping UpdatedAt propagates it to peers"
  two lines above and `config.go:85`. It takes a register that its machine gave up on and
  that is applied after the machine joined again: the next beat restores the machine's
  key, and peers that were sent the other one keep it.
* `cmd/wgcoord/coordinator_cmd.go:93` saves without the file lock (`init_force`),
  against README's "Every management command edits the shared config.json under a
  file lock".
* `internal/client/client.go:134` saves the config that was loaded before the
  request, so an override set meanwhile is lost (`override_lost`), against "The
  override is local to this machine and survives heartbeats". For the same reason a beat
  may put older peer records back over those of a `client sync` that ended meanwhile, and
  no later heartbeat is sent them again until they change: `PeersConverge` excepts it.
* `internal/coordinator/store.go:346` compares addresses as text, so two spellings of
  one IPv6 address are given to two clients, or to the hub and a client, against
  `checkAddrFree`'s comment that the address is "unclaimed by the hub or another
  client". `OneHolder` (`address_pool`) excepts it and holds of everything else.

## 7. Not modelled

* Flags, prompts, tables, logs and the text of `.conf` files: I/O and layout.
* Key generation, hashing and string validation: pure library code; keys and
  tokens are counted instead, so that fresh ones differ.
* TLS, HTTP framing and JSON: a request arrives whole or not at all.
* I/O errors of the coordinator during a mesh request: `StoreLock` has them, and
  to a machine they look like a lost answer, or like a refusal.
* Hosts without the WireGuard tools, where applying does nothing and the mesh path
  is never taken.
* `wgctl.RemovePeer`, which nothing calls.
* What the hub's interface lags behind the registry on the mesh path of `ClientNode`;
  to the machine it is a transport error, which that path may have at any time.
* Two joins of one machine at once: the instance has one command, and nothing keeps
  owners from running two.
* `init --force` in `AddressPool`: it starts over without the lock, which is
  `StoreForced`'s subject, and leads to an initial state.
