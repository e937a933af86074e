------------------------------ MODULE AddressPool ------------------------------
(***************************************************************************)
(* Mesh addresses as arithmetic on a prefix (internal/ipalloc) and as the  *)
(* text the registry keeps (checkAddrFree in internal/coordinator): which  *)
(* addresses a pool has, how NextFree searches it one address at a time,   *)
(* and the ways a member comes to hold one.  Coordinator takes the pool as *)
(* an interval of offsets; here it is any prefix, the shortest and the     *)
(* longest included, IPv4 or IPv6.                                         *)
(*                                                                         *)
(* An address is a number below 2^Width (32 and 128 bits in the code); the *)
(* number 2^Width itself is the invalid address that Next returns past the *)
(* last one.  Text is a number with the way it is spelled: netip takes one *)
(* spelling of an IPv4 address (no leading zeros, and an IPv4-mapped or a  *)
(* zoned one lies in no prefix) but many of an IPv6 one, of which          *)
(* Addr.String writes the canonical.                                       *)
(***************************************************************************)
EXTENDS Integers, FiniteSets

CONSTANTS
  Width,     \* bits of an address
  Family,    \* the families a range may be of, "v4" or "v6"
  Client,    \* clients that may hold an address
  HubMember  \* the coordinator

ASSUME PoolAssumption ==
  /\ Width \in Nat \ {0}
  /\ Family \subseteq {"v4", "v6"}
  /\ HubMember \notin Client
  /\ \A n \in 0 .. Width : 2^n \in Nat \ {0}  \* which the provers do not know of ^

VARIABLES
  prefix,  \* cc.IPRange as parsed, its host bits not cleared
  hub,     \* cc.Address
  holds,   \* the clients of the registry -> their Address
  scan     \* NextFree in progress: for whom and how far, or none

poolVars == <<prefix, hub, holds, scan>>

(***************************************************************************)
(* Prefixes and addresses (net/netip as ipalloc uses it).                  *)
(***************************************************************************)
Bit == 0 .. 2^Width - 1
Invalid == 2^Width
Addr == Bit \cup {Invalid}

Prefix == [family: Family, addr: Bit, bits: 0 .. Width]

Span(p) == 2^(Width - p.bits)

Masked(p) == (p.addr \div Span(p)) * Span(p)

Contains(p, a) == a # Invalid /\ Masked(p) <= a /\ a < Masked(p) + Span(p)

NextAddr(a) == IF a = Invalid THEN Invalid ELSE a + 1

\* The IPv4 broadcast address; of an IPv6 prefix, the network address again.
LastAddr(p) == IF p.family = "v4" THEN Masked(p) + Span(p) - 1 ELSE Masked(p)

(***************************************************************************)
(* The functions of ipalloc.                                               *)
(***************************************************************************)

\* Mutant: the host bits of the range as written are not cleared first.
FirstHostUnmasked(p) == NextAddr(p.addr)

FirstHost(p) == NextAddr(Masked(p))

Usable(p, a) ==
  /\ Contains(p, a)
  /\ a # Masked(p)
  /\ p.family = "v4" => a # LastAddr(p)

\* Mutant: the broadcast address is not reserved.
PastEndOfPrefix(p, a) == ~Contains(p, a)

\* Where the loop of NextFree stops without an address.
PastEnd(p, a) == ~Contains(p, a) \/ (p.family = "v4" /\ a = LastAddr(p))

(***************************************************************************)
(* Addresses as text.                                                      *)
(***************************************************************************)
Canonical(a) == [value |-> a, spelling |-> "canonical"]

Text == [value: Bit, spelling: {"canonical", "other"}]

\* What ParseAddr reads in the family of p.
Parsable(p, t) == p.family = "v4" => t.spelling = "canonical"

\* Mutant: the hub's own address is not compared.
CheckAddrFreeButHub(t, c) ==
  /\ Parsable(prefix, t) /\ Usable(prefix, t.value)
  /\ \A d \in DOMAIN holds \ {c} : holds[d] # t

\* Mutant: an address asked for need not be usable.
CheckAddrFreeAnywhere(t, c) ==
  /\ Parsable(prefix, t) /\ t # hub
  /\ \A d \in DOMAIN holds \ {c} : holds[d] # t

\* checkAddrFree: usable, and spelled as no other member's address is.
CheckAddrFree(t, c) ==
  /\ Parsable(prefix, t) /\ Usable(prefix, t.value)
  /\ t # hub
  /\ \A d \in DOMAIN holds \ {c} : holds[d] # t

\* Mutant: the hub's address is not among those in use.
TakenByClients == {holds[d].value : d \in DOMAIN holds}

\* The addresses NextFree passes over (usedAddrs, compared as numbers).
Taken == {hub.value} \cup {holds[d].value : d \in DOMAIN holds}

(***************************************************************************)
(* `coordinator init`: a range, and an address of the hub's in it.  With   *)
(* --force it leads to one of these states again, with all its clients     *)
(* gone (Coordinator has it as an action).                                 *)
(***************************************************************************)
HubChoice(p, t) ==
  \/ t = Canonical(FirstHost(p))
  \/ Parsable(p, t) /\ Usable(p, t.value)

NotScanning == [client |-> HubMember, at |-> Invalid]

Idle == scan = NotScanning

PoolInit ==
  /\ prefix \in Prefix
  /\ hub \in Text \cup {Canonical(Invalid)} /\ HubChoice(prefix, hub)
  /\ holds = [c \in {} |-> {}]
  /\ scan = NotScanning

(***************************************************************************)
(* What happens under the store's lock.  `client add` without an address   *)
(* runs NextFree, one iteration of its loop at a time; the lock keeps      *)
(* everything else out meanwhile.                                          *)
(***************************************************************************)
StartScan(c) ==
  /\ Idle /\ c \notin DOMAIN holds
  /\ scan' = [client |-> c, at |-> FirstHost(prefix)]
  /\ UNCHANGED <<prefix, hub, holds>>

Hold(c, t) == holds' = [d \in DOMAIN holds \cup {c} |-> IF d = c THEN t ELSE holds[d]]

StepOver ==
  /\ ~Idle /\ ~PastEnd(prefix, scan.at) /\ scan.at \in Taken
  /\ scan' = [scan EXCEPT !.at = NextAddr(@)]
  /\ UNCHANGED <<prefix, hub, holds>>

Allocate ==
  /\ ~Idle /\ ~PastEnd(prefix, scan.at) /\ scan.at \notin Taken
  /\ Hold(scan.client, Canonical(scan.at))
  /\ scan' = NotScanning
  /\ UNCHANGED <<prefix, hub>>

Exhausted ==
  /\ ~Idle /\ PastEnd(prefix, scan.at)
  /\ scan' = NotScanning
  /\ UNCHANGED <<prefix, hub, holds>>

\* `client add --address`, and the address a register asks for.
TakeRequested(c, t) ==
  /\ Idle
  /\ \/ CheckAddrFree(t, c)
     \/ c \in DOMAIN holds /\ holds[c] = t
  /\ Hold(c, t)
  /\ UNCHANGED <<prefix, hub, scan>>

RemoveClient(c) ==
  /\ Idle /\ c \in DOMAIN holds
  /\ holds' = [d \in DOMAIN holds \ {c} |-> holds[d]]
  /\ UNCHANGED <<prefix, hub, scan>>

PoolNext ==
  \/ \E c \in Client : StartScan(c) \/ RemoveClient(c)
  \/ StepOver \/ Allocate \/ Exhausted
  \/ \E c \in Client, t \in Text : TakeRequested(c, t)

PoolSpec == PoolInit /\ [][PoolNext]_poolVars

(***************************************************************************)
(* Properties.                                                             *)
(***************************************************************************)
Free == {a \in Bit : Usable(prefix, a)} \ Taken

\* Types; and whoever gave it out, a client's address is a usable host of the
\* range (NextFree, and Usable inside checkAddrFree).
PoolTypeOK ==
  /\ prefix \in Prefix
  /\ hub \in Text \cup {Canonical(Invalid)}
  /\ DOMAIN holds \subseteq Client
  /\ \A c \in DOMAIN holds : holds[c] \in Text /\ Usable(prefix, holds[c].value)
  /\ Idle \/ scan \in [client: Client \ DOMAIN holds, at: Addr]

\* A search ends with the lowest address that is usable and nobody's, and in
\* failure only when there is none (NextFree against Usable), wherever the range
\* lies, however long it is, and whichever addresses are taken.
AllocatesLowest ==
  [][~Idle /\ Idle' =>
       IF Free = {} THEN holds' = holds
       ELSE /\ holds'[scan.client].value \in Free
            /\ \A a \in Free : holds'[scan.client].value <= a]_poolVars

\* Two members hold one address only in two spellings, which takes an address
\* asked for in an IPv6 range: searches and requests never give out a text twice,
\* and a search never gives out a number that is held in any spelling.
OneHolder ==
  LET At(m) == IF m = HubMember THEN hub ELSE holds[m]
  IN \A m, n \in DOMAIN holds \cup {HubMember} :
       m # n /\ At(m).value = At(n).value =>
         prefix.family = "v6" /\ At(m).spelling # At(n).spelling

\* The texts members hold are leased to them: each to one member at a time.
PoolLease == INSTANCE AddressLease WITH
  Member <- Client \cup {HubMember},
  Address <- Text \cup {Canonical(Invalid)},
  lease <- [m \in DOMAIN holds \cup {HubMember} |-> IF m = HubMember THEN hub ELSE holds[m]]

PoolIsLeased == PoolLease!Spec

\* In a range with any usable address the hub's is one: the first host, taken
\* without a check, lies outside or on the broadcast address only of ranges that
\* could serve no client either (IPv4 /31 and /32, IPv6 /128).
HubUsable ==
  (\E a \in Bit : Usable(prefix, a)) => Usable(prefix, hub.value)

=============================================================================
