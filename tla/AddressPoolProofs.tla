--------------------------- MODULE AddressPoolProofs ---------------------------
(***************************************************************************)
(* Proofs about AddressPool, for addresses of any width: clients hold      *)
(* usable addresses, a search finds the lowest free one, no text is held   *)
(* twice, and the pool implements AddressLease.                            *)
(***************************************************************************)
EXTENDS AddressPool, TLAPS

(***************************************************************************)
(* Arithmetic of prefixes.                                                 *)
(***************************************************************************)

LEMMA InvalidType == Invalid \in Nat \ {0}
BY PoolAssumption DEF PoolAssumption, Invalid

LEMMA SpanType == ASSUME NEW p \in Prefix PROVE Span(p) \in Nat \ {0}
<1>1. Width - p.bits \in 0 .. Width
  BY PoolAssumption DEF PoolAssumption, Prefix
<1> QED BY <1>1, PoolAssumption DEF PoolAssumption, Span

LEMMA MultipleBelow ==
  ASSUME NEW x \in Nat, NEW s \in Nat \ {0}
  PROVE  (x \div s) * s \in Nat /\ (x \div s) * s <= x
BY SMT

LEMMA MaskedType ==
  ASSUME NEW p \in Prefix
  PROVE  Masked(p) \in Nat /\ Masked(p) < Invalid
<1>1. p.addr \in Nat /\ p.addr < Invalid
  BY InvalidType DEF Prefix, Bit, Invalid
<1>2. Masked(p) \in Nat /\ Masked(p) <= p.addr
  BY <1>1, SpanType, MultipleBelow DEF Masked
<1> QED BY <1>1, <1>2, InvalidType

LEMMA FirstHostType ==
  ASSUME NEW p \in Prefix
  PROVE  /\ FirstHost(p) \in Addr
         /\ FirstHost(p) = Masked(p) + 1
BY MaskedType, InvalidType DEF FirstHost, NextAddr, Addr, Bit, Invalid

\* Whatever NextFree finds before it stops is a usable host.
LEMMA NotPastEndUsable ==
  ASSUME NEW p \in Prefix, NEW a \in Addr, a > Masked(p), ~PastEnd(p, a)
  PROVE  a \in Bit /\ Usable(p, a)
BY MaskedType, InvalidType DEF PastEnd, Usable, Contains, Addr

\* Where NextFree stops, every usable host lies behind it.
LEMMA PastEndBehind ==
  ASSUME NEW p \in Prefix, NEW a \in Addr, a > Masked(p), PastEnd(p, a),
         NEW b \in Bit, Usable(p, b)
  PROVE  b < a
BY MaskedType, SpanType, InvalidType DEF PastEnd, Usable, Contains, LastAddr, Addr, Bit, Invalid

(***************************************************************************)
(* The inductive invariant: of a search in progress, every usable host     *)
(* before its place is taken.                                              *)
(***************************************************************************)
Searched ==
  ~Idle => /\ scan.at > Masked(prefix)
           /\ \A a \in Bit : Usable(prefix, a) /\ a < scan.at => a \in Taken

PoolInv == PoolTypeOK /\ Searched

LEMMA PoolInitially == PoolInit => PoolInv
BY DEF PoolInit, PoolInv, PoolTypeOK, Searched, Idle

LEMMA NotScanningApart ==
  ASSUME NEW c \in Client, NEW a
  PROVE  [client |-> c, at |-> a] # NotScanning
<1>1. c # HubMember
  BY PoolAssumption DEF PoolAssumption
<1> QED BY <1>1 DEF NotScanning

LEMMA PoolStep == PoolInv /\ [PoolNext]_poolVars => PoolInv'
<1> SUFFICES ASSUME PoolInv, [PoolNext]_poolVars PROVE PoolInv'
  OBVIOUS
<1> USE DEF PoolInv
<1>1. ASSUME NEW c \in Client, StartScan(c) PROVE PoolInv'
  <2>1. PoolTypeOK'
    BY <1>1, FirstHostType DEF StartScan, PoolTypeOK, Idle
  <2>2. scan'.at > Masked(prefix')
    BY <1>1, FirstHostType, MaskedType DEF StartScan, PoolTypeOK
  <2>3. ASSUME NEW a \in Bit, Usable(prefix, a), a < scan'.at PROVE FALSE
    BY <1>1, <2>3, FirstHostType, MaskedType, InvalidType
    DEF StartScan, PoolTypeOK, Usable, Contains, Bit, Invalid
  <2> QED BY <1>1, <2>1, <2>2, <2>3 DEF Searched, StartScan
<1>2. ASSUME NEW c \in Client, RemoveClient(c) PROVE PoolInv'
  BY <1>2 DEF RemoveClient, PoolTypeOK, Searched, Idle
<1>3. CASE StepOver
  <2>1. scan \in [client: Client \ DOMAIN holds, at: Addr] /\ scan.at \in Bit
    BY <1>3, NotPastEndUsable DEF StepOver, PoolTypeOK, Searched
  <2>2. scan'.at = scan.at + 1 /\ scan'.at \in Addr /\ scan'.client = scan.client
    BY <1>3, <2>1, InvalidType DEF StepOver, NextAddr, Addr, Bit, Invalid
  <2>3. PoolTypeOK'
    BY <1>3, <2>1, <2>2 DEF StepOver, PoolTypeOK
  <2>4. scan'.at > Masked(prefix')
    BY <1>3, <2>1, <2>2, MaskedType, InvalidType
    DEF StepOver, PoolTypeOK, Searched, Bit, Invalid
  <2>5. ASSUME NEW a \in Bit, Usable(prefix, a), a < scan'.at PROVE a \in Taken
    <3>1. a < scan.at \/ a = scan.at
      BY <2>1, <2>2, <2>5, InvalidType DEF Bit, Invalid
    <3> QED BY <1>3, <2>5, <3>1 DEF StepOver, Searched
  <2> QED BY <1>3, <2>3, <2>4, <2>5 DEF Searched, StepOver, Taken
<1>4. CASE Allocate
  <2>1. scan \in [client: Client \ DOMAIN holds, at: Addr]
    BY <1>4 DEF Allocate, PoolTypeOK
  <2>2. scan.at \in Bit /\ Usable(prefix, scan.at)
    BY <1>4, <2>1, NotPastEndUsable DEF Allocate, PoolTypeOK, Searched
  <2> QED BY <1>4, <2>1, <2>2
          DEF Allocate, Hold, Canonical, Text, PoolTypeOK, Searched, Idle
<1>5. CASE Exhausted
  BY <1>5 DEF Exhausted, PoolTypeOK, Searched, Idle
<1>6. ASSUME NEW c \in Client, NEW t \in Text, TakeRequested(c, t) PROVE PoolInv'
  <2>1. Usable(prefix, t.value)
    BY <1>6 DEF TakeRequested, CheckAddrFree, PoolTypeOK
  <2> QED BY <1>6, <2>1 DEF TakeRequested, Hold, PoolTypeOK, Searched, Idle
<1>7. CASE UNCHANGED poolVars
  BY <1>7 DEF poolVars, PoolTypeOK, Searched, Idle, Taken
<1> QED BY <1>1, <1>2, <1>3, <1>4, <1>5, <1>6, <1>7 DEF PoolNext

LEMMA PoolInvariant == PoolSpec => []PoolInv
BY PoolInitially, PoolStep, PTL DEF PoolSpec

\* Every client's address is a usable host of the range, however it got it.
THEOREM PoolTypeCorrect == PoolSpec => []PoolTypeOK
<1>1. PoolInv => PoolTypeOK
  BY DEF PoolInv
<1> QED BY PoolInvariant, <1>1, PTL

(***************************************************************************)
(* A search ends at the lowest free address.                               *)
(***************************************************************************)
LEMMA SearchEndsRight ==
  ASSUME PoolInv, PoolNext, ~Idle, Idle'
  PROVE  IF Free = {} THEN holds' = holds
         ELSE /\ holds'[scan.client].value \in Free
              /\ \A a \in Free : holds'[scan.client].value <= a
<1>1. scan \in [client: Client \ DOMAIN holds, at: Addr] /\ prefix \in Prefix
  BY DEF PoolInv, PoolTypeOK
<1>2. Allocate \/ Exhausted
  <2>1. ASSUME NEW c \in Client, StartScan(c) PROVE FALSE
    BY <2>1 DEF StartScan
  <2>2. ASSUME NEW c \in Client, RemoveClient(c) PROVE FALSE
    BY <2>2 DEF RemoveClient
  <2>3. ASSUME NEW c \in Client, NEW t \in Text, TakeRequested(c, t) PROVE FALSE
    BY <2>3 DEF TakeRequested
  <2>4. CASE StepOver
    <3>1. scan'.client \in Client
      BY <1>1, <2>4 DEF StepOver
    <3> QED BY <3>1, PoolAssumption DEF PoolAssumption, Idle, NotScanning
  <2> QED BY <2>1, <2>2, <2>3, <2>4 DEF PoolNext
<1>3. CASE Allocate
  <2>1. scan.at \in Bit /\ Usable(prefix, scan.at)
    BY <1>1, <1>3, NotPastEndUsable DEF PoolInv, Searched, Allocate
  <2>2. scan.at \in Free
    BY <1>3, <2>1 DEF Free, Allocate
  <2>3. holds'[scan.client].value = scan.at
    BY <1>1, <1>3 DEF Allocate, Hold, Canonical
  <2>4. ASSUME NEW a \in Free PROVE scan.at <= a
    BY <1>1, <2>1, InvalidType DEF Free, PoolInv, Searched, Bit, Invalid
  <2> QED BY <2>2, <2>3, <2>4
<1>4. CASE Exhausted
  <2>1. ASSUME NEW a \in Free PROVE FALSE
    BY <1>1, <1>4, PastEndBehind DEF Free, PoolInv, Searched, Exhausted
  <2> QED BY <1>4, <2>1 DEF Exhausted
<1> QED BY <1>2, <1>3, <1>4

\* A search ends with the lowest address that is usable and nobody's, and in
\* failure only when there is none.
THEOREM AllocationIsLowest == PoolSpec => AllocatesLowest
<1>1. ASSUME PoolInv, [PoolNext]_poolVars
      PROVE  [~Idle /\ Idle' =>
                IF Free = {} THEN holds' = holds
                ELSE /\ holds'[scan.client].value \in Free
                     /\ \A a \in Free : holds'[scan.client].value <= a]_poolVars
  BY <1>1, SearchEndsRight
<1> QED BY PoolInvariant, <1>1, PTL DEF PoolSpec, AllocatesLowest

(***************************************************************************)
(* The hub's address.                                                      *)
(***************************************************************************)
HubChosen == HubChoice(prefix, hub)

LEMMA FirstHostUsable ==
  ASSUME NEW p \in Prefix, NEW a \in Bit, Usable(p, a)
  PROVE  Usable(p, FirstHost(p))
BY FirstHostType, MaskedType, SpanType, InvalidType
   DEF Usable, Contains, LastAddr, Bit, Invalid

\* In a range with any usable address the hub's is one, though nothing checks the
\* first host that `coordinator init` takes by default.
THEOREM HubIsUsable == PoolSpec => []HubUsable
<1>1. PoolInit => HubChosen
  BY DEF PoolInit, HubChosen
<1>2. PoolInv /\ HubChosen /\ [PoolNext]_poolVars => HubChosen'
  BY DEF PoolNext, StartScan, RemoveClient, StepOver, Allocate, Exhausted, TakeRequested,
         poolVars, HubChosen
<1>3. PoolInv /\ HubChosen => HubUsable
  BY FirstHostUsable DEF PoolInv, PoolTypeOK, HubChosen, HubChoice, HubUsable, Canonical
<1> QED BY PoolInvariant, <1>1, <1>2, <1>3, PTL DEF PoolSpec

(***************************************************************************)
(* Texts are held once.                                                    *)
(***************************************************************************)
Held(m) == IF m = HubMember THEN hub ELSE holds[m]

Holders == DOMAIN holds \cup {HubMember}

\* The invariant: no text is held twice, and IPv4 has canonical ones only.
TextsUnique ==
  /\ \A m, n \in Holders : Held(m) = Held(n) => m = n
  /\ prefix.family = "v4" => \A m \in Holders : Held(m).spelling = "canonical"

\* A client that is given a text no one else holds leaves the invariant true.
LEMMA HoldKeepsUnique ==
  ASSUME PoolInv, TextsUnique, NEW c \in Client, NEW t, Hold(c, t),
         UNCHANGED <<prefix, hub>>,
         \A m \in Holders \ {c} : Held(m) # t,
         prefix.family = "v4" => t.spelling = "canonical"
  PROVE  TextsUnique'
<1>1. c # HubMember /\ DOMAIN holds \subseteq Client /\ HubMember \notin DOMAIN holds
  BY PoolAssumption DEF PoolAssumption, PoolInv, PoolTypeOK
<1>2. Holders' = Holders \cup {c}
  BY DEF Hold, Holders
<1>3. \A m \in Holders \ {c} : Held(m)' = Held(m)
  BY <1>1 DEF Hold, Held, Holders
<1>4. Held(c)' = t
  BY <1>1 DEF Hold, Held
<1> QED BY <1>2, <1>3, <1>4 DEF TextsUnique

LEMMA AllocatedUnique ==
  ASSUME PoolInv, TextsUnique, Allocate
  PROVE  /\ scan.client \in Client
         /\ Canonical(scan.at).spelling = "canonical"
         /\ \A m \in Holders : Held(m) # Canonical(scan.at)
<1>1. \A m \in Holders : Held(m).value \in Taken
  BY DEF Holders, Held, Taken
<1> QED BY <1>1 DEF Canonical, Allocate, PoolInv, PoolTypeOK

LEMMA RequestedUnique ==
  ASSUME PoolInv, TextsUnique, NEW c \in Client, NEW t \in Text, TakeRequested(c, t)
  PROVE  /\ \A m \in Holders \ {c} : Held(m) # t
         /\ prefix.family = "v4" => t.spelling = "canonical"
<1>1. CASE CheckAddrFree(t, c)
  BY <1>1, PoolAssumption DEF PoolAssumption, PoolInv, PoolTypeOK, CheckAddrFree, Parsable, Holders, Held
<1>2. CASE c \in DOMAIN holds /\ holds[c] = t
  BY <1>2, PoolAssumption DEF PoolAssumption, Holders, Held, TextsUnique
<1> QED BY <1>1, <1>2 DEF TakeRequested

LEMMA TextsUniqueStep == PoolInv /\ TextsUnique /\ [PoolNext]_poolVars => TextsUnique'
<1> SUFFICES ASSUME PoolInv, TextsUnique, [PoolNext]_poolVars PROVE TextsUnique'
  OBVIOUS
<1>1. ASSUME NEW c \in Client, RemoveClient(c) PROVE TextsUnique'
  <2>1. HubMember \notin DOMAIN holds
    BY PoolAssumption DEF PoolAssumption, PoolInv, PoolTypeOK
  <2>2. Holders' \subseteq Holders /\ \A m \in Holders' : Held(m)' = Held(m)
    BY <1>1, <2>1 DEF RemoveClient, Holders, Held
  <2> QED BY <1>1, <2>2 DEF TextsUnique, RemoveClient
<1>2. CASE Allocate
  BY <1>2, AllocatedUnique, HoldKeepsUnique DEF Allocate
<1>3. ASSUME NEW c \in Client, NEW t \in Text, TakeRequested(c, t) PROVE TextsUnique'
  BY <1>3, RequestedUnique, HoldKeepsUnique DEF TakeRequested
<1>4. ASSUME UNCHANGED <<prefix, hub, holds>> PROVE TextsUnique'
  BY <1>4 DEF TextsUnique, Holders, Held
<1> QED BY <1>1, <1>2, <1>3, <1>4 DEF PoolNext, StartScan, StepOver, Exhausted, poolVars

LEMMA TextsUniqueInitially == PoolInit => TextsUnique
BY DEF PoolInit, HubChoice, Canonical, Parsable, TextsUnique, Holders, Held

\* Two members hold one address only in two spellings, of an IPv6 range.
THEOREM AddressesHeldOnce == PoolSpec => []OneHolder
<1>1. PoolInv /\ TextsUnique => OneHolder
  <2> SUFFICES ASSUME PoolInv, TextsUnique, NEW m \in Holders, NEW n \in Holders,
                      m # n, Held(m).value = Held(n).value
               PROVE  prefix.family = "v6" /\ Held(m).spelling # Held(n).spelling
    BY DEF OneHolder, Holders, Held
  <2>1. \A x \in Holders : Held(x) \in Text \cup {Canonical(Invalid)}
    BY DEF PoolInv, PoolTypeOK, Holders, Held
  <2>2. \A x, y \in Text \cup {Canonical(Invalid)} :
          x.value = y.value /\ x.spelling = y.spelling => x = y
    BY DEF Text, Canonical
  <2>3. Held(m).spelling # Held(n).spelling
    BY <2>1, <2>2 DEF TextsUnique
  <2>4. prefix.family \in {"v4", "v6"}
    BY PoolAssumption DEF PoolAssumption, PoolInv, PoolTypeOK, Prefix
  <2> QED BY <2>3, <2>4 DEF TextsUnique
<1> QED BY PoolInvariant, TextsUniqueInitially, TextsUniqueStep, <1>1, PTL DEF PoolSpec

(***************************************************************************)
(* The pool implements AddressLease: what Allocate and TakeRequested write *)
(* is an Assign, what RemoveClient does a Release, all else stutters.      *)
(***************************************************************************)
Lease == [m \in DOMAIN holds \cup {HubMember} |-> IF m = HubMember THEN hub ELSE holds[m]]

LEMMA HoldAssigns ==
  ASSUME PoolInv, NEW c \in Client, NEW t \in Text, Hold(c, t), UNCHANGED <<prefix, hub>>,
         \A m \in Holders \ {c} : Held(m) # t
  PROVE  PoolLease!Assign(c, t)
<1>1. c # HubMember
  BY PoolAssumption DEF PoolAssumption
<1>2. DOMAIN Lease = Holders /\ \A m \in Holders : Lease[m] = Held(m)
  BY DEF Lease, Holders, Held
<1>3. \A m \in DOMAIN Lease \ {c} : Lease[m] # t
  BY <1>2
<1>4. Lease' = [m \in DOMAIN Lease \cup {c} |-> IF m = c THEN t ELSE Lease[m]]
  BY <1>1 DEF Lease, Hold
<1> QED BY <1>3, <1>4 DEF PoolLease!Assign, Lease

LEMMA LeaseStep ==
  ASSUME PoolInv, TextsUnique, [PoolNext]_poolVars
  PROVE  [PoolLease!Next]_Lease
<1>1. ASSUME NEW c \in Client, RemoveClient(c) PROVE PoolLease!Next
  <2>1. c # HubMember /\ c \in DOMAIN Lease
    BY <1>1, PoolAssumption DEF PoolAssumption, RemoveClient, Lease
  <2>2. Lease' = [m \in DOMAIN Lease \ {c} |-> Lease[m]]
    BY <1>1, <2>1 DEF RemoveClient, Lease
  <2> QED BY <2>1, <2>2 DEF PoolLease!Next, PoolLease!Release, Lease
<1>2. CASE Allocate
  <2>1. scan.at \in Bit
    BY <1>2, NotPastEndUsable DEF Allocate, PoolInv, PoolTypeOK, Searched
  <2>2. Canonical(scan.at) \in Text
    BY <2>1 DEF Canonical, Text
  <2>3. scan.client \in Client /\ \A m \in Holders : Held(m) # Canonical(scan.at)
    BY <1>2, AllocatedUnique
  <2>4. PICK c \in Client, t \in Text : c = scan.client /\ t = Canonical(scan.at)
    BY <2>2, <2>3
  <2>5. PoolLease!Assign(c, t)
    BY <1>2, <2>3, <2>4, HoldAssigns DEF Allocate
  <2> QED BY <2>5 DEF PoolLease!Next
<1>3. ASSUME NEW c \in Client, NEW t \in Text, TakeRequested(c, t) PROVE PoolLease!Next
  <2>1. PoolLease!Assign(c, t)
    BY <1>3, RequestedUnique, HoldAssigns DEF TakeRequested
  <2> QED BY <2>1 DEF PoolLease!Next
<1>4. ASSUME UNCHANGED <<prefix, hub, holds>> PROVE UNCHANGED Lease
  BY <1>4 DEF Lease
<1> QED BY <1>1, <1>2, <1>3, <1>4 DEF PoolNext, StartScan, StepOver, Exhausted, poolVars

LEMMA LeaseInitially == PoolInit => PoolLease!Init
<1> SUFFICES ASSUME PoolInit PROVE PoolLease!Init
  OBVIOUS
<1>1. Lease = [m \in {HubMember} |-> hub] /\ hub \in Text \cup {Canonical(Invalid)}
  BY DEF PoolInit, Lease
<1> QED BY <1>1 DEF PoolLease!Init, PoolLease!Start, Lease

\* Searches and requests together are a lease of texts: each to one at a time.
THEOREM PoolImplementsLease == PoolSpec => PoolIsLeased
<1>1. PoolInv /\ TextsUnique /\ [PoolNext]_poolVars => [PoolLease!Next]_Lease
  BY LeaseStep
<1> QED BY PoolInvariant, TextsUniqueInitially, TextsUniqueStep, LeaseInitially, <1>1, PTL
        DEF PoolSpec, PoolIsLeased, PoolLease!Spec, Lease

=============================================================================
