----------------------------- MODULE AddressLease -----------------------------
(***************************************************************************)
(* What the coordinator promises about mesh addresses, apart from how it   *)
(* finds them: a member holds one address at a time, an address is given   *)
(* to a member only while no other holds it, one assignment at a time, and *)
(* a mesh that starts over starts with one member.                         *)
(***************************************************************************)
CONSTANTS
  Member,  \* who may hold an address
  Address  \* what may be held

VARIABLE lease  \* the members that hold an address -> the one they hold

Start(held) == \E m \in Member, a \in Address : held = [x \in {m} |-> a]

Assign(m, a) ==
  /\ \A x \in DOMAIN lease \ {m} : lease[x] # a
  /\ lease' = [x \in DOMAIN lease \cup {m} |-> IF x = m THEN a ELSE lease[x]]

Release(m) ==
  /\ m \in DOMAIN lease
  /\ lease' = [x \in DOMAIN lease \ {m} |-> lease[x]]

Init == Start(lease)

Next ==
  \/ \E m \in Member, a \in Address : Assign(m, a)
  \/ \E m \in Member : Release(m)
  \/ Start(lease')

Spec == Init /\ [][Next]_lease

=============================================================================
