----------------------------- MODULE AddressSets -----------------------------
(***************************************************************************)
(* The address set of ArbOS as it lies in storage: `slot` holds the size   *)
(* at 0 and the members from 1 on, `position` maps an address to its place *)
(* in the list and to 0 for a non-member.  Addresses are the words they    *)
(* are stored as, 0 the zero address.                                      *)
(***************************************************************************)
EXTENDS Naturals, FiniteSets

CONSTANTS
    Addresses,   \* the addresses that occur
    MaxSize      \* the largest size of a set

ASSUME AddressesAssumption == Addresses \subseteq Nat /\ 0 \in Addresses
ASSUME MaxSizeAssumption == MaxSize \in Nat

AddressSetType == [slot : [0..MaxSize -> Nat], position : [Addresses -> 0..MaxSize]]

EmptySet == [slot |-> [i \in 0..MaxSize |-> 0], position |-> [a \in Addresses |-> 0]]

Size(s) == s.slot[0]

IsMember(s, a) == s.position[a] # 0

Members(s) == {a \in Addresses : IsMember(s, a)}

AllMembers(s) == {s.slot[i] : i \in 1..Size(s)}

Add(s, a) ==
    IF IsMember(s, a) THEN s
    ELSE [slot |-> [s.slot EXCEPT ![Size(s) + 1] = a, ![0] = Size(s) + 1],
          position |-> [s.position EXCEPT ![a] = Size(s) + 1]]

\* The list goes, the positions stay.
ClearList(s) ==
    [slot |-> [i \in 0..MaxSize |-> IF i <= Size(s) THEN 0 ELSE s.slot[i]],
     position |-> s.position]

\* Fault: the member that is moved into the gap keeps its old position.
RemoveStale(s, a) ==
    LET p == s.position[a]
        n == Size(s)
        moved == IF p = n THEN s.slot ELSE [s.slot EXCEPT ![p] = s.slot[n]]
    IN IF p = 0 THEN s
       ELSE [slot |-> [[moved EXCEPT ![n] = 0] EXCEPT ![0] = IF n = 0 THEN 0 ELSE n - 1],
             position |-> [s.position EXCEPT ![a] = 0]]

\* Fault: the entry is cleared first, and the last entry moved even into its own place.
RemoveResurrects(s, a) ==
    LET p == s.position[a]
        n == Size(s)
    IN IF p = 0 THEN s
       ELSE [slot |-> [[s.slot EXCEPT ![p] = s.slot[n]]
                          EXCEPT ![n] = 0, ![0] = IF n = 0 THEN 0 ELSE n - 1],
             position |-> [s.position EXCEPT ![a] = 0, ![s.slot[n]] = p]]

\* The last entry moves into the gap.  With an empty list the last entry is the
\* cell of the size itself, which reads as the zero address.
Remove(s, a) ==
    LET p == s.position[a]
        n == Size(s)
        last == s.slot[n]
        moved == IF p = n THEN s
                 ELSE [slot |-> [s.slot EXCEPT ![p] = last],
                       position |-> [s.position EXCEPT ![last] = p]]
    IN IF p = 0 THEN s
       ELSE [slot |-> [[moved.slot EXCEPT ![n] = 0] EXCEPT ![0] = IF n = 0 THEN 0 ELSE n - 1],
             position |-> [moved.position EXCEPT ![a] = 0]]
=============================================================================
