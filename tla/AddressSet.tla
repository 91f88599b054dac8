----------------------------- MODULE AddressSet -----------------------------
(***************************************************************************)
(* The life of one address set, the chain owners: members come and go, and *)
(* the upgrade to ArbOS 11 clears the list at most once.                   *)
(***************************************************************************)
EXTENDS AddressSets

VARIABLES
    owners,     \* the stored set
    members,    \* who was added and not removed since
    cleared     \* the list was cleared

setVars == <<owners, members, cleared>>

SetInit ==
    /\ owners = EmptySet
    /\ members = {}
    /\ cleared = FALSE

AddMember(a) ==
    /\ Size(owners) < MaxSize
    /\ owners' = Add(owners, a)
    /\ members' = members \cup {a}
    /\ UNCHANGED cleared

\* The callers of remove ask for a member.
RemoveMember(a) ==
    /\ IsMember(owners, a)
    /\ owners' = Remove(owners, a)
    /\ members' = members \ {a}
    /\ UNCHANGED cleared

ClearOnUpgrade ==
    /\ ~cleared
    /\ owners' = ClearList(owners)
    /\ cleared' = TRUE
    /\ UNCHANGED members

SetNext ==
    \/ \E a \in Addresses : AddMember(a)
    \/ \E a \in Addresses : RemoveMember(a)
    \/ ClearOnUpgrade

SetSpec == SetInit /\ [][SetNext]_setVars

-----------------------------------------------------------------------------
\* An address other than zero is a member exactly when it was added and not
\* removed since, before and after the list was cleared.  After the clear, new
\* members share positions with old ones, and a remove moves the wrong entry of
\* the list; neither may lose a member or make one.  (The zero address becomes
\* one when a member is removed from the cleared list.)
MembershipExact == \A a \in Addresses \ {0} : IsMember(owners, a) <=> a \in members

\* Until the list is cleared it names every member once.
ListExact ==
    ~cleared => /\ AllMembers(owners) = members
                /\ Size(owners) = Cardinality(members)

\* Every entry of the list is a member that knows its place.  This is what makes
\* the two properties above inductive.
ListedKnowPlace ==
    \A i \in 1..Size(owners) :
        owners.slot[i] \in Addresses /\ owners.position[owners.slot[i]] = i
=============================================================================
