---------------------------- MODULE AddressTable ----------------------------
(***************************************************************************)
(* The address table: an index for every address that was registered.      *)
(* Indices are stored plus one, so that 0 means absent.                    *)
(***************************************************************************)
EXTENDS Naturals

CONSTANT TableAddresses    \* the addresses that are registered

VARIABLES
    numItems,
    byAddress,   \* index plus one, 0 for none
    backing,     \* the address at index plus one
    promised     \* the indices that callers were told: <<address, index>>

tableVars == <<numItems, byAddress, backing, promised>>

None == "none"

TableInit ==
    /\ numItems = 0
    /\ byAddress = [a \in TableAddresses |-> 0]
    /\ backing = [i \in {} |-> None]
    /\ promised = {}

\* Fault: an address that is registered gets a new index.
RegisterAgain(a) ==
    /\ numItems < 4
    /\ backing' = [i \in 1..numItems + 1 |-> IF i = numItems + 1 THEN a ELSE backing[i]]
    /\ byAddress' = [byAddress EXCEPT ![a] = numItems + 1]
    /\ numItems' = numItems + 1
    /\ promised' = promised \cup {<<a, numItems>>}

Register(a) ==
    IF byAddress[a] # 0
    THEN /\ promised' = promised \cup {<<a, byAddress[a] - 1>>}
         /\ UNCHANGED <<numItems, byAddress, backing>>
    ELSE /\ backing' = [i \in 1..numItems + 1 |-> IF i = numItems + 1 THEN a ELSE backing[i]]
         /\ byAddress' = [byAddress EXCEPT ![a] = numItems + 1]
         /\ numItems' = numItems + 1
         /\ promised' = promised \cup {<<a, numItems>>}

\* The method register of the precompile: the gas the table burned is compared with
\* the limit after the fact, and a shortage reverts the frame.
RegisterCall(a, enoughGas) == enoughGas /\ Register(a)

Lookup(a) == IF byAddress[a] = 0 THEN None ELSE byAddress[a] - 1

LookupIndex(i) == IF i >= numItems THEN None ELSE backing[i + 1]

TableNext == \E a \in TableAddresses, enoughGas \in BOOLEAN : RegisterCall(a, enoughGas)

TableSpec == TableInit /\ [][TableNext]_tableVars

-----------------------------------------------------------------------------
\* An index a contract was once told stays that of the address for good, in both
\* directions, and nobody else's.
IndicesStable ==
    \A p \in promised :
        /\ byAddress[p[1]] # 0 /\ Lookup(p[1]) = p[2]
        /\ LookupIndex(p[2]) = p[1]
=============================================================================
