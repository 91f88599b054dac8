----------------------------- MODULE BlockHashes -----------------------------
(***************************************************************************)
(* The ring of recent L1 block hashes.  A hash is <<number, "given">> for  *)
(* the hash StartBlock received, <<number, "fill", of>> for a synthetic    *)
(* one, and <<>> for an empty slot.  Before ArbOS 8 a fill does not depend *)
(* on the number it is for.                                                *)
(***************************************************************************)
EXTENDS Naturals, Sequences

CONSTANTS
    RingSize,    \* 256
    MaxL1Block   \* bound on the L1 block numbers

ASSUME RingAssumption == RingSize \in Nat \ {0} /\ MaxL1Block \in Nat

VARIABLES
    ring,        \* ring[n % RingSize]
    nextL1,      \* l1_block_number: the first number not recorded
    known        \* what was last recorded or filled for each number

ringVars == <<ring, nextL1, known>>

Fill(n, of, perNumber) == IF perNumber THEN <<n, "fill", of>> ELSE <<0, "fill", of>>

\* Fault: the window is one block too long.
BlockHashLate(n) ==
    IF n >= nextL1 \/ n + RingSize + 1 < nextL1 THEN <<>> ELSE ring[n % RingSize]

BlockHash(n) ==
    IF n >= nextL1 \/ n + RingSize < nextL1 THEN <<>> ELSE ring[n % RingSize]

RingInit ==
    /\ ring = [i \in 0..RingSize - 1 |-> <<>>]
    /\ nextL1 = 0
    /\ known = [n \in {} |-> <<>>]

\* The numbers that get a synthetic hash: the loop starts one after the first
\* number that was not recorded, and at most a ring's length back.
Gap(number) ==
    LET from == IF nextL1 + RingSize < number THEN number - RingSize ELSE nextL1
    IN from + 1 .. number - 1

\* record_new_l1_block.  The gap is filled in ascending order, so that a later
\* number wins a slot.
RecordNewL1Block(number, perNumber) ==
    /\ number >= nextL1
    /\ LET new == [n \in Gap(number) \cup {number} |->
                      IF n = number THEN <<n, "given">> ELSE Fill(n, number, perNumber)]
           Winner(i) == {n \in DOMAIN new : n % RingSize = i
                                            /\ \A k \in DOMAIN new : k % RingSize = i => k <= n}
       IN /\ ring' = [i \in DOMAIN ring |->
                         IF Winner(i) = {} THEN ring[i] ELSE new[CHOOSE n \in Winner(i) : TRUE]]
          /\ known' = [n \in DOMAIN known \cup DOMAIN new |->
                          IF n \in DOMAIN new THEN new[n] ELSE known[n]]
    /\ nextL1' = number + 1

RingNext == \E number \in 0..MaxL1Block, perNumber \in BOOLEAN : RecordNewL1Block(number, perNumber)

RingSpec == RingInit /\ [][RingNext]_ringVars

-----------------------------------------------------------------------------
\* Inside the window a number that was recorded or filled reads back as that,
\* and outside it as nothing: no jump of the L1 clock, of a ring's length or
\* more, lets the slot of one block be taken for that of another.  The one
\* number a jump leaves out, the first it skips, is not covered: its slot keeps
\* what was there.
HashesInWindow ==
    \A n \in 0..MaxL1Block :
        IF n < nextL1 /\ n + RingSize >= nextL1
        THEN n \in DOMAIN known => BlockHash(n) = known[n]
        ELSE BlockHash(n) = <<>>
=============================================================================
