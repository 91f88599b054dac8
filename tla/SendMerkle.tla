----------------------------- MODULE SendMerkle -----------------------------
(***************************************************************************)
(* The accumulator of L2-to-L1 messages and the ArbSys call that appends   *)
(* to it.  A hash is the tree it stands for: <<i>> a leaf, <<l, r>> a      *)
(* node, <<>> the zero word, which also marks an empty partial.            *)
(***************************************************************************)
EXTENDS Integers, Sequences

CONSTANTS
    MaxSends,    \* bound on the messages
    SendValues   \* the call values

VARIABLES
    sendSize, partials,
    updates,     \* SendMerkleUpdate events: [level, leaves, hash]
    withdrawn,   \* the value that left L2 with the messages
    nativeOwners \* the size of the set of native token owners

sendVars == <<sendSize, partials, updates, withdrawn, nativeOwners>>

Levels == 0..MaxSends

\* The bits of the size: 64 - leading_zeros.
PartialCountForSize(n) == CHOOSE k \in 0..n : 2^k > n /\ (k = 0 \/ 2^(k - 1) <= n)

\* The level at which the carry stops.
CarryLevel(count) ==
    CHOOSE l \in 0..count : (l = count \/ partials[l] = <<>>) /\ \A k \in 0..l - 1 : partials[k] # <<>>

\* Fault: the halves of a node are swapped.
CarriedSwapped(top, leaf) ==
    LET so[l \in 0..top] == IF l = 0 THEN leaf ELSE <<so[l - 1], partials[l - 1]>> IN so

\* The hash the loop carries into each level.
CarriedUpTo(top, leaf) ==
    LET so[l \in 0..top] == IF l = 0 THEN leaf ELSE <<partials[l - 1], so[l - 1]>> IN so

Append1(leaf) ==
    LET top == CarryLevel(PartialCountForSize(sendSize))
        so == CarriedUpTo(top, leaf)
    IN /\ sendSize' = sendSize + 1
       /\ partials' = [l \in Levels |-> IF l = top THEN so[top]
                                        ELSE IF l < top THEN <<>> ELSE partials[l]]
       /\ updates' = updates \cup {[level |-> l, leaves |-> sendSize, hash |-> so[l]] : l \in 1..top}

\* Pad a hash of a smaller capacity with zero words on the right.
Padded(h, from, to) ==
    LET pad[c \in from..to] == IF c = from THEN h ELSE <<pad[c - 1], <<>>>> IN pad[to]

\* The loop of root over the levels: [hash, capacity (a level), some].
Root ==
    LET top == PartialCountForSize(sendSize)
        Step(acc, l) ==
            IF partials[l] = <<>> THEN acc
            ELSE IF acc.some
                 THEN [some |-> TRUE, cap |-> l + 1,
                       hash |-> <<partials[l], Padded(acc.hash, acc.cap, l)>>]
                 ELSE [some |-> TRUE, cap |-> l, hash |-> partials[l]]
        after[l \in 0..top] ==
            IF l = 0 THEN [some |-> FALSE, cap |-> 0, hash |-> <<>>] ELSE Step(after[l - 1], l - 1)
    IN after[top].hash

SendInit ==
    /\ sendSize = 0
    /\ partials = [l \in Levels |-> <<>>]
    /\ updates = {}
    /\ withdrawn = 0
    /\ nativeOwners \in {0, 1}

\* sendTxToL1 and withdrawEth.  A failure reverts the frame and what it did: the
\* restriction on chains with native token owners, and too little gas for what the
\* append cost, which is known only after it.  The burn itself finds its value, the
\* frame has just transferred it.
SendTxToL1(version, value, enoughGas) ==
    /\ sendSize < MaxSends
    /\ ~(version >= 41 /\ value > 0 /\ nativeOwners > 0)
    /\ enoughGas
    /\ Append1(<<sendSize + 1>>)
    /\ withdrawn' = withdrawn + value
    /\ UNCHANGED nativeOwners

NativeOwnerChange ==
    /\ nativeOwners' = 1 - nativeOwners
    /\ UNCHANGED <<sendSize, partials, updates, withdrawn>>

SendNext ==
    \/ \E version \in {40, 41}, value \in SendValues, enoughGas \in BOOLEAN :
           SendTxToL1(version, value, enoughGas)
    \/ NativeOwnerChange

-----------------------------------------------------------------------------
\* The tree over n leaves that an L1 contract builds: the half without a leaf
\* is the zero word.
ReferenceTree(n) ==
    LET depth == CHOOSE d \in 0..n : 2^d >= n /\ (d = 0 \/ 2^(d - 1) < n)
        Leaf(i) == IF i <= n THEN <<i>> ELSE <<>>
        node[d \in 0..depth] ==
            [i \in 0..(2^(depth - d) - 1) |->
                IF d = 0 THEN Leaf(i + 1)
                ELSE IF i * 2^d >= n THEN <<>>
                ELSE <<node[d - 1][2 * i], node[d - 1][2 * i + 1]>>]
    IN node[depth][0]

\* The root computed from the partials is that of the tree over all messages in
\* order, and every announced node is the tree over the leaves it covers, so that
\* a proof built from the events fits the root.
SendTreeExact ==
    /\ Root = IF sendSize = 0 THEN <<>> ELSE ReferenceTree(sendSize)
    /\ \A u \in updates :
        u.hash = LET first == u.leaves + 1 - 2^u.level
                     node[d \in 0..u.level] ==
                         [i \in 0..(2^(u.level - d) - 1) |->
                             IF d = 0 THEN <<first + i + 1>>
                             ELSE <<node[d - 1][2 * i], node[d - 1][2 * i + 1]>>]
                 IN node[u.level][0]
=============================================================================
