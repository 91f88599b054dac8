------------------------------ MODULE MCParity ------------------------------
(***************************************************************************)
(* Instances of Parity for TLC.                                            *)
(***************************************************************************)
EXTENDS Parity, TLC

CONSTANTS a1, a2, s1, s2

Store(x, y) == s1 :> x @@ s2 :> y
State(x, y) == a1 :> x @@ a2 :> y

Flags(t, f, s) == [tool |-> t, failFast |-> f, skip |-> s, floor |-> TRUE]

RecordModes == {[Flags("record", FALSE, FALSE) EXCEPT !.floor = b] : b \in BOOLEAN}

MCModes == {Flags("check", FALSE, FALSE), Flags("check", TRUE, TRUE), Flags("check", FALSE, TRUE),
            Flags("vector", FALSE, FALSE)} \cup RecordModes

MCUnproven == {<<a1, s2>>}

\* The ArbOS account holds slots, with an empty info or not; the other account
\* is absent, funded, or present and empty.
MCParents ==
    {State(Present("Code", Store(1, 1)), Absent),
     State(Present("Empty", Store(1, 1)), Present("Funded", Zero)),
     State(Present("Code", Store(1, 0)), Present("Empty", Zero))}

MCPosts ==
    {State(a, b) :
        a \in {Present("Code", f) : f \in Storages}
              \cup {Present("Empty", Store(1, 1)), Present("Empty", Store(0, 1)), Absent}
              \cup {Present("Funded", Store(1, 1)), Present("Funded", Store(0, 1))},
        b \in {Absent, Present("Funded", Zero), Present("Empty", Zero), Present("Code", Store(1, 0))}}

\* Nitro and the engine differ in one account at most: both tools compare account by account.
MCCompared == pc # "done" /\ pc' = "done" /\ ~Recording => \E a \in Addr : post'[a] = db[a]

\* A block of three transactions is followed to its end unless an earlier one than the last
\* disagreed with its receipt: no verdict depends on what comes after.  A recorded block
\* is followed if none of its results disagreed: no read depends on them.  What is
\* created and destroyed in one transaction wrote every slot or none.
MCFollowed ==
    /\ IF Recording THEN \A i \in 1 .. NumTx : \A r \in history[i] : ~CompareTx(r.o)
       ELSE ~("tx" \in mism /\ tx \in 2 .. NumTx /\ pc \in {"live", "vector"})
    /\ \A i \in 1 .. NumTx : \A r \in history[i] :
          r.e.created /\ r.e.destroyed => r.e.stor[s1] = r.e.stor[s2]

\* The last transaction of a recorded block fails, and Nitro's post-state, on which no read
\* depends, is that of the parent.  Where the replay need not repeat anything, one
\* transaction has an effect, in the block and in the replay.
MCRecorded ==
    Recording => /\ post' = post /\ (tx = NumTx /\ tx' > tx => UNCHANGED <<db, history>>)
                 /\ ~mode.floor /\ tx > 1 /\ tx' > tx => UNCHANGED <<db, history>>

MCOutcomes == {[success |-> TRUE, logs |-> <<1>>], [success |-> TRUE, logs |-> <<>>],
               [success |-> FALSE, logs |-> <<>>]}
MCNitroOutcome == [success |-> TRUE, logs |-> <<1>>]
=============================================================================
