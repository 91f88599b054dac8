------------------------------- MODULE Parity -------------------------------
(***************************************************************************)
(* The parity tools.  replay_block executes a block of Nitro's against the *)
(* parent state read from a node, compares every transaction with its      *)
(* receipt, and then either recomputes the state root from its own net     *)
(* writes (the check mode) or writes a self-contained fixture that         *)
(* replay_fixture executes again with no node (the record mode).  The      *)
(* vector runner executes a captured case over a database that answers     *)
(* from proven state only, and compares its post-state root (the vector    *)
(* mode).                                                                  *)
(*                                                                         *)
(* The engine may be wrong: a transaction has any effect on one account,   *)
(* and Nitro's post-state is any state, which the tools first read when    *)
(* they compare.  A trie root stands for the state it commits to; the      *)
(* recomputation of a root after a removal may go wrong when the sibling   *)
(* that is left is known by its hash only.                                 *)
(***************************************************************************)
EXTENDS Naturals, FiniteSets, Sequences

CONSTANTS
    Addr, Slot,
    ArbosAccount,    \* the account that holds the ArbOS version slots
    VersionSlot,     \* the slot both tools probe before they execute
    NumTx,           \* transactions in the block, the first by the system sender
    MaxAttempts,     \* EXEC_MAX_ATTEMPTS
    Modes,           \* tool and flags: [tool, failFast, skip, floor]
    Unproven,        \* slots, as <<account, slot>>, that a case may fail to prove
    Parents,         \* states of block N-1
    Posts,           \* states of block N, as Nitro computed them
    Outcomes,        \* transaction results
    NitroOutcome     \* what the receipts say

ASSUME BlockAssumption == NumTx \in Nat
ASSUME ArbosAssumption == ArbosAccount \in Addr /\ VersionSlot \in Slot

VARIABLES
    pc,         \* "live", "finish", "replay", "vector" or "done"
    mode, parent, post,
    tx,         \* the next transaction
    attempt,    \* the attempts made at it
    db,         \* the engine's committed state (the CacheDB)
    writes,     \* net writes of the block
    rec,        \* what the RecordingDb holds, and every key the engine asked for
    fresh,      \* accounts created or destroyed: the cache answers for their slots
    mism,       \* kinds of mismatch found
    history,    \* history[i]: how transaction i ran live, {} when it did not
    expected,   \* expected_state of the fixture
    deltas      \* what the vector runner recorded of the commits

vars == <<pc, mode, parent, post, tx, attempt, db, writes, rec, fresh, mism, history, expected, deltas>>

Checking == mode.tool = "check"
Recording == mode.tool = "record"

-----------------------------------------------------------------------------
(* Accounts.  Code stands for a nonce or code, Funded for a balance only.  *)

Zero == [s \in Slot |-> 0]
Storages == [Slot -> 0..1]
Absent == [present |-> FALSE, info |-> "Empty", stor |-> Zero]
Present(i, f) == [present |-> TRUE, info |-> i, stor |-> f]
EmptyAccount(i, f) == i = "Empty" /\ f = Zero
Infos == {"Empty", "Funded", "Code"}
Account == {Absent} \cup {Present(i, f) : i \in Infos, f \in Storages}

ASSUME ParentsAssumption == Parents \subseteq [Addr -> Account]

\* What a transaction leaves in the journal for the one account it is about.
Journal(i, f, c, d) == [info |-> i, stor |-> f, created |-> c, destroyed |-> d]

Effects(acc) ==
    {Journal(acc.info, acc.stor, FALSE, FALSE)}
    \cup {Journal(i, acc.stor, FALSE, FALSE) :
             i \in IF acc.info = "Code" THEN {} ELSE {"Empty", "Funded"} \ {acc.info}}
    \cup {Journal(acc.info, f, FALSE, FALSE) :
             f \in IF acc.info = "Code" THEN Storages
                   ELSE IF acc.stor # Zero THEN Storages \ {Zero} ELSE {}}
    \cup {Journal("Code", f, TRUE, FALSE) :
             f \in IF acc.info # "Code" /\ acc.stor = Zero THEN Storages ELSE {}}
    \cup {Journal("Empty", Zero, TRUE, FALSE) : z \in IF acc.present THEN {} ELSE {1}}
    \cup {Journal("Code", acc.stor, FALSE, TRUE) : z \in IF acc.info = "Code" THEN {1} ELSE {}}
    \cup {Journal("Code", f, TRUE, TRUE) :
             f \in IF acc.info # "Code" /\ acc.stor = Zero THEN Storages ELSE {}}

\* The commit: a destroyed account goes, and so does an empty one nobody created.
Committed(e) ==
    IF e.destroyed \/ (EmptyAccount(e.info, e.stor) /\ ~e.created)
    THEN Absent ELSE Present(e.info, e.stor)

Changed(acc, e) == {s \in Slot : e.stor[s] # acc.stor[s]}

-----------------------------------------------------------------------------
(* The recorder.  Only a first touch reaches it: the cache sits above.     *)

NoRecord == [accounts |-> {}, slots |-> {}, askedBasic |-> {}, askedSlots |-> {}]

RecordBasic(r, a) ==
    [r EXCEPT !.accounts = IF parent[a].present THEN @ \cup {a} ELSE @,
              !.askedBasic = @ \cup {a}]

\* Fault: the recorder sits above the cache and logs what execution produced.
RecordSlotsAboveCache(r, a, S) ==
    [r EXCEPT !.slots = {t \in @ : t[1] # a \/ t[2] \notin S}
                        \cup {<<a, s, db[a].stor[s]>> : s \in S},
              !.askedSlots = @ \cup {<<a, s>> : s \in S}]

RecordSlots(r, a, S) ==
    [r EXCEPT !.slots = @ \cup {<<a, s, parent[a].stor[s]>> : s \in S},
              !.askedSlots = @ \cup {<<a, s>> : s \in S}]

\* A transaction loads its account, and the slots it writes unless the cache
\* knows that the account started empty.
SlotsRead(a, e) == IF a \in fresh \/ e.created \/ ~parent[a].present THEN {} ELSE Changed(db[a], e)
RecordReads(a, e) == RecordSlots(RecordBasic(rec, a), a, SlotsRead(a, e))

\* read_effective_version reads the slot past the cache, with no account read;
\* the feature word is then read through the cache, which loads the account.
Probe(r) == RecordBasic(RecordSlots(r, ArbosAccount, {VersionSlot}), ArbosAccount)

\* The prestate of a fixture: slots of an account that was not recorded are dropped.
ToPrestate ==
    [a \in rec.accounts |->
        [info |-> parent[a].info, slots |-> {t \in rec.slots : t[1] = a}]]

\* The in-memory database a fixture starts from.
SeedDb ==
    [a \in Addr |->
        IF a \notin DOMAIN ToPrestate THEN Absent
        ELSE LET entries == ToPrestate[a].slots
             IN Present(ToPrestate[a].info,
                        [s \in Slot |-> IF \E t \in entries : t[2] = s
                                        THEN (CHOOSE t \in entries : t[2] = s)[3] ELSE 0])]

-----------------------------------------------------------------------------
(* The net write set.                                                      *)

NoWrite == [hit |-> FALSE, created |-> FALSE, info |-> "None", stor |-> [s \in {} |-> 0]]
NoWrites == [a \in Addr |-> NoWrite]

InfoChanged(acc, e) == e.info # acc.info \/ e.created \/ e.destroyed

\* Fault: a later transaction does not overwrite what an earlier one wrote.
MergeFirstWrite(w, acc, e) ==
    LET changed == Changed(acc, e) IN
    IF ~InfoChanged(acc, e) /\ changed = {} THEN w
    ELSE [hit |-> TRUE,
          created |-> w.created \/ e.created,
          info |-> IF w.info = "None" /\ InfoChanged(acc, e) THEN e.info ELSE w.info,
          stor |-> [s \in DOMAIN w.stor \cup changed |->
                       IF s \in DOMAIN w.stor THEN w.stor[s] ELSE e.stor[s]]]

MergeWrite(w, acc, e) ==
    LET changed == Changed(acc, e) IN
    IF ~InfoChanged(acc, e) /\ changed = {} THEN w
    ELSE [hit |-> TRUE,
          created |-> w.created \/ e.created,
          info |-> IF InfoChanged(acc, e) THEN e.info ELSE w.info,
          stor |-> [s \in DOMAIN w.stor \cup changed |->
                       IF s \in changed THEN e.stor[s] ELSE w.stor[s]]]

Written == {a \in Addr : writes[a].hit}

\* Results agree when the status and every log do; success stands for the gas used and
\* the created address as well, which are compared alike.
CompareLogs(actual, want) ==
    \/ Len(actual) # Len(want)
    \/ \E i \in DOMAIN actual \cap DOMAIN want : actual[i] # want[i]
CompareTx(got) == got.success # NitroOutcome.success \/ CompareLogs(got.logs, NitroOutcome.logs)

\* The fixture's oracle: Nitro's value of every field and slot we wrote.
BuildExpectedState(p) ==
    [a \in Written |->
        [info |-> IF writes[a].info = "None" THEN "None" ELSE p[a].info,
         stor |-> [s \in DOMAIN writes[a].stor |-> p[a].stor[s]]]]

CompareState ==
    \E a \in DOMAIN expected :
        \/ expected[a].info # "None" /\ writes[a].info # expected[a].info
        \/ \E s \in DOMAIN expected[a].stor :
               s \notin DOMAIN writes[a].stor \/ writes[a].stor[s] # expected[a].stor[s]

-----------------------------------------------------------------------------
(* The state root check.  A set in `lost` names the storage tries whose    *)
(* recomputation went wrong.                                               *)

Deleting == {a \in Written : \E s \in DOMAIN writes[a].stor : writes[a].stor[s] = 0}

\* A slot goes away while a slot that was not written keeps its branch alive.
MayCollapse ==
    {a \in Deleting :
        /\ \E s \in DOMAIN writes[a].stor : writes[a].stor[s] = 0 /\ parent[a].stor[s] # 0
        /\ \E s \in Slot \ DOMAIN writes[a].stor : parent[a].stor[s] # 0}

PostInfo(a) == IF writes[a].info = "None" THEN parent[a].info ELSE writes[a].info
PostStorage(a) ==
    [s \in Slot |-> IF s \in DOMAIN writes[a].stor THEN writes[a].stor[s] ELSE parent[a].stor[s]]

PostLeaf(a) ==
    IF EmptyAccount(PostInfo(a), PostStorage(a)) /\ ~writes[a].created
    THEN Absent ELSE Present(PostInfo(a), PostStorage(a))

\* recompute_root over the parent's proofs and our leaves.
Recomputed == [a \in Addr |-> IF a \in Written THEN PostLeaf(a) ELSE parent[a]]

\* The control: the unchanged accounts, encoded again, give the parent's root.
ControlHolds == \A a \in Written : parent[a].present => ~EmptyAccount(parent[a].info, parent[a].stor)

AgreesWithCanonical(a, p) ==
    /\ PostInfo(a) = p[a].info
    /\ \A s \in DOMAIN writes[a].stor : writes[a].stor[s] = p[a].stor[s]

Patched(p) ==
    [a \in Addr |->
        IF a \notin Deleting THEN Recomputed[a]
        ELSE IF EmptyAccount(PostInfo(a), p[a].stor) THEN Absent
        ELSE Present(PostInfo(a), p[a].stor)]

\* Fault: every mismatch is reported at once.
NoRecheck(p) == FALSE

\* deletion_collapse_recheck, TRUE when the mismatch was an artifact.
DeletionCollapseRecheck(p) ==
    /\ Deleting # {}
    /\ \A a \in Deleting : AgreesWithCanonical(a, p)
    /\ Patched(p) = p

\* An account leaves the account trie, which may collapse a branch of it.
AccountRemoved == \E a \in Written : parent[a].present /\ ~PostLeaf(a).present

\* witness_state_root_check, TRUE for a match.
WitnessStateRootCheck(p, lost, trieLost) ==
    /\ ControlHolds
    /\ \/ lost = {} /\ ~trieLost /\ Recomputed = p
       \/ ~trieLost /\ DeletionCollapseRecheck(p)

\* verify_writes_against_state_root: the accounts whose written fields or slots
\* are not proven under Nitro's root.
WrongWrites(p) ==
    {a \in Written :
        \/ ~p[a].present
        \/ writes[a].info \notin {"None", p[a].info}
        \/ \E s \in DOMAIN writes[a].stor : writes[a].stor[s] # p[a].stor[s]}
Diagnosis(p) == IF WrongWrites(p) = {} THEN "missing write" ELSE "wrong write"

-----------------------------------------------------------------------------
(* The vector runner: the commits it records and the root it derives.      *)

NoDelta == [touched |-> FALSE, exists |-> FALSE, info |-> "Empty", stor |-> [s \in {} |-> 0]]

\* Fault: a destroyed account keeps the delta it had.
RecordDeltaKept(d, acc, e) ==
    IF e.destroyed THEN d
    ELSE [touched |-> TRUE, exists |-> TRUE, info |-> e.info,
          stor |-> [s \in DOMAIN d.stor \cup Changed(acc, e) |->
                       IF s \in Changed(acc, e) THEN e.stor[s] ELSE d.stor[s]]]

RecordDelta(d, acc, e) ==
    IF e.destroyed
    THEN [touched |-> TRUE, exists |-> FALSE, info |-> "Empty", stor |-> [s \in {} |-> 0]]
    ELSE LET old == IF e.created THEN [s \in {} |-> 0] ELSE d.stor
             changed == Changed(acc, e)
         IN [touched |-> TRUE, exists |-> TRUE, info |-> e.info,
             stor |-> [s \in DOMAIN old \cup changed |->
                          IF s \in changed THEN e.stor[s] ELSE old[s]]]

PostStateRoot ==
    [a \in Addr |->
        IF ~deltas[a].touched THEN parent[a]
        ELSE IF ~deltas[a].exists THEN Absent
        ELSE Present(deltas[a].info,
                     [s \in Slot |-> IF s \in DOMAIN deltas[a].stor THEN deltas[a].stor[s]
                                     ELSE parent[a].stor[s]])]

-----------------------------------------------------------------------------
(* replay_block.                                                           *)

Init ==
    /\ mode \in Modes
    /\ pc = IF mode.tool = "vector" THEN "vector" ELSE "live"
    /\ parent \in Parents
    /\ post = parent
    /\ tx = 1
    /\ attempt = 1
    /\ db = parent
    /\ writes = NoWrites
    /\ rec = Probe(NoRecord)
    /\ fresh = {}
    /\ mism = {}
    /\ history = [i \in 1..NumTx |-> {}]
    /\ expected = [a \in {} |-> NoWrite]
    /\ deltas = [a \in Addr |-> NoDelta]

SkipSystemSender ==
    /\ pc = "live" /\ mode.skip /\ tx = 1
    /\ tx' = 2
    /\ UNCHANGED <<pc, mode, parent, post, attempt, db, writes, rec, fresh, mism, history, expected, deltas>>

Executing == pc = "live" /\ tx <= NumTx /\ ~(mode.skip /\ tx = 1)

\* A node error is retried; what was read before it stays recorded.
RetryTransaction(a) ==
    /\ Executing
    /\ attempt < MaxAttempts
    /\ attempt' = attempt + 1
    /\ rec' = RecordBasic(rec, a)
    /\ UNCHANGED <<pc, mode, parent, post, tx, db, writes, fresh, mism, history, expected, deltas>>

\* The attempts are used up, or the error is not one of the node's.
TransactionError ==
    /\ Executing
    /\ mism' = mism \cup {"tx"}
    /\ attempt' = 1
    /\ pc' = IF mode.failFast THEN "finish" ELSE pc
    /\ tx' = IF mode.failFast THEN tx ELSE tx + 1
    /\ UNCHANGED <<mode, parent, post, db, writes, rec, fresh, history, expected, deltas>>

\* Merge the net writes and commit.
Commit(a, e) ==
    /\ writes' = [writes EXCEPT ![a] = MergeWrite(@, db[a], e)]
    /\ db' = [db EXCEPT ![a] = Committed(e)]
    /\ fresh' = IF e.created \/ e.destroyed THEN fresh \cup {a} ELSE fresh
    /\ tx' = tx + 1

ExecuteTransaction(a, e, o) ==
    /\ Executing
    /\ rec' = RecordReads(a, e)
    /\ mism' = IF CompareTx(o) THEN mism \cup {"tx"} ELSE mism
    /\ attempt' = 1
    /\ IF CompareTx(o) /\ mode.failFast
       THEN /\ pc' = "finish"
            /\ UNCHANGED <<tx, db, writes, fresh, history>>
       ELSE /\ Commit(a, e)
            /\ history' = [history EXCEPT ![tx] = {[a |-> a, pre |-> db[a], e |-> e, o |-> o]}]
            /\ UNCHANGED pc
    /\ UNCHANGED <<mode, parent, post, expected, deltas>>

Finishing == pc = "finish" \/ (pc = "live" /\ tx > NumTx)

\* Without --record: the root is checked unless fail-fast stopped the block.
CheckStateRoot ==
    /\ Finishing /\ Checking
    /\ pc' = "done"
    /\ \E p \in Posts :
        /\ post' = p
        /\ \E lost \in SUBSET MayCollapse, trieLost \in IF AccountRemoved THEN BOOLEAN ELSE {FALSE} :
            mism' = IF pc = "live" /\ ~WitnessStateRootCheck(p, lost, trieLost)
                    THEN mism \cup {Diagnosis(p)} ELSE mism
    /\ UNCHANGED <<mode, parent, tx, attempt, db, writes, rec, fresh, history, expected, deltas>>

\* With --record: write the fixture; replay_fixture then starts from it.
WriteFixture ==
    /\ Finishing /\ Recording
    /\ pc' = "replay"
    /\ \E p \in Posts : post' = p /\ expected' = BuildExpectedState(p)
    /\ db' = SeedDb
    /\ writes' = NoWrites
    /\ fresh' = {}
    /\ tx' = 1
    /\ UNCHANGED <<mode, parent, attempt, rec, mism, history, deltas>>

\* The engine is deterministic: it does again what it did on the same state.  Not so with the
\* calldata floor off: replay_block sets it from the feature word, replay_fixture
\* leaves it on.
Repeats(r) == mode.floor /\ r.pre = db[r.a]

\* One transaction of replay_fixture.
ReplayTransaction(a, e, o) ==
    /\ pc = "replay" /\ tx <= NumTx
    /\ \A r \in history[tx] : Repeats(r) => a = r.a /\ e = r.e /\ o = r.o
    /\ mism' = IF CompareTx(o) THEN mism \cup {"tx"} ELSE mism
    /\ Commit(a, e)
    /\ UNCHANGED <<pc, mode, parent, post, attempt, rec, history, expected, deltas>>

\* A transaction that fails to execute is reported and passed over.
ReplayError ==
    /\ pc = "replay" /\ tx <= NumTx
    /\ \A r \in history[tx] : ~Repeats(r)
    /\ mism' = mism \cup {"tx"}
    /\ tx' = tx + 1
    /\ UNCHANGED <<pc, mode, parent, post, attempt, db, writes, rec, fresh, history, expected, deltas>>

ReplayReport ==
    /\ pc = "replay" /\ tx > NumTx
    /\ pc' = "done"
    /\ mism' = IF CompareState THEN mism \cup {"state"} ELSE mism
    /\ UNCHANGED <<mode, parent, post, tx, attempt, db, writes, rec, fresh, history, expected, deltas>>

\* storage_ref of the strict databases fails for a slot that the case does not prove.
Proven(a, S) == \A s \in S : <<a, s>> \notin Unproven

\* What the runner keeps of a result and compares: not the logs.
TxFromExecution(o) == o.success

\* run_case over a strict database: a read that fails ends the run.
VectorTransaction(a, e, o) ==
    /\ pc = "vector" /\ tx <= NumTx
    /\ Proven(a, SlotsRead(a, e))
    /\ Commit(a, e)
    /\ deltas' = [deltas EXCEPT ![a] = RecordDelta(@, db[a], e)]
    /\ history' = [history EXCEPT ![tx] = {[a |-> a, pre |-> db[a], e |-> e, o |-> TxFromExecution(o)]}]
    /\ mism' = IF TxFromExecution(o) # TxFromExecution(NitroOutcome) THEN mism \cup {"tx"} ELSE mism
    /\ UNCHANGED <<pc, mode, parent, post, attempt, rec, expected>>

\* A read that is not proven, a wrong version or an error of the engine.
VectorError ==
    /\ pc = "vector" /\ tx <= NumTx
    /\ mism' = mism \cup {"error"}
    /\ pc' = "done"
    /\ UNCHANGED <<mode, parent, post, tx, attempt, db, writes, rec, fresh, history, expected, deltas>>

\* The result of StartBlock and the deltas are compared with what was captured, which may be
\* anything; the root with Nitro's.
CompareOutput ==
    /\ pc = "vector" /\ tx > NumTx
    /\ pc' = "done"
    /\ \E p \in Posts, captured \in SUBSET {"capture"} :
        /\ post' = p
        /\ mism' = mism \cup captured \cup (IF PostStateRoot # p THEN {"root"} ELSE {})
    /\ UNCHANGED <<mode, parent, tx, attempt, db, writes, rec, fresh, history, expected, deltas>>

Next ==
    \/ SkipSystemSender
    \/ \E a \in Addr : RetryTransaction(a)
    \/ TransactionError
    \/ \E a \in Addr, o \in Outcomes : \E e \in Effects(db[a]) : ExecuteTransaction(a, e, o)
    \/ CheckStateRoot
    \/ WriteFixture
    \/ \E a \in Addr, o \in Outcomes : \E e \in Effects(db[a]) : ReplayTransaction(a, e, o)
    \/ ReplayError
    \/ ReplayReport
    \/ \E a \in Addr, o \in Outcomes : \E e \in Effects(db[a]) : VectorTransaction(a, e, o)
    \/ VectorError
    \/ CompareOutput

Spec == Init /\ [][Next]_vars

-----------------------------------------------------------------------------
(* Properties.                                                             *)

Destroyed(a) == \E i \in 1..NumTx : \E r \in history[i] : r.a = a /\ r.e.destroyed

\* A transaction touched a present and empty account: the commit removes it, but
\* its info did not change, so that merge_state_writes passes over it.
EmptyTouched(a) ==
    \E i \in 1..NumTx : \E r \in history[i] :
        r.a = a /\ r.pre.present /\ EmptyAccount(r.pre.info, r.pre.stor) /\ ~InfoChanged(r.pre, r.e)

\* An account the block created was emptied by a later transaction: the commit removes it,
\* but `created` stays set in the write set and keeps an empty leaf for it.
Vanished(a) == writes[a].created /\ ~db[a].present

\* A block that passes the check left every account as Nitro did, whatever the
\* engine got wrong on the way and although later transactions overwrite what
\* earlier ones wrote.  The exceptions: the slots we did not write of an account
\* in which we deleted one, which deletion_collapse_recheck documents, and the
\* accounts that our engine removed without a trace in the write set: destroyed
\* ones, whose last info merge_state_writes keeps, touched empty ones, and ones
\* that were created in the block and emptied again.
VerdictSound ==
    (pc = "done" /\ Checking /\ mism = {}) =>
        \A a \in Addr :
            \/ db[a] = post[a]
            \/ Destroyed(a) \/ EmptyTouched(a) \/ Vanished(a)
            \/ a \in Deleting /\ AgreesWithCanonical(a, post)

\* A destroyed contract came back, by a creation or a transfer: post_state_root lays the
\* new slots over the ones the contract had in the parent state.
CameBack(a) ==
    \E i, j \in 1..NumTx : i < j /\ (\E r \in history[i] : r.a = a /\ r.e.destroyed)
                                 /\ (\E r \in history[j] : r.a = a /\ ~r.e.destroyed)

\* An account the block touched and left without content.
LeftEmpty(a) == deltas[a].touched /\ deltas[a].exists /\ ~db[a].present

\* A captured case that passes left every account as Nitro did, destroyed ones
\* included.  The exceptions: an account that was touched and left empty, for
\* which the runner puts an empty leaf into its root, and one that came back
\* after it was destroyed.
VectorSound ==
    (pc = "done" /\ mode.tool = "vector" /\ mism = {}) =>
        \A a \in Addr : db[a] = post[a] \/ LeftEmpty(a) \/ CameBack(a)

\* When the engine did everything Nitro did, the deletion recheck clears the
\* artifacts of the storage recomputation, so that the block passes: unless an
\* account left the trie, one we wrote was present and empty before, or one is
\* among the exceptions above.
NoFalseAlarm ==
    (/\ pc = "done" /\ Checking /\ "tx" \notin mism /\ db = post
     /\ ControlHolds
     /\ \A a \in Written : PostLeaf(a).present
     /\ \A a \in Addr : ~Destroyed(a) /\ ~EmptyTouched(a) /\ ~Vanished(a)) => mism = {}

\* Every read the live engine made is answered by the fixture as the node
\* answered it: the recorder logs first touches only, below the cache, and the
\* slots that to_prestate drops belong to no account that was read.
FixtureAnswersReads ==
    pc # "live" =>
        /\ \A a \in rec.askedBasic : SeedDb[a].present = parent[a].present
                                     /\ SeedDb[a].info = parent[a].info
        /\ \A k \in rec.askedSlots : SeedDb[k[1]].stor[k[2]] = parent[k[1]].stor[k[2]]
=============================================================================
