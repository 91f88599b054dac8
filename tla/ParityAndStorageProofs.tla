----------------------- MODULE ParityAndStorageProofs -----------------------
(***************************************************************************)
(* Two developments.                                                       *)
(*                                                                         *)
(* What the verdicts of the parity tools are worth, for any number of      *)
(* transactions, accounts and slots.  The properties speak of the end of a *)
(* run.  The invariant follows the run: the committed state is what the    *)
(* write set (check mode) or the recorded commits (vector mode) say over   *)
(* the parent state, account by account, except for the accounts the       *)
(* properties except; an account without code and slots has had none       *)
(* deleted; and the recorder holds what the parent answers to every read   *)
(* it saw.                                                                 *)
(*                                                                         *)
(* The structures in ArbOS storage, for all values of their constants: the *)
(* timeout queue implements Fifo, indices of the address table last, the   *)
(* ring holds the latest block hashes, and byte strings read back as they  *)
(* were written.                                                           *)
(***************************************************************************)
EXTENDS Parity, StorageQueue, BlockHashes, StorageBytes, AddressTable, TLAPS

-----------------------------------------------------------------------------
(* Accounts and effects.                                                   *)

\* The two forms of an account.
LEMMA AccountForms ==
    ASSUME NEW x \in Account
    PROVE  /\ x = Absent \/ x = Present(x.info, x.stor)
           /\ x.info \in Infos /\ x.stor \in Storages
           /\ x.present \in BOOLEAN
           /\ x.present <=> x # Absent
<1>1. Zero \in Storages
  BY DEF Zero, Storages
<1>2. CASE x = Absent
  BY <1>1, <1>2 DEF Absent, Infos
<1>3. CASE x # Absent
  <2>1. PICK i \in Infos, f \in Storages : x = Present(i, f)
    BY <1>3 DEF Account
  <2> QED  BY <2>1 DEF Present, Absent
<1> QED  BY <1>2, <1>3

\* What a transaction may leave behind: code goes only with its account, an account without
\* code keeps slots as long as it has any, and one is created only without code and slots.
EffectOK(x, e) ==
    /\ e.info \in Infos /\ e.stor \in Storages
    /\ e.created \in BOOLEAN /\ e.destroyed \in BOOLEAN
    /\ x.info = "Code" => e.info = "Code"
    /\ e.info # "Code" /\ e.stor = Zero => x.stor = Zero
    /\ e.created => x.stor = Zero /\ x.info # "Code"

\* So is a journal entry with these fields.
LEMMA JournalOK ==
    ASSUME NEW x, NEW i \in Infos, NEW f \in Storages, NEW c \in BOOLEAN, NEW d \in BOOLEAN,
           x.info = "Code" => i = "Code",
           i # "Code" /\ f = Zero => x.stor = Zero,
           c => x.stor = Zero /\ x.info # "Code"
    PROVE  EffectOK(x, Journal(i, f, c, d))
<1> DEFINE e == Journal(i, f, c, d)
<1>1. e.info = i /\ e.stor = f
  BY DEF Journal
<1>2. e.created = c
  BY Zenon DEF Journal
<1>3. e.destroyed = d
  BY Zenon DEF Journal
<1> HIDE DEF e
<1>4. e.created \in BOOLEAN /\ e.destroyed \in BOOLEAN
  BY Zenon, <1>2, <1>3
<1>5. e.created => x.stor = Zero /\ x.info # "Code"
  BY Zenon, <1>2
<1>6. EffectOK(x, e)
  BY Zenon, <1>1, <1>4, <1>5 DEF EffectOK
<1> QED  BY <1>6 DEF e

\* Every effect is of this kind.
LEMMA EffectsOK ==
    ASSUME NEW x \in Account, NEW e \in Effects(x)
    PROVE  EffectOK(x, e)
<1>0. x.info \in Infos /\ x.stor \in Storages /\ (~x.present => x = Absent)
  BY AccountForms
<1>z. Zero \in Storages /\ Absent.stor = Zero /\ Absent.info = "Empty"
  BY DEF Zero, Storages, Absent
<1>1. ASSUME e = Journal(x.info, x.stor, FALSE, FALSE) PROVE EffectOK(x, e)
  BY Zenon, <1>0, <1>1, JournalOK
<1>2. ASSUME NEW i \in {"Empty", "Funded"}, x.info # "Code", e = Journal(i, x.stor, FALSE, FALSE)
      PROVE  EffectOK(x, e)
  BY Zenon, <1>0, <1>2, JournalOK DEF Infos
<1>3. ASSUME NEW f \in Storages, x.info # "Code" => f # Zero, e = Journal(x.info, f, FALSE, FALSE)
      PROVE  EffectOK(x, e)
  BY Zenon, <1>0, <1>3, JournalOK
<1>4. ASSUME NEW f \in Storages, x.info # "Code", x.stor = Zero, e = Journal("Code", f, TRUE, FALSE)
      PROVE  EffectOK(x, e)
  BY Zenon, <1>0, <1>4, JournalOK DEF Infos
<1>5. ASSUME ~x.present, e = Journal("Empty", Zero, TRUE, FALSE) PROVE EffectOK(x, e)
  BY Zenon, <1>0, <1>z, <1>5, JournalOK DEF Infos
<1>6. ASSUME x.info = "Code", e = Journal("Code", x.stor, FALSE, TRUE) PROVE EffectOK(x, e)
  BY Zenon, <1>0, <1>6, JournalOK DEF Infos
<1>8. ASSUME NEW f \in Storages, x.info # "Code", x.stor = Zero, e = Journal("Code", f, TRUE, TRUE)
      PROVE  EffectOK(x, e)
  BY Zenon, <1>0, <1>8, JournalOK DEF Infos
<1>7. \/ e = Journal(x.info, x.stor, FALSE, FALSE)
      \/ \E i \in {"Empty", "Funded"} : x.info # "Code" /\ e = Journal(i, x.stor, FALSE, FALSE)
      \/ \E f \in Storages : (x.info # "Code" => f # Zero) /\ e = Journal(x.info, f, FALSE, FALSE)
      \/ \E f \in Storages : x.info # "Code" /\ x.stor = Zero /\ e = Journal("Code", f, TRUE, FALSE)
      \/ ~x.present /\ e = Journal("Empty", Zero, TRUE, FALSE)
      \/ x.info = "Code" /\ e = Journal("Code", x.stor, FALSE, TRUE)
      \/ \E f \in Storages : x.info # "Code" /\ x.stor = Zero /\ e = Journal("Code", f, TRUE, TRUE)
  <2>1. \/ e = Journal(x.info, x.stor, FALSE, FALSE)
        \/ e \in {Journal(i, x.stor, FALSE, FALSE) :
                     i \in IF x.info = "Code" THEN {} ELSE {"Empty", "Funded"} \ {x.info}}
        \/ e \in {Journal(x.info, f, FALSE, FALSE) :
                     f \in IF x.info = "Code" THEN Storages
                           ELSE IF x.stor # Zero THEN Storages \ {Zero} ELSE {}}
        \/ e \in {Journal("Code", f, TRUE, FALSE) :
                     f \in IF x.info # "Code" /\ x.stor = Zero THEN Storages ELSE {}}
        \/ e \in {Journal("Empty", Zero, TRUE, FALSE) : z \in IF x.present THEN {} ELSE {1}}
        \/ e \in {Journal("Code", x.stor, FALSE, TRUE) : z \in IF x.info = "Code" THEN {1} ELSE {}}
        \/ e \in {Journal("Code", f, TRUE, TRUE) :
                     f \in IF x.info # "Code" /\ x.stor = Zero THEN Storages ELSE {}}
    BY Zenon DEF Effects
  <2> QED  BY Zenon, <2>1
<1> QED  BY Zenon, <1>1, <1>2, <1>3, <1>4, <1>5, <1>6, <1>7, <1>8

-----------------------------------------------------------------------------
(* The recorder.                                                           *)

\* The recorder holds what the parent state answers to every read it saw.
RecordOK(r) ==
    /\ r = [accounts |-> r.accounts, slots |-> r.slots,
            askedBasic |-> r.askedBasic, askedSlots |-> r.askedSlots]
    /\ r.askedBasic \subseteq Addr
    /\ r.askedSlots \subseteq Addr \X Slot
    /\ r.accounts = {a \in r.askedBasic : parent[a].present}
    /\ r.slots = {<<k[1], k[2], parent[k[1]].stor[k[2]]>> : k \in r.askedSlots}

\* The account of every slot that was read was read as well.
Loaded(r) == \A k \in r.askedSlots : k[1] \in r.askedBasic

\* An account is read.
LEMMA BasicRecorded ==
    ASSUME NEW r, RecordOK(r), NEW a \in Addr
    PROVE  LET q == RecordBasic(r, a)
           IN  /\ RecordOK(q) /\ q.askedBasic = r.askedBasic \cup {a}
               /\ q.askedSlots = r.askedSlots
<1> DEFINE q == RecordBasic(r, a)
           c == IF parent[a].present THEN r.accounts \cup {a} ELSE r.accounts
           b == r.askedBasic \cup {a}
<1>1. q = [accounts |-> c, slots |-> r.slots, askedBasic |-> b, askedSlots |-> r.askedSlots]
  <2>1. q = [r EXCEPT !.accounts = c, !.askedBasic = b]
    BY Zenon DEF RecordBasic
  <2>2. r = [accounts |-> r.accounts, slots |-> r.slots,
             askedBasic |-> r.askedBasic, askedSlots |-> r.askedSlots]
    BY DEF RecordOK
  <2> HIDE DEF q, c, b
  <2> QED  BY Zenon, <2>1, <2>2
<1>2. c = {x \in b : parent[x].present}
  BY DEF RecordOK
<1>3. b \subseteq Addr
  BY DEF RecordOK
<1> HIDE DEF q, c, b
<1>4. /\ q.accounts = c /\ q.slots = r.slots /\ q.askedBasic = b /\ q.askedSlots = r.askedSlots
  BY <1>1
<1>5. RecordOK(q)
  BY Zenon, <1>1, <1>2, <1>3, <1>4 DEF RecordOK
<1> QED  BY <1>4, <1>5 DEF q, b

\* Slots of an account are read.
LEMMA SlotsRecorded ==
    ASSUME NEW r, RecordOK(r), NEW a \in Addr, NEW S \in SUBSET Slot
    PROVE  LET q == RecordSlots(r, a, S)
           IN  /\ RecordOK(q) /\ q.askedBasic = r.askedBasic
               /\ q.askedSlots = r.askedSlots \cup {<<a, s>> : s \in S}
<1> DEFINE q == RecordSlots(r, a, S)
           v == r.slots \cup {<<a, s, parent[a].stor[s]>> : s \in S}
           k == r.askedSlots \cup {<<a, s>> : s \in S}
<1>1. q = [accounts |-> r.accounts, slots |-> v, askedBasic |-> r.askedBasic, askedSlots |-> k]
  <2>1. q = [r EXCEPT !.slots = v, !.askedSlots = k]
    BY Zenon DEF RecordSlots
  <2>2. r = [accounts |-> r.accounts, slots |-> r.slots,
             askedBasic |-> r.askedBasic, askedSlots |-> r.askedSlots]
    BY DEF RecordOK
  <2> HIDE DEF q, v, k
  <2> QED  BY Zenon, <2>1, <2>2
<1>2. k \subseteq Addr \X Slot
  BY DEF RecordOK
<1>3. v = {<<x[1], x[2], parent[x[1]].stor[x[2]]>> : x \in k}
  <2> DEFINE Entry(x) == <<x[1], x[2], parent[x[1]].stor[x[2]]>>
  <2>1. r.slots = {Entry(x) : x \in r.askedSlots}
    BY DEF RecordOK
  <2>2. {<<a, s, parent[a].stor[s]>> : s \in S} = {Entry(x) : x \in {<<a, s>> : s \in S}}
    <3>1. \A s \in S : Entry(<<a, s>>) = <<a, s, parent[a].stor[s]>>
      OBVIOUS
    <3> HIDE DEF Entry
    <3>2. {<<a, s, parent[a].stor[s]>> : s \in S} = {Entry(<<a, s>>) : s \in S}
      BY Zenon, <3>1
    <3> QED  BY Zenon, <3>2
  <2>3. v = {Entry(x) : x \in r.askedSlots} \cup {Entry(x) : x \in {<<a, s>> : s \in S}}
    BY <2>1, <2>2
  <2> HIDE DEF Entry
  <2>4. v = {Entry(x) : x \in k}
    BY <2>3
  <2> QED  BY <2>4 DEF Entry
<1> HIDE DEF q, v, k
<1>4. /\ q.accounts = r.accounts /\ q.slots = v /\ q.askedBasic = r.askedBasic
      /\ q.askedSlots = k
  BY <1>1
<1>5. RecordOK(q)
  BY Zenon, <1>1, <1>2, <1>3, <1>4 DEF RecordOK
<1> QED  BY <1>4, <1>5 DEF q, k

\* The probe before the first transaction.
LEMMA ProbeRecorded ==
    LET r == Probe(NoRecord) IN RecordOK(r) /\ Loaded(r)
<1> DEFINE n == NoRecord
           s == RecordSlots(n, ArbosAccount, {VersionSlot})
           r == RecordBasic(s, ArbosAccount)
<1>1. RecordOK(n) /\ n.askedSlots = {}
  BY DEF NoRecord, RecordOK
<1> HIDE DEF n
<1>2. RecordOK(s) /\ s.askedSlots = n.askedSlots \cup {<<ArbosAccount, x>> : x \in {VersionSlot}}
  BY <1>1, ArbosAssumption, SlotsRecorded
<1> HIDE DEF s
<1>3. RecordOK(r) /\ r.askedBasic = s.askedBasic \cup {ArbosAccount} /\ r.askedSlots = s.askedSlots
  BY <1>2, ArbosAssumption, BasicRecorded
<1>4. Probe(NoRecord) = r
  BY DEF Probe, s, n
<1> HIDE DEF r
<1>5. Loaded(r)
  BY <1>1, <1>2, <1>3 DEF Loaded
<1> QED  BY <1>3, <1>4, <1>5

\* The reads of a transaction: the account first.
LEMMA ReadsRecorded ==
    ASSUME RecordOK(rec), Loaded(rec), NEW a \in Addr, NEW S \in SUBSET Slot
    PROVE  LET q == RecordSlots(RecordBasic(rec, a), a, S) IN RecordOK(q) /\ Loaded(q)
<1> DEFINE b == RecordBasic(rec, a)
           q == RecordSlots(b, a, S)
<1>1. /\ RecordOK(b) /\ b.askedBasic = rec.askedBasic \cup {a}
      /\ b.askedSlots = rec.askedSlots
  BY BasicRecorded
<1> HIDE DEF b
<1>2. /\ RecordOK(q) /\ q.askedBasic = b.askedBasic
      /\ q.askedSlots = b.askedSlots \cup {<<a, s>> : s \in S}
  BY <1>1, SlotsRecorded
<1> HIDE DEF q
<1>3. Loaded(q)
  BY <1>1, <1>2 DEF Loaded
<1> QED  BY <1>2, <1>3 DEF q, b

\* A read that failed half way recorded the account.
LEMMA RetryRecorded ==
    ASSUME RecordOK(rec), Loaded(rec), NEW a \in Addr
    PROVE  RecordOK(RecordBasic(rec, a)) /\ Loaded(RecordBasic(rec, a))
<1> DEFINE b == RecordBasic(rec, a)
<1>1. /\ RecordOK(b) /\ b.askedBasic = rec.askedBasic \cup {a}
      /\ b.askedSlots = rec.askedSlots
  BY BasicRecorded
<1> HIDE DEF b
<1>2. Loaded(b)
  BY <1>1 DEF Loaded
<1> QED  BY <1>1, <1>2 DEF b

\* A fixture made of these records answers like the parent.
LEMMA SeedAnswers ==
    ASSUME RecordOK(rec), Loaded(rec), parent \in [Addr -> Account]
    PROVE  /\ \A a \in rec.askedBasic : SeedDb[a].present = parent[a].present
                                        /\ SeedDb[a].info = parent[a].info
           /\ \A k \in rec.askedSlots : SeedDb[k[1]].stor[k[2]] = parent[k[1]].stor[k[2]]
<1>1. ASSUME NEW a \in rec.askedBasic, ~parent[a].present
      PROVE  SeedDb[a] = Absent /\ parent[a] = Absent
  <2>1. a \in Addr /\ a \notin rec.accounts
    BY <1>1 DEF RecordOK
  <2>2. a \notin DOMAIN ToPrestate
    BY <2>1 DEF ToPrestate
  <2>3. SeedDb[a] = Absent
    BY <2>1, <2>2 DEF SeedDb
  <2> QED  BY <1>1, <2>1, <2>3, AccountForms
<1>2. ASSUME NEW a \in rec.askedBasic, parent[a].present
      PROVE  /\ SeedDb[a].present = TRUE /\ SeedDb[a].info = parent[a].info
             /\ \A s \in Slot : <<a, s>> \in rec.askedSlots =>
                                    SeedDb[a].stor[s] = parent[a].stor[s]
  <2>1. a \in Addr /\ a \in rec.accounts
    BY <1>2 DEF RecordOK
  <2> DEFINE entries == {t \in rec.slots : t[1] = a}
             f == [s \in Slot |-> IF \E t \in entries : t[2] = s
                                  THEN (CHOOSE t \in entries : t[2] = s)[3] ELSE 0]
  <2>2. a \in DOMAIN ToPrestate /\ ToPrestate[a] = [info |-> parent[a].info, slots |-> entries]
    BY <2>1 DEF ToPrestate
  <2>3. ToPrestate[a].info = parent[a].info /\ ToPrestate[a].slots = entries
    BY <2>2
  <2>4. SeedDb[a] = Present(parent[a].info, f)
    <3>1. SeedDb[a] = LET en == ToPrestate[a].slots
                      IN  Present(ToPrestate[a].info,
                                  [s \in Slot |-> IF \E t \in en : t[2] = s
                                                  THEN (CHOOSE t \in en : t[2] = s)[3] ELSE 0])
      BY <2>1, <2>2 DEF SeedDb
    <3> HIDE DEF entries
    <3> QED  BY <2>3, <3>1
  <2>5. ASSUME NEW s \in Slot, <<a, s>> \in rec.askedSlots PROVE f[s] = parent[a].stor[s]
    <3>1. <<a, s, parent[a].stor[s]>> \in rec.slots
      BY <2>5 DEF RecordOK
    <3>2. \E t \in entries : t[2] = s
      BY <3>1
    <3>3. ASSUME NEW t \in entries, t[2] = s PROVE t[3] = parent[a].stor[s]
      <4>1. t \in rec.slots /\ t[1] = a
        OBVIOUS
      <4>2. PICK k \in rec.askedSlots : t = <<k[1], k[2], parent[k[1]].stor[k[2]]>>
        BY <4>1 DEF RecordOK
      <4> QED  BY <3>3, <4>1, <4>2
    <3> HIDE DEF entries
    <3>4. (CHOOSE t \in entries : t[2] = s)[3] = parent[a].stor[s]
      BY Zenon, <3>2, <3>3
    <3> QED  BY <3>2, <3>4
  <2> HIDE DEF f
  <2> QED  BY <2>4, <2>5 DEF Present
<1>3. ASSUME NEW k \in rec.askedSlots
      PROVE  SeedDb[k[1]].stor[k[2]] = parent[k[1]].stor[k[2]]
  <2>1. k[1] \in rec.askedBasic /\ k[2] \in Slot /\ <<k[1], k[2]>> \in rec.askedSlots
    BY DEF RecordOK, Loaded
  <2> QED  BY Zenon, <1>1, <1>2, <2>1
<1>4. ASSUME NEW a \in rec.askedBasic
      PROVE  SeedDb[a].present = parent[a].present /\ SeedDb[a].info = parent[a].info
  <2>1. CASE ~parent[a].present
    BY Zenon, <1>1, <2>1
  <2>2. CASE parent[a].present
    <3>1. SeedDb[a].present = TRUE /\ SeedDb[a].info = parent[a].info
      BY Zenon, <1>2, <2>2
    <3>2. parent[a].present \in BOOLEAN
      BY AccountForms DEF RecordOK
    <3> QED  BY Zenon, <2>2, <3>1, <3>2
  <2> QED  BY <2>1, <2>2
<1> QED  BY Zenon, <1>3, <1>4

-----------------------------------------------------------------------------
(* The net write set of replay_block.                                      *)

\* What a commit leaves of an account that is not destroyed.
LEMMA CommitKeeps ==
    ASSUME NEW x, NEW e, EffectOK(x, e)
    PROVE  /\ Committed(e) \in Account
           /\ e.destroyed => Committed(e) = Absent
           /\ ~e.destroyed => /\ Committed(e).info = e.info /\ Committed(e).stor = e.stor
                              /\ \/ Committed(e) = Absent /\ EmptyAccount(e.info, e.stor) /\ ~e.created
                                 \/ /\ Committed(e) = Present(e.info, e.stor)
                                    /\ ~(EmptyAccount(e.info, e.stor) /\ ~e.created)
<1>1. e.info \in Infos /\ e.stor \in Storages
  BY DEF EffectOK
<1>2. CASE e.destroyed
  BY <1>2 DEF Committed, Account
<1>3. CASE ~e.destroyed /\ EmptyAccount(e.info, e.stor) /\ ~e.created
  <2>1. Committed(e) = Absent
    BY <1>3 DEF Committed
  <2> QED  BY <1>3, <2>1 DEF Account, Absent, EmptyAccount
<1>4. CASE ~e.destroyed /\ ~(EmptyAccount(e.info, e.stor) /\ ~e.created)
  <2>1. Committed(e) = Present(e.info, e.stor)
    BY <1>4 DEF Committed
  <2>2. Present(e.info, e.stor) \in Account
    BY <1>1 DEF Account
  <2>3. Present(e.info, e.stor).info = e.info /\ Present(e.info, e.stor).stor = e.stor
    BY DEF Present
  <2> QED  BY Zenon, <1>4, <2>1, <2>2, <2>3
<1> QED  BY <1>2, <1>3, <1>4

\* The info, the slots and the leaf that a write leaves over an account of the parent.
InfoOver(w, p) == IF w.info = "None" THEN p.info ELSE w.info
StorOver(w, p) == [s \in Slot |-> IF s \in DOMAIN w.stor THEN w.stor[s] ELSE p.stor[s]]
LeafOver(w, p) ==
    IF EmptyAccount(InfoOver(w, p), StorOver(w, p)) /\ ~w.created THEN Absent
    ELSE Present(InfoOver(w, p), StorOver(w, p))

\* The account x is what the write w says, over p.
Follows(x, w, p) ==
    /\ x.info = InfoOver(w, p) /\ x.stor = StorOver(w, p)
    /\ ~w.hit => w = NoWrite /\ x = p
    /\ w.hit => x = LeafOver(w, p) \/ (w.created /\ x = Absent)

\* merge_state_writes keeps step with the commit, but for destroyed and touched empty accounts.
LEMMA MergeFollows ==
    ASSUME NEW x \in Account, NEW p \in Account, NEW w, NEW e, EffectOK(x, e), ~e.destroyed,
           Follows(x, w, p), ~(x.present /\ EmptyAccount(x.info, x.stor) /\ ~InfoChanged(x, e))
    PROVE  Follows(Committed(e), MergeWrite(w, x, e), p)
<1> DEFINE y == Committed(e)
           v == MergeWrite(w, x, e)
           changed == Changed(x, e)
<1>0. /\ x = Absent \/ x = Present(x.info, x.stor)
      /\ x.info \in Infos /\ x.stor \in Storages /\ (x.present <=> x # Absent)
  BY AccountForms
<1>e. /\ e.info \in Infos /\ e.stor \in Storages
  BY DEF EffectOK
<1>c. /\ y.info = e.info /\ y.stor = e.stor
      /\ \/ y = Absent /\ EmptyAccount(e.info, e.stor) /\ ~e.created
         \/ y = Present(e.info, e.stor) /\ ~(EmptyAccount(e.info, e.stor) /\ ~e.created)
  BY CommitKeeps
<1> HIDE DEF y
<1>1. CASE ~InfoChanged(x, e) /\ changed = {}
  <2>1. v = w
    BY <1>1 DEF MergeWrite
  <2>2. e.info = x.info /\ ~e.created
    BY <1>1 DEF InfoChanged
  <2>3. e.stor = x.stor
    <3>1. \A s \in Slot : e.stor[s] = x.stor[s]
      BY <1>1 DEF Changed
    <3>2. e.stor = [s \in Slot |-> e.stor[s]] /\ x.stor = [s \in Slot |-> x.stor[s]]
      BY <1>0, <1>e DEF Storages
    <3> QED  BY <3>1, <3>2
  <2>4. y = x
    <3>1. CASE x = Absent
      <4>1. EmptyAccount(x.info, x.stor)
        BY <3>1 DEF Absent, EmptyAccount
      <4> QED  BY <1>c, <2>2, <2>3, <3>1, <4>1
    <3>2. CASE x # Absent
      <4>1. ~EmptyAccount(x.info, x.stor)
        BY <1>0, <1>1, <3>2
      <4> QED  BY <1>0, <1>c, <2>2, <2>3, <3>2, <4>1
    <3> QED  BY <3>1, <3>2
  <2> HIDE DEF v
  <2>5. Follows(y, v, p)
    BY <2>1, <2>4
  <2> QED  BY <2>5 DEF y, v
<1>2. CASE InfoChanged(x, e) \/ changed # {}
  <2> DEFINE i == IF InfoChanged(x, e) THEN e.info ELSE w.info
             f == [s \in DOMAIN w.stor \cup changed |->
                      IF s \in changed THEN e.stor[s] ELSE w.stor[s]]
             c == w.created \/ e.created
  <2>1. v = [hit |-> TRUE, created |-> c, info |-> i, stor |-> f]
    BY <1>2 DEF MergeWrite
  <2>2. /\ v.hit = TRUE /\ v.info = i /\ v.stor = f
    BY <2>1
  <2>c. v.created = c
    <3> HIDE DEF v, c, f, i
    <3> QED  BY <2>1
  <2>3. InfoOver(v, p) = e.info
    <3>1. CASE InfoChanged(x, e)
      BY <1>e, <2>2, <3>1 DEF InfoOver, Infos
    <3>2. CASE ~InfoChanged(x, e)
      <4>1. v.info = w.info /\ e.info = x.info
        BY <2>2, <3>2 DEF InfoChanged
      <4> QED  BY <4>1 DEF InfoOver, Follows
    <3> QED  BY <3>1, <3>2
  <2>4. StorOver(v, p) = e.stor
    <3>1. ASSUME NEW s \in Slot
          PROVE  (IF s \in DOMAIN f THEN f[s] ELSE p.stor[s]) = e.stor[s]
      <4>1. CASE s \in changed
        BY <4>1
      <4>2. CASE s \notin changed
        <5>1. e.stor[s] = x.stor[s]
          BY <4>2 DEF Changed
        <5>2. x.stor[s] = IF s \in DOMAIN w.stor THEN w.stor[s] ELSE p.stor[s]
          BY DEF Follows, StorOver
        <5> HIDE DEF changed
        <5> QED  BY <4>2, <5>1, <5>2
      <4> QED  BY <4>1, <4>2
    <3>2. e.stor = [s \in Slot |-> e.stor[s]]
      BY <1>e DEF Storages
    <3> HIDE DEF f
    <3> QED  BY <2>2, <3>1, <3>2 DEF StorOver
  <2> HIDE DEF v, c
  <2>5. LeafOver(v, p) = IF EmptyAccount(e.info, e.stor) /\ ~c THEN Absent ELSE Present(e.info, e.stor)
    BY Zenon, <2>c, <2>3, <2>4 DEF LeafOver
  <2>6. y = LeafOver(v, p) \/ (v.created /\ y = Absent)
    BY Zenon, <1>c, <2>5, <2>c DEF c
  <2>7. Follows(y, v, p)
    BY Zenon, <1>c, <2>2, <2>3, <2>4, <2>6 DEF Follows
  <2> QED  BY <2>7 DEF y, v
<1> QED  BY <1>1, <1>2

-----------------------------------------------------------------------------
(* The commits that the vector runner records.                             *)

\* The slots that a delta lays over those of the parent.
SlotsOver(d, p) == [s \in Slot |-> IF s \in DOMAIN d.stor THEN d.stor[s] ELSE p.stor[s]]

\* The account x is what the delta d says, over p.
Laid(x, d, p) ==
    /\ ~d.touched => d = NoDelta /\ x = p
    /\ d.touched /\ ~d.exists => x = Absent
    /\ d.touched /\ d.exists => x.info = d.info /\ x.stor = SlotsOver(d, p)

\* The recorder of commits keeps step with the commit of an account that was not destroyed.
LEMMA DeltaLaid ==
    ASSUME NEW x \in Account, NEW p \in Account, NEW d, NEW e, EffectOK(x, e), ~e.destroyed,
           Laid(x, d, p), d.touched => d.exists, e.created => p.stor = Zero
    PROVE  LET n == RecordDelta(d, x, e) IN Laid(Committed(e), n, p) /\ n.touched /\ n.exists
<1> DEFINE y == Committed(e)
           n == RecordDelta(d, x, e)
           changed == Changed(x, e)
           old == IF e.created THEN [s \in {} |-> 0] ELSE d.stor
           f == [s \in DOMAIN old \cup changed |-> IF s \in changed THEN e.stor[s] ELSE old[s]]
<1>0. x.stor \in Storages /\ e.stor \in Storages
  BY AccountForms DEF EffectOK
<1>1. y.info = e.info /\ y.stor = e.stor
  BY CommitKeeps
<1>2. n = [touched |-> TRUE, exists |-> TRUE, info |-> e.info, stor |-> f]
  BY Zenon DEF RecordDelta
<1>3. n.touched = TRUE /\ n.exists = TRUE /\ n.info = e.info /\ n.stor = f
  <2> HIDE DEF n, f
  <2> QED  BY <1>2
<1>4. ASSUME NEW s \in Slot PROVE (IF s \in DOMAIN f THEN f[s] ELSE p.stor[s]) = e.stor[s]
  <2>1. CASE s \in changed
    BY <2>1
  <2>2. CASE s \notin changed
    <3>1. e.stor[s] = x.stor[s]
      BY <2>2 DEF Changed
    <3>2. x.stor[s] = IF s \in DOMAIN old THEN old[s] ELSE p.stor[s]
      <4>1. CASE e.created
        <5>1. x.stor = Zero /\ p.stor = Zero /\ old = [z \in {} |-> 0]
          BY <4>1 DEF EffectOK
        <5>2. DOMAIN old = {}
          BY <5>1
        <5> HIDE DEF old
        <5> QED  BY <5>1, <5>2
      <4>2. CASE ~e.created
        <5>1. old = d.stor
          BY <4>2
        <5>2. CASE d.touched
          BY <5>1, <5>2 DEF Laid, SlotsOver
        <5>3. CASE ~d.touched
          <6>1. d.stor = [z \in {} |-> 0] /\ x = p
            BY <5>3 DEF Laid, NoDelta
          <6>2. DOMAIN old = {}
            BY <5>1, <6>1
          <6> QED  BY <6>1, <6>2
        <5> QED  BY <5>2, <5>3
      <4> QED  BY <4>1, <4>2
    <3> HIDE DEF changed, old
    <3> QED  BY <2>2, <3>1, <3>2
  <2> QED  BY <2>1, <2>2
<1> HIDE DEF f
<1>5. SlotsOver(n, p) = e.stor
  <2>1. e.stor = [s \in Slot |-> e.stor[s]]
    BY <1>0 DEF Storages
  <2> HIDE DEF n
  <2> QED  BY <1>3, <1>4, <2>1 DEF SlotsOver
<1> HIDE DEF n, y
<1>6. Laid(y, n, p)
  BY Zenon, <1>1, <1>3, <1>5 DEF Laid
<1> QED  BY Zenon, <1>3, <1>6 DEF n, y

\* A destroyed account is absent to the recorder of commits.
LEMMA DeltaGone ==
    ASSUME NEW x, NEW p, NEW d, NEW e, EffectOK(x, e), e.destroyed
    PROVE  Laid(Committed(e), RecordDelta(d, x, e), p)
<1> DEFINE n == RecordDelta(d, x, e)
<1>1. n = [touched |-> TRUE, exists |-> FALSE, info |-> "Empty", stor |-> [s \in {} |-> 0]]
  BY DEF RecordDelta
<1>2. n.touched = TRUE /\ n.exists = FALSE
  BY <1>1
<1>3. Committed(e) = Absent
  BY CommitKeeps
<1> QED  BY Zenon, <1>2, <1>3 DEF Laid

-----------------------------------------------------------------------------
(* How the transactions that ran are remembered.                           *)

\* The transactions to come have not run.
Pending == \A i \in 1 .. NumTx : i >= tx => history[i] = {}

\* One record per transaction.
Recorded == tx \in Nat \ {0} /\ history = [i \in 1 .. NumTx |-> history[i]]

\* Transaction tx runs on account b.
Runs(b, x, e, o) ==
    /\ tx \in 1 .. NumTx /\ Recorded /\ Pending
    /\ history' = [history EXCEPT ![tx] = {[a |-> b, pre |-> x, e |-> e, o |-> o]}]

\* Whatever was remembered of an account stays.
LEMMA RunsRemember ==
    ASSUME NEW b, NEW x, NEW e, NEW o, Runs(b, x, e, o), NEW a
    PROVE  /\ Destroyed(a) => Destroyed(a)'
           /\ EmptyTouched(a) => EmptyTouched(a)'
           /\ CameBack(a) => CameBack(a)'
<1>1. ASSUME NEW i \in 1 .. NumTx, NEW r \in history[i] PROVE r \in history'[i]
  <2>1. i # tx
    BY <1>1 DEF Runs, Pending, Recorded
  <2> QED  BY <1>1, <2>1 DEF Runs, Recorded
<1>2. Destroyed(a) => Destroyed(a)'
  BY <1>1 DEF Destroyed
<1>3. EmptyTouched(a) => EmptyTouched(a)'
  BY <1>1 DEF EmptyTouched
<1>4. CameBack(a) => CameBack(a)'
  BY <1>1 DEF CameBack
<1> QED  BY <1>2, <1>3, <1>4

\* What the transaction adds.
LEMMA RunsAdd ==
    ASSUME NEW b, NEW x, NEW e, NEW o, Runs(b, x, e, o)
    PROVE  /\ e.destroyed => Destroyed(b)'
           /\ x.present /\ EmptyAccount(x.info, x.stor) /\ ~InfoChanged(x, e) => EmptyTouched(b)'
           /\ Destroyed(b) /\ ~e.destroyed => CameBack(b)'
<1> DEFINE r == [a |-> b, pre |-> x, e |-> e, o |-> o]
<1>1. tx \in 1 .. NumTx /\ history'[tx] = {r}
  BY DEF Runs, Recorded
<1>2. r \in history'[tx] /\ r.a = b /\ r.pre = x /\ r.e = e
  BY <1>1
<1> HIDE DEF r
<1>3. e.destroyed => Destroyed(b)'
  BY <1>1, <1>2 DEF Destroyed
<1>4. x.present /\ EmptyAccount(x.info, x.stor) /\ ~InfoChanged(x, e) => EmptyTouched(b)'
  BY <1>1, <1>2 DEF EmptyTouched
<1>5. ASSUME Destroyed(b), ~e.destroyed PROVE CameBack(b)'
  <2>1. PICK i \in 1 .. NumTx : \E q \in history[i] : q.a = b /\ q.e.destroyed
    BY <1>5 DEF Destroyed
  <2>2. i < tx
    BY <2>1, <1>1 DEF Runs, Pending, Recorded
  <2>3. history'[i] = history[i]
    BY <2>2 DEF Runs, Recorded
  <2> QED  BY <1>1, <1>2, <1>5, <2>1, <2>2, <2>3 DEF CameBack
<1> QED  BY <1>3, <1>4, <1>5

\* Only its account was destroyed, and only by a transaction that destroys.
LEMMA RunsDestroy ==
    ASSUME NEW b, NEW x, NEW e, NEW o, Runs(b, x, e, o), NEW a, Destroyed(a)'
    PROVE  Destroyed(a) \/ (a = b /\ e.destroyed)
<1> DEFINE r == [a |-> b, pre |-> x, e |-> e, o |-> o]
<1>1. PICK i \in 1 .. NumTx : \E q \in history'[i] : q.a = a /\ q.e.destroyed
  BY DEF Destroyed
<1>2. PICK q \in history'[i] : q.a = a /\ q.e.destroyed
  BY <1>1
<1>3. CASE i = tx
  <2>1. q = r
    BY <1>3 DEF Runs, Recorded
  <2> QED  BY <1>2, <2>1
<1>4. CASE i # tx
  <2>1. q \in history[i]
    BY <1>4 DEF Runs, Recorded
  <2> QED  BY <1>2, <2>1 DEF Destroyed
<1> QED  BY <1>3, <1>4

-----------------------------------------------------------------------------
(* The inductive invariant.                                                *)

\* The course of the tools: what runs under which mode, and what has been found so far.
Course ==
    /\ parent \in [Addr -> Account]
    /\ Recorded
    /\ pc \in {"live", "vector"} => Pending
    /\ pc \in {"live", "finish"} => mode.tool # "vector" /\ mism \subseteq {"tx"}
    /\ pc = "finish" => "tx" \in mism
    /\ pc = "replay" => Recording
    /\ pc = "vector" => mode.tool = "vector"

\* An account without code and slots had no slots, and none was written, unless it was destroyed.
Bare(a) ==
    ~Destroyed(a) /\ db[a].info # "Code" /\ db[a].stor = Zero =>
        parent[a].stor = Zero /\ DOMAIN writes[a].stor = {}

\* The state of a block that is not recorded.
Executed ==
    /\ db \in [Addr -> Account]
    /\ writes = [a \in Addr |-> writes[a]]
    /\ deltas = [a \in Addr |-> deltas[a]]
    /\ \A a \in Addr : Bare(a) /\ DOMAIN writes[a].stor \subseteq Slot

\* The write set of the check mode leads to the committed state.
WritesFollowed ==
    \A a \in Addr : Destroyed(a) \/ EmptyTouched(a) \/ Follows(db[a], writes[a], parent[a])

\* So do the recorded commits of the vector mode.
DeltasLaid ==
    \A a \in Addr :
        \/ CameBack(a)
        \/ /\ Laid(db[a], deltas[a], parent[a])
           /\ deltas[a].touched /\ ~Destroyed(a) => deltas[a].exists

StateInv ==
    /\ ~Recording => Executed
    /\ Checking => WritesFollowed
    /\ mode.tool = "vector" => DeltasLaid

RecordInv == RecordOK(rec) /\ Loaded(rec)

VerdictInv == VerdictSound /\ NoFalseAlarm /\ VectorSound

ParityInv == Course /\ RecordInv /\ StateInv /\ VerdictInv

-----------------------------------------------------------------------------
(* A transaction that is committed.                                        *)

\* The state of the other accounts is as it was.
Ran(b, e, o) ==
    /\ Runs(b, db[b], e, o)
    /\ Commit(b, e)
    /\ UNCHANGED <<mode, parent>>

\* The state after a transaction: one account moves, and the bare accounts stay bare.
LEMMA RanExecuted ==
    ASSUME Executed, parent \in [Addr -> Account],
           NEW b \in Addr, NEW e \in Effects(db[b]), NEW o, Ran(b, e, o)
    PROVE  /\ db' \in [Addr -> Account]
           /\ writes' = [a \in Addr |-> writes'[a]]
           /\ db'[b] = Committed(e) /\ writes'[b] = MergeWrite(writes[b], db[b], e)
           /\ \A a \in Addr \ {b} : db'[a] = db[a] /\ writes'[a] = writes[a]
           /\ \A a \in Addr : Bare(a)' /\ DOMAIN writes'[a].stor \subseteq Slot
<1>1. db[b] \in Account /\ EffectOK(db[b], e)
  BY EffectsOK DEF Executed
<1>2. /\ db' = [db EXCEPT ![b] = Committed(e)]
      /\ writes' = [writes EXCEPT ![b] = MergeWrite(writes[b], db[b], e)]
  BY DEF Ran, Commit
<1>3. Committed(e) \in Account
  BY <1>1, CommitKeeps
<1>4. db' \in [Addr -> Account] /\ db'[b] = Committed(e)
  BY <1>2, <1>3 DEF Executed
<1> DEFINE v == MergeWrite(writes[b], db[b], e)
<1>5. writes' = [a \in Addr |-> writes'[a]] /\ writes'[b] = v
  <2> HIDE DEF v
  <2> QED  BY <1>2 DEF Executed, v
<1>6. \A a \in Addr \ {b} : db'[a] = db[a] /\ writes'[a] = writes[a]
  BY <1>2 DEF Executed
<1>7. ASSUME NEW a \in Addr, a # b PROVE Bare(a)'
  <2>1. Destroyed(a) => Destroyed(a)'
    BY RunsRemember DEF Ran
  <2>2. db'[a] = db[a] /\ writes'[a] = writes[a] /\ parent' = parent
    BY <1>6, <1>7 DEF Ran
  <2> QED  BY <2>1, <2>2 DEF Executed, Bare
<1>8. ASSUME ~Destroyed(b)', db'[b].info # "Code", db'[b].stor = Zero
      PROVE  parent'[b].stor = Zero /\ DOMAIN writes'[b].stor = {}
  <2>1. ~Destroyed(b) /\ ~e.destroyed
    BY <1>8, RunsRemember, RunsAdd DEF Ran
  <2>2. e.info # "Code" /\ e.stor = Zero
    BY <1>1, <1>4, <1>8, <2>1, CommitKeeps
  <2>3. db[b].stor = Zero /\ db[b].info # "Code"
    BY <1>1, <2>2 DEF EffectOK
  <2>4. parent[b].stor = Zero /\ DOMAIN writes[b].stor = {}
    BY <2>1, <2>3 DEF Executed, Bare
  <2>5. Changed(db[b], e) = {}
    BY <2>2, <2>3 DEF Changed
  <2>6. DOMAIN v.stor = {}
    BY <2>4, <2>5 DEF MergeWrite
  <2> QED  BY <1>5, <2>4, <2>6 DEF Ran
<1>9. DOMAIN v.stor \subseteq Slot
  BY DEF MergeWrite, Changed, Executed
<1>b. Bare(b)'
  BY Zenon, <1>8 DEF Bare
<1>10. ASSUME NEW a \in Addr PROVE Bare(a)' /\ DOMAIN writes'[a].stor \subseteq Slot
  <2> HIDE DEF v
  <2>1. CASE a = b
    BY <1>5, <1>9, <1>b, <2>1
  <2>2. CASE a # b
    BY <1>6, <1>7, <2>2 DEF Executed
  <2> QED  BY <2>1, <2>2
<1> QED  BY Zenon, <1>4, <1>5, <1>6, <1>10

\* merge_state_writes follows the commit of a transaction.
LEMMA RanFollowed ==
    ASSUME Executed, WritesFollowed, parent \in [Addr -> Account],
           NEW b \in Addr, NEW e \in Effects(db[b]), NEW o, Ran(b, e, o)
    PROVE  WritesFollowed'
<1>1. db[b] \in Account /\ EffectOK(db[b], e) /\ parent' = parent /\ parent[b] \in Account
  BY EffectsOK DEF Executed, Ran
<1>2. /\ db'[b] = Committed(e) /\ writes'[b] = MergeWrite(writes[b], db[b], e)
      /\ \A a \in Addr \ {b} : db'[a] = db[a] /\ writes'[a] = writes[a]
  BY RanExecuted
<1>3. ASSUME NEW a \in Addr
      PROVE  (Destroyed(a) => Destroyed(a)') /\ (EmptyTouched(a) => EmptyTouched(a)')
  BY RunsRemember DEF Ran
<1>4. ASSUME NEW a \in Addr, a # b
      PROVE  Destroyed(a)' \/ EmptyTouched(a)' \/ Follows(db'[a], writes'[a], parent'[a])
  BY <1>1, <1>2, <1>3, <1>4 DEF WritesFollowed
<1>5. Destroyed(b)' \/ EmptyTouched(b)' \/ Follows(db'[b], writes'[b], parent'[b])
  <2> SUFFICES ASSUME ~Destroyed(b)', ~EmptyTouched(b)'
               PROVE  Follows(db'[b], writes'[b], parent'[b])
    OBVIOUS
  <2>1. Follows(db[b], writes[b], parent[b])
    BY <1>3 DEF WritesFollowed
  <2>2. ~e.destroyed /\ ~(db[b].present /\ EmptyAccount(db[b].info, db[b].stor) /\ ~InfoChanged(db[b], e))
    BY RunsAdd DEF Ran
  <2>3. Follows(Committed(e), MergeWrite(writes[b], db[b], e), parent[b])
    BY <1>1, <2>1, <2>2, MergeFollows
  <2> QED  BY <1>1, <1>2, <2>3
<1>6. \A a \in Addr : Destroyed(a)' \/ EmptyTouched(a)' \/ Follows(db'[a], writes'[a], parent'[a])
  BY <1>4, <1>5
<1> QED  BY <1>6 DEF WritesFollowed

\* So does the recorder of commits of the vector runner.
LEMMA RanLaid ==
    ASSUME Executed, DeltasLaid, parent \in [Addr -> Account],
           NEW b \in Addr, NEW e \in Effects(db[b]), NEW o, Ran(b, e, o),
           deltas' = [deltas EXCEPT ![b] = RecordDelta(deltas[b], db[b], e)]
    PROVE  DeltasLaid' /\ deltas' = [a \in Addr |-> deltas'[a]]
<1> DEFINE n == RecordDelta(deltas[b], db[b], e)
<1>1. db[b] \in Account /\ EffectOK(db[b], e) /\ parent' = parent /\ parent[b] \in Account
  BY EffectsOK DEF Executed, Ran
<1>2. /\ db'[b] = Committed(e)
      /\ \A a \in Addr \ {b} : db'[a] = db[a]
  BY RanExecuted
<1>3. ASSUME NEW a \in Addr
      PROVE  (Destroyed(a) => Destroyed(a)') /\ (CameBack(a) => CameBack(a)')
  BY RunsRemember DEF Ran
<1>d. deltas = [a \in Addr |-> deltas[a]] /\ deltas' = [deltas EXCEPT ![b] = n]
  BY DEF Executed
<1>4. /\ deltas' = [a \in Addr |-> deltas'[a]] /\ deltas'[b] = n
      /\ \A a \in Addr \ {b} : deltas'[a] = deltas[a]
  <2> HIDE DEF n
  <2> QED  BY <1>d
<1>5. ASSUME NEW a \in Addr, a # b, ~CameBack(a)'
      PROVE  /\ Laid(db'[a], deltas'[a], parent'[a])
             /\ deltas'[a].touched /\ ~Destroyed(a)' => deltas'[a].exists
  BY <1>1, <1>2, <1>3, <1>4, <1>5 DEF DeltasLaid
<1>6. ASSUME ~CameBack(b)', e.destroyed
      PROVE  Laid(db'[b], deltas'[b], parent'[b]) /\ Destroyed(b)'
  <2>1. Laid(Committed(e), n, parent[b])
    BY <1>1, <1>6, DeltaGone
  <2>2. Destroyed(b)'
    BY <1>6, RunsAdd DEF Ran
  <2> HIDE DEF n
  <2> QED  BY <1>1, <1>2, <1>4, <2>1, <2>2
<1>7. ASSUME ~CameBack(b)', ~e.destroyed
      PROVE  Laid(db'[b], deltas'[b], parent'[b]) /\ deltas'[b].exists
  <2>1. ~Destroyed(b)
    BY <1>7, RunsAdd DEF Ran
  <2>2. Laid(db[b], deltas[b], parent[b]) /\ (deltas[b].touched => deltas[b].exists)
    BY <1>3, <1>7, <2>1 DEF DeltasLaid
  <2>3. e.created => parent[b].stor = Zero
    BY <1>1, <2>1 DEF EffectOK, Executed, Bare
  <2>4. Laid(Committed(e), n, parent[b]) /\ n.exists
    BY <1>1, <1>7, <2>2, <2>3, DeltaLaid
  <2> HIDE DEF n
  <2> QED  BY <1>1, <1>2, <1>4, <2>4
<1> HIDE DEF n
<1>8. ASSUME NEW a \in Addr, ~CameBack(a)'
      PROVE  /\ Laid(db'[a], deltas'[a], parent'[a])
             /\ deltas'[a].touched /\ ~Destroyed(a)' => deltas'[a].exists
  <2>1. CASE a # b
    BY <1>5, <1>8, <2>1
  <2>2. CASE a = b
    BY Zenon, <1>6, <1>7, <1>8, <2>2
  <2> QED  BY <2>1, <2>2
<1> QED  BY Zenon, <1>4, <1>8 DEF DeltasLaid

-----------------------------------------------------------------------------
(* The verdicts.                                                           *)

\* The leaf that the root check makes of an account that follows its writes.
LEMMA LeafMatches ==
    ASSUME NEW a \in Addr, Follows(db[a], writes[a], parent[a])
    PROVE  /\ PostInfo(a) = db[a].info /\ PostStorage(a) = db[a].stor
           /\ Vanished(a) \/ Recomputed[a] = db[a]
<1>1. PostInfo(a) = InfoOver(writes[a], parent[a]) /\ PostStorage(a) = StorOver(writes[a], parent[a])
  BY DEF PostInfo, PostStorage, InfoOver, StorOver
<1>2. PostLeaf(a) = LeafOver(writes[a], parent[a])
  BY <1>1 DEF PostLeaf, LeafOver
<1>3. PostInfo(a) = db[a].info /\ PostStorage(a) = db[a].stor
  BY <1>1 DEF Follows
<1>4. CASE ~writes[a].hit
  <2>1. a \notin Written /\ db[a] = parent[a]
    BY <1>4 DEF Written, Follows
  <2>2. Recomputed[a] = parent[a]
    BY <2>1 DEF Recomputed
  <2> QED  BY <1>3, <2>1, <2>2
<1>5. CASE writes[a].hit
  <2>1. a \in Written
    BY <1>5 DEF Written
  <2>2. Recomputed[a] = PostLeaf(a)
    BY <2>1 DEF Recomputed
  <2>3. db[a] = LeafOver(writes[a], parent[a]) \/ (writes[a].created /\ db[a] = Absent)
    BY <1>5 DEF Follows
  <2>4. ~Absent.present
    BY DEF Absent
  <2> QED  BY Zenon, <1>2, <1>3, <2>2, <2>3, <2>4 DEF Vanished
<1> QED  BY <1>4, <1>5

\* A root that matches: the accounts are those of Nitro, but for the exceptions.
LEMMA MatchIsSound ==
    ASSUME WritesFollowed, NEW p, NEW lost, NEW trieLost, WitnessStateRootCheck(p, lost, trieLost),
           NEW a \in Addr, ~Destroyed(a), ~EmptyTouched(a), ~Vanished(a)
    PROVE  db[a] = p[a] \/ (a \in Deleting /\ AgreesWithCanonical(a, p))
<1>1. Recomputed[a] = db[a]
  BY LeafMatches DEF WritesFollowed
<1>2. CASE Recomputed = p
  BY <1>1, <1>2
<1>3. CASE DeletionCollapseRecheck(p)
  <2>1. CASE a \in Deleting
    BY <1>3, <2>1 DEF DeletionCollapseRecheck
  <2>2. CASE a \notin Deleting
    <3>1. Patched(p) = p
      BY <1>3 DEF DeletionCollapseRecheck
    <3>2. Patched(p)[a] = Recomputed[a]
      BY <2>2 DEF Patched
    <3> QED  BY <1>1, <3>1, <3>2
  <2> QED  BY <2>1, <2>2
<1> QED  BY <1>2, <1>3 DEF WitnessStateRootCheck

\* A state that is Nitro's passes, whatever the recomputation lost of the storage tries.
LEMMA SameStatePasses ==
    ASSUME Executed, WritesFollowed, ControlHolds,
           \A a \in Written : PostLeaf(a).present,
           \A a \in Addr : ~Destroyed(a) /\ ~EmptyTouched(a) /\ ~Vanished(a),
           NEW lost \in SUBSET MayCollapse,
           NEW trieLost \in IF AccountRemoved THEN BOOLEAN ELSE {FALSE}
    PROVE  WitnessStateRootCheck(db, lost, trieLost)
<1>1. \A a \in Addr : /\ Recomputed[a] = db[a] /\ PostInfo(a) = db[a].info
                      /\ PostStorage(a) = db[a].stor
  BY LeafMatches DEF WritesFollowed
<1>2. Recomputed = db
  BY <1>1 DEF Recomputed, Executed
<1>3. trieLost = FALSE
  BY Zenon DEF AccountRemoved
<1>4. CASE Deleting = {}
  <2>1. lost = {}
    BY <1>4 DEF MayCollapse
  <2> QED  BY <1>2, <1>3, <2>1 DEF WitnessStateRootCheck
<1>5. CASE Deleting # {}
  <2>1. ASSUME NEW a \in Deleting PROVE AgreesWithCanonical(a, db) /\ Patched(db)[a] = db[a]
    <3>1. a \in Addr /\ DOMAIN writes[a].stor # {}
      BY DEF Deleting, Written
    <3>2. ~EmptyAccount(db[a].info, db[a].stor)
      BY <3>1 DEF Executed, Bare, EmptyAccount
    <3>3. db[a] = Present(db[a].info, db[a].stor)
      <4>1. db[a] # Absent
        BY <3>2 DEF Absent, EmptyAccount
      <4> QED  BY <3>1, <4>1, AccountForms DEF Executed
    <3>4. Patched(db)[a] = IF EmptyAccount(PostInfo(a), db[a].stor) THEN Absent
                           ELSE Present(PostInfo(a), db[a].stor)
      BY <3>1 DEF Patched
    <3>5. Patched(db)[a] = db[a]
      BY <1>1, <3>1, <3>2, <3>3, <3>4
    <3>6. ASSUME NEW s \in DOMAIN writes[a].stor PROVE writes[a].stor[s] = db[a].stor[s]
      <4>1. s \in Slot
        BY <3>1 DEF Executed
      <4> QED  BY Zenon, <1>1, <3>1, <4>1 DEF PostStorage
    <3> QED  BY <1>1, <3>1, <3>5, <3>6 DEF AgreesWithCanonical
  <2>2. ASSUME NEW a \in Addr \ Deleting PROVE Patched(db)[a] = db[a]
    <3>1. Patched(db)[a] = Recomputed[a]
      BY DEF Patched
    <3> QED  BY <1>1, <3>1
  <2>3. Patched(db) = db
    BY Zenon, <2>1, <2>2 DEF Patched, Executed
  <2>4. DeletionCollapseRecheck(db)
    BY <1>5, <2>1, <2>3 DEF DeletionCollapseRecheck
  <2> QED  BY <1>3, <2>4 DEF WitnessStateRootCheck
<1> QED  BY <1>4, <1>5

-----------------------------------------------------------------------------
(* One lemma per step.                                                     *)

\* The tools start with the parent state and nothing written.
LEMMA InitOK == Init => ParityInv
<1> SUFFICES ASSUME Init PROVE ParityInv
  OBVIOUS
<1> USE DEF Init
<1>1. parent \in [Addr -> Account]
  BY ParentsAssumption
<1>2. history = [i \in 1 .. NumTx |-> {}]
  OBVIOUS
<1>3. Recorded /\ Pending
  BY <1>2 DEF Recorded, Pending
<1>4. Course
  BY <1>1, <1>3 DEF Course
<1>5. RecordInv
  BY ProbeRecorded DEF RecordInv
<1>6. ASSUME NEW a \in Addr
      PROVE  /\ writes[a] = NoWrite /\ deltas[a] = NoDelta /\ db[a] = parent[a]
             /\ DOMAIN NoWrite.stor = {} /\ NoWrite.hit = FALSE /\ NoWrite.info = "None"
             /\ NoDelta.touched = FALSE /\ ~Destroyed(a)
             /\ parent[a].stor = [s \in Slot |-> parent[a].stor[s]]
  <2>1. parent[a].stor \in Storages
    BY <1>1, AccountForms
  <2> QED  BY <1>2, <2>1 DEF NoWrites, NoWrite, NoDelta, Destroyed, Storages
<1>7. Executed
  <2>1. writes = [a \in Addr |-> writes[a]] /\ deltas = [a \in Addr |-> deltas[a]]
    BY DEF NoWrites
  <2>2. \A a \in Addr : DOMAIN writes[a].stor = {}
    BY Zenon, <1>6
  <2>3. ASSUME NEW a \in Addr PROVE Bare(a)
    BY <1>6, <2>2 DEF Bare
  <2> QED  BY <1>1, <2>1, <2>2, <2>3 DEF Executed
<1>8. WritesFollowed
  <2>1. ASSUME NEW a \in Addr PROVE Follows(db[a], writes[a], parent[a])
    <3>1. InfoOver(writes[a], parent[a]) = parent[a].info
      BY Zenon, <1>6 DEF InfoOver
    <3>2. StorOver(writes[a], parent[a]) = parent[a].stor
      <4>1. \A s \in Slot : s \notin DOMAIN writes[a].stor
        BY Zenon, <1>6
      <4> QED  BY Zenon, <1>6, <4>1 DEF StorOver
    <3>3. writes[a].hit = FALSE
      BY Zenon, <1>6
    <3> QED  BY Zenon, <1>6, <3>1, <3>2, <3>3 DEF Follows
  <2> QED  BY <2>1 DEF WritesFollowed
<1>9. DeltasLaid
  <2>1. ASSUME NEW a \in Addr
        PROVE  Laid(db[a], deltas[a], parent[a]) /\ ~deltas[a].touched
    BY Zenon, <1>6 DEF Laid
  <2> QED  BY <2>1 DEF DeltasLaid
<1>10. VerdictInv
  BY DEF VerdictInv, VerdictSound, NoFalseAlarm, VectorSound
<1> QED  BY <1>4, <1>5, <1>7, <1>8, <1>9, <1>10 DEF ParityInv, StateInv

\* Nothing is claimed before the end.
LEMMA NotDone ==
    ASSUME pc' # "done"
    PROVE  VerdictInv'
BY DEF VerdictInv, VerdictSound, NoFalseAlarm, VectorSound

\* A step that leaves the state of the block alone.
LEMMA StateKept ==
    ASSUME StateInv, UNCHANGED <<mode, parent, db, writes, history, deltas>>
    PROVE  StateInv'
<1>1. Executed => Executed'
  BY DEF Executed, Bare, Destroyed
<1>2. WritesFollowed => WritesFollowed'
  BY DEF WritesFollowed, Destroyed, EmptyTouched
<1>3. DeltasLaid => DeltasLaid'
  BY DEF DeltasLaid, Destroyed, CameBack
<1> QED  BY <1>1, <1>2, <1>3 DEF StateInv, Recording, Checking

\* A step that leaves the recorder alone.
LEMMA RecordKept ==
    ASSUME RecordInv, UNCHANGED <<parent, rec>>
    PROVE  RecordInv'
BY DEF RecordInv, RecordOK, Loaded

\* A step of the recorder.
LEMMA RecordMoves ==
    ASSUME NEW q, RecordOK(q), Loaded(q), rec' = q, UNCHANGED parent
    PROVE  RecordInv'
BY DEF RecordInv, RecordOK, Loaded

\* The transaction of the system sender is passed over.
LEMMA SkipStep == ParityInv /\ SkipSystemSender => ParityInv'
<1> SUFFICES ASSUME ParityInv, SkipSystemSender PROVE ParityInv'
  OBVIOUS
<1>1. RecordInv' /\ StateInv' /\ VerdictInv'
  BY RecordKept, StateKept, NotDone DEF ParityInv, SkipSystemSender
<1>2. Course'
  BY DEF ParityInv, Course, SkipSystemSender, Recorded, Pending, Recording
<1> QED  BY <1>1, <1>2 DEF ParityInv

\* A node error: the account stays recorded.
LEMMA RetryStep ==
    ASSUME ParityInv, NEW a \in Addr, RetryTransaction(a)
    PROVE  ParityInv'
<1>1. RecordInv'
  <2>1. RecordOK(RecordBasic(rec, a)) /\ Loaded(RecordBasic(rec, a))
    BY RetryRecorded DEF ParityInv, RecordInv
  <2> QED  BY <2>1, RecordMoves DEF RetryTransaction
<1>2. StateInv' /\ VerdictInv'
  BY StateKept, NotDone DEF ParityInv, RetryTransaction, Executing
<1>3. Course'
  BY DEF ParityInv, Course, RetryTransaction, Recorded, Pending, Recording
<1> QED  BY <1>1, <1>2, <1>3 DEF ParityInv

\* A transaction that cannot be executed.
LEMMA ErrorStep == ParityInv /\ TransactionError => ParityInv'
<1> SUFFICES ASSUME ParityInv, TransactionError PROVE ParityInv'
  OBVIOUS
<1>1. RecordInv' /\ StateInv' /\ VerdictInv'
  BY RecordKept, StateKept, NotDone DEF ParityInv, TransactionError, Executing
<1>2. tx' \in Nat \ {0} /\ tx' >= tx /\ history' = history
  BY DEF ParityInv, Course, Recorded, TransactionError
<1>3. Recorded' /\ (Pending => Pending')
  BY <1>2 DEF ParityInv, Course, Recorded, Pending
<1>4. Course'
  BY <1>3 DEF ParityInv, Course, TransactionError, Executing, Recording
<1> QED  BY <1>1, <1>4 DEF ParityInv

\* The transaction that ran is not pending any more.
LEMMA RunsCounted ==
    ASSUME NEW b, NEW x, NEW e, NEW o, Runs(b, x, e, o), tx' = tx + 1
    PROVE  Recorded' /\ Pending'
<1> DEFINE r == {[a |-> b, pre |-> x, e |-> e, o |-> o]}
<1>1. /\ tx \in Nat \ {0} /\ tx' = tx + 1 /\ history = [i \in 1 .. NumTx |-> history[i]]
      /\ history' = [history EXCEPT ![tx] = r]
      /\ \A i \in 1 .. NumTx : i >= tx => history[i] = {}
  BY DEF Runs, Recorded, Pending
<1> HIDE DEF r
<1>2. Recorded'
  <2>1. tx' \in Nat \ {0}
    BY <1>1
  <2>2. history' = [i \in 1 .. NumTx |-> history'[i]]
    BY Zenon, <1>1
  <2> QED  BY Zenon, <2>1, <2>2 DEF Recorded
<1>3. ASSUME NEW i \in 1 .. NumTx, i >= tx' PROVE history'[i] = {}
  <2>1. i # tx /\ i >= tx
    BY <1>1, <1>3, BlockAssumption
  <2> QED  BY <1>1, <2>1
<1> QED  BY <1>2, <1>3 DEF Pending

\* A transaction executed live, committed unless fail-fast stops the block at it.
LEMMA ExecuteStep ==
    ASSUME ParityInv, NEW b \in Addr, NEW o, NEW e \in Effects(db[b]), ExecuteTransaction(b, e, o)
    PROVE  ParityInv'
<1>1. /\ Course /\ RecordInv /\ StateInv /\ pc = "live" /\ tx <= NumTx
      /\ UNCHANGED <<mode, parent, deltas>>
  BY Zenon DEF ParityInv, ExecuteTransaction, Executing
<1>2. RecordInv'
  <2>1. SlotsRead(b, e) \in SUBSET Slot
    BY DEF SlotsRead, Changed
  <2>2. RecordOK(RecordReads(b, e)) /\ Loaded(RecordReads(b, e))
    BY <1>1, <2>1, ReadsRecorded DEF RecordReads, RecordInv
  <2> QED  BY <1>1, <2>2, RecordMoves DEF ExecuteTransaction
<1>3. VerdictInv'
  BY <1>1, NotDone DEF ExecuteTransaction
<1>4. CASE CompareTx(o) /\ mode.failFast
  <2>1. StateInv'
    BY <1>1, <1>4, StateKept DEF ExecuteTransaction
  <2>2. Course'
    BY <1>1, <1>4 DEF Course, ExecuteTransaction, Recorded, Pending, Recording
  <2> QED  BY <1>2, <1>3, <2>1, <2>2 DEF ParityInv
<1>5. CASE ~(CompareTx(o) /\ mode.failFast)
  <2>1. Commit(b, e) /\ pc' = "live" /\ tx' = tx + 1
        /\ history' = [history EXCEPT ![tx] = {[a |-> b, pre |-> db[b], e |-> e, o |-> o]}]
        /\ mism' \subseteq mism \cup {"tx"}
    BY <1>1, <1>5 DEF ExecuteTransaction, Commit
  <2>2. Runs(b, db[b], e, o)
    BY <1>1, <2>1, BlockAssumption DEF Runs, Course, Recorded
  <2>3. Ran(b, e, o)
    BY <1>1, <2>1, <2>2 DEF Ran
  <2>4. Recorded' /\ Pending'
    BY <2>1, <2>2, RunsCounted
  <2>5. Course'
    BY <1>1, <2>1, <2>4 DEF Course
  <2>6. ASSUME ~Recording PROVE Executed'
    <3>1. Executed /\ parent \in [Addr -> Account]
      BY <1>1, <2>6 DEF StateInv, Course
    <3>2. /\ db' \in [Addr -> Account] /\ writes' = [a \in Addr |-> writes'[a]]
          /\ \A a \in Addr : Bare(a)' /\ DOMAIN writes'[a].stor \subseteq Slot
      BY Zenon, <2>3, <3>1, RanExecuted
    <3> QED  BY <1>1, <3>1, <3>2 DEF Executed
  <2>7. ASSUME Checking PROVE WritesFollowed'
    <3>1. Executed /\ WritesFollowed /\ parent \in [Addr -> Account]
      BY <1>1, <2>7 DEF StateInv, Course, Checking, Recording
    <3> QED  BY <2>3, <3>1, RanFollowed
  <2>8. mode.tool # "vector"
    BY <1>1 DEF Course
  <2>9. StateInv'
    BY <1>1, <2>6, <2>7, <2>8 DEF StateInv, Checking, Recording
  <2> QED  BY <1>2, <1>3, <2>5, <2>9 DEF ParityInv
<1> QED  BY <1>4, <1>5

\* A transaction of a captured case.
LEMMA VectorStep ==
    ASSUME ParityInv, NEW b \in Addr, NEW o, NEW e \in Effects(db[b]), VectorTransaction(b, e, o)
    PROVE  ParityInv'
<1> DEFINE k == TxFromExecution(o)
<1>1. /\ Course /\ RecordInv /\ StateInv /\ pc = "vector" /\ pc' = "vector" /\ tx <= NumTx
      /\ UNCHANGED <<mode, parent, rec>> /\ Commit(b, e) /\ tx' = tx + 1
      /\ history' = [history EXCEPT ![tx] = {[a |-> b, pre |-> db[b], e |-> e, o |-> k]}]
      /\ deltas' = [deltas EXCEPT ![b] = RecordDelta(deltas[b], db[b], e)]
  BY DEF ParityInv, VectorTransaction, Commit
<1> HIDE DEF k
<1>2. RecordInv' /\ VerdictInv'
  BY <1>1, RecordKept, NotDone
<1>3. Runs(b, db[b], e, k)
  BY <1>1, BlockAssumption DEF Runs, Course, Recorded
<1>4. Ran(b, e, k)
  BY <1>1, <1>3 DEF Ran
<1>5. Recorded' /\ Pending'
  BY <1>1, <1>3, RunsCounted
<1>6. Course'
  BY <1>1, <1>5 DEF Course
<1>7. mode.tool = "vector" /\ Executed /\ DeltasLaid /\ parent \in [Addr -> Account]
  BY <1>1 DEF Course, StateInv, Recording
<1>8. /\ db' \in [Addr -> Account] /\ writes' = [a \in Addr |-> writes'[a]]
      /\ \A a \in Addr : Bare(a)' /\ DOMAIN writes'[a].stor \subseteq Slot
  BY <1>4, <1>7, RanExecuted
<1>9. DeltasLaid' /\ deltas' = [a \in Addr |-> deltas'[a]]
  BY Zenon, <1>1, <1>4, <1>7, RanLaid
<1>10. Executed'
  BY <1>8, <1>9 DEF Executed
<1>11. StateInv'
  BY <1>1, <1>7, <1>9, <1>10 DEF StateInv, Checking, Recording
<1> QED  BY <1>2, <1>6, <1>11 DEF ParityInv

\* The fixture is written.
LEMMA FixtureStep == ParityInv /\ WriteFixture => ParityInv'
<1> SUFFICES ASSUME ParityInv, WriteFixture PROVE ParityInv'
  OBVIOUS
<1>1. RecordInv' /\ VerdictInv'
  BY RecordKept, NotDone DEF ParityInv, WriteFixture
<1>2. StateInv'
  BY DEF WriteFixture, StateInv, Recording, Checking
<1>3. Course'
  BY DEF ParityInv, Course, WriteFixture, Recorded, Recording
<1> QED  BY <1>1, <1>2, <1>3 DEF ParityInv

\* What is left of the invariant when a fixture is replayed.
LEMMA ReplayKeeps ==
    ASSUME ParityInv, pc = "replay", pc' \in {"replay", "done"}, tx' \in {tx, tx + 1},
           UNCHANGED <<mode, parent, rec, history>>
    PROVE  ParityInv'
<1>1. Recording /\ RecordInv
  BY DEF ParityInv, Course
<1>2. RecordInv'
  BY <1>1, RecordKept
<1>3. StateInv' /\ VerdictInv'
  BY <1>1 DEF StateInv, VerdictInv, VerdictSound, NoFalseAlarm, VectorSound, Recording, Checking
<1>4. Course'
  BY <1>1 DEF ParityInv, Course, Recorded, Recording
<1> QED  BY <1>2, <1>3, <1>4 DEF ParityInv

\* The block is checked: the verdict says what the properties say.
LEMMA CheckStep == ParityInv /\ CheckStateRoot => ParityInv'
<1> SUFFICES ASSUME ParityInv, CheckStateRoot PROVE ParityInv'
  OBVIOUS
<1>1. /\ Course /\ RecordInv /\ StateInv /\ Checking /\ pc' = "done" /\ Finishing
      /\ UNCHANGED <<mode, parent, tx, db, writes, rec, history, deltas>>
  BY DEF ParityInv, CheckStateRoot
<1>2. RecordInv' /\ StateInv'
  BY <1>1, RecordKept, StateKept
<1>3. Course'
  BY <1>1 DEF Course, Recorded
<1>4. Executed /\ WritesFollowed /\ mode.tool # "vector" /\ mism \subseteq {"tx"}
  BY <1>1 DEF StateInv, Checking, Recording, Course, Finishing
<1>5. PICK p \in Posts, lost \in SUBSET MayCollapse,
           trieLost \in IF AccountRemoved THEN BOOLEAN ELSE {FALSE} :
        /\ post' = p
        /\ mism' = IF pc = "live" /\ ~WitnessStateRootCheck(p, lost, trieLost)
                   THEN mism \cup {Diagnosis(p)} ELSE mism
  BY Zenon DEF CheckStateRoot
<1> DEFINE D == \A a \in Addr : (Destroyed(a)' <=> Destroyed(a)) /\ (EmptyTouched(a)' <=> EmptyTouched(a))
                                /\ (Vanished(a)' <=> Vanished(a))
<1>6. D
  BY Zenon, <1>1 DEF Destroyed, EmptyTouched, Vanished
<1>7. /\ Deleting' = Deleting /\ Written' = Written /\ (ControlHolds' <=> ControlHolds)
      /\ \A a \in Addr : PostInfo(a)' = PostInfo(a) /\ PostLeaf(a)' = PostLeaf(a)
  BY <1>1 DEF Deleting, Written, ControlHolds, PostInfo, PostLeaf, PostStorage
<1>8. VerdictSound'
  <2> SUFFICES ASSUME mism' = {}, NEW a \in Addr,
                      ~Destroyed(a)', ~EmptyTouched(a)', ~Vanished(a)'
               PROVE  \/ db'[a] = post'[a]
                      \/ a \in Deleting' /\ AgreesWithCanonical(a, post)'
    BY DEF VerdictSound
  <2>1. pc = "live" /\ WitnessStateRootCheck(p, lost, trieLost)
    BY Zenon, <1>1, <1>5 DEF Finishing, Course
  <2>2. db[a] = p[a] \/ (a \in Deleting /\ AgreesWithCanonical(a, p))
    BY Zenon, <1>4, <1>6, <2>1, MatchIsSound
  <2>3. AgreesWithCanonical(a, p) => AgreesWithCanonical(a, post)'
    BY <1>1, <1>5, <1>7 DEF AgreesWithCanonical
  <2> QED  BY Zenon, <1>1, <1>5, <1>7, <2>2, <2>3
<1>9. NoFalseAlarm'
  <2> SUFFICES ASSUME "tx" \notin mism', db' = post', ControlHolds',
                      \A a \in Written' : PostLeaf(a)'.present,
                      \A a \in Addr : ~Destroyed(a)' /\ ~EmptyTouched(a)' /\ ~Vanished(a)'
               PROVE  mism' = {}
    BY DEF NoFalseAlarm
  <2>1. mism = {}
    BY <1>4, <1>5
  <2>2. \A a \in Written : PostLeaf(a).present
    BY <1>7 DEF Written
  <2>3. WitnessStateRootCheck(db, lost, trieLost)
    BY Zenon, <1>4, <1>6, <1>7, <2>2, SameStatePasses
  <2>4. db = p
    BY Zenon, <1>1, <1>5
  <2> QED  BY <1>5, <2>1, <2>3, <2>4
<1>10. VectorSound'
  BY <1>1, <1>4 DEF VectorSound
<1> QED  BY <1>2, <1>3, <1>8, <1>9, <1>10 DEF ParityInv, VerdictInv

\* A captured case that fails is not a pass.
LEMMA VectorErrorStep == ParityInv /\ VectorError => ParityInv'
<1> SUFFICES ASSUME ParityInv, VectorError PROVE ParityInv'
  OBVIOUS
<1>1. RecordInv' /\ StateInv'
  BY RecordKept, StateKept DEF ParityInv, VectorError
<1>2. mode.tool = "vector" /\ mode' = mode /\ "error" \in mism'
  BY DEF ParityInv, Course, VectorError
<1>3. VerdictInv'
  BY <1>2 DEF VerdictInv, VerdictSound, NoFalseAlarm, VectorSound, Checking
<1>4. Course'
  BY DEF ParityInv, Course, VectorError, Recorded
<1> QED  BY <1>1, <1>3, <1>4 DEF ParityInv

\* A case that passes: the root it derives is that of the committed state, but for the exceptions.
LEMMA RootMatches ==
    ASSUME Executed, DeltasLaid, NEW a \in Addr, ~CameBack(a), ~LeftEmpty(a)
    PROVE  PostStateRoot[a] = db[a]
<1>1. Laid(db[a], deltas[a], parent[a]) /\ db[a] \in Account
  BY DEF DeltasLaid, Executed
<1>2. CASE ~deltas[a].touched
  <2>1. PostStateRoot[a] = parent[a]
    BY <1>2 DEF PostStateRoot
  <2> QED  BY <1>1, <1>2, <2>1 DEF Laid
<1>3. CASE deltas[a].touched /\ ~deltas[a].exists
  <2>1. PostStateRoot[a] = Absent
    BY <1>3 DEF PostStateRoot
  <2> QED  BY <1>1, <1>3, <2>1 DEF Laid
<1>4. CASE deltas[a].touched /\ deltas[a].exists
  <2>1. PostStateRoot[a] = Present(deltas[a].info, SlotsOver(deltas[a], parent[a]))
    BY <1>4 DEF PostStateRoot, SlotsOver
  <2>2. db[a].info = deltas[a].info /\ db[a].stor = SlotsOver(deltas[a], parent[a])
    BY <1>1, <1>4 DEF Laid
  <2>3. db[a].present
    BY <1>4 DEF LeftEmpty
  <2>4. db[a] = Present(db[a].info, db[a].stor)
    BY <1>1, <2>3, AccountForms
  <2> QED  BY Zenon, <2>1, <2>2, <2>4
<1> QED  BY <1>2, <1>3, <1>4

\* A captured case is compared.
LEMMA OutputStep == ParityInv /\ CompareOutput => ParityInv'
<1> SUFFICES ASSUME ParityInv, CompareOutput PROVE ParityInv'
  OBVIOUS
<1>1. /\ Course /\ RecordInv /\ StateInv /\ pc = "vector" /\ pc' = "done"
      /\ UNCHANGED <<mode, parent, tx, db, writes, rec, history, deltas>>
  BY DEF ParityInv, CompareOutput
<1>2. RecordInv' /\ StateInv'
  BY <1>1, RecordKept, StateKept
<1>3. Course'
  BY <1>1 DEF Course, Recorded
<1>4. mode.tool = "vector" /\ Executed /\ DeltasLaid
  BY <1>1 DEF Course, StateInv, Recording
<1>5. mism' = {} => PostStateRoot = post'
  BY DEF CompareOutput
<1>6. ASSUME mism' = {}, NEW a \in Addr PROVE db'[a] = post'[a] \/ LeftEmpty(a)' \/ CameBack(a)'
  <2>1. (CameBack(a)' <=> CameBack(a)) /\ (LeftEmpty(a)' <=> LeftEmpty(a))
    BY <1>1 DEF CameBack, LeftEmpty
  <2>2. CameBack(a) \/ LeftEmpty(a) \/ PostStateRoot[a] = db[a]
    BY <1>4, RootMatches
  <2> QED  BY <1>1, <1>5, <1>6, <2>1, <2>2
<1>7. VerdictInv'
  BY <1>1, <1>4, <1>6 DEF VerdictInv, VerdictSound, NoFalseAlarm, VectorSound, Checking
<1> QED  BY <1>2, <1>3, <1>7 DEF ParityInv

\* A step in which nothing happens.
LEMMA StutterStep == ParityInv /\ UNCHANGED vars => ParityInv'
<1> SUFFICES ASSUME ParityInv, UNCHANGED vars PROVE ParityInv'
  OBVIOUS
<1>1. RecordInv' /\ StateInv'
  BY RecordKept, StateKept DEF ParityInv, vars
<1>2. Course'
  BY Zenon DEF ParityInv, Course, vars, Recorded, Pending, Recording
<1>3. VerdictInv'
  <2>1. VerdictSound'
    BY DEF ParityInv, VerdictInv, VerdictSound, vars, Checking, Destroyed, EmptyTouched, Vanished,
           Deleting, Written, AgreesWithCanonical, PostInfo
  <2>2. NoFalseAlarm'
    BY Zenon DEF ParityInv, VerdictInv, NoFalseAlarm, vars, Checking, Destroyed, EmptyTouched, Vanished,
           Written, PostInfo, PostStorage, PostLeaf, ControlHolds
  <2>3. VectorSound'
    BY DEF ParityInv, VerdictInv, VectorSound, vars, CameBack, LeftEmpty
  <2> QED  BY Zenon, <2>1, <2>2, <2>3 DEF VerdictInv
<1> QED  BY <1>1, <1>2, <1>3 DEF ParityInv

\* Every step of the tools preserves the invariant.
LEMMA NextStep == ParityInv /\ [Next]_vars => ParityInv'
<1> SUFFICES ASSUME ParityInv, [Next]_vars PROVE ParityInv'
  OBVIOUS
<1>1. ASSUME NEW a \in Addr, RetryTransaction(a) PROVE ParityInv'
  BY <1>1, RetryStep
<1>2. ASSUME NEW a \in Addr, NEW o \in Outcomes, NEW e \in Effects(db[a]), ExecuteTransaction(a, e, o)
      PROVE  ParityInv'
  BY <1>2, ExecuteStep
<1>3. ASSUME NEW a \in Addr, NEW o \in Outcomes, NEW e \in Effects(db[a]), VectorTransaction(a, e, o)
      PROVE  ParityInv'
  BY Zenon, <1>3, VectorStep
<1>4. ASSUME NEW a \in Addr, NEW o \in Outcomes, NEW e \in Effects(db[a]), ReplayTransaction(a, e, o)
      PROVE  ParityInv'
  BY <1>4, ReplayKeeps DEF ReplayTransaction, Commit
<1>5. CASE ReplayError
  BY <1>5, ReplayKeeps DEF ReplayError
<1>6. CASE ReplayReport
  BY <1>6, ReplayKeeps DEF ReplayReport
<1>7. CASE SkipSystemSender \/ TransactionError \/ CheckStateRoot \/ WriteFixture
  BY <1>7, SkipStep, ErrorStep, CheckStep, FixtureStep
<1>8. CASE VectorError \/ CompareOutput
  BY <1>8, VectorErrorStep, OutputStep
<1>9. CASE UNCHANGED vars
  BY <1>9, StutterStep
<1> QED  BY Zenon, <1>1, <1>2, <1>3, <1>4, <1>5, <1>6, <1>7, <1>8, <1>9 DEF Next

\* The invariant holds throughout.
LEMMA ParityInvariant == Spec => []ParityInv
BY InitOK, NextStep, PTL DEF Spec

\* A block that passes the check of replay_block left every account as Nitro did, but for the
\* documented exceptions, for any number of transactions, accounts and slots.
THEOREM VerdictStaysSound == Spec => []VerdictSound
<1>1. ParityInv => VerdictSound
  BY DEF ParityInv, VerdictInv
<1> QED  BY <1>1, ParityInvariant, PTL

\* A block that the engine executed as Nitro did passes the check of replay_block, although the
\* recomputed root may lose storage tries: deletion_collapse_recheck clears every such artifact.
THEOREM AlarmsStayTrue == Spec => []NoFalseAlarm
<1>1. ParityInv => NoFalseAlarm
  BY DEF ParityInv, VerdictInv
<1> QED  BY <1>1, ParityInvariant, PTL

\* A captured case that passes the vector runner left every account as Nitro did, but for the
\* accounts left empty and the contracts that came back.
THEOREM VectorsStaySound == Spec => []VectorSound
<1>1. ParityInv => VectorSound
  BY DEF ParityInv, VerdictInv
<1> QED  BY <1>1, ParityInvariant, PTL

\* A fixture answers every read of the live engine as the node did, whatever was retried, skipped
\* or left out of the prestate.
THEOREM FixtureKeepsAnswering == Spec => []FixtureAnswersReads
<1>1. ParityInv => FixtureAnswersReads
  BY SeedAnswers DEF ParityInv, RecordInv, Course, FixtureAnswersReads
<1> QED  BY <1>1, ParityInvariant, PTL

-----------------------------------------------------------------------------
(* The timeout queue.                                                      *)

QueueInv == TypeOK /\ EntriesBetweenPointers

\* Contents, of any cells.
Listed(c) == [i \in 1..(c[0] - c[1]) |-> c[c[1] + i - 1]]

\* The constants' assumptions, as the proofs use them.
LEMMA OffsetFacts ==
    /\ MaxOffset \in Nat /\ MaxOffset >= 2
    /\ 0 \in Offsets /\ 1 \in Offsets /\ 2 \in Offsets /\ Offsets \subseteq Nat
    /\ 0 \notin Values /\ Values \subseteq Nat
  BY OffsetAssumption, ValuesAssumption DEF Offsets, InitialOffset

\* The cells satisfy the invariant.
CellsOK(c) ==
    /\ c \in [Offsets -> Nat]
    /\ \/ c[0] = 0 /\ c[1] = 0
       \/ 2 <= c[1] /\ c[1] <= c[0] /\ c[0] <= MaxOffset
    /\ \A i \in 2..MaxOffset :
          IF c[1] <= i /\ i < c[0] THEN c[i] \in Values ELSE c[i] = 0

\* The invariant in terms of the cells.
LEMMA InvCells == QueueInv <=> CellsOK(cell) /\ answer \in Values \cup {0}
  BY DEF QueueInv, TypeOK, EntriesBetweenPointers, CellsOK, NextPut, NextGet, InitialOffset

\* Setting the pointers of an empty queue keeps its cells in order.
LEMMA InitializeFacts ==
    ASSUME NEW c, CellsOK(c), c[0] = c[1]
    PROVE  /\ CellsOK(Initialize(c))
           /\ Initialize(c)[0] = 2 /\ Initialize(c)[1] = 2
  <1> DEFINE d == Initialize(c)
  <1>1. /\ d \in [Offsets -> Nat] /\ d[0] = 2 /\ d[1] = 2
        /\ \A i \in 2..MaxOffset : d[i] = c[i]
    BY OffsetFacts DEF CellsOK, Initialize, NextPut, NextGet, InitialOffset, Offsets
  <1>2. \A i \in 2..MaxOffset : c[i] = 0
    BY OffsetFacts DEF CellsOK, Offsets
  <1> HIDE DEF d
  <1>3. CellsOK(d)
    BY <1>1, <1>2, OffsetFacts DEF CellsOK
  <1> QED  BY <1>1, <1>3 DEF d

\* After ensure_initialized the pointers are above their own cells; the entries are the
\* same as before.
LEMMA EnsureFacts ==
    ASSUME NEW c, CellsOK(c)
    PROVE  LET d == EnsureInitialized(c) IN
           CellsOK(d) /\ d[1] >= 2 /\ Listed(d) = Listed(c)
  <1> DEFINE d == EnsureInitialized(c)
  <1>1. CASE c[0] = 0 /\ c[1] = 0
    <2>1. d = Initialize(c)
      BY <1>1 DEF EnsureInitialized, NextPut, NextGet
    <2>2. CellsOK(d) /\ d[0] = 2 /\ d[1] = 2
      BY <1>1, <2>1, InitializeFacts
    <2> HIDE DEF d
    <2>3. 1..(d[0] - d[1]) = {} /\ 1..(c[0] - c[1]) = {}
      BY <1>1, <2>2
    <2>4. Listed(d) = Listed(c)
      BY Zenon, <2>3 DEF Listed
    <2> QED  BY <2>2, <2>4 DEF d
  <1>2. CASE ~(c[0] = 0 /\ c[1] = 0)
    BY <1>2 DEF EnsureInitialized, NextPut, NextGet, CellsOK
  <1> QED  BY <1>1, <1>2

\* The entries are a sequence of values.
LEMMA ListedSeq ==
    ASSUME NEW c, CellsOK(c)
    PROVE  /\ c[0] \in Nat /\ c[1] \in Nat /\ c[0] - c[1] \in Nat
           /\ Listed(c) \in Seq(Values)
           /\ Len(Listed(c)) = c[0] - c[1]
           /\ \A i \in 1..(c[0] - c[1]) : Listed(c)[i] = c[c[1] + i - 1]
  <1> DEFINE n == c[0] - c[1]
             g == c[1]
  <1>1. c[0] \in Nat /\ g \in Nat /\ n \in Nat /\ g + n = c[0]
    BY OffsetFacts DEF CellsOK
  <1>2. \A i \in 1..n : c[g + i - 1] \in Values
    <2> SUFFICES ASSUME NEW i \in 1..n PROVE c[g + i - 1] \in Values
      OBVIOUS
    <2>1. 2 <= g /\ g + n <= MaxOffset
      BY <1>1 DEF CellsOK
    <2> DEFINE k == g + i - 1
    <2>2. k \in 2..MaxOffset /\ g <= k /\ k < g + n
      BY <1>1, <2>1, OffsetFacts
    <2> HIDE DEF k
    <2>3. c[k] \in Values
      BY <1>1, <2>2 DEF CellsOK
    <2> QED  BY <2>3 DEF k
  <1>3. Listed(c) = [i \in 1..n |-> c[g + i - 1]]
    BY DEF Listed
  <1> HIDE DEF n, g
  <1>4. Listed(c) \in Seq(Values) /\ Len(Listed(c)) = n
    BY <1>1, <1>2, <1>3
  <1>5. \A i \in 1..n : Listed(c)[i] = c[g + i - 1]
    BY <1>3
  <1> QED  BY <1>1, <1>4, <1>5 DEF n, g

\* put appends, given room for the entry.
LEMMA PutFacts ==
    ASSUME NEW c, CellsOK(c), c[1] >= 2, c[0] < MaxOffset, NEW v \in Values
    PROVE  CellsOK(PutInto(c, v)) /\ Listed(PutInto(c, v)) = Append(Listed(c), v)
  <1> DEFINE p == c[0]
             g == c[1]
             d == PutInto(c, v)
  <1>1. /\ c \in [Offsets -> Nat] /\ p \in Nat /\ g \in Nat /\ 2 <= g /\ g <= p
        /\ p < MaxOffset /\ p \in Offsets /\ v \in Nat
    BY OffsetFacts DEF CellsOK, Offsets
  <1>2. /\ d \in [Offsets -> Nat] /\ d[0] = p + 1 /\ d[1] = g /\ d[p] = v
        /\ \A i \in Offsets \ {0, p} : d[i] = c[i]
    BY <1>1, OffsetFacts DEF PutInto, SetEntry, NextPut, NextGet
  <1> HIDE DEF d
  <1>3. CellsOK(d)
    <2>1. \A i \in 2..MaxOffset :
             IF d[1] <= i /\ i < d[0] THEN d[i] \in Values ELSE d[i] = 0
      <3> SUFFICES ASSUME NEW i \in 2..MaxOffset
                   PROVE  IF g <= i /\ i < p + 1 THEN d[i] \in Values ELSE d[i] = 0
        BY <1>2
      <3>1. i \in Offsets /\ i # 0
        BY OffsetFacts DEF Offsets
      <3>2. CASE i = p
        BY <1>1, <1>2, <3>2
      <3>3. CASE i # p
        <4>1. d[i] = c[i]
          BY <1>2, <3>1, <3>3
        <4>2. IF g <= i /\ i < p THEN c[i] \in Values ELSE c[i] = 0
          BY DEF CellsOK
        <4> QED  BY <1>1, <3>3, <4>1, <4>2, OffsetFacts
      <3> QED  BY <3>2, <3>3
    <2> QED  BY <1>1, <1>2, <2>1, OffsetFacts DEF CellsOK
  <1>4. Listed(d) = Append(Listed(c), v)
    <2> DEFINE n == p - g
    <2>1. /\ Listed(c) \in Seq(Values) /\ Len(Listed(c)) = n /\ n \in Nat
          /\ \A i \in 1..n : Listed(c)[i] = c[g + i - 1]
      BY ListedSeq
    <2>2. /\ Listed(d) \in Seq(Values) /\ Len(Listed(d)) = n + 1
          /\ \A i \in 1..(n + 1) : Listed(d)[i] = d[g + i - 1]
      <3>1. d[0] - d[1] = n + 1
        BY <1>1, <1>2
      <3> QED  BY <1>2, <1>3, <3>1, ListedSeq
    <2>3. \A i \in 1..n : Listed(d)[i] = Listed(c)[i]
      <3> SUFFICES ASSUME NEW i \in 1..n PROVE d[g + i - 1] = c[g + i - 1]
        BY <2>1, <2>2
      <3>1. g + i - 1 \in Offsets \ {0, p}
        <4>1. n = p - g /\ i \in 1..n /\ MaxOffset \in Nat
          BY OffsetFacts
        <4> HIDE DEF n, p, g
        <4> QED  BY <1>1, <4>1 DEF Offsets
      <3> QED  BY <1>2, <3>1
    <2>4. Listed(d)[n + 1] = v
      <3>1. g + (n + 1) - 1 = p
        BY <1>1
      <3>2. n + 1 \in 1..(n + 1)
        BY <2>1
      <3> QED  BY <1>2, <2>2, <3>1, <3>2
    <2> HIDE DEF n
    <2> DEFINE L == Listed(c)
               M == Listed(d)
    <2> HIDE DEF L, M
    <2>5. /\ L \in Seq(Values) /\ M \in Seq(Values) /\ Len(L) = n /\ Len(M) = n + 1
          /\ \A i \in 1..n : M[i] = L[i] /\ M[n + 1] = v
      BY <2>1, <2>2, <2>3, <2>4 DEF L, M
    <2>6. M[n + 1] = v
      BY <2>4 DEF M
    <2>7. M = Append(L, v)
      BY <2>1, <2>5, <2>6
    <2> QED  BY <2>7 DEF L, M
  <1> QED  BY <1>3, <1>4 DEF d

\* get takes the front, and clears its cell.
LEMMA TakeFacts ==
    ASSUME NEW c, CellsOK(c), c[0] # c[1]
    PROVE  /\ CellsOK(TakeOut(c))
           /\ Listed(c) # << >>
           /\ Front(c) = Head(Listed(c))
           /\ Listed(TakeOut(c)) = Tail(Listed(c))
  <1> DEFINE p == c[0]
             g == c[1]
             d == TakeOut(c)
             n == p - g
  <1>1. /\ c \in [Offsets -> Nat] /\ p \in Nat /\ g \in Nat /\ 2 <= g /\ g < p
        /\ p <= MaxOffset /\ g \in Offsets /\ n \in Nat /\ n >= 1
    BY OffsetFacts DEF CellsOK, Offsets
  <1>2. /\ d \in [Offsets -> Nat] /\ d[0] = p /\ d[1] = g + 1 /\ d[g] = 0
        /\ \A i \in Offsets \ {1, g} : d[i] = c[i]
    BY <1>1, OffsetFacts DEF TakeOut, IsEmpty, SetEntry, NextPut, NextGet
  <1> HIDE DEF d
  <1>3. CellsOK(d)
    <2>1. \A i \in 2..MaxOffset :
             IF d[1] <= i /\ i < d[0] THEN d[i] \in Values ELSE d[i] = 0
      <3> SUFFICES ASSUME NEW i \in 2..MaxOffset
                   PROVE  IF g + 1 <= i /\ i < p THEN d[i] \in Values ELSE d[i] = 0
        BY <1>2
      <3>1. i \in Offsets /\ i # 1 /\ i \in Nat
        BY OffsetFacts DEF Offsets
      <3>2. CASE i = g
        BY <1>1, <1>2, <3>2
      <3>3. CASE i # g
        <4>1. d[i] = c[i]
          BY <1>2, <3>1, <3>3
        <4>2. IF g <= i /\ i < p THEN c[i] \in Values ELSE c[i] = 0
          BY DEF CellsOK
        <4> QED  BY <1>1, <3>1, <3>3, <4>1, <4>2
      <3> QED  BY <3>2, <3>3
    <2> QED  BY <1>1, <1>2, <2>1, OffsetFacts DEF CellsOK
  <1>4. /\ Listed(c) \in Seq(Values) /\ Len(Listed(c)) = n
        /\ \A i \in 1..n : Listed(c)[i] = c[g + i - 1]
    BY ListedSeq
  <1>5. /\ Listed(d) \in Seq(Values) /\ Len(Listed(d)) = n - 1
        /\ \A i \in 1..(n - 1) : Listed(d)[i] = d[g + i]
    <2>1. d[0] - d[1] = n - 1 /\ \A i \in 1..(n - 1) : d[1] + i - 1 = g + i
      BY <1>1, <1>2
    <2>2. /\ Listed(d) \in Seq(Values) /\ Len(Listed(d)) = d[0] - d[1]
          /\ \A i \in 1..(d[0] - d[1]) : Listed(d)[i] = d[d[1] + i - 1]
      BY <1>3, ListedSeq
    <2> HIDE DEF n, g
    <2> QED  BY <2>1, <2>2
  <1>6. \A i \in 1..(n - 1) : Listed(d)[i] = Listed(c)[i + 1]
    <2> SUFFICES ASSUME NEW i \in 1..(n - 1) PROVE d[g + i] = Listed(c)[i + 1]
      BY <1>5
    <2>1. i + 1 \in 1..n /\ g + (i + 1) - 1 = g + i /\ g + i \in Offsets \ {1, g}
      <3>1. n = p - g /\ MaxOffset \in Nat
        BY OffsetFacts
      <3> HIDE DEF n, p, g
      <3> QED  BY <1>1, <3>1 DEF Offsets
    <2>2. Listed(c)[i + 1] = c[g + (i + 1) - 1]
      BY <1>4, <2>1
    <2> QED  BY <1>2, <2>1, <2>2
  <1>7. Listed(c)[1] = c[g]
    <2>1. 1 \in 1..n /\ g + 1 - 1 = g
      BY <1>1
    <2> QED  BY <1>4, <2>1
  <1>8. Front(c) = c[g]
    BY DEF Front, IsEmpty, GetEntry, NextPut, NextGet
  <1> DEFINE L == Listed(c)
             M == Listed(d)
  <1>9. /\ L \in Seq(Values) /\ M \in Seq(Values) /\ Len(L) = n /\ Len(M) = n - 1
        /\ \A i \in 1..(n - 1) : M[i] = L[i + 1]
    BY <1>4, <1>5, <1>6
  <1>10. L[1] = c[g]
    BY <1>7
  <1>11. n \in Nat /\ n >= 1
    BY <1>1
  <1> HIDE DEF L, M, n
  <1>12. L # << >> /\ Head(L) = L[1] /\ M = Tail(L)
    BY <1>9, <1>11
  <1> QED  BY <1>3, <1>8, <1>10, <1>12 DEF L, M, d

\* An empty queue lists nothing.
LEMMA EmptyFacts ==
    ASSUME NEW c, CellsOK(c), c[0] = c[1]
    PROVE  Listed(c) = << >> /\ Front(c) = 0 /\ TakeOut(c) = c
  <1>1. Listed(c) \in Seq(Values) /\ Len(Listed(c)) = 0
    <2>1. c[0] - c[1] = 0
      BY ListedSeq
    <2> QED  BY <2>1, ListedSeq
  <1>2. Listed(c) = << >>
    BY <1>1
  <1> QED  BY <1>2 DEF Front, TakeOut, IsEmpty, NextPut, NextGet

-----------------------------------------------------------------------------
(* The invariant and the refinement, together: each step keeps the cells   *)
(* in order, and does to the entries what a step of Fifo does.             *)

\* The queue of Fifo is the list of the cells.
LEMMA ContentsListed == Contents = Listed(cell)
  BY DEF Contents, Listed, NextPut, NextGet

\* What each action does to the cells and to the list of entries.
LEMMA StepFacts ==
    ASSUME QueueInv, QueueNext
    PROVE  QueueInv' /\ (F!Next \/ UNCHANGED <<Contents, answer>>)
  <1>1. CellsOK(cell) /\ answer \in Values \cup {0}
    BY InvCells
  <1>2. Contents = Listed(cell) /\ Contents' = Listed(cell')
    BY ContentsListed DEF Contents, Listed, NextPut, NextGet
  <1> DEFINE q == Listed(cell)
             q2 == Listed(cell')
  <1>3. /\ F!Next <=> \/ \E v \in Values : q2 = Append(q, v) /\ answer' = answer
                      \/ answer' = (IF q = << >> THEN 0 ELSE Head(q)) /\ q2 = q
                      \/ /\ answer' = (IF q = << >> THEN 0 ELSE Head(q))
                         /\ q2 = (IF q = << >> THEN q ELSE Tail(q))
        /\ UNCHANGED <<Contents, answer>> <=> q2 = q /\ answer' = answer
    BY <1>2 DEF F!Next, F!Put, F!Peek, F!Get, F!Front
  <1>4. (CellsOK(cell') /\ answer' \in Values \cup {0}) => QueueInv'
    BY DEF QueueInv, TypeOK, EntriesBetweenPointers, CellsOK, NextPut, NextGet, InitialOffset
  <1>5. Front(cell) = (IF q = << >> THEN 0 ELSE Head(q))
    BY <1>1, EmptyFacts, TakeFacts
  <1>6. Front(cell) \in Values \cup {0}
    <2>1. q \in Seq(Values)
      BY <1>1, ListedSeq
    <2> QED  BY <1>5, <2>1
  <1>7. ASSUME NEW v \in Values, Put(v) PROVE CellsOK(cell') /\ q2 = Append(q, v)
    <2> DEFINE d == EnsureInitialized(cell)
    <2>1. CellsOK(d) /\ d[1] >= 2 /\ Listed(d) = q
      BY <1>1, EnsureFacts
    <2>2. d[0] < MaxOffset /\ cell' = PutInto(d, v)
      BY <1>7 DEF Put, NextPut
    <2> HIDE DEF d
    <2> QED  BY <2>1, <2>2, PutFacts
  <1>8. ASSUME Get PROVE CellsOK(cell') /\ q2 = (IF q = << >> THEN q ELSE Tail(q))
    <2>1. cell' = TakeOut(cell)
      BY <1>8 DEF Get
    <2> QED  BY <1>1, <2>1, EmptyFacts, TakeFacts
  <1>9. ASSUME Shift PROVE CellsOK(cell') /\ q2 = q
    <2>1. cell[0] = cell[1] /\ cell' = Initialize(cell)
      BY <1>9 DEF Shift, IsEmpty, NextPut, NextGet
    <2>2. CellsOK(cell') /\ cell'[0] = cell'[1]
      BY <1>1, <2>1, InitializeFacts
    <2> QED  BY <1>1, <2>1, <2>2, EmptyFacts
  <1> HIDE DEF q, q2
  <1>10. CASE \E v \in Values : Put(v)
    BY <1>1, <1>3, <1>4, <1>7, <1>10 DEF Put
  <1>11. CASE Peek
    <2>1. cell' = cell /\ answer' = Front(cell)
      BY <1>11 DEF Peek
    <2>2. q2 = q
      BY <2>1 DEF q, q2
    <2> QED  BY <1>1, <1>3, <1>4, <1>5, <1>6, <2>1, <2>2
  <1>12. CASE Get
    BY <1>3, <1>4, <1>5, <1>6, <1>8, <1>12 DEF Get
  <1>13. CASE Shift
    BY <1>1, <1>3, <1>4, <1>9, <1>13 DEF Shift
  <1> QED  BY <1>10, <1>11, <1>12, <1>13 DEF QueueNext

\* Both kinds of new storage hold an empty queue.
LEMMA QueueInitFacts == QueueInit => QueueInv /\ F!Init
  <1> SUFFICES ASSUME QueueInit PROVE QueueInv /\ F!Init
    OBVIOUS
  <1> DEFINE blank == [i \in Offsets |-> 0]
  <1>1. CellsOK(blank) /\ blank[0] = blank[1]
    BY OffsetFacts DEF CellsOK, Offsets
  <1>2. CellsOK(Initialize(blank)) /\ Initialize(blank)[0] = Initialize(blank)[1]
    BY <1>1, InitializeFacts
  <1>3. answer = 0 /\ (cell = blank \/ cell = Initialize(blank))
    BY DEF QueueInit
  <1> HIDE DEF blank
  <1>4. CellsOK(cell) /\ cell[0] = cell[1]
    BY <1>1, <1>2, <1>3
  <1>5. Contents = << >>
    BY <1>4, EmptyFacts, ContentsListed
  <1> QED  BY <1>3, <1>4, <1>5, InvCells DEF F!Init

\* The type invariant and the layout invariant hold in every reachable state.
THEOREM LayoutInvariant == QueueSpec => [](TypeOK /\ EntriesBetweenPointers)
  <1>1. QueueInit => QueueInv
    BY QueueInitFacts
  <1>2. QueueInv /\ [QueueNext]_queueVars => QueueInv'
    <2>1. ASSUME QueueInv, UNCHANGED queueVars PROVE QueueInv'
      BY <2>1 DEF queueVars, QueueInv, TypeOK, EntriesBetweenPointers
    <2> QED  BY <2>1, StepFacts
  <1>3. QueueInv => TypeOK /\ EntriesBetweenPointers
    BY DEF QueueInv
  <1> QED  BY <1>1, <1>2, <1>3, PTL DEF QueueSpec

\* The queue in storage implements the first-in first-out queue the reaper relies on.
THEOREM Refinement == QueueSpec => ImplementsFifo
  <1>1. QueueInit => F!Init
    BY QueueInitFacts
  <1>2. QueueInv /\ [QueueNext]_queueVars => [F!Next]_<<Contents, answer>>
    <2>1. ASSUME UNCHANGED queueVars PROVE UNCHANGED <<Contents, answer>>
      BY <2>1 DEF queueVars, Contents
    <2> QED  BY <2>1, StepFacts
  <1>3. [](TypeOK /\ EntriesBetweenPointers) => []QueueInv
    <2>1. TypeOK /\ EntriesBetweenPointers => QueueInv
      BY DEF QueueInv
    <2> QED  BY <2>1, PTL
  <1> QED  BY <1>1, <1>2, <1>3, LayoutInvariant, PTL DEF QueueSpec, ImplementsFifo, F!Spec

-----------------------------------------------------------------------------
(* The address table.                                                      *)

\* The two directions of the table invert each other on the indices in use.
TableInv ==
    /\ numItems \in Nat
    /\ byAddress \in [TableAddresses -> 0..numItems]
    /\ backing \in [1..numItems -> TableAddresses]
    /\ \A a \in TableAddresses : byAddress[a] # 0 => backing[byAddress[a]] = a
    /\ \A p \in promised : \E a \in TableAddresses : byAddress[a] # 0 /\ p = <<a, byAddress[a] - 1>>

\* The empty address table.
LEMMA TableInitInv == TableInit => TableInv
  BY DEF TableInit, TableInv

\* Register gives a new address the next index, and an old one the index it had.
LEMMA RegisterInv ==
    ASSUME TableInv, NEW a \in TableAddresses, Register(a)
    PROVE  TableInv'
<1>1. CASE byAddress[a] # 0
  <2>1. UNCHANGED <<numItems, byAddress, backing>> /\ promised' = promised \cup {<<a, byAddress[a] - 1>>}
    BY <1>1 DEF Register
  <2> QED  BY <1>1, <2>1 DEF TableInv
<1>2. CASE byAddress[a] = 0
  <2>1. /\ backing' = [i \in 1..numItems + 1 |-> IF i = numItems + 1 THEN a ELSE backing[i]]
        /\ byAddress' = [byAddress EXCEPT ![a] = numItems + 1]
        /\ numItems' = numItems + 1
        /\ promised' = promised \cup {<<a, numItems>>}
    BY <1>2 DEF Register
  <2>2. byAddress' \in [TableAddresses -> 0..numItems'] /\ backing' \in [1..numItems' -> TableAddresses]
    BY <2>1 DEF TableInv
  <2>3. ASSUME NEW b \in TableAddresses, byAddress'[b] # 0 PROVE backing'[byAddress'[b]] = b
    BY <2>1, <2>3 DEF TableInv
  <2>4. ASSUME NEW p \in promised'
        PROVE  \E b \in TableAddresses : byAddress'[b] # 0 /\ p = <<b, byAddress'[b] - 1>>
    <3>1. CASE p = <<a, numItems>>
      <4>1. byAddress'[a] = numItems + 1
        BY <2>1 DEF TableInv
      <4> QED  BY <3>1, <4>1 DEF TableInv
    <3>2. CASE p \in promised
      <4>1. PICK b \in TableAddresses : byAddress[b] # 0 /\ p = <<b, byAddress[b] - 1>>
        BY <3>2 DEF TableInv
      <4>2. byAddress'[b] = byAddress[b]
        BY <1>2, <2>1, <4>1 DEF TableInv
      <4> QED  BY <4>1, <4>2
    <3> QED  BY <2>1, <2>4, <3>1, <3>2
  <2> QED  BY <2>1, <2>2, <2>3, <2>4 DEF TableInv
<1> QED  BY <1>1, <1>2

\* Every step keeps the invariant of the address table.
LEMMA TableNextInv == TableInv /\ [TableNext]_tableVars => TableInv'
  BY RegisterInv DEF TableNext, RegisterCall, tableVars, TableInv

\* Registering addresses, new ones and known ones, never moves an index that a caller
\* was told.
THEOREM IndicesStayStable == TableSpec => []IndicesStable
<1>1. TableInv => IndicesStable
  <2> SUFFICES ASSUME TableInv, NEW p \in promised
               PROVE  /\ byAddress[p[1]] # 0 /\ Lookup(p[1]) = p[2]
                      /\ LookupIndex(p[2]) = p[1]
    BY DEF IndicesStable
  <2>1. PICK a \in TableAddresses : byAddress[a] # 0 /\ p = <<a, byAddress[a] - 1>>
    BY DEF TableInv
  <2>2. byAddress[a] \in 1..numItems /\ backing[byAddress[a]] = a /\ numItems \in Nat
    BY <2>1 DEF TableInv
  <2>3. p[1] = a /\ p[2] = byAddress[a] - 1
    BY <2>1
  <2> QED  BY <2>1, <2>2, <2>3 DEF Lookup, LookupIndex
<1> QED  BY <1>1, TableInitInv, TableNextInv, PTL DEF TableSpec

-----------------------------------------------------------------------------
(* The ring of L1 block hashes.                                            *)

\* Two numbers less than a ring's length apart have slots of their own.
LEMMA SlotsApart ==
    ASSUME NEW a \in Nat, NEW b \in Nat, a < b, b < a + RingSize
    PROVE  a % RingSize # b % RingSize
<1> DEFINE R == RingSize
           p == a \div R
           q == b \div R
<1>1. R \in Nat \ {0}
  BY RingAssumption
<1>2. p \in Nat /\ q \in Nat /\ a = R * p + (a % R) /\ b = R * q + (b % R) /\ a % R \in Nat
  BY <1>1
<1> SUFFICES ASSUME a % R = b % R PROVE FALSE
  OBVIOUS
<1> HIDE DEF p, q, R
<1>3. R * p < R * q /\ R * q < R * p + R
  BY <1>1, <1>2 DEF R
<1>4. p < q
  BY <1>1, <1>2, <1>3
<1>5. R * q = R * p + R * (q - p) /\ R * (q - p) >= R
  BY <1>1, <1>2, <1>4
<1> QED  BY <1>1, <1>2, <1>3, <1>5

\* A block number has a place in the ring.
LEMMA SlotInRing == ASSUME NEW a \in Nat PROVE a % RingSize \in 0..RingSize - 1
  BY RingAssumption

\* A number recorded or filled within the last ring's length still has its slot.
RingInv ==
    /\ nextL1 \in Nat
    /\ DOMAIN ring = 0..RingSize - 1
    /\ DOMAIN known \subseteq 0..nextL1 - 1
    /\ \A n \in DOMAIN known : n + RingSize >= nextL1 => ring[n % RingSize] = known[n]

\* The empty ring of block hashes.
LEMMA RingInitInv == RingInit => RingInv
  BY RingAssumption DEF RingInit, RingInv

\* RecordNewL1Block fills the gap and leaves the hashes of the last RingSize blocks.
LEMMA RecordHashInv ==
    ASSUME RingInv, NEW number \in Nat, NEW perNumber \in BOOLEAN, RecordNewL1Block(number, perNumber)
    PROVE  RingInv'
<1> DEFINE new == [n \in Gap(number) \cup {number} |->
                      IF n = number THEN <<n, "given">> ELSE Fill(n, number, perNumber)]
           Winner(i) == {n \in DOMAIN new : n % RingSize = i
                                            /\ \A k \in DOMAIN new : k % RingSize = i => k <= n}
<1>1. /\ number >= nextL1 /\ nextL1' = number + 1
      /\ ring' = [i \in DOMAIN ring |->
                     IF Winner(i) = {} THEN ring[i] ELSE new[CHOOSE n \in Winner(i) : TRUE]]
      /\ known' = [n \in DOMAIN known \cup DOMAIN new |->
                      IF n \in DOMAIN new THEN new[n] ELSE known[n]]
  BY Zenon DEF RecordNewL1Block
<1>2. nextL1 \in Nat /\ RingSize \in Nat \ {0}
  BY Zenon, RingAssumption DEF RingInv
<1>3. number \in DOMAIN new /\ \A n \in DOMAIN new : n \in Nat /\ nextL1 <= n /\ n <= number
  <2>1. DOMAIN new = Gap(number) \cup {number}
    BY Zenon
  <2> HIDE DEF new
  <2>2. \A n \in Gap(number) : n \in Nat /\ nextL1 <= n /\ n <= number
    BY <1>2 DEF Gap
  <2> QED  BY <1>1, <1>2, <2>1, <2>2
<1> HIDE DEF new
<1>4. ASSUME NEW n \in DOMAIN known', n + RingSize >= nextL1'
      PROVE  ring'[n % RingSize] = known'[n]
  <2> DEFINE i == n % RingSize
  <2>1. n \in Nat /\ number < n + RingSize /\ n + RingSize >= nextL1
    BY <1>1, <1>2, <1>3, <1>4 DEF RingInv
  <2>2. i \in DOMAIN ring
    BY <2>1, SlotInRing DEF RingInv
  <2>3. \A k \in DOMAIN new : k % RingSize = i => k <= n
    <3> SUFFICES ASSUME NEW k \in DOMAIN new, k % RingSize = i, k > n PROVE FALSE
      BY <1>3, <2>1
    <3>1. k \in Nat /\ k < n + RingSize
      BY <1>2, <1>3, <2>1
    <3> QED  BY <2>1, <3>1, SlotsApart
  <2> HIDE DEF i
  <2>4. CASE n \in DOMAIN new
    <3>1. n \in Winner(i)
      BY <2>3, <2>4 DEF i
    <3>2. \A m \in Winner(i) : m = n
      <4> SUFFICES ASSUME NEW m \in Winner(i) PROVE m = n
        OBVIOUS
      <4>1. m \in DOMAIN new /\ m <= n /\ n <= m
        BY <2>3, <2>4 DEF i
      <4> QED  BY <1>3, <2>1, <4>1
    <3>3. (CHOOSE m \in Winner(i) : TRUE) = n /\ Winner(i) # {}
      BY <3>1, <3>2
    <3>4. ring'[i] = new[n]
      BY Zenon, <1>1, <2>2, <3>3
    <3>5. known'[n] = new[n]
      BY Zenon, <1>1, <2>4
    <3> QED  BY <3>4, <3>5 DEF i
  <2>5. CASE n \notin DOMAIN new
    <3>1. n \in DOMAIN known /\ known'[n] = known[n] /\ n < nextL1
      BY <1>1, <1>2, <1>4, <2>5 DEF RingInv
    <3>2. Winner(i) = {}
      BY <1>2, <1>3, <2>1, <2>3, <3>1
    <3>3. ring'[i] = ring[i]
      BY Zenon, <1>1, <2>2, <3>2
    <3> QED  BY Zenon, <2>1, <3>1, <3>3 DEF RingInv, i
  <2> QED  BY Zenon, <2>4, <2>5
<1>5. DOMAIN known' \subseteq 0..nextL1' - 1 /\ DOMAIN ring' = 0..RingSize - 1 /\ nextL1' \in Nat
  BY <1>1, <1>2, <1>3 DEF RingInv
<1> QED  BY Zenon, <1>4, <1>5 DEF RingInv

\* Every step keeps the invariant of the ring.
LEMMA RingNextInv == RingInv /\ [RingNext]_ringVars => RingInv'
<1> SUFFICES ASSUME RingInv, [RingNext]_ringVars PROVE RingInv'
  OBVIOUS
<1>1. CASE UNCHANGED ringVars
  BY <1>1 DEF ringVars, RingInv
<1>2. CASE RingNext
  BY <1>2, RecordHashInv, RingAssumption DEF RingNext
<1> QED  BY <1>1, <1>2

\* For every ring length, whatever jumps the L1 clock makes, a hash inside the window is
\* the one recorded or filled for its number.
THEOREM HashesStayInWindow == RingSpec => []HashesInWindow
<1>1. RingInv => HashesInWindow
  BY RingAssumption DEF RingInv, HashesInWindow, BlockHash
<1> QED  BY <1>1, RingInitInv, RingNextInv, PTL DEF RingSpec

-----------------------------------------------------------------------------
(* Byte strings.                                                           *)

\* The words a string of n bytes takes: byte i lies in word WordCount(i).
LEMMA WordCountFacts ==
    ASSUME NEW n \in Nat
    PROVE  /\ WordCount(n) \in Nat
           /\ (WordCount(n) - 1) * WordSize < n
           /\ n <= WordCount(n) * WordSize
           /\ WordCount(n) = 0 <=> n = 0
<1> DEFINE W == WordSize
           q == (n + W - 1) \div W
           r == (n + W - 1) % W
<1>1. W \in Nat \ {0}
  BY WordAssumption
<1>2. q \in Nat /\ r \in 0..W - 1 /\ n + W - 1 = W * q + r
  BY <1>1
<1>3. WordCount(n) = q
  BY DEF WordCount
<1> HIDE DEF q, r, W
<1>4. (q - 1) * W = W * q - W /\ q * W = W * q
  BY <1>1, <1>2
<1>5. (q - 1) * W < n /\ n <= q * W
  BY <1>1, <1>2, <1>4
<1>6. q = 0 => n = 0
  BY <1>1, <1>2
<1>7. n = 0 => q = 0
  <2> SUFFICES ASSUME n = 0, q >= 1 PROVE FALSE
    BY <1>2
  <2>1. W * q >= W
    BY <1>1, <1>2
  <2> QED  BY <1>1, <1>2, <2>1
<1> QED  BY <1>2, <1>3, <1>5, <1>6, <1>7 DEF W

\* A longer string takes no fewer words.
LEMMA WordCountMonotone ==
    ASSUME NEW m \in Nat, NEW n \in Nat, m <= n
    PROVE  WordCount(m) <= WordCount(n)
<1> DEFINE W == WordSize
           p == WordCount(m)
           q == WordCount(n)
<1>1. W \in Nat \ {0} /\ p \in Nat /\ q \in Nat /\ (p - 1) * W < m /\ n <= q * W
  BY WordAssumption, WordCountFacts
<1> HIDE DEF W, p, q
<1> SUFFICES ASSUME p >= q + 1 PROVE FALSE
  BY <1>1 DEF p, q
<1>2. (p - 1) * W >= q * W
  BY <1>1
<1> QED  BY <1>1, <1>2

\* The words of the last value hold its chunks, and all others are zero.
BytesInv ==
    /\ content \in Seq(Nat) /\ Len(content) <= MaxBytes /\ length = Len(content)
    /\ words = [k \in WordIndices |-> IF k <= WordCount(length) THEN Chunk(content, k) ELSE ZeroWord]

\* The empty byte string.
LEMMA BytesInitInv == BytesInit => BytesInv
<1> SUFFICES ASSUME BytesInit PROVE BytesInv
  OBVIOUS
<1>1. content = <<>> /\ length = 0 /\ words = [k \in WordIndices |-> ZeroWord]
  BY DEF BytesInit
<1>2. WordCount(0) = 0
  BY WordCountFacts
<1>3. \A k \in WordIndices : ~(k <= WordCount(0))
  BY <1>2, WordCountFacts, WordAssumption DEF WordIndices
<1> QED  BY <1>1, <1>3, WordAssumption DEF BytesInv

\* Clearing the words of the old value leaves none behind.
LEMMA ClearedWords == BytesInv => Cleared(words) = [k \in WordIndices |-> ZeroWord]
  BY DEF BytesInv, Cleared

\* All words are zero while no string is stored.
LEMMA FreshWords ==
    ASSUME BytesInv, content = <<>>
    PROVE  words = [k \in WordIndices |-> ZeroWord]
<1>1. length = 0
  BY DEF BytesInv
<1>2. \A k \in WordIndices : ~(k <= WordCount(length))
  BY <1>1, WordCountFacts, WordAssumption DEF WordIndices
<1> QED  BY <1>2 DEF BytesInv

\* The words that Set writes over zero words.
LEMMA WrittenWords ==
    ASSUME NEW value \in ByteStrings
    PROVE  WrittenOver([k \in WordIndices |-> ZeroWord], value) =
              [k \in WordIndices |-> IF k <= WordCount(Len(value)) THEN Chunk(value, k) ELSE ZeroWord]
  BY DEF WrittenOver

\* Every step keeps the invariant of the byte string.
LEMMA BytesNextInv == BytesInv /\ [BytesNext]_bytesVars => BytesInv'
<1> SUFFICES ASSUME BytesInv, [BytesNext]_bytesVars PROVE BytesInv'
  OBVIOUS
<1>1. CASE UNCHANGED bytesVars
  BY <1>1 DEF bytesVars, BytesInv
<1>2. ASSUME NEW v \in ByteStrings, SetBytes(v) \/ SetFresh(v) PROVE BytesInv'
  <2>1. words' = WrittenOver([k \in WordIndices |-> ZeroWord], v) /\ length' = Len(v) /\ content' = v
    BY <1>2, ClearedWords, FreshWords DEF SetBytes, SetFresh
  <2> QED  BY Zenon, <2>1, WrittenWords, ByteStringsAssumption DEF BytesInv
<1>3. CASE ClearBytes
  <2>1. words' = [k \in WordIndices |-> ZeroWord] /\ length' = 0 /\ content' = <<>>
    BY <1>3, ClearedWords DEF ClearBytes
  <2>2. BytesInit'
    BY <2>1 DEF BytesInit
  <2> QED  BY <2>1, <2>2, BytesInitInv, WordCountFacts, WordAssumption DEF BytesInv, WordIndices
<1> QED  BY <1>1, <1>2, <1>3 DEF BytesNext

\* The index that get computes finds byte i in its word.
LEMMA ByteInWord ==
    ASSUME BytesInv, NEW i \in 1..length
    PROVE  GetBytes[i] = content[i]
<1> DEFINE W == WordSize
           k == WordCount(i)
           base == (k - 1) * W
           left == length - base
           n == IF left >= W THEN W ELSE left
           j == W - n + i - base
<1>1. W \in Nat \ {0} /\ length \in Nat /\ length <= MaxBytes /\ MaxBytes \in Nat /\ i \in Nat \ {0}
  BY WordAssumption DEF BytesInv
<1>2. k \in Nat \ {0} /\ base < i /\ i <= k * W
  BY <1>1, WordCountFacts
<1>3. k <= WordCount(length) /\ k <= WordCount(MaxBytes) /\ WordCount(MaxBytes) \in Nat
  BY <1>1, WordCountMonotone, WordCountFacts
<1>4. base \in Nat /\ k * W = base + W
  BY <1>1, <1>2
<1>5. k \in WordIndices
  BY <1>2, <1>3 DEF WordIndices
<1>6. words[k] = Chunk(content, k)
  BY <1>3, <1>5 DEF BytesInv
<1>7. GetBytes[i] = words[k][j]
  BY DEF GetBytes
<1> HIDE DEF k, base, W
<1>8. n \in 1..W /\ j \in 1..W /\ j > W - n /\ base + j - (W - n) = i
  BY <1>1, <1>2, <1>4
<1>9. Chunk(content, k) = [h \in 1..W |-> IF h > W - n THEN content[base + h - (W - n)] ELSE 0]
  BY DEF Chunk, W, base, BytesInv
<1> HIDE DEF n, j
<1> QED  BY <1>6, <1>7, <1>8, <1>9

\* Values of any length, written over one another, cleared or written fresh, for every
\* word size: the last one reads back and leaves no word behind.
THEOREM BytesReadBack == BytesSpec => []BytesRoundTrip
<1>1. BytesInv => BytesRoundTrip
  <2> SUFFICES ASSUME BytesInv PROVE BytesRoundTrip
    OBVIOUS
  <2>1. GetBytes = content
    <3>1. content \in Seq(Nat) /\ length = Len(content)
      BY DEF BytesInv
    <3>2. \A i \in 1..length : GetBytes[i] = content[i]
      BY ByteInWord
    <3>3. GetBytes = [i \in 1..length |-> GetBytes[i]]
      BY DEF GetBytes
    <3>4. content = [i \in 1..length |-> content[i]]
      BY <3>1
    <3> QED  BY <3>2, <3>3, <3>4
  <2> QED  BY <2>1, WordCountFacts DEF BytesRoundTrip, BytesInv, WordIndices
<1> QED  BY <1>1, BytesInitInv, BytesNextInv, PTL DEF BytesSpec
=============================================================================
