---------------------------- MODULE StorageQueue ----------------------------
(***************************************************************************)
(* The timeout queue as it lies in ArbOS storage.  The two pointers are    *)
(* the cells 0 and 1 of the same storage space whose cells from 2 on hold  *)
(* the entries, so that a put through an uninitialised pointer would       *)
(* overwrite the pointer itself.                                           *)
(*                                                                         *)
(* A definition whose comment starts with "Fault:" is a faulty variant of  *)
(* the definition after it, used by no specification.                      *)
(***************************************************************************)
EXTENDS Integers, Sequences

CONSTANTS
    Values,      \* ticket ids, as the words they are stored as
    MaxOffset    \* the largest offset: u64::MAX, where the pointers saturate

VARIABLES
    cell,        \* cell[i] is the word at offset i
    answer       \* what the last peek or get returned, 0 for none

queueVars == <<cell, answer>>

ASSUME ValuesAssumption == Values \subseteq Nat \ {0}

NextPut == 0
NextGet == 1
InitialOffset == 2

ASSUME OffsetAssumption == MaxOffset \in Nat /\ MaxOffset >= InitialOffset

Offsets == 0..MaxOffset

-----------------------------------------------------------------------------
Initialize(c) == [c EXCEPT ![NextPut] = InitialOffset, ![NextGet] = InitialOffset]

EnsureInitialized(c) == IF c[NextPut] = 0 /\ c[NextGet] = 0 THEN Initialize(c) ELSE c

IsEmpty(c) == c[NextPut] = c[NextGet]

GetEntry(c, i) == c[i]

SetEntry(c, i, v) == [c EXCEPT ![i] = v]

Front(c) == IF IsEmpty(c) THEN 0 ELSE GetEntry(c, c[NextGet])

\* put: the pointer is written before the entry.
PutInto(c, v) == SetEntry([c EXCEPT ![NextPut] = @ + 1], c[NextPut], v)

\* get: advance the pointer, then clear the entry.
TakeOut(c) ==
    IF IsEmpty(c) THEN c ELSE SetEntry([c EXCEPT ![NextGet] = @ + 1], c[NextGet], 0)

-----------------------------------------------------------------------------
\* How a submission queues its ticket: ensure_timeout_queue_initialized, then put.
Put(v) ==
    /\ EnsureInitialized(cell)[NextPut] < MaxOffset
    /\ cell' = PutInto(EnsureInitialized(cell), v)
    /\ answer' = answer

Peek == answer' = Front(cell) /\ cell' = cell

Get == answer' = Front(cell) /\ cell' = TakeOut(cell)

\* Fault: the pointers are reset although entries wait.
ShiftAlways == cell' = Initialize(cell) /\ answer' = answer

\* shift: an empty queue starts again at the first offset.
Shift == IsEmpty(cell) /\ cell' = Initialize(cell) /\ answer' = answer

\* Chains start with the pointers set, or with storage that was never written.
QueueInit ==
    /\ LET blank == [i \in Offsets |-> 0] IN cell \in {blank, Initialize(blank)}
    /\ answer = 0

QueueNext == (\E v \in Values : Put(v)) \/ Peek \/ Get \/ Shift

QueueSpec == QueueInit /\ [][QueueNext]_queueVars

-----------------------------------------------------------------------------
(* Properties.                                                             *)

\* The pointers and the answer have their types.
TypeOK ==
    /\ cell \in [Offsets -> Nat]
    /\ answer \in Values \cup {0}

\* The pointers stay in order above their own cells, every cell between them holds an
\* entry, and every other cell is clear: no put ever hits a pointer, and no entry is left
\* behind in the state trie.
EntriesBetweenPointers ==
    /\ \/ cell[NextPut] = 0 /\ cell[NextGet] = 0
       \/ InitialOffset <= cell[NextGet] /\ cell[NextGet] <= cell[NextPut]
                                         /\ cell[NextPut] <= MaxOffset
    /\ \A i \in InitialOffset..MaxOffset :
          IF cell[NextGet] <= i /\ i < cell[NextPut] THEN cell[i] \in Values ELSE cell[i] = 0

\* The entries in the order in which they will be taken.
Contents ==
    [i \in 1..(cell[NextPut] - cell[NextGet]) |-> cell[cell[NextGet] + i - 1]]

F == INSTANCE Fifo WITH queue <- Contents, answer <- answer, None <- 0

\* The layout implements the queue that the retryables rely on.
ImplementsFifo == F!Spec
=============================================================================
