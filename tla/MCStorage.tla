----------------------------- MODULE MCStorage -----------------------------
(***************************************************************************)
(* The structures in ArbOS storage, one instance of each.  They lie in     *)
(* disjoint subspaces and share no cell, so one of them is driven in each  *)
(* behaviour and the others rest.                                          *)
(***************************************************************************)
EXTENDS StorageQueue, AddressSet, BlockHashes, SendMerkle, StorageBytes, AddressTable

VARIABLE driven

MCByteStrings == UNION {[1..n -> {1}] : n \in 0..MaxBytes} \cup UNION {[1..n -> {1, 2}] : n \in 0..2}

others == <<ringVars, sendVars, bytesVars, tableVars, setVars, queueVars>>

MCInit ==
    /\ QueueInit /\ SetInit /\ RingInit /\ SendInit /\ BytesInit /\ TableInit
    /\ driven \in {"queue", "set", "ring", "merkle", "bytes", "table"}

MCNext ==
    /\ UNCHANGED driven
    /\ \/ driven = "queue" /\ QueueNext
          /\ UNCHANGED <<setVars, ringVars, sendVars, bytesVars, tableVars>>
       \/ driven = "set" /\ SetNext
          /\ UNCHANGED <<queueVars, ringVars, sendVars, bytesVars, tableVars>>
       \/ driven = "ring" /\ RingNext
          /\ UNCHANGED <<queueVars, setVars, sendVars, bytesVars, tableVars>>
       \/ driven = "merkle" /\ SendNext
          /\ UNCHANGED <<queueVars, setVars, ringVars, bytesVars, tableVars>>
       \/ driven = "bytes" /\ BytesNext
          /\ UNCHANGED <<queueVars, setVars, ringVars, sendVars, tableVars>>
       \/ driven = "table" /\ TableNext
          /\ UNCHANGED <<queueVars, setVars, ringVars, sendVars, bytesVars>>

MCSpec == MCInit /\ [][MCNext]_<<others, driven>>
=============================================================================
