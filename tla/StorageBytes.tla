---------------------------- MODULE StorageBytes ----------------------------
(***************************************************************************)
(* A byte string in storage: its length, then words of WordSize bytes, the *)
(* last one right-aligned.  One region is the chain config, rewritten with *)
(* set; the other the calldata of a ticket, written fresh and cleared when *)
(* the ticket goes.                                                        *)
(***************************************************************************)
EXTENDS Naturals, Sequences

CONSTANTS
    WordSize,    \* 32
    MaxBytes,    \* bound on the length
    ByteStrings  \* the values that are written

ASSUME WordAssumption == WordSize \in Nat \ {0} /\ MaxBytes \in Nat

ASSUME ByteStringsAssumption == \A s \in ByteStrings : s \in Seq(Nat) /\ Len(s) <= MaxBytes

VARIABLES
    length, words,
    content      \* what was last written

bytesVars == <<length, words, content>>

ZeroWord == [i \in 1..WordSize |-> 0]

WordCount(n) == (n + WordSize - 1) \div WordSize

WordIndices == 1..WordCount(MaxBytes)

\* Fault: a short last chunk starts at the left of its word.
ChunkLeft(value, k) ==
    [i \in 1..WordSize |-> IF (k - 1) * WordSize + i <= Len(value)
                           THEN value[(k - 1) * WordSize + i] ELSE 0]

\* The chunk of a value that goes into word k.
Chunk(value, k) ==
    LET from == (k - 1) * WordSize
        n == IF Len(value) - from >= WordSize THEN WordSize ELSE Len(value) - from
    IN [i \in 1..WordSize |-> IF i > WordSize - n THEN value[from + i - (WordSize - n)] ELSE 0]

Cleared(w) == [k \in WordIndices |-> IF k <= WordCount(length) THEN ZeroWord ELSE w[k]]

WrittenOver(w, value) ==
    [k \in WordIndices |-> IF k <= WordCount(Len(value)) THEN Chunk(value, k) ELSE w[k]]

BytesInit ==
    /\ length = 0
    /\ words = [k \in WordIndices |-> ZeroWord]
    /\ content = <<>>

SetBytes(value) ==
    /\ words' = WrittenOver(Cleared(words), value)
    /\ length' = Len(value)
    /\ content' = value

ClearBytes ==
    /\ words' = Cleared(words)
    /\ length' = 0
    /\ content' = <<>>

\* Callers write fresh where nothing was written, or after a clear.
SetFresh(value) ==
    /\ content = <<>>
    /\ words' = WrittenOver(words, value)
    /\ length' = Len(value)
    /\ content' = value

GetBytes ==
    [i \in 1..length |->
        LET k == WordCount(i)
            left == length - (k - 1) * WordSize
            n == IF left >= WordSize THEN WordSize ELSE left
        IN words[k][WordSize - n + i - (k - 1) * WordSize]]

BytesNext == (\E v \in ByteStrings : SetBytes(v) \/ SetFresh(v)) \/ ClearBytes

BytesSpec == BytesInit /\ [][BytesNext]_bytesVars

-----------------------------------------------------------------------------
\* What was written last reads back, whatever longer value was there before, and no
\* word is left behind that a later fresh write or the state root would see.
BytesRoundTrip ==
    /\ GetBytes = content
    /\ \A k \in WordIndices : k > WordCount(length) => words[k] = ZeroWord
=============================================================================
