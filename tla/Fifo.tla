-------------------------------- MODULE Fifo --------------------------------
(***************************************************************************)
(* What the timeout queue promises to the retryables: a first-in first-out *)
(* queue.  Module Retryables uses the queue as this specification has it,  *)
(* module StorageQueue is the layout in ArbOS storage that implements it.  *)
(***************************************************************************)
EXTENDS Sequences

CONSTANTS
    Values,   \* what is queued: ticket ids
    None      \* the answer of an empty queue

VARIABLES
    queue,
    answer    \* what the last peek or get returned

Front == IF queue = << >> THEN None ELSE Head(queue)

Init == queue = << >> /\ answer = None

Put(v) == queue' = Append(queue, v) /\ answer' = answer

Peek == answer' = Front /\ queue' = queue

Get == answer' = Front /\ queue' = IF queue = << >> THEN queue ELSE Tail(queue)

Next == (\E v \in Values : Put(v)) \/ Peek \/ Get

Spec == Init /\ [][Next]_<<queue, answer>>
=============================================================================
