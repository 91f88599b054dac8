---------------------------- MODULE StylusFrames ----------------------------
(***************************************************************************)
(* The call frames of a transaction that mixes EVM contracts and Stylus    *)
(* programs.  A program runs inside one frame, on the native stack; its    *)
(* calls and creates start a loop of their own over a fresh frame stack.   *)
(* stack is the concatenation of all these stacks, the running frame last. *)
(* Memory pages, refunds and the open frames per address are kept beside   *)
(* the frames, in fields of ArbChainContext that no journal reverts.       *)
(***************************************************************************)
EXTENDS Integers, Sequences, FiniteSets

CONSTANTS
    Contracts,    \* addresses with code
    Programs,     \* those whose code is a Stylus program
    Footprint,    \* pages a program opens when it is entered
    MorePages,    \* growths a program may ask for
    MemoryLimit,  \* pages the exponential price covers
    MaxU16,       \* where page counters saturate
    Deltas,       \* refunds of one storage write
    MaxDepth,     \* bound on the frames
    MaxSteps      \* bound on the steps of a transaction

ASSUME ProgramsAssumption == Programs \subseteq Contracts

ASSUME PagesAssumption == Footprint \in Nat /\ MorePages \subseteq Nat /\ MaxU16 \in Nat /\ MemoryLimit \in Nat

ASSUME DeltasAssumption == Deltas \subseteq Int

VARIABLES
    stack,        \* the frames
    pages,        \* stylus_pages_open and stylus_pages_ever
    refund,       \* stylus_refund
    spans,        \* stylus_program_spans
    ledger,       \* what a journaled counter would hold, and what the code counts beyond it
    failed,       \* a database error was met in this transaction
    outcome,      \* refund the transaction ended with
    steps

framesVars == <<stack, pages, refund, spans, ledger, failed, outcome, steps>>

AddSat16(a, b) == IF a + b > MaxU16 THEN MaxU16 ELSE a + b
MaxOf(a, b) == IF a < b THEN b ELSE a

Running == stack[Len(stack)]
IsProgram(frame) == frame.code \in Programs
Ready == stack # <<>> /\ steps < MaxSteps
\* The interpreter or the program has the control; a broke program can only stop.
Active == Ready /\ Running.entered /\ ~Running.broke
SetRunning(frame) == [stack EXCEPT ![Len(stack)] = frame]

\* The address whose span a frame opens: calls act as their target, delegate calls
\* and creates open none.
SpanAddress(frame) == IF frame.scheme = "call" THEN {frame.acting} ELSE {}

OpenSpan(frame) ==
    [a \in Contracts |-> spans[a] + (IF a \in SpanAddress(frame) THEN 1 ELSE 0)]

\* Fault: a result closes the span of the top frame even if that frame still runs.
CloseSpanUnfinished(frame, finished) ==
    [a \in Contracts |-> IF a \in SpanAddress(frame) THEN spans[a] - 1 ELSE spans[a]]

\* frame_return_result closes the span of the top frame when that frame has finished.
CloseSpan(frame, finished) ==
    [a \in Contracts |->
        IF finished /\ a \in SpanAddress(frame) /\ spans[a] > 0 THEN spans[a] - 1 ELSE spans[a]]

\* The pages of all programs that are running or wait for a call of theirs.
ActivePages == IF stack = <<>> THEN 0 ELSE Running.active

\* A frame as it is pushed; nested frames start a loop of their own.
NewFrame(scheme, code, acting, nested) ==
    [scheme |-> scheme, code |-> code, acting |-> acting, nested |-> nested,
     entered |-> code \notin Programs, broke |-> FALSE, refund |-> 0,
     savedOpen |-> 0, savedRefund |-> 0, active |-> ActivePages, checkpoint |-> ledger]

\* The ledger of a new transaction.
NoRefunds == [due |-> 0, excess |-> 0]

FramesInit ==
    /\ stack = <<>>
    /\ pages = [open |-> 0, ever |-> 0]
    /\ refund = 0
    /\ spans = [a \in Contracts |-> 0]
    /\ ledger = NoRefunds
    /\ failed = FALSE
    /\ outcome = 0
    /\ steps = 0

\* reset_poster_state, then the first frame.
StartTransaction(a) ==
    /\ stack = <<>>
    /\ pages' = [open |-> 0, ever |-> 0]
    /\ refund' = 0
    /\ ledger' = NoRefunds
    /\ failed' = FALSE
    /\ outcome' = 0
    /\ steps' = 0
    /\ stack' = <<[NewFrame("call", a, a, FALSE) EXCEPT !.checkpoint = NoRefunds]>>
    /\ spans' = [b \in Contracts |-> IF a = b THEN 1 ELSE 0]

Keep == UNCHANGED outcome /\ steps' = steps + 1

(***************************************************************************)
(* Steps of the running frame                                              *)
(***************************************************************************)
\* SSTORE records its refund on the frame, SetTrieSlots on the accumulator.
Store(delta) ==
    /\ Active
    /\ ledger' = [ledger EXCEPT !.due = @ + delta]
    /\ IF IsProgram(Running)
       THEN refund' = refund + delta /\ UNCHANGED stack
       ELSE stack' = SetRunning([Running EXCEPT !.refund = @ + delta]) /\ UNCHANGED refund
    /\ Keep
    /\ UNCHANGED <<pages, spans, failed>>

Push(frame) ==
    /\ Active
    /\ Len(stack) < MaxDepth
    /\ stack' = Append(stack, frame)
    /\ spans' = OpenSpan(frame)
    /\ Keep
    /\ UNCHANGED <<pages, refund, ledger, failed>>

\* A call or delegate call, by opcode or by hostio.
EnterCall(scheme, code) ==
    Push(NewFrame(scheme, code, IF scheme = "call" THEN code ELSE Running.acting,
                  IsProgram(Running)))

\* A create; the init code is EVM code and runs at a new address.
EnterCreate == Push(NewFrame("create", "created", "created", IsProgram(Running)))

\* A precompile or a failed check answers without a frame: the loop hands the result to
\* the caller, which is still running.  A hostio gets it from its own, empty loop.
AnswerWithoutFrame ==
    /\ Active
    /\ ~IsProgram(Running)
    /\ spans' = CloseSpan(Running, FALSE)
    /\ Keep
    /\ UNCHANGED <<stack, pages, refund, ledger, failed>>

\* The memory a program opens, at its entry and by pay_for_memory_grow.
Grown(new) ==
    LET open == AddSat16(pages.open, new)
    IN [open |-> open, ever |-> MaxOf(pages.ever, open)]

\* stylus_call_cost is out of reach when the exponential part leaves its table.
Priceless(new) == Grown(new).ever > MemoryLimit /\ pages.ever <= MemoryLimit

\* Fault: a program goes on counting where its caller stopped.
RefundKeptAtEntry == refund

\* The accumulator a program starts with.
RefundAtEntry == 0

\* frame_run_stylus up to run_program: the pages are counted, and the accumulator is
\* set aside.
EnterProgram ==
    /\ Ready /\ ~Running.entered
    /\ ~Priceless(Footprint)
    /\ pages' = Grown(Footprint)
    /\ refund' = RefundAtEntry
    /\ stack' = SetRunning([Running EXCEPT !.entered = TRUE, !.savedOpen = pages.open,
                                           !.savedRefund = refund, !.active = @ + Footprint])
    /\ Keep
    /\ UNCHANGED <<spans, ledger, failed>>

AddPages(new) ==
    /\ Active
    /\ IsProgram(Running)
    /\ pages' = Grown(new)
    /\ stack' = SetRunning([Running EXCEPT !.active = @ + new, !.broke = Priceless(new)])
    /\ Keep
    /\ UNCHANGED <<refund, spans, ledger, failed>>

(***************************************************************************)
(* The end of a frame                                                      *)
(***************************************************************************)
\* The frames below the running one.
Callers == SubSeq(stack, 1, Len(stack) - 1)

\* How a frame ends: with success, with a revert, or with any other failure.
Results == {"ok", "revert", "halt"}

\* Whether the caller takes over the refunds of the frame.  A create hostio only looks for a
\* revert and for an address, which the library also gives to a create that ran and
\* halted; every other caller looks for success.
Carries(result) ==
    \/ result = "ok"
    \/ result = "halt" /\ Running.nested /\ Running.scheme = "create"

\* The frame is popped and its result reaches the caller: an EVM frame records the carried
\* refund on its gas, a hostio on the accumulator acc of its program.
Pop(result, gained, acc) ==
    LET rest == Callers
        carried == IF Carries(result) THEN gained ELSE 0
    IN /\ spans' = CloseSpan(Running, TRUE)
       /\ ledger' = IF result = "ok" THEN ledger
                    ELSE [Running.checkpoint EXCEPT !.excess = @ + carried]
       /\ steps' = steps + 1
       /\ IF rest = <<>>
          THEN outcome' = carried /\ refund' = acc /\ stack' = rest
          ELSE /\ UNCHANGED outcome
               /\ IF Running.nested
                  THEN refund' = acc + carried /\ stack' = rest
                  ELSE /\ refund' = acc
                       /\ stack' = [rest EXCEPT ![Len(rest)].refund = @ + carried]

\* An EVM frame stops, reverts or halts.
ReturnFromEvm(result) ==
    /\ stack # <<>> /\ ~IsProgram(Running)
    /\ Pop(result, Running.refund, refund)
    /\ UNCHANGED <<pages, failed>>

\* What the result of a program carries of its accumulator.
FoldRefund(result) == IF result = "ok" THEN refund ELSE 0

\* Fault: the open pages start anew after a program.
RestoreNone == 0

\* The deferred SetStylusPagesOpen.
RestoreOpen == Running.savedOpen

\* The program stops: its accumulator goes onto the result if it succeeded, and the
\* saved accumulator and open pages come back.
ReturnFromProgram(result) ==
    /\ stack # <<>> /\ IsProgram(Running) /\ Running.entered
    /\ result = "ok" => ~Running.broke
    /\ pages' = [pages EXCEPT !.open = RestoreOpen]
    /\ Pop(result, FoldRefund(result), Running.savedRefund)
    /\ UNCHANGED failed

\* Bytecode or compilation fails before the pages are counted, with a revert; a state read
\* that fails leaves the bytecode to the interpreter, which halts on it.
RejectProgram(result) ==
    /\ stack # <<>> /\ ~Running.entered
    /\ result # "ok"
    /\ Pop(result, 0, refund)
    /\ UNCHANGED <<pages, failed>>

\* The gas does not cover pages and initialisation: the frame halts after the pages were
\* counted, and they are not given back.
EntryOutOfGas ==
    /\ stack # <<>> /\ ~Running.entered
    /\ pages' = Grown(Footprint)
    /\ Pop("halt", 0, refund)
    /\ UNCHANGED failed

\* Length of the stack below the loop of the running frame.
BelowLoop == CHOOSE n \in 0 .. Len(stack) - 1 :
                /\ n = 0 \/ stack[n + 1].nested
                /\ \A i \in n + 2 .. Len(stack) : ~stack[i].nested

\* A database error leaves the loop.  Under a program it becomes a failed call: the frames
\* of the loop are dropped, with spans and checkpoints as they are.  Without one the
\* transaction is discarded.
DatabaseError ==
    /\ Active /\ ~IsProgram(Running)
    /\ stack' = SubSeq(stack, 1, BelowLoop)
    /\ failed' = TRUE
    /\ Keep
    /\ UNCHANGED <<pages, refund, spans, ledger>>

FramesNext ==
    \/ \E a \in Contracts : StartTransaction(a)
    \/ \E d \in Deltas : Store(d)
    \/ \E a \in Contracts, s \in {"call", "delegate"} : EnterCall(s, a)
    \/ EnterCreate
    \/ AnswerWithoutFrame
    \/ EnterProgram
    \/ \E n \in MorePages : AddPages(n)
    \/ \E result \in Results :
          ReturnFromEvm(result) \/ ReturnFromProgram(result) \/ RejectProgram(result)
    \/ EntryOutOfGas
    \/ DatabaseError

FramesSpec == FramesInit /\ [][FramesNext]_framesVars

(***************************************************************************)
(* Properties                                                              *)
(***************************************************************************)
\* The open pages are the pages currently active, as the comments of chain.rs and
\* frame_run_stylus say.
OpenPagesAreActive == pages.open = ActivePages \/ pages.open = MaxU16

\* Memory is never priced below what is active: whatever programs return, fail or run out
\* of gas inside others, the open pages cover the pages in use.
OpenCoversActive ==
    /\ pages.open >= (IF ActivePages > MaxU16 THEN MaxU16 ELSE ActivePages)
    /\ pages.ever >= pages.open

\* The count per address is the number of its call frames over all nested loops, so that a
\* program runs with the reentrant flag exactly when its address has another open call.
ReentrancyExact ==
    ~failed => \A a \in Contracts :
        spans[a] = Cardinality({i \in DOMAIN stack : a \in SpanAddress(stack[i])})

\* At the end of the transaction the refund is what a journaled counter holds: refunds of
\* nested programs and contracts count once, and those of reverted frames never.  The
\* excess is the one exception, exactly: what a create of a program had gained when
\* it halted, which handle_stylus_create adds although the create was undone, as
\* long as none of the frames around it fails.
RefundsJournaled == stack = <<>> /\ ~failed => outcome = ledger.due + ledger.excess
=============================================================================
