------------------------ MODULE FramesAndSetsProofs ------------------------
(***************************************************************************)
(* Two developments that count finite sets.                                *)
(*                                                                         *)
(* The frames of a transaction, for all contracts, pages, refunds and      *)
(* depths: the open pages cover the active ones, call spans count the      *)
(* frames that run, and every refund is in the journal.                    *)
(*                                                                         *)
(* The address sets in ArbOS storage: the list and the positions name the  *)
(* members, and nobody else.                                               *)
(***************************************************************************)
EXTENDS StylusFrames, AddressSet, FiniteSetTheorems, WellFoundedInduction, TLAPS

-----------------------------------------------------------------------------
(* The inductive invariant.                                                *)

Codes == Contracts \cup {"created"}

Ledger == [due : Int, excess : Int]

\* What the code is to have counted by a ledger.
Counted(l) == l.due + l.excess

Frame == [scheme : {"call", "delegate", "create"}, code : Codes, acting : Codes,
          nested : BOOLEAN, entered : BOOLEAN, broke : BOOLEAN, refund : Int,
          savedOpen : Nat, savedRefund : Int, active : Nat, checkpoint : Ledger]

FramesType ==
    /\ stack \in Seq(Frame)
    /\ pages \in [open : Nat, ever : Nat]
    /\ refund \in Int /\ ledger \in Ledger /\ outcome \in Int
    /\ spans \in [Contracts -> Nat]

\* Frame i is a program that runs or waits.
InProgram(i) == IsProgram(stack[i]) /\ stack[i].entered

\* Only a frame that was entered calls, and what a program calls is nested.
StackShape ==
    /\ \A i \in 1..Len(stack) : ~IsProgram(stack[i]) => stack[i].entered
    /\ \A i \in 1..Len(stack) - 1 :
          stack[i].entered /\ (stack[i + 1].nested <=> IsProgram(stack[i]))
    /\ stack # <<>> => ~stack[1].nested

\* The pages that were active when frame i was pushed.
ActiveBelow(i) == IF i = 1 THEN 0 ELSE stack[i - 1].active

CapU16(n) == IF n > MaxU16 THEN MaxU16 ELSE n

\* Every program saved open pages that cover what is active below it.
SavedCover ==
    /\ \A i, j \in 1..Len(stack) : i <= j => stack[i].active <= stack[j].active
    /\ \A i \in 1..Len(stack) :
          /\ stack[i].savedOpen <= pages.ever
          /\ IF InProgram(i) THEN stack[i].savedOpen >= CapU16(ActiveBelow(i))
             ELSE stack[i].active = ActiveBelow(i)

PagesInv == OpenCoversActive /\ SavedCover

\* What the ledger gained in frame i and the frames that returned to it.
Gain(i) == (IF i = Len(stack) THEN Counted(ledger) ELSE Counted(stack[i + 1].checkpoint))
             - Counted(stack[i].checkpoint)

\* The gain of every frame is on its gas, or, for a program, on the accumulator or where
\* the next program put the accumulator aside.
GainsKept ==
    /\ stack # <<>> => Counted(stack[1].checkpoint) = 0
    /\ \A i \in 1..Len(stack) :
          /\ ~IsProgram(stack[i]) => Gain(i) = stack[i].refund
          /\ ~stack[i].entered => Gain(i) = 0
          /\ InProgram(i) /\ (\A k \in i + 1..Len(stack) : ~InProgram(k)) => Gain(i) = refund
          /\ \A j \in i + 1..Len(stack) :
                InProgram(i) /\ InProgram(j) /\ (\A k \in i + 1..j - 1 : ~InProgram(k))
                => Gain(i) = stack[j].savedRefund

RefundsInv == ~failed => RefundsJournaled /\ GainsKept

FramesInv == FramesType /\ StackShape /\ PagesInv /\ ReentrancyExact /\ RefundsInv

-----------------------------------------------------------------------------
(* Frames: what each kind of step does to the stack.                       *)

\* The stack of frames, when it has its type.
LEMMA StackFacts ==
    ASSUME FramesType
    PROVE  /\ Len(stack) \in Nat
           /\ stack = <<>> <=> Len(stack) = 0
           /\ \A i \in 1..Len(stack) : stack[i] \in Frame
           /\ DOMAIN stack = 1..Len(stack)
           /\ stack # <<>> => Running \in Frame
  BY DEF FramesType, Running

\* A ledger counts to an integer.
LEMMA CountedInt ==
    ASSUME NEW l \in Ledger
    PROVE  Counted(l) \in Int
  BY DEF Ledger, Counted

\* The ledgers that steps make.
LEMMA CountedSteps ==
    ASSUME NEW l \in Ledger, NEW d \in Int
    PROVE  /\ [l EXCEPT !.due = @ + d] \in Ledger /\ Counted([l EXCEPT !.due = @ + d]) = Counted(l) + d
           /\ [l EXCEPT !.excess = @ + d] \in Ledger
           /\ Counted([l EXCEPT !.excess = @ + d]) = Counted(l) + d
  BY DEF Ledger, Counted

LEMMA NoRefundsCount == NoRefunds \in Ledger /\ Counted(NoRefunds) = 0
  BY DEF Ledger, Counted, NoRefunds

\* The fields of a frame.
LEMMA FrameFields ==
    ASSUME NEW f \in Frame
    PROVE  /\ f.scheme \in {"call", "delegate", "create"} /\ f.code \in Codes /\ f.acting \in Codes
           /\ f.nested \in BOOLEAN /\ f.entered \in BOOLEAN
           /\ f.refund \in Int /\ f.savedRefund \in Int /\ f.checkpoint \in Ledger
           /\ f.savedOpen \in Nat /\ f.active \in Nat
           /\ Counted(f.checkpoint) \in Int
  BY CountedInt DEF Frame

\* The running frame is replaced by f.
TopIs(f) ==
    /\ stack' \in Seq(Frame)
    /\ Len(stack') = Len(stack)
    /\ stack'[Len(stack)] = f
    /\ \A i \in 1..Len(stack) - 1 : stack'[i] = stack[i]

\* SetRunning replaces the frame on top.
LEMMA TopSet ==
    ASSUME FramesType, stack # <<>>, NEW f \in Frame, stack' = SetRunning(f)
    PROVE  TopIs(f)
<1>1. stack \in Seq(Frame) /\ Len(stack) \in 1..Len(stack)
  BY StackFacts DEF FramesType
<1>2. stack' = [stack EXCEPT ![Len(stack)] = f]
  BY DEF SetRunning
<1> QED  BY <1>1, <1>2 DEF TopIs

\* So does a step that leaves the stack alone, by the same frame.
LEMMA TopKept ==
    ASSUME FramesType, stack # <<>>, UNCHANGED stack
    PROVE  TopIs(Running)
  BY StackFacts DEF TopIs, Running, FramesType

\* A frame f is pushed.
PushIs(f) ==
    /\ stack' \in Seq(Frame)
    /\ Len(stack') = Len(stack) + 1
    /\ stack'[Len(stack) + 1] = f
    /\ \A i \in 1..Len(stack) : stack'[i] = stack[i]

\* Append pushes a frame.
LEMMA Pushed ==
    ASSUME FramesType, NEW f \in Frame, stack' = Append(stack, f)
    PROVE  PushIs(f)
  BY DEF PushIs, FramesType

\* The stack is cut to its first n frames.
CutIs(n) ==
    /\ stack' \in Seq(Frame)
    /\ Len(stack') = n
    /\ \A i \in 1..n : stack'[i] = stack[i]

\* A prefix of the stack.
LEMMA CutTo ==
    ASSUME FramesType, NEW n \in 0..Len(stack), stack' = SubSeq(stack, 1, n)
    PROVE  CutIs(n)
<1>1. n \in Int /\ \A i \in 1..n : stack[i] \in Frame
  BY StackFacts
<1> QED  BY <1>1 DEF CutIs

\* Frames that differ in their refund only.
SameFrame(f, g) ==
    /\ f.scheme = g.scheme /\ f.code = g.code /\ f.acting = g.acting
    /\ f.nested = g.nested /\ f.entered = g.entered
    /\ f.savedOpen = g.savedOpen /\ f.savedRefund = g.savedRefund
    /\ f.active = g.active /\ f.checkpoint = g.checkpoint

\* A refund recorded on a frame changes nothing else of it.
LEMMA RefundRecorded ==
    ASSUME NEW f \in Frame, NEW d \in Int
    PROVE  LET g == [f EXCEPT !.refund = @ + d]
           IN g \in Frame /\ g.refund = f.refund + d /\ SameFrame(g, f)
  BY DEF Frame, SameFrame

\* The running frame is popped; what a caller that is not a program gets is d.
PopIs(d) ==
    /\ stack' \in Seq(Frame)
    /\ Len(stack') = Len(stack) - 1
    /\ \A i \in 1..Len(stack) - 1 :
          /\ SameFrame(stack'[i], stack[i])
          /\ IF i = Len(stack) - 1 /\ ~Running.nested
             THEN stack'[i].refund = stack[i].refund + d ELSE stack'[i].refund = stack[i].refund

\* The stack without its top frame.
LEMMA CallersFacts ==
    ASSUME FramesType, stack # <<>>
    PROVE  /\ Callers \in Seq(Frame) /\ Len(Callers) = Len(stack) - 1
           /\ \A i \in 1..Len(stack) - 1 : Callers[i] = stack[i]
           /\ Callers = <<>> <=> Len(stack) = 1
<1> DEFINE n == Len(stack) - 1
<1>1. n \in Nat /\ Len(stack) = n + 1 /\ \A i \in 1..n : stack[i] \in Frame
  BY StackFacts
<1>2. Callers = SubSeq(stack, 1, n)
  BY DEF Callers
<1>3. SubSeq(stack, 1, n) \in Seq(Frame) /\ Len(SubSeq(stack, 1, n)) = n
      /\ \A i \in 1..n : SubSeq(stack, 1, n)[i] = stack[i]
  BY <1>1
<1> HIDE DEF n
<1>4. Callers = <<>> <=> n = 0
  BY <1>1, <1>2, <1>3
<1> QED  BY <1>1, <1>2, <1>3, <1>4 DEF n

\* Pop drops the frame on top, and its caller records what it gained.
LEMMA Popped ==
    ASSUME FramesType, stack # <<>>, NEW result, NEW gained \in Int, NEW acc \in Int,
           Pop(result, gained, acc)
    PROVE  PopIs(IF Carries(result) THEN gained ELSE 0)
<1> DEFINE n == Len(stack) - 1
           rest == Callers
           d == IF Carries(result) THEN gained ELSE 0
<1>1. n \in Nat /\ Len(stack) = n + 1 /\ \A i \in 1..n : stack[i] \in Frame
  BY StackFacts
<1>3. rest \in Seq(Frame) /\ Len(rest) = n /\ \A i \in 1..n : rest[i] = stack[i]
  BY CallersFacts
<1>4. d \in Int
  OBVIOUS
<1>5. CASE rest = <<>> \/ Running.nested
  <2>1. stack' = rest
    BY <1>5 DEF Pop
  <2>2. (n = 0 \/ Running.nested) /\ n = Len(stack) - 1
    BY <1>3, <1>5
  <2> HIDE DEF rest, n
  <2>3. \A i \in 1..n : SameFrame(stack'[i], stack[i]) /\ stack'[i].refund = stack[i].refund
    BY <1>3, <2>1 DEF SameFrame
  <2> QED  BY <1>1, <1>3, <2>1, <2>2, <2>3 DEF PopIs
<1>6. CASE rest # <<>> /\ ~Running.nested
  <2>1. stack' = [rest EXCEPT ![Len(rest)].refund = @ + d]
    BY <1>6 DEF Pop
  <2> HIDE DEF d
  <2> DEFINE f == [rest[n] EXCEPT !.refund = @ + d]
  <2>2. n \in 1..Len(rest) /\ rest[n] \in Frame /\ rest[n] = stack[n]
    BY <1>1, <1>3, <1>6
  <2>3. f \in Frame /\ f.refund = stack[n].refund + d /\ SameFrame(f, stack[n])
    BY Zenon, <1>4, <2>2, RefundRecorded
  <2>4. stack' = [rest EXCEPT ![n] = f]
    BY <1>3, <2>1
  <2> HIDE DEF rest, n, f
  <2>6. stack' \in Seq(Frame) /\ Len(stack') = n /\ stack'[n] = f /\ \A i \in 1..n - 1 : stack'[i] = rest[i]
    BY <1>1, <1>3, <2>2, <2>3, <2>4
  <2>7. \A i \in 1..n - 1 : SameFrame(stack'[i], stack[i]) /\ stack'[i].refund = stack[i].refund
    BY <1>1, <1>3, <2>6 DEF SameFrame
  <2>8. n = Len(stack) - 1
    BY DEF n
  <2> QED  BY <1>1, <1>6, <2>3, <2>6, <2>7, <2>8 DEF PopIs, d
<1> QED  BY <1>5, <1>6

-----------------------------------------------------------------------------
(* Frames: the shape of the stack.                                         *)

\* The stack keeps its shape when the frame on top changes but for its code.
LEMMA ShapeTop ==
    ASSUME FramesType, StackShape, stack # <<>>, NEW f \in Frame, TopIs(f),
           f.code = Running.code, f.nested = Running.nested, Running.entered => f.entered
    PROVE  StackShape'
<1>1. Len(stack) \in Nat \ {0} /\ stack' # <<>> /\ Running = stack[Len(stack)]
  BY StackFacts DEF TopIs, Running
<1> QED  BY <1>1, StackFacts DEF StackShape, TopIs, IsProgram

\* A frame that was entered calls, and the callee of a program is nested.
LEMMA ShapePush ==
    ASSUME FramesType, StackShape, stack # <<>>, NEW f \in Frame, PushIs(f), Running.entered,
           f.nested <=> IsProgram(Running), ~IsProgram(f) => f.entered
    PROVE  StackShape'
<1>1. Len(stack) \in Nat \ {0} /\ stack' # <<>> /\ Running = stack[Len(stack)]
  BY StackFacts DEF PushIs, Running
<1> DEFINE n == Len(stack)
<1>2. /\ n \in Nat \ {0} /\ Len(stack') = n + 1 /\ stack'[n + 1] = f
      /\ \A i \in 1..n : stack'[i] = stack[i]
  BY <1>1, StackFacts DEF PushIs
<1>3. /\ \A i \in 1..n : ~IsProgram(stack[i]) => stack[i].entered
      /\ \A i \in 1..n - 1 : stack[i].entered /\ (stack[i + 1].nested <=> IsProgram(stack[i]))
      /\ ~stack[1].nested
  BY DEF StackShape
<1>4. stack[n].entered /\ (f.nested <=> IsProgram(stack[n]))
  BY <1>1
<1> HIDE DEF n
<1>5. ASSUME NEW i \in 1..n + 1 PROVE ~IsProgram(stack'[i]) => stack'[i].entered
  BY <1>2, <1>3
<1>6. ASSUME NEW i \in 1..n
      PROVE  stack'[i].entered /\ (stack'[i + 1].nested <=> IsProgram(stack'[i]))
  <2>1. CASE i = n
    BY <1>2, <1>4, <2>1
  <2>2. CASE i \in 1..n - 1
    <3>1. stack'[i] = stack[i] /\ stack'[i + 1] = stack[i + 1]
      BY <1>2, <2>2
    <3> QED  BY <1>3, <2>2, <3>1
  <2> QED  BY <1>2, <2>1, <2>2
<1>7. ~stack'[1].nested
  BY <1>2, <1>3
<1>8. 1..Len(stack') = 1..n + 1 /\ 1..Len(stack') - 1 = 1..n
  BY <1>2
<1> QED  BY Zenon, <1>5, <1>6, <1>7, <1>8 DEF StackShape, IsProgram

\* The stack keeps its shape when a frame returns.
LEMMA ShapePop ==
    ASSUME FramesType, StackShape, stack # <<>>, NEW d \in Int, PopIs(d)
    PROVE  StackShape'
<1>1. Len(stack) \in Nat \ {0} /\ (stack' # <<>> <=> Len(stack) > 1)
  BY StackFacts DEF PopIs
<1>2. \A i \in 1..Len(stack) - 1 :
         /\ stack'[i].code = stack[i].code
         /\ stack'[i].entered = stack[i].entered
         /\ stack'[i].nested = stack[i].nested
  BY <1>1 DEF PopIs, SameFrame
<1>3. Len(stack') = Len(stack) - 1
  BY DEF PopIs
<1>4. \A i \in 1..Len(stack') : ~IsProgram(stack'[i]) => stack'[i].entered
  BY <1>1, <1>2, <1>3 DEF StackShape, IsProgram
<1>5. \A i \in 1..Len(stack') - 1 :
         stack'[i].entered /\ (stack'[i + 1].nested <=> IsProgram(stack'[i]))
  <2> TAKE i \in 1..Len(stack') - 1
  <2>1. i \in 1..Len(stack) - 1 /\ i + 1 \in 1..Len(stack) - 1
    BY <1>1, <1>3
  <2>2. stack[i].entered /\ (stack[i + 1].nested <=> IsProgram(stack[i]))
    BY <2>1 DEF StackShape
  <2> QED  BY <1>2, <2>1, <2>2 DEF IsProgram
<1>6. stack' # <<>> => ~stack'[1].nested
  BY <1>1, <1>2 DEF StackShape
<1> QED  BY <1>4, <1>5, <1>6 DEF StackShape, IsProgram

\* The stack keeps its shape when the nested loops are abandoned.
LEMMA ShapeCut ==
    ASSUME FramesType, StackShape, NEW n \in 0..Len(stack), CutIs(n)
    PROVE  StackShape'
<1>1. Len(stack) \in Nat /\ (stack' # <<>> <=> n # 0) /\ (n # 0 => stack # <<>>)
  BY StackFacts DEF CutIs
<1>2. \A i \in 1..n : stack'[i] = stack[i] /\ i \in 1..Len(stack)
  BY <1>1 DEF CutIs
<1>3. Len(stack') = n
  BY DEF CutIs
<1>4. \A i \in 1..n : ~IsProgram(stack'[i]) => stack'[i].entered
  BY <1>2 DEF StackShape, IsProgram
<1>5. ASSUME NEW i \in 1..n - 1
      PROVE  stack'[i].entered /\ (stack'[i + 1].nested <=> IsProgram(stack'[i]))
  <2>1. i \in 1..Len(stack) - 1 /\ stack'[i] = stack[i] /\ stack'[i + 1] = stack[i + 1]
    BY <1>1, <1>2
  <2> QED  BY <2>1 DEF StackShape, IsProgram
<1>6. stack' # <<>> => ~stack'[1].nested
  BY <1>1, <1>2 DEF StackShape
<1> QED  BY <1>3, <1>4, <1>5, <1>6 DEF StackShape, IsProgram

-----------------------------------------------------------------------------
(* Frames: the spans of calls.                                             *)

\* The call frames of an address.
CallsOf(a) == {i \in DOMAIN stack : a \in SpanAddress(stack[i])}

\* The calls of a contract on the stack can be counted.
LEMMA CallsFinite ==
    ASSUME FramesType, NEW a
    PROVE  IsFiniteSet(CallsOf(a)) /\ Cardinality(CallsOf(a)) \in Nat
<1>1. IsFiniteSet(1..Len(stack))
  BY StackFacts, FS_Interval
<1>2. CallsOf(a) \subseteq 1..Len(stack)
  BY StackFacts DEF CallsOf
<1> QED  BY <1>1, <1>2, FS_Subset, FS_CardinalityType

\* ReentrancyExact, with the calls of a contract named.
LEMMA SpansOfCalls ==
           ReentrancyExact <=> (~failed => \A a \in Contracts : spans[a] = Cardinality(CallsOf(a)))
  BY DEF ReentrancyExact, CallsOf

\* The spans stay exact when the frame on top keeps its scheme and its address.
LEMMA SpansTop ==
    ASSUME FramesType, FramesType', ReentrancyExact, stack # <<>>, NEW f \in Frame, TopIs(f),
           f.scheme = Running.scheme, f.acting = Running.acting, UNCHANGED <<spans, failed>>
    PROVE  ReentrancyExact'
<1>1. \A a \in Contracts : CallsOf(a)' = CallsOf(a)
  BY StackFacts DEF CallsOf, TopIs, SpanAddress, Running
<1> QED  BY <1>1 DEF ReentrancyExact, CallsOf

\* OpenSpan counts the call that is pushed.
LEMMA SpansPush ==
    ASSUME FramesType, FramesType', ReentrancyExact, stack # <<>>, NEW f \in Frame, PushIs(f),
           spans' = OpenSpan(f), UNCHANGED failed
    PROVE  ReentrancyExact'
<1> SUFFICES ASSUME ~failed, NEW a \in Contracts PROVE spans'[a] = Cardinality(CallsOf(a)')
  BY DEF ReentrancyExact, CallsOf
<1> DEFINE n == Len(stack) + 1
<1>1. n \in Nat /\ n \notin CallsOf(a)
  BY StackFacts DEF CallsOf
<1>2. spans[a] = Cardinality(CallsOf(a)) /\ spans[a] \in Nat
  BY SpansOfCalls DEF FramesType
<1>3. CASE a \in SpanAddress(f)
  <2>1. CallsOf(a)' = CallsOf(a) \cup {n}
    BY <1>3, StackFacts DEF CallsOf, PushIs, SpanAddress
  <2>2. Cardinality(CallsOf(a) \cup {n}) = Cardinality(CallsOf(a)) + 1
    BY Zenon, <1>1, CallsFinite, FS_AddElement
  <2> QED  BY <1>2, <1>3, <2>1, <2>2 DEF OpenSpan
<1>4. CASE a \notin SpanAddress(f)
  <2>1. CallsOf(a)' = CallsOf(a)
    BY <1>4, StackFacts DEF CallsOf, PushIs, SpanAddress
  <2> QED  BY <1>2, <1>4, <2>1 DEF OpenSpan
<1> QED  BY <1>3, <1>4

\* CloseSpan forgets the call that returns.
LEMMA SpansPop ==
    ASSUME FramesType, FramesType', ReentrancyExact, stack # <<>>, NEW d \in Int, PopIs(d),
           spans' = CloseSpan(Running, TRUE), UNCHANGED failed
    PROVE  ReentrancyExact'
<1> SUFFICES ASSUME ~failed, NEW a \in Contracts PROVE spans'[a] = Cardinality(CallsOf(a)')
  BY Zenon DEF ReentrancyExact, CallsOf
<1> DEFINE n == Len(stack)
<1>1. n \in Nat \ {0} /\ Running = stack[n]
  BY StackFacts DEF Running
<1>2. spans[a] = Cardinality(CallsOf(a)) /\ spans[a] \in Nat
  BY SpansOfCalls DEF FramesType
<1>3. \A i \in 1..n - 1 : stack'[i].scheme = stack[i].scheme /\ stack'[i].acting = stack[i].acting
  BY <1>1 DEF PopIs, SameFrame
<1>4. CallsOf(a)' = CallsOf(a) \ {n}
  BY <1>1, <1>3, StackFacts DEF CallsOf, PopIs, SpanAddress
<1>5. CASE a \in SpanAddress(Running)
  <2>1. n \in CallsOf(a)
    BY <1>1, <1>5, StackFacts DEF CallsOf
  <2>2. Cardinality(CallsOf(a) \ {n}) = Cardinality(CallsOf(a)) - 1
    BY Zenon, <2>1, CallsFinite, FS_RemoveElement
  <2>3. Cardinality(CallsOf(a)) # 0
    BY <2>1, CallsFinite, FS_EmptySet
  <2> QED  BY <1>2, <1>4, <1>5, <2>2, <2>3 DEF CloseSpan
<1>6. CASE a \notin SpanAddress(Running)
  <2>1. CallsOf(a) \ {n} = CallsOf(a)
    BY <1>1, <1>6 DEF CallsOf
  <2> QED  BY Zenon, <1>2, <1>4, <1>6, <2>1 DEF CloseSpan
<1> QED  BY Zenon, <1>5, <1>6

-----------------------------------------------------------------------------
(* Frames: the pages.                                                      *)

\* The open pages cover the active ones when the frame on top takes more of both.
LEMMA PagesTop ==
    ASSUME FramesType, FramesType', PagesInv, stack # <<>>, NEW f \in Frame, TopIs(f),
           f.active >= Running.active,
           pages'.open >= CapU16(f.active), pages'.ever >= pages'.open, pages'.ever >= pages.ever,
           f.savedOpen <= pages'.ever,
           IF IsProgram(f) /\ f.entered THEN f.savedOpen >= CapU16(ActiveBelow(Len(stack)))
           ELSE f.active = ActiveBelow(Len(stack))
    PROVE  PagesInv'
<1> DEFINE n == Len(stack)
<1>1. /\ n \in Nat \ {0} /\ Len(stack') = n /\ stack' # <<>> /\ Running = stack[n] /\ Running' = f
      /\ \A i \in 1..n : stack[i] \in Frame /\ stack'[i] \in Frame
  BY StackFacts DEF TopIs, Running
<1>2. stack'[n] = f /\ \A i \in 1..n - 1 : stack'[i] = stack[i]
  BY DEF TopIs
<1>3. \A i \in 1..n : ActiveBelow(i)' = ActiveBelow(i)
  BY <1>1, <1>2 DEF ActiveBelow
<1>4. OpenCoversActive'
  BY <1>1 DEF OpenCoversActive, ActivePages, CapU16
<1> HIDE DEF n
<1>5. \A i \in 1..n : stack[i].active \in Nat /\ stack'[i].active \in Nat
  BY Zenon, <1>1 DEF Frame
<1>6. \A i, j \in 1..n : i <= j => stack'[i].active <= stack'[j].active
  <2> SUFFICES ASSUME NEW i \in 1..n, NEW j \in 1..n, i <= j
               PROVE  stack'[i].active <= stack'[j].active
    OBVIOUS
  <2>1. stack[i].active <= stack[j].active
    BY <1>1 DEF PagesInv, SavedCover, n
  <2> QED  BY <1>1, <1>2, <1>5, <2>1
<1>7. ASSUME NEW i \in 1..n
      PROVE  /\ stack'[i].savedOpen <= pages'.ever
             /\ IF InProgram(i)' THEN stack'[i].savedOpen >= CapU16(ActiveBelow(i)')
                ELSE stack'[i].active = ActiveBelow(i)'
  <2>1. CASE i = n
    BY <1>2, <1>3, <2>1 DEF InProgram, n
  <2>2. CASE i # n
    <3>1. stack'[i] = stack[i] /\ i \in 1..Len(stack)
      BY <1>1, <1>2, <2>2 DEF n
    <3>2. /\ stack[i].savedOpen <= pages.ever
          /\ IF InProgram(i) THEN stack[i].savedOpen >= CapU16(ActiveBelow(i))
             ELSE stack[i].active = ActiveBelow(i)
      BY <3>1 DEF PagesInv, SavedCover
    <3>3. stack[i].savedOpen \in Nat /\ pages.ever \in Nat /\ pages'.ever \in Nat
      BY Zenon, <1>1, <3>1 DEF Frame, FramesType
    <3> QED  BY <1>3, <3>1, <3>2, <3>3 DEF InProgram
  <2> QED  BY <2>1, <2>2
<1>8. SavedCover'
  BY <1>1, <1>6, <1>7 DEF SavedCover
<1> QED  BY <1>4, <1>8 DEF PagesInv

\* A change of the refund alone keeps the pages.
LEMMA PagesKept ==
    ASSUME FramesType, FramesType', PagesInv, stack # <<>>, NEW f \in Frame, TopIs(f),
           SameFrame(f, Running), UNCHANGED pages
    PROVE  PagesInv'
<1> DEFINE n == Len(stack)
<1>1. n \in 1..n /\ Running = stack[n]
  BY StackFacts DEF Running
<1>2. /\ stack[n].savedOpen <= pages.ever
      /\ IF InProgram(n) THEN stack[n].savedOpen >= CapU16(ActiveBelow(n))
         ELSE stack[n].active = ActiveBelow(n)
  BY <1>1 DEF PagesInv, SavedCover
<1>3. pages.open >= CapU16(Running.active) /\ pages.ever >= pages.open
  BY DEF PagesInv, OpenCoversActive, ActivePages, CapU16
<1>4. /\ f.active = Running.active /\ f.savedOpen = Running.savedOpen
      /\ f.code = Running.code /\ f.entered = Running.entered
      /\ f.active \in Nat /\ pages.ever \in Nat
  BY FrameFields DEF SameFrame, FramesType
<1>5. f.active >= Running.active /\ pages'.ever >= pages.ever
  BY <1>4
<1>6. IsProgram(f) /\ f.entered <=> InProgram(n)
  BY <1>1, <1>4 DEF InProgram, IsProgram
<1> QED  BY <1>1, <1>2, <1>3, <1>4, <1>5, <1>6, PagesTop

\* A callee starts with the pages that are active.
LEMMA PagesPush ==
    ASSUME FramesType, FramesType', PagesInv, stack # <<>>, NEW f \in Frame, PushIs(f),
           f.active = ActivePages, f.savedOpen = 0, ~(IsProgram(f) /\ f.entered), UNCHANGED pages
    PROVE  PagesInv'
<1> DEFINE n == Len(stack)
<1>1. /\ n \in Nat \ {0} /\ Len(stack') = n + 1 /\ stack' # <<>> /\ Running' = f
      /\ \A i \in 1..n : stack[i].active \in Nat
      /\ ActivePages = stack[n].active
  BY StackFacts DEF PushIs, Running, Frame, ActivePages
<1>2. stack'[n + 1] = f /\ \A i \in 1..n : stack'[i] = stack[i]
  BY DEF PushIs
<1>3. /\ \A i \in 1..n : ActiveBelow(i)' = ActiveBelow(i)
      /\ ActiveBelow(n + 1)' = stack[n].active
  BY <1>1, <1>2 DEF ActiveBelow
<1>4. OpenCoversActive'
  BY <1>1 DEF OpenCoversActive, ActivePages, CapU16, PagesInv
<1> HIDE DEF n
<1>5. \A i, j \in 1..n + 1 : i <= j => stack'[i].active <= stack'[j].active
  <2> SUFFICES ASSUME NEW i \in 1..n + 1, NEW j \in 1..n + 1, i <= j
               PROVE  stack'[i].active <= stack'[j].active
    OBVIOUS
  <2>1. \A h, k \in 1..n : h <= k => stack[h].active <= stack[k].active
    BY DEF PagesInv, SavedCover, n
  <2> QED  BY <1>1, <1>2, <2>1
<1>6. ASSUME NEW i \in 1..n + 1
      PROVE  /\ stack'[i].savedOpen <= pages'.ever
             /\ IF InProgram(i)' THEN stack'[i].savedOpen >= CapU16(ActiveBelow(i)')
                ELSE stack'[i].active = ActiveBelow(i)'
  <2>1. CASE i = n + 1
    <3>1. stack'[i] = f /\ ActiveBelow(i)' = stack[n].active
      BY <1>1, <1>2, <2>1 DEF ActiveBelow
    <3>2. ~InProgram(i)'
      BY <3>1 DEF InProgram
    <3> QED  BY <1>1, <3>1, <3>2 DEF FramesType
  <2>2. CASE i # n + 1
    <3>1. i \in 1..n
      BY <1>1, <2>2
    <3>2. /\ stack[i].savedOpen <= pages.ever
          /\ IF InProgram(i) THEN stack[i].savedOpen >= CapU16(ActiveBelow(i))
             ELSE stack[i].active = ActiveBelow(i)
      BY <3>1 DEF PagesInv, SavedCover, n
    <3> QED  BY <1>2, <1>3, <3>1, <3>2 DEF InProgram
  <2> QED  BY <2>1, <2>2
<1>7. SavedCover'
  BY <1>1, <1>5, <1>6 DEF SavedCover
<1> QED  BY <1>4, <1>7 DEF PagesInv

\* The stack keeps its first n frames, but for their refunds.
ShortenedTo(n) ==
    /\ stack' \in Seq(Frame)
    /\ Len(stack') = n
    /\ \A i \in 1..n : SameFrame(stack'[i], stack[i])

\* What is open still covers what is active when frames are dropped.
LEMMA PagesShortened ==
    ASSUME FramesType, FramesType', PagesInv, NEW n \in 0..Len(stack), ShortenedTo(n),
           n # 0 => pages'.open >= CapU16(stack[n].active),
           pages'.ever >= pages'.open, pages'.ever >= pages.ever
    PROVE  PagesInv'
<1>1. /\ Len(stack) \in Nat /\ Len(stack') = n /\ (stack' = <<>> <=> n = 0)
      /\ \A i \in 1..Len(stack) : stack[i] \in Frame
      /\ stack' \in Seq(Frame)
  BY StackFacts DEF ShortenedTo
<1>2. \A i \in 1..n : /\ stack'[i].active = stack[i].active /\ stack'[i].savedOpen = stack[i].savedOpen
                      /\ stack'[i].code = stack[i].code /\ stack'[i].entered = stack[i].entered
  BY DEF ShortenedTo, SameFrame
<1>3. \A i \in 1..n : ActiveBelow(i)' = ActiveBelow(i)
  BY <1>1, <1>2 DEF ActiveBelow
<1>4. OpenCoversActive'
  <2>1. CASE n = 0
    BY <1>1, <2>1, PagesAssumption DEF OpenCoversActive, ActivePages, FramesType
  <2>2. CASE n # 0
    <3>1. ActivePages' = stack[n].active
      BY <1>1, <1>2, <2>2 DEF ActivePages, Running
    <3> QED  BY <2>2, <3>1 DEF OpenCoversActive, CapU16
  <2> QED  BY <2>1, <2>2
<1>5. \A i, j \in 1..n : i <= j => stack'[i].active <= stack'[j].active
  BY <1>1, <1>2 DEF PagesInv, SavedCover
<1>6. ASSUME NEW i \in 1..n
      PROVE  /\ stack'[i].savedOpen <= pages'.ever
             /\ IF InProgram(i)' THEN stack'[i].savedOpen >= CapU16(ActiveBelow(i)')
                ELSE stack'[i].active = ActiveBelow(i)'
  <2>1. i \in 1..Len(stack)
    BY <1>1
  <2>2. /\ stack[i].savedOpen <= pages.ever
        /\ IF InProgram(i) THEN stack[i].savedOpen >= CapU16(ActiveBelow(i))
           ELSE stack[i].active = ActiveBelow(i)
    BY <2>1 DEF PagesInv, SavedCover
  <2>3. stack[i].savedOpen \in Nat /\ pages.ever \in Nat /\ pages'.ever \in Nat
    BY Zenon, <1>1, <2>1 DEF Frame, FramesType
  <2>4. InProgram(i)' <=> InProgram(i)
    BY <1>2 DEF InProgram, IsProgram
  <2> QED  BY <1>2, <1>3, <2>2, <2>3, <2>4
<1>7. SavedCover'
  BY <1>1, <1>5, <1>6 DEF SavedCover
<1> QED  BY <1>4, <1>7 DEF PagesInv

-----------------------------------------------------------------------------
(* Frames: the refunds.                                                    *)

\* GainsKept, for frame i.
GainKept(i) ==
    /\ ~IsProgram(stack[i]) => Gain(i) = stack[i].refund
    /\ ~stack[i].entered => Gain(i) = 0
    /\ InProgram(i) /\ (\A k \in i + 1..Len(stack) : ~InProgram(k)) => Gain(i) = refund
    /\ \A j \in i + 1..Len(stack) :
          InProgram(i) /\ InProgram(j) /\ (\A k \in i + 1..j - 1 : ~InProgram(k))
          => Gain(i) = stack[j].savedRefund

\* GainsKept, frame by frame.
LEMMA GainsSplit ==
    GainsKept <=> /\ stack # <<>> => Counted(stack[1].checkpoint) = 0
                  /\ \A i \in 1..Len(stack) : GainKept(i)
  BY DEF GainsKept, GainKept

\* A write: the gain of the running frame grows by d, on its gas or on the accumulator.
LEMMA GainsStore ==
    ASSUME FramesType, StackShape, GainsKept, stack # <<>>, NEW f \in Frame, TopIs(f), NEW d \in Int,
           f.code = Running.code, f.entered = Running.entered, Running.entered,
           f.savedRefund = Running.savedRefund, f.checkpoint = Running.checkpoint,
           Counted(ledger') = Counted(ledger) + d,
           IF IsProgram(Running) THEN refund' = refund + d /\ f.refund = Running.refund
           ELSE refund' = refund /\ f.refund = Running.refund + d
    PROVE  GainsKept'
<1> DEFINE n == Len(stack)
<1>1. /\ n \in Nat \ {0} /\ Len(stack') = n /\ stack' # <<>> /\ Running = stack[n]
      /\ \A i \in 1..n : stack[i] \in Frame
  BY StackFacts DEF TopIs, Running
<1>2. stack'[n] = f /\ \A i \in 1..n - 1 : stack'[i] = stack[i]
  BY DEF TopIs
<1>3. \A i \in 1..n : /\ stack'[i].checkpoint = stack[i].checkpoint
                      /\ stack'[i].savedRefund = stack[i].savedRefund
                      /\ stack'[i].entered = stack[i].entered
                      /\ stack'[i].code = stack[i].code
                      /\ i # n => stack'[i].refund = stack[i].refund
                      /\ Counted(stack[i].checkpoint) \in Int /\ stack[i].refund \in Int
  <2> TAKE i \in 1..n
  <2>1. Counted(stack[i].checkpoint) \in Int /\ stack[i].refund \in Int
    BY <1>1, FrameFields
  <2>2. i = n \/ i \in 1..n - 1
    BY <1>1
  <2>3. CASE i = n
    BY Zenon, <1>1, <1>2, <2>1, <2>3
  <2>4. CASE i \in 1..n - 1
    BY <1>2, <2>1, <2>4
  <2> QED  BY <2>2, <2>3, <2>4
<1>4. \A i \in 1..n : InProgram(i)' <=> InProgram(i)
  BY <1>3 DEF InProgram, IsProgram
<1>5. \A i \in 1..n - 1 : Gain(i)' = Gain(i)
  BY <1>1, <1>3 DEF Gain
<1>6. \A i \in 1..n : i = n => Gain(i)' = Gain(i) + d
  BY <1>1, <1>3, CountedInt DEF Gain, FramesType
<1> HIDE DEF n
<1>7. ASSUME NEW i \in 1..n PROVE GainKept(i)'
  <2>0. GainKept(i)
    BY GainsSplit DEF n
  <2>1. CASE i = n
    <3>1. Gain(i)' = Gain(i) + d /\ Running = stack[i] /\ stack'[i] = f
      BY <1>1, <1>2, <1>6, <2>1
    <3>2. IsProgram(stack'[i]) <=> IsProgram(stack[i])
      BY <3>1 DEF IsProgram
    <3>3. ~IsProgram(stack[i]) => Gain(i) = stack[i].refund /\ Gain(i)' = stack'[i].refund
      BY <2>0, <3>1 DEF GainKept
    <3>4. InProgram(i) => Gain(i) = refund /\ Gain(i)' = refund'
      BY <1>1, <2>0, <2>1, <3>1 DEF GainKept, InProgram, n
    <3>5. stack'[i].entered
      BY Zenon, <3>1
    <3>6. (InProgram(i)' <=> InProgram(i)) /\ \A j \in i + 1..Len(stack') : FALSE
      BY <1>1, <1>4, <2>1
    <3> QED  BY <3>2, <3>3, <3>4, <3>5, <3>6 DEF GainKept
  <2>2. CASE i # n
    <3>1. /\ Gain(i)' = Gain(i) /\ i \in 1..n - 1
          /\ \A k \in i + 1..n : k \in 1..n
      BY <1>1, <1>5, <2>2
    <3>2. ~IsProgram(stack'[i]) => Gain(i)' = stack'[i].refund
      BY <1>3, <2>0, <2>2, <3>1 DEF GainKept, IsProgram
    <3>3. ~stack'[i].entered => Gain(i)' = 0
      BY <1>3, <2>0, <3>1 DEF GainKept
    <3>4. InProgram(i)' /\ (\A k \in i + 1..n : ~InProgram(k)') => Gain(i)' = refund'
      <4> SUFFICES ASSUME InProgram(i)', \A k \in i + 1..n : ~InProgram(k)' PROVE Gain(i)' = refund'
        OBVIOUS
      <4>1. InProgram(i) /\ (\A k \in i + 1..n : ~InProgram(k))
        BY <1>4, <3>1
      <4>2. n \in i + 1..n
        BY <1>1, <3>1
      <4>3. ~IsProgram(Running)
        BY <1>1, <4>1, <4>2 DEF InProgram
      <4> QED  BY <2>0, <3>1, <4>1, <4>3 DEF GainKept, n
    <3>5. \A j \in i + 1..n :
             InProgram(i)' /\ InProgram(j)' /\ (\A k \in i + 1..j - 1 : ~InProgram(k)')
             => Gain(i)' = stack'[j].savedRefund
      <4> SUFFICES ASSUME NEW j \in i + 1..n, InProgram(i)', InProgram(j)',
                          \A k \in i + 1..j - 1 : ~InProgram(k)'
                   PROVE  Gain(i)' = stack'[j].savedRefund
        OBVIOUS
      <4>1. InProgram(i) /\ InProgram(j)
        BY <1>4, <3>1
      <4>2. \A k \in i + 1..j - 1 : k \in 1..n
        BY <1>1
      <4>3. \A k \in i + 1..j - 1 : ~InProgram(k)
        BY <1>4, <4>2
      <4>4. Gain(i) = stack[j].savedRefund
        BY <2>0, <4>1, <4>3 DEF GainKept, n
      <4> QED  BY <1>3, <3>1, <4>4
    <3> QED  BY <1>1, <3>2, <3>3, <3>4, <3>5 DEF GainKept
  <2> QED  BY <2>1, <2>2
<1>8. Counted(stack'[1].checkpoint) = 0
  BY <1>1, <1>3 DEF GainsKept
<1> QED  BY <1>1, <1>7, <1>8 DEF GainsKept, GainKept

\* A program is entered: it puts the accumulator of the program below it aside.
LEMMA GainsEnter ==
    ASSUME FramesType, StackShape, GainsKept, stack # <<>>, NEW f \in Frame, TopIs(f),
           ~Running.entered, f.entered, f.code = Running.code, f.checkpoint = Running.checkpoint,
           f.savedRefund = refund, refund' = 0, ledger' = ledger
    PROVE  GainsKept'
<1> DEFINE n == Len(stack)
<1>1. /\ n \in Nat \ {0} /\ Len(stack') = n /\ stack' # <<>> /\ Running = stack[n]
      /\ \A i \in 1..n : stack[i] \in Frame
  BY StackFacts DEF TopIs, Running
<1>2. stack'[n] = f /\ \A i \in 1..n - 1 : stack'[i] = stack[i]
  BY DEF TopIs
<1>3. IsProgram(f) /\ ~InProgram(n)
  BY <1>1 DEF StackShape, IsProgram, InProgram
<1>4. \A i \in 1..n - 1 : InProgram(i)' <=> InProgram(i)
  BY <1>2 DEF InProgram
<1>5. \A i \in 1..n : i = n => InProgram(i)'
  BY <1>2, <1>3 DEF InProgram
<1>6. \A i \in 1..n : stack'[i].checkpoint = stack[i].checkpoint
  BY <1>1, <1>2
<1>7. \A i \in 1..n : Gain(i)' = Gain(i)
  BY <1>1, <1>6 DEF Gain
<1> HIDE DEF n
<1>8. ASSUME NEW i \in 1..n PROVE GainKept(i)'
  <2>0. GainKept(i) /\ Gain(i)' = Gain(i)
    BY <1>7, GainsSplit DEF n
  <2>1. CASE i = n
    <3>1. stack'[i] = f /\ ~stack[i].entered
      BY <1>1, <1>2, <2>1
    <3>2. Gain(i)' = refund'
      BY <2>0, <3>1 DEF GainKept
    <3>3. \A j \in i + 1..Len(stack') : FALSE
      BY <1>1, <2>1
    <3> QED  BY <1>3, <3>1, <3>2, <3>3 DEF GainKept
  <2>2. CASE i # n
    <3>1. i \in 1..n - 1 /\ stack'[i] = stack[i]
      BY <1>1, <1>2, <2>2
    <3>2. ~IsProgram(stack'[i]) => Gain(i)' = stack'[i].refund
      BY <2>0, <3>1 DEF GainKept
    <3>3. ~stack'[i].entered => Gain(i)' = 0
      BY <2>0, <3>1 DEF GainKept
    <3>4. ~(\A k \in i + 1..n : ~InProgram(k)')
      <4>1. n \in i + 1..n /\ n \in 1..n
        BY <1>1, <3>1
      <4> QED  BY <1>5, <4>1
    <3>5. \A j \in i + 1..n :
             InProgram(i)' /\ InProgram(j)' /\ (\A k \in i + 1..j - 1 : ~InProgram(k)')
             => Gain(i)' = stack'[j].savedRefund
      <4> SUFFICES ASSUME NEW j \in i + 1..n, InProgram(i)', InProgram(j)',
                          \A k \in i + 1..j - 1 : ~InProgram(k)'
                   PROVE  Gain(i)' = stack'[j].savedRefund
        OBVIOUS
      <4>1. InProgram(i)
        BY <1>4, <3>1
      <4>2. \A k \in i + 1..j - 1 : k \in 1..n - 1
        BY <1>1
      <4>3. \A k \in i + 1..j - 1 : ~InProgram(k)
        BY <1>4, <4>2
      <4>4. CASE j = n
        <5>1. \A k \in i + 1..n : ~InProgram(k)
          <6> TAKE k \in i + 1..n
          <6>1. k = n \/ k \in i + 1..j - 1
            BY <1>1, <4>4
          <6> QED  BY <1>3, <4>3, <6>1
        <5>2. Gain(i) = refund
          BY <2>0, <4>1, <5>1 DEF GainKept, n
        <5> QED  BY <1>2, <2>0, <4>4, <5>2
      <4>5. CASE j # n
        <5>1. j \in 1..n - 1 /\ j \in i + 1..n
          BY <1>1, <4>5
        <5>2. InProgram(j)
          BY <1>4, <5>1
        <5>3. Gain(i) = stack[j].savedRefund
          BY <2>0, <4>1, <4>3, <5>1, <5>2 DEF GainKept, n
        <5> QED  BY <1>2, <2>0, <5>1, <5>3
      <4> QED  BY <4>4, <4>5
    <3> QED  BY <1>1, <3>2, <3>3, <3>4, <3>5 DEF GainKept
  <2> QED  BY <2>1, <2>2
<1>9. Counted(stack'[1].checkpoint) = 0
  BY <1>1, <1>6 DEF GainsKept
<1> QED  BY <1>1, <1>8, <1>9 DEF GainsKept, GainKept

\* A call or create starts with no gain.
LEMMA GainsPush ==
    ASSUME FramesType, StackShape, GainsKept, stack # <<>>, NEW f \in Frame, PushIs(f),
           ~(IsProgram(f) /\ f.entered), f.refund = 0, f.checkpoint = ledger,
           UNCHANGED <<ledger, refund>>
    PROVE  GainsKept'
<1> DEFINE n == Len(stack)
<1>1. n \in Nat \ {0} /\ Len(stack') = n + 1 /\ stack' # <<>>
  BY StackFacts DEF PushIs
<1>2. stack'[n + 1] = f /\ \A i \in 1..n : stack'[i] = stack[i]
  BY DEF PushIs
<1>3. \A i \in 1..n : InProgram(i)' <=> InProgram(i)
  BY <1>2 DEF InProgram
<1>4. \A i \in 1..n + 1 : i = n + 1 => ~InProgram(i)'
  BY <1>2 DEF InProgram
<1>5. \A i \in 1..n : Gain(i)' = Gain(i)
  BY <1>1, <1>2 DEF Gain
<1>6. \A i \in 1..n + 1 : i = n + 1 => Gain(i)' = 0
  BY <1>1, <1>2, CountedInt DEF Gain, FramesType
<1> HIDE DEF n
<1>7. ASSUME NEW i \in 1..n + 1 PROVE GainKept(i)'
  <2>1. CASE i = n + 1
    <3>1. stack'[i] = f /\ ~InProgram(i)' /\ Gain(i)' = 0
      BY <1>2, <1>4, <1>6, <2>1
    <3> QED  BY <3>1 DEF GainKept
  <2>2. CASE i # n + 1
    <3>0. i \in 1..n
      BY <1>1, <2>2
    <3>1. /\ GainKept(i) /\ Gain(i)' = Gain(i) /\ stack'[i] = stack[i]
          /\ InProgram(i)' <=> InProgram(i)
      BY <1>2, <1>3, <1>5, <3>0, GainsSplit DEF n
    <3>2. ~IsProgram(stack'[i]) => Gain(i)' = stack'[i].refund
      BY <3>1 DEF GainKept
    <3>3. ~stack'[i].entered => Gain(i)' = 0
      BY <3>1 DEF GainKept
    <3>4. InProgram(i)' /\ (\A k \in i + 1..n + 1 : ~InProgram(k)') => Gain(i)' = refund'
      <4> SUFFICES ASSUME InProgram(i)', \A k \in i + 1..n + 1 : ~InProgram(k)' PROVE Gain(i)' = refund'
        OBVIOUS
      <4>1. \A k \in i + 1..n : k \in i + 1..n + 1 /\ k \in 1..n
        BY <1>1, <3>0
      <4>2. \A k \in i + 1..n : ~InProgram(k)
        BY <1>3, <4>1
      <4> QED  BY <3>1, <4>2 DEF GainKept, n
    <3>5. \A j \in i + 1..n + 1 :
             InProgram(i)' /\ InProgram(j)' /\ (\A k \in i + 1..j - 1 : ~InProgram(k)')
             => Gain(i)' = stack'[j].savedRefund
      <4> SUFFICES ASSUME NEW j \in i + 1..n + 1, InProgram(i)', InProgram(j)',
                          \A k \in i + 1..j - 1 : ~InProgram(k)'
                   PROVE  Gain(i)' = stack'[j].savedRefund
        OBVIOUS
      <4>1. j \in i + 1..n /\ j \in 1..n
        <5>1. j \in 1..n + 1
          BY <1>1, <3>0
        <5>2. j # n + 1
          BY <1>4, <5>1
        <5> QED  BY <1>1, <3>0, <5>1, <5>2
      <4>2. \A k \in i + 1..j - 1 : k \in 1..n
        BY <1>1, <3>0, <4>1
      <4>3. InProgram(j) /\ \A k \in i + 1..j - 1 : ~InProgram(k)
        BY <1>3, <4>1, <4>2
      <4>4. Gain(i) = stack[j].savedRefund
        BY <3>1, <4>1, <4>3 DEF GainKept, n
      <4> QED  BY <1>2, <3>1, <4>1, <4>4
    <3> QED  BY <1>1, <3>2, <3>3, <3>4, <3>5 DEF GainKept
  <2> QED  BY <2>1, <2>2
<1>8. Counted(stack'[1].checkpoint) = 0
  BY <1>1, <1>2 DEF GainsKept
<1> QED  BY <1>1, <1>7, <1>8 DEF GainsKept, GainKept

\* A frame returns d to the frame below it; the accumulator is then that of the program
\* below the frame, plus d if that program made the call.
LEMMA GainsPop ==
    ASSUME FramesType, StackShape, GainsKept, stack # <<>>, NEW d \in Int, PopIs(d),
           NEW acc \in Int, acc = IF InProgram(Len(stack)) THEN Running.savedRefund ELSE refund,
           Counted(ledger') = Counted(Running.checkpoint) + d,
           Len(stack) # 1 => refund' = IF Running.nested THEN acc + d ELSE acc
    PROVE  GainsKept'
<1> DEFINE n == Len(stack) - 1
<1>1. /\ n \in Nat /\ Len(stack) = n + 1 /\ Len(stack') = n /\ (stack' = <<>> <=> n = 0)
      /\ Running = stack[n + 1]
      /\ \A i \in 1..n + 1 : Counted(stack[i].checkpoint) \in Int /\ stack[i].refund \in Int
  <2>1. n \in Nat /\ Len(stack) = n + 1 /\ Len(stack') = n /\ (stack' = <<>> <=> n = 0)
    BY StackFacts DEF PopIs
  <2>2. Running = stack[n + 1] /\ \A i \in 1..n + 1 : stack[i] \in Frame
    BY <2>1, StackFacts DEF Running
  <2> QED  BY <2>1, <2>2, FrameFields
<1>2. \A i \in 1..n : SameFrame(stack'[i], stack[i])
  BY DEF PopIs
<1>3. /\ \A i \in 1..n - 1 : stack'[i].refund = stack[i].refund
      /\ \A i \in 1..n : i = n /\ ~Running.nested => stack'[i].refund = stack[i].refund + d
  BY <1>1 DEF PopIs
<1> HIDE DEF n
<1>4. \A i \in 1..n : InProgram(i)' <=> InProgram(i)
  BY <1>2 DEF InProgram, SameFrame, IsProgram
<1>5. \A i \in 1..n : stack'[i].checkpoint = stack[i].checkpoint
  BY <1>2 DEF SameFrame
<1>6. \A i \in 1..n - 1 : Gain(i)' = Gain(i)
  BY <1>1, <1>5 DEF Gain
<1>7. \A i \in 1..n : i = n => Gain(i)' = Gain(i) + d
  BY <1>1, <1>5 DEF Gain
<1>8. ASSUME NEW i \in 1..n, InProgram(i), \A k \in i + 1..n : ~InProgram(k)
      PROVE  Gain(i) = acc
  <2>0. i \in 1..Len(stack) /\ GainKept(i)
    BY <1>1, GainsSplit
  <2>1. CASE InProgram(n + 1)
    <3>1. n + 1 \in i + 1..Len(stack) /\ \A k \in i + 1..(n + 1) - 1 : ~InProgram(k)
      BY <1>1, <1>8
    <3>2. Gain(i) = stack[n + 1].savedRefund
      BY <1>8, <2>0, <2>1, <3>1 DEF GainKept
    <3> QED  BY <1>1, <2>1, <3>2
  <2>2. CASE ~InProgram(n + 1)
    <3>1. \A k \in i + 1..Len(stack) : ~InProgram(k)
      <4> TAKE k \in i + 1..Len(stack)
      <4>1. k = n + 1 \/ k \in i + 1..n
        BY <1>1
      <4> QED  BY <1>8, <2>2, <4>1
    <3>2. Gain(i) = refund
      BY <1>8, <2>0, <3>1 DEF GainKept
    <3> QED  BY <1>1, <2>2, <3>2
  <2> QED  BY <2>1, <2>2
<1>9. ASSUME NEW i \in 1..n PROVE GainKept(i)'
  <2>0. /\ i \in 1..Len(stack) /\ i \in 1..Len(stack) - 1 /\ GainKept(i) /\ Len(stack) > 1
        /\ n \in 1..Len(stack) - 1
    BY <1>1, GainsSplit
  <2>1. stack[i].entered /\ stack'[i].entered
    BY <1>2, <2>0 DEF StackShape, SameFrame
  <2>2. stack'[i].code = stack[i].code
    BY <1>2 DEF SameFrame
  <2>3. Running.nested <=> IsProgram(stack[n])
    BY <1>1, <2>0 DEF StackShape
  <2>4. i = n \/ i \in 1..n - 1
    BY <1>1
  <2>5. ~IsProgram(stack'[i]) => Gain(i)' = stack'[i].refund
    <3> SUFFICES ASSUME ~IsProgram(stack[i]) PROVE Gain(i)' = stack'[i].refund
      BY <2>2 DEF IsProgram
    <3>1. Gain(i) = stack[i].refund
      BY <2>0 DEF GainKept
    <3>2. CASE i = n
      BY <1>3, <1>7, <2>3, <3>1, <3>2
    <3>3. CASE i \in 1..n - 1
      BY <1>3, <1>6, <3>1, <3>3
    <3> QED  BY <2>4, <3>2, <3>3
  <2>6. InProgram(i)' /\ (\A k \in i + 1..n : ~InProgram(k)') => Gain(i)' = refund'
    <3> SUFFICES ASSUME InProgram(i)', \A k \in i + 1..n : ~InProgram(k)' PROVE Gain(i)' = refund'
      OBVIOUS
    <3>0. \A k \in i + 1..n : k \in 1..n
      BY <1>1
    <3>1. InProgram(i) /\ \A k \in i + 1..n : ~InProgram(k)
      BY <1>4, <3>0
    <3>2. Gain(i) = acc /\ refund' = IF Running.nested THEN acc + d ELSE acc
      <4>1. Len(stack) # 1
        BY <1>1
      <4> QED  BY <1>8, <3>1, <4>1
    <3>3. CASE i = n
      <4>1. Running.nested
        BY <2>3, <3>1, <3>3 DEF InProgram
      <4> QED  BY <1>7, <2>0, <3>2, <3>3, <4>1
    <3>4. CASE i \in 1..n - 1
      <4>1. n \in i + 1..n /\ n \in 1..Len(stack) - 1
        BY <1>1, <3>4
      <4>2. stack[n].entered /\ ~InProgram(n)
        BY <3>1, <4>1 DEF StackShape
      <4>3. ~Running.nested
        BY <2>3, <4>2 DEF InProgram
      <4> QED  BY <1>6, <2>0, <3>2, <3>4, <4>3
    <3> QED  BY <2>4, <3>3, <3>4
  <2>7. \A j \in i + 1..n :
           InProgram(i)' /\ InProgram(j)' /\ (\A k \in i + 1..j - 1 : ~InProgram(k)')
           => Gain(i)' = stack'[j].savedRefund
    <3> SUFFICES ASSUME NEW j \in i + 1..n, InProgram(i)', InProgram(j)',
                        \A k \in i + 1..j - 1 : ~InProgram(k)'
                 PROVE  Gain(i)' = stack'[j].savedRefund
      OBVIOUS
    <3>1. j \in 1..n /\ j \in i + 1..Len(stack) /\ i \in 1..n - 1
      BY <1>1
    <3>2. \A k \in i + 1..j - 1 : k \in 1..n
      BY <1>1, <3>1
    <3>3. InProgram(i) /\ InProgram(j) /\ \A k \in i + 1..j - 1 : ~InProgram(k)
      BY <1>4, <3>1, <3>2
    <3>4. Gain(i) = stack[j].savedRefund
      BY <2>0, <3>1, <3>3 DEF GainKept
    <3> QED  BY <1>2, <1>6, <3>1, <3>4 DEF SameFrame
  <2> QED  BY <1>1, <2>1, <2>5, <2>6, <2>7 DEF GainKept
<1>10. stack' # <<>> => Counted(stack'[1].checkpoint) = 0
  BY <1>1, <1>5 DEF GainsKept
<1> QED  BY <1>1, <1>9, <1>10 DEF GainsKept, GainKept

-----------------------------------------------------------------------------
(* Frames: every step preserves the invariant.                             *)

\* No transaction has started.
LEMMA FramesInitInv == FramesInit => FramesInv
<1> SUFFICES ASSUME FramesInit PROVE FramesInv
  OBVIOUS
<1>0. stack = <<>> /\ stack \in Seq(Frame) /\ Len(stack) = 0 /\ DOMAIN stack = {}
  BY DEF FramesInit
<1>1. FramesType
  BY <1>0 DEF FramesInit, FramesType, NoRefunds, Ledger
<1>2. StackShape
  BY <1>0 DEF StackShape
<1>3. PagesInv
  BY <1>0, PagesAssumption DEF PagesInv, OpenCoversActive, SavedCover, ActivePages, FramesInit
<1>4. ReentrancyExact
  <2>1. \A a \in Contracts : CallsOf(a) = {}
    BY <1>0 DEF CallsOf
  <2>2. Cardinality({}) = 0
    BY FS_EmptySet
  <2> QED  BY <2>1, <2>2 DEF ReentrancyExact, CallsOf, FramesInit
<1>5. RefundsInv
  BY <1>0 DEF RefundsInv, RefundsJournaled, GainsKept, FramesInit, NoRefunds
<1> QED  BY <1>1, <1>2, <1>3, <1>4, <1>5 DEF FramesInv

\* The fields of the frame that a call or a creation pushes.
LEMMA NewFrameFields ==
    ASSUME FramesType, NEW scheme \in {"call", "delegate", "create"}, NEW code \in Codes,
           NEW acting \in Codes, NEW nested \in BOOLEAN
    PROVE  LET f == NewFrame(scheme, code, acting, nested)
           IN /\ f \in Frame
              /\ f.scheme = scheme /\ f.code = code /\ f.acting = acting
              /\ f.nested <=> nested
              /\ f.entered <=> code \notin Programs
              /\ f.active = ActivePages
              /\ f.refund = 0 /\ f.savedOpen = 0 /\ f.checkpoint = ledger
<1>1. ActivePages \in Nat /\ ledger \in Ledger
  BY StackFacts, FrameFields DEF ActivePages, FramesType
<1> DEFINE e == code \notin Programs
           f == NewFrame(scheme, code, acting, nested)
<1>2. e \in BOOLEAN
  BY SMTT(30)
<1>3. f = [scheme |-> scheme, code |-> code, acting |-> acting, nested |-> nested,
           entered |-> e, broke |-> FALSE, refund |-> 0,
           savedOpen |-> 0, savedRefund |-> 0, active |-> ActivePages, checkpoint |-> ledger]
  BY Zenon DEF NewFrame
<1> HIDE DEF e
<1>4. f.entered <=> code \notin Programs
  <2>1. f.entered = e
    BY <1>3
  <2>2. e <=> code \notin Programs
    BY DEF e
  <2> QED  BY <1>2, <2>1, <2>2
<1>5. f \in Frame
  BY <1>1, <1>2, <1>3 DEF Frame
<1>6. f.scheme = scheme /\ f.code = code /\ f.acting = acting /\ (f.nested <=> nested)
  BY <1>3
<1>7. f.active = ActivePages /\ f.refund = 0 /\ f.savedOpen = 0 /\ f.checkpoint = ledger
  BY <1>3
<1> QED  BY <1>4, <1>5, <1>6, <1>7

\* StartTransaction pushes the first frame, whose gains count from zero.
LEMMA StartInv ==
    ASSUME FramesInv, NEW a \in Contracts, StartTransaction(a)
    PROVE  FramesInv'
<1> DEFINE inner == FALSE
           g == NewFrame("call", a, a, inner)
           f == [g EXCEPT !.checkpoint = NoRefunds]
<1>1. FramesType /\ a \in Codes /\ stack = <<>>
  BY DEF FramesInv, Codes, StartTransaction
<1>2. /\ f \in Frame
      /\ f.scheme = "call" /\ f.code = a /\ f.acting = a /\ ~f.nested /\ f.active = 0
      /\ f.entered <=> a \notin Programs
      /\ f.refund = 0 /\ f.savedOpen = 0 /\ f.checkpoint = NoRefunds
  <2>0. inner \in BOOLEAN /\ ~inner
    BY SMTT(30)
  <2> HIDE DEF inner
  <2>1. /\ g \in Frame
        /\ g.scheme = "call" /\ g.code = a /\ g.acting = a /\ ~g.nested /\ g.active = 0
        /\ g.entered <=> a \notin Programs
        /\ g.refund = 0 /\ g.savedOpen = 0
    BY <1>1, <2>0, NewFrameFields DEF ActivePages
  <2> HIDE DEF g
  <2>2. /\ f \in Frame /\ f.scheme = g.scheme /\ f.code = g.code /\ f.acting = g.acting
        /\ f.nested = g.nested /\ f.entered = g.entered /\ f.active = g.active
        /\ f.refund = g.refund /\ f.savedOpen = g.savedOpen /\ f.checkpoint = NoRefunds
    BY <2>1, NoRefundsCount DEF Frame
  <2> HIDE DEF f
  <2>3. ~f.nested /\ (f.entered <=> a \notin Programs)
    BY <2>1, <2>2
  <2> QED  BY <2>1, <2>2, <2>3
<1>3. /\ pages' = [open |-> 0, ever |-> 0] /\ refund' = 0 /\ ledger' = NoRefunds /\ failed' = FALSE
      /\ outcome' = 0 /\ stack' = <<f>> /\ spans' = [b \in Contracts |-> IF a = b THEN 1 ELSE 0]
  BY DEF StartTransaction
<1> HIDE DEF f, g, inner
<1>4. /\ stack' \in Seq(Frame) /\ Len(stack') = 1 /\ stack'[1] = f /\ DOMAIN stack' = {1}
      /\ stack' # <<>>
  BY <1>2, <1>3
<1>5. FramesType'
  BY <1>3, <1>4, NoRefundsCount DEF FramesType
<1>6. StackShape'
  BY <1>2, <1>4 DEF StackShape, IsProgram
<1>7. PagesInv'
  <2>1. Running' = f /\ ActivePages' = 0
    BY <1>2, <1>4 DEF Running, ActivePages
  <2>2. OpenCoversActive'
    BY <1>3, <2>1, PagesAssumption DEF OpenCoversActive
  <2>3. \A i \in 1..1 : ActiveBelow(i)' = 0
    BY DEF ActiveBelow
  <2>4. SavedCover'
    BY <1>2, <1>3, <1>4, <2>3 DEF SavedCover, InProgram, IsProgram
  <2> QED  BY <2>2, <2>4 DEF PagesInv
<1>8. ReentrancyExact'
  <2>1. ASSUME NEW b \in Contracts PROVE spans'[b] = Cardinality(CallsOf(b)')
    <3>1. CASE a = b
      <4>1. CallsOf(b)' = {1}
        BY <1>2, <1>4, <3>1 DEF CallsOf, SpanAddress
      <4> QED  BY <1>3, <3>1, <4>1, FS_Singleton
    <3>2. CASE a # b
      <4>1. CallsOf(b)' = {}
        BY <1>2, <1>4, <3>2 DEF CallsOf, SpanAddress
      <4> QED  BY <1>3, <3>2, <4>1, FS_EmptySet
    <3> QED  BY <3>1, <3>2
  <2> QED  BY <2>1 DEF ReentrancyExact, CallsOf
<1>9. RefundsInv'
  <2>1. \A i \in 1..1 : Gain(i)' = 0
    BY <1>2, <1>3, <1>4, NoRefundsCount DEF Gain
  <2>2. GainsKept'
    BY <1>2, <1>3, <1>4, <2>1, NoRefundsCount DEF GainsKept, InProgram, IsProgram
  <2> QED  BY <1>4, <2>2 DEF RefundsInv, RefundsJournaled
<1> QED  BY <1>5, <1>6, <1>7, <1>8, <1>9 DEF FramesInv

\* A step that leaves the frames alone.
LEMMA FramesUnchanged ==
    ASSUME FramesInv, UNCHANGED <<stack, pages, refund, spans, ledger, failed, outcome>>
    PROVE  FramesInv'
<1>1. FramesType' /\ StackShape' /\ ReentrancyExact'
  BY DEF FramesInv, FramesType, StackShape, ReentrancyExact
<1>2. PagesInv'
  BY DEF FramesInv, PagesInv, OpenCoversActive, ActivePages, Running, SavedCover, InProgram, ActiveBelow
<1>3. RefundsInv'
  BY DEF FramesInv, RefundsInv, RefundsJournaled, GainsKept, InProgram, Gain
<1> QED  BY <1>1, <1>2, <1>3 DEF FramesInv

\* Store records the same refund on the journal and in the frame that runs.
LEMMA StoreInv ==
    ASSUME FramesInv, NEW d \in Deltas, Store(d)
    PROVE  FramesInv'
<1>1. /\ FramesType /\ StackShape /\ PagesInv /\ ReentrancyExact /\ RefundsInv
      /\ stack # <<>> /\ Running.entered /\ d \in Int
      /\ UNCHANGED <<pages, spans, failed, outcome>>
      /\ ledger' = [ledger EXCEPT !.due = @ + d] /\ ledger \in Ledger
  BY DeltasAssumption DEF FramesInv, FramesType, Store, Active, Ready, Keep
<1>0. ledger' \in Ledger /\ Counted(ledger') = Counted(ledger) + d
  BY Zenon, <1>1, CountedSteps
<1>2. Running \in Frame
  BY <1>1, StackFacts
<1> DEFINE f == IF IsProgram(Running) THEN Running ELSE [Running EXCEPT !.refund = @ + d]
<1>3. f \in Frame /\ SameFrame(f, Running)
  BY Zenon, <1>1, <1>2, RefundRecorded DEF SameFrame
<1>4. TopIs(f) /\ refund' \in Int
  BY <1>1, <1>2, <1>3, TopSet, TopKept DEF Store, FramesType
<1>5. IF IsProgram(Running) THEN refund' = refund + d /\ f.refund = Running.refund
      ELSE refund' = refund /\ f.refund = Running.refund + d
  BY <1>1, <1>2, RefundRecorded DEF Store
<1> HIDE DEF f
<1>6. FramesType'
  BY <1>0, <1>1, <1>4 DEF FramesType, TopIs
<1>7. StackShape'
  BY Zenon, <1>1, <1>3, <1>4, ShapeTop DEF SameFrame
<1>8. PagesInv'
  BY <1>1, <1>2, <1>3, <1>4, <1>6, PagesKept
<1>9. ReentrancyExact'
  BY <1>1, <1>3, <1>4, <1>6, SpansTop DEF SameFrame
<1>10. ~failed => GainsKept'
  BY Zenon, <1>0, <1>1, <1>3, <1>4, <1>5, GainsStore DEF SameFrame, RefundsInv
<1>11. stack' # <<>>
  BY Zenon, <1>1, <1>4, StackFacts DEF TopIs
<1> QED  BY <1>1, <1>6, <1>7, <1>8, <1>9, <1>10, <1>11 DEF FramesInv, RefundsInv, RefundsJournaled

\* A frame is pushed, by a contract or by a program.
LEMMA PushInv ==
    ASSUME FramesInv, NEW f \in Frame, Push(f), f.nested <=> IsProgram(Running),
           f.entered <=> f.code \notin Programs, f.refund = 0, f.savedOpen = 0,
           f.active = ActivePages, f.checkpoint = ledger
    PROVE  FramesInv'
<1>1. /\ FramesType /\ StackShape /\ PagesInv /\ ReentrancyExact /\ RefundsInv
      /\ stack # <<>> /\ Running.entered /\ spans' = OpenSpan(f)
      /\ UNCHANGED <<pages, refund, ledger, failed, outcome>>
  BY DEF FramesInv, Push, Active, Ready, Keep
<1>2. PushIs(f)
  BY <1>1, Pushed DEF Push
<1>3. FramesType'
  BY <1>1, <1>2 DEF FramesType, PushIs, OpenSpan
<1>4. StackShape'
  BY <1>1, <1>2, ShapePush DEF IsProgram
<1>5. PagesInv'
  BY <1>1, <1>2, <1>3, PagesPush DEF IsProgram
<1>6. ReentrancyExact'
  BY <1>1, <1>2, <1>3, SpansPush
<1>7. ~failed => GainsKept'
  BY <1>1, <1>2, GainsPush DEF RefundsInv, IsProgram
<1>8. stack' # <<>>
  BY <1>1, <1>2, StackFacts DEF PushIs
<1> QED  BY <1>1, <1>3, <1>4, <1>5, <1>6, <1>7, <1>8 DEF FramesInv, RefundsInv, RefundsJournaled

\* EnterCall pushes the frame of a call or of a delegate call.
LEMMA EnterCallInv ==
    ASSUME FramesInv, NEW a \in Contracts, NEW s \in {"call", "delegate"}, EnterCall(s, a)
    PROVE  FramesInv'
<1> DEFINE acting == IF s = "call" THEN a ELSE Running.acting
           inner == IsProgram(Running)
           f == NewFrame(s, a, acting, inner)
<1>1. FramesType /\ stack # <<>>
  BY DEF FramesInv, EnterCall, Push, Active, Ready
<1>2. /\ s \in {"call", "delegate", "create"} /\ a \in Codes /\ acting \in Codes
      /\ inner \in BOOLEAN /\ (inner <=> IsProgram(Running))
  BY <1>1, StackFacts, FrameFields DEF Codes, IsProgram
<1>3. Push(f)
  BY DEF EnterCall
<1> HIDE DEF inner, acting
<1>4. /\ f \in Frame /\ f.code = a /\ (f.nested <=> inner) /\ (f.entered <=> a \notin Programs)
      /\ f.refund = 0 /\ f.savedOpen = 0 /\ f.active = ActivePages /\ f.checkpoint = ledger
  BY <1>1, <1>2, NewFrameFields
<1> HIDE DEF f
<1> QED  BY <1>2, <1>3, <1>4, PushInv

\* EnterCreate pushes the frame of a creation.
LEMMA EnterCreateInv ==
    ASSUME FramesInv, EnterCreate
    PROVE  FramesInv'
<1> DEFINE inner == IsProgram(Running)
           f == NewFrame("create", "created", "created", inner)
<1>1. FramesType
  BY DEF FramesInv
<1>2. "created" \in Codes /\ inner \in BOOLEAN /\ (inner <=> IsProgram(Running))
  BY DEF Codes, IsProgram
<1>3. Push(f)
  BY DEF EnterCreate
<1> HIDE DEF inner
<1>4. /\ f \in Frame /\ f.code = "created" /\ (f.nested <=> inner)
      /\ (f.entered <=> "created" \notin Programs)
      /\ f.refund = 0 /\ f.savedOpen = 0 /\ f.active = ActivePages /\ f.checkpoint = ledger
  BY <1>1, <1>2, NewFrameFields
<1> HIDE DEF f
<1> QED  BY <1>2, <1>3, <1>4, PushInv

\* AnswerWithoutFrame opens and closes a span within one step.
LEMMA AnswerInv ==
    ASSUME FramesInv, AnswerWithoutFrame
    PROVE  FramesInv'
<1>1. spans \in [Contracts -> Nat]
  BY DEF FramesInv, FramesType
<1>2. CloseSpan(Running, FALSE) = spans
  BY <1>1 DEF CloseSpan
<1>3. UNCHANGED <<stack, pages, refund, spans, ledger, failed, outcome>>
  BY Zenon, <1>2 DEF AnswerWithoutFrame, Keep
<1> QED  BY <1>3, FramesUnchanged

\* The pages after a growth cover what is active then, and what was active before.
LEMMA GrownFacts ==
    ASSUME FramesType, NEW new \in Nat, NEW active \in Nat, pages.open >= CapU16(active)
    PROVE  /\ Grown(new) \in [open : Nat, ever : Nat]
           /\ Grown(new).open >= CapU16(active + new) /\ Grown(new).open >= CapU16(active)
           /\ Grown(new).ever >= Grown(new).open /\ Grown(new).ever >= pages.ever
<1>1. pages.open \in Nat /\ pages.ever \in Nat /\ MaxU16 \in Nat
  BY PagesAssumption DEF FramesType
<1> DEFINE open == AddSat16(pages.open, new)
<1>2. open \in Nat /\ open >= CapU16(active + new) /\ open >= CapU16(active)
  BY <1>1 DEF AddSat16, CapU16
<1>3. Grown(new) = [open |-> open, ever |-> MaxOf(pages.ever, open)]
  BY DEF Grown
<1> HIDE DEF open
<1>4. MaxOf(pages.ever, open) \in Nat /\ MaxOf(pages.ever, open) >= open /\ MaxOf(pages.ever, open) >= pages.ever
  BY <1>1, <1>2 DEF MaxOf
<1> QED  BY <1>2, <1>3, <1>4

\* The running frame, and what is known of its pages.
LEMMA RunningPages ==
    ASSUME FramesType, PagesInv, stack # <<>>
    PROVE  /\ Running \in Frame /\ Running.active \in Nat /\ Running.savedOpen \in Nat
           /\ Running = stack[Len(stack)] /\ Len(stack) \in 1..Len(stack)
           /\ pages.open \in Nat /\ pages.ever \in Nat
           /\ pages.open >= CapU16(Running.active) /\ pages.ever >= pages.open
           /\ Running.savedOpen <= pages.ever
           /\ IF InProgram(Len(stack)) THEN Running.savedOpen >= CapU16(ActiveBelow(Len(stack)))
              ELSE Running.active = ActiveBelow(Len(stack))
<1>1. Running \in Frame /\ Running = stack[Len(stack)] /\ Len(stack) \in 1..Len(stack)
  BY StackFacts DEF Running
<1>2. pages.open >= CapU16(Running.active) /\ pages.ever >= pages.open
  BY DEF PagesInv, OpenCoversActive, ActivePages, CapU16
<1>3. pages.open \in Nat /\ pages.ever \in Nat
  BY DEF FramesType
<1> QED  BY <1>1, <1>2, <1>3, FrameFields DEF PagesInv, SavedCover

EnteredFrame(r, o, q, p) ==
    [r EXCEPT !.entered = TRUE, !.savedOpen = o, !.savedRefund = q, !.active = @ + p]

\* The fields of the frame of a program that starts.
LEMMA FrameEntered ==
    ASSUME NEW r \in Frame, NEW o \in Nat, NEW q \in Int, NEW p \in Nat, NEW f,
           f = EnteredFrame(r, o, q, p)
    PROVE  /\ f \in Frame /\ f.entered /\ f.savedOpen = o /\ f.savedRefund = q
           /\ f.active = r.active + p /\ f.code = r.code /\ f.nested = r.nested
           /\ f.scheme = r.scheme /\ f.acting = r.acting /\ f.checkpoint = r.checkpoint
<1> DEFINE r1 == [r EXCEPT !.entered = TRUE]
           r2 == [r1 EXCEPT !.savedOpen = o]
           r3 == [r2 EXCEPT !.savedRefund = q]
           r4 == [r3 EXCEPT !.active = r.active + p]
<1>1. r1 \in Frame /\ r1.entered
  BY Zenon DEF Frame
<1>2. r2 \in Frame /\ r3 \in Frame
  <2> HIDE DEF r1
  <2>1. r2 \in Frame
    BY <1>1 DEF Frame
  <2> HIDE DEF r2
  <2> QED  BY <2>1 DEF Frame
<1>3. r.active + p \in Nat
  BY FrameFields
<1>4. r4 \in Frame
  <2> HIDE DEF r3
  <2> QED  BY <1>2, <1>3 DEF Frame
<1>5. f = r4
  BY DEF EnteredFrame
<1>6. r4.entered
  BY DEF Frame
<1>7. r4.savedOpen = o /\ r4.savedRefund = q /\ r4.active = r.active + p
  BY DEF Frame
<1>8. r4.code = r.code /\ r4.nested = r.nested /\ r4.scheme = r.scheme
  BY DEF Frame
<1>9. r4.acting = r.acting /\ r4.checkpoint = r.checkpoint
  BY DEF Frame
<1> HIDE DEF r4
<1> QED  BY <1>4, <1>5, <1>6, <1>7, <1>8, <1>9

GrownFrame(r, p, b) == [r EXCEPT !.active = @ + p, !.broke = b]

\* Frame f is frame r with p more pages.
MorePagesOnly(f, r, p) ==
    /\ f \in Frame /\ f.entered = r.entered /\ f.savedOpen = r.savedOpen
    /\ f.savedRefund = r.savedRefund /\ f.refund = r.refund
    /\ f.active = r.active + p /\ f.code = r.code /\ f.nested = r.nested
    /\ f.scheme = r.scheme /\ f.acting = r.acting /\ f.checkpoint = r.checkpoint

\* A frame that takes more pages changes in nothing else.
LEMMA FrameGrown ==
    ASSUME NEW r \in Frame, NEW p \in Nat, NEW b \in BOOLEAN
    PROVE  MorePagesOnly(GrownFrame(r, p, b), r, p)
<1> DEFINE r1 == [r EXCEPT !.active = r.active + p]
           r2 == [r1 EXCEPT !.broke = b]
<1>1. r1 \in Frame
  BY FrameFields DEF Frame
<1>2. r2 \in Frame
  <2> HIDE DEF r1
  <2> QED  BY <1>1 DEF Frame
<1>3. GrownFrame(r, p, b) = r2
  BY DEF GrownFrame
<1>4. r2.entered = r.entered /\ r2.savedOpen = r.savedOpen /\ r2.savedRefund = r.savedRefund
  BY DEF Frame
<1>5. r2.refund = r.refund /\ r2.active = r.active + p
  BY DEF Frame
<1>6. r2.code = r.code /\ r2.nested = r.nested /\ r2.scheme = r.scheme
  BY DEF Frame
<1>7. r2.acting = r.acting /\ r2.checkpoint = r.checkpoint
  BY DEF Frame
<1> HIDE DEF r2
<1> QED  BY <1>2, <1>3, <1>4, <1>5, <1>6, <1>7 DEF MorePagesOnly

\* EnterProgram puts the open pages and the accumulator aside.
LEMMA EnterProgramInv ==
    ASSUME FramesInv, EnterProgram
    PROVE  FramesInv'
<1> DEFINE f == EnteredFrame(Running, pages.open, refund, Footprint)
<1>1. /\ FramesType /\ StackShape /\ PagesInv /\ ReentrancyExact /\ RefundsInv
      /\ stack # <<>> /\ ~Running.entered /\ refund' = 0 /\ refund \in Int
      /\ UNCHANGED <<spans, ledger, failed, outcome>>
      /\ pages' = Grown(Footprint) /\ stack' = SetRunning(f) /\ Footprint \in Nat
  BY PagesAssumption DEF FramesInv, EnterProgram, Ready, Keep, RefundAtEntry, FramesType, EnteredFrame
<1>2. /\ Running \in Frame /\ Running.active \in Nat
      /\ Running = stack[Len(stack)] /\ Len(stack) \in 1..Len(stack)
      /\ pages.open \in Nat /\ pages.ever \in Nat
      /\ pages.open >= CapU16(Running.active) /\ pages.ever >= pages.open
  BY <1>1, RunningPages
<1>3. Running.active = ActiveBelow(Len(stack)) /\ IsProgram(Running)
  BY <1>1, <1>2, RunningPages DEF InProgram, StackShape
<1>4. /\ f \in Frame /\ f.entered /\ f.savedOpen = pages.open /\ f.savedRefund = refund
      /\ f.active = Running.active + Footprint /\ f.code = Running.code /\ f.nested = Running.nested
      /\ f.scheme = Running.scheme /\ f.acting = Running.acting /\ f.checkpoint = Running.checkpoint
  BY <1>1, <1>2, FrameEntered
<1> HIDE DEF f
<1>5. TopIs(f)
  BY <1>1, <1>4, TopSet
<1>6. /\ pages' \in [open : Nat, ever : Nat] /\ pages'.open >= CapU16(f.active)
      /\ pages'.ever >= pages'.open /\ pages'.ever >= pages.ever
  BY Zenon, <1>1, <1>2, <1>4, GrownFacts
<1>7. FramesType'
  BY <1>1, <1>5, <1>6 DEF FramesType, TopIs
<1>8. StackShape'
  BY <1>1, <1>4, <1>5, ShapeTop
<1>9. PagesInv'
  <2>1. f.active >= Running.active /\ f.savedOpen <= pages'.ever
    BY <1>1, <1>2, <1>4, <1>6, <1>7 DEF FramesType
  <2>2. IsProgram(f) /\ f.savedOpen >= CapU16(ActiveBelow(Len(stack)))
    BY <1>2, <1>3, <1>4 DEF IsProgram
  <2> QED  BY <1>1, <1>4, <1>5, <1>6, <1>7, <2>1, <2>2, PagesTop
<1>10. ReentrancyExact'
  BY <1>1, <1>4, <1>5, <1>7, SpansTop
<1>11. ~failed => GainsKept'
  BY <1>1, <1>4, <1>5, GainsEnter DEF RefundsInv
<1>12. stack' # <<>>
  BY <1>1, <1>5, StackFacts DEF TopIs
<1> QED  BY <1>1, <1>7, <1>8, <1>9, <1>10, <1>11, <1>12 DEF FramesInv, RefundsInv, RefundsJournaled

\* AddPages opens and activates the same pages.
LEMMA AddPagesInv ==
    ASSUME FramesInv, NEW new \in MorePages, AddPages(new)
    PROVE  FramesInv'
<1>0. PICK b \in BOOLEAN : b = Priceless(new)
  BY Zenon DEF Priceless
<1> DEFINE f == GrownFrame(Running, new, b)
<1>1. /\ FramesType /\ StackShape /\ PagesInv /\ ReentrancyExact /\ RefundsInv
      /\ stack # <<>> /\ Running.entered /\ IsProgram(Running)
      /\ UNCHANGED <<refund, spans, ledger, failed, outcome>> /\ refund \in Int /\ ledger \in Ledger
      /\ pages' = Grown(new) /\ stack' = SetRunning(f) /\ new \in Nat
  BY <1>0, PagesAssumption DEF FramesInv, AddPages, Active, Ready, Keep, FramesType, GrownFrame
<1>3. /\ Running \in Frame /\ Running.active \in Nat
      /\ Running = stack[Len(stack)] /\ Len(stack) \in 1..Len(stack)
      /\ pages.open \in Nat /\ pages.ever \in Nat /\ Running.savedOpen \in Nat
      /\ pages.open >= CapU16(Running.active) /\ Running.savedOpen <= pages.ever
      /\ Running.savedOpen >= CapU16(ActiveBelow(Len(stack)))
  BY <1>1, RunningPages DEF InProgram
<1>4. /\ f \in Frame /\ f.entered = Running.entered /\ f.savedOpen = Running.savedOpen
      /\ f.savedRefund = Running.savedRefund /\ f.refund = Running.refund
      /\ f.active = Running.active + new /\ f.code = Running.code /\ f.nested = Running.nested
      /\ f.scheme = Running.scheme /\ f.acting = Running.acting /\ f.checkpoint = Running.checkpoint
  <2>1. MorePagesOnly(f, Running, new)
    BY <1>1, <1>3, FrameGrown
  <2> HIDE DEF f
  <2> QED  BY <2>1 DEF MorePagesOnly
<1> HIDE DEF f
<1>5. TopIs(f)
  BY <1>1, <1>4, TopSet
<1>6. /\ pages' \in [open : Nat, ever : Nat] /\ pages'.open >= CapU16(f.active)
      /\ pages'.ever >= pages'.open /\ pages'.ever >= pages.ever
  BY Zenon, <1>1, <1>3, <1>4, GrownFacts
<1>7. FramesType'
  BY <1>1, <1>5, <1>6 DEF FramesType, TopIs
<1>8. StackShape'
  BY Zenon, <1>1, <1>4, <1>5, ShapeTop
<1>9. PagesInv'
  <2>1. f.active >= Running.active /\ f.savedOpen <= pages'.ever
    BY <1>1, <1>3, <1>4, <1>6, <1>7 DEF FramesType
  <2>2. IsProgram(f) /\ f.entered /\ f.savedOpen >= CapU16(ActiveBelow(Len(stack)))
    BY <1>1, <1>3, <1>4 DEF IsProgram
  <2> QED  BY <1>1, <1>4, <1>5, <1>6, <1>7, <2>1, <2>2, PagesTop
<1>10. ReentrancyExact'
  BY <1>1, <1>4, <1>5, <1>7, SpansTop
<1>11. ~failed => GainsKept'
  <2> DEFINE none == 0
  <2>1. none \in Int /\ Counted(ledger') = Counted(ledger) + none /\ refund' = refund + none
    BY <1>1, CountedInt
  <2> HIDE DEF none
  <2> QED  BY Zenon, <1>1, <1>4, <1>5, <2>1, GainsStore DEF RefundsInv
<1>12. stack' # <<>>
  BY <1>1, <1>5, StackFacts DEF TopIs
<1> QED  BY <1>1, <1>7, <1>8, <1>9, <1>10, <1>11, <1>12 DEF FramesInv, RefundsInv, RefundsJournaled

\* The end of a frame, whatever its kind.
LEMMA PopInv ==
    ASSUME FramesInv, stack # <<>>, NEW result, NEW gained \in Int, NEW acc \in Int,
           Pop(result, gained, acc), UNCHANGED failed,
           pages' \in [open : Nat, ever : Nat],
           pages'.open >= CapU16(ActiveBelow(Len(stack))),
           pages'.ever >= pages'.open, pages'.ever >= pages.ever,
           acc = IF InProgram(Len(stack)) THEN Running.savedRefund ELSE refund,
           result = "ok" /\ ~failed => Gain(Len(stack)) = gained
    PROVE  FramesInv'
<1> DEFINE n == Len(stack)
           d == IF Carries(result) THEN gained ELSE 0
<1>1. /\ FramesType /\ StackShape /\ PagesInv /\ ReentrancyExact /\ RefundsInv
      /\ spans' = CloseSpan(Running, TRUE) /\ d \in Int /\ n \in Nat \ {0}
      /\ ledger' = IF result = "ok" THEN ledger ELSE [Running.checkpoint EXCEPT !.excess = @ + d]
      /\ ledger \in Ledger
  BY StackFacts DEF FramesInv, FramesType, Pop
<1>2. PopIs(d)
  BY <1>1, Popped
<1>3. Running \in Frame /\ Running.checkpoint \in Ledger /\ Running = stack[n]
      /\ Counted(Running.checkpoint) \in Int /\ Counted(ledger) \in Int
  BY <1>1, StackFacts, FrameFields, CountedInt DEF Running
<1>0. /\ result = "ok" => d = gained /\ ledger' = ledger
      /\ result # "ok" => Counted(ledger') = Counted(Running.checkpoint) + d
      /\ ledger' \in Ledger
  <2>1. result = "ok" => d = gained
    BY DEF Carries
  <2> HIDE DEF d
  <2> QED  BY Zenon, <1>1, <1>3, <2>1, CountedSteps
<1>4. (Callers = <<>>) <=> n = 1
  BY <1>1, CallersFacts
<1>5. /\ n = 1 => outcome' = d /\ refund' = acc
      /\ n # 1 => outcome' = outcome /\ refund' = IF Running.nested THEN acc + d ELSE acc
  BY <1>4 DEF Pop
<1>6. FramesType'
  BY <1>0, <1>1, <1>2, <1>3, <1>5 DEF FramesType, PopIs, CloseSpan
<1>7. StackShape'
  BY <1>1, <1>2, ShapePop
<1>8. PagesInv'
  <2>1. n - 1 \in 0..Len(stack) /\ ShortenedTo(n - 1)
    BY <1>1, <1>2 DEF ShortenedTo, PopIs
  <2>2. n - 1 # 0 => ActiveBelow(n) = stack[n - 1].active
    BY <1>1 DEF ActiveBelow
  <2> QED  BY Zenon, <1>1, <1>6, <2>1, <2>2, PagesShortened
<1>9. ReentrancyExact'
  BY <1>1, <1>2, <1>6, SpansPop
<1>10. RefundsInv'
  <2> SUFFICES ASSUME ~failed PROVE RefundsJournaled' /\ GainsKept'
    BY DEF RefundsInv
  <2>1. GainsKept /\ Gain(n) = Counted(ledger) - Counted(Running.checkpoint)
    BY <1>1, <1>3 DEF RefundsInv, Gain, FramesType
  <2>2. Counted(ledger') = Counted(Running.checkpoint) + d
    <3> HIDE DEF d
    <3> QED  BY <1>0, <1>3, <2>1
  <2>3. GainsKept'
    <3> HIDE DEF d
    <3>1. Len(stack) # 1 => refund' = IF Running.nested THEN acc + d ELSE acc
      BY <1>5
    <3> QED  BY <1>1, <1>2, <2>1, <2>2, <3>1, GainsPop
  <2>4. RefundsJournaled'
    <3>1. stack' = <<>> => n = 1
      BY <1>1, <1>2 DEF PopIs
    <3>2. n = 1 => Counted(Running.checkpoint) = 0
      BY <1>3, <2>1 DEF GainsKept
    <3> HIDE DEF d
    <3> QED  BY <1>1, <1>5, <2>2, <3>1, <3>2 DEF RefundsJournaled, Counted
  <2> QED  BY <2>3, <2>4
<1> QED  BY <1>6, <1>7, <1>8, <1>9, <1>10 DEF FramesInv

\* ReturnFromEvm hands the refund of the frame to its caller.
LEMMA ReturnFromEvmInv ==
    ASSUME FramesInv, NEW result \in Results, ReturnFromEvm(result)
    PROVE  FramesInv'
<1>1. /\ FramesType /\ PagesInv /\ RefundsInv /\ stack # <<>> /\ refund \in Int
      /\ UNCHANGED <<pages, failed>> /\ ~InProgram(Len(stack)) /\ ~IsProgram(Running)
      /\ Pop(result, Running.refund, refund) /\ pages \in [open : Nat, ever : Nat]
  BY DEF FramesInv, ReturnFromEvm, FramesType, InProgram, Running
<1>2. Running.refund \in Int
  BY <1>1, RunningPages, FrameFields
<1>3. pages'.open >= CapU16(ActiveBelow(Len(stack))) /\ pages'.ever >= pages'.open /\ pages'.ever >= pages.ever
  BY <1>1, RunningPages
<1>4. ~failed => Gain(Len(stack)) = Running.refund
  BY <1>1, RunningPages DEF RefundsInv, GainsKept
<1> QED  BY <1>1, <1>2, <1>3, <1>4, PopInv

\* ReturnFromProgram restores the open pages and the accumulator of the program below.
LEMMA ReturnFromProgramInv ==
    ASSUME FramesInv, NEW result \in Results, ReturnFromProgram(result)
    PROVE  FramesInv'
<1> DEFINE gained == FoldRefund(result)
<1>1. /\ FramesType /\ PagesInv /\ RefundsInv /\ stack # <<>> /\ refund \in Int
      /\ UNCHANGED failed /\ InProgram(Len(stack)) /\ pages \in [open : Nat, ever : Nat]
      /\ Pop(result, gained, Running.savedRefund)
      /\ pages' = [pages EXCEPT !.open = Running.savedOpen]
  BY DEF FramesInv, ReturnFromProgram, FramesType, InProgram, Running, RestoreOpen
<1>2. Running.savedRefund \in Int /\ gained \in Int
  BY <1>1, RunningPages, FrameFields DEF FoldRefund
<1>3. /\ pages' \in [open : Nat, ever : Nat]
      /\ pages'.open >= CapU16(ActiveBelow(Len(stack))) /\ pages'.ever >= pages'.open
      /\ pages'.ever >= pages.ever
  BY <1>1, RunningPages
<1>4. result = "ok" /\ ~failed => Gain(Len(stack)) = gained
  BY <1>1, RunningPages DEF RefundsInv, GainsKept, FoldRefund
<1> HIDE DEF gained
<1> QED  BY <1>1, <1>2, <1>3, <1>4, PopInv

\* A program that was not entered ends: its pages may have been counted.
LEMMA NotEnteredInv ==
    ASSUME FramesInv, stack # <<>>, ~Running.entered, UNCHANGED failed,
           NEW result \in Results, result # "ok", Pop(result, 0, refund),
           pages' = pages \/ pages' = Grown(Footprint)
    PROVE  FramesInv'
<1>1. /\ FramesType /\ PagesInv /\ refund \in Int /\ ~InProgram(Len(stack))
      /\ pages \in [open : Nat, ever : Nat] /\ Footprint \in Nat
  BY PagesAssumption DEF FramesInv, FramesType, InProgram, Running
<1>2. /\ pages' \in [open : Nat, ever : Nat]
      /\ pages'.open >= CapU16(ActiveBelow(Len(stack))) /\ pages'.ever >= pages'.open
      /\ pages'.ever >= pages.ever
  <2>1. CASE pages' = pages
    BY <1>1, <2>1, RunningPages
  <2>2. CASE pages' = Grown(Footprint)
    <3>1. /\ Running.active \in Nat /\ pages.open >= CapU16(Running.active)
          /\ Running.active = ActiveBelow(Len(stack))
      BY <1>1, RunningPages
    <3> QED  BY Zenon, <1>1, <2>2, <3>1, GrownFacts
  <2> QED  BY <2>1, <2>2
<1>3. PICK gained \in Int : Pop(result, gained, refund)
  <2>1. \E gained \in Int : Pop(result, gained, refund)
    <3> WITNESS 0 \in Int
    <3> QED  BY Zenon
  <2> QED  BY <2>1
<1> QED  BY <1>1, <1>2, <1>3, PopInv

\* Every nonempty set of natural numbers has a least element.
LEMMA Least ==
    ASSUME NEW S \in SUBSET Nat, S # {}
    PROVE  \E n \in S : \A m \in S : n <= m
<1> DEFINE R == OpToRel(<, Nat)
<1>1. IsWellFoundedOn(R, Nat)
  BY Zenon, NatLessThanWellFounded
<1> HIDE DEF R
<1>2. \E x \in S : \A y \in S : ~(<<y, x>> \in R)
  BY Zenon, <1>1, WFMin
<1>3. PICK x \in S : \A y \in S : ~(<<y, x>> \in R)
  BY <1>2
<1>4. \A y \in S : ~(y < x)
  BY Zenon, <1>3 DEF R, OpToRel
<1> QED  BY <1>4

\* The loop of the running frame starts above its last nested frame, or at the bottom.
LEMMA BelowLoopExists ==
    ASSUME FramesType, stack # <<>>
    PROVE  BelowLoop \in 0..Len(stack) - 1
<1> DEFINE n == Len(stack)
           S == {k \in Nat : k <= n - 1 /\ (k = n - 1 \/ stack[n - k].nested)}
<1>1. n \in Nat \ {0}
  BY StackFacts
<1>2. n - 1 \in S /\ S \in SUBSET Nat
  BY <1>1
<1>3. PICK k \in S : \A m \in S : k <= m
  <2> HIDE DEF S
  <2> QED  BY <1>2, Least
<1> DEFINE b == n - 1 - k
<1>4. b \in 0..n - 1 /\ (b = 0 \/ stack[b + 1].nested)
  BY <1>1, <1>3
<1>5. ASSUME NEW i \in b + 2..n PROVE ~stack[i].nested
  <2>1. n - i \in Nat /\ n - i < k /\ n - (n - i) = i /\ n - i <= n - 1
    BY <1>1, <1>3, <1>4
  <2> DEFINE m == n - i
  <2>2. m \notin S
    <3> HIDE DEF S, m
    <3> QED  BY <1>3, <1>2, <2>1 DEF m
  <2>3. stack[n - m] = stack[i]
    BY <2>1
  <2> QED  BY <2>1, <2>2, <2>3
<1> HIDE DEF n, b
<1> QED  BY Zenon, <1>4, <1>5 DEF BelowLoop, n

\* DatabaseError abandons the nested loops, and the refunds with them.
LEMMA DatabaseErrorInv ==
    ASSUME FramesInv, DatabaseError
    PROVE  FramesInv'
<1> DEFINE n == BelowLoop
<1>1. /\ FramesType /\ StackShape /\ PagesInv /\ stack # <<>>
      /\ failed' = TRUE /\ UNCHANGED <<pages, refund, spans, ledger, outcome>>
      /\ stack' = SubSeq(stack, 1, n)
  BY DEF FramesInv, DatabaseError, Active, Ready, Keep
<1>2. n \in 0..Len(stack) /\ n \in 0..Len(stack) - 1 /\ Len(stack) \in Nat
  BY <1>1, BelowLoopExists, StackFacts
<1> HIDE DEF n
<1>3. CutIs(n)
  BY <1>1, <1>2, CutTo
<1>4. FramesType'
  BY <1>1, <1>3 DEF FramesType, CutIs
<1>5. StackShape'
  BY <1>1, <1>2, <1>3, ShapeCut
<1>6. n # 0 => pages.open >= CapU16(stack[n].active)
  <2> SUFFICES ASSUME n # 0 PROVE pages.open >= CapU16(stack[n].active)
    OBVIOUS
  <2>1. n \in 1..Len(stack) /\ stack[n] \in Frame
    BY <1>1, <1>2, StackFacts
  <2>2. stack[n].active <= Running.active /\ stack[n].active \in Nat
    BY <1>1, <1>2, <2>1, RunningPages, FrameFields DEF PagesInv, SavedCover
  <2> QED  BY <1>1, <2>2, RunningPages, PagesAssumption DEF CapU16
<1>7. ShortenedTo(n)
  BY <1>2, <1>3 DEF ShortenedTo, CutIs, SameFrame
<1>8. PagesInv'
  BY <1>1, <1>2, <1>4, <1>6, <1>7, RunningPages, PagesShortened
<1> QED  BY <1>1, <1>4, <1>5, <1>8 DEF FramesInv, ReentrancyExact, RefundsInv

\* Every step keeps the invariant.
LEMMA FramesNextInv ==
    ASSUME FramesInv, [FramesNext]_framesVars
    PROVE  FramesInv'
<1>1. ASSUME NEW a \in Contracts, StartTransaction(a) PROVE FramesInv'
  BY <1>1, StartInv
<1>2. ASSUME NEW d \in Deltas, Store(d) PROVE FramesInv'
  BY <1>2, StoreInv
<1>3. ASSUME NEW a \in Contracts, NEW s \in {"call", "delegate"}, EnterCall(s, a) PROVE FramesInv'
  BY <1>3, EnterCallInv
<1>4. CASE EnterCreate \/ AnswerWithoutFrame \/ EnterProgram
  BY <1>4, EnterCreateInv, AnswerInv, EnterProgramInv
<1>5. ASSUME NEW n \in MorePages, AddPages(n) PROVE FramesInv'
  BY <1>5, AddPagesInv
<1>6. ASSUME NEW result \in Results, ReturnFromEvm(result) \/ ReturnFromProgram(result) PROVE FramesInv'
  BY <1>6, ReturnFromEvmInv, ReturnFromProgramInv
<1>7. ASSUME NEW result \in Results, RejectProgram(result) \/ EntryOutOfGas PROVE FramesInv'
  <2>1. CASE RejectProgram(result)
    BY Zenon, <2>1, NotEnteredInv DEF RejectProgram
  <2>2. CASE EntryOutOfGas
    <3> DEFINE h == "halt"
    <3>1. h \in Results /\ h # "ok" /\ Pop(h, 0, refund)
      BY <2>2 DEF Results, EntryOutOfGas
    <3> HIDE DEF h
    <3> QED  BY Zenon, <2>2, <3>1, NotEnteredInv DEF EntryOutOfGas
  <2> QED  BY <1>7, <2>1, <2>2
<1>8. CASE DatabaseError
  BY <1>8, DatabaseErrorInv
<1>9. CASE UNCHANGED framesVars
  BY <1>9, FramesUnchanged DEF framesVars
<1>11. CASE EntryOutOfGas
  BY Zenon, <1>7, <1>11 DEF Results
<1>10. CASE FramesNext
  BY <1>10, <1>11, <1>1, <1>2, <1>3, <1>4, <1>5, <1>6, <1>7, <1>8, Zenon DEF FramesNext
<1> QED  BY <1>9, <1>10

\* Whatever programs return, fail, run out of gas inside others or are dropped by a
\* database error, the open pages of ArbChainContext cover the pages in use, saturated
\* at u16, and the high mark covers the open pages.
THEOREM PagesStayCovered == FramesSpec => []OpenCoversActive
<1>1. FramesInv => OpenCoversActive
  BY DEF FramesInv, PagesInv
<1> QED  BY FramesInitInv, FramesNextInv, <1>1, PTL DEF FramesSpec

\* stylus_program_spans counts, for every address, exactly its open call frames over all
\* nested loops, until a database error drops frames without closing their spans.
THEOREM ReentrancyStaysExact == FramesSpec => []ReentrancyExact
<1>1. FramesInv => ReentrancyExact
  BY DEF FramesInv
<1> QED  BY FramesInitInv, FramesNextInv, <1>1, PTL DEF FramesSpec

\* The refund a transaction ends with is the one a journaled counter holds, through any
\* nesting of programs and contracts, and beyond it exactly the excess: the gains of
\* creates by programs that halted inside frames that all succeeded.  The accumulator
\* that is set aside at the entry of a program comes back with the refunds of its
\* successful calls and creates and with those of the halted creates, and no others.
THEOREM RefundsStayJournaled == FramesSpec => []RefundsJournaled
<1>1. FramesInv => RefundsJournaled
  BY DEF FramesInv, RefundsInv, RefundsJournaled
<1> QED  BY FramesInitInv, FramesNextInv, <1>1, PTL DEF FramesSpec

-----------------------------------------------------------------------------
(* Address sets.                                                           *)

\* While the list was never cleared, the positions point back into it.
Complete ==
    /\ \A a \in Addresses : IsMember(owners, a) <=> a \in members
    /\ \A a \in Addresses : IsMember(owners, a) =>
          owners.position[a] <= Size(owners) /\ owners.slot[owners.position[a]] = a
    /\ Size(owners) = Cardinality(members)

SetInv ==
    /\ owners \in AddressSetType
    /\ Size(owners) \in 0..MaxSize
    /\ members \subseteq Addresses /\ IsFiniteSet(members)
    /\ cleared \in BOOLEAN
    /\ ListedKnowPlace
    /\ MembershipExact
    /\ ~cleared => Complete

-----------------------------------------------------------------------------
\* The cells of an address set.
LEMMA Slots ==
    ASSUME NEW s \in AddressSetType
    PROVE  /\ s.slot \in [0..MaxSize -> Nat] /\ s.position \in [Addresses -> 0..MaxSize]
           /\ s = [slot |-> s.slot, position |-> s.position]
  BY DEF AddressSetType

\* An address set of given cells.
LEMMA SlotsIntro ==
    ASSUME NEW f \in [0..MaxSize -> Nat], NEW g \in [Addresses -> 0..MaxSize]
    PROVE  /\ [slot |-> f, position |-> g] \in AddressSetType
           /\ [slot |-> f, position |-> g].slot = f
           /\ [slot |-> f, position |-> g].position = g
  BY Zenon DEF AddressSetType

\* What remove does to each cell, for a member.
LEMMA RemoveCells ==
    ASSUME NEW s \in AddressSetType, Size(s) \in 0..MaxSize,
           NEW a \in Addresses, IsMember(s, a), s.slot[Size(s)] \in Addresses
    PROVE  LET p == s.position[a]
               n == Size(s)
               t == Remove(s, a)
           IN /\ t \in AddressSetType
              /\ Size(t) = IF n = 0 THEN 0 ELSE n - 1
              /\ \A i \in 1..MaxSize :
                    t.slot[i] = IF i = n THEN 0 ELSE IF i = p THEN s.slot[n] ELSE s.slot[i]
              /\ \A b \in Addresses :
                    t.position[b] = IF b = a THEN 0
                                    ELSE IF p # n /\ b = s.slot[n] THEN p ELSE s.position[b]
<1> DEFINE p == s.position[a]
           n == Size(s)
           last == s.slot[n]
           t == Remove(s, a)
<1>1. p \in 1..MaxSize /\ n \in 0..MaxSize /\ last \in Nat /\ MaxSize \in Nat
  BY AddressesAssumption, MaxSizeAssumption DEF AddressSetType, IsMember
<1>2. CASE p = n
  <2>1. t = [slot |-> [[s.slot EXCEPT ![n] = 0] EXCEPT ![0] = n - 1],
             position |-> [s.position EXCEPT ![a] = 0]]
    BY <1>1, <1>2 DEF Remove
  <2> DEFINE f == [[s.slot EXCEPT ![n] = 0] EXCEPT ![0] = n - 1]
             g == [s.position EXCEPT ![a] = 0]
  <2>2. /\ f \in [0..MaxSize -> Nat] /\ f[0] = n - 1
        /\ \A i \in 1..MaxSize : f[i] = IF i = n THEN 0 ELSE s.slot[i]
    <3>1. s.slot \in [0..MaxSize -> Nat] /\ n \in 1..MaxSize /\ MaxSize \in Nat
      BY Zenon, <1>1, <1>2, Slots
    <3> HIDE DEF n
    <3>2. f[0] = n - 1 /\ f \in [0..MaxSize -> Nat]
      BY <3>1
    <3>3. ASSUME NEW i \in 1..MaxSize PROVE f[i] = IF i = n THEN 0 ELSE s.slot[i]
      <4>1. i # 0 /\ i \in 0..MaxSize /\ n \in 0..MaxSize
        BY <3>1
      <4> QED  BY <3>1, <4>1
    <3> QED  BY Zenon, <3>2, <3>3
  <2>3. /\ g \in [Addresses -> 0..MaxSize]
        /\ \A b \in Addresses : g[b] = IF b = a THEN 0 ELSE s.position[b]
    BY <1>1, Slots
  <2>4. t \in AddressSetType /\ t.slot = f /\ t.position = g
    <3> HIDE DEF f, g, t
    <3>1. t = [slot |-> f, position |-> g]
      BY <2>1 DEF f, g
    <3> QED  BY <2>2, <2>3, <3>1, SlotsIntro
  <2> HIDE DEF f, g, t
  <2> QED  BY <1>1, <1>2, <2>2, <2>3, <2>4 DEF Size, t
<1>3. CASE p # n
  <2>1. t = [slot |-> [[[s.slot EXCEPT ![p] = last] EXCEPT ![n] = 0]
                          EXCEPT ![0] = IF n = 0 THEN 0 ELSE n - 1],
             position |-> [[s.position EXCEPT ![last] = p] EXCEPT ![a] = 0]]
    BY <1>1, <1>3 DEF Remove
  <2> DEFINE f == [[[s.slot EXCEPT ![p] = last] EXCEPT ![n] = 0]
                      EXCEPT ![0] = IF n = 0 THEN 0 ELSE n - 1]
             g == [[s.position EXCEPT ![last] = p] EXCEPT ![a] = 0]
  <2>2. /\ f \in [0..MaxSize -> Nat] /\ f[0] = IF n = 0 THEN 0 ELSE n - 1
        /\ \A i \in 1..MaxSize :
              f[i] = IF i = n THEN 0 ELSE IF i = p THEN last ELSE s.slot[i]
    <3>1. s.slot \in [0..MaxSize -> Nat]
      BY Slots
    <3> DEFINE f1 == [s.slot EXCEPT ![p] = last]
               f2 == [f1 EXCEPT ![n] = 0]
    <3> HIDE DEF p, n, last
    <3>2. f1 \in [0..MaxSize -> Nat] /\ \A i \in 0..MaxSize : f1[i] = IF i = p THEN last ELSE s.slot[i]
      BY <1>1, <3>1
    <3> HIDE DEF f1
    <3>3. f2 \in [0..MaxSize -> Nat] /\ \A i \in 0..MaxSize : f2[i] = IF i = n THEN 0 ELSE f1[i]
      BY <1>1, <3>2
    <3>4. f = [f2 EXCEPT ![0] = IF n = 0 THEN 0 ELSE n - 1]
      BY DEF f1
    <3> HIDE DEF f2, f
    <3>5. f \in [0..MaxSize -> Nat] /\ f[0] = (IF n = 0 THEN 0 ELSE n - 1)
          /\ \A i \in 1..MaxSize : f[i] = f2[i]
      BY <1>1, <3>3, <3>4
    <3> QED  BY <1>1, <3>2, <3>3, <3>5
  <2>3. /\ g \in [Addresses -> 0..MaxSize]
        /\ \A b \in Addresses : g[b] = IF b = a THEN 0 ELSE IF b = last THEN p ELSE s.position[b]
    BY <1>1, Slots
  <2>4. t \in AddressSetType /\ t.slot = f /\ t.position = g
    <3> HIDE DEF f, g, t
    <3>1. t = [slot |-> f, position |-> g]
      BY <2>1 DEF f, g
    <3> QED  BY Zenon, <2>2, <2>3, <3>1, SlotsIntro
  <2> HIDE DEF f, g, t
  <2> QED  BY <1>1, <1>3, <2>2, <2>3, <2>4 DEF Size, t
<1> QED  BY <1>2, <1>3

\* The cells that Add writes for an address that was no member.
LEMMA AddCells ==
    ASSUME NEW s \in AddressSetType, Size(s) \in 0..MaxSize, Size(s) < MaxSize,
           NEW a \in Addresses, ~IsMember(s, a)
    PROVE  LET n == Size(s)
               t == Add(s, a)
           IN /\ t \in AddressSetType
              /\ Size(t) = n + 1
              /\ \A i \in 1..MaxSize : t.slot[i] = IF i = n + 1 THEN a ELSE s.slot[i]
              /\ \A b \in Addresses : t.position[b] = IF b = a THEN n + 1 ELSE s.position[b]
<1> DEFINE n == Size(s)
           f == [s.slot EXCEPT ![n + 1] = a, ![0] = n + 1]
           g == [s.position EXCEPT ![a] = n + 1]
<1>1. n \in 0..MaxSize /\ n + 1 \in 1..MaxSize /\ a \in Nat
  BY AddressesAssumption, MaxSizeAssumption
<1>2. /\ f \in [0..MaxSize -> Nat] /\ f[0] = n + 1
      /\ \A i \in 1..MaxSize : f[i] = IF i = n + 1 THEN a ELSE s.slot[i]
  BY <1>1, Slots, MaxSizeAssumption
<1>3. /\ g \in [Addresses -> 0..MaxSize]
      /\ \A b \in Addresses : g[b] = IF b = a THEN n + 1 ELSE s.position[b]
  BY <1>1, Slots, MaxSizeAssumption
<1>4. Add(s, a) = [slot |-> f, position |-> g]
  BY DEF Add
<1> HIDE DEF f, g
<1>5. Add(s, a) \in AddressSetType /\ Add(s, a).slot = f /\ Add(s, a).position = g
  BY <1>2, <1>3, <1>4, SlotsIntro
<1> QED  BY <1>1, <1>2, <1>3, <1>5 DEF Size

\* ClearList empties the list and leaves the positions.
LEMMA ClearCells ==
    ASSUME NEW s \in AddressSetType, Size(s) \in 0..MaxSize
    PROVE  /\ ClearList(s) \in AddressSetType
           /\ Size(ClearList(s)) = 0
           /\ ClearList(s).position = s.position
<1> DEFINE f == [i \in 0..MaxSize |-> IF i <= Size(s) THEN 0 ELSE s.slot[i]]
<1>1. f \in [0..MaxSize -> Nat] /\ f[0] = 0
  BY MaxSizeAssumption, Slots
<1>2. ClearList(s) = [slot |-> f, position |-> s.position]
  BY Slots DEF ClearList
<1> HIDE DEF f
<1>3. ClearList(s) \in AddressSetType /\ ClearList(s).slot = f /\ ClearList(s).position = s.position
  BY <1>1, <1>2, Slots, SlotsIntro
<1> QED  BY <1>1, <1>3 DEF Size

-----------------------------------------------------------------------------
\* The empty set.
LEMMA SetInitInv == SetInit => SetInv
<1> SUFFICES ASSUME SetInit PROVE SetInv
  OBVIOUS
<1>1. EmptySet \in AddressSetType /\ Size(EmptySet) = 0 /\ \A a \in Addresses : ~IsMember(EmptySet, a)
  <2> DEFINE f == [i \in 0..MaxSize |-> 0]
             g == [a \in Addresses |-> 0]
  <2>1. f \in [0..MaxSize -> Nat] /\ f[0] = 0 /\ g \in [Addresses -> 0..MaxSize]
        /\ \A a \in Addresses : g[a] = 0
    BY MaxSizeAssumption
  <2>2. EmptySet = [slot |-> f, position |-> g]
    BY DEF EmptySet
  <2> HIDE DEF f, g
  <2> QED  BY <2>1, <2>2, SlotsIntro DEF Size, IsMember
<1>2. IsFiniteSet({}) /\ Cardinality({}) = 0
  BY FS_EmptySet
<1>3. owners = EmptySet /\ members = {} /\ cleared = FALSE
  BY DEF SetInit
<1>4. ListedKnowPlace
  BY <1>1, <1>3 DEF ListedKnowPlace
<1>5. MembershipExact
  BY <1>1, <1>3 DEF MembershipExact
<1>6. Complete
  BY <1>1, <1>2, <1>3 DEF Complete
<1>7. owners \in AddressSetType /\ Size(owners) \in 0..MaxSize
  BY <1>1, <1>3, MaxSizeAssumption
<1>8. members \subseteq Addresses /\ IsFiniteSet(members) /\ cleared \in BOOLEAN
  BY Zenon, <1>2, <1>3
<1> QED
  BY <1>4, <1>5, <1>6, <1>7, <1>8, Zenon DEF SetInv

\* AddMember appends an address that was no member.
LEMMA AddInv ==
    ASSUME SetInv, NEW a \in Addresses, AddMember(a)
    PROVE  SetInv'
<1> USE MaxSizeAssumption
<1>1. CASE IsMember(owners, a)
  <2>1. owners' = owners /\ members' = members \cup {a} /\ cleared' = cleared
    BY Zenon, <1>1 DEF AddMember, Add
  <2>2. CASE members' = members
    BY <2>1, <2>2 DEF SetInv, ListedKnowPlace, MembershipExact, Complete
  <2>3. CASE members' # members
    <3>1. a = 0 /\ cleared
      BY <1>1, <2>1, <2>3 DEF SetInv, MembershipExact, Complete
    <3>2. IsFiniteSet(members') /\ members' \subseteq Addresses
      BY <2>1, FS_AddElement DEF SetInv
    <3> QED  BY Zenon, <2>1, <3>1, <3>2 DEF SetInv, ListedKnowPlace, MembershipExact
  <2> QED  BY <2>2, <2>3
<1>2. CASE ~IsMember(owners, a)
  <2> DEFINE n == Size(owners)
  <2>1. /\ owners' \in AddressSetType
        /\ Size(owners') = n + 1
        /\ \A i \in 1..MaxSize : owners'.slot[i] = IF i = n + 1 THEN a ELSE owners.slot[i]
        /\ \A b \in Addresses : owners'.position[b] = IF b = a THEN n + 1 ELSE owners.position[b]
        /\ n \in 0..MaxSize /\ n < MaxSize /\ members' = members \cup {a} /\ cleared' = cleared
    BY <1>2, AddCells DEF AddMember, SetInv
  <2>2. ListedKnowPlace'
    BY <1>2, <2>1 DEF SetInv, ListedKnowPlace, IsMember
  <2>3. MembershipExact'
    BY <2>1 DEF SetInv, MembershipExact, IsMember
  <2>4. IsFiniteSet(members') /\ members' \subseteq Addresses
    BY <2>1, FS_AddElement DEF SetInv
  <2>5. ASSUME ~cleared PROVE Complete'
    <3>1. a \notin members /\ Complete
      BY <1>2, <2>5 DEF SetInv, Complete
    <3>2. Cardinality(members') = Cardinality(members) + 1
      BY Zenon, <2>1, <3>1, FS_AddElement DEF SetInv
    <3>3. \A b \in Addresses : IsMember(owners', b) <=> b \in members'
      BY <2>1, <3>1 DEF Complete, IsMember
    <3>4. \A b \in Addresses : IsMember(owners', b) =>
             owners'.position[b] <= Size(owners') /\ owners'.slot[owners'.position[b]] = b
      <4> SUFFICES ASSUME NEW b \in Addresses, owners'.position[b] # 0
                   PROVE  owners'.position[b] <= n + 1 /\ owners'.slot[owners'.position[b]] = b
        BY <2>1 DEF IsMember
      <4>1. CASE b = a
        BY <2>1, <4>1
      <4>2. CASE b # a
        <5>1. /\ owners'.position[b] = owners.position[b]
              /\ owners.position[b] \in 0..MaxSize /\ owners.position[b] # 0
          BY Zenon, <2>1, <4>2, Slots DEF SetInv
        <5>2. owners.position[b] <= n /\ owners.slot[owners.position[b]] = b
          BY Zenon, <3>1, <5>1 DEF Complete, IsMember
        <5> HIDE DEF n
        <5> QED  BY <2>1, <5>1, <5>2
      <4> QED  BY <4>1, <4>2
    <3>5. Size(owners') = Cardinality(members')
      BY <2>1, <3>1, <3>2 DEF Complete
    <3> QED  BY Zenon, <3>3, <3>4, <3>5 DEF Complete
  <2> QED  BY <2>1, <2>2, <2>3, <2>4, <2>5 DEF SetInv
<1> QED  BY <1>1, <1>2

\* The entry that moves is a member that knows its place, or the zero address.
LEMMA LastListed ==
    ASSUME SetInv
    PROVE  /\ owners.slot[Size(owners)] \in Addresses
           /\ Size(owners) # 0 => owners.position[owners.slot[Size(owners)]] = Size(owners)
           /\ Size(owners) = 0 => owners.slot[Size(owners)] = 0
  BY AddressesAssumption, MaxSizeAssumption DEF SetInv, ListedKnowPlace, Size

\* RemoveMember moves the last member to the place of the one removed.
LEMMA RemoveInv ==
    ASSUME SetInv, NEW a \in Addresses, RemoveMember(a)
    PROVE  SetInv'
<1> USE MaxSizeAssumption
<1> DEFINE n == Size(owners)
           p == owners.position[a]
           last == owners.slot[n]
<1>1. /\ owners' \in AddressSetType
      /\ Size(owners') = IF n = 0 THEN 0 ELSE n - 1
      /\ \A i \in 1..MaxSize :
            owners'.slot[i] = IF i = n THEN 0 ELSE IF i = p THEN last ELSE owners.slot[i]
      /\ \A b \in Addresses :
            owners'.position[b] = IF b = a THEN 0
                                  ELSE IF p # n /\ b = last THEN p ELSE owners.position[b]
  BY LastListed, RemoveCells DEF RemoveMember, SetInv
<1>2. /\ n \in 0..MaxSize /\ p \in 1..MaxSize /\ last \in Addresses
      /\ n # 0 => owners.position[last] = n
      /\ n = 0 => last = 0
      /\ members' = members \ {a} /\ cleared' = cleared
  BY LastListed DEF RemoveMember, SetInv, AddressSetType, IsMember
<1> HIDE DEF n, p, last
<1>3. Size(owners') \in 0..MaxSize
  BY <1>1, <1>2
<1>4. \A i \in 1..n : owners.slot[i] \in Addresses /\ owners.position[owners.slot[i]] = i
  BY DEF SetInv, ListedKnowPlace, n
<1>5. \A i \in 1..n : i = p \/ owners.slot[i] # a
  BY <1>4 DEF p
<1>6. ListedKnowPlace'
  <2> SUFFICES ASSUME NEW i \in 1..Size(owners')
               PROVE  owners'.slot[i] \in Addresses /\ owners'.position[owners'.slot[i]] = i
    BY DEF ListedKnowPlace
  <2>1. n # 0 /\ i \in 1..MaxSize /\ i < n
    BY <1>1, <1>2
  <2>2. CASE i = p
    <3>1. owners'.slot[i] = last /\ p # n
      BY <1>1, <2>1, <2>2
    <3>2. last # a
      BY <1>2, <2>1, <2>2 DEF p
    <3> QED  BY <1>1, <1>2, <2>2, <3>1, <3>2
  <2>3. CASE i # p
    <3>1. owners'.slot[i] = owners.slot[i] /\ owners.slot[i] \in Addresses
          /\ owners.position[owners.slot[i]] = i
      <4>1. i \in 1..n /\ i # n
        BY <1>2, <2>1
      <4> QED  BY <1>1, <1>4, <2>1, <2>3, <4>1
    <3>2. owners.slot[i] # a /\ owners.slot[i] # last
      BY <1>2, <1>5, <2>1, <2>3, <3>1
    <3> QED  BY <1>1, <3>1, <3>2
  <2> QED  BY <2>2, <2>3
<1>7. MembershipExact'
  <2> SUFFICES ASSUME NEW b \in Addresses \ {0} PROVE owners'.position[b] # 0 <=> b \in members'
    BY DEF MembershipExact, IsMember
  <2>1. owners.position[b] # 0 <=> b \in members
    BY DEF SetInv, MembershipExact, IsMember
  <2>2. b = last => owners.position[b] # 0
    BY <1>2
  <2> QED  BY <1>1, <1>2, <2>1, <2>2
<1>8. IsFiniteSet(members') /\ members' \subseteq Addresses
  BY <1>2, FS_RemoveElement DEF SetInv
<1>9. ASSUME ~cleared PROVE Complete'
  <2>1. Complete /\ a \in members
    BY <1>9 DEF SetInv, Complete, RemoveMember
  <2>2. Cardinality(members') = Cardinality(members) - 1 /\ Cardinality(members) # 0
    BY <1>2, <2>1, FS_RemoveElement, FS_EmptySet DEF SetInv
  <2>3. p <= n /\ owners.slot[p] = a /\ n = Cardinality(members)
    BY <2>1 DEF Complete, RemoveMember, p, n
  <2>4. Size(owners') = Cardinality(members')
    BY <1>1, <2>2, <2>3
  <2>5. ASSUME NEW b \in Addresses PROVE IsMember(owners', b) <=> b \in members'
    <3>1. owners.position[b] # 0 <=> b \in members
      BY <2>1 DEF Complete, IsMember
    <3>2. b = last => owners.position[b] # 0
      BY <1>2, <2>3
    <3> QED  BY <1>1, <1>2, <3>1, <3>2 DEF IsMember
  <2>6. ASSUME NEW b \in Addresses, IsMember(owners', b)
        PROVE  owners'.position[b] <= Size(owners') /\ owners'.slot[owners'.position[b]] = b
    <3>1. b # a /\ ((p # n /\ b = last) \/ owners'.position[b] = owners.position[b])
      BY <1>1, <2>6 DEF IsMember
    <3>2. CASE p # n /\ b = last
      <4>1. owners'.position[b] = p /\ p < n
        BY <1>1, <1>2, <2>3, <3>1, <3>2
      <4> QED  BY <1>1, <1>2, <3>2, <4>1
    <3>3. CASE ~(p # n /\ b = last)
      <4>1. owners'.position[b] = owners.position[b] /\ owners.position[b] # 0
        BY <1>1, <2>6, <3>1, <3>3 DEF IsMember
      <4>2. /\ owners.position[b] \in 1..n
            /\ owners.slot[owners.position[b]] = b
        BY <2>1, <4>1 DEF Complete, IsMember, SetInv, AddressSetType, n
      <4>3. owners.position[b] # p
        BY <2>3, <3>1, <4>2
      <4>4. owners.position[b] # n
        BY <2>3, <3>1, <3>3, <4>2 DEF last
      <4> QED  BY <1>1, <1>2, <4>1, <4>2, <4>3, <4>4
    <3> QED  BY <3>2, <3>3
  <2> QED  BY <2>4, <2>5, <2>6 DEF Complete
<1> QED  BY Zenon, <1>1, <1>2, <1>3, <1>6, <1>7, <1>8, <1>9 DEF SetInv

\* ClearOnUpgrade empties the list, and the set is complete no more.
LEMMA ClearInv ==
    ASSUME SetInv, ClearOnUpgrade
    PROVE  SetInv'
<1>1. /\ owners' \in AddressSetType /\ Size(owners') = 0 /\ owners'.position = owners.position
      /\ cleared' = TRUE /\ members' = members
  BY ClearCells DEF ClearOnUpgrade, SetInv
<1> QED
  BY <1>1, MaxSizeAssumption DEF SetInv, ListedKnowPlace, MembershipExact, IsMember

\* Every step keeps the invariant of the address set.
LEMMA SetNextInv == SetInv /\ [SetNext]_setVars => SetInv'
<1> SUFFICES ASSUME SetInv, [SetNext]_setVars PROVE SetInv'
  OBVIOUS
<1>1. CASE UNCHANGED setVars
  BY <1>1 DEF setVars, SetInv, ListedKnowPlace, MembershipExact, Complete
<1>2. CASE \E a \in Addresses : AddMember(a)
  BY <1>2, AddInv
<1>3. CASE \E a \in Addresses : RemoveMember(a)
  BY <1>3, RemoveInv
<1>4. CASE ClearOnUpgrade
  BY <1>4, ClearInv
<1> QED  BY <1>1, <1>2, <1>3, <1>4 DEF SetNext

\* The list of a set that was never cleared names every member once: the positions are a
\* bijection from the members to the places of the list.
LEMMA InvListExact == SetInv => ListExact
<1> SUFFICES ASSUME SetInv, ~cleared PROVE AllMembers(owners) = members /\ Size(owners) = Cardinality(members)
  BY DEF ListExact
<1>1. Complete
  BY DEF SetInv
<1>2. ASSUME NEW i \in 1..Size(owners) PROVE owners.slot[i] \in members
  BY <1>1, <1>2 DEF SetInv, ListedKnowPlace, Complete, IsMember
<1>3. ASSUME NEW a \in members PROVE \E i \in 1..Size(owners) : owners.slot[i] = a
  <2>1. a \in Addresses /\ owners.position[a] # 0
    BY <1>1, <1>3 DEF SetInv, Complete, IsMember
  <2>2. owners.position[a] \in 1..Size(owners) /\ owners.slot[owners.position[a]] = a
    BY <1>1, <2>1, MaxSizeAssumption DEF SetInv, Complete, IsMember, AddressSetType
  <2> QED  BY <2>2
<1> QED  BY <1>1, <1>2, <1>3 DEF AllMembers, Complete

\* Add, remove and the clear of the upgrade to ArbOS 11 keep membership exact, in any
\* order and number.
THEOREM MembershipStaysExact == SetSpec => []MembershipExact
<1>1. SetInv => MembershipExact
  BY DEF SetInv
<1> QED  BY <1>1, SetInitInv, SetNextInv, PTL DEF SetSpec

\* Until the clear, the list that getAllChainOwners returns is the set of the members,
\* each named once.
THEOREM ListStaysExact == SetSpec => []ListExact
  BY InvListExact, SetInitInv, SetNextInv, PTL DEF SetSpec
=============================================================================
