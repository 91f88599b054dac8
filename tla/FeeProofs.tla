------------------------------ MODULE FeeProofs ------------------------------
(***************************************************************************)
(* What transactions pay.  Gas, for all transactions, chain settings and   *)
(* amounts: fees are conserved, computation stays within its limit, and    *)
(* the gas used is that of the transaction alone.  L1 pricing, for any     *)
(* posters, parameters, batches, fees and versions: the pool covers the    *)
(* counter, reports are paid, and spending and units are charged once.     *)
(***************************************************************************)
EXTENDS GasCharging, L1Pricing, TLAPS

-----------------------------------------------------------------------------
(* Gas: the inductive invariant.                                           *)

State == [bal : [Holders -> Int], units : Nat, available : Nat, backlog : Nat]

Context == [intrinsic : Nat, posterGas : Nat, holdGas : Nat, posterFee : Nat, paid : Nat,
            version : Int, filtered : BOOLEAN]

GasType ==
    /\ phase \in {"idle", "deduct", "bypass", "charge", "execution", "refund", "reimburse", "end"}
    /\ env \in EnvType
    /\ ctx \in Context
    /\ gas \in [remaining : Int, refund : Int]
    /\ st \in State /\ committed \in State

\* A transaction is in progress: it is valid, the hooks it passes are those of its kind,
\* and none of them sees a version of another.
Progress ==
    /\ ctx.version \in {None, env.version}
    /\ phase # "idle" => /\ tx \in TxType /\ Valid(tx) /\ ~report.settled
                         /\ tx.kind # "protocol" => ctx.intrinsic = tx.intrinsic
    /\ phase \in {"deduct", "charge", "reimburse"} => tx.kind = "user"
    /\ phase = "bypass" => tx.kind # "user" /\ ctx.version = None
    /\ phase \in {"execution", "refund", "end"} => tx.kind \in {"user", "retry"}

Burning == phase \in {"execution", "refund", "reimburse", "end"}

\* A valid transaction pays the base fee and nothing else, and owes it for its whole limit
\* until it is reimbursed.
Paid ==
    /\ phase = "deduct" => st = committed
    /\ phase = "charge" => ctx.paid = env.baseFee /\ ctx.version = env.version
    /\ phase \in {"charge", "execution", "refund", "reimburse"} /\ tx.kind = "user" =>
          Total(st) = Total(committed) - env.baseFee * tx.limit
    /\ phase = "end" /\ tx.kind = "user" =>
          Total(st) = Total(committed) - env.baseFee * (tx.limit - gas.remaining - gas.refund)

\* The poster gas and the filter are those of the transaction in progress.
Charged ==
    Burning =>
        /\ ctx.paid = 0
        /\ tx.kind = "user" => /\ ctx.posterFee = env.baseFee * ctx.posterGas
                               /\ ctx.version = env.version
                               /\ ctx.filtered <=> Filtered
        /\ tx.kind = "retry" => ctx.posterGas = 0 /\ ~ctx.filtered

\* What GasChargingHook leaves to the frame.
Held ==
    phase = "execution" /\ tx.kind = "user" =>
        ctx.holdGas = SubSat(SubSat(SubSat(tx.limit, tx.intrinsic), ctx.posterGas),
                             MaxCompute(tx.intrinsic))

\* The limit that ComputeCapped states.
WithinLimit ==
    IF Version < 50 THEN env.blockLimit = 0 \/ report.burnt <= env.blockLimit
    ELSE env.txLimit = 0 \/ report.burnt + tx.intrinsic <= Larger(env.txLimit, tx.intrinsic)

Own == tx.intrinsic + report.burnt
Back == Smaller(Larger(report.recorded + AuthRefund, 0), Own \div 5)

\* The gas after the frame.
FrameDone ==
    phase = "refund" =>
        IF Filtered THEN gas.remaining = 0 /\ gas.refund = 0
        ELSE /\ report.burnt \in Nat /\ gas.refund = report.recorded
             /\ gas.remaining = tx.limit - Own - ctx.posterGas /\ gas.remaining >= 0

\* The gas after the refund.
RefundDone ==
    phase \in {"reimburse", "end"} =>
        /\ gas.remaining \in Nat /\ gas.refund \in Nat
        /\ gas.remaining + gas.refund <= tx.limit
        /\ IF Filtered THEN gas.remaining = 0 /\ gas.refund = 0
           ELSE /\ tx.limit - gas.remaining - gas.refund
                     = Larger(tx.floor, Own + ctx.posterGas - Back)
                /\ tx.limit - gas.remaining - gas.refund >= ctx.posterGas

Capped ==
    phase \in {"refund", "reimburse", "end"} /\ tx.kind = "user" /\ ~ctx.filtered => WithinLimit

GasInv ==
    /\ GasType /\ Progress /\ Paid /\ Charged /\ Held /\ FrameDone /\ RefundDone /\ Capped
    /\ FeesConserved /\ ComputeCapped /\ GasUsedExact

-----------------------------------------------------------------------------
(* Gas: lemmas on balances and fields.                                     *)

\* A credit adds to the total what it adds to an account.
LEMMA CreditTotal ==
    ASSUME NEW s \in State, NEW a \in Holders, NEW x \in Int
    PROVE  Credit(s, a, x) \in State /\ Total(Credit(s, a, x)) = Total(s) + x
<1> DEFINE b == [s.bal EXCEPT ![a] = s.bal[a] + x]
<1>1. s.bal \in [Holders -> Int] /\ s.units \in Nat /\ s.available \in Nat /\ s.backlog \in Nat
  BY DEF State
<1>2. b \in [Holders -> Int]
  BY <1>1
<1>3. Credit(s, a, x) = [s EXCEPT !.bal = b]
  BY DEF Credit
<1>4. Credit(s, a, x) \in State /\ Credit(s, a, x).bal = b
  <2> HIDE DEF b
  <2> QED  BY <1>2, <1>3 DEF State
<1>5. \A c \in Holders : b[c] = IF c = a THEN s.bal[c] + x ELSE s.bal[c]
  BY <1>1
<1> HIDE DEF b
<1>6. /\ b["sender"] \in Int /\ b["callee"] \in Int /\ b["network"] \in Int /\ b["infra"] \in Int
      /\ b["pool"] \in Int /\ b["coinbase"] \in Int /\ b["nobody"] \in Int
      /\ s.bal["sender"] \in Int /\ s.bal["callee"] \in Int /\ s.bal["network"] \in Int
      /\ s.bal["infra"] \in Int /\ s.bal["pool"] \in Int /\ s.bal["coinbase"] \in Int
      /\ s.bal["nobody"] \in Int
  BY <1>1, <1>2 DEF Holders
<1>7. Total(Credit(s, a, x)) = b["sender"] + b["callee"] + b["network"] + b["infra"]
                                  + b["pool"] + b["coinbase"] + b["nobody"]
  BY <1>4 DEF Total
<1>8. /\ b["sender"] = IF "sender" = a THEN s.bal["sender"] + x ELSE s.bal["sender"]
      /\ b["callee"] = IF "callee" = a THEN s.bal["callee"] + x ELSE s.bal["callee"]
      /\ b["network"] = IF "network" = a THEN s.bal["network"] + x ELSE s.bal["network"]
      /\ b["infra"] = IF "infra" = a THEN s.bal["infra"] + x ELSE s.bal["infra"]
      /\ b["pool"] = IF "pool" = a THEN s.bal["pool"] + x ELSE s.bal["pool"]
      /\ b["coinbase"] = IF "coinbase" = a THEN s.bal["coinbase"] + x ELSE s.bal["coinbase"]
      /\ b["nobody"] = IF "nobody" = a THEN s.bal["nobody"] + x ELSE s.bal["nobody"]
  BY <1>5 DEF Holders
<1> QED  BY <1>4, <1>6, <1>8 DEF Total, Holders

\* The total of the balances is a number.
LEMMA TotalInt ==
    ASSUME NEW s \in State
    PROVE  Total(s) \in Int
  BY DEF State, Total, Holders

\* The fields of a transaction.
LEMMA TxFields ==
    ASSUME NEW t \in TxType
    PROVE  /\ t.kind \in {"user", "retry", "protocol"} /\ t.limit \in Nat /\ t.cap \in Nat
           /\ t.tip \in Nat /\ t.floor \in Nat /\ t.intrinsic \in Nat /\ t.units \in Nat
           /\ t.value \in Nat /\ t.filtered \in BOOLEAN /\ t.auth \in Int
  BY DEF TxType, None

\* The fields of the chain settings.
LEMMA EnvFields ==
    ASSUME NEW e \in EnvType
    PROVE  /\ e.version \in Nat /\ e.baseFee \in Nat /\ e.blockLimit \in Nat /\ e.txLimit \in Nat
           /\ e.minBaseFee \in Nat /\ e.pricePerUnit \in Nat /\ e.sequenced \in BOOLEAN
           /\ e.infra \in BOOLEAN /\ e.network \in BOOLEAN /\ e.tips \in BOOLEAN
  BY DEF EnvType

\* The fields of the context that the hooks share.
LEMMA ContextFields ==
    ASSUME NEW c \in Context
    PROVE  /\ c.intrinsic \in Nat /\ c.posterGas \in Nat /\ c.holdGas \in Nat
           /\ c.posterFee \in Nat /\ c.paid \in Nat /\ c.version \in Int /\ c.filtered \in BOOLEAN
  BY DEF Context

\* Without a version in the context the environment's is read, which is the same.
LEMMA VersionIs ==
    ASSUME GasType, Progress
    PROVE  Version = env.version
  BY EnvFields DEF GasType, Progress, Version, None

\* Whether tips are collected or not, a valid transaction pays the base fee.
LEMMA PaysBaseFee ==
    ASSUME env \in EnvType, NEW t \in TxType, t.cap >= env.baseFee, NEW v
    PROVE  PaidGasPrice(t, v) = env.baseFee
  BY EnvFields, TxFields DEF PaidGasPrice, EffectiveGasPrice, Smaller

\* No transaction is in progress.
LEMMA GasInitInv == GasInit => GasInv
<1> SUFFICES ASSUME GasInit PROVE GasInv
  OBVIOUS
<1>1. phase = "idle" /\ ~report.settled /\ env \in EnvType /\ ctx.version = None
  BY EnvsAssumption DEF GasInit
<1>2. st.bal \in [Holders -> Int]
  BY AmountsAssumption DEF GasInit
<1>3. st \in State /\ committed \in State
  BY <1>2 DEF GasInit, State
<1>4. ctx \in Context
  BY DEF GasInit, Context, None
<1>5. gas \in [remaining : Int, refund : Int]
  BY DEF GasInit
<1>6. GasType
  BY <1>1, <1>3, <1>4, <1>5 DEF GasType
<1> QED  BY <1>1, <1>6 DEF GasInv, Progress, Paid, Charged, Burning, Held, FrameDone, RefundDone, Capped,
         FeesConserved, ComputeCapped, GasUsedExact, Settled

-----------------------------------------------------------------------------
(* Gas: every step keeps the invariant.                                    *)

\* No transaction is in progress and none was settled.
LEMMA IdleInv ==
    ASSUME GasType', phase' = "idle", ~report'.settled, ctx'.version \in {None, env'.version}
    PROVE  GasInv'
  BY DEF GasInv, Progress, Paid, Charged, Burning, Held, FrameDone, RefundDone, Capped,
         FeesConserved, ComputeCapped, GasUsedExact, Settled

\* While a transaction is in progress the properties claim nothing.
LEMMA BusyInv ==
    ASSUME GasType', phase' # "idle", Progress', Paid', Charged', Held', FrameDone', RefundDone', Capped'
    PROVE  GasInv'
  BY DEF GasInv, FeesConserved, ComputeCapped, GasUsedExact, Settled

\* Discard drops what the transaction did.
LEMMA DiscardInv ==
    ASSUME GasInv, phase # "idle", ctx' \in Context, ctx'.version \in {None, env.version}, Discard
    PROVE  GasInv'
<1>1. GasType'
  BY DEF GasInv, GasType, Discard
<1>2. phase' = "idle" /\ ~report'.settled /\ ctx'.version \in {None, env'.version}
  BY DEF GasInv, Progress, Discard
<1> QED  BY <1>1, <1>2, IdleInv

\* Validate starts a transaction, with its own intrinsic gas.
LEMMA ValidateInv ==
    ASSUME GasInv, NEW t \in Txs, Validate(t)
    PROVE  GasInv'
<1> DEFINE i == CASE ~Valid(t) -> ctx.intrinsic
                  [] t.kind = "protocol" -> 0
                  [] OTHER -> t.intrinsic
           c == [ctx EXCEPT !.version = None]
<1>1. /\ t \in TxType /\ tx' = t /\ st' = st /\ committed' = st /\ env' = env /\ gas' = gas
      /\ ctx' = [c EXCEPT !.intrinsic = i] /\ ~report'.settled /\ GasType
      /\ phase' = CASE ~Valid(t) -> "idle" [] Valid(t) /\ t.kind = "user" -> "deduct" [] OTHER -> "bypass"
  BY TxsAssumption DEF Validate, GasInv
<1>2. ctx \in Context /\ ctx.intrinsic \in Nat /\ t.intrinsic \in Nat
  BY <1>1, ContextFields, TxFields DEF GasType
<1>3. i \in Nat /\ (Valid(t) /\ t.kind # "protocol" => i = t.intrinsic)
  BY <1>2
<1>4. c \in Context /\ c.version = None
  BY <1>2 DEF Context, None
<1> HIDE DEF i, c
<1>5. ctx' \in Context /\ ctx'.version = None /\ ctx'.intrinsic = i
  BY <1>1, <1>3, <1>4 DEF Context
<1>6. GasType'
  BY <1>1, <1>5 DEF GasType
<1>7. CASE ~Valid(t)
  <2>1. phase' = "idle"
    BY <1>1, <1>7
  <2> QED  BY <1>1, <1>5, <1>6, <2>1, IdleInv
<1>8. CASE Valid(t)
  <2>1. /\ t.kind = "user" => phase' = "deduct"
        /\ t.kind # "user" => phase' = "bypass"
    BY <1>1, <1>8
  <2>2. Valid(tx)'
    BY <1>1, <1>8 DEF Valid
  <2>3. Progress'
    BY <1>1, <1>3, <1>5, <2>2 DEF Progress
  <2> QED  BY <1>1, <1>6, <2>1, <2>3, BusyInv
            DEF Paid, Charged, Burning, Held, FrameDone, RefundDone, Capped
<1> QED  BY <1>7, <1>8

\* ResetPosterState clears what the last transaction left, but for the version.
LEMMA ResetFields ==
    ASSUME NEW c \in Context
    PROVE  LET r == ResetPosterState(c)
           IN /\ r \in Context /\ r.intrinsic = c.intrinsic /\ r.version = c.version
              /\ r.posterGas = 0 /\ r.paid = 0 /\ ~r.filtered
  <1> DEFINE a == [c EXCEPT !.posterGas = 0, !.holdGas = 0, !.posterFee = 0, !.paid = 0]
             r == [a EXCEPT !.filtered = FALSE]
  <1>1. /\ a \in Context /\ a.intrinsic = c.intrinsic /\ a.version = c.version
        /\ a.posterGas = 0 /\ a.paid = 0
    BY Zenon DEF Context
  <1>2. ResetPosterState(c) = r
    BY DEF ResetPosterState
  <1> HIDE DEF a
  <1>3. /\ r \in Context /\ r.intrinsic = a.intrinsic /\ r.version = a.version
        /\ r.posterGas = a.posterGas /\ r.paid = a.paid
    BY Zenon, <1>1 DEF Context
  <1>4. ~r.filtered
    BY <1>1 DEF Context
  <1> QED  BY <1>1, <1>2, <1>3

\* BypassPreExecution charges nothing.
LEMMA BypassInv ==
    ASSUME GasInv, BypassPreExecution
    PROVE  GasInv'
<1>1. /\ GasType /\ Progress /\ phase = "bypass" /\ ctx' = ResetPosterState(ctx)
      /\ UNCHANGED <<tx, gas, st, committed, report>> /\ ctx \in Context /\ env \in EnvType
      /\ tx.kind # "user" /\ ctx.version = None /\ ~report.settled /\ tx \in TxType /\ Valid(tx)
      /\ tx.kind # "protocol" => ctx.intrinsic = tx.intrinsic
  BY DEF BypassPreExecution, GasInv, GasType, Progress
<1>2. /\ ctx' \in Context /\ ctx'.version = None /\ ctx'.intrinsic = ctx.intrinsic
      /\ ctx'.posterGas = 0 /\ ctx'.paid = 0 /\ ~ctx'.filtered
  BY <1>1, ResetFields
<1>3. CASE tx.kind = "retry"
  <2>1. phase' = "execution" /\ env' = env
    BY <1>3 DEF BypassPreExecution
  <2>2. GasType'
    BY <1>1, <1>2, <2>1 DEF GasType
  <2>3. Valid(tx)'
    BY <1>1 DEF Valid
  <2>4. Progress'
    BY <1>1, <1>2, <1>3, <2>1, <2>3 DEF Progress
  <2> QED
    BY <1>1, <1>2, <2>1, <2>2, <2>4, BusyInv
    DEF Paid, Charged, Burning, Held, FrameDone, RefundDone, Capped
<1>4. CASE tx.kind # "retry"
  <2>1. PICK e \in Envs : env' = [env EXCEPT !.version = e.version]
    BY <1>4 DEF BypassPreExecution
  <2>2. phase' = "idle"
    BY <1>4 DEF BypassPreExecution
  <2>3. e.version \in Nat
    BY EnvsAssumption, EnvFields
  <2>4. env' \in EnvType
    BY <1>1, <2>1, <2>3 DEF EnvType
  <2>5. GasType'
    BY <1>1, <1>2, <2>2, <2>4 DEF GasType
  <2> QED  BY <1>1, <1>2, <2>2, <2>5, IdleInv
<1> QED  BY <1>3, <1>4

\* ValidateAgainstStateAndDeductCaller takes the base fee for the whole limit.
LEMMA DeductInv ==
    ASSUME GasInv, ValidateAgainstStateAndDeductCaller
    PROVE  GasInv'
<1> DEFINE paid == PaidGasPrice(tx, env.version)
           c == [ctx EXCEPT !.version = env.version]
           d == [c EXCEPT !.paid = paid]
           out == paid * tx.limit
<1>1. /\ GasType /\ Progress /\ Paid /\ phase = "deduct" /\ tx.kind = "user" /\ tx \in TxType
      /\ Valid(tx) /\ ~report.settled /\ ctx.intrinsic = tx.intrinsic
      /\ st = committed /\ st \in State /\ env \in EnvType /\ ctx \in Context
  BY DEF ValidateAgainstStateAndDeductCaller, GasInv, GasType, Progress, Paid
<1>2. tx.cap >= env.baseFee
  BY <1>1 DEF Valid
<1>3. paid = env.baseFee /\ paid \in Nat /\ tx.limit \in Nat /\ env.version \in Nat
  BY <1>1, <1>2, PaysBaseFee, EnvFields, TxFields
<1>4. c \in Context /\ c.version = env.version /\ c.intrinsic = ctx.intrinsic
  BY <1>1, <1>3 DEF Context
<1>5. \/ ctx' = c /\ Discard
      \/ /\ ctx' = d /\ st' = Credit(st, "sender", -out) /\ phase' = "charge"
         /\ UNCHANGED <<tx, env, gas, committed, report>>
  BY DEF ValidateAgainstStateAndDeductCaller
<1>6. CASE ctx' = c /\ Discard
  <2> HIDE DEF c
  <2> QED  BY <1>1, <1>4, <1>6, DiscardInv
<1>7. CASE /\ ctx' = d /\ st' = Credit(st, "sender", -out) /\ phase' = "charge"
           /\ UNCHANGED <<tx, env, gas, committed, report>>
  <2>1. out \in Int /\ -out \in Int /\ "sender" \in Holders
    BY <1>3 DEF Holders
  <2>2. out = env.baseFee * tx.limit
    BY <1>3
  <2> HIDE DEF paid, c, out
  <2>3. d \in Context /\ d.version = env.version /\ d.intrinsic = tx.intrinsic /\ d.paid = env.baseFee
    BY <1>1, <1>3, <1>4 DEF Context
  <2> HIDE DEF d
  <2>4. st' \in State /\ Total(st)' = Total(st) + (-out)
    BY <1>1, <1>7, <2>1, CreditTotal DEF Total
  <2>5. GasType'
    BY <1>1, <1>7, <2>3, <2>4 DEF GasType
  <2>6. Valid(tx)'
    BY <1>1, <1>7 DEF Valid
  <2>7. Progress'
    BY <1>1, <1>7, <2>3, <2>6 DEF Progress
  <2>8. Total(st)' = Total(committed)' - env.baseFee * tx.limit
    BY Zenon, <1>1, <1>7, <2>2, <2>4 DEF Total
  <2>9. Paid'
    BY <1>7, <2>3, <2>8 DEF Paid
  <2> QED  BY <1>7, <2>5, <2>7, <2>9, BusyInv DEF Charged, Burning, Held, FrameDone, RefundDone, Capped
<1> QED  BY <1>5, <1>6, <1>7

\* The limit on computation: per block before version 50, per transaction from then on.
LEMMA MaxComputeNat ==
    ASSUME GasType, Progress, tx \in TxType, NEW i \in Nat
    PROVE  /\ MaxCompute(i) \in Nat
           /\ Version < 50 => env.blockLimit = 0 \/ MaxCompute(i) = env.blockLimit
           /\ ~(Version < 50) => env.txLimit = 0 \/ MaxCompute(i) = SubSat(env.txLimit, i)
  BY EnvFields, TxFields DEF MaxCompute, SubSat, GasType

\* What the hook writes over a context that was reset.
WithCharge(c, p, fee, h, b) ==
    [c EXCEPT !.posterGas = p, !.posterFee = fee, !.holdGas = h, !.filtered = b]

ChargeIs(r, c, p, fee, h, b) ==
    /\ r \in Context /\ r.intrinsic = c.intrinsic /\ r.version = c.version /\ r.paid = c.paid
    /\ r.posterGas = p /\ r.posterFee = fee /\ r.holdGas = h /\ (r.filtered <=> b)

\* The context after the charging hook.
LEMMA ChargedContext ==
    ASSUME NEW c \in Context, NEW p \in Nat, NEW fee \in Nat, NEW h \in Nat, NEW b \in BOOLEAN
    PROVE  ChargeIs(WithCharge(c, p, fee, h, b), c, p, fee, h, b)
<1> DEFINE a == [c EXCEPT !.posterGas = p, !.posterFee = fee, !.holdGas = h]
           r == [a EXCEPT !.filtered = b]
<1>1. /\ a \in Context /\ a.intrinsic = c.intrinsic /\ a.version = c.version /\ a.paid = c.paid
      /\ a.posterGas = p /\ a.posterFee = fee /\ a.holdGas = h
  BY Zenon DEF Context
<1> HIDE DEF a
<1>2. /\ r \in Context /\ r.intrinsic = a.intrinsic /\ r.version = a.version /\ r.paid = a.paid
      /\ r.posterGas = a.posterGas /\ r.posterFee = a.posterFee /\ r.holdGas = a.holdGas
  BY <1>1 DEF Context
<1>3. r.filtered <=> b
  BY <1>1 DEF Context
<1>4. WithCharge(c, p, fee, h, b) = r
  BY DEF WithCharge, a
<1> QED  BY <1>1, <1>2, <1>4 DEF ChargeIs

\* The limit splits into intrinsic, poster, held and compute gas.
ChargeSplits(r) ==
    /\ r \in Context /\ r.intrinsic = tx.intrinsic /\ r.paid = 0 /\ r.version = env.version
    /\ r.posterFee = env.baseFee * r.posterGas /\ (r.filtered <=> Filtered)
    /\ r.holdGas = SubSat(SubSat(SubSat(tx.limit, tx.intrinsic), r.posterGas), MaxCompute(tx.intrinsic))

LEMMA ChargingContext ==
    ASSUME GasInv, phase = "charge"
    PROVE  ChargeSplits(ContextAfterCharge)
<1> DEFINE snapshot == IF ctx.paid = 0 THEN PaidGasPrice(tx, Version) ELSE ctx.paid
           paid == IF snapshot = 0 THEN env.baseFee ELSE snapshot
           poster == PosterGas(tx, paid)
           fee == paid * poster
           after == SubSat(SubSat(tx.limit, ctx.intrinsic), poster)
           h == SubSat(after, MaxCompute(ctx.intrinsic))
           r == ContextAfterCharge
<1>1. /\ GasType /\ Progress /\ tx.kind = "user" /\ tx \in TxType
      /\ Valid(tx) /\ ctx.intrinsic = tx.intrinsic /\ ctx.paid = env.baseFee
      /\ env \in EnvType /\ ctx \in Context /\ ctx.version = env.version
  BY DEF GasInv, GasType, Progress, Paid
<1>2. r = [ResetPosterState(ctx) EXCEPT !.posterGas = poster, !.posterFee = fee,
                     !.holdGas = h, !.filtered = Filtered]
  BY DEF ContextAfterCharge
<1>3. tx.cap >= env.baseFee /\ env.baseFee \in Nat /\ tx.units \in Nat /\ tx.limit \in Nat
      /\ tx.intrinsic \in Nat /\ env.pricePerUnit \in Nat
  BY <1>1, EnvFields, TxFields DEF Valid
<1>4. paid = env.baseFee
  BY <1>1, <1>3, PaysBaseFee
<1>5. poster \in Nat
  <2>1. CASE ~env.sequenced \/ paid = 0
    BY <2>1 DEF PosterGas
  <2>2. CASE ~(~env.sequenced \/ paid = 0)
    <3>1. env.pricePerUnit * tx.units \in Nat /\ paid \in Nat \ {0}
      BY <1>3, <1>4, <2>2
    <3> HIDE DEF paid
    <3> QED  BY <3>1 DEF PosterGas
  <2> QED  BY <2>1, <2>2
<1>6. fee = env.baseFee * poster /\ fee \in Nat
  <2> HIDE DEF poster
  <2> QED  BY <1>3, <1>4, <1>5
<1>7. h \in Nat /\ h = SubSat(SubSat(SubSat(tx.limit, tx.intrinsic), poster), MaxCompute(tx.intrinsic))
  <2>1. MaxCompute(tx.intrinsic) \in Nat
    BY <1>1, <1>3, MaxComputeNat
  <2> HIDE DEF poster
  <2> QED  BY <1>1, <1>3, <1>5, <2>1 DEF SubSat
<1>8. PICK b \in BOOLEAN : b <=> Filtered
  BY Zenon DEF Filtered
<1>9. Filtered = b
  BY <1>8 DEF Filtered
<1> HIDE DEF snapshot, paid, poster, fee, after, h, r
<1>10. /\ r \in Context /\ r.intrinsic = tx.intrinsic /\ r.paid = 0
       /\ r.posterGas = poster /\ r.posterFee = fee /\ r.holdGas = h
       /\ r.filtered <=> b
       /\ r.version = ctx.version
  <2> DEFINE c == ResetPosterState(ctx)
  <2>1. c \in Context /\ c.intrinsic = tx.intrinsic /\ c.paid = 0 /\ c.version = ctx.version
    BY <1>1, ResetFields
  <2> HIDE DEF c
  <2>2. r = WithCharge(c, poster, fee, h, b)
    BY <1>2, <1>9 DEF WithCharge, c
  <2>3. ChargeIs(r, c, poster, fee, h, b)
    BY <1>5, <1>6, <1>7, <2>1, <2>2, ChargedContext
  <2> QED  BY <2>1, <2>3 DEF ChargeIs
<1>11. ChargeSplits(r)
  BY <1>1, <1>6, <1>7, <1>8, <1>10 DEF ChargeSplits
<1> QED  BY <1>11 DEF r

\* AuthorizationFails drops what the transaction did, the charge in the context apart.
LEMMA AuthorizationInv ==
    ASSUME GasInv, AuthorizationFails
    PROVE  GasInv'
<1>1. phase = "charge" /\ ctx' = ContextAfterCharge /\ Discard
  BY DEF AuthorizationFails
<1>2. ctx' \in Context /\ ctx'.version = env.version
  BY <1>1, ChargingContext DEF ChargeSplits
<1> QED  BY <1>1, <1>2, DiscardInv

\* GasChargingHook leaves the frame the compute gas.
LEMMA ChargingInv ==
    ASSUME GasInv, GasChargingHook
    PROVE  GasInv'
<1> DEFINE s == IF env.sequenced THEN [st EXCEPT !.units = @ + tx.units] ELSE st
<1>1. /\ GasType /\ Progress /\ Paid /\ phase = "charge" /\ tx.kind = "user" /\ tx \in TxType
      /\ Valid(tx) /\ ~report.settled
      /\ Total(st) = Total(committed) - env.baseFee * tx.limit
      /\ st \in State /\ env \in EnvType /\ ctx.version = env.version
  BY DEF GasChargingHook, GasInv, GasType, Progress, Paid
<1>2. /\ ctx' = ContextAfterCharge
      /\ st' = s /\ phase' = "execution" /\ UNCHANGED <<tx, env, gas, committed, report>>
  BY DEF GasChargingHook
<1>3. ChargeSplits(ctx')
  BY <1>1, <1>2, ChargingContext
<1>4. tx.units \in Nat
  BY <1>1, TxFields
<1>5. s \in State /\ Total(s) = Total(st)
  BY <1>1, <1>4 DEF State, Total
<1> HIDE DEF s
<1>6. GasType'
  BY <1>1, <1>2, <1>3, <1>5 DEF GasType, ChargeSplits
<1>7. Valid(tx)'
  BY <1>1, <1>2 DEF Valid
<1>8. Progress'
  BY <1>1, <1>2, <1>3, <1>7 DEF Progress, ChargeSplits
<1>9. Version' = Version /\ MaxCompute(tx.intrinsic)' = MaxCompute(tx.intrinsic) /\ (Filtered' <=> Filtered)
  <2>1. ctx'.version = env.version
    BY <1>3 DEF ChargeSplits
  <2> QED  BY <1>1, <1>2, <2>1 DEF Version, MaxCompute, Filtered
<1>10. Held'
  BY <1>2, <1>3, <1>9 DEF Held, ChargeSplits
<1>11. Total(st)' = Total(committed)' - env.baseFee * tx.limit
  BY <1>1, <1>2, <1>5 DEF Total
<1>12. Paid'
  BY <1>2, <1>11 DEF Paid
<1>13. Charged'
  BY <1>1, <1>2, <1>3, <1>9 DEF Charged, ChargeSplits
<1> QED  BY <1>2, <1>6, <1>8, <1>10, <1>12, <1>13, BusyInv DEF FrameDone, RefundDone, Capped

\* ExecuteFiltered burns all the gas.
LEMMA FilteredInv ==
    ASSUME GasInv, ExecuteFiltered
    PROVE  GasInv'
<1>1. /\ GasType /\ Progress /\ Paid /\ Charged /\ phase = "execution" /\ phase' = "refund"
      /\ UNCHANGED <<tx, env, ctx, st, committed>>
      /\ gas' = [remaining |-> 0, refund |-> 0] /\ ~report'.settled
      /\ ctx.filtered \/ (tx.kind = "retry" /\ Filtered)
  BY DEF ExecuteFiltered, GasInv
<1>2. Filtered /\ (tx.kind = "user" => ctx.filtered)
  BY <1>1 DEF Charged, Burning, Progress
<1>3. (Filtered' <=> Filtered) /\ (Valid(tx)' <=> Valid(tx)) /\ Total(st)' = Total(st)
      /\ Total(committed)' = Total(committed)
  BY <1>1 DEF Filtered, Version, Valid, Total
<1>4. GasType'
  BY <1>1 DEF GasType
<1>5. Progress' /\ Paid' /\ Charged'
  <2>1. Progress'
    BY <1>1, <1>3 DEF Progress
  <2>2. Paid'
    BY <1>1 DEF Paid
  <2>3. Charged'
    BY Zenon, <1>1, <1>3 DEF Charged, Burning
  <2> QED  BY <2>1, <2>2, <2>3
<1>6. FrameDone' /\ Capped'
  BY <1>1, <1>2, <1>3 DEF FrameDone, Capped
<1> QED  BY <1>1, <1>4, <1>5, <1>6, BusyInv DEF Held, RefundDone

\* ExecutionFails drops what the transaction did.
LEMMA FailsInv ==
    ASSUME GasInv, ExecutionFails
    PROVE  GasInv'
<1>1. phase # "idle" /\ ctx' = ctx /\ ctx \in Context /\ ctx.version \in {None, env.version} /\ Discard
  BY DEF ExecutionFails, GasInv, GasType, Progress
<1> QED  BY <1>1, DiscardInv

\* Held gas leaves the frame no more than the limit on computation.
LEMMA HeldGas ==
    ASSUME NEW l \in Nat, NEW i \in Nat, NEW p \in Nat, NEW m \in Nat, NEW h \in Nat,
           h = SubSat(SubSat(SubSat(l, i), p), m), i + p + h <= l
    PROVE  l - (i + p + h) <= m
  BY DEF SubSat

\* The settings that an owner may change in the middle of a transaction.
LEMMA OwnerKeeps ==
    ASSUME env \in EnvType, OwnerChanges
    PROVE  /\ env' \in EnvType /\ env'.version = env.version /\ env'.baseFee = env.baseFee
           /\ env'.blockLimit = env.blockLimit /\ env'.txLimit = env.txLimit
<1>1. PICK i \in BOOLEAN, f \in {0, env.minBaseFee} : env' = [env EXCEPT !.infra = i, !.minBaseFee = f]
  BY Zenon DEF OwnerChanges
<1> DEFINE a == [env EXCEPT !.infra = i]
           b == [a EXCEPT !.minBaseFee = f]
<1>2. /\ a \in EnvType /\ a.version = env.version /\ a.baseFee = env.baseFee
      /\ a.blockLimit = env.blockLimit /\ a.txLimit = env.txLimit
  BY DEF EnvType
<1>3. env' = b /\ f \in Nat
  BY <1>1, EnvFields
<1> HIDE DEF a
<1>4. /\ b \in EnvType /\ b.version = a.version /\ b.baseFee = a.baseFee
      /\ b.blockLimit = a.blockLimit /\ b.txLimit = a.txLimit
  BY <1>2 DEF EnvType
<1> HIDE DEF b
<1> QED  BY <1>2, <1>3, <1>4

\* Execution returns held gas with what is left of the compute gas.
LEMMA ExecutionInv ==
    ASSUME GasInv, Execution
    PROVE  GasInv'
<1>1. /\ GasType /\ Progress /\ Paid /\ Charged /\ Held /\ phase = "execution" /\ phase' = "refund"
      /\ UNCHANGED <<tx, ctx, committed>> /\ ~ctx.filtered /\ ~(tx.kind = "retry" /\ Filtered)
      /\ TotalInitial <= tx.limit /\ ctx \in Context /\ env \in EnvType /\ st \in State
      /\ tx \in TxType /\ tx.kind \in {"user", "retry"} /\ ctx.intrinsic = tx.intrinsic
  BY DEF Execution, GasInv, GasType, Progress
<1>2. PICK how \in {"ok", "revert", "halt"}, g \in FrameGas, r \in Refunds :
         LET frame == tx.limit - TotalInitial
             burnt == IF how = "halt" THEN frame ELSE Smaller(g, frame)
             held == IF tx.kind = "retry" THEN 0 ELSE ctx.holdGas
             recorded == IF how = "ok" THEN r ELSE 0
         IN /\ gas' = [remaining |-> frame - burnt + held, refund |-> recorded]
            /\ report' = [settled |-> FALSE, burnt |-> burnt, recorded |-> recorded]
            /\ IF how = "ok"
               THEN /\ OwnerChanges
                    /\ st' = IF tx.kind = "user"
                             THEN Credit(Credit(st, "sender", -tx.value), "callee", tx.value)
                             ELSE st
               ELSE UNCHANGED <<env, st>>
  BY Zenon DEF Execution
<1> DEFINE frame == tx.limit - TotalInitial
           burnt == IF how = "halt" THEN frame ELSE Smaller(g, frame)
           held == IF tx.kind = "retry" THEN 0 ELSE ctx.holdGas
           recorded == IF how = "ok" THEN r ELSE 0
<1>3. /\ gas' = [remaining |-> frame - burnt + held, refund |-> recorded] /\ ~report'.settled
      /\ report'.burnt = burnt /\ report'.recorded = recorded
  BY <1>2
<1>4. /\ env' \in EnvType /\ env'.version = env.version /\ env'.baseFee = env.baseFee
      /\ env'.blockLimit = env.blockLimit /\ env'.txLimit = env.txLimit
  BY <1>1, <1>2, OwnerKeeps
<1>5. st' \in State /\ Total(st)' = Total(st)
  <2>1. CASE how = "ok" /\ tx.kind = "user"
    <3> DEFINE v == tx.value
               w == -v
               s == Credit(st, "sender", w)
    <3>1. v \in Int /\ w \in Int /\ w + v = 0 /\ "sender" \in Holders /\ "callee" \in Holders
      BY <1>1, TxFields DEF Holders
    <3>2. st' = Credit(s, "callee", v)
      BY <1>2, <2>1
    <3> HIDE DEF v, w
    <3>3. s \in State /\ Total(s) = Total(st) + w
      BY <1>1, <3>1, CreditTotal
    <3> HIDE DEF s
    <3>4. st' \in State /\ Total(st)' = Total(s) + v
      BY <3>1, <3>2, <3>3, CreditTotal DEF Total
    <3> QED  BY <1>1, <3>1, <3>3, <3>4, TotalInt
  <2>2. CASE ~(how = "ok" /\ tx.kind = "user")
    <3>1. st' = st
      BY <1>2, <2>2
    <3> QED  BY <1>1, <3>1 DEF Total
  <2> QED  BY <2>1, <2>2
<1>6. Total(committed)' = Total(committed)
  BY <1>1 DEF Total
<1>7. Version = env.version /\ Version' = Version /\ (Filtered' <=> Filtered) /\ (Valid(tx)' <=> Valid(tx))
      /\ ~Filtered
  <2>1. Version = env.version /\ Version' = Version
    BY <1>1, <1>4, VersionIs DEF Version
  <2>2. ~Filtered
    BY <1>1 DEF Charged, Burning
  <2> QED  BY <1>1, <1>4, <2>1, <2>2 DEF Filtered, Valid
<1>8. /\ tx.limit \in Nat /\ tx.intrinsic \in Nat /\ ctx.posterGas \in Nat /\ ctx.holdGas \in Nat
      /\ TotalInitial = tx.intrinsic + ctx.posterGas + held /\ held \in Nat
      /\ g \in Nat /\ recorded \in Int
  BY <1>1, TxFields, ContextFields, AmountsAssumption DEF TotalInitial, Charged, Burning
<1>9. frame \in Nat /\ frame = tx.limit - (tx.intrinsic + ctx.posterGas + held)
  <2> HIDE DEF held
  <2> QED  BY <1>1, <1>8
<1>10. burnt \in Nat /\ burnt <= frame
  <2> HIDE DEF frame, held
  <2> QED  BY <1>8, <1>9 DEF Smaller
<1>11. gas'.remaining = tx.limit - (tx.intrinsic + burnt) - ctx.posterGas /\ gas'.remaining >= 0
       /\ gas'.refund = recorded /\ gas' \in [remaining : Int, refund : Int]
  <2> HIDE DEF frame, held, burnt, recorded
  <2> QED  BY <1>3, <1>8, <1>9, <1>10
<1>12. GasType'
  BY <1>1, <1>4, <1>5, <1>11 DEF GasType
<1>13. Progress'
  BY Zenon, <1>1, <1>3, <1>4, <1>7 DEF Progress
<1>14. Paid'
  BY Zenon, <1>1, <1>4, <1>5 DEF Paid
<1>15. Charged'
  BY Zenon, <1>1, <1>4, <1>7 DEF Charged, Burning
<1>16. FrameDone'
  <2> HIDE DEF frame, held, burnt, recorded
  <2> QED  BY <1>1, <1>3, <1>7, <1>10, <1>11 DEF FrameDone, Own
<1>17. ASSUME tx.kind = "user" PROVE WithinLimit'
  <2> DEFINE m == MaxCompute(tx.intrinsic)
  <2>1. /\ m \in Nat
        /\ Version < 50 => env.blockLimit = 0 \/ m = env.blockLimit
        /\ ~(Version < 50) => env.txLimit = 0 \/ m = SubSat(env.txLimit, tx.intrinsic)
    BY <1>1, <1>8, MaxComputeNat
  <2>2. held = ctx.holdGas
    BY <1>17
  <2>3. ctx.holdGas = SubSat(SubSat(SubSat(tx.limit, tx.intrinsic), ctx.posterGas), m)
    BY <1>1, <1>17 DEF Held
  <2>4. tx.intrinsic + ctx.posterGas + ctx.holdGas <= tx.limit
    BY <1>1, <1>8, <2>2
  <2> HIDE DEF m, frame, held
  <2>5. frame <= m
    BY Zenon, <1>8, <1>9, <2>1, <2>2, <2>3, <2>4, HeldGas
  <2> HIDE DEF burnt, recorded
  <2>6. burnt <= m
    BY <1>9, <1>10, <2>1, <2>5
  <2>7. env.blockLimit \in Nat /\ env.txLimit \in Nat /\ Version \in Nat
    BY <1>1, <1>7, EnvFields
  <2> QED  BY <1>1, <1>3, <1>4, <1>7, <1>8, <1>10, <2>1, <2>6, <2>7 DEF WithinLimit, SubSat, Larger
<1>18. Capped'
  BY <1>1, <1>17 DEF Capped
<1> QED  BY <1>1, <1>12, <1>13, <1>14, <1>15, <1>16, <1>18, BusyInv DEF Held, RefundDone

\* Refund caps the refund and applies the floor.
LEMMA RefundInv ==
    ASSUME GasInv, Refund
    PROVE  GasInv'
<1> DEFINE spent == SubSat(tx.limit, gas.remaining)
           capped == Smaller(Larger(gas.refund + AuthRefund, 0), MaxRefund(spent))
<1>1. /\ GasType /\ Progress /\ Paid /\ Charged /\ FrameDone /\ Capped /\ phase = "refund"
      /\ phase' = IF tx.kind = "user" THEN "reimburse" ELSE "end"
      /\ UNCHANGED <<tx, env, ctx, st, committed, report>>
      /\ gas' = IF spent - capped < tx.floor
                THEN [remaining |-> tx.limit - tx.floor, refund |-> 0]
                ELSE [gas EXCEPT !.refund = capped]
      /\ ctx \in Context /\ tx \in TxType /\ Valid(tx) /\ tx.kind \in {"user", "retry"} /\ ~report.settled
      /\ gas \in [remaining : Int, refund : Int]
  BY DEF Refund, GasInv, GasType, Progress
<1>2. /\ tx.limit \in Nat /\ tx.floor \in Nat /\ tx.floor <= tx.limit /\ tx.intrinsic \in Nat
      /\ ctx.posterGas \in Nat /\ gas.remaining \in Int /\ gas.refund \in Int
      /\ AuthRefund \in Int
  BY <1>1, TxFields, ContextFields DEF Valid, AuthRefund, Larger
<1>3. (Filtered' <=> Filtered) /\ (Valid(tx)' <=> Valid(tx)) /\ Total(st)' = Total(st)
      /\ Total(committed)' = Total(committed) /\ Own' = Own /\ Back' = Back
      /\ (WithinLimit' <=> WithinLimit)
  BY <1>1 DEF Filtered, Version, Valid, Total, Own, Back, AuthRefund, WithinLimit
<1>4. RefundDone' /\ gas' \in [remaining : Int, refund : Int]
  <2>1. CASE Filtered
    <3>1. gas.remaining = 0 /\ gas.refund = 0 /\ AuthRefund = 0
      BY <1>1, <2>1 DEF FrameDone, Charged, Burning, AuthRefund
    <3>2. spent = tx.limit
      BY <1>2, <3>1 DEF SubSat
    <3>3. MaxRefund(spent) \in Nat
      BY <1>2 DEF MaxRefund, Refundable, SubSat
    <3>4. capped = 0
      BY <3>1, <3>3 DEF Smaller, Larger
    <3> HIDE DEF spent, capped
    <3>5. gas' = [gas EXCEPT !.refund = capped]
      BY <1>1, <1>2, <3>2, <3>4
    <3>6. gas'.remaining = 0 /\ gas'.refund = 0 /\ gas' \in [remaining : Int, refund : Int]
      BY <1>1, <3>1, <3>4, <3>5
    <3> QED  BY <1>1, <1>2, <1>3, <2>1, <3>6 DEF RefundDone
  <2>2. CASE ~Filtered
    <3>1. /\ report.burnt \in Nat /\ gas.refund = report.recorded
          /\ gas.remaining = tx.limit - Own - ctx.posterGas /\ gas.remaining >= 0
      BY <1>1, <2>2 DEF FrameDone
    <3>2. Own \in Nat
      BY <1>2, <3>1 DEF Own
    <3>3. spent = Own + ctx.posterGas
      BY <1>2, <3>1, <3>2 DEF SubSat
    <3>4. Refundable(spent) = Own
      BY <1>2, <3>2, <3>3 DEF Refundable, SubSat
    <3>5. capped = Back
      BY <3>1, <3>4 DEF MaxRefund, Back
    <3>6. Back \in Nat /\ Back <= Own
      BY <1>2, <3>1, <3>2 DEF Back, Smaller, Larger
    <3> HIDE DEF spent, capped
    <3>7. CASE spent - capped < tx.floor
      <4>1. gas' = [remaining |-> tx.limit - tx.floor, refund |-> 0]
        BY <1>1, <3>7
      <4>2. gas'.remaining = tx.limit - tx.floor /\ gas'.refund = 0
        BY <4>1
      <4>3. Larger(tx.floor, Own + ctx.posterGas - Back) = tx.floor
        BY <1>2, <3>2, <3>3, <3>5, <3>6, <3>7 DEF Larger
      <4>4. gas' \in [remaining : Int, refund : Int]
        BY <1>2, <4>1
      <4>5. tx.floor >= ctx.posterGas
        BY <1>2, <3>2, <3>3, <3>5, <3>6, <3>7
      <4>6. /\ gas'.remaining \in Nat /\ gas'.refund \in Nat
            /\ gas'.remaining + gas'.refund <= tx.limit
            /\ tx.limit - gas'.remaining - gas'.refund = tx.floor
        BY <1>2, <4>2
      <4> QED  BY <1>1, <1>3, <2>2, <4>3, <4>5, <4>6 DEF RefundDone
    <3>8. CASE ~(spent - capped < tx.floor)
      <4>1. gas' = [gas EXCEPT !.refund = capped]
        BY <1>1, <3>8
      <4>2. gas'.remaining = gas.remaining /\ gas'.refund = Back
        BY <3>5, <4>1
      <4>3. Larger(tx.floor, Own + ctx.posterGas - Back) = Own + ctx.posterGas - Back
        <5>1. tx.floor <= Own + ctx.posterGas - Back
          BY <1>2, <3>2, <3>3, <3>5, <3>6, <3>8
        <5> QED  BY <1>2, <3>2, <3>6, <5>1 DEF Larger
      <4>4. gas' \in [remaining : Int, refund : Int]
        BY <1>1, <3>5, <3>6, <4>1
      <4>5. Own + ctx.posterGas - Back >= ctx.posterGas
        BY <1>2, <3>2, <3>6
      <4>6. /\ gas'.remaining \in Nat /\ gas'.refund \in Nat
            /\ gas'.remaining + gas'.refund <= tx.limit
            /\ tx.limit - gas'.remaining - gas'.refund = Own + ctx.posterGas - Back
        BY <1>2, <3>1, <3>2, <3>6, <4>2
      <4> QED  BY <1>1, <1>3, <2>2, <4>3, <4>5, <4>6 DEF RefundDone
    <3> QED  BY <3>7, <3>8
  <2> QED  BY <2>1, <2>2
<1>5. GasType'
  BY <1>1, <1>4 DEF GasType
<1>6. Progress'
  BY <1>1, <1>3 DEF Progress
<1>7. Charged'
  BY <1>1, <1>3 DEF Charged, Burning
<1>8. Paid'
  BY <1>1 DEF Paid
<1>9. Capped'
  BY <1>1, <1>3 DEF Capped
<1> QED  BY <1>1, <1>4, <1>5, <1>6, <1>7, <1>8, <1>9, BusyInv DEF Held, FrameDone

\* ReimburseCaller returns the base fee for the gas that is left.
LEMMA ReimburseInv ==
    ASSUME GasInv, ReimburseCaller
    PROVE  GasInv'
<1> DEFINE back == gas.remaining + gas.refund
           x == SnapshotPrice * back
<1>1. /\ GasType /\ Progress /\ Paid /\ Charged /\ RefundDone /\ Capped /\ phase = "reimburse"
      /\ phase' = "end" /\ UNCHANGED <<tx, env, ctx, gas, committed, report>>
      /\ st' = Credit(st, "sender", x) /\ st \in State /\ env \in EnvType /\ committed \in State
      /\ tx \in TxType /\ tx.kind = "user" /\ ~report.settled
      /\ Total(st) = Total(committed) - env.baseFee * tx.limit
  BY DEF ReimburseCaller, GasInv, GasType, Progress, Paid
<1>2. SnapshotPrice = env.baseFee /\ env.baseFee \in Nat /\ tx.limit \in Nat
  BY <1>1, EnvFields, TxFields DEF SnapshotPrice, Charged, Burning
<1>3. gas.remaining \in Nat /\ gas.refund \in Nat /\ back \in Nat
  BY <1>1 DEF RefundDone
<1>4. x = env.baseFee * back /\ x \in Int
  <2> HIDE DEF back
  <2> QED  BY <1>2, <1>3
<1> HIDE DEF x
<1>5. st' \in State /\ Total(st)' = Total(st) + x
  BY Zenon, <1>1, <1>4, CreditTotal DEF Holders, Total
<1>6. (Filtered' <=> Filtered) /\ (Valid(tx)' <=> Valid(tx)) /\ Total(committed)' = Total(committed)
      /\ Own' = Own /\ Back' = Back /\ (WithinLimit' <=> WithinLimit)
  BY Zenon, <1>1 DEF Filtered, Version, Valid, Total, Own, Back, AuthRefund, WithinLimit
<1>7. Total(st)' = Total(committed) - env.baseFee * (tx.limit - gas.remaining - gas.refund)
  <2> DEFINE T == Total(committed)
             b == env.baseFee
             l == tx.limit
  <2>1. T \in Int /\ Total(st)' = T - b * l + x
    BY <1>1, <1>5, TotalInt
  <2> HIDE DEF T, b
  <2>2. b * l + (- (b * back)) = b * (l - gas.remaining - gas.refund)
    BY <1>2, <1>3 DEF b
  <2> HIDE DEF back, l
  <2> QED  BY <1>2, <1>4, <2>1, <2>2 DEF T, b, l
<1>8. GasType'
  BY <1>1, <1>5 DEF GasType
<1>9. Progress'
  BY <1>1, <1>6 DEF Progress
<1>10. Paid'
  BY <1>1, <1>7 DEF Paid
<1>11. Charged'
  BY Zenon, <1>1, <1>6 DEF Charged, Burning
<1>12. RefundDone' /\ Capped'
  BY <1>1, <1>6 DEF RefundDone, Capped
<1> QED  BY Zenon, <1>1, <1>8, <1>9, <1>10, <1>11, <1>12, BusyInv DEF Held, FrameDone

\* The accounts together receive the price of the gas used.
LEMMA FeesSplit ==
    ASSUME NEW b \in Nat, NEW used \in Nat, NEW poster \in Nat, poster <= used
    PROVE  b * (used - poster) \in Nat /\ b * (used - poster) + b * poster = b * used
  OBVIOUS

\* Saturating subtraction is exact for the gas used.
LEMMA UsedIs ==
    ASSUME NEW l \in Nat, NEW r \in Nat, NEW f \in Nat, r + f <= l
    PROVE  SubSat(SubSat(l, r), f) = l - r - f /\ l - r - f \in Nat
<1>1. SubSat(l, r) = l - r /\ l - r \in Nat /\ f <= l - r
  BY DEF SubSat
<1> QED  BY <1>1 DEF SubSat

\* RewardBeneficiary pays out what the sender paid for, to the last unit.
LEMMA RewardInv ==
    ASSUME GasInv, RewardBeneficiary
    PROVE  GasInv'
<1> DEFINE cost == env.baseFee * ComputeGas
           split == SplitComputeCost(cost)
           tip == SubSat(SnapshotPrice, env.baseFee) * ComputeGas
           s1 == Credit(st, "infra", split.infra)
           n == IF env.network THEN "network" ELSE "nobody"
           x == split.network + tip
           s2 == Credit(s1, n, x)
           p == IF Version >= 2 THEN "pool" ELSE "coinbase"
           s3 == Credit(s2, p, ctx.posterFee)
           av == s3.available + (IF Version >= 10 THEN ctx.posterFee ELSE 0)
           bk == s3.backlog + ComputeGas
<1>1. /\ GasType /\ Progress /\ Paid /\ Charged /\ RefundDone /\ Capped /\ phase = "end"
      /\ phase' = "idle" /\ UNCHANGED <<tx, env, ctx, gas, committed>>
      /\ st \in State /\ committed \in State /\ env \in EnvType /\ ctx \in Context
      /\ tx \in TxType /\ tx.kind = "user" /\ ctx.version \in {None, env.version}
      /\ Total(st) = Total(committed) - env.baseFee * (tx.limit - gas.remaining - gas.refund)
  BY DEF RewardBeneficiary, GasInv, GasType, Progress, Paid
<1>2. /\ st' = [s3 EXCEPT !.available = av, !.backlog = bk]
      /\ report' = [settled |-> TRUE, burnt |-> report.burnt, recorded |-> report.recorded,
                    used |-> GasUsed, compute |-> ComputeGas, poster |-> ctx.posterGas,
                    overdrawn |-> ctx.filtered /\ ctx.posterGas > tx.limit]
  BY DEF RewardBeneficiary
<1>3. /\ env.baseFee \in Nat /\ env.minBaseFee \in Nat /\ tx.limit \in Nat /\ ctx.posterGas \in Nat
      /\ gas.remaining \in Nat /\ gas.refund \in Nat /\ gas.remaining + gas.refund <= tx.limit
      /\ ctx.posterFee = env.baseFee * ctx.posterGas /\ ctx.posterFee \in Nat
      /\ SnapshotPrice = env.baseFee /\ (ctx.filtered <=> Filtered)
  BY <1>1, EnvFields, TxFields, ContextFields DEF Charged, Burning, RefundDone, SnapshotPrice
<1>4. GasUsed = tx.limit - gas.remaining - gas.refund /\ GasUsed \in Nat
  BY <1>3, UsedIs DEF GasUsed
<1>5. ComputeGas \in Nat
  BY <1>3, <1>4 DEF ComputeGas, SubSat
<1>6. cost \in Nat
  BY <1>3, <1>5
<1>7. split.infra \in Int /\ split.network \in Int /\ split.infra + split.network = cost
  <2> DEFINE share == IF env.infra /\ Version >= 5
                      THEN Smaller(Smaller(env.minBaseFee, env.baseFee) * ComputeGas, cost) ELSE 0
  <2>1. Smaller(env.minBaseFee, env.baseFee) \in Nat
    BY <1>3 DEF Smaller
  <2>2. Smaller(env.minBaseFee, env.baseFee) * ComputeGas \in Nat
    BY <1>5, <2>1
  <2> HIDE DEF cost
  <2>3. share \in Int
    BY <1>6, <2>2 DEF Smaller
  <2>4. split = [infra |-> share, network |-> cost - share]
    BY DEF SplitComputeCost
  <2> HIDE DEF share, split
  <2> QED  BY <1>6, <2>3, <2>4
<1>8. tip = 0
  <2>1. SubSat(SnapshotPrice, env.baseFee) = 0
    BY <1>3 DEF SubSat
  <2> QED  BY <1>5, <2>1
<1> HIDE DEF split, tip, cost
<1>9. x \in Int /\ split.infra + x = cost
  BY <1>7, <1>8
<1>10. n \in Holders /\ p \in Holders /\ "infra" \in Holders
  BY DEF Holders
<1>11. s1 \in State /\ Total(s1) = Total(st) + split.infra
  BY <1>1, <1>7, <1>10, CreditTotal
<1> HIDE DEF s1, x, n
<1>12. s2 \in State /\ Total(s2) = Total(s1) + x
  BY <1>9, <1>10, <1>11, CreditTotal
<1> HIDE DEF s2, p
<1>13. s3 \in State /\ Total(s3) = Total(s2) + ctx.posterFee
  BY <1>3, <1>10, <1>12, CreditTotal
<1> HIDE DEF s3
<1>14. av \in Nat /\ bk \in Nat
  BY <1>3, <1>5, <1>13 DEF State
<1> HIDE DEF av, bk
<1>15. st' \in State /\ Total(st)' = Total(s3)
  BY Zenon, <1>2, <1>13, <1>14 DEF State, Total
<1>16. Total(st)' = Total(committed) - env.baseFee * GasUsed + cost + ctx.posterFee
  <2>1. Total(st) \in Int /\ Total(committed) \in Int
    BY <1>1, TotalInt
  <2> QED  BY <1>1, <1>4, <1>7, <1>9, <1>11, <1>12, <1>13, <1>15, <2>1
<1>17. (Filtered' <=> Filtered) /\ Total(committed)' = Total(committed) /\ Version' = Version
  BY <1>1 DEF Filtered, Version, Total
<1>18. /\ report'.settled /\ report'.burnt = report.burnt /\ report'.recorded = report.recorded
       /\ report'.used = GasUsed /\ report'.poster = ctx.posterGas
       /\ report'.overdrawn <=> (ctx.filtered /\ ctx.posterGas > tx.limit)
  BY Zenon, <1>2
<1>19. FeesConserved'
  <2> SUFFICES ASSUME ~report'.overdrawn PROVE Total(st)' = Total(committed)'
    BY DEF FeesConserved
  <2>1. ctx.posterGas <= GasUsed
    <3>1. CASE Filtered
      BY <1>1, <1>3, <1>4, <1>18 DEF RefundDone
    <3>2. CASE ~Filtered
      BY <1>1, <1>4, <3>2 DEF RefundDone
    <3> QED  BY <3>1, <3>2
  <2>2. ComputeGas = GasUsed - ctx.posterGas
    BY <1>3, <1>4, <2>1 DEF ComputeGas, SubSat
  <2>3. cost \in Nat /\ cost + ctx.posterFee = env.baseFee * GasUsed
    <3> DEFINE b == env.baseFee
               used == GasUsed
               poster == ctx.posterGas
    <3>1. b \in Nat /\ used \in Nat /\ poster \in Nat /\ poster <= used
      BY <1>3, <1>4, <2>1
    <3>2. cost = b * (used - poster) /\ ctx.posterFee = b * poster
      BY <1>3, <2>2 DEF cost
    <3> HIDE DEF b, used, poster
    <3>3. cost \in Nat /\ cost + ctx.posterFee = b * used
      BY <3>1, <3>2
    <3> QED  BY <3>3 DEF b, used
  <2>4. Total(committed) \in Int /\ env.baseFee * GasUsed \in Nat
    BY <1>1, <1>3, <1>4, TotalInt
  <2> QED  BY <1>3, <1>16, <1>17, <2>3, <2>4
<1>20. ComputeCapped'
  BY <1>1, <1>17, <1>18 DEF ComputeCapped, Capped, WithinLimit, Settled
<1>21. GasUsedExact'
  <2> SUFFICES ASSUME ~Filtered
               PROVE  report'.used = Larger(tx.floor, Own + report'.poster - Back)
    BY <1>1, <1>17, <1>18 DEF GasUsedExact, Settled, Own, Back, AuthRefund
  <2> QED  BY Zenon, <1>1, <1>4, <1>18 DEF RefundDone
<1>22. GasType'
  BY Zenon, <1>1, <1>15 DEF GasType
<1> QED  BY Zenon, <1>1, <1>19, <1>20, <1>21, <1>22
         DEF GasInv, Progress, Paid, Charged, Burning, Held, FrameDone, RefundDone, Capped

\* RetryEndTxHook settles a retry.
LEMMA RetryEndInv ==
    ASSUME GasInv, RetryEndTxHook
    PROVE  GasInv'
<1>1. /\ GasType /\ Progress /\ Charged /\ RefundDone /\ phase = "end" /\ phase' = "idle"
      /\ UNCHANGED <<tx, env, ctx, gas, st, committed>> /\ tx \in TxType /\ tx.kind = "retry"
      /\ report' = [settled |-> TRUE, burnt |-> report.burnt, recorded |-> report.recorded,
                    used |-> GasUsed, compute |-> GasUsed, poster |-> 0, overdrawn |-> FALSE]
      /\ ctx.version \in {None, env.version}
  BY Zenon DEF RetryEndTxHook, GasInv, Progress
<1>2. /\ tx.limit \in Nat /\ gas.remaining \in Nat /\ gas.refund \in Nat
      /\ gas.remaining + gas.refund <= tx.limit /\ ctx.posterGas = 0
  BY Zenon, <1>1, TxFields DEF RefundDone, Charged, Burning
<1>3. GasUsed = tx.limit - gas.remaining - gas.refund
  BY Zenon, <1>2, UsedIs DEF GasUsed
<1>4. /\ report'.settled /\ report'.burnt = report.burnt /\ report'.recorded = report.recorded
      /\ report'.used = GasUsed /\ report'.poster = 0
  BY <1>1
<1>5. Filtered' <=> Filtered
  BY Zenon, <1>1 DEF Filtered, Version
<1>6. FeesConserved' /\ ComputeCapped'
  BY Zenon, <1>1 DEF FeesConserved, ComputeCapped, Settled
<1>7. GasUsedExact'
  <2> SUFFICES ASSUME ~Filtered
               PROVE  report'.used = Larger(tx.floor, Own + report'.poster - Back)
    BY Zenon, <1>1, <1>5 DEF GasUsedExact, Settled, Own, Back, AuthRefund
  <2> QED  BY Zenon, <1>1, <1>2, <1>3 DEF RefundDone
<1>8. GasType'
  BY Zenon, <1>1 DEF GasType
<1> QED  BY Zenon, <1>1, <1>6, <1>7, <1>8
         DEF GasInv, Progress, Paid, Charged, Burning, Held, FrameDone, RefundDone, Capped

\* A step that leaves the gas alone.
LEMMA GasUnchanged ==
    ASSUME GasInv, UNCHANGED gasVars
    PROVE  GasInv'
<1> USE DEF gasVars
<1>1. GasType' /\ (Filtered' <=> Filtered) /\ (Valid(tx)' <=> Valid(tx)) /\ Total(st)' = Total(st)
      /\ Total(committed)' = Total(committed) /\ Own' = Own /\ Back' = Back
      /\ (WithinLimit' <=> WithinLimit) /\ MaxCompute(tx.intrinsic)' = MaxCompute(tx.intrinsic)
  BY DEF GasInv, GasType, Filtered, Version, Valid, Total, Own, Back, AuthRefund, WithinLimit, MaxCompute
<1>2. Progress' /\ Paid' /\ Charged'
  BY Zenon, <1>1 DEF GasInv, Progress, Paid, Charged, Burning
<1>3. Held' /\ FrameDone' /\ RefundDone' /\ Capped'
  BY <1>1 DEF GasInv, Held, FrameDone, RefundDone, Capped
<1>4. FeesConserved'
  BY <1>1 DEF GasInv, FeesConserved, Settled
<1>5. ComputeCapped' /\ GasUsedExact'
  BY <1>1 DEF GasInv, ComputeCapped, GasUsedExact, Settled, Version, AuthRefund
<1> QED  BY <1>1, <1>2, <1>3, <1>4, <1>5 DEF GasInv

\* Every step keeps the invariant.
LEMMA GasNextInv ==
    ASSUME GasInv, [GasNext]_gasVars
    PROVE  GasInv'
<1>1. ASSUME NEW t \in Txs, Validate(t) PROVE GasInv'
  BY <1>1, ValidateInv
<1>2. CASE GasNext
  BY <1>1, <1>2, BypassInv, DeductInv, ChargingInv, AuthorizationInv, FilteredInv, FailsInv, ExecutionInv,
     RefundInv, ReimburseInv, RewardInv, RetryEndInv DEF GasNext
<1> QED  BY <1>2, GasUnchanged

\* For all settings and transactions: what a user transaction takes from its sender less
\* what reimburse_caller gives back is what the callee, the fee accounts and the L1 pool
\* receive, unless a filtered transaction has more poster gas than its limit.
THEOREM FeesStayConserved == GasSpec => []FeesConserved
<1>1. GasInv => FeesConserved
  BY DEF GasInv
<1> QED  BY GasInitInv, GasNextInv, <1>1, PTL DEF GasSpec

\* The gas that gas_charging_hook holds back keeps the frame of every user transaction
\* within the compute limit of the block, or from version 50 on of the transaction.  A
\* retry, for which no gas is held back, is not in the statement.
THEOREM ComputeStaysCapped == GasSpec => []ComputeCapped
<1>1. GasInv => ComputeCapped
  BY DEF GasInv
<1> QED  BY GasInitInv, GasNextInv, <1>1, PTL DEF GasSpec

\* The gas used is intrinsic gas, poster gas and what the frame burnt, less the capped
\* refund and at least the floor, for user transactions and retries in any order:
\* nothing that an earlier transaction left in the context counts.  The refund is
\* the frame's and that of the authorization list, which a failed frame keeps.
THEOREM GasUsedStaysExact == GasSpec => []GasUsedExact
<1>1. GasInv => GasUsedExact
  BY DEF GasInv
<1> QED  BY GasInitInv, GasNextInv, <1>1, PTL DEF GasSpec

-----------------------------------------------------------------------------
(* Arithmetic.                                                             *)

\* Products keep signs.
LEMMA Products ==
    ASSUME NEW a \in Int, NEW b \in Nat
    PROVE  /\ a * b \in Int
           /\ a >= 0 => a * b >= 0
           /\ a <= 0 => a * b <= 0
  BY SMT

\* A product of natural numbers is one.
LEMMA ProductNat ==
    ASSUME NEW a \in Nat, NEW b \in Nat
    PROVE  a * b \in Nat
  BY SMT

\* Division by a positive number rounds down.
LEMMA Quotient ==
    ASSUME NEW a \in Int, NEW b \in Nat \ {0}
    PROVE  /\ a \div b \in Int
           /\ (a \div b) * b <= a
           /\ a < (a \div b) * b + b
           /\ a >= 0 => a \div b >= 0
           /\ a <= 0 => a \div b <= 0
  BY SMT

\* A product of natural numbers grows with its factors.
LEMMA ProductGrows ==
    ASSUME NEW a \in Nat, NEW b \in Nat, NEW c \in Nat, b <= c
    PROVE  a * b <= a * c
  <1>1. PICK d \in Nat : c = b + d
    BY SMT
  <1>2. a * c = a * b + a * d
    BY <1>1, SMT
  <1> QED  BY ProductNat, SMT

\* A share of a whole is at most the whole.
LEMMA Share ==
    ASSUME NEW u \in Nat, NEW n \in Nat, NEW d \in Nat \ {0}, n <= d
    PROVE  (u * n) \div d \in 0..u
  <1> DEFINE q == (u * n) \div d
  <1>1. u * n \in Nat /\ u * d \in Nat /\ u * n <= u * d
    BY ProductGrows
  <1>2. q \in Nat /\ q * d <= u * n
    BY Quotient
  <1>3. ASSUME q > u PROVE FALSE
    <2>1. d * (u + 1) <= d * q
      BY <1>3
    <2>2. d * (u + 1) = u * d + d /\ d * q = q * d
      BY <1>2, SMT
    <2> QED  BY <2>1
  <1> QED  BY <1>3

\* The quotient is the only number with its bounds.
LEMMA QuotientUnique ==
    ASSUME NEW a \in Int, NEW b \in Nat \ {0}, NEW q \in Int, q * b <= a, a < q * b + b
    PROVE  a \div b = q
  BY SMT

\* div_i256_like_go_bigint is Euclidean division for a positive divisor, as its comment
\* says: it agrees with division that rounds down for dividends of either sign.
THEOREM DivIsEuclidean ==
    ASSUME NEW a \in Int, NEW b \in Nat \ {0}
    PROVE  DivLikeGo(a, b) = a \div b
  <1>1. CASE a >= 0
    <2>1. a \div b \in Int /\ (a \div b) * b <= a
      BY Quotient
    <2> QED  BY <2>1 DEF DivLikeGo
  <1>2. CASE a < 0
    <2> DEFINE c == (-a) \div b
    <2>1. c \in Int /\ c * b <= -a /\ -a < c * b + b
      BY Quotient
    <2>2. (-c) * b = -(c * b) /\ (-c - 1) * b = -(c * b) - b /\ c * b \in Int
      BY <2>1, SMT
    <2>3. DivLikeGo(a, b) = IF a + c * b < 0 THEN -c - 1 ELSE -c
      BY <2>2 DEF DivLikeGo
    <2> HIDE DEF c
    <2>4. CASE a + c * b < 0
      <3>1. a \div b = -c - 1
        BY <2>1, <2>4
      <3> QED  BY <2>3, <2>4, <3>1
    <2>5. CASE ~(a + c * b < 0)
      <3>1. a \div b = -c
        BY <2>1, <2>5
      <3> QED  BY <2>3, <2>5, <3>1
    <2> QED  BY <2>4, <2>5
  <1> QED  BY <1>1, <1>2

\* div_i256_like_go_bigint rounds down, and so keeps the sign of the dividend.
LEMMA DivFacts ==
    ASSUME NEW a \in Int, NEW b \in Nat \ {0}
    PROVE  /\ DivLikeGo(a, b) \in Int
           /\ a >= 0 => DivLikeGo(a, b) >= 0
           /\ a <= 0 => DivLikeGo(a, b) <= 0
  BY Zenon, Quotient, DivIsEuclidean

\* What is left of a is no less than nothing.
LEMMA MonusOfLess ==
    ASSUME NEW a \in Nat, NEW b \in 0..a
    PROVE  Monus(a, b) \in Nat /\ Monus(a, b) = a - b
  BY DEF Monus

\* What is due for rewards does not fall by a reward of at most the target.
LEMMA RewardLeft ==
    ASSUME NEW due \in Nat, NEW target \in Nat, NEW reward \in 0..target
    PROVE  Monus(due + target, reward) \in Nat /\ Monus(due + target, reward) >= due
  BY DEF Monus

\* The surplus may be negative.
LEMMA SurplusInt ==
    ASSUME NEW counter \in Nat, NEW balance \in Nat, NEW due \in Nat, NEW total \in Int
    PROVE  Surplus(counter, balance, due, total) \in Int
  BY DEF Surplus, Funds

\* The numbers that the upgrades install.
LEMMA UpgradeNumbers == MaxBips \in Nat /\ PerBatchGasV12 \in Int /\ 0 \in Int
  BY NumbersAssumption

-----------------------------------------------------------------------------
(* The poster table.                                                       *)

\* Nothing is due to an address that was never registered.
Clean(tab) == \A p \in Posters : p \notin tab.members => tab.due[p] = 0

\* Opening a poster registers it and changes nothing that is due.
LEMMA OpenFacts ==
    ASSUME NEW tab \in Table, Clean(tab), NEW p \in Posters
    PROVE  /\ OpenPoster(tab, p) \in Table
           /\ OpenPoster(tab, p).due = tab.due
           /\ p \in OpenPoster(tab, p).members
           /\ tab.members \subseteq OpenPoster(tab, p).members
  <1>1. CASE p \in tab.members
    BY <1>1 DEF OpenPoster
  <1>2. CASE p \notin tab.members
    <2>1. [tab.due EXCEPT ![p] = 0] = tab.due
      BY <1>2 DEF Clean, Table
    <2>2. OpenPoster(tab, p) = [tab EXCEPT !.members = tab.members \cup {p},
                                           !.due = [tab.due EXCEPT ![p] = 0],
                                           !.payTo = [tab.payTo EXCEPT ![p] = p]]
      BY <1>2 DEF OpenPoster, AddPoster, Table
    <2> DEFINE m == tab.members \cup {p}
               w == [tab.payTo EXCEPT ![p] = p]
    <2>3. w \in [Posters -> Payees] /\ m \in SUBSET Posters /\ p \in m /\ tab.members \subseteq m
      BY DEF Table, Payees
    <2>4. OpenPoster(tab, p) = [tab EXCEPT !.members = m, !.due = tab.due, !.payTo = w]
      BY Zenon, <2>1, <2>2
    <2> HIDE DEF m, w
    <2> QED  BY Zenon, <2>3, <2>4 DEF Table
  <1> QED  BY <1>1, <1>2

\* What set_funds_due changes.
LEMMA SetDueFacts ==
    ASSUME NEW tab \in Table, NEW p \in Posters, NEW amount \in Nat
    PROVE  /\ SetFundsDue(tab, p, amount) \in Table
           /\ SetFundsDue(tab, p, amount).due = [tab.due EXCEPT ![p] = amount]
           /\ SetFundsDue(tab, p, amount).due[p] = amount
           /\ SetFundsDue(tab, p, amount).members = tab.members
           /\ SetFundsDue(tab, p, amount).payTo = tab.payTo
  <1> DEFINE d == [tab.due EXCEPT ![p] = amount]
             s == tab.totalDue + amount - tab.due[p]
  <1>1. d \in [Posters -> Nat] /\ s \in Int /\ d[p] = amount
    BY DEF Table
  <1>2. SetFundsDue(tab, p, amount) = [tab EXCEPT !.due = d, !.totalDue = s]
    BY DEF SetFundsDue, Table
  <1> HIDE DEF d, s
  <1>3. [tab EXCEPT !.due = d, !.totalDue = s] \in Table
    BY Zenon, <1>1 DEF Table
  <1> QED  BY <1>2, <1>3 DEF Table, d

-----------------------------------------------------------------------------
(* What a report charges and pays.                                         *)

\* A report in order covers a share of the time since the last one.
LEMMA AllocatedFacts ==
    ASSUME TypeOK, NEW time \in Nat, InOrder(time)
    PROVE  UnitsAllocated(time) \in 0..unitsSince
  <1> DEFINE last == PreviousUpdate(time)
  <1>1. last \in Nat /\ last <= time /\ time <= now /\ now \in Nat /\ unitsSince \in Nat
    BY DEF TypeOK, InOrder, PreviousUpdate
  <1> HIDE DEF last
  <1>2. CASE now - last = 0
    <2>1. UnitsAllocated(time) = unitsSince
      BY <1>2 DEF UnitsAllocated, last
    <2> QED  BY <1>1, <2>1
  <1>3. CASE now - last # 0
    <2>1. UnitsAllocated(time) = (unitsSince * (time - last)) \div (now - last)
      BY <1>3 DEF UnitsAllocated, last
    <2>2. time - last \in Nat /\ now - last \in Nat \ {0} /\ time - last <= now - last
      BY <1>1, <1>3
    <2> QED  BY <1>1, <2>1, <2>2
  <1> QED  BY <1>2, <1>3

\* The gas a report says was spent is a natural number.
LEMMA GasSpentNat ==
    ASSUME TypeOK, NEW batch \in Batches
    PROVE  GasSpent(batch) \in Nat /\ batch.baseFee \in Nat
  <1>0. batch \in Batch /\ par.perBatchGas \in Int /\ par.gasFloorPerToken \in Nat
    BY NumbersAssumption DEF TypeOK, Parameters
  <1> DEFINE perBatch == Monus(par.perBatchGas, 0)
  <1>1. perBatch \in Nat
    BY <1>0 DEF Monus
  <1> HIDE DEF perBatch
  <1>2. CASE batch.v2 = FALSE
    <2>1. batch.dataGas \in Nat /\ batch.baseFee \in Nat
      BY Zenon, <1>0, <1>2 DEF Batch
    <2> QED  BY <1>1, <1>2, <2>1 DEF GasSpent, perBatch
  <1>3. CASE batch.v2 = TRUE
    <2> DEFINE n == batch.length
               z == batch.nonZeros
    <2>1. n \in Nat /\ z \in Nat /\ batch.extraGas \in Nat /\ batch.baseFee \in Nat
      BY Zenon, <1>0, <1>3 DEF Batch
    <2> HIDE DEF n, z
    <2>2. LegacyBatchCost(n, z) \in Nat
      <3> DEFINE words == (n + WordSize - 1) \div WordSize
      <3>1. Monus(n, z) \in Nat
        BY <2>1 DEF Monus
      <3>2. words \in Nat
        BY <2>1, NumbersAssumption
      <3> HIDE DEF words
      <3>3. /\ DataZeroGas * Monus(n, z) \in Nat /\ DataNonZeroGas * z \in Nat
            /\ KeccakWordGas * words \in Nat /\ KeccakGas \in Nat /\ SstoreGas \in Nat
        BY <2>1, <3>1, <3>2, NumbersAssumption
      <3> QED  BY <3>3 DEF LegacyBatchCost, words
    <2>3. FloorGas(n, z) \in Nat
      <3>1. n + 3 * z + FloorTokens \in Nat /\ TxGas \in Nat
        BY <2>1, NumbersAssumption
      <3> QED  BY <1>0, <3>1 DEF FloorGas
    <2> QED  BY <1>1, <1>3, <2>1, <2>2, <2>3 DEF GasSpent, perBatch, n, z
  <1> QED  BY Zenon, <1>0, <1>2, <1>3 DEF Batch

\* What is charged to a poster is a natural number.
LEMMA AmortizedNat ==
    ASSUME TypeOK, NEW wei \in Nat, NEW fee \in Nat, NEW units \in Nat
    PROVE  Amortized(wei, fee, units) \in Nat
  <1> DEFINE cap == (fee * units * par.costCapBips) \div OneInBips
  <1>1. fee * units * par.costCapBips \in Nat
    BY ProductNat DEF TypeOK, Parameters
  <1>2. cap \in Nat
    BY <1>1, NumbersAssumption
  <1> HIDE DEF cap
  <1> QED  BY <1>2 DEF Amortized, Lesser, cap

\* The counter is unused before version 10.
CounterUnused == ~UsesCounter(version) => available = 0

\* The payments of a report are covered by the pool and keep the counter covered by it.
LEMMA PaymentFacts ==
    ASSUME TypeOK, AvailableCovered, CounterUnused, NEW claim \in Table, NEW p \in Posters,
           NEW target \in Nat
    PROVE  LET pay == Payment(claim, p, target)
           IN /\ pay.funded
              /\ pay.reward \in 0..target /\ pay.paid \in 0..claim.due[p]
              /\ pay.available \in Nat /\ pay.pool \in Nat
              /\ pay.available <= pay.pool
  <1> DEFINE reward == Lesser(target, Funds(available, pool))
             counter == CounterAfter(available, reward)
             balance == BalanceAfter(pool, par.payRewardsTo, reward)
             due == claim.due[p]
             paid == Lesser(due, Funds(counter, balance))
             counter2 == CounterAfter(counter, paid)
             balance2 == BalanceAfter(balance, claim.payTo[p], paid)
  <1>1. available \in Nat /\ pool \in Nat /\ available <= pool /\ due \in Nat
    BY DEF TypeOK, AvailableCovered, Table
  <1>2. Funds(available, pool) \in 0..pool
    BY <1>1 DEF Funds
  <1>3. reward \in 0..target /\ reward <= Funds(available, pool)
    BY <1>2 DEF Lesser
  <1> HIDE DEF reward, due
  <1>4. /\ counter \in Nat /\ balance \in Nat /\ counter <= balance /\ reward <= pool
        /\ ~UsesCounter(version) => counter = 0
    BY <1>1, <1>3 DEF CounterAfter, BalanceAfter, Monus, Funds, CounterUnused
  <1> HIDE DEF counter, balance
  <1>5. Funds(counter, balance) \in 0..balance
    BY <1>4 DEF Funds
  <1>6. paid \in 0..due /\ paid <= Funds(counter, balance)
    BY <1>1, <1>5 DEF Lesser
  <1> HIDE DEF paid
  <1>7. counter2 \in Nat /\ balance2 \in Nat /\ counter2 <= balance2 /\ paid <= balance
    BY <1>4, <1>6 DEF CounterAfter, BalanceAfter, Monus, Funds
  <1> HIDE DEF counter2, balance2
  <1> DEFINE covered == reward <= pool /\ paid <= balance
             pay == [reward |-> reward, paid |-> paid, funded |-> covered,
                     available |-> counter2, pool |-> balance2]
  <1>8. covered
    BY Zenon, <1>4, <1>7
  <1>9. Payment(claim, p, target) = pay
    BY Zenon DEF Payment, reward, counter, balance, due, paid, counter2, balance2
  <1> HIDE DEF covered
  <1>10. /\ pay.reward = reward /\ pay.paid = paid /\ pay.available = counter2
         /\ pay.pool = balance2 /\ pay.funded = covered
    OBVIOUS
  <1> HIDE DEF pay
  <1>11. pay.funded
    BY <1>8, <1>10, Zenon
  <1> QED  BY <1>3, <1>6, <1>7, <1>9, <1>10, <1>11 DEF due
-----------------------------------------------------------------------------
(* The price.                                                              *)

\* The price moves against a surplus that grows and with a deficit that grows.
LEMMA PriceChangeFacts ==
    ASSUME TypeOK, NEW units \in Nat, NEW surplus \in Int, Reprices(units)
    PROVE  /\ PriceChange(units, surplus) \in Int
           /\ surplus >= 0 /\ surplus >= lastSurplus => PriceChange(units, surplus) <= 0
           /\ surplus <= 0 /\ surplus <= lastSurplus => PriceChange(units, surplus) >= 0
  <1> DEFINE desired == DivLikeGo(-surplus, par.equilibrationUnits)
             actual == DivLikeGo(surplus - lastSurplus, units)
             weight == par.equilibrationUnits \div par.inertia + units
             change == (desired - actual) * units
  <1>1. /\ par.equilibrationUnits \in Nat \ {0} /\ par.inertia \in Nat \ {0}
        /\ units \in Nat \ {0} /\ lastSurplus \in Int
    BY DEF TypeOK, Parameters, Reprices
  <1>2. /\ desired \in Int
        /\ surplus >= 0 => desired <= 0
        /\ surplus <= 0 => desired >= 0
    BY <1>1, DivFacts
  <1>3. /\ actual \in Int
        /\ surplus >= lastSurplus => actual >= 0
        /\ surplus <= lastSurplus => actual <= 0
    BY <1>1, DivFacts
  <1>4. weight \in Nat \ {0}
    BY <1>1
  <1> HIDE DEF desired, actual, weight
  <1>5. /\ change \in Int
        /\ surplus >= 0 /\ surplus >= lastSurplus => change <= 0
        /\ surplus <= 0 /\ surplus <= lastSurplus => change >= 0
    BY <1>2, <1>3
  <1> HIDE DEF change
  <1>6. PriceChange(units, surplus) = DivLikeGo(change, weight)
    BY DEF PriceChange, desired, actual, weight, change
  <1> QED  BY <1>4, <1>5, <1>6, DivFacts

\* The price that results.
LEMMA NextPriceFacts ==
    ASSUME TypeOK, NEW units \in Nat, NEW surplus \in Int, Reprices(units)
    PROVE  /\ NextPrice(units, surplus) \in Nat
           /\ surplus >= 0 /\ surplus >= lastSurplus => NextPrice(units, surplus) <= price
           /\ surplus <= 0 /\ surplus <= lastSurplus => NextPrice(units, surplus) >= price
  <1>1. price \in Nat
    BY DEF TypeOK
  <1> QED  BY <1>1, PriceChangeFacts DEF NextPrice, Monus

-----------------------------------------------------------------------------
(* The inductive invariant.                                                *)

\* The safety properties, with what makes them inductive: the counter is unused before
\* version 10, where only the balance limits payments, and no report is ahead of the chain.
Inv ==
    /\ TypeOK
    /\ AvailableCovered /\ CounterUnused /\ PaymentsSucceed
    /\ SpendingSettled /\ UnitsChargedOnce
    /\ lastUpdateTime <= now

\* What a step does to the price, if it reports, the arrears and the time of the update.
Moves(reports) ==
    /\ rewardsDue' >= rewardsDue
    /\ lastUpdateTime' >= lastUpdateTime /\ lastUpdateTime' <= now'
    /\ reports /\ version >= 7
         => /\ lastSurplus' >= 0 /\ lastSurplus' >= lastSurplus => price' <= price
            /\ lastSurplus' <= 0 /\ lastSurplus' <= lastSurplus => price' >= price

\* The fields of the history.
LEMMA HistoryFields ==
    ASSUME TypeOK
    PROVE  /\ history.units \in Nat /\ history.allocated \in Nat
           /\ history.spent \in [Posters -> Nat] /\ history.settled \in [Posters -> Nat]
           /\ history.txs \in Nat /\ history.reports \in Nat /\ history.calls \in Nat
  BY DEF TypeOK, History

\* What is spent is settled or due, when a claim is paid in part.
LEMMA SettledOrDue ==
    ASSUME TypeOK, SpendingSettled, NEW p \in Posters, NEW wei \in Nat,
           NEW claimed, claimed = table.due[p] + wei, NEW paid \in 0..claimed,
           history'.spent = [history.spent EXCEPT ![p] = history.spent[p] + wei],
           history'.settled = [history.settled EXCEPT ![p] = history.settled[p] + paid],
           table'.due = [[table.due EXCEPT ![p] = claimed] EXCEPT ![p] = claimed - paid],
           p \in table'.members, table.members \subseteq table'.members
    PROVE  SpendingSettled'
  <1> SUFFICES ASSUME NEW q \in Posters
               PROVE  /\ history'.spent[q] = history'.settled[q] + table'.due[q]
                      /\ q \notin table'.members => table'.due[q] = 0
    BY Zenon DEF SpendingSettled
  <1>1. /\ history.spent \in [Posters -> Nat] /\ history.settled \in [Posters -> Nat]
        /\ table.due \in [Posters -> Nat]
    BY HistoryFields DEF TypeOK, Table
  <1>2. history.spent[q] = history.settled[q] + table.due[q]
    BY Zenon DEF SpendingSettled
  <1>3. CASE q = p
    BY <1>1, <1>2, <1>3
  <1>4. CASE q # p
    BY <1>1, <1>2, <1>4 DEF SpendingSettled
  <1> QED  BY <1>3, <1>4

\* A report never fails, and keeps the invariant.
LEMMA ReportInv ==
    ASSUME Inv, NEW p \in Posters, NEW time \in 0..MaxTime, NEW batch \in Batches,
           Report(p, time, batch)
    PROVE  Inv' /\ Moves(TRUE)
  <1> DEFINE units == UnitsAllocated(time)
             opened == OpenPoster(table, p)
             wei == Amortized(batch.baseFee * GasSpent(batch), batch.baseFee, units)
             claimed == opened.due[p] + wei
             claim == SetFundsDue(opened, p, claimed)
             target == par.perUnitReward * units
             pay == Payment(claim, p, target)
             left == Monus(claim.due[p], pay.paid)
             settled == SetFundsDue(claim, p, left)
             due == Monus(rewardsDue + target, pay.reward)
             surplus == Surplus(pay.available, pay.pool, due, settled.totalDue)
  <1>0. TypeOK /\ time \in Nat /\ InOrder(time)
    BY NumbersAssumption DEF Inv, Report
  <1>1. units \in 0..unitsSince /\ unitsSince \in Nat
    BY <1>0, AllocatedFacts DEF TypeOK
  <1> HIDE DEF units
  <1>2. wei \in Nat
    <2>1. GasSpent(batch) \in Nat /\ batch.baseFee \in Nat
      BY <1>0, GasSpentNat
    <2>2. batch.baseFee * GasSpent(batch) \in Nat
      BY <2>1
    <2>3. units \in Nat
      BY <1>1
    <2> QED  BY Zenon, <1>0, <2>1, <2>2, <2>3, AmortizedNat
  <1> HIDE DEF wei
  <1>3. /\ opened \in Table /\ opened.due = table.due /\ p \in opened.members
        /\ table.members \subseteq opened.members
    <2>1. table \in Table /\ Clean(table)
      BY Zenon DEF Inv, TypeOK, SpendingSettled, Clean
    <2> QED  BY <2>1, OpenFacts
  <1>4. claimed \in Nat /\ opened.due[p] \in Nat
    BY <1>2, <1>3 DEF Table
  <1> HIDE DEF opened
  <1>5. /\ claim \in Table /\ claim.due = [opened.due EXCEPT ![p] = claimed]
        /\ claim.due[p] = claimed /\ claim.members = opened.members
    BY <1>3, <1>4, SetDueFacts
  <1> HIDE DEF claim
  <1>6. target \in Nat
    BY <1>0, <1>1 DEF TypeOK, Parameters
  <1> HIDE DEF target
  <1>7. /\ pay.funded /\ pay.reward \in 0..target /\ pay.paid \in 0..claimed
        /\ pay.available \in Nat /\ pay.pool \in Nat /\ pay.available <= pay.pool
    BY Zenon, <1>5, <1>6, PaymentFacts DEF Inv
  <1>8. CounterUnused /\ ~UsesCounter(version) => pay.available = 0
    BY Zenon DEF CounterUnused, Payment, CounterAfter
  <1> HIDE DEF claimed, pay
  <1>9. left \in Nat /\ left = claimed - pay.paid
    BY Zenon, <1>4, <1>5, <1>7, MonusOfLess
  <1> HIDE DEF left
  <1>10. /\ settled \in Table /\ settled.due = [claim.due EXCEPT ![p] = left]
         /\ settled.members = claim.members /\ settled.totalDue \in Int
    <2>1. /\ settled \in Table /\ settled.due = [claim.due EXCEPT ![p] = left]
          /\ settled.members = claim.members
      BY <1>5, <1>9, SetDueFacts
    <2> HIDE DEF settled
    <2> QED  BY Zenon, <2>1 DEF Table
  <1> HIDE DEF settled
  <1>11. due \in Nat /\ due >= rewardsDue /\ rewardsDue \in Nat
    <2>1. rewardsDue \in Nat
      BY Zenon, <1>0 DEF TypeOK
    <2> QED  BY Zenon, <1>6, <1>7, <2>1, RewardLeft
  <1> HIDE DEF due
  <1>12. surplus \in Int
    BY Zenon, <1>7, <1>10, <1>11, SurplusInt
  <1> HIDE DEF surplus
  <1>13. /\ table' = settled /\ unitsSince' = Monus(unitsSince, units) /\ rewardsDue' = due
         /\ available' = pay.available /\ pool' = pay.pool /\ lastUpdateTime' = time
         /\ lastSurplus' = IF Reprices(units) THEN StoredSurplus(surplus) ELSE lastSurplus
         /\ price' = IF Reprices(units) THEN NextPrice(units, surplus) ELSE price
         /\ history' = [history EXCEPT !.reports = history.reports + 1,
                                       !.allocated = history.allocated + units,
                                       !.spent[p] = history.spent[p] + wei,
                                       !.settled[p] = history.settled[p] + pay.paid]
         /\ failed' = FALSE
    BY Zenon, <1>7 DEF Report, units, opened, wei, claimed, claim, target, pay, left, settled, due,
                surplus
  <1>14. UNCHANGED <<version, now, par>>
    BY DEF Report
  <1>15. Moves(TRUE)
    <2>1. lastUpdateTime' >= lastUpdateTime /\ lastUpdateTime' <= now'
      BY <1>0, <1>13, <1>14 DEF InOrder, PreviousUpdate, TypeOK
    <2>2. version >= 7
            => /\ lastSurplus' >= 0 /\ lastSurplus' >= lastSurplus => price' <= price
               /\ lastSurplus' <= 0 /\ lastSurplus' <= lastSurplus => price' >= price
      <3>1. CASE Reprices(units)
        <4>1. units \in Nat /\ version \in Nat
          BY <1>0, <1>1, NumbersAssumption DEF TypeOK
        <4>2. version >= 7 => lastSurplus' = surplus
          BY <1>13, <3>1, <4>1 DEF StoredSurplus
        <4>3. price' = NextPrice(units, surplus)
          BY <1>13, <3>1
        <4> QED  BY <1>0, <1>12, <3>1, <4>1, <4>2, <4>3, NextPriceFacts
      <3>2. CASE ~Reprices(units)
        BY <1>0, <1>13, <3>2 DEF TypeOK
      <3> QED  BY <3>1, <3>2
    <2> QED  BY <1>11, <1>13, <2>1, <2>2 DEF Moves
  <1>16. /\ history' \in History
         /\ history'.units = history.units /\ history'.allocated = history.allocated + units
         /\ history'.spent = [history.spent EXCEPT ![p] = history.spent[p] + wei]
         /\ history'.settled = [history.settled EXCEPT ![p] = history.settled[p] + pay.paid]
    <2> DEFINE r == history.reports + 1
               a == history.allocated + units
               sp == [history.spent EXCEPT ![p] = history.spent[p] + wei]
               se == [history.settled EXCEPT ![p] = history.settled[p] + pay.paid]
    <2>1. r \in Nat /\ a \in Nat /\ sp \in [Posters -> Nat] /\ se \in [Posters -> Nat]
      BY <1>0, <1>1, <1>2, <1>7, HistoryFields
    <2>2. history' = [history EXCEPT !.reports = r, !.allocated = a, !.spent = sp, !.settled = se]
      BY <1>13 DEF TypeOK, History
    <2> HIDE DEF r, a, sp, se
    <2>3. /\ history' \in History /\ history'.units = history.units /\ history'.allocated = a
          /\ history'.spent = sp /\ history'.settled = se
      BY Zenon, <1>0, <2>1, <2>2 DEF TypeOK, History
    <2> QED  BY Zenon, <2>3 DEF a, sp, se
  <1>17. lastSurplus' \in Int /\ price' \in Nat
    <2>1. StoredSurplus(surplus) \in Int
      BY <1>0, <1>12 DEF StoredSurplus, TypeOK
    <2>2. units \in Nat
      BY <1>1
    <2> QED  BY <1>0, <1>12, <1>13, <2>1, <2>2, NextPriceFacts DEF TypeOK
  <1>18. TypeOK'
    <2>1. version' \in Versions /\ now' \in Nat \ {0} /\ par' \in Parameters
      BY <1>0, <1>14 DEF TypeOK
    <2>2. unitsSince' \in Nat /\ lastUpdateTime' \in Nat /\ rewardsDue' \in Nat
      BY <1>1, <1>11, <1>13 DEF Monus
    <2>3. table' \in Table /\ available' \in Nat /\ pool' \in Nat /\ failed' \in BOOLEAN
      BY Zenon, <1>7, <1>10, <1>13
    <2> QED  BY <1>16, <1>17, <2>1, <2>2, <2>3 DEF TypeOK
  <1>19. AvailableCovered' /\ CounterUnused' /\ PaymentsSucceed'
    BY Zenon, <1>7, <1>8, <1>13, <1>14 DEF Inv, AvailableCovered, CounterUnused, PaymentsSucceed
  <1>20. UnitsChargedOnce'
    <2>1. unitsSince' = unitsSince - units
      BY <1>1, <1>13 DEF Monus
    <2>2. history.allocated \in Nat /\ history.units = history.allocated + unitsSince
      BY Zenon, HistoryFields DEF Inv, UnitsChargedOnce
    <2> QED  BY <1>1, <1>16, <2>1, <2>2 DEF UnitsChargedOnce
  <1>21. SpendingSettled'
    <2>1. /\ table'.due = [[table.due EXCEPT ![p] = claimed] EXCEPT ![p] = claimed - pay.paid]
          /\ p \in table'.members /\ table.members \subseteq table'.members
      BY <1>3, <1>5, <1>9, <1>10, <1>13
    <2>2. claimed = table.due[p] + wei
      BY Zenon, <1>3 DEF claimed
    <2>3. TypeOK /\ SpendingSettled
      BY Zenon DEF Inv
    <2> QED  BY <1>2, <1>7, <1>16, <2>1, <2>2, <2>3, SettledOrDue
  <1>22. lastUpdateTime' <= now'
    BY <1>15 DEF Moves
  <1> QED  BY Zenon, <1>15, <1>18, <1>19, <1>20, <1>21, <1>22 DEF Inv

-----------------------------------------------------------------------------
(* The other actions.                                                      *)

\* The steps of an upgrade keep the parameters well typed.
LEMMA UpgradedParameters ==
    ASSUME NEW p \in Parameters, NEW from \in Nat, NEW to \in Nat
    PROVE  Upgraded(p, from, to) \in Parameters
  <1> DEFINE v3 == IF from < 3 /\ 3 <= to
                   THEN [p EXCEPT !.perBatchGas = 0, !.costCapBips = MaxBips] ELSE p
             cap == IF v3.costCapBips = MaxBips THEN 0 ELSE v3.costCapBips
             v11 == [v3 EXCEPT !.perBatchGas = PerBatchGasV12, !.costCapBips = cap]
  <1>0. MaxBips \in Nat /\ PerBatchGasV12 \in Int /\ 0 \in Int
    BY Zenon, UpgradeNumbers
  <1>1. v3 \in Parameters
    <2>1. [p EXCEPT !.perBatchGas = 0, !.costCapBips = MaxBips] \in Parameters
      BY Zenon, <1>0 DEF Parameters
    <2> QED  BY <2>1
  <1>2. Upgraded(p, from, to) = IF from < 11 /\ 11 <= to THEN v11 ELSE v3
    BY <1>1 DEF Upgraded, Parameters
  <1> HIDE DEF v3
  <1>3. cap \in Nat
    BY <1>1 DEF Parameters
  <1> HIDE DEF cap
  <1>4. v11 \in Parameters
    BY Zenon, <1>0, <1>1, <1>3 DEF Parameters
  <1> QED  BY <1>1, <1>2, <1>4

\* The state at genesis.
LEMMA InitInv == Init => Inv
  <1> SUFFICES ASSUME Init PROVE Inv
    OBVIOUS
  <1>1. version \in Versions /\ version \in Nat
    BY NumbersAssumption DEF Init
  <1>2. par \in Parameters
    <2> DEFINE to == IF version >= 2 THEN ChainOwner ELSE BatchPoster
               baseline == [GenesisParameters EXCEPT !.payRewardsTo = to]
               up == Upgraded(baseline, 1, version)
    <2>1. to \in Payees
      BY AddressAssumption DEF Payees
    <2> HIDE DEF to
    <2>2. baseline \in Parameters
      BY <2>1, NumbersAssumption DEF Parameters
    <2> DEFINE batchGas == IF version < 11 THEN PerBatchGasV6 ELSE up.perBatchGas
    <2>3. par = IF version < 6 THEN up
                ELSE [up EXCEPT !.perBatchGas = batchGas, !.equilibrationUnits = EquilibrationUnitsV6]
      BY DEF Init, GenesisPar, to
    <2> HIDE DEF baseline
    <2>4. up \in Parameters
      BY <1>1, <2>2, UpgradedParameters
    <2> HIDE DEF up
    <2>5. batchGas \in Int /\ EquilibrationUnitsV6 \in Nat
      BY <2>4, NumbersAssumption DEF Parameters
    <2> HIDE DEF batchGas
    <2>6. [up EXCEPT !.perBatchGas = batchGas, !.equilibrationUnits = EquilibrationUnitsV6]
            \in Parameters
      BY Zenon, <2>4, <2>5 DEF Parameters
    <2> QED  BY <2>3, <2>4, <2>6
  <1>3. table \in Table /\ \A p \in Posters : table.due[p] = 0
    <2> DEFINE m == {BatchPoster}
               d == [p \in Posters |-> 0]
               w == [[p \in Posters |-> p] EXCEPT ![BatchPoster] = PosterPayTo]
    <2>1. m \in SUBSET Posters /\ d \in [Posters -> Nat] /\ w \in [Posters -> Payees]
      BY Zenon, AddressAssumption DEF Payees
    <2>2. table = [members |-> m, due |-> d, payTo |-> w, totalDue |-> 0]
      <3>1. [d EXCEPT ![BatchPoster] = 0] = d
        OBVIOUS
      <3> QED  BY Zenon, <3>1 DEF Init, AddPoster
    <2>3. \A p \in Posters : d[p] = 0
      OBVIOUS
    <2> HIDE DEF m, d, w
    <2> QED  BY <2>1, <2>2, <2>3 DEF Table
  <1>4. /\ history \in History /\ history.units = 0 /\ history.allocated = 0
        /\ \A p \in Posters : history.spent[p] = 0 /\ history.settled[p] = 0
    <2> DEFINE d == [p \in Posters |-> 0]
    <2>1. d \in [Posters -> Nat] /\ \A p \in Posters : d[p] = 0
      BY Zenon
    <2>2. history = [units |-> 0, allocated |-> 0, spent |-> d, settled |-> d,
                     txs |-> 0, reports |-> 0, calls |-> 0]
      BY Zenon DEF Init
    <2> HIDE DEF d
    <2> QED  BY <2>1, <2>2 DEF History
  <1>5. TypeOK
    <2>1. /\ now = 1 /\ price \in Nat /\ unitsSince = 0 /\ lastUpdateTime = 0 /\ rewardsDue = 0
          /\ lastSurplus = 0 /\ available = 0 /\ pool = 0
      BY Zenon, NumbersAssumption DEF Init
    <2>2. failed \in BOOLEAN
      BY Zenon DEF Init
    <2> QED  BY <1>1, <1>2, <1>3, <1>4, <2>1, <2>2 DEF TypeOK
  <1>6. /\ AvailableCovered /\ CounterUnused /\ PaymentsSucceed /\ UnitsChargedOnce
        /\ lastUpdateTime <= now
    BY <1>4 DEF Init, AvailableCovered, CounterUnused, PaymentsSucceed, UnitsChargedOnce
  <1>7. SpendingSettled
    <2> SUFFICES ASSUME NEW p \in Posters
                 PROVE  /\ history.spent[p] = history.settled[p] + table.due[p]
                        /\ p \notin table.members => table.due[p] = 0
      BY Zenon DEF SpendingSettled
    <2>1. history.spent[p] = 0 /\ history.settled[p] = 0 /\ table.due[p] = 0
      BY Zenon, <1>3, <1>4
    <2> QED  BY <2>1
  <1> QED  BY Zenon, <1>5, <1>6, <1>7 DEF Inv

\* A block that begins.
LEMMA NextBlockInv ==
    ASSUME Inv, NextBlock
    PROVE  Inv'
  <1>1. /\ now' = now + 1 /\ now \in Nat \ {0}
        /\ UNCHANGED <<version, table, par, price, unitsSince, lastUpdateTime, rewardsDue,
                       lastSurplus, available, pool, failed, history>>
    BY DEF NextBlock, Inv, TypeOK
  <1>2. TypeOK'
    BY <1>1 DEF Inv, TypeOK
  <1>3. lastUpdateTime' <= now'
    BY <1>1 DEF Inv, TypeOK
  <1> QED
    BY <1>1, <1>2, <1>3 DEF Inv, AvailableCovered, CounterUnused, PaymentsSucceed,
                            SpendingSettled, UnitsChargedOnce

\* An upgrade; the one to version 10 starts the counter at what the pool holds.
LEMMA UpgradeInv ==
    ASSUME Inv, NEW v \in Versions, Upgrade(v)
    PROVE  Inv'
  <1>1. /\ version' = v /\ version < v /\ par' = Upgraded(par, version, v)
        /\ lastSurplus' = (IF version < 2 /\ v >= 2 THEN 0 ELSE lastSurplus)
        /\ available' = (IF version < 10 /\ v >= 10 THEN pool ELSE available)
        /\ UNCHANGED <<now, table, price, unitsSince, lastUpdateTime, rewardsDue, pool, failed,
                       history>>
    BY DEF Upgrade
  <1>2. v \in Nat /\ version \in Nat /\ par \in Parameters
    BY NumbersAssumption DEF Inv, TypeOK
  <1>3. par' \in Parameters
    BY <1>1, <1>2, UpgradedParameters
  <1>4. available' \in Nat /\ lastSurplus' \in Int
    BY <1>1 DEF Inv, TypeOK
  <1>5. TypeOK'
    BY <1>1, <1>3 DEF Inv, TypeOK
  <1>6. AvailableCovered' /\ CounterUnused'
    BY <1>1, <1>2 DEF Inv, TypeOK, AvailableCovered, CounterUnused, UsesCounter
  <1> QED
    BY <1>1, <1>5, <1>6 DEF Inv, PaymentsSucceed, SpendingSettled, UnitsChargedOnce

\* A user transaction counts its units and credits the pool and the counter alike.
LEMMA UserTxInv ==
    ASSUME Inv, NEW units \in TxUnits, NEW gasPrice \in GasPrices, UserTx(units, gasPrice)
    PROVE  Inv'
  <1> DEFINE fee == PosterFee(units, gasPrice)
  <1>0. units \in Nat /\ gasPrice \in Nat /\ price \in Nat /\ version \in Nat
    BY NumbersAssumption DEF Inv, TypeOK
  <1>1. fee \in Nat
    <2>1. CASE gasPrice = 0
      BY <2>1 DEF PosterFee
    <2>2. CASE gasPrice # 0
      <3>1. price * units \in Nat
        BY <1>0
      <3>2. (price * units) \div gasPrice \in Nat
        BY <1>0, <2>2
      <3> QED  BY <1>0 DEF PosterFee
    <2> QED  BY <2>1, <2>2
  <1>2. /\ pool' = (IF version >= 2 THEN pool + fee ELSE pool)
        /\ available' = (IF UsesCounter(version) THEN available + fee ELSE available)
        /\ unitsSince' = unitsSince + units
        /\ history' = [history EXCEPT !.txs = history.txs + 1, !.units = history.units + units]
        /\ UNCHANGED <<version, now, table, par, price, lastUpdateTime, rewardsDue, lastSurplus,
                       failed>>
    BY DEF UserTx
  <1> HIDE DEF fee
  <1>3. pool' \in Nat /\ available' \in Nat /\ available' <= pool'
    BY <1>0, <1>1, <1>2 DEF Inv, TypeOK, AvailableCovered, UsesCounter
  <1>4. /\ history' \in History /\ history'.units = history.units + units
        /\ history'.allocated = history.allocated
        /\ history'.spent = history.spent /\ history'.settled = history.settled
    <2> DEFINE t == history.txs + 1
               u == history.units + units
    <2>1. t \in Nat /\ u \in Nat /\ history \in History
      BY <1>0, HistoryFields DEF Inv, TypeOK
    <2>2. history' = [history EXCEPT !.txs = t, !.units = u]
      BY <1>2
    <2> HIDE DEF t, u
    <2> QED  BY Zenon, <2>1, <2>2 DEF History, u
  <1>5. unitsSince' \in Nat
    BY <1>0, <1>2 DEF Inv, TypeOK
  <1>6. TypeOK'
    BY <1>2, <1>3, <1>4, <1>5 DEF Inv, TypeOK
  <1>7. AvailableCovered' /\ CounterUnused' /\ PaymentsSucceed'
    BY <1>2, <1>3 DEF Inv, AvailableCovered, CounterUnused, PaymentsSucceed
  <1>8. SpendingSettled'
    BY <1>2 DEF Inv, SpendingSettled
  <1>9. UnitsChargedOnce'
    <2>1. /\ history.allocated \in Nat /\ unitsSince \in Nat
          /\ history.units = history.allocated + unitsSince
      BY HistoryFields DEF Inv, TypeOK, UnitsChargedOnce
    <2> QED  BY <1>0, <1>2, <2>1 DEF UnitsChargedOnce
  <1> QED  BY <1>2, <1>6, <1>7, <1>8, <1>9 DEF Inv

\* A gift to the pool.
LEMMA DonateInv ==
    ASSUME Inv, NEW amount \in Donations, Donate(amount)
    PROVE  Inv'
  <1>1. /\ pool' = pool + amount
        /\ history' = [history EXCEPT !.txs = history.txs + 1]
        /\ UNCHANGED <<version, now, table, par, price, unitsSince, lastUpdateTime, rewardsDue,
                       lastSurplus, available, failed>>
    BY DEF Donate
  <1>2. /\ history' \in History /\ history'.units = history.units
        /\ history'.allocated = history.allocated
        /\ history'.spent = history.spent /\ history'.settled = history.settled
    BY <1>1 DEF Inv, TypeOK, History
  <1>3. pool' \in Nat /\ available' <= pool'
    BY <1>1, NumbersAssumption DEF Inv, TypeOK, AvailableCovered
  <1>4. TypeOK'
    BY <1>1, <1>2, <1>3 DEF Inv, TypeOK
  <1> QED
    BY <1>1, <1>3, <1>4
    DEF Inv, AvailableCovered, CounterUnused, PaymentsSucceed, SpendingSettled,
       UnitsChargedOnce

\* A call of the owner or of a poster is counted in the history.
LEMMA CallCounted ==
    ASSUME Inv, history' = [history EXCEPT !.calls = history.calls + 1]
    PROVE  /\ history' \in History /\ history'.units = history.units
           /\ history'.allocated = history.allocated
           /\ history'.spent = history.spent /\ history'.settled = history.settled
  BY DEF Inv, TypeOK, History

\* A parameter that is set keeps its type.
LEMMA SetParameterInv ==
    ASSUME Inv, NEW f \in DOMAIN ParameterValues, NEW value \in ParameterValues[f],
           SetParameter(f, value)
    PROVE  Inv'
  <1>1. /\ par' = [par EXCEPT ![f] = value]
        /\ history' = [history EXCEPT !.calls = history.calls + 1]
        /\ UNCHANGED <<version, now, table, price, unitsSince, lastUpdateTime, rewardsDue,
                       lastSurplus, available, pool, failed>>
    BY Zenon DEF SetParameter
  <1>2. par' \in Parameters
    <2> DEFINE V == ParameterValues
    <2>1. V \in [payRewardsTo : SUBSET Payees, equilibrationUnits : SUBSET Nat,
                  inertia : SUBSET Nat, perUnitReward : SUBSET Nat, perBatchGas : SUBSET Int,
                  costCapBips : SUBSET Nat, gasFloorPerToken : SUBSET Nat]
      BY NumbersAssumption
    <2>2. DOMAIN V = {"payRewardsTo", "equilibrationUnits", "inertia", "perUnitReward",
                      "perBatchGas", "costCapBips", "gasFloorPerToken"}
      BY <2>1
    <2>3. /\ V["payRewardsTo"] \subseteq Payees /\ V["equilibrationUnits"] \subseteq Nat
          /\ V["inertia"] \subseteq Nat /\ V["perUnitReward"] \subseteq Nat
          /\ V["perBatchGas"] \subseteq Int /\ V["costCapBips"] \subseteq Nat
          /\ V["gasFloorPerToken"] \subseteq Nat
      BY <2>1
    <2>4. par \in Parameters
      BY DEF Inv, TypeOK
    <2>5. CASE f = "payRewardsTo"
      BY <1>1, <2>3, <2>4 DEF Parameters
    <2>6. CASE f = "equilibrationUnits"
      BY <1>1, <2>3, <2>4 DEF Parameters
    <2>7. CASE f = "inertia"
      BY <1>1, <2>3, <2>4 DEF Parameters
    <2>8. CASE f = "perUnitReward"
      BY <1>1, <2>3, <2>4 DEF Parameters
    <2>9. CASE f = "perBatchGas"
      BY <1>1, <2>3, <2>4 DEF Parameters
    <2>10. CASE f = "costCapBips"
      BY <1>1, <2>3, <2>4 DEF Parameters
    <2>11. CASE f = "gasFloorPerToken"
      BY <1>1, <2>3, <2>4 DEF Parameters
    <2> QED  BY <2>2, <2>5, <2>6, <2>7, <2>8, <2>9, <2>10, <2>11
  <1>3. /\ history' \in History /\ history'.units = history.units
        /\ history'.allocated = history.allocated
        /\ history'.spent = history.spent /\ history'.settled = history.settled
    BY <1>1, CallCounted
  <1>4. TypeOK'
    BY <1>1, <1>2, <1>3 DEF Inv, TypeOK
  <1> QED
    BY <1>1, <1>4
    DEF Inv, AvailableCovered, CounterUnused, PaymentsSucceed, SpendingSettled,
       UnitsChargedOnce

\* The price that is set is one.
LEMMA SetPriceInv ==
    ASSUME Inv, NEW value \in Prices, SetPrice(value)
    PROVE  Inv'
  <1>1. /\ price' = value /\ value \in Nat
        /\ history' = [history EXCEPT !.calls = history.calls + 1]
        /\ UNCHANGED <<version, now, table, par, unitsSince, lastUpdateTime, rewardsDue,
                       lastSurplus, available, pool, failed>>
    BY NumbersAssumption DEF SetPrice
  <1>2. /\ history' \in History /\ history'.units = history.units
        /\ history'.allocated = history.allocated
        /\ history'.spent = history.spent /\ history'.settled = history.settled
    BY <1>1, CallCounted
  <1>3. TypeOK'
    BY <1>1, <1>2 DEF Inv, TypeOK
  <1> QED
    BY <1>1, <1>3
    DEF Inv, AvailableCovered, CounterUnused, PaymentsSucceed, SpendingSettled,
       UnitsChargedOnce

\* A change of the table that keeps what is due and the posters registered keeps the
\* invariant.
LEMMA TableCallInv ==
    ASSUME Inv, table' \in Table, table'.due = table.due, table.members \subseteq table'.members,
           history' = [history EXCEPT !.calls = history.calls + 1],
           UNCHANGED <<version, now, par, price, unitsSince, lastUpdateTime, rewardsDue,
                       lastSurplus, available, pool, failed>>
    PROVE  Inv'
  <1>1. /\ history' \in History /\ history'.units = history.units
        /\ history'.allocated = history.allocated
        /\ history'.spent = history.spent /\ history'.settled = history.settled
    BY CallCounted
  <1>2. TypeOK'
    BY <1>1 DEF Inv, TypeOK
  <1>3. SpendingSettled'
    BY <1>1 DEF Inv, SpendingSettled
  <1> QED
    BY <1>2, <1>3 DEF Inv, AvailableCovered, CounterUnused, PaymentsSucceed, UnitsChargedOnce

\* A poster that is added owes and is owed nothing.
LEMMA AddBatchPosterInv ==
    ASSUME Inv, NEW caller \in Payees, NEW p \in Posters, AddBatchPoster(caller, p)
    PROVE  Inv'
  <1>1. table \in Table /\ Clean(table)
    BY DEF Inv, TypeOK, SpendingSettled, Clean
  <1>2. /\ table' \in Table /\ table'.due = table.due
        /\ table.members \subseteq table'.members
    BY <1>1, OpenFacts DEF AddBatchPoster
  <1> QED  BY <1>2, TableCallInv DEF AddBatchPoster

\* A fee collector that is set changes where a poster is paid and nothing else.
LEMMA SetFeeCollectorInv ==
    ASSUME Inv, NEW caller \in Payees, NEW to \in Payees, NEW p \in Posters,
           SetFeeCollector(caller, p, to)
    PROVE  Inv'
  <1> DEFINE w == [table.payTo EXCEPT ![p] = to]
  <1>1. table \in Table
    BY DEF Inv, TypeOK
  <1>2. w \in [Posters -> Payees]
    BY <1>1 DEF Table
  <1>3. table' = [table EXCEPT !.payTo = w]
    BY <1>1 DEF SetFeeCollector, Table
  <1> HIDE DEF w
  <1>4. /\ table' \in Table /\ table'.due = table.due
        /\ table.members \subseteq table'.members
    BY Zenon, <1>1, <1>2, <1>3 DEF Table
  <1> QED  BY <1>4, TableCallInv DEF SetFeeCollector

-----------------------------------------------------------------------------
(* The theorems.                                                           *)

\* Every step keeps the invariant, and moves the price, the arrears and the time as the
\* action properties say.
LEMMA NextInv ==
    ASSUME Inv, [Next]_vars
    PROVE  Inv' /\ Moves(history'.reports # history.reports)
  <1> DEFINE Still == UNCHANGED <<rewardsDue, lastUpdateTime>> /\ history'.reports = history.reports
  <1>0. ASSUME Inv', Still PROVE Moves(history'.reports # history.reports)
    BY <1>0 DEF Inv, TypeOK, Moves
  <1>1. CASE NextBlock
    <2>1. Inv' /\ Still
      BY Zenon, <1>1, NextBlockInv DEF NextBlock
    <2> QED  BY <1>0, <2>1
  <1>2. ASSUME NEW v \in Versions, Upgrade(v)
        PROVE  Inv' /\ Moves(history'.reports # history.reports)
    <2>1. Inv' /\ Still
      BY Zenon, <1>2, UpgradeInv DEF Upgrade
    <2> QED  BY Zenon, <1>0, <2>1
  <1>3. ASSUME NEW units \in TxUnits, NEW gasPrice \in GasPrices, UserTx(units, gasPrice)
        PROVE  Inv' /\ Moves(history'.reports # history.reports)
    <2>1. Inv'
      BY <1>3, UserTxInv
    <2>2. Still
      BY <1>3 DEF UserTx, Inv, TypeOK, History
    <2> QED  BY <1>0, <2>1, <2>2
  <1>4. ASSUME NEW amount \in Donations, Donate(amount)
        PROVE  Inv' /\ Moves(history'.reports # history.reports)
    <2>1. Inv'
      BY <1>4, DonateInv
    <2>2. Still
      BY <1>4 DEF Donate, Inv, TypeOK, History
    <2> QED  BY <1>0, <2>1, <2>2
  <1>5. ASSUME NEW p \in Posters, NEW time \in 0..MaxTime, NEW batch \in Batches,
               Report(p, time, batch)
        PROVE  Inv' /\ Moves(history'.reports # history.reports)
    <2>1. Inv' /\ Moves(TRUE)
      BY Zenon, <1>5, ReportInv
    <2> QED  BY <2>1 DEF Moves
  <1>6. ASSUME UNCHANGED vars
        PROVE  Inv' /\ Moves(history'.reports # history.reports)
    <2>1. TypeOK'
      BY Zenon, <1>6 DEF Inv, TypeOK, vars
    <2>2. Inv' /\ Still
      BY Zenon, <1>6, <2>1
      DEF Inv, AvailableCovered, CounterUnused, PaymentsSucceed, SpendingSettled,
         UnitsChargedOnce, vars
    <2> QED  BY <1>0, <2>2
  <1>7. ASSUME NEW f \in DOMAIN ParameterValues, NEW value \in ParameterValues[f],
               SetParameter(f, value)
        PROVE  Inv' /\ Moves(history'.reports # history.reports)
    <2>1. Inv'
      BY <1>7, SetParameterInv
    <2>2. Still
      BY <1>7 DEF SetParameter, Inv, TypeOK, History
    <2> QED  BY Zenon, <1>0, <2>1, <2>2
  <1>8. ASSUME NEW value \in Prices, SetPrice(value)
        PROVE  Inv' /\ Moves(history'.reports # history.reports)
    <2>1. Inv'
      BY <1>8, SetPriceInv
    <2>2. Still
      BY <1>8 DEF SetPrice, Inv, TypeOK, History
    <2> QED  BY <1>0, <2>1, <2>2
  <1>9. ASSUME NEW caller \in Payees, NEW p \in Posters, AddBatchPoster(caller, p)
        PROVE  Inv' /\ Moves(history'.reports # history.reports)
    <2>1. Inv'
      BY <1>9, AddBatchPosterInv
    <2>2. Still
      BY <1>9 DEF AddBatchPoster, Inv, TypeOK, History
    <2> QED  BY <1>0, <2>1, <2>2
  <1>10. ASSUME NEW caller \in Payees, NEW to \in Payees, NEW p \in Posters,
                SetFeeCollector(caller, p, to)
         PROVE  Inv' /\ Moves(history'.reports # history.reports)
    <2>1. Inv'
      BY <1>10, SetFeeCollectorInv
    <2>2. Still
      BY <1>10 DEF SetFeeCollector, Inv, TypeOK, History
    <2> QED  BY <1>0, <2>1, <2>2
  <1> QED
    BY Zenon, <1>1, <1>2, <1>3, <1>4, <1>5, <1>6, <1>7, <1>8, <1>9, <1>10 DEF Next, RejectReport

\* The inductive invariant holds in every state.
LEMMA Invariance == Spec => []Inv
  <1>1. Inv /\ [Next]_vars => Inv'
    BY NextInv
  <1> QED  BY <1>1, InitInv, PTL DEF Spec

\* Prices, dues, the counter and the pool are natural numbers in every state, whatever the
\* upgrades, parameters and reports.
THEOREM TypeCorrect == Spec => []TypeOK
  <1>1. Inv => TypeOK
    BY DEF Inv
  <1> QED  BY <1>1, Invariance, PTL

\* The counter l1_fees_available never promises more than the pool holds.
THEOREM PoolCovers == Spec => []AvailableCovered
  <1>1. Inv => AvailableCovered
    BY DEF Inv
  <1> QED  BY <1>1, Invariance, PTL

\* No transfer_from_pool of a report fails.
THEOREM ReportsArePaid == Spec => []PaymentsSucceed
  <1>1. Inv => PaymentsSucceed
    BY DEF Inv
  <1> QED  BY <1>1, Invariance, PTL

\* Spending is conserved: each wei charged to a poster is paid once or due.
THEOREM SpendingConserved == Spec => []SpendingSettled
  <1>1. Inv => SpendingSettled
    BY DEF Inv
  <1> QED  BY <1>1, Invariance, PTL

\* Units are conserved: each one is charged to one report or waits.
THEOREM UnitsConserved == Spec => []UnitsChargedOnce
  <1>1. Inv => UnitsChargedOnce
    BY DEF Inv
  <1> QED  BY <1>1, Invariance, PTL

\* Reports move the time of the last update forward only, and never past the chain.
THEOREM UpdatesInOrder == Spec => ReportsInOrder
  <1>1. Inv /\ [Next]_vars => [lastUpdateTime' >= lastUpdateTime /\ lastUpdateTime' <= now']_vars
    BY NextInv DEF Moves
  <1> QED  BY <1>1, Invariance, PTL DEF Spec, ReportsInOrder

\* What is due for rewards never falls: update_for_batch_poster_spending pays the reward of
\* the units of its report and nothing in arrears.
THEOREM RewardArrearsStay == Spec => ArrearsStay
  <1>1. Inv /\ [Next]_vars => [rewardsDue' >= rewardsDue]_vars
    BY NextInv DEF Moves
  <1> QED  BY <1>1, Invariance, PTL DEF Spec, ArrearsStay

\* The price of a unit never moves away from equilibrium, whatever the rounding of the
\* three divisions of update_for_batch_poster_spending.
THEOREM PriceTowardsEquilibrium == Spec => PriceFollowsSurplus
  <1>1. Inv /\ [Next]_vars
          => [history'.reports # history.reports /\ version >= 7
                => /\ lastSurplus' >= 0 /\ lastSurplus' >= lastSurplus => price' <= price
                   /\ lastSurplus' <= 0 /\ lastSurplus' <= lastSurplus => price' >= price]_vars
    BY NextInv DEF Moves
  <1> QED  BY <1>1, Invariance, PTL DEF Spec, PriceFollowsSurplus
=============================================================================
