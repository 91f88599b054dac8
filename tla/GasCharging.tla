---------------------------- MODULE GasCharging ----------------------------
(***************************************************************************)
(* The gas of one transaction after the other, as ArbHandler drives it:    *)
(* validation, the charge of the sender, the GasChargingHook with poster   *)
(* gas and held gas, the first frame, the capped refund, the              *)
(* reimbursement and the EndTxHook.  Between the hooks everything passes   *)
(* through the chain context ctx, which lives longer than a transaction.   *)
(* An error in any hook discards what the transaction did to the state st  *)
(* and keeps ctx.                                                          *)
(***************************************************************************)
EXTENDS Integers

CONSTANTS
    Envs,            \* block and ArbOS settings a chain may start with
    Txs,             \* the transactions that may arrive
    FrameGas,        \* what a frame may ask for: it burns that or all it has
    Refunds,         \* net refunds a frame may record
    InitialFunds,    \* initial balance of the sender
    MaxTransactions  \* bound on the transactions of a behaviour

EnvType == [version : Nat, baseFee : Nat, sequenced : BOOLEAN, tips : BOOLEAN, blockLimit : Nat,
            txLimit : Nat, infra : BOOLEAN, network : BOOLEAN, minBaseFee : Nat, pricePerUnit : Nat]

None == -1

\* auth is what the EIP-7702 authorization list gives back, None without a list.
TxType == [kind : {"user", "retry", "protocol"}, limit : Nat, cap : Nat, tip : Nat, floor : Nat,
           intrinsic : Nat, units : Nat, value : Nat, filtered : BOOLEAN, auth : Nat \cup {None}]

ASSUME EnvsAssumption == Envs \subseteq EnvType
ASSUME TxsAssumption == Txs \subseteq TxType
ASSUME AmountsAssumption == FrameGas \subseteq Nat /\ Refunds \subseteq Int /\ InitialFunds \in Nat

VARIABLES
    phase,       \* the hook that comes next
    tx,          \* the transaction in progress
    env,         \* ArbOS version, base fee, limits and fee accounts
    ctx,         \* ArbChainContext
    gas,         \* remaining gas and refund of the frame result
    st,          \* the balances, L1 units, available L1 fees and backlog
    committed,   \* st before the transaction
    done,        \* number of transactions so far
    report       \* what the last settled transaction used, for the properties

gasVars == <<phase, tx, env, ctx, gas, st, committed, done, report>>

Holders == {"sender", "callee", "network", "infra", "pool", "coinbase", "nobody"}

Smaller(a, b) == IF a < b THEN a ELSE b
Larger(a, b) == IF a < b THEN b ELSE a
SubSat(a, b) == IF b < a THEN a - b ELSE 0

Credit(s, account, amount) == [s EXCEPT !.bal[account] = @ + amount]

\* Fault: protocol transactions keep the gas of the transaction before them.
ResetKeepingPoster(c) ==
    [c EXCEPT !.holdGas = 0, !.posterFee = 0, !.paid = 0, !.filtered = FALSE]

\* intrinsic_gas and arbos_version survive; the price the sender paid does not.
ResetPosterState(c) ==
    [c EXCEPT !.posterGas = 0, !.holdGas = 0, !.posterFee = 0, !.paid = 0,
              !.filtered = FALSE]

Version == IF ctx.version = None THEN env.version ELSE ctx.version

CollectTips(version) ==
    /\ env.sequenced
    /\ version = 9 \/ (version >= 60 /\ env.tips)

\* Fault: the price is not clamped to the base fee.
EffectivePriceUnclamped(t) == Smaller(t.cap, env.baseFee + t.tip)

EffectiveGasPrice(t) == Smaller(Smaller(t.cap, env.baseFee + t.tip), env.baseFee)

PaidGasPrice(t, version) ==
    IF CollectTips(version) THEN EffectiveGasPrice(t) ELSE env.baseFee

\* The price after the context was reset: the base fee whenever the snapshot is zero.
SnapshotPrice == IF ctx.paid = 0 THEN env.baseFee ELSE ctx.paid

Filtered == Version >= 60 /\ tx.filtered

GasInit ==
    /\ phase = "idle"
    /\ env \in Envs
    /\ tx = [kind |-> "none"]
    /\ ctx = [intrinsic |-> 0, posterGas |-> 0, holdGas |-> 0, posterFee |-> 0,
              paid |-> 0, version |-> None, filtered |-> FALSE]
    /\ gas = [remaining |-> 0, refund |-> 0]
    /\ st = [bal |-> [a \in Holders |-> IF a = "sender" THEN InitialFunds ELSE 0],
             units |-> 0, available |-> 0, backlog |-> 0]
    /\ committed = st
    /\ done = 0
    /\ report = [settled |-> FALSE]

(***************************************************************************)
(* Before the frame                                                        *)
(***************************************************************************)
\* The fee cap gate, here for contract transactions and in the library for the rest, and
\* the gas limit against intrinsic and floor gas.
Valid(t) ==
    \/ t.kind = "protocol"
    \/ /\ t.intrinsic <= t.limit
       /\ t.floor <= t.limit
       /\ t.kind = "user" => t.cap >= env.baseFee

Validate(t) ==
    /\ phase = "idle"
    /\ done < MaxTransactions
    /\ done' = done + 1
    /\ tx' = t
    /\ ctx' = [ctx EXCEPT !.version = None,
                          !.intrinsic = CASE ~Valid(t) -> @
                                          [] t.kind = "protocol" -> 0
                                          [] OTHER -> t.intrinsic]
    /\ phase' = CASE ~Valid(t) -> "idle"
                  [] Valid(t) /\ t.kind = "user" -> "deduct"
                  [] OTHER -> "bypass"
    /\ committed' = st
    /\ report' = [settled |-> FALSE]
    /\ UNCHANGED <<env, gas, st>>

\* Internal, deposit, submit and retry transactions pay nothing here.  The first three
\* end at once; StartBlock among them may upgrade ArbOS.
BypassPreExecution ==
    /\ phase = "bypass"
    /\ ctx' = ResetPosterState(ctx)
    /\ IF tx.kind = "retry"
       THEN phase' = "execution" /\ UNCHANGED env
       ELSE /\ phase' = "idle"
            /\ \E e \in Envs : /\ e.version >= env.version
                               /\ env' = [env EXCEPT !.version = e.version]
    /\ UNCHANGED <<tx, gas, st, committed, done, report>>

\* An error in a hook: the journal of the transaction is dropped, the context is not.
Discard ==
    /\ phase' = "idle"
    /\ st' = committed
    /\ UNCHANGED <<tx, env, gas, committed, done, report>>

\* The balance must cover the fee cap, and the price that is paid is taken.
ValidateAgainstStateAndDeductCaller ==
    /\ phase = "deduct"
    /\ LET paid == PaidGasPrice(tx, env.version)
           c == [ctx EXCEPT !.version = env.version]
       IN IF st.bal["sender"] < Larger(tx.cap, paid) * tx.limit + tx.value
          THEN ctx' = c /\ Discard
          ELSE /\ ctx' = [c EXCEPT !.paid = paid]
               /\ st' = Credit(st, "sender", -(paid * tx.limit))
               /\ phase' = "charge"
               /\ UNCHANGED <<tx, env, gas, committed, done, report>>

\* Poster gas at the price that is paid; only blocks of the batch poster have any.
PosterGas(t, price) ==
    IF ~env.sequenced \/ price = 0 THEN 0 ELSE (env.pricePerUnit * t.units) \div price

\* Fault: the intrinsic gas is not taken off the limit of a transaction.
MaxComputeWhole(intrinsic) ==
    LET limit == IF Version < 50 THEN env.blockLimit ELSE env.txLimit
    IN IF limit = 0 THEN tx.limit ELSE limit

\* A limit of zero is none; from version 50 the limit of a transaction includes its
\* intrinsic gas.
MaxCompute(intrinsic) ==
    LET limit == IF Version < 50 THEN env.blockLimit ELSE env.txLimit
    IN CASE limit = 0 -> tx.limit
         [] limit > 0 /\ Version < 50 -> limit
         [] OTHER -> SubSat(limit, intrinsic)

\* The context the charging leaves: the snapshot of the paid price is read before the
\* reset and not put back.
ContextAfterCharge ==
    LET snapshot == IF ctx.paid = 0 THEN PaidGasPrice(tx, Version) ELSE ctx.paid
        price == IF snapshot = 0 THEN env.baseFee ELSE snapshot
        poster == PosterGas(tx, price)
        after == SubSat(SubSat(tx.limit, ctx.intrinsic), poster)
    IN [ResetPosterState(ctx) EXCEPT
           !.posterGas = poster, !.posterFee = price * poster,
           !.holdGas = SubSat(after, MaxCompute(ctx.intrinsic)), !.filtered = Filtered]

\* The rest of pre_execution: the charge, and the authorization list unless the
\* transaction is filtered.  The list is applied to accounts outside st.
GasChargingHook ==
    /\ phase = "charge"
    /\ ctx' = ContextAfterCharge
    /\ st' = IF env.sequenced THEN [st EXCEPT !.units = @ + tx.units] ELSE st
    /\ phase' = "execution"
    /\ UNCHANGED <<tx, env, gas, committed, done, report>>

\* An authority cannot be read: apply_eip7702_auth_list fails after the charge.
AuthorizationFails ==
    /\ phase = "charge"
    /\ tx.auth # None /\ ~Filtered
    /\ ctx' = ContextAfterCharge
    /\ Discard

\* What pre_execution returns for the refund.
AuthRefund == IF tx.kind = "user" /\ ~ctx.filtered THEN Larger(tx.auth, 0) ELSE 0

(***************************************************************************)
(* The frame                                                               *)
(***************************************************************************)
\* A filtered transaction runs no frame and burns its whole limit.
ExecuteFiltered ==
    /\ phase = "execution"
    /\ ctx.filtered \/ (tx.kind = "retry" /\ Filtered)
    /\ gas' = [remaining |-> 0, refund |-> 0]
    /\ phase' = "refund"
    /\ report' = [settled |-> FALSE, burnt |-> tx.limit - ctx.intrinsic, recorded |-> 0]
    /\ UNCHANGED <<tx, env, ctx, st, committed, done>>

TotalInitial ==
    IF tx.kind = "retry" THEN ctx.intrinsic
    ELSE ctx.intrinsic + ctx.posterGas + ctx.holdGas

ExecutionFails ==
    /\ phase = "execution"
    /\ ~ctx.filtered
    /\ ~(tx.kind = "retry" /\ Filtered)
    /\ TotalInitial > tx.limit
    /\ UNCHANGED ctx
    /\ Discard

\* The settings a transaction of the chain owner may leave behind.
OwnerChanges == \E i \in BOOLEAN, f \in {0, env.minBaseFee} :
                    env' = [env EXCEPT !.infra = i, !.minBaseFee = f]

\* The first frame: a halt burns its gas, only success keeps refunds, value and changes
\* of the settings.  Held gas comes back in every case.
Execution ==
    /\ phase = "execution"
    /\ ~ctx.filtered
    /\ ~(tx.kind = "retry" /\ Filtered)
    /\ TotalInitial <= tx.limit
    /\ \E outcome \in {"ok", "revert", "halt"}, g \in FrameGas, r \in Refunds :
          LET frame == tx.limit - TotalInitial
              burnt == IF outcome = "halt" THEN frame ELSE Smaller(g, frame)
              held == IF tx.kind = "retry" THEN 0 ELSE ctx.holdGas
              recorded == IF outcome = "ok" THEN r ELSE 0
          IN /\ gas' = [remaining |-> frame - burnt + held, refund |-> recorded]
             /\ report' = [settled |-> FALSE, burnt |-> burnt, recorded |-> recorded]
             /\ IF outcome = "ok"
                THEN /\ OwnerChanges
                     /\ st' = IF tx.kind = "user"
                              THEN Credit(Credit(st, "sender", -tx.value), "callee", tx.value)
                              ELSE st
                ELSE UNCHANGED <<env, st>>
    /\ phase' = "refund"
    /\ UNCHANGED <<tx, ctx, committed, done>>

(***************************************************************************)
(* After the frame                                                         *)
(***************************************************************************)
\* Poster gas is not refundable.
Refundable(spent) == SubSat(spent, ctx.posterGas)

\* Every version of ArbOS is past London: a fifth.
MaxRefund(spent) == Refundable(spent) \div 5

\* The refund of the authorization list is added whatever became of the frame.  The library
\* then raises what was spent to the floor of the calldata.
Refund ==
    /\ phase = "refund"
    /\ LET spent == SubSat(tx.limit, gas.remaining)
           capped == Smaller(Larger(gas.refund + AuthRefund, 0), MaxRefund(spent))
       IN gas' = IF spent - capped < tx.floor
                 THEN [remaining |-> tx.limit - tx.floor, refund |-> 0]
                 ELSE [gas EXCEPT !.refund = capped]
    /\ phase' = IF tx.kind = "user" THEN "reimburse" ELSE "end"
    /\ UNCHANGED <<tx, env, ctx, st, committed, done, report>>

ReimburseCaller ==
    /\ phase = "reimburse"
    /\ st' = Credit(st, "sender", SnapshotPrice * (gas.remaining + gas.refund))
    /\ phase' = "end"
    /\ UNCHANGED <<tx, env, ctx, gas, committed, done, report>>

GasUsed == SubSat(SubSat(tx.limit, gas.remaining), gas.refund)

ComputeGas == SubSat(GasUsed, ctx.posterGas)

\* What the infra and the network account receive of the compute cost.
SplitComputeCost(cost) ==
    LET share == IF env.infra /\ Version >= 5
                 THEN Smaller(Smaller(env.minBaseFee, env.baseFee) * ComputeGas, cost)
                 ELSE 0
    IN [infra |-> share, network |-> cost - share]

\* The EndTxHook of a user transaction; without a network account its share is lost.
RewardBeneficiary ==
    /\ phase = "end"
    /\ tx.kind = "user"
    /\ LET split == SplitComputeCost(env.baseFee * ComputeGas)
           tip == SubSat(SnapshotPrice, env.baseFee) * ComputeGas
           s1 == Credit(st, "infra", split.infra)
           s2 == Credit(s1, IF env.network THEN "network" ELSE "nobody", split.network + tip)
           s3 == Credit(s2, IF Version >= 2 THEN "pool" ELSE "coinbase", ctx.posterFee)
       IN st' = [s3 EXCEPT !.available = @ + (IF Version >= 10 THEN ctx.posterFee ELSE 0),
                           !.backlog = @ + ComputeGas]
    /\ report' = [settled |-> TRUE, burnt |-> report.burnt, recorded |-> report.recorded,
                  used |-> GasUsed, compute |-> ComputeGas, poster |-> ctx.posterGas,
                  overdrawn |-> ctx.filtered /\ ctx.posterGas > tx.limit]
    /\ phase' = "idle"
    /\ UNCHANGED <<tx, env, ctx, gas, committed, done>>

\* A retry settles with its ticket's accounts, in Retryables.
RetryEndTxHook ==
    /\ phase = "end"
    /\ tx.kind = "retry"
    /\ report' = [settled |-> TRUE, burnt |-> report.burnt, recorded |-> report.recorded,
                  used |-> GasUsed, compute |-> GasUsed, poster |-> 0, overdrawn |-> FALSE]
    /\ phase' = "idle"
    /\ UNCHANGED <<tx, env, ctx, gas, st, committed, done>>

GasNext ==
    \/ \E t \in Txs : Validate(t)
    \/ BypassPreExecution
    \/ ValidateAgainstStateAndDeductCaller
    \/ GasChargingHook
    \/ AuthorizationFails
    \/ ExecuteFiltered
    \/ ExecutionFails
    \/ Execution
    \/ Refund
    \/ ReimburseCaller
    \/ RewardBeneficiary
    \/ RetryEndTxHook

GasSpec == GasInit /\ [][GasNext]_gasVars

(***************************************************************************)
(* Properties                                                              *)
(***************************************************************************)
Settled(kind) == phase = "idle" /\ report.settled /\ tx.kind = kind

Total(s) == s.bal["sender"] + s.bal["callee"] + s.bal["network"] + s.bal["infra"]
              + s.bal["pool"] + s.bal["coinbase"] + s.bal["nobody"]

\* What a user transaction takes from its sender at the start, less what it gives back at
\* the end, is what the fee accounts, the L1 pool and the callee receive, although the
\* hooks between read the price, the poster fee and the accounts at different times
\* and the owner may change the accounts in the middle.  Filtered transactions
\* whose poster gas exceeds their limit are the exception, see ComputeGasExact.
FeesConserved ==
    Settled("user") /\ ~report.overdrawn => Total(st) = Total(committed)

\* No user transaction computes beyond the limit of the block, or from version 50 on of a
\* transaction, whatever its own limit and its poster gas are.  A retry is not under
\* this limit: execution hands it to the library before any gas is held, so that
\* its frame may burn all the gas that its redeem donated.
ComputeCapped ==
    Settled("user") /\ ~ctx.filtered =>
        IF Version < 50 THEN env.blockLimit = 0 \/ report.burnt <= env.blockLimit
        ELSE \/ env.txLimit = 0
             \/ report.burnt + tx.intrinsic <= Larger(env.txLimit, tx.intrinsic)

\* The gas used is the intrinsic gas, the transaction's own poster gas and what its frame
\* burnt, less a refund of at most a fifth of the gas other than poster gas, and at
\* least the calldata floor: held gas is returned and nothing of an earlier
\* transaction counts.  The refund is what a successful frame recorded, and in any
\* case what the authorization list gives back.
GasUsedExact ==
    \A kind \in {"user", "retry"} :
        Settled(kind) /\ ~Filtered =>
            LET own == tx.intrinsic + report.burnt
                refund == Smaller(Larger(report.recorded + AuthRefund, 0), own \div 5)
            IN report.used = Larger(tx.floor, own + report.poster - refund)

\* The compute gas that is paid for and that grows the backlog is the gas used less the
\* poster gas, as the comment of reward_beneficiary says.
ComputeGasExact ==
    phase = "idle" /\ report.settled => report.compute = report.used - report.poster
=============================================================================
