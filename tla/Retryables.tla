----------------------------- MODULE Retryables -----------------------------
(***************************************************************************)
(* Retryable tickets of ArbOS, and the loop that executes one sequencer    *)
(* message.  A message is one block: the StartBlock transaction reaps      *)
(* expired tickets, then the user transactions run in order, then the      *)
(* retries they scheduled.  A ticket is created by a submit-retryable      *)
(* transaction, tried by retry transactions, and removed by a successful   *)
(* retry, by a cancel of its beneficiary or by the reaper.                 *)
(*                                                                         *)
(* The body of a transaction is EVM code.  Only its effective calls are    *)
(* steps here: the calls to the ArbRetryableTx precompile and transfers of *)
(* value.  A body that reverts leaves no trace but the gas it burned, so   *)
(* it has no body steps.  Poster costs, tips and nonces do not meet this   *)
(* state and are left out.                                                 *)
(*                                                                         *)
(* A definition whose comment starts with "Fault:" is a faulty variant of  *)
(* the definition after it.  No specification uses it: it shows that a     *)
(* property notices the fault.                                             *)
(***************************************************************************)
EXTENDS Integers, Sequences

CONSTANTS
    Tickets,                \* ticket ids: the hashes of submit-retryable transactions
    Users,                  \* accounts that sign transactions or hold code
    Escrow,                 \* Escrow[t] is the escrow account of ticket t
    NetworkFeeAccount,
    InfraFeeAccount,        \* ZeroAddress when none is configured
    FilteredFundsRecipient,
    ZeroAddress,
    Submissions,            \* the submit-retryable transactions L1 may deliver
    Lifetime,               \* RETRYABLE_LIFETIME_SECONDS
    TxGas,                  \* 21000: intrinsic gas, and the least a retry runs on
    CallGas,                \* gas a precompile call or a transfer costs its caller
    BaseFee, MinBaseFee,
    SpeedLimit,             \* gas per second the backlog drains
    MaxU256,                \* the refund budget of a manual redeem
    BacklogCap,             \* u64::MAX, where the backlog saturates
    PreStylus,              \* ArbOS version below 30
    InitialBalance,         \* what every user starts with
    GasLimits,              \* gas limits of user transactions
    Amounts,                \* amounts of transfers and deposits
    MaxTime,                \* bound on the timestamp
    MaxTimeout,             \* bound on the timeout of a ticket
    MaxUserTxs,             \* bound on the user transactions of a message
    MaxTotalTxs             \* bound on the user transactions of all messages

VARIABLES
    bal,         \* balance of every account
    rec,         \* the stored RetryableRecord of every ticket
    queue,       \* the timeout queue
    now,         \* timestamp of the current block
    msg,         \* "idle", "running", or why the last message was aborted
    userLeft,    \* user transactions of the message not yet executed
    scheduled,   \* retries waiting behind the user transactions
    tx,          \* the transaction whose body is running
    logs,        \* its RedeemScheduled logs
    backlog,     \* L2 gas backlog, legacy pricing model
    pending,     \* pending_zombie_escrow_tickets
    zombies,     \* escrows materialised as empty accounts
    submitted,   \* ticket ids already used
    history      \* what happened, for the properties only

vars == <<bal, rec, queue, now, msg, userLeft, scheduled, tx, logs, backlog,
          pending, zombies, submitted, history>>

Addresses ==
    Users \cup {NetworkFeeAccount, InfraFeeAccount, FilteredFundsRecipient, ZeroAddress}
          \cup {Escrow[t] : t \in Tickets}

FeeAccounts == {NetworkFeeAccount, InfraFeeAccount}

Submission ==
    [ticket : Tickets, from : Users, to : Addresses, beneficiary : Addresses,
     feeRefund : Addresses, deposit : Nat, retryValue : Nat, submissionFee : Nat,
     maxSubmissionFee : Nat, gasLimit : Nat, gasFeeCap : Nat, intrinsic : Nat,
     filtered : BOOLEAN]

\* Escrow addresses are keccak hashes: distinct, and nobody holds their keys.
ASSUME EscrowAssumption ==
    /\ Escrow \in [Tickets -> {Escrow[t] : t \in Tickets}]
    /\ \A t, u \in Tickets : Escrow[t] = Escrow[u] => t = u
    /\ \A t \in Tickets : /\ Escrow[t] \notin Users \cup FeeAccounts
                          /\ Escrow[t] # ZeroAddress

\* The fee accounts neither send retryables nor spend while a message runs.
ASSUME FeeAccountAssumption ==
    /\ FeeAccounts \cap Users = {}
    /\ ZeroAddress \notin Users
    /\ NetworkFeeAccount # ZeroAddress

ASSUME NumbersAssumption ==
    /\ {Lifetime, TxGas, CallGas} \subseteq Nat \ {0}
    /\ {BaseFee, MinBaseFee, SpeedLimit, MaxU256, BacklogCap, InitialBalance} \subseteq Nat
    /\ {MaxTime, MaxTimeout, MaxUserTxs, MaxTotalTxs} \subseteq Nat
    /\ GasLimits \subseteq Nat /\ Amounts \subseteq Nat
    /\ PreStylus \in BOOLEAN

ASSUME SubmissionsAssumption == Submissions \subseteq Submission

-----------------------------------------------------------------------------
(* Arithmetic and payments.                                                *)

Lesser(a, b) == IF a <= b THEN a ELSE b

\* saturating_sub
Monus(a, b) == a - Lesser(a, b)

\* saturating_add of gas to a backlog
Grow(b, gas) == Lesser(b + gas, BacklogCap)

Pay(b, x, y, a) ==
    LET charged == [b EXCEPT ![x] = @ - a]
    IN  [charged EXCEPT ![y] = @ + a]

\* The part of the base fee that goes to the infrastructure fee account.
InfraPrice == IF InfraFeeAccount = ZeroAddress THEN 0 ELSE Lesser(MinBaseFee, BaseFee)

\* Fault: the whole gas price goes to the network account on top of the split.
PayFeesTwice(b, gas) ==
    LET infra == [b EXCEPT ![InfraFeeAccount] = @ + InfraPrice * gas]
    IN  [infra EXCEPT ![NetworkFeeAccount] = @ + BaseFee * gas]

\* reward_beneficiary: the base fee of computeGas, split between the fee accounts.
PayFees(b, gas) ==
    LET infra == [b EXCEPT ![InfraFeeAccount] = @ + InfraPrice * gas]
    IN  [infra EXCEPT ![NetworkFeeAccount] = @ + (BaseFee - InfraPrice) * gas]

-----------------------------------------------------------------------------
(* Ticket records, the escrow and the reaper.                              *)

EmptyRecord ==
    [numTries |-> 0, from |-> ZeroAddress, to |-> ZeroAddress, callvalue |-> 0,
     beneficiary |-> ZeroAddress, timeout |-> 0, windowsLeft |-> 0, intrinsic |-> 0]

Live(t) == rec[t].timeout # 0

Exists(t) == Live(t) /\ rec[t].timeout >= now

\* What delete_retryable and the reaper work on: the retryables storage and balances b.
Store(b) == [rec |-> rec, bal |-> b, queue |-> queue]

TimeoutWithWindows(t) == rec[t].timeout + rec[t].windowsLeft * Lifetime

\* Fault: no check that the ticket still exists.
DeleteUnchecked(st, t) ==
    [st EXCEPT !.bal = Pay(@, Escrow[t], st.rec[t].beneficiary, @[Escrow[t]]),
               !.rec[t] = EmptyRecord]

\* delete_retryable: the whole escrow balance goes to the beneficiary.
DeleteRetryable(st, t) ==
    IF st.rec[t].timeout = 0
    THEN st
    ELSE [st EXCEPT !.bal = Pay(@, Escrow[t], st.rec[t].beneficiary, @[Escrow[t]]),
                    !.rec[t] = EmptyRecord]

\* Fault: a ticket is reaped in the last second it may be redeemed.
ReapsAtTimeout(st, time) ==
    IF st.queue = << >> THEN st
    ELSE LET t == Head(st.queue)
             popped == [st EXCEPT !.queue = Tail(@)]
         IN  IF st.rec[t].timeout = 0 THEN popped
             ELSE IF st.rec[t].timeout > time THEN st
             ELSE DeleteRetryable(popped, t)

\* Fault: the queue entry is consumed before the timeout is looked at.
ReapDropsUnexpired(st, time) ==
    IF st.queue = << >> THEN st
    ELSE LET t == Head(st.queue)
             popped == [st EXCEPT !.queue = Tail(@)]
         IN  IF st.rec[t].timeout = 0 \/ st.rec[t].timeout >= time
             THEN popped
             ELSE DeleteRetryable(popped, t)

\* try_to_reap_one: look at the head of the timeout queue only.
TryToReapOne(st, time) ==
    IF st.queue = << >> THEN st
    ELSE LET t == Head(st.queue)
             popped == [st EXCEPT !.queue = Tail(@)]
         IN  IF st.rec[t].timeout = 0 THEN popped
             ELSE IF st.rec[t].timeout >= time THEN st
             ELSE IF st.rec[t].windowsLeft = 0 THEN DeleteRetryable(popped, t)
             ELSE [popped EXCEPT !.rec[t].timeout = @ + Lifetime,
                                 !.rec[t].windowsLeft = @ - 1]

-----------------------------------------------------------------------------
(* Transactions.                                                           *)

RedeemLog ==
    [ticket : Tickets, seq : Nat, gas : Nat, refundTo : Addresses, maxRefund : Nat,
     submissionFeeRefund : Nat]

Envelope ==
    [ticket : Tickets, seq : Nat, gas : Nat, refundTo : Addresses, maxRefund : Nat,
     submissionFeeRefund : Nat, from : Users, to : Addresses, value : Nat,
     intrinsic : Nat]

NoTx == [kind |-> "none", gas |-> 0, donated |-> 0]

UserTx ==
    [kind : {"user"}, origin : Users, limit : Nat, gas : Nat, donated : Nat]

RetryTx ==
    [kind : {"retry"}, retry : Envelope, limit : Nat, gas : Nat, donated : Nat]

InFlight(t) == tx.kind = "retry" /\ tx.retry.ticket = t

AbortReasons ==
    {"invalid_tx", "submit_transfer", "retry_invalid", "retry_not_found",
     "retry_callvalue", "retry_return"}

\* An error of evm.transact leaves execute_message at once.  What earlier
\* transactions committed stays; the rest of the queue is dropped.
Abort(reason) ==
    /\ msg' = reason
    /\ UNCHANGED <<bal, rec, queue, now, userLeft, scheduled, tx, logs, backlog,
                   pending, zombies, submitted, history>>

\* The front of the queue is a user transaction, or the first scheduled retry.
UserTurn == msg = "running" /\ tx = NoTx /\ logs = << >> /\ userLeft > 0

RetryTurn ==
    /\ msg = "running" /\ tx = NoTx /\ logs = << >> /\ userLeft = 0
    /\ scheduled # << >>

-----------------------------------------------------------------------------
(* Start of a message: StartBlock.                                         *)

\* apply_start_block, and the set-up of execute_message before it.
StartBlock(time) ==
    /\ msg # "running"
    /\ \E n \in 0..MaxUserTxs : n + history.txs <= MaxTotalTxs /\ userLeft' = n
    /\ now' = IF time > now THEN time ELSE now
    /\ LET st == TryToReapOne(TryToReapOne(Store(bal), now'), now')
       IN  rec' = st.rec /\ bal' = st.bal /\ queue' = st.queue
    /\ backlog' = Monus(backlog, SpeedLimit * (now' - now))
    /\ msg' = "running"
    /\ scheduled' = << >>
    /\ pending' = {}
    /\ history' = [history EXCEPT !.work = Monus(@, SpeedLimit * (now' - now)),
                                  !.born = {}, !.txs = @ + userLeft']
    /\ UNCHANGED <<tx, logs, zombies, submitted>>

EndMessage ==
    /\ msg = "running" /\ tx = NoTx /\ logs = << >>
    /\ userLeft = 0 /\ scheduled = << >>
    /\ msg' = "idle"
    /\ UNCHANGED <<bal, rec, queue, now, userLeft, scheduled, tx, logs, backlog,
                   pending, zombies, submitted, history>>

\* Fault: the attempt number is taken from the record, not checked against the log.
ScheduleRetryFromRecord ==
    /\ msg = "running" /\ tx = NoTx /\ logs # << >>
    /\ LET l == Head(logs)
           r == rec[l.ticket]
       IN  scheduled' =
             IF l.gas = 0 \/ r.numTries = 0
             THEN scheduled
             ELSE Append(scheduled,
                    [ticket |-> l.ticket, seq |-> r.numTries - 1, gas |-> l.gas,
                     refundTo |-> l.refundTo, maxRefund |-> l.maxRefund,
                     submissionFeeRefund |-> l.submissionFeeRefund, from |-> r.from,
                     to |-> r.to, value |-> r.callvalue, intrinsic |-> r.intrinsic])
    /\ logs' = Tail(logs)
    /\ UNCHANGED <<bal, rec, queue, now, msg, userLeft, tx, backlog, pending, zombies,
                   submitted, history>>

\* scheduled_retries_from_redeem_logs: one iteration of its loop.  The logs of a
\* committed transaction are read in order before the next transaction starts.
ScheduleRetry ==
    /\ msg = "running" /\ tx = NoTx /\ logs # << >>
    /\ LET l == Head(logs)
           r == rec[l.ticket]
       IN  scheduled' =
             IF l.gas = 0 \/ r.numTries = 0 \/ r.numTries - 1 # l.seq
             THEN scheduled
             ELSE Append(scheduled,
                    [ticket |-> l.ticket, seq |-> l.seq, gas |-> l.gas,
                     refundTo |-> l.refundTo, maxRefund |-> l.maxRefund,
                     submissionFeeRefund |-> l.submissionFeeRefund, from |-> r.from,
                     to |-> r.to, value |-> r.callvalue, intrinsic |-> r.intrinsic])
    /\ logs' = Tail(logs)
    /\ UNCHANGED <<bal, rec, queue, now, msg, userLeft, tx, backlog, pending, zombies,
                   submitted, history>>

-----------------------------------------------------------------------------
(* Deposits and submit-retryable transactions.                             *)

\* apply_deposit_tx: mint to the sender, then transfer to the target or, for a
\* filtered transaction, to the filtered-funds recipient.
Deposit(u, target, amount) ==
    /\ UserTurn
    /\ bal' = Pay([bal EXCEPT ![u] = @ + amount], u, target, amount)
    /\ userLeft' = userLeft - 1
    /\ history' = [history EXCEPT !.minted = @ + amount, !.delivered = @ + amount]
    /\ UNCHANGED <<rec, queue, now, msg, scheduled, tx, logs, backlog, pending, zombies,
                   submitted>>

\* The stages of apply_submit_retryable_tx work on a record: the balances, the part
\* of the deposit still available for refunds, what was refunded from it, and
\* whether every transfer so far had the funds.
Transfer(st, x, y, a) ==
    IF st.result = "ok" /\ st.bal[x] >= a
    THEN [st EXCEPT !.bal = Pay(@, x, y, a)]
    ELSE [st EXCEPT !.result = "out_of_funds"]

\* take_funds
Take(st, a) == [st EXCEPT !.avail = Monus(@, a)]

\* Take up to a from the available deposit and transfer what was taken.
Refund(st, x, y, a) ==
    LET taken == Lesser(st.avail, a)
    IN  Transfer([bal |-> st.bal, avail |-> st.avail - taken,
                  refunded |-> st.refunded + taken, result |-> st.result], x, y, taken)

RefundAddress(s) == IF s.filtered THEN FilteredFundsRecipient ELSE s.feeRefund

Beneficiary(s) == IF s.filtered THEN FilteredFundsRecipient ELSE s.beneficiary

Unminted(s) == [bal |-> bal, avail |-> 0, refunded |-> 0, result |-> "ok"]

Minted(s) ==
    [bal |-> [bal EXCEPT ![s.from] = @ + s.deposit], avail |-> s.deposit, refunded |-> 0,
     result |-> "ok"]

AfterRetryValue(s) == Take(Minted(s), s.retryValue)

WithheldFee(s) == Lesser(AfterRetryValue(s).avail, s.submissionFee)

FeeCharged(s) ==
    Take(Transfer(AfterRetryValue(s), s.from, NetworkFeeAccount, s.submissionFee),
         s.submissionFee)

FeeRefunded(s) ==
    Refund(FeeCharged(s), s.from, RefundAddress(s), s.maxSubmissionFee - s.submissionFee)

Escrowed(s) == Transfer(FeeRefunded(s), s.from, Escrow[s.ticket], s.retryValue)

\* The escrow could not be funded: give the submission fee back.
Unwound(s) ==
    LET back == Transfer(FeeRefunded(s), NetworkFeeAccount, s.from, s.submissionFee)
    IN  Transfer([back EXCEPT !.refunded = @ + WithheldFee(s)],
                 s.from, RefundAddress(s), WithheldFee(s))

MaxGasCost(s) == s.gasFeeCap * s.gasLimit

GasCostRefunded(s) == Refund(Escrowed(s), s.from, RefundAddress(s), MaxGasCost(s))

GasCost(s) == BaseFee * s.gasLimit

WithheldGas(s) == Lesser(Escrowed(s).avail, GasCost(s))

\* Fault: the whole gas cost goes to the network account.
GasChargedToNetwork(s) ==
    Take(Transfer(Escrowed(s), s.from, NetworkFeeAccount, GasCost(s)), GasCost(s))

GasCharged(s) ==
    LET infra == Transfer(Escrowed(s), s.from, InfraFeeAccount, InfraPrice * s.gasLimit)
    IN  Take(Transfer(infra, s.from, NetworkFeeAccount,
                      (BaseFee - InfraPrice) * s.gasLimit), GasCost(s))

PriceRefunded(s) ==
    Refund(GasCharged(s), s.from, RefundAddress(s),
           (s.gasFeeCap - BaseFee) * s.gasLimit)

\* Fault: the submission fee counts in full although the sender may have paid it.
MaxRefundWholeFee(s) == PriceRefunded(s).avail + WithheldGas(s) + s.submissionFee

MaxRefund(s) == PriceRefunded(s).avail + WithheldGas(s) + WithheldFee(s)

\* The exit apply_submit_retryable_tx takes, in the order of its checks.
SubmitPath(s) ==
    IF s.maxSubmissionFee < s.submissionFee THEN "fee_too_low"
    ELSE IF Minted(s).bal[s.from] < s.maxSubmissionFee THEN "unfunded"
    ELSE IF FeeRefunded(s).result = "ok" /\ FeeRefunded(s).bal[s.from] < s.retryValue
         THEN "escrow_failed"
    ELSE IF \/ Escrowed(s).bal[s.from] < MaxGasCost(s)
            \/ s.gasLimit < TxGas
            \/ s.gasFeeCap < BaseFee
         THEN "no_redeem"
    ELSE IF s.filtered THEN "filtered" ELSE "redeem"

SubmitStage(s) ==
    CASE SubmitPath(s) = "fee_too_low"   -> Unminted(s)
      [] SubmitPath(s) = "unfunded"      -> Minted(s)
      [] SubmitPath(s) = "escrow_failed" -> Unwound(s)
      [] SubmitPath(s) = "no_redeem"     -> GasCostRefunded(s)
      [] OTHER                           -> PriceRefunded(s)

Creates(path) == path \in {"no_redeem", "filtered", "redeem"}

NewRecord(s) ==
    [numTries |-> IF SubmitPath(s) = "redeem" THEN 1 ELSE 0, from |-> s.from, to |-> s.to,
     callvalue |-> s.retryValue, beneficiary |-> Beneficiary(s),
     timeout |-> now + Lifetime, windowsLeft |-> 0, intrinsic |-> s.intrinsic]

SubmitLog(s) ==
    [ticket |-> s.ticket, seq |-> 0, gas |-> s.gasLimit, refundTo |-> RefundAddress(s),
     maxRefund |-> MaxRefund(s), submissionFeeRefund |-> s.submissionFee]

\* The whole submit-retryable transaction.  A failed one keeps its state changes.
SubmitRetryable(s) ==
    LET path == SubmitPath(s)
        st == SubmitStage(s)
        t == s.ticket
    IN  /\ UserTurn
        /\ t \notin submitted
        /\ now + Lifetime <= MaxTimeout
        /\ IF st.result # "ok" THEN Abort("submit_transfer") ELSE
           /\ bal' = st.bal
           /\ rec' = IF Creates(path) THEN [rec EXCEPT ![t] = NewRecord(s)] ELSE rec
           /\ queue' = IF Creates(path) THEN Append(queue, t) ELSE queue
           /\ logs' = IF path = "redeem" THEN <<SubmitLog(s)>> ELSE << >>
           /\ pending' = IF path = "redeem" /\ s.retryValue = 0 /\ PreStylus
                         THEN pending \cup {t} ELSE pending
           /\ submitted' = submitted \cup {t}
           /\ userLeft' = userLeft - 1
           /\ history' =
                [history EXCEPT
                   !.minted = @ + IF path = "fee_too_low" THEN 0 ELSE s.deposit,
                   !.delivered = @ + s.deposit,
                   !.deposit[t] = s.deposit,
                   !.refunded[t] = st.refunded,
                   !.born = @ \cup {t}]
           /\ UNCHANGED <<now, msg, scheduled, tx, backlog, zombies>>

-----------------------------------------------------------------------------
(* User transactions and the calls their bodies make.                      *)

\* validate_against_state_and_deduct_caller: buy the whole gas limit up front.
BeginUserTx(u, g) ==
    /\ UserTurn
    /\ g >= TxGas /\ bal[u] >= BaseFee * g
    /\ bal' = [bal EXCEPT ![u] = @ - BaseFee * g]
    /\ tx' = [kind |-> "user", origin |-> u, limit |-> g, gas |-> g - TxGas, donated |-> 0]
    /\ userLeft' = userLeft - 1
    /\ UNCHANGED <<rec, queue, now, msg, scheduled, logs, backlog, pending, zombies,
                   submitted, history>>

\* A transaction that cannot pay for its gas, or whose limit is below the intrinsic
\* gas, is an error of evm.transact.
RejectUserTx(u, g) ==
    UserTurn /\ (g < TxGas \/ bal[u] < BaseFee * g) /\ Abort("invalid_tx")

\* A transaction arb_envelope_to_tx_env cannot convert is skipped.
SkipUnsupported ==
    /\ UserTurn
    /\ userLeft' = userLeft - 1
    /\ UNCHANGED <<bal, rec, queue, now, msg, scheduled, tx, logs, backlog, pending,
                   zombies, submitted, history>>

\* reimburse_caller, then reward_beneficiary.
EndUserTx(left) ==
    /\ tx.kind = "user" /\ left <= tx.gas
    /\ bal' = PayFees([bal EXCEPT ![tx.origin] = @ + BaseFee * left], tx.limit - left)
    /\ backlog' = Grow(backlog, tx.limit - left)
    /\ history' = [history EXCEPT !.work = Grow(@, tx.limit - left - tx.donated)]
    /\ tx' = NoTx
    /\ UNCHANGED <<rec, queue, now, msg, userLeft, scheduled, logs, pending, zombies,
                   submitted>>

\* Fault: a call costs its caller only the gas it donates.
BodyCallFree(cost, donation) ==
    /\ tx # NoTx
    /\ tx.gas >= cost
    /\ tx' = [tx EXCEPT !.gas = @ - donation, !.donated = @ + donation]

\* The running body makes a call that costs it this much gas.
BodyCall(cost, donation) ==
    /\ tx # NoTx
    /\ tx.gas >= cost
    /\ tx' = [tx EXCEPT !.gas = @ - cost, !.donated = @ + donation]

Send(x, y, amount) ==
    /\ BodyCall(CallGas, 0)
    /\ bal[x] >= amount
    /\ bal' = Pay(bal, x, y, amount)
    /\ UNCHANGED <<rec, queue, now, msg, userLeft, scheduled, logs, backlog, pending,
                   zombies, submitted, history>>

\* ArbRetryableTx.redeem: the gas left after the reserved costs is donated to a retry.
Redeem(caller, t, donated) ==
    /\ BodyCall(CallGas + donated, donated)
    /\ Exists(t)
    /\ donated >= TxGas
    /\ rec' = [rec EXCEPT ![t].numTries = @ + 1]
    /\ logs' = Append(logs,
                 [ticket |-> t, seq |-> rec[t].numTries, gas |-> donated,
                  refundTo |-> caller, maxRefund |-> MaxU256, submissionFeeRefund |-> 0])
    /\ backlog' = Monus(backlog, donated)
    /\ UNCHANGED <<bal, queue, now, msg, userLeft, scheduled, pending, zombies, submitted,
                   history>>

\* ArbRetryableTx.keepalive
Keepalive(t) ==
    /\ BodyCall(CallGas, 0)
    /\ TimeoutWithWindows(t) # 0
    /\ TimeoutWithWindows(t) + Lifetime <= MaxTimeout
    /\ rec' = [rec EXCEPT ![t].timeout = TimeoutWithWindows(t) + Lifetime,
                          ![t].windowsLeft = 0]
    /\ UNCHANGED <<bal, queue, now, msg, userLeft, scheduled, logs, backlog, pending,
                   zombies, submitted, history>>

\* ArbRetryableTx.cancel
Cancel(caller, t) ==
    /\ BodyCall(CallGas, 0)
    /\ Live(t)
    /\ caller = rec[t].beneficiary
    /\ LET st == DeleteRetryable(Store(bal), t)
       IN  rec' = st.rec /\ bal' = st.bal
    /\ UNCHANGED <<queue, now, msg, userLeft, scheduled, logs, backlog, pending, zombies,
                   submitted, history>>

-----------------------------------------------------------------------------
(* Retry transactions.                                                     *)

\* retry_fee_refund: the fee account pays amount, to the refund address as far as
\* the budget goes, the rest to the sender of the ticket.
RetryFeeRefund(st, source, amount, r) ==
    LET within == Lesser(amount, st.budget)
        first == Lesser(within, st.bal[source])
        paid == Pay(st.bal, source, r.refundTo, first)
        second == Lesser(amount - within, paid[source])
    IN  IF source = ZeroAddress
        THEN [st EXCEPT !.budget = @ - within]
        ELSE [bal |-> Pay(paid, source, r.from, second),
              budget |-> st.budget - within,
              refunded |-> st.refunded + first,
              short |-> st.short + amount - first - second]

\* retry_end_tx_hook, up to the backlog update.
RetryRefunds(b, r, success, left) ==
    LET start == [bal |-> b, budget |-> r.maxRefund, refunded |-> 0, short |-> 0]
        fee == IF success
               THEN RetryFeeRefund(start, NetworkFeeAccount, r.submissionFeeRefund, r)
               ELSE [start EXCEPT !.budget = Monus(@, r.submissionFeeRefund)]
        work == [fee EXCEPT !.budget = Monus(@, BaseFee * (r.gas - left))]
        infra == RetryFeeRefund(work, InfraFeeAccount, InfraPrice * left, r)
    IN  RetryFeeRefund(infra, NetworkFeeAccount, (BaseFee - InfraPrice) * left, r)

Refunded(st, r, donated, left) ==
    [history EXCEPT
       !.refunded[r.ticket] = @ + IF r.maxRefund = MaxU256 THEN 0 ELSE st.refunded,
       !.short = @ + st.short,
       !.work = Grow(@, r.gas - left - donated)]

\* Fault: the callvalue stays in the escrow.
CallvalueStays(r) == bal

\* apply_retry_tx_pre_execution moves the callvalue out of the escrow.
CallvalueMoved(r) == Pay(bal, Escrow[r.ticket], r.from, rec[r.ticket].callvalue)

RetryError(r) ==
    IF r.gas < r.intrinsic THEN "retry_invalid"
    ELSE IF ~Exists(r.ticket) THEN "retry_not_found"
    ELSE IF bal[Escrow[r.ticket]] < rec[r.ticket].callvalue THEN "retry_callvalue"
    ELSE "none"

\* The retry at the front fails validation or its pre-execution hook.
AbortOnRetry ==
    /\ RetryTurn
    /\ RetryError(Head(scheduled)) # "none"
    /\ Abort(RetryError(Head(scheduled)))

\* A retry whose body will succeed: its frame moves the value on to its target.
BeginRetry ==
    LET r == Head(scheduled)
        b == CallvalueMoved(r)
    IN  /\ RetryTurn
        /\ RetryError(r) = "none"
        /\ b[r.from] >= r.value
        /\ bal' = Pay(b, r.from, r.to, r.value)
        /\ tx' = [kind |-> "retry", retry |-> r, limit |-> r.gas,
                  gas |-> r.gas - r.intrinsic, donated |-> 0]
        /\ scheduled' = Tail(scheduled)
        /\ UNCHANGED <<rec, queue, now, msg, userLeft, logs, backlog, pending, zombies,
                       submitted, history>>

\* Fault: the gas of a successful retry does not enter the backlog.
EndRetryUncounted(left) ==
    LET r == tx.retry
        st == RetryRefunds(bal, r, TRUE, left)
        done == DeleteRetryable(Store(st.bal), r.ticket)
    IN  /\ tx.kind = "retry" /\ left <= tx.gas
        /\ bal' = done.bal
        /\ rec' = done.rec
        /\ zombies' = IF r.ticket \in pending THEN zombies \cup {r.ticket} ELSE zombies
        /\ history' = Refunded(st, r, tx.donated, left)
        /\ tx' = NoTx
        /\ UNCHANGED <<queue, now, msg, userLeft, scheduled, logs, backlog, pending,
                       submitted>>

\* retry_end_tx_hook and apply_retry_tx_post_execution after a success.
EndRetry(left) ==
    LET r == tx.retry
        st == RetryRefunds(bal, r, TRUE, left)
        done == DeleteRetryable(Store(st.bal), r.ticket)
    IN  /\ tx.kind = "retry" /\ left <= tx.gas
        /\ bal' = done.bal
        /\ rec' = done.rec
        /\ backlog' = Grow(backlog, r.gas - left)
        /\ zombies' = IF r.ticket \in pending THEN zombies \cup {r.ticket} ELSE zombies
        /\ history' = Refunded(st, r, tx.donated, left)
        /\ tx' = NoTx
        /\ UNCHANGED <<queue, now, msg, userLeft, scheduled, logs, pending, submitted>>

\* Fault: a failed retry leaves its callvalue with the sender.
RetryFailsKeepingValue(left) ==
    LET r == Head(scheduled)
        st == RetryRefunds(CallvalueMoved(r), r, FALSE, left)
    IN  /\ RetryTurn
        /\ RetryError(r) = "none"
        /\ left <= r.gas - r.intrinsic
        /\ bal' = st.bal
        /\ backlog' = Grow(backlog, r.gas - left)
        /\ history' = Refunded(st, r, 0, left)
        /\ scheduled' = Tail(scheduled)
        /\ UNCHANGED <<rec, queue, now, msg, userLeft, tx, logs, pending, zombies,
                       submitted>>

\* A retry whose body reverts, or which is filtered: both hooks, and nothing between.
RetryFails(left) ==
    LET r == Head(scheduled)
        value == rec[r.ticket].callvalue
        st == RetryRefunds(CallvalueMoved(r), r, FALSE, left)
    IN  /\ RetryTurn
        /\ RetryError(r) = "none"
        /\ left <= r.gas - r.intrinsic
        /\ IF st.bal[r.from] < value THEN Abort("retry_return") ELSE
           /\ bal' = Pay(st.bal, r.from, Escrow[r.ticket], value)
           /\ backlog' = Grow(backlog, r.gas - left)
           /\ history' = Refunded(st, r, 0, left)
           /\ scheduled' = Tail(scheduled)
           /\ UNCHANGED <<rec, queue, now, msg, userLeft, tx, logs, pending, zombies,
                          submitted>>

-----------------------------------------------------------------------------
Init ==
    /\ bal = [a \in Addresses |-> IF a \in Users THEN InitialBalance ELSE 0]
    /\ rec = [t \in Tickets |-> EmptyRecord]
    /\ queue = << >>
    /\ now = 0
    /\ msg = "idle"
    /\ userLeft = 0
    /\ scheduled = << >>
    /\ tx = NoTx
    /\ logs = << >>
    /\ backlog = 0
    /\ pending = {}
    /\ zombies = {}
    /\ submitted = {}
    /\ history = [minted |-> 0, delivered |-> 0, deposit |-> [t \in Tickets |-> 0],
                  refunded |-> [t \in Tickets |-> 0], work |-> 0, short |-> 0,
                  born |-> {}, txs |-> 0]

Recipients == Users \cup {Escrow[t] : t \in Tickets}

Body ==
    \/ \E x \in Users, y \in Recipients, a \in Amounts : Send(x, y, a)
    \/ \E c \in Users, t \in Tickets, d \in 0..tx.gas : Redeem(c, t, d)
    \/ \E t \in Tickets : Keepalive(t)
    \/ \E c \in Users, t \in Tickets : Cancel(c, t)

Step ==
    \/ ScheduleRetry
    \/ EndMessage
    \/ SkipUnsupported
    \/ \E u \in Users, y \in Recipients \cup {FilteredFundsRecipient}, a \in Amounts :
          Deposit(u, y, a)
    \/ \E s \in Submissions : SubmitRetryable(s)
    \/ \E u \in Users, g \in GasLimits : BeginUserTx(u, g)
    \/ \E u \in Users, g \in GasLimits : RejectUserTx(u, g)
    \/ \E left \in 0..tx.gas : EndUserTx(left)
    \/ AbortOnRetry
    \/ BeginRetry
    \/ \E left \in 0..tx.gas : EndRetry(left)
    \/ RetryTurn /\ \E left \in 0..Head(scheduled).gas : RetryFails(left)

Next == (\E time \in 0..MaxTime : StartBlock(time)) \/ Body \/ Step

Spec == Init /\ [][Next]_vars

\* The execution loop never pauses, the sequencer keeps feeding messages, and L1
\* timestamps advance.  That transaction bodies end is not assumed: their gas runs out.
Fairness ==
    /\ WF_vars(Next)
    /\ SF_vars(\E time \in 0..MaxTime : time > now /\ StartBlock(time))

FairSpec == Spec /\ Fairness

-----------------------------------------------------------------------------
(* Properties.                                                             *)

Record ==
    [numTries : Nat, from : Addresses, to : Addresses, callvalue : Nat,
     beneficiary : Addresses, timeout : Nat, windowsLeft : Nat, intrinsic : Nat]

History ==
    [minted : Nat, delivered : Nat, deposit : [Tickets -> Nat],
     refunded : [Tickets -> Nat], work : Nat, short : Nat, born : SUBSET Tickets,
     txs : Nat]

\* Every variable holds a value of its type.
TypeOK ==
    /\ bal \in [Addresses -> Nat]
    /\ rec \in [Tickets -> Record]
    /\ queue \in Seq(Tickets)
    /\ now \in Nat
    /\ msg \in {"idle", "running"} \cup AbortReasons
    /\ userLeft \in Nat
    /\ scheduled \in Seq(Envelope)
    /\ tx \in {NoTx} \cup UserTx \cup RetryTx
    /\ logs \in Seq(RedeemLog)
    /\ backlog \in Nat
    /\ pending \subseteq Tickets
    /\ zombies \subseteq Tickets
    /\ submitted \subseteq Tickets
    /\ history \in History

\* A removed ticket leaves nothing in its record, a live one was submitted by a user,
\* and no ticket ever has an extension window left.  The reaper consumes the queue entry
\* of a ticket with windows left and never puts it back (try_to_reap_one), so a ticket
\* that had one would live for ever.
RecordsWellFormed ==
    \A t \in Tickets :
        /\ rec[t].windowsLeft = 0
        /\ IF Live(t) THEN rec[t].from \in Users /\ t \in submitted
                      ELSE rec[t] = EmptyRecord

\* The escrow of a live ticket holds at least its callvalue, except while a retry of
\* that ticket runs.  So the pre-execution hook of a retry (retry_tx.rs) always finds
\* the money it moves to the sender, whatever the other transactions did.
EscrowCoversCallvalue ==
    \A t \in Tickets :
        Live(t) /\ ~InFlight(t) => bal[Escrow[t]] >= rec[t].callvalue

\* Every live ticket is in the timeout queue, and no ticket is in it twice.  A ticket
\* missing there would never be reaped, and its escrow would never be released.
QueueHoldsLiveTickets ==
    /\ \A i, j \in DOMAIN queue : queue[i] = queue[j] => i = j
    /\ \A t \in Tickets : Live(t) => \E i \in DOMAIN queue : queue[i] = t

\* A scheduled retry agrees with the record of its ticket as long as the ticket lives,
\* although the retry was built from the record several transactions earlier; and no
\* two scheduled retries are the same attempt of the same ticket.
EnvelopesMatchRecords ==
    /\ \A i \in DOMAIN scheduled :
          LET r == scheduled[i] IN
          Live(r.ticket) => /\ r.from = rec[r.ticket].from
                            /\ r.to = rec[r.ticket].to
                            /\ r.value = rec[r.ticket].callvalue
                            /\ r.intrinsic = rec[r.ticket].intrinsic
                            /\ r.seq < rec[r.ticket].numTries
    /\ \A i, j \in DOMAIN scheduled :
          /\ scheduled[i].ticket = scheduled[j].ticket
          /\ scheduled[i].seq = scheduled[j].seq
          => i = j

\* No transfer whose failure would abort the whole message ever fails: the fee and
\* refund transfers of a submission, the callvalue transfer of a retry, and its return.
NoFatalTransfer == msg \notin {"submit_transfer", "retry_callvalue", "retry_return"}

\* What a submission and its automatic redeem refund to the fee refund address never
\* exceeds the deposit that came from L1.
RefundBoundedByDeposit ==
    \A t \in Tickets : history.refunded[t] <= history.deposit[t]

\* The fee accounts can always pay the refunds of a retry in full: the cap to the
\* available balance in retry_fee_refund never takes effect.
RefundsFullyFunded == history.short = 0

\* Donating gas to a retry never hides work from the backlog: shrinking it by the
\* donation, charging the redeem and growing it by the retry covers what was executed.
BacklogCoversWork == backlog + tx.donated >= history.work

\* The escrow of a ticket that does not live is never drawn on.
DeadTicketsNeverPay ==
    [][\A t \in Tickets : ~Live(t) => bal'[Escrow[t]] >= bal[Escrow[t]]]_vars

\* Outside transaction bodies a ticket disappears only after its timeout has passed:
\* the reaper never takes a ticket that could still be redeemed in the new block.
ReapOnlyExpired ==
    [][\A t \in Tickets :
          tx.kind = "none" /\ Live(t) /\ rec[t].timeout >= now' => Live(t)']_vars

\* An escrow is resurrected as an empty account only by a retry in the block that
\* submitted its ticket.
ZombiesOnlyInSubmitBlock == [][zombies' \ zombies \subseteq history.born]_vars

\* Every message comes to an end, although retries may schedule further retries.
MessageTerminates == msg = "running" ~> msg # "running"

\* Every ticket is eventually redeemed, cancelled or reaped.
TicketsAreTransient == \A t \in Tickets : Live(t) ~> ~Live(t)

\* The comment of apply_submit_retryable_tx: the deposit is minted before the
\* submission fee is validated, so every deposit L1 delivered has been minted.
DepositsMinted == history.minted = history.delivered

\* The comment of scheduled_retries_from_redeem_logs: a scheduled redeem runs within
\* the same block.  A message never ends with a retry still waiting.
ScheduledRetriesRun == msg # "running" => scheduled = << >>
=============================================================================
