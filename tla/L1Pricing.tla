------------------------------ MODULE L1Pricing ------------------------------
(***************************************************************************)
(* How ArbOS pays batch posters for L1 data.  User transactions pay a      *)
(* poster fee into the L1 pricer funds pool and count calldata units; a    *)
(* batch posting report charges units and spending to a poster, pays the   *)
(* reward recipient and the poster out of the pool, and moves the price of *)
(* a unit.  From ArbOS version 10 on a counter, l1_fees_available, and not *)
(* the balance of the pool, says how much may be paid.                     *)
(*                                                                         *)
(* Amounts stay far below 2^255 wei and 2^64 units, so that saturation is  *)
(* left out; subtraction that stops at zero is kept.  A report that fails  *)
(* aborts its message and leaves no trace.  Reads of storage do not fail.  *)
(* The spec a transaction runs under is that of the stored version.        *)
(*                                                                         *)
(* A definition whose comment starts with "Fault:" is a faulty variant of  *)
(* the definition after it.  No specification uses it: it shows that a     *)
(* property notices the fault.                                             *)
(***************************************************************************)
EXTENDS Integers

CONSTANTS
    Posters,            \* addresses that post batches
    BatchPoster,        \* BATCH_POSTER_ADDRESS, registered at genesis
    Accounts,           \* addresses that can be paid: fee collectors, reward recipients
    Pool,               \* L1_PRICER_FUNDS_POOL_ADDRESS, itself payable
    PosterPayTo,        \* BATCH_POSTER_PAY_TO_ADDRESS
    ChainOwner,
    Versions,           \* ArbOS versions the chain may have
    GenesisParameters,  \* parameters InitializeL1PricingState writes
    GenesisPrice,
    ParameterValues,    \* ParameterValues[f]: what the owner may set parameter f to
    Prices,             \* what the owner may set the price to
    PerBatchGasV6, PerBatchGasV12, EquilibrationUnitsV6,
    MaxBips,            \* u64::MAX, the cost cap version 3 installs
    OneInBips,
    DataZeroGas, DataNonZeroGas, KeccakGas, KeccakWordGas, WordSize, SstoreGas,
    FloorTokens, TxGas,
    TxUnits,            \* calldata units of user transactions
    GasPrices,          \* gas prices of user transactions
    Donations,          \* transfers to the pool
    Batches,            \* batches reported
    MaxTime, MaxTxs, MaxReports, MaxOwnerCalls   \* bounds

VARIABLES
    version,          \* arbos_version
    now,              \* timestamp of the block
    table,            \* the BatchPosterTable
    par,              \* parameters the owner sets
    price,            \* price_per_unit
    unitsSince,       \* units_since_update
    lastUpdateTime,
    rewardsDue,       \* funds_due_for_rewards
    lastSurplus,
    available,        \* l1_fees_available
    pool,             \* balance of the pool
    failed,           \* a payment out of the pool failed
    history           \* what happened, for the properties only

vars == <<version, now, table, par, price, unitsSince, lastUpdateTime, rewardsDue,
          lastSurplus, available, pool, failed, history>>

Payees == Accounts \cup Posters \cup {Pool}

\* A batch as a report describes it: version 1 gives the gas of its data, version 2 its size.
Batch ==
    [v2 : {FALSE}, dataGas : Nat, baseFee : Nat]
      \cup [v2 : {TRUE}, length : Nat, nonZeros : Nat, extraGas : Nat, baseFee : Nat]

Parameters ==
    [payRewardsTo : Payees, equilibrationUnits : Nat, inertia : Nat, perUnitReward : Nat,
     perBatchGas : Int, costCapBips : Nat, gasFloorPerToken : Nat]

ASSUME AddressAssumption ==
    BatchPoster \in Posters /\ PosterPayTo \in Payees /\ ChainOwner \in Payees

ASSUME NumbersAssumption ==
    /\ Versions \subseteq Nat \ {0}
    /\ GenesisParameters \in Parameters
    /\ GenesisPrice \in Nat /\ Prices \subseteq Nat
    /\ ParameterValues \in
         [payRewardsTo : SUBSET Payees, equilibrationUnits : SUBSET Nat, inertia : SUBSET Nat,
          perUnitReward : SUBSET Nat, perBatchGas : SUBSET Int, costCapBips : SUBSET Nat,
          gasFloorPerToken : SUBSET Nat]
    /\ {PerBatchGasV6, PerBatchGasV12, EquilibrationUnitsV6, MaxBips} \subseteq Nat
    /\ OneInBips \in Nat \ {0} /\ WordSize \in Nat \ {0}
    /\ {DataZeroGas, DataNonZeroGas, KeccakGas, KeccakWordGas, SstoreGas, FloorTokens,
        TxGas} \subseteq Nat
    /\ TxUnits \subseteq Nat /\ GasPrices \subseteq Nat /\ Donations \subseteq Nat
    /\ Batches \subseteq Batch
    /\ {MaxTime, MaxTxs, MaxReports, MaxOwnerCalls} \subseteq Nat

Lesser(a, b) == IF a < b THEN a ELSE b
Monus(a, b) == IF a < b THEN 0 ELSE a - b

UsesCounter(v) == v >= 10

-----------------------------------------------------------------------------
(* The batch poster table.                                                 *)

Table ==
    [members : SUBSET Posters, due : [Posters -> Nat], payTo : [Posters -> Payees],
     totalDue : Int]

AddPoster(tab, p, to) ==
    [tab EXCEPT !.members = @ \cup {p}, !.due[p] = 0, !.payTo[p] = to]

\* Fault: a poster that is registered already is registered again.
OpenPosterAnew(tab, p) == AddPoster(tab, p, p)

\* open_poster_checked; a poster that is missing is added and paid at its own address.
OpenPoster(tab, p) == IF p \in tab.members THEN tab ELSE AddPoster(tab, p, p)

SetFundsDue(tab, p, amount) ==
    [tab EXCEPT !.due[p] = amount, !.totalDue = @ + amount - tab.due[p]]

-----------------------------------------------------------------------------
(* What a report charges.                                                  *)

\* legacy_batch_cost_for_stats
LegacyBatchCost(length, nonZeros) ==
    DataZeroGas * Monus(length, nonZeros) + DataNonZeroGas * nonZeros
      + KeccakGas + KeccakWordGas * ((length + WordSize - 1) \div WordSize)
      + 2 * SstoreGas

FloorGas(length, nonZeros) ==
    par.gasFloorPerToken * (length + 3 * nonZeros + FloorTokens) + TxGas

\* The gas a report says the poster spent.
GasSpent(batch) ==
    LET perBatch == Monus(par.perBatchGas, 0)
        spent == LegacyBatchCost(batch.length, batch.nonZeros) + batch.extraGas + perBatch
        floor == FloorGas(batch.length, batch.nonZeros)
    IN IF ~batch.v2 THEN perBatch + batch.dataGas
       ELSE IF version >= 50 /\ floor > spent THEN floor
       ELSE spent

\* The first report counts from one second before the time it reports.
PreviousUpdate(time) == IF lastUpdateTime = 0 /\ time > 0 THEN time - 1 ELSE lastUpdateTime

InOrder(time) == time <= now /\ time >= PreviousUpdate(time)

\* Fault: the interval a report covers is one second too long.
UnitsAllocatedBySecond(time) ==
    LET elapsed == now - PreviousUpdate(time)
    IN (unitsSince * (time - PreviousUpdate(time) + 1)) \div (IF elapsed = 0 THEN 1 ELSE elapsed)

\* The units a report charges: those since the last update, pro rata of the time it covers.
UnitsAllocated(time) ==
    LET elapsed == now - PreviousUpdate(time)
    IN IF elapsed = 0
       THEN unitsSince
       ELSE (unitsSince * (time - PreviousUpdate(time))) \div elapsed

\* Spending beyond the amortized cost cap is the poster's loss.
Amortized(wei, baseFee, units) ==
    IF version >= 3 /\ par.costCapBips # 0
    THEN Lesser(wei, (baseFee * units * par.costCapBips) \div OneInBips)
    ELSE wei

-----------------------------------------------------------------------------
(* Payments out of the pool.                                               *)

\* What may be paid, given the counter and the balance of the pool.
Funds(counter, balance) == IF UsesCounter(version) THEN counter ELSE balance

\* Fault: the counter is not reduced by what is paid.
CounterAfterUnpaid(counter, amount) == counter

CounterAfter(counter, amount) ==
    IF UsesCounter(version) THEN Monus(counter, amount) ELSE counter

\* transfer_from_pool; the pool may pay itself.
BalanceAfter(balance, to, amount) == IF to = Pool THEN balance ELSE balance - amount

\* Rewards, then the poster.  The reward covers the units of this report only.
Payment(claim, p, target) ==
    LET reward == Lesser(target, Funds(available, pool))
        counter == CounterAfter(available, reward)
        balance == BalanceAfter(pool, par.payRewardsTo, reward)
        paid == Lesser(claim.due[p], Funds(counter, balance))
    IN [reward |-> reward, paid |-> paid,
        funded |-> reward <= pool /\ paid <= balance,
        available |-> CounterAfter(counter, paid),
        pool |-> BalanceAfter(balance, claim.payTo[p], paid)]

\* The funds left once everything due is paid.
Surplus(counter, balance, due, total) == Funds(counter, balance) - (due + total)

-----------------------------------------------------------------------------
(* The price of a unit.                                                    *)

\* div_i256_like_go_bigint: rounds down, as division of Go's big integers does.
DivLikeGo(a, b) ==
    LET quotient == IF a < 0 THEN -((-a) \div b) ELSE a \div b
    IN IF a - quotient * b < 0 THEN quotient - 1 ELSE quotient

\* Fault: the price is driven away from equilibrium.
PriceChangeAway(units, surplus) ==
    LET desired == DivLikeGo(surplus, par.equilibrationUnits)
        actual == DivLikeGo(surplus - lastSurplus, units)
    IN DivLikeGo((desired - actual) * units, par.equilibrationUnits \div par.inertia + units)

PriceChange(units, surplus) ==
    LET desired == DivLikeGo(-surplus, par.equilibrationUnits)
        actual == DivLikeGo(surplus - lastSurplus, units)
    IN DivLikeGo((desired - actual) * units, par.equilibrationUnits \div par.inertia + units)

\* The early returns of a report, after the payments and before the price moves.
Reprices(units) == units # 0 /\ par.inertia # 0 /\ par.equilibrationUnits # 0

NextPrice(units, surplus) == Monus(price + PriceChange(units, surplus), 0)

\* Before version 7 the slot holds the magnitude, before version 2 nothing.
StoredSurplus(surplus) ==
    IF version < 2 THEN lastSurplus
    ELSE IF version < 7 /\ surplus < 0 THEN -surplus
    ELSE surplus

-----------------------------------------------------------------------------
(* Actions.                                                                *)

\* The parameters after the steps of an upgrade.
Upgraded(p, from, to) ==
    LET Runs(step) == from < step /\ step <= to
        v3 == IF Runs(3) THEN [p EXCEPT !.perBatchGas = 0, !.costCapBips = MaxBips] ELSE p
        v11 == [v3 EXCEPT !.perBatchGas = PerBatchGasV12,
                          !.costCapBips = IF @ = MaxBips THEN 0 ELSE @]
    IN IF Runs(11) THEN v11 ELSE v3

\* initialize_arbos_state at version v
GenesisPar(v) ==
    LET baseline == [GenesisParameters EXCEPT
                       !.payRewardsTo = IF v >= 2 THEN ChainOwner ELSE BatchPoster]
        p == Upgraded(baseline, 1, v)
    IN IF v < 6 THEN p
       ELSE [p EXCEPT !.perBatchGas = IF v < 11 THEN PerBatchGasV6 ELSE @,
                      !.equilibrationUnits = EquilibrationUnitsV6]

Init ==
    /\ version \in Versions
    /\ now = 1
    /\ table = AddPoster([members |-> {}, due |-> [p \in Posters |-> 0],
                          payTo |-> [p \in Posters |-> p], totalDue |-> 0],
                         BatchPoster, PosterPayTo)
    /\ par = GenesisPar(version)
    /\ price = GenesisPrice
    /\ unitsSince = 0 /\ lastUpdateTime = 0 /\ rewardsDue = 0 /\ lastSurplus = 0
    /\ available = 0 /\ pool = 0 /\ failed = FALSE
    /\ history = [units |-> 0, allocated |-> 0, spent |-> [p \in Posters |-> 0],
                  settled |-> [p \in Posters |-> 0], txs |-> 0, reports |-> 0, calls |-> 0]

\* A later block begins.
NextBlock ==
    /\ now < MaxTime
    /\ now' = now + 1
    /\ UNCHANGED <<version, table, par, price, unitsSince, lastUpdateTime, rewardsDue,
                   lastSurplus, available, pool, failed, history>>

\* The start of a block upgrades ArbOS; version 10 starts the counter at what the pool holds.
Upgrade(v) ==
    /\ version < v
    /\ version' = v
    /\ par' = Upgraded(par, version, v)
    /\ lastSurplus' = IF version < 2 /\ v >= 2 THEN 0 ELSE lastSurplus
    /\ available' = IF version < 10 /\ v >= 10 THEN pool ELSE available
    /\ UNCHANGED <<now, table, price, unitsSince, lastUpdateTime, rewardsDue, pool, failed,
                   history>>

\* compute_poster_info: the cost of the units, in whole gas.
PosterFee(units, gasPrice) ==
    IF gasPrice = 0 THEN 0 ELSE gasPrice * ((price * units) \div gasPrice)

\* Fault: the counter is credited with the cost before it is rounded to whole gas.
UserTxCreditsCost(units, gasPrice) ==
    /\ history.txs < MaxTxs
    /\ LET fee == PosterFee(units, gasPrice)
       IN /\ pool' = IF version >= 2 THEN pool + fee ELSE pool
          /\ available' = IF UsesCounter(version) THEN available + price * units ELSE available
    /\ unitsSince' = unitsSince + units
    /\ history' = [history EXCEPT !.txs = @ + 1, !.units = @ + units]
    /\ UNCHANGED <<version, now, table, par, price, lastUpdateTime, rewardsDue, lastSurplus,
                   failed>>

\* A user transaction in a block of the batch poster: its units are counted before it
\* runs, its fee is credited after.  Before version 2 the fee goes to the coinbase.
UserTx(units, gasPrice) ==
    /\ history.txs < MaxTxs
    /\ LET fee == PosterFee(units, gasPrice)
       IN /\ pool' = IF version >= 2 THEN pool + fee ELSE pool
          /\ available' = IF UsesCounter(version) THEN available + fee ELSE available
    /\ unitsSince' = unitsSince + units
    /\ history' = [history EXCEPT !.txs = @ + 1, !.units = @ + units]
    /\ UNCHANGED <<version, now, table, par, price, lastUpdateTime, rewardsDue, lastSurplus,
                   failed>>

\* Anyone may send ether to the pool.
Donate(amount) ==
    /\ history.txs < MaxTxs
    /\ pool' = pool + amount
    /\ history' = [history EXCEPT !.txs = @ + 1]
    /\ UNCHANGED <<version, now, table, par, price, unitsSince, lastUpdateTime, rewardsDue,
                   lastSurplus, available, failed>>

\* A batch posting report that is applied, or fails for want of funds.
Report(p, time, batch) ==
    /\ history.reports < MaxReports
    /\ ~failed
    /\ InOrder(time)
    /\ LET units == UnitsAllocated(time)
           opened == OpenPoster(table, p)
           wei == Amortized(batch.baseFee * GasSpent(batch), batch.baseFee, units)
           claim == SetFundsDue(opened, p, opened.due[p] + wei)
           target == par.perUnitReward * units
           pay == Payment(claim, p, target)
           settled == SetFundsDue(claim, p, Monus(claim.due[p], pay.paid))
           due == Monus(rewardsDue + target, pay.reward)
           surplus == Surplus(pay.available, pay.pool, due, settled.totalDue)
       IN IF pay.funded
          THEN /\ table' = settled
               /\ unitsSince' = Monus(unitsSince, units)
               /\ rewardsDue' = due
               /\ available' = pay.available /\ pool' = pay.pool
               /\ lastUpdateTime' = time
               /\ lastSurplus' = IF Reprices(units) THEN StoredSurplus(surplus) ELSE lastSurplus
               /\ price' = IF Reprices(units) THEN NextPrice(units, surplus) ELSE price
               /\ history' = [history EXCEPT !.reports = @ + 1, !.allocated = @ + units,
                                             !.spent[p] = @ + wei, !.settled[p] = @ + pay.paid]
               /\ failed' = FALSE
          ELSE /\ failed' = TRUE
               /\ UNCHANGED <<table, price, unitsSince, lastUpdateTime, rewardsDue, lastSurplus,
                              available, pool, history>>
    /\ UNCHANGED <<version, now, par>>

\* A report of the future, or of the time before the last one, aborts its message.
RejectReport(time) ==
    /\ ~InOrder(time)
    /\ UNCHANGED vars

\* A call of the owner to one of the parameter setters of ArbOwner.
SetParameter(f, value) ==
    /\ history.calls < MaxOwnerCalls
    /\ par' = [par EXCEPT ![f] = value]
    /\ history' = [history EXCEPT !.calls = @ + 1]
    /\ UNCHANGED <<version, now, table, price, unitsSince, lastUpdateTime, rewardsDue,
                   lastSurplus, available, pool, failed>>

SetPrice(value) ==
    /\ history.calls < MaxOwnerCalls
    /\ price' = value
    /\ history' = [history EXCEPT !.calls = @ + 1]
    /\ UNCHANGED <<version, now, table, par, unitsSince, lastUpdateTime, rewardsDue,
                   lastSurplus, available, pool, failed>>

\* addBatchPoster of ArbAggregator; only the owner may, and a known poster is left alone.
AddBatchPoster(caller, p) ==
    /\ history.calls < MaxOwnerCalls
    /\ caller = ChainOwner
    /\ table' = OpenPoster(table, p)
    /\ history' = [history EXCEPT !.calls = @ + 1]
    /\ UNCHANGED <<version, now, par, price, unitsSince, lastUpdateTime, rewardsDue,
                   lastSurplus, available, pool, failed>>

\* setFeeCollector of ArbAggregator
SetFeeCollector(caller, p, to) ==
    /\ history.calls < MaxOwnerCalls
    /\ p \in table.members
    /\ caller \in {p, table.payTo[p], ChainOwner}
    /\ table' = [table EXCEPT !.payTo[p] = to]
    /\ history' = [history EXCEPT !.calls = @ + 1]
    /\ UNCHANGED <<version, now, par, price, unitsSince, lastUpdateTime, rewardsDue,
                   lastSurplus, available, pool, failed>>

Next ==
    \/ NextBlock
    \/ \E v \in Versions : Upgrade(v)
    \/ \E units \in TxUnits, gasPrice \in GasPrices : UserTx(units, gasPrice)
    \/ \E amount \in Donations : Donate(amount)
    \/ \E p \in Posters, time \in 0..MaxTime, batch \in Batches : Report(p, time, batch)
    \/ \E time \in 0..(MaxTime + 1) : RejectReport(time)
    \/ \E f \in DOMAIN ParameterValues : \E value \in ParameterValues[f] : SetParameter(f, value)
    \/ \E value \in Prices : SetPrice(value)
    \/ \E caller \in Payees, p \in Posters : AddBatchPoster(caller, p)
    \/ \E caller, to \in Payees, p \in Posters : SetFeeCollector(caller, p, to)

Spec == Init /\ [][Next]_vars

-----------------------------------------------------------------------------
(* Properties.                                                             *)

History ==
    [units : Nat, allocated : Nat, spent : [Posters -> Nat], settled : [Posters -> Nat],
     txs : Nat, reports : Nat, calls : Nat]

\* Every variable keeps its type: the price, the dues, the counter and the pool are
\* natural numbers.
TypeOK ==
    /\ version \in Versions /\ now \in Nat \ {0}
    /\ table \in Table /\ par \in Parameters
    /\ price \in Nat /\ unitsSince \in Nat /\ lastUpdateTime \in Nat
    /\ rewardsDue \in Nat /\ lastSurplus \in Int
    /\ available \in Nat /\ pool \in Nat
    /\ failed \in BOOLEAN /\ history \in History

\* The counter never promises more than the pool holds, across upgrades, user fees,
\* payments (to the pool itself too) and donations.
AvailableCovered == available <= pool

\* No report fails for want of funds: transfer_from_pool always succeeds.
PaymentsSucceed == ~failed

\* Every wei charged to the spending of a poster is paid to it once or still due, and
\* nothing is due to an address that was never registered.
SpendingSettled ==
    \A p \in Posters :
       /\ history.spent[p] = history.settled[p] + table.due[p]
       /\ p \notin table.members => table.due[p] = 0

\* Every unit users paid for is charged to one report or still waits.
UnitsChargedOnce == history.units = history.allocated + unitsSince

\* The time of the last report never goes back and never lies ahead of the chain.
ReportsInOrder == [][lastUpdateTime' >= lastUpdateTime /\ lastUpdateTime' <= now']_vars

\* Rewards in arrears stay in arrears: a report pays at most the reward of its own units,
\* so that what is due for rewards never falls, whatever the funds.
ArrearsStay == [][rewardsDue' >= rewardsDue]_vars

\* The price follows the surplus: a surplus that has not shrunk never raises the price, a
\* deficit that has not shrunk never lowers it, whatever the rounding (from version 7 on,
\* where the surplus is stored with its sign).
PriceFollowsSurplus ==
    [][history'.reports # history.reports /\ version >= 7
         => /\ lastSurplus' >= 0 /\ lastSurplus' >= lastSurplus => price' <= price
            /\ lastSurplus' <= 0 /\ lastSurplus' <= lastSurplus => price' >= price]_vars
=============================================================================
