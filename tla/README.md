# Verification of arb-revm

arb-revm executes Arbitrum blocks on revm: it reimplements the ArbOS state and the
transaction types of Nitro in Rust. This directory holds TLA+ specifications of it, the TLC
configurations that check them on small instances, and TLAPS proofs of their main
properties. `PROJECT.json` maps every definition to the lines it models.

Run a configuration with `tlc -config RetryablesFees.cfg MCRetryables`, and the proofs with
`tlapm RetryablesProofs.tla`.

## The system

One *message* of the sequencer becomes one block. `executor/run.rs` first runs an internal
StartBlock transaction, then the user transactions of the message in order, then the
retries they scheduled; each transaction is committed on its own. The parts, their state,
what changes it, and what makes them hard:

| Part (under `src/crates/arb-revm/src`) | State | Operations | Hard behaviours and what should hold | Modules |
| --- | --- | --- | --- | --- |
| Retryable tickets (`storage/retryables.rs`, `precompiles/arb_retryable_tx.rs`, `submit_retryable_tx.rs`, `retry_tx.rs`) | records, escrow accounts, timeout queue, list of zombie escrows | submit, redeem, retry, keepalive, cancel, reap | three ways to remove a ticket, in any order; retries built from records that change before they run; escrows stay solvent, live tickets stay queued | `Retryables` |
| Message executor (`executor/run.rs`) | queue of transactions, logs | run, schedule retries, abort | an error ends the message after a committed prefix; retries schedule retries | `Retryables`, `Arbos` |
| Timeout queue (`storage/queue.rs`) | two pointers and entries in one storage space | put, get, peek, shift, initialise | pointers stored beside the entries; it is a first-in first-out queue | `StorageQueue`, `Fifo` |
| Address set and table (`storage/address_set.rs`, `storage/address_table.rs`) | list and reverse map | add, remove, clear, register | both directions agree, also after a clear | `AddressSets`, `AddressSet`, `AddressTable` |
| Block hash ring (`storage/block_hashes.rs`) | 256 slots and a cursor | record, read | gaps, wrap-around | `BlockHashes` |
| Send accumulator (`storage/send_merkle.rs`, `precompiles/arb_sys.rs`) | size and partials | send, root | root and events equal those of the full tree | `SendMerkle` |
| Bytes (`storage/bytes.rs`) | length and words | set, clear, read | rewriting with a shorter value | `StorageBytes` |
| L1 pricing (`storage/l1_pricing.rs`, `storage/batch_poster_table.rs`) | fees available, dues, price | report, pay, reprice | counter and pool balance must agree; totals are sums | `L1Pricing` |
| L2 pricing (`storage/l2_pricing.rs`) | backlogs, base fee | grow, shrink, update | three models, saturation, approximated exponential | `L2Pricing` |
| Versions and features (`storage/arbos_state.rs`, `arbos_init.rs`, `internal_tx.rs`, `precompiles/arb_owner.rs`) | version, scheduled upgrade, parameters, owners, enable times | genesis, StartBlock, upgrade, owner calls | version used for a block against the version stored in it; two ways to a version; notice before a feature | `Arbos` |
| Transaction handler (`handler.rs`, `chain.rs`, `l1_cost.rs`) | gas, fees, per-transaction chain context | charge, execute, refund, reimburse, distribute | context kept between transactions and past errors; fees add up | `GasCharging` |
| Stylus and frames (`stylus/`, `evm.rs`) | pages, spans, refunds beside the frames | enter, call, create, grow, return | counters restored on every exit of nested frames | `StylusFrames` |
| Replay and vector tools (`bin/replay_block.rs`, `replay.rs`, `state_trie.rs`, the crate `arb-revm-test-vectors`) | net writes, recorded reads, verdict | execute, record, compare, replay | a wrong engine must not pass, a right one must not fail | `Parity` |

The hazards these give rise to are listed in `PROJECT.json`, each at its line, with the
properties that cover it or the reason why none does.

## Modules

### Retryables

The core: tickets and the message loop. State and code:

| Variable | Code |
| --- | --- |
| `bal` | account balances in the journal |
| `rec`, `queue` | `RetryableRecord`s and the timeout queue, in ArbOS storage |
| `now` | block timestamp |
| `msg`, `userLeft`, `scheduled` | the loop of `execute_message`: running, ended or aborted and why; its queue, where retries always stand behind user transactions |
| `tx`, `logs` | the running transaction with the gas it has left; its RedeemScheduled logs |
| `backlog` | L2 gas backlog |
| `pending`, `zombies` | `pending_zombie_escrow_tickets`, and the escrows it made empty accounts |
| `submitted`, `history` | used ids; sums that only the properties read |

Actions are the handlers. `StartBlock` reaps twice, drains the backlog and clears the
zombie list. `SubmitRetryable` is the whole of `apply_submit_retryable_tx` with its six
exits (`SubmitPath`) and the balances at each (`SubmitStage`). `BeginUserTx`,
`EndUserTx` and `RejectUserTx` are gas purchase, reimbursement and fee split, and the
errors of `evm.transact`. `Send`, `Redeem`, `Keepalive` and `Cancel` are calls a body
makes; bodies are otherwise arbitrary EVM code, so any sequence of these that the gas
allows may happen. `ScheduleRetry` reads one log of a committed transaction. `BeginRetry`
and `EndRetry` enclose a retry whose body succeeds; `RetryFails` is one whose body reverts
or is filtered, in one step because a reverted body leaves nothing; `AbortOnRetry` is an
error of its pre-execution step. `Deposit` and `SkipUnsupported` complete the loop.

Abstractions. Ids, addresses and calldata are model values; calldata enters through its
intrinsic gas. A precompile call costs its caller at least `CallGas`. The model covers
ArbOS 5 and later (below it the infrastructure fee account does not exist), the legacy
backlog, committing execution (simulation schedules no retries), and the default hooks.
Poster costs, tips, nonces and the signature checks of user transactions do not touch this
state and are left out, as are database errors. The parts of StartBlock that write other
state are in `Arbos`, `BlockHashes` and `L1Pricing`, the gas of user transactions in `GasCharging`.

### Fifo and StorageQueue

`Fifo` says what the timeout queue promises: a sequence, and the answer of the last
operation. `StorageQueue` is `storage/queue.rs` as it lies in storage: `cell[0]` and
`cell[1]` are the pointers, the cells from 2 on the entries. It starts from blank or from
initialised storage. `ImplementsFifo` instantiates `Fifo` with the cells between the
pointers as its contents. `Retryables` uses the abstract sequence, which this refinement
justifies.

### L1Pricing

How batch posters are paid (`storage/l1_pricing.rs`, `storage/batch_poster_table.rs`).
`table` is the poster table with its total, `par` the parameters that only the owner and
upgrades change, and the other variables are the fields of `L1Pricing` of the same meaning;
`pool` is the balance of the L1 pricer funds pool. `UserTx` counts the units of a
transaction and credits its poster fee to the pool and, from ArbOS 10 on, to the counter
`available`. `Report` is the whole of `update_for_batch_poster_spending` with the gas
computation of either report version: it opens or registers the poster, allocates units by
time, caps the cost, pays the reward recipient and then the poster, and moves the price.
`RejectReport` is a report whose time is out of order. `Upgrade` runs the steps of versions
2, 3, 10 and 11 that write this state, `SetParameter` and `SetPrice` are the setters of
ArbOwner, `AddBatchPoster` and `SetFeeCollector` those of ArbAggregator, and `Donate` is a
plain transfer to the pool.

Abstractions. The units of a transaction, 16 times its compressed size, are an input.
Amounts stay far below 2^255 wei and 2^64 units, so saturating operations are exact. The
code reads ArbOS versions from storage for reports and from the spec of the block for fees;
the model takes the two to be equal. The transaction that donates or pays fees moves ether
of accounts that are not modelled.

### Storage structures

`AddressSets` has the operations of `storage/address_set.rs` on its two parts, the list in
`slot` (with the size at 0) and the reverse map in `position`. `AddressSet` is the life of one
such set, the chain owners, beside the set `members` it stands for; `ClearOnUpgrade` is the
upgrade to ArbOS 11, which clears the list and leaves the map. `BlockHashes` records L1 blocks
with any gap between them; `known` is what was last recorded or filled for each number, without
a ring. `SendMerkle` is `sendTxToL1` and the accumulator under it, with hashes that are the trees
they stand for, against `ReferenceTree`. `StorageBytes` writes byte strings over longer ones.
`AddressTable` registers addresses. `MCStorage` drives one structure in each behaviour: they
share no cell.

### L2Pricing and Arbos

`L2Pricing` holds operators on the pricing record: growth and shrinking of the backlogs, the
update at the start of a block under each of the three models, the fourth-order approximation of
the exponential, the cost of the update as the metered journal charges it. Words are scaled down
to `MaxU64` and saturate, wrap or change sign in casts as the code's do.

`Arbos` is a chain over its life. `Init` is a genesis at any version (`initialize_arbos_state`).
`StartBlock` fixes the rules of the message (`message_cfg_env`), updates the prices, writes the
history contract and runs the scheduled upgrade step by step (`Step`, `Upgraded`);
`StartBlockFails` is an upgrade to a version the code does not know, after which no block starts.
In between come the calls of owners (owners, schedule, Stylus and L1 parameters with their packing
into fields, prices, constraints, features), of feature members and filterers, transactions that
grow the backlog and redeems that shrink it. `touched`, `quiet`, `notice` and `firstNotice` are
only read by properties. A run follows one theme of calls (`MCArbos`), so that upgrades, features
and prices are not multiplied with one another; blocks belong to all.

What the model shows besides its properties: the flag of EIP-7623 is read when a message starts,
so a change takes effect with the next one; while constraints are active the first model's backlog
rests; feature members stay when a feature is switched off; `setWasmMinInitGas` keeps the low byte
of what it is given; the pricing values of versions 6 to 10 are written at genesis only. An owner
may configure a window and a target whose product exceeds an i64: the cast makes the divisor
negative, and the exponent of a backlog with it. Then the fee of an idle chain can rise as the
backlog falls, and the floor of the first model does not hold; `IdlePriceFalls` (`DivisorsFit`) and
`BaseFeeFloor` (`DivisorFits`) leave such settings out, and the run contains one.

### GasCharging and StylusFrames

`GasCharging` runs transactions one after the other, with one action per hook of `ArbHandler`:
`Validate`, `ValidateAgainstStateAndDeductCaller`, `GasChargingHook` (or `AuthorizationFails`),
`Execution` (or `ExecuteFiltered`, `ExecutionFails`), `Refund`, `ReimburseCaller`,
`RewardBeneficiary` and, for retries, `RetryEndTxHook`. Of an authorization list (EIP-7702) the
model keeps that it may fail to apply and what it refunds; the refund joins that of the frame
before the cap. The limits on compute gas are those of user transactions: a retry returns from
`execution` before gas is held back, and runs on what its redeem gave it. `ctx` is `ArbChainContext`, which outlives the transaction; `Discard` is
an error of a hook, which drops the changes to `st` and keeps `ctx`. The frame burns any gas it has
and may, as an owner's transaction, move the fee accounts. `report` is read by properties only.

`StylusFrames` is what happens inside `Execution` when contracts and Stylus programs call one
another. `stack` joins the frame stacks of the nested loops (`run_exec_loop`). `pages`, `refund`
and `spans` are the counters of the chain context that no journal reverts; `ledger.due` is what a
journaled refund counter would hold. `ledger.excess` is what the code counts besides: a create
hostio tests the result for a revert alone (`handle_stylus_create`), so the refunds of a create
that ran and halted reach the accumulator although its changes are undone. As long as no frame
around it fails, they stay in the refund of the transaction; without such a create the refund is exactly `ledger.due`. `AnswerWithoutFrame` is a call answered by a precompile or
refused, `EntryOutOfGas` one that cannot pay for its pages, `RejectProgram` one whose bytecode or
compilation fails, and `DatabaseError` leaves the innermost loop with its frames. Ink and gas are
left out: a step that may run out of gas may fail at any time. `MCExecution` drives either module;
the refund is all that frames hand to the gas, and `GasCharging` takes any.

### Parity

How the tools compare this engine with Nitro. The engine may be wrong: a transaction has any
effect on one account, and the post-state of Nitro is any state. `ExecuteTransaction` runs and
commits a transaction (`Committed` drops empty accounts as the database does), records the reads
that pass the cache, merges the writes and compares the outcome. `CheckStateRoot` recomputes the
root from the net writes, where the recomputation may be off after a removal, and runs the control
check and the deletion recheck; a mismatch is diagnosed slot by slot. `WriteFixture` stores the
prestate and the expected state, and `ReplayTransaction` executes it again with no node.
`VectorTransaction` runs a captured case over proven state, records what is committed and compares
what the runner keeps of a result, its hash, gas and status (`TxFromExecution`) and no logs;
`CompareOutput` compares the post-state root, and the captured result of StartBlock and deltas,
which may be anything. A root is the state it commits to.

The live tool turns the calldata floor (EIP-7623) off when the feature word says so,
`replay_fixture` never does. With `mode.floor` the two agree and a replayed transaction repeats what
it did on the same state; without it a replay may do anything.

The verdicts have exceptions that the properties name. In check mode an account that was destroyed,
or was present but empty and was touched, leaves no write to compare; one that the block created and
emptied again keeps an empty leaf, since `created` stays set in the write set; a slot that was not
written of an account in which one was deleted is not compared (documented at
`deletion_collapse_recheck`). The control check fails when a written account was present and
empty before. The vector runner puts an empty leaf for an account left empty, and keeps the
parent's slots of one that was destroyed and came back, by a creation or a transfer.

### Definitions marked "Fault:"

These are variants of the definition that follows with a plausible mistake, a dropped
check or a forgotten transfer. No specification uses them. Substituting one makes TLC
report the property that `PROJECT.json` pairs with it, so that property is not vacuous.

## Runs

| Run | Instance | Shows |
| --- | --- | --- |
| `retryables_lifecycle` | two tickets with and without value and automatic redeem, two users, four transactions, four timestamps | escrows, queue and envelopes stay consistent, no fatal transfer fails, the reaper is patient |
| `retryables_fees` | one ticket, every combination of deposit, value, fee bound, gas limit, gas price and filter that takes a different exit | money is conserved, refunds stay within the deposit and are fully funded, donated gas hides no work from the backlog, dead escrows are never drawn on |
| `retryables_progress` | two tickets, two users, transfers, two transactions a message, fair | every ticket disappears, every message ends |
| `retryables_deposits` | as fees | finding: a submission with too low a fee bound fails before its deposit is minted, against the order its comment states |
| `retryables_scheduled` | as lifecycle | finding: a scheduled retry whose ticket was cancelled aborts the message, so not every scheduled redeem runs in its block |
| `storage` | queue of three values and offsets to 6, five addresses, a ring of 3 with L1 blocks to 11, nine sends, words of 3 bytes, three table addresses | the queue is a first-in first-out queue, membership and list of a set are exact, hashes in the window are those recorded, root and events are those of the full tree, bytes read back and leave nothing behind, indices stay |
| `l1_pricing` | two posters, versions 1, 6 and 50, three timestamps, two transactions, two reports, one call of the owner | the counter is covered by the pool, payments succeed, spending and units are charged once, the price follows the surplus |
| `arbos` | seven genesis versions, six upgrade targets of which two do not exist, four timestamps, three blocks, four calls, words of 10 bits | features get their notice, upgraded chains equal born ones, rules match the state, redeem reserves enough, the base fee keeps its floor and falls when idle, unless a divisor exceeds an i64 |
| `execution` | versions on both sides of each gate, with and without limits, tips, fee accounts and base fee; two transactions; two programs and a contract in frames four deep, seven steps | fees are conserved, compute of user transactions is capped, gas used is exact, open pages cover the active ones, reentrancy is exact, refunds are those of a journal but for halted creates |
| `execution_filtered` | as execution | finding: the compute gas of a filtered transaction whose poster gas exceeds its limit is not gas used less poster gas |
| `execution_pages` | as execution | finding: a program that cannot pay for its pages leaves them open |
| `parity` | two accounts, two slots, three transactions, all modes, any effect on an account and 36 post-states | a passed check or vector means equal states, but for the exceptions above; an engine that agrees is not accused; a fixture answers every read |

Bounds. `MaxTime`, `MaxTimeout`, `MaxUserTxs` and `MaxTotalTxs` bound time, timeouts and
transactions. With a lifetime of one second four timestamps contain creation, expiry,
extension and reaping; two tickets suffice for one to stand behind the other in the queue;
two user transactions in a message suffice for one to disturb the retry of the other.
Gas limits of 3 to 5 units allow a redeem with a further call. The lifecycle run has no
fees, so that the money in it is callvalue only; the fee run has one ticket. Deadlock is
checked in the runs on retryables, where a new message can always start, and on L1 pricing, where
a report with a time ahead of the chain can always arrive; in the others a
behaviour ends with the bound on its calls, transactions or blocks, or with the verdict.

In `l1_pricing` the versions are one of each regime: no surplus kept and payments from the
balance, surplus kept as a magnitude, counter with gas floor. With two reports the first can
leave a debt that the second pays in part or meets after a change of parameters or version;
fees below the reward and the cost make the funds run out at either payment, and a gift far
above them drives the price to zero. Over three
timestamps a report can cover half or all of the time since the last one. A
gas price of 4 against costs of 6 makes the fee differ from the cost. The pool itself may be
the recipient of rewards and fees.

The storage structures are bounded by what their positions tell apart: L1 numbers pass the ring
three times, nine sends carry over three levels, bytes fill two words and part of a third, and five
addresses leave room for adds and removes at both ends of a list before and after the clear.

In `arbos` a word of 10 bits and a base of 8 bips keep every product within reach of saturation; a
backlog of 90 against a speed limit of 1 to 3 takes the exponent from zero past it. The versions
stand before, at and after the steps that write what the properties compare; one
list of constraints (`MCWrapped`) has a divisor of 600, beyond the 511 of the signed word. A delay of 2 with
four timestamps contains announcing, moving within and past the delay, withdrawing and announcing
again. In `execution` two transactions suffice for one to leave something to the next, a limit of 6
against poster gas of up to 7 for either to be the larger, and four frames for a program that calls
itself through a contract or another program. In `parity` a transaction can write what the next
overwrites, destroys or empties and the third brings back, and two slots contain a deletion with
and without a sibling. Three constraints of `MCParity` drop behaviours on which no verdict depends:
`MCFollowed` follows a block to its end unless a transaction before the last disagreed with its
receipt, and with `MCRecorded` a recording is one of a block whose last transaction fails, with the
parent state as post-state, which no read depends on; without the floor, one transaction of it has
an effect. `MCCompared` lets Nitro's post-state
differ from the engine's in one account at most: verdicts look at accounts one by one. A contract
created and destroyed in one transaction wrote all its slots or none.

Fairness. `WF_vars(Next)`: the execution loop is a plain `while` and does not pause. The
strong fairness of a StartBlock with a later timestamp says that messages keep coming and
that L1 time advances, which the sequencer provides. It is not assumed that bodies end:
`MessageTerminates` holds since every call costs gas, and a retry runs on gas that its
redeemer gave up.

## Proofs

Every safety property and action property that a passing run checks is also proved, for all
values of the constants, but for three named at the end. Each proof rests on an inductive
invariant, which adds to the properties what makes them inductive.

| Module | About |
| --- | --- |
| `RetryablesLemmas` | lemmas on the operators of `Retryables`, its invariant `Inv`, the start and end of blocks and messages, and deposits |
| `RetryablesProofs` | the steps of submissions, user transactions, calls and retries; the theorems on types, escrows, the queue and the reaper |
| `RetryablesAttempts` | the theorems on envelopes, refunds from the deposit and the backlog |
| `RetryablesFunds` | the theorem on the fee accounts |
| `FeeProofs` | `GasCharging` and `L1Pricing` |
| `ArbosProofs` | `Arbos` |
| `FramesAndSetsProofs` | `StylusFrames` and `AddressSet`, which both count finite sets |
| `ParityAndStorageProofs` | `Parity`, `StorageQueue`, `AddressTable`, `BlockHashes`, `StorageBytes` |

`FeeProofs`, `FramesAndSetsProofs` and `ParityAndStorageProofs` hold several developments each, of
components that are modelled apart: they share no variable and no invariant.

Sums and iterations are met in two ways that need no induction theorem. Where a property counts
along a sequence, a witness function gives the partial results, and a claim about them is proved
by looking at the least index at which it fails (`IsSum`, `IsPath`, `IsCost`). Where a property
needs a bound on a sum only, the invariant asks for any function that bounds the partial sums
(`Covers`).

### Retryables

The theorems hold for any number of tickets, users and transactions and any amounts. The
assumptions are that escrow addresses are distinct and are not those of users or fee accounts
(they are hashes), that fee accounts and the zero address send no transactions, and that numbers
are natural, with a positive lifetime and positive gas costs.

| Theorem | Statement |
| --- | --- |
| `Invariance` | `Inv` always holds |
| `TypeCorrectness` | `TypeOK`; no balance, budget or gas counter underflows |
| `EscrowSolvency` | `EscrowCoversCallvalue` |
| `TransfersSucceed` | `NoFatalTransfer` |
| `QueueComplete` | `QueueHoldsLiveTickets` |
| `RecordsStayWellFormed` | `RecordsWellFormed` |
| `ZombieScope`, `ReaperIsPatient`, `DeadEscrowsKept` | the action properties |
| `EnvelopesStayMatched` | `EnvelopesMatchRecords` |
| `RefundsStayBounded` | `RefundBoundedByDeposit` |
| `BacklogStaysCovering` | `BacklogCoversWork` |
| `RefundsStayFunded` | `RefundsFullyFunded` |

`Inv` adds to the safety properties that queued tickets were submitted (so that a submission
cannot queue one twice), that the gas left to a transaction and the gas it donated stay within its
limit, and that the tickets in `pending` were submitted in this block. The parts need one another:
escrows stay covered because tickets are sent by users, so no refund is paid out of an escrow;
callvalue transfers succeed because escrows are covered; live tickets stay queued because the
reaper never meets an extension window. `RetryablesLemmas` has one lemma per stage of a submission
(what the sender still has there), and lemmas on deletion, reaping and refunds.

Envelopes and refunds rest on `AttemptInv`. An attempt at a ticket is a log, then a scheduled retry,
then the running retry. The invariant says of all three that an attempt is outstanding once
(ticket and number), that its ticket was submitted and so can never be submitted again, that its
number is below the record's count of tries, and that only attempt 0, which the submission made,
may refund from the deposit, up to what is left of it. Hence a record that still lives is the one
the attempt was made from, and a second attempt has no deposit to refund from.

`FundsInv` says that each fee account holds all that logged, scheduled and running retries may
claim: the price of all their gas and the submission fee. The gas that the running transaction
donated is set off against them: a user transaction pays for it when it ends, a retry does not
claim it. `Covers` states the sum over the queue. The proof follows the claims from the log to the
queue to the running retry, and uses that fee accounts do not spend.

### Storage structures

For every set of addresses, every bound, ring size, word size, and all values and byte strings:

| Theorem | Statement |
| --- | --- |
| `LayoutInvariant`, `Refinement` | layout of the queue; `StorageQueue` implements `Fifo` |
| `MembershipStaysExact` | `MembershipExact`, before and after the list was cleared |
| `ListStaysExact` | `ListExact` |
| `IndicesStayStable` | `IndicesStable` of the address table |
| `HashesStayInWindow` | `HashesInWindow` |
| `BytesReadBack` | `BytesRoundTrip` |

The invariant of sets adds `ListedKnowPlace`: every entry of the list is an address whose position
it is. Cleared lists are why it is needed. An old member keeps a position beyond, or inside, the new
list, so nothing may be concluded from a position alone; but whatever stands in the list knows its
place, so a removal moves an entry that is a member and gives it a position that is not zero.
`TableInv` says that the two directions of the table invert each other and that indices once given
are still there. `RingInv` says of every number within a ring's length of the newest that its slot
is its own; two such numbers differ modulo the ring size. `BytesInv` says that the words hold the
chunks of the last value and that all others are zero, which a shorter value relies on.

### L1 pricing

For all posters, parameters, batches, prices and versions:

| Theorem | Statement |
| --- | --- |
| `DivIsEuclidean` | the signed division of the price controller rounds down for dividends of either sign |
| `TypeCorrect` | `TypeOK`; price, dues, counter and pool never fall below zero |
| `PoolCovers` | `AvailableCovered` |
| `ReportsArePaid` | `PaymentsSucceed` |
| `SpendingConserved`, `UnitsConserved` | `SpendingSettled`, `UnitsChargedOnce` |
| `UpdatesInOrder`, `RewardArrearsStay`, `PriceTowardsEquilibrium` | `ReportsInOrder`, `ArrearsStay`, `PriceFollowsSurplus` |

The invariant adds that the counter is zero before version 10 (there the balance limits
payments, and a positive counter would not be reduced by them) and that no report is ahead
of the chain (so the share of the time a report covers is at most one). The price argument
goes through `DivIsEuclidean`: division that rounds down keeps the sign of its dividend, so
each of the three divisions does, and the change has the sign of the controller's error.

### The chain

For any delay, times, accounts, versions, prices, constraints, word width and order of calls:

| Theorem | Statement |
| --- | --- |
| `NoticeIsGiven` | `FeatureNotice` |
| `PrecompilesInstalled` | `PrecompilesMatchVersion` |
| `UpgradePathsStayAgreed` | `UpgradePathsAgree` |
| `SpecStaysMatched` | `SpecMatchesState` |
| `BaseFeeKeepsFloor` | `BaseFeeFloor` |
| `ReserveStaysCovering` | `ReserveCoversUpdate` |

For the notice the invariant says of a feature with a timestamp that it was announced, and that
the timestamp or else the present is at least the delay after the announcement; the two tests of the
setters keep just that when they let a timestamp move. Members and filtered hashes appear only
while the feature is on, so the first announcement is as old. `ChainInv` serves the others. For the
precompiles the lemma `TablesAgree` compares the two tables entry by entry, and an upgrade installs
exactly the entries between the versions it leads from and to. For the paths it says that a
parameter no owner has set has the value that any upgrade path to the version leaves: two paths to a
version meet at the last step that writes the parameter. The floor holds because each of the
three models returns at least the minimum, also where a product saturates, as long as the divisor of
the first fits an i64 (`DivisorFits`). The reservation, at every version but 50, is proved by comparing the cost of
the update entry by entry with what is set aside for each.

### Execution

For all contracts, programs, pages, refunds and depths of frames, and all transactions, settings
and amounts of gas:

| Theorem | Statement |
| --- | --- |
| `PagesStayCovered` | `OpenCoversActive` |
| `ReentrancyStaysExact` | `ReentrancyExact` |
| `RefundsStayJournaled` | `RefundsJournaled` |
| `FeesStayConserved` | `FeesConserved` |
| `ComputeStaysCapped` | `ComputeCapped` |
| `GasUsedStaysExact` | `GasUsedExact` |

`FramesInv` says of each frame that the pages it will restore cover the active pages below it, and
that what `ledger` gained since the frame began, `due` and `excess`, is on the frame's gas or, for a
program, on the accumulator or where the next program put the accumulator aside. So a return leaves
the counters right for the caller, whatever the inner frames did. Spans are compared with the
number of frames of each contract. `GasInv` follows a transaction from hook to hook: what has been
paid, what the poster is owed, what is held back from the frame, and what gas remains after
it. The accounts may coincide, so conservation is proved for one credit at a time.

### Replay tools

For any number of transactions, accounts and slots:

| Theorem | Statement |
| --- | --- |
| `VerdictStaysSound`, `AlarmsStayTrue` | `VerdictSound`, `NoFalseAlarm` |
| `VectorsStaySound` | `VectorSound` |
| `FixtureKeepsAnswering` | `FixtureAnswersReads` |

The properties speak of the end of a run; `ParityInv` follows the run. The committed state of an
account is what the write set (check mode) or the recorded commits (vector mode) say over the
parent state, unless the account is one of the exceptions; an account without code and slots had
none deleted; the recorder holds what the parent answers to every read it saw.

### Model-checked only

- `SupplyConserved`: a sum over a finite set of accounts, which needs induction over the set.
- `SendTreeExact`: what a recursive definition computes, which needs induction over data.
- `IdlePriceFalls`: the exponents saturate, and it depends on the width of the words against
  the settings of the chain.
- `TicketsAreTransient` and `MessageTerminates`: liveness under fairness, which is out of the prover's reach.

The properties of the four runs that show a finding are false of the code. Proved and in no run:
type correctness, `RecordsWellFormed`, `ZombiesOnlyInSubmitBlock`, `EntriesBetweenPointers`,
`ReportsInOrder`, `ArrearsStay` and `PrecompilesMatchVersion`, which serve the proofs of the others or hold by a single guard.

## Not modelled

- The EVM interpreter, the WASM runtime, compilation and activation of programs, and the module
  cache: external libraries. What surrounds them is in `StylusFrames`.
- Ink and the gas prices of hostios and of single precompile calls: data that no property
  tells apart. Calls may run out of gas wherever they can.
- The life of single Stylus programs (expiry, keepalive, cache flags): single writes to a record
  that activation creates.
- Hashing, key derivation and encoding, of transactions, trie nodes and calldata. Distinct keys are
  distinct cells, and a root is the state it commits to.
- Getters; chain configuration; the redirection of a filtered deposit; block headers, receipts and
  digests, which are assembled once from final values.
- The runner's lock: a `try_lock` held for one call. Builders, entry points, fixture capture and
  RPC: wiring, input and output.
- Database errors, but for those inside nested Stylus loops and in the replay tools: the executor
  returns them and commits nothing of the transaction.
- Saturation near 2^256 wei.
