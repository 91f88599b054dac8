---------------------------- MODULE MCRetryables ----------------------------
(***************************************************************************)
(* Instances of Retryables for TLC.                                        *)
(***************************************************************************)
EXTENDS Retryables, FiniteSetsExt, TLC

CONSTANTS t1, t2, alice, bob, esc1, esc2, network, infraAccount, zero

MCEscrow == [t \in Tickets |-> IF t = t1 THEN esc1 ELSE esc2]

Submit(t, value, refund, gas, intrinsic) ==
    [ticket |-> t, from |-> alice, to |-> bob, beneficiary |-> bob, feeRefund |-> refund,
     deposit |-> value, retryValue |-> value, submissionFee |-> 0, maxSubmissionFee |-> 0,
     gasLimit |-> gas, gasFeeCap |-> BaseFee, intrinsic |-> intrinsic, filtered |-> FALSE]

\* Lifecycle: two tickets with and without callvalue, with and without automatic redeem.
LifecycleSubmissions ==
    {Submit(t, v, bob, g, 1) : t \in Tickets, v \in {0, 1}, g \in {0, 3}}

LivenessSubmissions == {Submit(t, 0, bob, g, 1) : t \in Tickets, g \in {0, 3}}

\* Fees: one ticket; every exit of apply_submit_retryable_tx is taken by some member.
FeeSubmissions ==
    [ticket : {t1}, from : {alice}, to : {bob}, beneficiary : {bob},
     feeRefund : {bob}, deposit : {0, 9}, retryValue : {0, 2, 30},
     submissionFee : {1}, maxSubmissionFee : {0, 3, 20}, gasLimit : {0, 3},
     gasFeeCap : {1, 3}, intrinsic : {1}, filtered : BOOLEAN]

\* Money is neither created nor destroyed: only deposits add to the balances.  The gas
\* a running user transaction has bought is the one amount outside them.
SupplyConserved ==
    MapThenSumSet(LAMBDA a : bal[a], Addresses)
      + (IF tx.kind = "user" THEN BaseFee * tx.limit ELSE 0)
    = MapThenSumSet(LAMBDA a : InitialBalance, Users) + history.minted
=============================================================================
