-------------------------- MODULE RetryablesLemmas --------------------------
(***************************************************************************)
(* Lemmas about the operators Retryables is built from, for every value of *)
(* its constants: payments, the stages of a submission, the reaper and the *)
(* refunds of a retry.  Then the inductive invariant, and the actions of   *)
(* the message loop that keep it.                                          *)
(***************************************************************************)
EXTENDS Retryables, TLAPS

-----------------------------------------------------------------------------
(* Arithmetic.                                                             *)

\* A product of natural numbers is one.  Cited so that no other leaf multiplies.
LEMMA ProductNat ==
    ASSUME NEW a \in Nat, NEW b \in Nat
    PROVE  a * b \in Nat
  BY SMT

\* What a cut-off takes and what it leaves.
LEMMA LesserFacts ==
    ASSUME NEW a \in Nat, NEW b \in Nat
    PROVE  /\ Lesser(a, b) \in Nat
           /\ Lesser(a, b) <= a
           /\ Lesser(a, b) <= b
           /\ Monus(a, b) \in Nat
           /\ Monus(a, b) <= a
           /\ Monus(a, b) = IF a <= b THEN 0 ELSE a - b
  BY DEF Lesser, Monus

\* A grown backlog is a number.
LEMMA GrowNat ==
    ASSUME NEW b \in Nat, NEW gas \in Nat
    PROVE  Grow(b, gas) \in Nat
  BY NumbersAssumption DEF Grow, Lesser

\* The two fee accounts share the base fee.
LEMMA PriceSplit ==
    /\ BaseFee \in Nat
    /\ InfraPrice \in Nat
    /\ BaseFee - InfraPrice \in Nat
  BY NumbersAssumption DEF InfraPrice, Lesser

\* What fee account a gets of the price of one gas.
Rate(a) ==
    (IF a = InfraFeeAccount THEN InfraPrice ELSE 0)
    + (IF a = NetworkFeeAccount THEN BaseFee - InfraPrice ELSE 0)

\* What fee account a gets of the price of gas and of a submission fee.
Due(a, gas, fee) == Rate(a) * gas + IF a = NetworkFeeAccount THEN fee ELSE 0

\* The price of gas goes to the two fee accounts, which may be one.
LEMMA RateSplit ==
    ASSUME NEW a, NEW g \in Nat
    PROVE  /\ Rate(a) \in Nat /\ Rate(a) * g \in Nat
           /\ Rate(a) * g = (IF a = InfraFeeAccount THEN InfraPrice * g ELSE 0)
                            + (IF a = NetworkFeeAccount THEN (BaseFee - InfraPrice) * g ELSE 0)
  <1> DEFINE p == IF a = InfraFeeAccount THEN InfraPrice ELSE 0
             q == IF a = NetworkFeeAccount THEN BaseFee - InfraPrice ELSE 0
  <1>1. /\ p \in Nat /\ q \in Nat /\ p * g \in Nat /\ q * g \in Nat
        /\ (p + q) * g = p * g + q * g /\ 0 * g = 0
    <2>1. p \in Nat /\ q \in Nat
      BY PriceSplit
    <2> HIDE DEF p, q
    <2>2. \A x, y, z \in Int : (x + y) * z = x * z + y * z
      BY SMT
    <2> QED  BY <2>1
  <1>2. /\ p * g = IF a = InfraFeeAccount THEN InfraPrice * g ELSE 0
        /\ q * g = IF a = NetworkFeeAccount THEN (BaseFee - InfraPrice) * g ELSE 0
    BY <1>1
  <1>3. Rate(a) = p + q
    BY DEF Rate
  <1> HIDE DEF p, q
  <1> QED  BY <1>1, <1>2, <1>3

\* What goes to a fee account is a number.
LEMMA DueNat ==
    ASSUME NEW a, NEW gas \in Nat, NEW fee \in Nat
    PROVE  Due(a, gas, fee) \in Nat
  <1>1. Rate(a) * gas \in Nat
    BY RateSplit
  <1> QED  BY <1>1 DEF Due

\* The accounts that proofs name are addresses.
LEMMA AddressFacts ==
    /\ Users \subseteq Addresses
    /\ NetworkFeeAccount \in Addresses
    /\ InfraFeeAccount \in Addresses
    /\ FilteredFundsRecipient \in Addresses
    /\ ZeroAddress \in Addresses
    /\ \A t \in Tickets : Escrow[t] \in Addresses
  BY DEF Addresses

\* Every part of the constants' assumption about numbers, one by one.
LEMMA NumberFacts ==
    /\ Lifetime \in Nat /\ Lifetime # 0
    /\ TxGas \in Nat /\ TxGas # 0
    /\ CallGas \in Nat /\ CallGas # 0
    /\ SpeedLimit \in Nat /\ MaxU256 \in Nat /\ BacklogCap \in Nat
    /\ InitialBalance \in Nat /\ MaxUserTxs \in Nat
  BY NumbersAssumption

-----------------------------------------------------------------------------
(* Payments.                                                               *)

Balances == [Addresses -> Nat]

\* A payment the payer can afford keeps the balances natural, takes from the payer
\* alone and takes no more than the amount.
LEMMA PayFacts ==
    ASSUME NEW b \in Balances, NEW x \in Addresses, NEW y \in Addresses,
           NEW a \in Nat, b[x] >= a
    PROVE  /\ Pay(b, x, y, a) \in Balances
           /\ Pay(b, x, y, a)[x] >= b[x] - a
           /\ \A z \in Addresses \ {x} : Pay(b, x, y, a)[z] >= b[z]
           /\ x # y => Pay(b, x, y, a)[x] = b[x] - a
           /\ x # y => Pay(b, x, y, a)[y] = b[y] + a
           /\ \A z \in Addresses \ {x, y} : Pay(b, x, y, a)[z] = b[z]
  <1> DEFINE c == [b EXCEPT ![x] = @ - a]
             d == [c EXCEPT ![y] = @ + a]
  <1>1. Pay(b, x, y, a) = d
    BY DEF Pay
  <1>2. /\ c \in Balances /\ c[x] = b[x] - a
        /\ \A z \in Addresses \ {x} : c[z] = b[z]
    BY DEF Balances
  <1> HIDE DEF c
  <1>3. /\ d \in Balances /\ d[y] = c[y] + a
        /\ \A z \in Addresses \ {y} : d[z] = c[z]
    BY <1>2 DEF Balances
  <1> HIDE DEF d
  <1>4. \A z \in Addresses : b[z] \in Nat /\ c[z] \in Nat /\ d[z] \in Nat
    BY <1>2, <1>3 DEF Balances
  <1>5. d[x] >= b[x] - a
    BY <1>2, <1>3, <1>4
  <1>6. \A z \in Addresses \ {x} : d[z] >= b[z]
    BY <1>2, <1>3, <1>4
  <1> QED  BY <1>1, <1>2, <1>3, <1>5, <1>6

\* Balances that rose twice.
LEMMA RisesTwice ==
    ASSUME NEW b \in Balances, NEW c \in Balances, NEW d \in Balances,
           NEW z \in Addresses, c[z] >= b[z], d[z] >= c[z]
    PROVE  d[z] >= b[z]
  BY DEF Balances

-----------------------------------------------------------------------------
(* The stages of a submission.                                             *)

\* A stage of a submission all of whose transfers had the funds.
Funded(b, v, r) == [bal |-> b, avail |-> v, refunded |-> r, result |-> "ok"]

\* The fields of a funded stage.
LEMMA FundedFields ==
    ASSUME NEW b, NEW v, NEW r
    PROVE  /\ Funded(b, v, r).bal = b
           /\ Funded(b, v, r).avail = v
           /\ Funded(b, v, r).refunded = r
           /\ Funded(b, v, r).result = "ok"
  BY DEF Funded

\* A transfer the payer can afford leaves a funded stage.
LEMMA TransferFunded ==
    ASSUME NEW b, NEW v, NEW r, NEW x, NEW y, NEW a, b[x] >= a
    PROVE  Transfer(Funded(b, v, r), x, y, a) = Funded(Pay(b, x, y, a), v, r)
  BY DEF Transfer, Funded

\* Taking from the available deposit.
LEMMA TakeFunded ==
    ASSUME NEW b, NEW v, NEW r, NEW a
    PROVE  Take(Funded(b, v, r), a) = Funded(b, Monus(v, a), r)
  <1> DEFINE m == Monus(v, a)
  <1>1. Take(Funded(b, v, r), a) = [Funded(b, v, r) EXCEPT !.avail = m]
    BY FundedFields DEF Take
  <1> HIDE DEF m
  <1>2. [Funded(b, v, r) EXCEPT !.avail = m] = Funded(b, m, r)
    BY DEF Funded
  <1> QED  BY <1>1, <1>2 DEF m

\* A refund the payer can afford leaves a funded stage.
LEMMA RefundFunded ==
    ASSUME NEW b, NEW v, NEW r, NEW x, NEW y, NEW a, b[x] >= Lesser(v, a)
    PROVE  Refund(Funded(b, v, r), x, y, a)
           = Funded(Pay(b, x, y, Lesser(v, a)), v - Lesser(v, a), r + Lesser(v, a))
  <1>1. Refund(Funded(b, v, r), x, y, a)
        = Transfer(Funded(b, v - Lesser(v, a), r + Lesser(v, a)), x, y, Lesser(v, a))
    BY DEF Refund, Funded
  <1> QED  BY <1>1, TransferFunded

\* What a submission names, and who may not be its sender.
LEMMA SubmissionFacts ==
    ASSUME NEW s \in Submission
    PROVE  /\ s.ticket \in Tickets
           /\ s.from \in Users /\ s.from \in Addresses
           /\ s.to \in Addresses
           /\ RefundAddress(s) \in Addresses /\ Beneficiary(s) \in Addresses
           /\ {s.deposit, s.retryValue, s.submissionFee, s.maxSubmissionFee} \subseteq Nat
           /\ {s.gasLimit, s.gasFeeCap, s.intrinsic} \subseteq Nat
           /\ s.from # NetworkFeeAccount /\ s.from # InfraFeeAccount
           /\ \A t \in Tickets : /\ s.from # Escrow[t]
                                 /\ NetworkFeeAccount # Escrow[t]
                                 /\ InfraFeeAccount # Escrow[t]
  BY AddressFacts, EscrowAssumption, FeeAccountAssumption
     DEF Submission, RefundAddress, Beneficiary, FeeAccounts

\* The balances after the submission fee and its refund, for any sender f, network
\* account n and refund address ra: the sender still holds the retry value and what is
\* available of the deposit, unless nothing is available.
LEMMA FeeBalances ==
    ASSUME NEW b0 \in Balances, NEW f \in Addresses, NEW n \in Addresses,
           NEW ra \in Addresses, f # n,
           NEW d \in Nat, NEW rv \in Nat, NEW fee \in Nat, NEW more \in Nat,
           b0[f] >= d, b0[f] >= fee + more
    PROVE  LET v2 == Monus(Monus(d, rv), fee)
               b1 == Pay(b0, f, n, fee)
               taken == Lesser(v2, more)
               b2 == Pay(b1, f, ra, taken)
           IN  /\ b0[f] >= fee /\ b1[f] >= taken
               /\ b2 \in Balances /\ v2 - taken \in Nat /\ taken \in Nat
               /\ v2 - taken = 0 \/ b2[f] >= v2 - taken + rv
               /\ \A z \in Addresses \ {f} : b2[z] >= b0[z]
               /\ b2[n] >= b0[n] + fee
  <1> DEFINE v2 == Monus(Monus(d, rv), fee)
             b1 == Pay(b0, f, n, fee)
             taken == Lesser(v2, more)
             b2 == Pay(b1, f, ra, taken)
  <1>1. v2 \in Nat /\ (v2 = 0 \/ v2 = d - rv - fee)
    BY DEF Monus, Lesser
  <1> HIDE DEF v2
  <1>2. taken \in Nat /\ taken <= v2 /\ taken <= more
    BY Zenon, <1>1, LesserFacts
  <1> HIDE DEF taken
  <1>3. b0[f] \in Nat /\ b0[n] \in Nat /\ b0[f] >= fee
    BY DEF Balances
  <1>4. /\ b1 \in Balances /\ b1[f] = b0[f] - fee /\ b1[n] = b0[n] + fee
        /\ \A z \in Addresses \ {f} : b1[z] >= b0[z]
    BY <1>3, PayFacts
  <1> HIDE DEF b1
  <1>5. b1[f] >= taken
    BY <1>2, <1>3, <1>4
  <1>6. /\ b2 \in Balances /\ b2[f] >= b1[f] - taken
        /\ \A z \in Addresses \ {f} : b2[z] >= b1[z]
    BY <1>2, <1>4, <1>5, PayFacts
  <1> HIDE DEF b2
  <1>7. b2[f] \in Nat /\ b2[n] \in Nat /\ b1[n] \in Nat
    BY <1>4, <1>6 DEF Balances
  <1>8. v2 - taken = 0 \/ b2[f] >= v2 - taken + rv
    BY <1>1, <1>2, <1>3, <1>4, <1>6, <1>7
  <1>9. \A z \in Addresses \ {f} : b2[z] >= b0[z]
    BY <1>4, <1>6 DEF Balances
  <1>10. b2[n] >= b0[n] + fee
    BY <1>4, <1>6
  <1>11. v2 - taken \in Nat
    BY <1>1, <1>2
  <1> QED  BY <1>2, <1>3, <1>5, <1>6, <1>8, <1>9, <1>10, <1>11 DEF v2, b1, taken, b2

\* After the submission fee and its refund, of a submission that passed the two checks
\* before them.
LEMMA FeeStage ==
    ASSUME bal \in Balances, NEW s \in Submission,
           s.maxSubmissionFee >= s.submissionFee,
           Minted(s).bal[s.from] >= s.maxSubmissionFee
    PROVE  \E b \in Balances, v \in Nat, r \in Nat :
              /\ FeeRefunded(s) = Funded(b, v, r)
              /\ v = 0 \/ b[s.from] >= v + s.retryValue
              /\ \A z \in Addresses \ {s.from} : b[z] >= bal[z]
              /\ b[NetworkFeeAccount] >= bal[NetworkFeeAccount] + s.submissionFee
  <1> DEFINE b0 == [bal EXCEPT ![s.from] = @ + s.deposit]
             f == s.from
             fee == s.submissionFee
             more == s.maxSubmissionFee - s.submissionFee
             v2 == Monus(Monus(s.deposit, s.retryValue), fee)
             b1 == Pay(b0, f, NetworkFeeAccount, fee)
             taken == Lesser(v2, more)
             b2 == Pay(b1, f, RefundAddress(s), taken)
  <1>1. /\ f \in Addresses /\ NetworkFeeAccount \in Addresses
        /\ RefundAddress(s) \in Addresses /\ f # NetworkFeeAccount
        /\ fee \in Nat /\ s.retryValue \in Nat /\ s.deposit \in Nat /\ more \in Nat
        /\ s.maxSubmissionFee \in Nat
    BY SubmissionFacts, AddressFacts
  <1>2. /\ b0 \in Balances /\ b0[f] >= s.deposit
        /\ \A z \in Addresses \ {f} : b0[z] = bal[z]
    BY <1>1 DEF Balances
  <1>3. Minted(s) = Funded(b0, s.deposit, 0)
    BY DEF Minted, Funded
  <1> HIDE DEF b0, b1, b2, v2, taken
  <1>4. b0[f] >= fee + more
    <2>1. Minted(s).bal = b0
      BY <1>3, FundedFields
    <2>2. b0[f] >= s.maxSubmissionFee
      BY <2>1
    <2> QED  BY <1>1, <2>2 DEF Balances
  <1> HIDE DEF f, fee, more
  <1>5. /\ b0[f] >= fee /\ b1[f] >= taken
        /\ b2 \in Balances /\ v2 - taken \in Nat /\ taken \in Nat
        /\ v2 - taken = 0 \/ b2[f] >= v2 - taken + s.retryValue
        /\ \A z \in Addresses \ {f} : b2[z] >= b0[z]
        /\ b2[NetworkFeeAccount] >= b0[NetworkFeeAccount] + fee
    BY Zenon, <1>1, <1>2, <1>4, FeeBalances DEF b1, b2, taken, v2
  <1>6. AfterRetryValue(s) = Funded(b0, Monus(s.deposit, s.retryValue), 0)
    BY <1>3, TakeFunded DEF AfterRetryValue
  <1>7. FeeCharged(s) = Funded(b1, v2, 0)
    BY <1>5, <1>6, TransferFunded, TakeFunded DEF FeeCharged, f, fee, b1, v2
  <1>8. FeeRefunded(s) = Funded(b2, v2 - taken, 0 + taken)
    BY <1>5, <1>7, RefundFunded DEF FeeRefunded, f, fee, more, taken, b2
  <1>9. 0 + taken \in Nat
    BY <1>5
  <1>10. \A z \in Addresses \ {f} : b2[z] >= bal[z]
    BY <1>2, <1>5
  <1>11. b2[NetworkFeeAccount] >= bal[NetworkFeeAccount] + fee
    BY <1>1, <1>2, <1>5
  <1> QED  BY <1>5, <1>8, <1>10, <1>11 DEF f, fee

\* What was withheld of the submission fee is a part of it.
LEMMA WithheldFeeFacts ==
    ASSUME NEW s \in Submission
    PROVE  WithheldFee(s) \in Nat /\ WithheldFee(s) <= s.submissionFee
  <1>1. {s.deposit, s.retryValue, s.submissionFee} \subseteq Nat
    BY SubmissionFacts
  <1>2. Minted(s) = Funded([bal EXCEPT ![s.from] = @ + s.deposit], s.deposit, 0)
    BY DEF Minted, Funded
  <1>3. AfterRetryValue(s).avail = Monus(s.deposit, s.retryValue)
    BY <1>2, TakeFunded, FundedFields DEF AfterRetryValue
  <1> QED  BY Zenon, <1>1, <1>3, LesserFacts DEF WithheldFee

\* Once the escrow is funded, the ticket's escrow holds the retry value and the sender
\* what is available, unless nothing is available.
LEMMA EscrowStage ==
    ASSUME bal \in Balances, NEW s \in Submission,
           s.maxSubmissionFee >= s.submissionFee,
           Minted(s).bal[s.from] >= s.maxSubmissionFee,
           FeeRefunded(s).bal[s.from] >= s.retryValue
    PROVE  \E b \in Balances, v \in Nat, r \in Nat :
              /\ Escrowed(s) = Funded(b, v, r)
              /\ v = 0 \/ b[s.from] >= v
              /\ \A z \in Addresses \ {s.from} : b[z] >= bal[z]
              /\ b[Escrow[s.ticket]] >= s.retryValue
              /\ b[NetworkFeeAccount] >= bal[NetworkFeeAccount] + s.submissionFee
  <1>1. PICK b \in Balances, v \in Nat, r \in Nat :
              /\ FeeRefunded(s) = Funded(b, v, r)
              /\ v = 0 \/ b[s.from] >= v + s.retryValue
              /\ \A z \in Addresses \ {s.from} : b[z] >= bal[z]
              /\ b[NetworkFeeAccount] >= bal[NetworkFeeAccount] + s.submissionFee
    BY FeeStage
  <1> DEFINE f == s.from
             e == Escrow[s.ticket]
             a == s.retryValue
             b1 == Pay(b, f, e, a)
  <1>2. f \in Addresses /\ e \in Addresses /\ f # e /\ a \in Nat
    BY SubmissionFacts, AddressFacts
  <1>3. b[f] >= a
    <2>1. FeeRefunded(s).bal = b
      BY <1>1, FundedFields
    <2> QED  BY <2>1
  <1> HIDE DEF b1
  <1>4. Escrowed(s) = Funded(b1, v, r)
    BY <1>1, <1>3, TransferFunded DEF Escrowed, b1
  <1> HIDE DEF f, e, a
  <1>5. /\ b1 \in Balances /\ b1[f] = b[f] - a /\ b1[e] = b[e] + a
        /\ \A z \in Addresses \ {f} : b1[z] >= b[z]
    BY <1>2, <1>3, PayFacts DEF b1
  <1>6. v = 0 \/ b1[f] >= v
    <2>1. v = 0 \/ b[f] >= v + a
      BY <1>1 DEF f, a
    <2>2. b[f] \in Nat
      BY <1>2 DEF Balances
    <2> QED  BY <1>2, <1>5, <2>1, <2>2
  <1>7. \A z \in Addresses \ {f} : b1[z] >= bal[z]
    <2>1. \A z \in Addresses \ {f} : b[z] >= bal[z]
      BY <1>1 DEF f
    <2> QED  BY <1>5, <2>1 DEF Balances
  <1>8. b1[e] >= a
    BY <1>2, <1>5 DEF Balances
  <1>9. b1[NetworkFeeAccount] >= bal[NetworkFeeAccount] + s.submissionFee
    <2>1. NetworkFeeAccount \in Addresses /\ NetworkFeeAccount # f /\ s.submissionFee \in Nat
      BY SubmissionFacts, AddressFacts DEF f
    <2> QED  BY <1>1, <1>5, <2>1 DEF Balances
  <1> QED  BY <1>4, <1>5, <1>6, <1>7, <1>8, <1>9 DEF f, e, a

\* The exit of a submission whose escrow could not be funded.
LEMMA UnwoundStage ==
    ASSUME bal \in Balances, NEW s \in Submission,
           s.maxSubmissionFee >= s.submissionFee,
           Minted(s).bal[s.from] >= s.maxSubmissionFee
    PROVE  \E b \in Balances, v \in Nat, r \in Nat :
              /\ Unwound(s) = Funded(b, v, r)
              /\ \A t \in Tickets : b[Escrow[t]] >= bal[Escrow[t]]
              /\ \A z \in FeeAccounts : b[z] >= bal[z]
  <1>1. PICK b \in Balances, v \in Nat, r \in Nat :
              /\ FeeRefunded(s) = Funded(b, v, r)
              /\ \A z \in Addresses \ {s.from} : b[z] >= bal[z]
              /\ b[NetworkFeeAccount] >= bal[NetworkFeeAccount] + s.submissionFee
    BY FeeStage
  <1> DEFINE f == s.from
             n == NetworkFeeAccount
             fee == s.submissionFee
             ra == RefundAddress(s)
             w == WithheldFee(s)
             b1 == Pay(b, n, f, fee)
             b2 == Pay(b1, f, ra, w)
  <1>2. /\ f \in Addresses /\ n \in Addresses /\ ra \in Addresses /\ f # n
        /\ fee \in Nat /\ w \in Nat /\ w <= fee
    BY SubmissionFacts, AddressFacts, WithheldFeeFacts
  <1>3. \A t \in Tickets : Escrow[t] \in Addresses /\ Escrow[t] # f /\ Escrow[t] # n
    BY Zenon, SubmissionFacts, AddressFacts
  <1> HIDE DEF b1, b2, w, ra
  <1>4. b[n] >= fee
    BY <1>1, <1>2 DEF Balances
  <1>5. Transfer(FeeRefunded(s), n, f, fee) = Funded(b1, v, r)
    BY <1>1, <1>4, TransferFunded DEF b1
  <1>6. /\ b1 \in Balances /\ b1[f] = b[f] + fee /\ b1[n] = b[n] - fee
        /\ \A z \in Addresses \ {n} : b1[z] >= b[z]
    BY <1>2, <1>4, PayFacts DEF b1
  <1>7. b1[f] >= w
    BY <1>2, <1>6 DEF Balances
  <1>8. Unwound(s) = Funded(b2, v, r + w)
    <2>1. [Funded(b1, v, r) EXCEPT !.refunded = r + w] = Funded(b1, v, r + w)
      BY DEF Funded
    <2>2. Unwound(s) = Transfer(Funded(b1, v, r + w), f, ra, w)
      BY <1>5, <2>1, FundedFields DEF Unwound, w, ra
    <2> QED  BY <1>7, <2>2, TransferFunded DEF b2
  <1>9. /\ b2 \in Balances
        /\ \A z \in Addresses \ {f} : b2[z] >= b1[z]
    BY <1>2, <1>6, <1>7, PayFacts DEF b2
  <1>10. \A t \in Tickets : b2[Escrow[t]] >= bal[Escrow[t]]
    <2> TAKE t \in Tickets
    <2>1. b[Escrow[t]] >= bal[Escrow[t]]
      BY <1>1, <1>3
    <2>2. b1[Escrow[t]] >= b[Escrow[t]] /\ b2[Escrow[t]] >= b1[Escrow[t]]
      BY <1>3, <1>6, <1>9
    <2>3. b1[Escrow[t]] >= bal[Escrow[t]]
      BY <1>3, <1>6, <2>1, RisesTwice
    <2> QED  BY <1>3, <1>6, <1>9, <2>3, RisesTwice
  <1>11. r + w \in Nat
    BY <1>2
  <1>12. \A z \in FeeAccounts : b2[z] >= bal[z]
    <2> TAKE z \in FeeAccounts
    <2>1. z \in Addresses /\ z # f
      BY SubmissionFacts, AddressFacts DEF FeeAccounts
    <2>2. b1[z] >= bal[z]
      <3>1. CASE z = n
        BY <1>1, <1>2, <1>6, <3>1 DEF Balances
      <3>2. CASE z # n
        <4>1. b[z] >= bal[z] /\ b1[z] >= b[z]
          BY <1>1, <1>6, <2>1, <3>2
        <4> QED  BY <1>6, <2>1, <4>1, RisesTwice
      <3> QED  BY <3>1, <3>2
    <2>3. b2[z] >= b1[z]
      BY <1>9, <2>1
    <2> QED  BY <1>6, <1>9, <2>1, <2>2, RisesTwice
  <1> QED  BY <1>8, <1>9, <1>10, <1>11, <1>12

\* The exit of a submission that is not redeemed at once.
LEMMA NoRedeemStage ==
    ASSUME bal \in Balances, NEW s \in Submission,
           s.maxSubmissionFee >= s.submissionFee,
           Minted(s).bal[s.from] >= s.maxSubmissionFee,
           FeeRefunded(s).bal[s.from] >= s.retryValue
    PROVE  \E b \in Balances, v \in Nat, r \in Nat :
              /\ GasCostRefunded(s) = Funded(b, v, r)
              /\ \A t \in Tickets : b[Escrow[t]] >= bal[Escrow[t]]
              /\ b[Escrow[s.ticket]] >= s.retryValue
              /\ \A z \in FeeAccounts : b[z] >= bal[z]
  <1>1. PICK b \in Balances, v \in Nat, r \in Nat :
              /\ Escrowed(s) = Funded(b, v, r)
              /\ v = 0 \/ b[s.from] >= v
              /\ \A z \in Addresses \ {s.from} : b[z] >= bal[z]
              /\ b[Escrow[s.ticket]] >= s.retryValue
    BY EscrowStage
  <1> DEFINE f == s.from
             ra == RefundAddress(s)
             taken == Lesser(v, MaxGasCost(s))
             b1 == Pay(b, f, ra, taken)
  <1>2. /\ f \in Addresses /\ ra \in Addresses /\ s.retryValue \in Nat
        /\ s.ticket \in Tickets /\ MaxGasCost(s) \in Nat
    BY SubmissionFacts DEF MaxGasCost
  <1>3. \A t \in Tickets : Escrow[t] \in Addresses /\ Escrow[t] # f
    BY Zenon, SubmissionFacts, AddressFacts
  <1> HIDE DEF b1, ra, f
  <1>4. taken \in Nat /\ taken <= v /\ v - taken \in Nat /\ r + taken \in Nat
    <2>1. taken \in Nat /\ taken <= v
      BY Zenon, <1>2, LesserFacts
    <2> HIDE DEF taken
    <2> QED  BY <2>1
  <1> HIDE DEF taken
  <1>5. b[f] >= taken
    <2>1. v = 0 \/ b[f] >= v
      BY <1>1 DEF f
    <2> QED  BY <1>2, <1>4, <2>1 DEF Balances
  <1>6. GasCostRefunded(s) = Funded(b1, v - taken, r + taken)
    BY <1>1, <1>5, RefundFunded DEF GasCostRefunded, taken, b1, ra, f
  <1>7. b1 \in Balances /\ \A z \in Addresses \ {f} : b1[z] >= b[z]
    BY <1>2, <1>4, <1>5, PayFacts DEF b1
  <1>8. \A t \in Tickets : b1[Escrow[t]] >= bal[Escrow[t]]
    <2> TAKE t \in Tickets
    <2>1. b[Escrow[t]] >= bal[Escrow[t]]
      BY <1>1, <1>3 DEF f
    <2>2. b1[Escrow[t]] >= b[Escrow[t]]
      BY <1>3, <1>7
    <2> QED  BY <1>3, <1>7, <2>1, RisesTwice
  <1>9. b1[Escrow[s.ticket]] >= s.retryValue
    BY <1>1, <1>2, <1>3, <1>7 DEF Balances
  <1>10. \A z \in FeeAccounts : b1[z] >= bal[z]
    <2> TAKE z \in FeeAccounts
    <2>1. z \in Addresses /\ z # f
      BY SubmissionFacts, AddressFacts DEF FeeAccounts, f
    <2>2. b[z] >= bal[z] /\ b1[z] >= b[z]
      BY <1>1, <1>7, <2>1 DEF f
    <2> QED  BY <1>7, <2>1, <2>2, RisesTwice
  <1> QED  BY <1>4, <1>6, <1>7, <1>8, <1>9, <1>10

\* The exit of a submission that is redeemed at once: the sender pays both parts of the
\* gas cost and still holds what is available, unless nothing is available.
LEMMA RedeemStage ==
    ASSUME bal \in Balances, NEW s \in Submission,
           s.maxSubmissionFee >= s.submissionFee,
           Minted(s).bal[s.from] >= s.maxSubmissionFee,
           FeeRefunded(s).bal[s.from] >= s.retryValue,
           Escrowed(s).bal[s.from] >= MaxGasCost(s),
           s.gasFeeCap >= BaseFee
    PROVE  /\ \E b \in Balances, v \in Nat, r \in Nat :
                 /\ PriceRefunded(s) = Funded(b, v, r)
                 /\ \A t \in Tickets : b[Escrow[t]] >= bal[Escrow[t]]
                 /\ b[Escrow[s.ticket]] >= s.retryValue
                 /\ \A z \in FeeAccounts :
                       b[z] >= bal[z] + Due(z, s.gasLimit, s.submissionFee)
           /\ MaxRefund(s) \in Nat
  <1>1. PICK b \in Balances, v \in Nat, r \in Nat :
              /\ Escrowed(s) = Funded(b, v, r)
              /\ v = 0 \/ b[s.from] >= v
              /\ \A z \in Addresses \ {s.from} : b[z] >= bal[z]
              /\ b[Escrow[s.ticket]] >= s.retryValue
              /\ b[NetworkFeeAccount] >= bal[NetworkFeeAccount] + s.submissionFee
    BY EscrowStage
  <1> DEFINE f == s.from
             ra == RefundAddress(s)
             p == InfraPrice * s.gasLimit
             q == (BaseFee - InfraPrice) * s.gasLimit
             cost == GasCost(s)
             b1 == Pay(b, f, InfraFeeAccount, p)
             b2 == Pay(b1, f, NetworkFeeAccount, q)
             v1 == Monus(v, cost)
             price == (s.gasFeeCap - BaseFee) * s.gasLimit
             taken == Lesser(v1, price)
             b3 == Pay(b2, f, ra, taken)
  <1> HIDE DEF f, ra, p, q, cost, b1, b2, v1, price, taken, b3
  <1>2. /\ f \in Addresses /\ ra \in Addresses /\ s.retryValue \in Nat
        /\ InfraFeeAccount \in Addresses /\ NetworkFeeAccount \in Addresses
        /\ f # InfraFeeAccount /\ f # NetworkFeeAccount
        /\ s.ticket \in Tickets
    BY SubmissionFacts, AddressFacts DEF f, ra
  <1>3. \A t \in Tickets : Escrow[t] \in Addresses /\ Escrow[t] # f
    BY Zenon, SubmissionFacts, AddressFacts DEF f
  <1>4. /\ p \in Nat /\ q \in Nat /\ cost = p + q /\ price \in Nat
        /\ MaxGasCost(s) >= p + q
    <2>1. /\ s.gasFeeCap \in Nat /\ s.gasLimit \in Nat
          /\ InfraPrice \in Nat /\ BaseFee - InfraPrice \in Nat
      BY SubmissionFacts, PriceSplit
    <2>2. InfraPrice + (BaseFee - InfraPrice) = BaseFee
      BY PriceSplit
    <2>3. /\ p \in Nat /\ q \in Nat
          /\ p + q = (InfraPrice + (BaseFee - InfraPrice)) * s.gasLimit
          /\ s.gasFeeCap * s.gasLimit >= p + q
          /\ (s.gasFeeCap - (InfraPrice + (BaseFee - InfraPrice))) * s.gasLimit \in Nat
      BY <2>1, <2>2 DEF p, q
    <2> QED  BY <2>2, <2>3 DEF cost, price, GasCost, MaxGasCost
  <1>a. cost \in Nat
    BY <1>4
  <1>5. b[f] >= p + q /\ b[f] \in Nat
    <2>1. Escrowed(s).bal = b
      BY <1>1, FundedFields
    <2>2. b[f] >= MaxGasCost(s)
      BY <2>1 DEF f
    <2>3. MaxGasCost(s) \in Nat
      BY SubmissionFacts DEF MaxGasCost
    <2> QED  BY <1>2, <1>4, <2>2, <2>3 DEF Balances
  <1>6. b[f] >= p
    BY <1>4, <1>5
  <1>7. /\ b1 \in Balances /\ b1[f] = b[f] - p /\ b1[InfraFeeAccount] = b[InfraFeeAccount] + p
        /\ \A z \in Addresses \ {f} : b1[z] >= b[z]
    BY <1>2, <1>4, <1>6, PayFacts DEF b1
  <1>8. b1[f] >= q
    BY <1>4, <1>5, <1>7
  <1>9. /\ b2 \in Balances /\ b2[f] = b[f] - p - q
        /\ b2[NetworkFeeAccount] = b1[NetworkFeeAccount] + q
        /\ \A z \in Addresses \ {f} : b2[z] >= b1[z]
    BY <1>2, <1>4, <1>7, <1>8, PayFacts DEF b2
  <1>10. v1 \in Nat /\ v1 <= v /\ (v1 = 0 \/ v1 = v - cost)
    BY <1>a, LesserFacts DEF v1
  <1>11. taken \in Nat /\ taken <= v1 /\ v1 - taken \in Nat /\ r + taken \in Nat
    <2>1. taken \in Nat /\ taken <= v1
      BY <1>4, <1>10, LesserFacts DEF taken
    <2> QED  BY <1>10, <2>1
  <1>12. b2[f] >= taken
    <2>1. v = 0 \/ b[f] >= v
      BY <1>1 DEF f
    <2> QED  BY <1>4, <1>5, <1>9, <1>10, <1>11, <2>1
  <1>13. b3 \in Balances /\ \A z \in Addresses \ {f} : b3[z] >= b2[z]
    BY <1>2, <1>9, <1>11, <1>12, PayFacts DEF b3
  <1>14. GasCharged(s) = Funded(b2, v1, r)
    <2>1. Transfer(Escrowed(s), f, InfraFeeAccount, p) = Funded(b1, v, r)
      BY <1>1, <1>6, TransferFunded DEF b1
    <2>2. Transfer(Funded(b1, v, r), f, NetworkFeeAccount, q) = Funded(b2, v, r)
      BY <1>8, TransferFunded DEF b2
    <2>3. Take(Funded(b2, v, r), cost) = Funded(b2, v1, r)
      BY TakeFunded DEF v1
    <2> QED  BY <2>1, <2>2, <2>3 DEF GasCharged, f, p, q, cost
  <1>15. PriceRefunded(s) = Funded(b3, v1 - taken, r + taken)
    BY <1>12, <1>14, RefundFunded DEF PriceRefunded, f, ra, price, taken, b3
  <1>16. \A t \in Tickets : b3[Escrow[t]] >= b[Escrow[t]]
    <2> TAKE t \in Tickets
    <2>1. b1[Escrow[t]] >= b[Escrow[t]] /\ b2[Escrow[t]] >= b1[Escrow[t]]
      BY <1>3, <1>7, <1>9
    <2>2. b2[Escrow[t]] >= b[Escrow[t]]
      BY <1>3, <1>7, <1>9, RisesTwice
    <2>3. b3[Escrow[t]] >= b2[Escrow[t]]
      BY <1>3, <1>13
    <2> QED  BY <1>3, <1>9, <1>13, <2>2, RisesTwice
  <1>17. \A t \in Tickets : b3[Escrow[t]] >= bal[Escrow[t]]
    <2> TAKE t \in Tickets
    <2>1. b[Escrow[t]] >= bal[Escrow[t]]
      BY <1>1, <1>3 DEF f
    <2> QED  BY <1>3, <1>13, <1>16, <2>1, RisesTwice
  <1>18. b3[Escrow[s.ticket]] >= s.retryValue
    BY <1>1, <1>2, <1>3, <1>13, <1>16 DEF Balances
  <1>19. MaxRefund(s) \in Nat
    <2>1. WithheldGas(s) = Lesser(v, cost) /\ PriceRefunded(s).avail = v1 - taken
      BY <1>1, <1>15, FundedFields DEF WithheldGas, cost
    <2>2. Lesser(v, cost) \in Nat
      BY <1>a, LesserFacts
    <2>3. WithheldFee(s) \in Nat
      BY WithheldFeeFacts
    <2> QED  BY <1>11, <2>1, <2>2, <2>3 DEF MaxRefund
  <1>20. ASSUME NEW z \in FeeAccounts
         PROVE  b3[z] >= bal[z] + Due(z, s.gasLimit, s.submissionFee)
    <2> DEFINE pz == IF z = InfraFeeAccount THEN p ELSE 0
               qz == IF z = NetworkFeeAccount THEN q ELSE 0
               fz == IF z = NetworkFeeAccount THEN s.submissionFee ELSE 0
    <2>1. /\ z \in Addresses /\ z # f /\ z \in {InfraFeeAccount, NetworkFeeAccount}
          /\ s.submissionFee \in Nat /\ s.gasLimit \in Nat
      BY SubmissionFacts, AddressFacts DEF FeeAccounts, f
    <2>2. /\ bal[z] \in Nat /\ b[z] \in Nat /\ b1[z] \in Nat /\ b2[z] \in Nat /\ b3[z] \in Nat
          /\ pz \in Nat /\ qz \in Nat /\ fz \in Nat
      BY <1>4, <1>7, <1>9, <1>13, <2>1 DEF Balances
    <2>3. b[z] >= bal[z] + fz
      <3>1. b[z] >= bal[z]
        BY <1>1, <2>1 DEF f
      <3> QED  BY <1>1, <2>2, <3>1
    <2>4. b1[z] >= b[z] + pz
      BY <1>7, <2>1, <2>2
    <2>5. b2[z] >= b1[z] + qz
      BY <1>9, <2>1, <2>2
    <2>6. b3[z] >= b2[z]
      BY <1>13, <2>1
    <2>7. Due(z, s.gasLimit, s.submissionFee) = pz + qz + fz
      <3>1. Rate(z) * s.gasLimit = pz + qz
        BY <2>1, RateSplit DEF p, q
      <3> QED  BY <3>1 DEF Due
    <2> HIDE DEF pz, qz, fz
    <2> QED  BY <2>2, <2>3, <2>4, <2>5, <2>6, <2>7
  <1> QED  BY <1>11, <1>13, <1>15, <1>17, <1>18, <1>19, <1>20

\* Every exit of a submission leaves a funded stage; no escrow and no fee account loses
\* money; a submission that creates a ticket leaves the retry value in the ticket's escrow;
\* and one that is redeemed at once pays the fee accounts all that its retry may get back.
LEMMA SubmitFacts ==
    ASSUME bal \in Balances, NEW s \in Submission
    PROVE  /\ \E b \in Balances, v \in Nat, r \in Nat :
                 /\ SubmitStage(s) = Funded(b, v, r)
                 /\ \A t \in Tickets : b[Escrow[t]] >= bal[Escrow[t]]
                 /\ Creates(SubmitPath(s)) => b[Escrow[s.ticket]] >= s.retryValue
                 /\ \A z \in FeeAccounts : b[z] >= bal[z]
                 /\ SubmitPath(s) = "redeem" =>
                       \A z \in FeeAccounts :
                          b[z] >= bal[z] + Due(z, s.gasLimit, s.submissionFee)
           /\ SubmitPath(s) = "redeem" => MaxRefund(s) \in Nat
  <1>0. /\ s.from \in Addresses /\ s.deposit \in Nat /\ s.submissionFee \in Nat
        /\ s.maxSubmissionFee \in Nat /\ s.retryValue \in Nat /\ s.gasFeeCap \in Nat
        /\ \A t \in Tickets : Escrow[t] \in Addresses /\ Escrow[t] # s.from
        /\ \A z \in FeeAccounts : z \in Addresses
    BY Zenon, SubmissionFacts, AddressFacts DEF FeeAccounts
  <1>1. CASE s.maxSubmissionFee < s.submissionFee
    <2>1. SubmitPath(s) = "fee_too_low"
      BY <1>1 DEF SubmitPath
    <2>2. SubmitStage(s) = Funded(bal, 0, 0) /\ ~Creates(SubmitPath(s))
      BY <2>1 DEF SubmitStage, Unminted, Funded, Creates
    <2>3. \A z \in Addresses : bal[z] >= bal[z]
      BY DEF Balances
    <2> QED  BY <1>0, <2>1, <2>2, <2>3
  <1>2. CASE /\ ~(s.maxSubmissionFee < s.submissionFee)
             /\ Minted(s).bal[s.from] < s.maxSubmissionFee
    <2> DEFINE b0 == [bal EXCEPT ![s.from] = @ + s.deposit]
    <2>1. SubmitPath(s) = "unfunded"
      BY <1>2 DEF SubmitPath
    <2>2. SubmitStage(s) = Funded(b0, s.deposit, 0) /\ ~Creates(SubmitPath(s))
      BY <2>1 DEF SubmitStage, Minted, Funded, Creates
    <2>3. b0 \in Balances /\ \A z \in Addresses : b0[z] >= bal[z]
      BY <1>0 DEF Balances
    <2> HIDE DEF b0
    <2> QED  BY <1>0, <2>1, <2>2, <2>3
  <1>3. CASE /\ ~(s.maxSubmissionFee < s.submissionFee)
             /\ ~(Minted(s).bal[s.from] < s.maxSubmissionFee)
    <2>1. s.maxSubmissionFee >= s.submissionFee
      BY <1>0, <1>3
    <2>2. Minted(s).bal[s.from] \in Nat
      <3> DEFINE b0 == [bal EXCEPT ![s.from] = @ + s.deposit]
      <3>1. Minted(s).bal = b0
        BY DEF Minted
      <3>2. b0[s.from] \in Nat
        BY <1>0 DEF Balances
      <3> QED  BY <3>1, <3>2
    <2>3. Minted(s).bal[s.from] >= s.maxSubmissionFee
      BY <1>0, <1>3, <2>2
    <2>4. PICK b \in Balances, v \in Nat, r \in Nat : FeeRefunded(s) = Funded(b, v, r)
      BY <2>1, <2>3, FeeStage
    <2>5. /\ FeeRefunded(s).result = "ok" /\ FeeRefunded(s).bal = b
          /\ b[s.from] \in Nat
      BY <1>0, <2>4, FundedFields DEF Balances
    <2>6. CASE FeeRefunded(s).bal[s.from] < s.retryValue
      <3>1. SubmitPath(s) = "escrow_failed"
        BY <1>3, <2>5, <2>6 DEF SubmitPath
      <3>2. SubmitStage(s) = Unwound(s) /\ ~Creates(SubmitPath(s))
        BY Zenon, <3>1 DEF SubmitStage, Creates
      <3> QED  BY <2>1, <2>3, <3>1, <3>2, UnwoundStage
    <2>7. CASE ~(FeeRefunded(s).bal[s.from] < s.retryValue)
      <3>1. FeeRefunded(s).bal[s.from] >= s.retryValue
        BY <1>0, <2>5, <2>7
      <3>2. PICK c \in Balances, w \in Nat, q \in Nat : Escrowed(s) = Funded(c, w, q)
        BY <2>1, <2>3, <3>1, EscrowStage
      <3>3. Escrowed(s).bal = c /\ c[s.from] \in Nat /\ MaxGasCost(s) \in Nat
        BY <3>2, FundedFields, SubmissionFacts DEF Balances, MaxGasCost
      <3>4. CASE \/ Escrowed(s).bal[s.from] < MaxGasCost(s)
                 \/ s.gasLimit < TxGas
                 \/ s.gasFeeCap < BaseFee
        <4>1. SubmitPath(s) = "no_redeem"
          BY <1>3, <2>7, <3>4 DEF SubmitPath
        <4>2. SubmitStage(s) = GasCostRefunded(s)
          BY <4>1 DEF SubmitStage
        <4> QED  BY <2>1, <2>3, <3>1, <4>1, <4>2, NoRedeemStage
      <3>5. CASE ~ \/ Escrowed(s).bal[s.from] < MaxGasCost(s)
                   \/ s.gasLimit < TxGas
                   \/ s.gasFeeCap < BaseFee
        <4>1. SubmitPath(s) \in {"filtered", "redeem"}
          BY <1>3, <2>7, <3>5 DEF SubmitPath
        <4>2. SubmitStage(s) = PriceRefunded(s)
          BY <4>1 DEF SubmitStage
        <4>3. /\ Escrowed(s).bal[s.from] >= MaxGasCost(s)
              /\ s.gasFeeCap >= BaseFee
          BY <1>0, <3>3, <3>5, PriceSplit
        <4>4. PICK d \in Balances, x \in Nat, y \in Nat :
                 /\ PriceRefunded(s) = Funded(d, x, y)
                 /\ \A t \in Tickets : d[Escrow[t]] >= bal[Escrow[t]]
                 /\ d[Escrow[s.ticket]] >= s.retryValue
                 /\ \A z \in FeeAccounts :
                       d[z] >= bal[z] + Due(z, s.gasLimit, s.submissionFee)
          BY <2>1, <2>3, <3>1, <4>3, RedeemStage
        <4>5. \A z \in FeeAccounts : d[z] >= bal[z]
          <5> TAKE z \in FeeAccounts
          <5>1. bal[z] \in Nat /\ d[z] \in Nat
            BY <1>0 DEF Balances
          <5>2. Due(z, s.gasLimit, s.submissionFee) \in Nat
            BY SubmissionFacts, DueNat
          <5> QED  BY <4>4, <5>1, <5>2
        <4>6. MaxRefund(s) \in Nat
          BY <2>1, <2>3, <3>1, <4>3, RedeemStage
        <4> QED  BY <4>2, <4>4, <4>5, <4>6
      <3> QED  BY <3>4, <3>5
    <2> QED  BY <2>6, <2>7
  <1> QED  BY <1>1, <1>2, <1>3

-----------------------------------------------------------------------------
(* The reaper.                                                             *)

\* What the reaper works on.
Stored(r, b, q) == [rec |-> r, bal |-> b, queue |-> q]

Records == [Tickets -> Record]

\* The fields of the store.
LEMMA StoredFields ==
    ASSUME NEW r, NEW b, NEW q
    PROVE  Stored(r, b, q).rec = r /\ Stored(r, b, q).bal = b /\ Stored(r, b, q).queue = q
  BY DEF Stored

\* Deleting a live ticket.
LEMMA DeleteStored ==
    ASSUME NEW r \in Records, NEW b, NEW q, NEW t \in Tickets, r[t].timeout # 0
    PROVE  DeleteRetryable(Stored(r, b, q), t)
           = Stored([r EXCEPT ![t] = EmptyRecord],
                    Pay(b, Escrow[t], r[t].beneficiary, b[Escrow[t]]), q)
  BY Zenon, StoredFields DEF DeleteRetryable, Stored

\* The parts of the invariant that speak of records, escrows and the queue, as
\* operators, so that they can be stated of the reaper's intermediate results.
RecordsOK(r) ==
    \A t \in Tickets :
        /\ r[t].windowsLeft = 0
        /\ r[t].timeout # 0 => r[t].from \in Users /\ t \in submitted
        /\ r[t].timeout = 0 => r[t] = EmptyRecord

EscrowsOK(r, b) ==
    \A t \in Tickets :
        r[t].timeout # 0 /\ ~InFlight(t) => b[Escrow[t]] >= r[t].callvalue

QueueOK(r, q) ==
    /\ \A i, j \in DOMAIN q : q[i] = q[j] => i = j
    /\ \A t \in Tickets : r[t].timeout # 0 => \E i \in DOMAIN q : q[i] = t
    /\ \A i \in DOMAIN q : q[i] \in submitted

\* r2 and b2 come from r and b by removing records; only their escrows were drawn on.
Removes(r, b, r2, b2) ==
    /\ \A t \in Tickets :
          \/ r2[t] = r[t] /\ b2[Escrow[t]] >= b[Escrow[t]]
          \/ r[t].timeout # 0 /\ r2[t] = EmptyRecord
    /\ \A z \in FeeAccounts : b2[z] >= b[z]

\* The empty record is a record, and the record of no live ticket.
LEMMA EmptyRecordFacts ==
    EmptyRecord \in Record /\ EmptyRecord.timeout = 0 /\ EmptyRecord.windowsLeft = 0
  BY AddressFacts DEF EmptyRecord, Record

\* The fields of a record that proofs use.
LEMMA RecordFields ==
    ASSUME NEW r \in Records, NEW t \in Tickets
    PROVE  /\ r[t] \in Record
           /\ r[t].numTries \in Nat /\ r[t].from \in Addresses /\ r[t].to \in Addresses
           /\ r[t].callvalue \in Nat /\ r[t].beneficiary \in Addresses
           /\ r[t].timeout \in Nat /\ r[t].windowsLeft \in Nat /\ r[t].intrinsic \in Nat
  BY DEF Records, Record

Cleared(r, t) == [r EXCEPT ![t] = EmptyRecord]

\* Deleting a live ticket clears its record and pays from its escrow alone.
LEMMA DeleteFacts ==
    ASSUME NEW r \in Records, NEW b \in Balances, NEW q, NEW t \in Tickets,
           r[t].timeout # 0
    PROVE  \E b2 \in Balances :
              /\ DeleteRetryable(Stored(r, b, q), t) = Stored(Cleared(r, t), b2, q)
              /\ Cleared(r, t) \in Records
              /\ \A u \in Tickets \ {t} : b2[Escrow[u]] >= b[Escrow[u]]
              /\ Removes(r, b, Cleared(r, t), b2)
  <1> DEFINE b2 == Pay(b, Escrow[t], r[t].beneficiary, b[Escrow[t]])
             r2 == Cleared(r, t)
  <1>1. /\ Escrow[t] \in Addresses /\ r[t].beneficiary \in Addresses
        /\ b[Escrow[t]] \in Nat /\ b[Escrow[t]] >= b[Escrow[t]]
    <2>1. Escrow[t] \in Addresses /\ r[t].beneficiary \in Addresses
      BY AddressFacts, RecordFields
    <2>2. b[Escrow[t]] \in Nat
      BY <2>1 DEF Balances
    <2> QED  BY <2>1, <2>2
  <1>2. DeleteRetryable(Stored(r, b, q), t) = Stored(r2, b2, q)
    BY DeleteStored DEF Cleared
  <1> HIDE DEF b2
  <1>3. b2 \in Balances /\ \A z \in Addresses \ {Escrow[t]} : b2[z] >= b[z]
    BY <1>1, PayFacts DEF b2
  <1>4. \A u \in Tickets \ {t} : b2[Escrow[u]] >= b[Escrow[u]]
    BY <1>3, AddressFacts, EscrowAssumption
  <1>5. r2 \in Records /\ r2[t] = EmptyRecord /\ \A u \in Tickets \ {t} : r2[u] = r[u]
    BY EmptyRecordFacts DEF Records, Cleared
  <1> HIDE DEF r2
  <1>6. Removes(r, b, r2, b2)
    <2>1. \A z \in FeeAccounts : b2[z] >= b[z]
      BY <1>3, AddressFacts, EscrowAssumption DEF FeeAccounts
    <2> QED  BY <1>4, <1>5, <2>1 DEF Removes
  <1> QED  BY <1>2, <1>3, <1>4, <1>5, <1>6 DEF r2

\* Removing records keeps the records well formed and the other escrows covered.
LEMMA RemovesKeeps ==
    ASSUME NEW r \in Records, NEW b \in Balances, NEW r2 \in Records, NEW b2 \in Balances,
           RecordsOK(r), EscrowsOK(r, b), Removes(r, b, r2, b2)
    PROVE  RecordsOK(r2) /\ EscrowsOK(r2, b2)
  <1>1. RecordsOK(r2)
    BY Zenon, EmptyRecordFacts DEF RecordsOK, Removes
  <1>2. EscrowsOK(r2, b2)
    <2> SUFFICES ASSUME NEW t \in Tickets, r2[t].timeout # 0, ~InFlight(t)
                 PROVE  b2[Escrow[t]] >= r2[t].callvalue
      BY DEF EscrowsOK
    <2>1. r2[t] = r[t] /\ b2[Escrow[t]] >= b[Escrow[t]]
      BY EmptyRecordFacts DEF Removes
    <2>2. b[Escrow[t]] >= r[t].callvalue
      BY <2>1 DEF EscrowsOK
    <2>3. r[t].callvalue \in Nat
      BY RecordFields
    <2>4. b[Escrow[t]] \in Nat /\ b2[Escrow[t]] \in Nat
      BY Zenon, AddressFacts DEF Balances
    <2> QED  BY <2>1, <2>2, <2>3, <2>4
  <1> QED  BY <1>1, <1>2

\* Consuming the head of the queue keeps the queue complete once the head's ticket is dead.
LEMMA PopKeepsQueue ==
    ASSUME NEW r \in Records, NEW r2 \in Records, NEW q \in Seq(Tickets), q # << >>,
           QueueOK(r, q), r2[Head(q)].timeout = 0,
           \A t \in Tickets : r2[t].timeout # 0 => r[t].timeout # 0
    PROVE  Tail(q) \in Seq(Tickets) /\ QueueOK(r2, Tail(q))
  <1>1. /\ Tail(q) \in Seq(Tickets) /\ Len(q) \in Nat /\ Len(q) > 0
        /\ DOMAIN q = 1..Len(q) /\ DOMAIN Tail(q) = 1..(Len(q) - 1)
        /\ \A i \in 1..(Len(q) - 1) : Tail(q)[i] = q[i + 1] /\ i + 1 \in 1..Len(q)
        /\ Head(q) = q[1]
    OBVIOUS
  <1>2. \A i, j \in DOMAIN Tail(q) : Tail(q)[i] = Tail(q)[j] => i = j
    <2> SUFFICES ASSUME NEW i \in 1..(Len(q) - 1), NEW j \in 1..(Len(q) - 1),
                        Tail(q)[i] = Tail(q)[j]
                 PROVE  i = j
      BY <1>1
    <2>1. q[i + 1] = q[j + 1] /\ i + 1 \in DOMAIN q /\ j + 1 \in DOMAIN q
      BY <1>1
    <2>2. i + 1 = j + 1
      BY <2>1 DEF QueueOK
    <2> QED  BY <2>2
  <1>3. \A t \in Tickets : r2[t].timeout # 0 => \E i \in DOMAIN Tail(q) : Tail(q)[i] = t
    <2> SUFFICES ASSUME NEW t \in Tickets, r2[t].timeout # 0
                 PROVE  \E i \in DOMAIN Tail(q) : Tail(q)[i] = t
      OBVIOUS
    <2>1. PICK k \in DOMAIN q : q[k] = t
      BY DEF QueueOK
    <2>2. k # 1
      BY <2>1
    <2>3. k - 1 \in 1..(Len(q) - 1) /\ (k - 1) + 1 = k
      BY <2>2
    <2>4. Tail(q)[k - 1] = t
      BY <2>1
    <2> QED  BY <2>3, <2>4
  <1>4. \A i \in DOMAIN Tail(q) : Tail(q)[i] \in submitted
    BY <1>1 DEF QueueOK
  <1> QED  BY <1>3 DEF QueueOK

\* One pass of the reaper removes at most one ticket, one that has expired, and keeps
\* the records, the escrows and the queue in order.
LEMMA ReapOne ==
    ASSUME NEW r \in Records, NEW b \in Balances, NEW q \in Seq(Tickets), NEW time \in Nat,
           RecordsOK(r), EscrowsOK(r, b), QueueOK(r, q)
    PROVE  \E r2 \in Records, b2 \in Balances, q2 \in Seq(Tickets) :
              /\ TryToReapOne(Stored(r, b, q), time) = Stored(r2, b2, q2)
              /\ RecordsOK(r2) /\ EscrowsOK(r2, b2) /\ QueueOK(r2, q2)
              /\ Removes(r, b, r2, b2)
              /\ \A t \in Tickets : r[t].timeout >= time => r2[t] = r[t]
  <1> DEFINE t == Head(q)
             st == Stored(r, b, q)
  <1>1. Removes(r, b, r, b)
    <2>1. \A z \in Addresses : b[z] >= b[z]
      BY DEF Balances
    <2> QED  BY <2>1, AddressFacts DEF Removes, FeeAccounts
  <1>2. CASE q = << >>
    <2>1. TryToReapOne(st, time) = st
      BY <1>2, StoredFields DEF TryToReapOne
    <2> QED  BY <1>1, <2>1
  <1>3. CASE q # << >>
    <2>1. t \in Tickets /\ [st EXCEPT !.queue = Tail(q)] = Stored(r, b, Tail(q))
      <3>1. t \in Tickets
        BY <1>3
      <3>2. [st EXCEPT !.queue = Tail(q)] = Stored(r, b, Tail(q))
        <4>1. PICK k : k = Tail(q)
          BY Zenon
        <4>2. [Stored(r, b, q) EXCEPT !.queue = k] = Stored(r, b, k)
          BY DEF Stored
        <4> QED  BY <4>1, <4>2
      <3> QED  BY <3>1, <3>2
    <2>2. r[t].timeout \in Nat
      BY <2>1, RecordFields
    <2>3. CASE r[t].timeout = 0
      <3>1. TryToReapOne(st, time) = Stored(r, b, Tail(q))
        BY <1>3, <2>1, <2>3, StoredFields DEF TryToReapOne
      <3>2. Tail(q) \in Seq(Tickets) /\ QueueOK(r, Tail(q))
        BY <1>3, <2>3, PopKeepsQueue
      <3> QED  BY Zenon, <1>1, <3>1, <3>2
    <2>4. CASE r[t].timeout # 0 /\ r[t].timeout >= time
      <3>1. TryToReapOne(st, time) = st
        BY <2>4, StoredFields DEF TryToReapOne
      <3> QED  BY <1>1, <3>1
    <2>5. CASE r[t].timeout # 0 /\ ~(r[t].timeout >= time)
      <3> DEFINE r2 == Cleared(r, t)
      <3>1. r[t].windowsLeft = 0
        BY <2>1 DEF RecordsOK
      <3>2. TryToReapOne(st, time) = DeleteRetryable(Stored(r, b, Tail(q)), t)
        <4>1. st.queue = q /\ st.rec = r /\ [st EXCEPT !.queue = Tail(q)] = Stored(r, b, Tail(q))
          BY <2>1, StoredFields
        <4> HIDE DEF st, r2
        <4> QED  BY <1>3, <2>5, <3>1, <4>1, Zenon DEF TryToReapOne
      <3>3. PICK b2 \in Balances :
               /\ DeleteRetryable(Stored(r, b, Tail(q)), t) = Stored(r2, b2, Tail(q))
               /\ r2 \in Records
               /\ Removes(r, b, r2, b2)
        BY <2>1, <2>5, DeleteFacts
      <3>4. r2[t] = EmptyRecord /\ \A u \in Tickets \ {t} : r2[u] = r[u]
        BY <2>1 DEF Records, Cleared
      <3> HIDE DEF r2, t
      <3>5. RecordsOK(r2) /\ EscrowsOK(r2, b2)
        BY <3>3, RemovesKeeps
      <3>6. r2[Head(q)].timeout = 0
        BY <3>4, EmptyRecordFacts DEF t
      <3>7. \A u \in Tickets : r2[u].timeout # 0 => r[u].timeout # 0
        BY <3>4, <3>6 DEF t
      <3>8. Tail(q) \in Seq(Tickets) /\ QueueOK(r2, Tail(q))
        BY <1>3, <3>3, <3>6, <3>7, PopKeepsQueue
      <3>9. \A u \in Tickets : r[u].timeout >= time => r2[u] = r[u]
        BY <2>5, <3>4
      <3> QED  BY Zenon, <3>2, <3>3, <3>5, <3>8, <3>9
    <2> QED  BY <2>3, <2>4, <2>5
  <1> QED  BY <1>2, <1>3

\* What two passes, which every start-of-block transaction makes, leave.
ReapedTwice(r, b, q, time) ==
    \E r2 \in Records, b2 \in Balances, q2 \in Seq(Tickets) :
       /\ TryToReapOne(TryToReapOne(Stored(r, b, q), time), time) = Stored(r2, b2, q2)
       /\ RecordsOK(r2) /\ EscrowsOK(r2, b2) /\ QueueOK(r2, q2)
       /\ \A t \in Tickets : r[t].timeout = 0 => b2[Escrow[t]] >= b[Escrow[t]]
       /\ \A t \in Tickets : r[t].timeout >= time => r2[t] = r[t]
       /\ \A t \in Tickets : r2[t] = r[t] \/ r2[t] = EmptyRecord
       /\ \A z \in FeeAccounts : b2[z] >= b[z]

\* Two passes keep everything in order and leave tickets that have not expired alone.
LEMMA ReapTwice ==
    ASSUME NEW r \in Records, NEW b \in Balances, NEW q \in Seq(Tickets), NEW time \in Nat,
           RecordsOK(r), EscrowsOK(r, b), QueueOK(r, q)
    PROVE  ReapedTwice(r, b, q, time)
  <1>1. PICK r1 \in Records, b1 \in Balances, q1 \in Seq(Tickets) :
           /\ TryToReapOne(Stored(r, b, q), time) = Stored(r1, b1, q1)
           /\ RecordsOK(r1) /\ EscrowsOK(r1, b1) /\ QueueOK(r1, q1)
           /\ Removes(r, b, r1, b1)
           /\ \A t \in Tickets : r[t].timeout >= time => r1[t] = r[t]
    BY Zenon, ReapOne
  <1>2. PICK r2 \in Records, b2 \in Balances, q2 \in Seq(Tickets) :
           /\ TryToReapOne(Stored(r1, b1, q1), time) = Stored(r2, b2, q2)
           /\ RecordsOK(r2) /\ EscrowsOK(r2, b2) /\ QueueOK(r2, q2)
           /\ Removes(r1, b1, r2, b2)
           /\ \A t \in Tickets : r1[t].timeout >= time => r2[t] = r1[t]
    BY Zenon, <1>1, ReapOne
  <1>3. ASSUME NEW t \in Tickets, r[t].timeout = 0
        PROVE  b2[Escrow[t]] >= b[Escrow[t]]
    <2>1. r1[t] = r[t] /\ b1[Escrow[t]] >= b[Escrow[t]]
      BY Zenon, <1>1, <1>3 DEF Removes
    <2>2. b2[Escrow[t]] >= b1[Escrow[t]]
      BY <1>2, <1>3, <2>1 DEF Removes
    <2> QED  BY Zenon, <2>1, <2>2, AddressFacts, RisesTwice
  <1>4. \A t \in Tickets : r[t].timeout >= time => r2[t] = r[t]
    BY <1>1, <1>2
  <1>5. TryToReapOne(TryToReapOne(Stored(r, b, q), time), time) = Stored(r2, b2, q2)
    BY <1>1, <1>2, Zenon
  <1>6. \A t \in Tickets : r2[t] = r[t] \/ r2[t] = EmptyRecord
    BY <1>1, <1>2, Zenon DEF Removes
  <1>7. \A z \in FeeAccounts : b2[z] >= b[z]
    <2> TAKE z \in FeeAccounts
    <2>1. b1[z] >= b[z] /\ b2[z] >= b1[z] /\ z \in Addresses
      BY <1>1, <1>2, AddressFacts DEF Removes, FeeAccounts
    <2> QED  BY <2>1, RisesTwice
  <1> QED  BY <1>2, <1>3, <1>4, <1>5, <1>6, <1>7, Zenon DEF ReapedTwice

-----------------------------------------------------------------------------
(* The refunds of a retry.                                                 *)

\* What retry_end_tx_hook works on.
Refunding(b, g, f, h) == [bal |-> b, budget |-> g, refunded |-> f, short |-> h]

\* The fields of a refund in progress.
LEMMA RefundingFields ==
    ASSUME NEW b, NEW g, NEW f, NEW h
    PROVE  /\ Refunding(b, g, f, h).bal = b /\ Refunding(b, g, f, h).budget = g
           /\ Refunding(b, g, f, h).refunded = f /\ Refunding(b, g, f, h).short = h
           /\ \A k : [Refunding(b, g, f, h) EXCEPT !.budget = k] = Refunding(b, k, f, h)
  BY DEF Refunding

\* The fields of a scheduled retry that proofs use.
LEMMA EnvelopeFields ==
    ASSUME NEW r \in Envelope
    PROVE  /\ r.ticket \in Tickets /\ r.gas \in Nat /\ r.seq \in Nat
           /\ r.refundTo \in Addresses /\ r.maxRefund \in Nat
           /\ r.submissionFeeRefund \in Nat /\ r.from \in Users /\ r.from \in Addresses
           /\ r.to \in Addresses /\ r.value \in Nat /\ r.intrinsic \in Nat
           /\ r.from \notin FeeAccounts
           /\ \A t \in Tickets : r.from # Escrow[t]
  BY AddressFacts, FeeAccountAssumption, EscrowAssumption DEF Envelope

\* st is a refund in progress for which nobody but the accounts in X has paid since b,
\* and which can refund no more than m in all.
PaidBy(st, b, X, m) ==
    \E b2 \in Balances, g2 \in Nat, f2 \in Nat, h2 \in Nat :
       /\ st = Refunding(b2, g2, f2, h2)
       /\ \A z \in Addresses \ X : b2[z] >= b[z]
       /\ f2 + g2 <= m

\* One fee account pays its part of the refund; nobody else loses anything.
LEMMA FeeRefundFacts ==
    ASSUME NEW b \in Balances, NEW g \in Nat, NEW f \in Nat, NEW h \in Nat,
           NEW source \in Addresses, NEW amount \in Nat, NEW r \in Envelope
    PROVE  PaidBy(RetryFeeRefund(Refunding(b, g, f, h), source, amount, r), b, {source},
                  f + g)
  <1> DEFINE st == Refunding(b, g, f, h)
             within == Lesser(amount, g)
             first == Lesser(within, b[source])
             paid == Pay(b, source, r.refundTo, first)
             rest == amount - within
             second == Lesser(rest, paid[source])
             b2 == Pay(paid, source, r.from, second)
  <1> HIDE DEF st, within, first, paid, rest, second, b2
  <1>1. r.refundTo \in Addresses /\ r.from \in Addresses /\ b[source] \in Nat
    BY EnvelopeFields DEF Balances
  <1>2. within \in Nat /\ within <= amount /\ within <= g
    BY LesserFacts DEF within
  <1>3. first \in Nat /\ first <= within /\ first <= b[source]
    BY <1>1, <1>2 DEF first, Lesser
  <1>4. b[source] >= first
    BY <1>3
  <1>5. paid \in Balances /\ \A z \in Addresses \ {source} : paid[z] >= b[z]
    BY <1>1, <1>3, PayFacts DEF paid
  <1>6. rest \in Nat /\ paid[source] \in Nat /\ g - within \in Nat
    BY <1>2, <1>5 DEF rest, Balances
  <1>7. second \in Nat /\ second <= rest /\ second <= paid[source]
    BY Zenon, <1>6, LesserFacts DEF second
  <1>8. paid[source] >= second
    BY <1>7
  <1>9. b2 \in Balances /\ \A z \in Addresses \ {source} : b2[z] >= paid[z]
    BY <1>1, <1>5, <1>7, PayFacts DEF b2
  <1>10. \A z \in Addresses \ {source} : b2[z] >= b[z]
    BY <1>5, <1>9, RisesTwice
  <1>11. f + first \in Nat /\ h + amount - first - second \in Nat
    BY <1>2, <1>3, <1>7 DEF rest
  <1>15. f + (g - within) <= f + g /\ (f + first) + (g - within) <= f + g
    BY <1>2, <1>3
  <1>12. st.bal = b /\ st.budget = g /\ st.refunded = f /\ st.short = h
    BY RefundingFields DEF st
  <1>13. CASE source = ZeroAddress
    <2>1. RetryFeeRefund(st, source, amount, r) = [st EXCEPT !.budget = g - within]
      BY <1>12, <1>13 DEF RetryFeeRefund, within
    <2>2. [st EXCEPT !.budget = g - within] = Refunding(b, g - within, f, h)
      BY RefundingFields DEF st
    <2>3. \A z \in Addresses : b[z] >= b[z]
      BY DEF Balances
    <2> QED  BY <1>6, <1>15, <2>1, <2>2, <2>3 DEF st, PaidBy
  <1>14. CASE source # ZeroAddress
    <2>1. RetryFeeRefund(st, source, amount, r)
          = Refunding(b2, g - within, f + first, h + amount - first - second)
      BY <1>12, <1>14 DEF RetryFeeRefund, Refunding, within, first, paid, rest, second, b2
    <2> QED  BY <1>6, <1>9, <1>10, <1>11, <1>15, <2>1 DEF st, PaidBy
  <1> QED  BY <1>13, <1>14

\* All refunds of a retry come from the fee accounts, and what goes to the refund address
\* is within the budget of the retry.
LEMMA RefundsFacts ==
    ASSUME NEW b \in Balances, NEW r \in Envelope, NEW success \in BOOLEAN,
           NEW left \in Nat, left <= r.gas
    PROVE  PaidBy(RetryRefunds(b, r, success, left), b, FeeAccounts, r.maxRefund)
  <1> DEFINE start == Refunding(b, r.maxRefund, 0, 0)
             fee == IF success
                    THEN RetryFeeRefund(start, NetworkFeeAccount, r.submissionFeeRefund, r)
                    ELSE [start EXCEPT !.budget = Monus(@, r.submissionFeeRefund)]
             spent == BaseFee * (r.gas - left)
             work == [fee EXCEPT !.budget = Monus(@, spent)]
             p == InfraPrice * left
             q == (BaseFee - InfraPrice) * left
             infra == RetryFeeRefund(work, InfraFeeAccount, p, r)
             end == RetryFeeRefund(infra, NetworkFeeAccount, q, r)
  <1>0. RetryRefunds(b, r, success, left) = end
    BY DEF RetryRefunds, Refunding
  <1> HIDE DEF start, fee, spent, work, infra, end, p, q
  <1>1. /\ r.maxRefund \in Nat /\ r.submissionFeeRefund \in Nat
        /\ NetworkFeeAccount \in Addresses /\ InfraFeeAccount \in Addresses
        /\ NetworkFeeAccount \in FeeAccounts /\ InfraFeeAccount \in FeeAccounts
    BY EnvelopeFields, AddressFacts DEF FeeAccounts
  <1>2. spent \in Nat /\ p \in Nat /\ q \in Nat
    <2>1. r.gas - left \in Nat
      BY EnvelopeFields
    <2> QED  BY <2>1, PriceSplit DEF spent, p, q
  <1>3. PICK b1 \in Balances, g1 \in Nat, f1 \in Nat, h1 \in Nat :
            /\ fee = Refunding(b1, g1, f1, h1)
            /\ \A z \in Addresses \ {NetworkFeeAccount} : b1[z] >= b[z]
            /\ f1 + g1 <= r.maxRefund
    <2>1. CASE success
      <3>1. fee = RetryFeeRefund(start, NetworkFeeAccount, r.submissionFeeRefund, r)
        BY <2>1 DEF fee
      <3>2. PaidBy(fee, b, {NetworkFeeAccount}, 0 + r.maxRefund)
        BY <1>1, <3>1, FeeRefundFacts DEF start
      <3>3. 0 + r.maxRefund = r.maxRefund
        BY <1>1
      <3> QED  BY <3>2, <3>3 DEF PaidBy
    <2>2. CASE ~success
      <3>1. fee = Refunding(b, Monus(r.maxRefund, r.submissionFeeRefund), 0, 0)
        BY <2>2, RefundingFields DEF fee, start
      <3>2. /\ Monus(r.maxRefund, r.submissionFeeRefund) \in Nat
            /\ 0 + Monus(r.maxRefund, r.submissionFeeRefund) <= r.maxRefund
        <4>1. /\ Monus(r.maxRefund, r.submissionFeeRefund) \in Nat
              /\ Monus(r.maxRefund, r.submissionFeeRefund) <= r.maxRefund
          BY Zenon, <1>1, LesserFacts
        <4> QED  BY <4>1
      <3>3. \A z \in Addresses : b[z] >= b[z]
        BY DEF Balances
      <3> QED  BY <3>1, <3>2, <3>3
    <2> QED  BY <2>1, <2>2
  <1>4. work = Refunding(b1, Monus(g1, spent), f1, h1) /\ Monus(g1, spent) \in Nat
    BY <1>2, <1>3, RefundingFields, LesserFacts DEF work
  <1>8. Monus(g1, spent) <= g1
    BY <1>2, LesserFacts
  <1>5. PICK b2 \in Balances, g2 \in Nat, f2 \in Nat, h2 \in Nat :
            /\ infra = Refunding(b2, g2, f2, h2)
            /\ \A z \in Addresses \ {InfraFeeAccount} : b2[z] >= b1[z]
            /\ f2 + g2 <= f1 + Monus(g1, spent)
    <2>1. PaidBy(infra, b1, {InfraFeeAccount}, f1 + Monus(g1, spent))
      BY <1>1, <1>2, <1>4, FeeRefundFacts DEF infra
    <2> QED  BY <2>1 DEF PaidBy
  <1>6. PICK b3 \in Balances, g3 \in Nat, f3 \in Nat, h3 \in Nat :
            /\ end = Refunding(b3, g3, f3, h3)
            /\ \A z \in Addresses \ {NetworkFeeAccount} : b3[z] >= b2[z]
            /\ f3 + g3 <= f2 + g2
    <2>1. PaidBy(end, b2, {NetworkFeeAccount}, f2 + g2)
      BY <1>1, <1>2, <1>5, FeeRefundFacts DEF end
    <2> QED  BY <2>1 DEF PaidBy
  <1>7. \A z \in Addresses \ FeeAccounts : b3[z] >= b[z]
    <2> TAKE z \in Addresses \ FeeAccounts
    <2>1. b1[z] >= b[z] /\ b2[z] >= b1[z] /\ b3[z] >= b2[z]
      BY <1>1, <1>3, <1>5, <1>6
    <2>2. b2[z] >= b[z]
      BY <2>1, RisesTwice
    <2> QED  BY <2>1, RisesTwice
  <1>9. f3 + g3 <= r.maxRefund
    BY <1>1, <1>3, <1>4, <1>5, <1>6, <1>8
  <1> QED  BY <1>0, <1>6, <1>7, <1>9 DEF PaidBy

\* The fee shares of a user transaction only add to the fee accounts.
LEMMA PayFeesFacts ==
    ASSUME NEW b \in Balances, NEW gas \in Nat
    PROVE  /\ PayFees(b, gas) \in Balances
           /\ \A z \in Addresses : PayFees(b, gas)[z] >= b[z]
  <1> DEFINE p == InfraPrice * gas
             q == (BaseFee - InfraPrice) * gas
  <1>1. p \in Nat /\ q \in Nat
    BY PriceSplit
  <1> HIDE DEF p, q
  <1> DEFINE c == [b EXCEPT ![InfraFeeAccount] = @ + p]
  <1>2. PayFees(b, gas) = [c EXCEPT ![NetworkFeeAccount] = @ + q]
    BY DEF PayFees, p, q
  <1>3. c \in Balances /\ \A z \in Addresses : c[z] >= b[z]
    BY <1>1, AddressFacts DEF Balances
  <1> HIDE DEF c
  <1>4. /\ PayFees(b, gas) \in Balances
        /\ \A z \in Addresses : PayFees(b, gas)[z] >= c[z]
    BY <1>1, <1>2, <1>3, AddressFacts DEF Balances
  <1> QED  BY <1>3, <1>4, RisesTwice

-----------------------------------------------------------------------------
(* Transactions and the history.                                           *)

\* A transaction never has more gas left, and given away, than it started with.
GasBounded ==
    /\ tx.kind = "user" => tx.gas + tx.donated <= tx.limit
    /\ tx.kind = "retry" => tx.gas + tx.donated <= tx.retry.gas

TxType == {NoTx} \cup UserTx \cup RetryTx

\* The three kinds of tx.
LEMMA TxKinds ==
    ASSUME NEW x \in TxType
    PROVE  /\ x.kind \in {"none", "user", "retry"}
           /\ x.gas \in Nat /\ x.donated \in Nat
           /\ x.kind = "none" <=> x = NoTx
           /\ x.kind = "user" => /\ x \in UserTx
                                 /\ x.origin \in Users /\ x.limit \in Nat
           /\ x.kind = "retry" => x \in RetryTx /\ x.retry \in Envelope
  <1>1. CASE x = NoTx
    BY <1>1 DEF NoTx
  <1>2. CASE x \in UserTx
    BY <1>2 DEF UserTx, NoTx
  <1>3. CASE x \in RetryTx
    BY <1>3 DEF RetryTx, NoTx
  <1> QED  BY <1>1, <1>2, <1>3 DEF TxType

\* The fields of the history.
LEMMA HistoryFields ==
    ASSUME NEW h \in History
    PROVE  /\ h.minted \in Nat /\ h.delivered \in Nat /\ h.deposit \in [Tickets -> Nat]
           /\ h.refunded \in [Tickets -> Nat] /\ h.work \in Nat /\ h.short \in Nat
           /\ h.born \subseteq Tickets /\ h.txs \in Nat
  BY DEF History

-----------------------------------------------------------------------------
(* The inductive invariant.  The first four parts after the type are the   *)
(* safety properties; none of them is inductive alone.  That the escrows   *)
(* cover the callvalues needs the senders of tickets to be users, so that  *)
(* no refund is paid from an escrow, and it is what keeps the callvalue    *)
(* transfers of retries from failing.  That live tickets are queued needs  *)
(* the reaper never to meet an extension window, and that no ticket is     *)
(* queued twice needs queued tickets to have been submitted.               *)

QueueHoldsSubmitted == \A i \in DOMAIN queue : queue[i] \in submitted

\* A ticket that may become a zombie was submitted in this block.
PendingBorn == pending \subseteq history.born

Inv ==
    /\ TypeOK
    /\ RecordsWellFormed
    /\ EscrowCoversCallvalue
    /\ QueueHoldsLiveTickets
    /\ NoFatalTransfer
    /\ QueueHoldsSubmitted
    /\ GasBounded
    /\ PendingBorn

\* What a step may not do: draw on the escrow of a ticket that does not live.
DeadKept == \A t \in Tickets : ~Live(t) => bal'[Escrow[t]] >= bal[Escrow[t]]

\* The parts of the invariant in terms of the operators above.
LEMMA InvParts ==
    /\ RecordsWellFormed <=> RecordsOK(rec)
    /\ EscrowCoversCallvalue <=> EscrowsOK(rec, bal)
    /\ QueueHoldsLiveTickets /\ QueueHoldsSubmitted <=> QueueOK(rec, queue)
    /\ TypeOK => /\ bal \in Balances /\ rec \in Records /\ tx \in TxType
  <1>1. RecordsWellFormed <=> RecordsOK(rec)
    BY DEF RecordsWellFormed, RecordsOK, Live
  <1>2. EscrowCoversCallvalue <=> EscrowsOK(rec, bal)
    BY DEF EscrowCoversCallvalue, EscrowsOK, Live
  <1>3. QueueHoldsLiveTickets /\ QueueHoldsSubmitted <=> QueueOK(rec, queue)
    BY DEF QueueHoldsLiveTickets, QueueHoldsSubmitted, QueueOK, Live
  <1>4. TypeOK => bal \in Balances /\ rec \in Records /\ tx \in TxType
    BY DEF TypeOK, Balances, Records, TxType
  <1> QED  BY <1>1, <1>2, <1>3, <1>4

\* The initial states satisfy the invariant.
LEMMA InitInv == Init => Inv
  <1> SUFFICES ASSUME Init PROVE Inv
    OBVIOUS
  <1>1. TypeOK
    <2>1. history \in History
      BY DEF Init, History
    <2>2. bal \in [Addresses -> Nat]
      BY NumberFacts DEF Init
    <2>3. rec \in [Tickets -> Record]
      BY EmptyRecordFacts DEF Init
    <2> QED  BY <2>1, <2>2, <2>3 DEF Init, TypeOK
  <1>2. RecordsWellFormed /\ EscrowCoversCallvalue /\ QueueHoldsLiveTickets
    <2>1. \A t \in Tickets : rec[t] = EmptyRecord
      BY Zenon DEF Init
    <2>2. \A t \in Tickets : ~Live(t)
      BY Zenon, <2>1, EmptyRecordFacts DEF Live
    <2>3. queue = << >>
      BY DEF Init
    <2> QED
      BY <2>1, <2>2, <2>3, EmptyRecordFacts
      DEF RecordsWellFormed, EscrowCoversCallvalue, QueueHoldsLiveTickets
  <1>3. NoFatalTransfer /\ QueueHoldsSubmitted /\ GasBounded /\ PendingBorn
    BY DEF Init, NoFatalTransfer, QueueHoldsSubmitted, GasBounded, PendingBorn, NoTx
  <1> QED  BY <1>1, <1>2, <1>3 DEF Inv

-----------------------------------------------------------------------------
(* What an action has to show when it leaves part of the state alone.      *)

\* Records and queue unchanged.
LEMMA StorageFrame ==
    ASSUME Inv, rec' = rec, queue' = queue, submitted' = submitted
    PROVE  RecordsWellFormed' /\ QueueHoldsLiveTickets' /\ QueueHoldsSubmitted'
  BY Zenon DEF Inv, RecordsWellFormed, QueueHoldsLiveTickets, QueueHoldsSubmitted, Live

\* No escrow that has to cover a callvalue lost money.
LEMMA EscrowsKept ==
    ASSUME Inv, TypeOK',
           \A t \in Tickets :
              Live(t)' /\ ~InFlight(t)'
              => /\ Live(t) /\ ~InFlight(t)
                 /\ rec'[t].callvalue = rec[t].callvalue
                 /\ bal'[Escrow[t]] >= bal[Escrow[t]]
    PROVE  EscrowCoversCallvalue'
  <1> SUFFICES ASSUME NEW t \in Tickets, Live(t)', ~InFlight(t)'
               PROVE  bal'[Escrow[t]] >= rec'[t].callvalue
    BY DEF EscrowCoversCallvalue
  <1>1. bal[Escrow[t]] >= rec[t].callvalue /\ bal'[Escrow[t]] >= bal[Escrow[t]]
    BY Zenon DEF Inv, EscrowCoversCallvalue
  <1>2. bal[Escrow[t]] \in Nat /\ bal'[Escrow[t]] \in Nat
    BY AddressFacts DEF Inv, TypeOK
  <1>3. rec[t].callvalue \in Nat
    BY Zenon, RecordFields DEF Inv, TypeOK, Records
  <1> QED  BY <1>1, <1>2, <1>3

\* Everything but msg unchanged: an aborted or a finished message.
LEMMA MessageFrame ==
    ASSUME Inv, msg' \in {"idle", "invalid_tx", "retry_invalid", "retry_not_found"},
           UNCHANGED <<bal, rec, queue, now, userLeft, scheduled, tx, logs, backlog,
                       pending, zombies, submitted, history>>
    PROVE  Inv'
  <1>1. TypeOK'
    BY Zenon DEF Inv, TypeOK, AbortReasons
  <1>2. EscrowCoversCallvalue'
    BY DEF Inv, EscrowCoversCallvalue, Live, InFlight
  <1>3. NoFatalTransfer'
    BY DEF NoFatalTransfer
  <1>4. GasBounded' /\ PendingBorn'
    BY DEF Inv, GasBounded, PendingBorn
  <1> QED  BY <1>1, <1>2, <1>3, <1>4, StorageFrame DEF Inv

\* No balance changed.
LEMMA BalancesFrame ==
    ASSUME Inv, bal' = bal
    PROVE  DeadKept
  <1>1. \A t \in Tickets : bal[Escrow[t]] \in Nat
    BY AddressFacts DEF Inv, TypeOK
  <1> QED  BY <1>1 DEF DeadKept

-----------------------------------------------------------------------------
(* The message loop, one lemma for each action.                            *)

\* StartBlock: two passes of the reaper, which leaves tickets that have not expired alone.
LEMMA StartBlockInv ==
    ASSUME Inv, NEW time \in 0..MaxTime, StartBlock(time)
    PROVE  /\ Inv' /\ DeadKept
           /\ \A t \in Tickets : rec[t].timeout >= now' => rec'[t] = rec[t]
           /\ \A t \in Tickets : rec'[t] = rec[t] \/ rec'[t] = EmptyRecord
           /\ \A z \in FeeAccounts : bal'[z] >= bal[z]
  <1> DEFINE st == TryToReapOne(TryToReapOne(Store(bal), now'), now')
  <1>1. /\ bal \in Balances /\ rec \in Records /\ queue \in Seq(Tickets)
        /\ RecordsOK(rec) /\ EscrowsOK(rec, bal) /\ QueueOK(rec, queue)
    BY InvParts DEF Inv, TypeOK
  <1>2. now' \in Nat /\ now' - now \in Nat
    <2>1. now' = IF time > now THEN time ELSE now
      BY DEF StartBlock
    <2>2. now \in Nat /\ time \in Nat
      BY NumbersAssumption DEF Inv, TypeOK
    <2> QED  BY <2>1, <2>2
  <1>3. ReapedTwice(rec, bal, queue, now')
    BY Zenon, <1>1, <1>2, ReapTwice
  <1>4. PICK r2 \in Records, b2 \in Balances, q2 \in Seq(Tickets) :
           /\ TryToReapOne(TryToReapOne(Stored(rec, bal, queue), now'), now') = Stored(r2, b2, q2)
           /\ RecordsOK(r2) /\ EscrowsOK(r2, b2) /\ QueueOK(r2, q2)
           /\ \A t \in Tickets : rec[t].timeout = 0 => b2[Escrow[t]] >= bal[Escrow[t]]
           /\ \A t \in Tickets : rec[t].timeout >= now' => r2[t] = rec[t]
           /\ \A t \in Tickets : r2[t] = rec[t] \/ r2[t] = EmptyRecord
           /\ \A z \in FeeAccounts : b2[z] >= bal[z]
    BY Zenon, <1>3 DEF ReapedTwice
  <1>5. st = Stored(r2, b2, q2)
    BY <1>4 DEF Store, Stored
  <1> HIDE DEF st
  <1>6. rec' = r2 /\ bal' = b2 /\ queue' = q2
    BY <1>5, StoredFields DEF StartBlock, st
  <1>7. tx' = tx /\ submitted' = submitted /\ msg' = "running" /\ pending' = {}
    BY Zenon DEF StartBlock
  <1>8. RecordsWellFormed' /\ EscrowCoversCallvalue'
    BY <1>4, <1>6, <1>7
    DEF RecordsOK, EscrowsOK, RecordsWellFormed, EscrowCoversCallvalue, Live, InFlight
  <1>9. QueueHoldsLiveTickets' /\ QueueHoldsSubmitted'
    BY Zenon, <1>4, <1>6, <1>7 DEF QueueOK, QueueHoldsLiveTickets, QueueHoldsSubmitted, Live
  <1>10. history' \in History /\ userLeft' \in Nat
    <2>1. userLeft' \in Nat
      BY NumbersAssumption DEF StartBlock
    <2> DEFINE drained == SpeedLimit * (now' - now)
               w == Monus(history.work, drained)
               n == history.txs + userLeft'
    <2>2. history \in History /\ history.work \in Nat /\ history.txs \in Nat
      BY Zenon, HistoryFields DEF Inv, TypeOK
    <2>3. w \in Nat /\ n \in Nat
      <3>1. drained \in Nat
        BY <1>2, NumberFacts
      <3> HIDE DEF drained
      <3>2. w \in Nat
        BY Zenon, <2>2, <3>1, LesserFacts
      <3>3. n \in Nat
        BY <2>1, <2>2
      <3> QED  BY <3>2, <3>3
    <2>4. history' = [history EXCEPT !.work = w, !.born = {}, !.txs = n]
      BY DEF StartBlock
    <2> HIDE DEF w, n
    <2>5. [history EXCEPT !.work = w, !.born = {}, !.txs = n] \in History
      BY Zenon, <2>2, <2>3 DEF History
    <2> QED  BY <2>1, <2>4, <2>5
  <1>11. backlog' \in Nat
    <2>1. SpeedLimit * (now' - now) \in Nat
      BY <1>2, NumberFacts
    <2> QED  BY <2>1, LesserFacts DEF StartBlock, Inv, TypeOK
  <1>12. TypeOK'
    <2>1. scheduled' = << >> /\ UNCHANGED <<tx, logs, zombies, submitted>>
      BY DEF StartBlock
    <2> QED
      BY <1>2, <1>6, <1>7, <1>10, <1>11, <2>1 DEF TypeOK, Inv, Balances, Records
  <1>13. NoFatalTransfer' /\ GasBounded' /\ PendingBorn'
    BY Zenon, <1>7 DEF Inv, NoFatalTransfer, GasBounded, PendingBorn
  <1>14. DeadKept
    BY Zenon, <1>4, <1>6 DEF DeadKept, Live
  <1>15. \A t \in Tickets : rec[t].timeout >= now' => rec'[t] = rec[t]
    BY <1>4, <1>6
  <1>16. \A t \in Tickets : rec'[t] = rec[t] \/ rec'[t] = EmptyRecord
    BY <1>4, <1>6, Zenon
  <1>17. \A z \in FeeAccounts : bal'[z] >= bal[z]
    BY <1>4, <1>6
  <1> QED  BY <1>8, <1>9, <1>12, <1>13, <1>14, <1>15, <1>16, <1>17 DEF Inv

\* EndMessage leaves everything else alone.
LEMMA EndMessageInv ==
    ASSUME Inv, EndMessage
    PROVE  Inv'
  BY MessageFrame DEF EndMessage

\* ScheduleRetry builds an envelope from a log and the record of a live ticket.
LEMMA ScheduleRetryInv ==
    ASSUME Inv, ScheduleRetry
    PROVE  Inv'
  <1> DEFINE l == Head(logs)
             r == rec[l.ticket]
             e == [ticket |-> l.ticket, seq |-> l.seq, gas |-> l.gas,
                   refundTo |-> l.refundTo, maxRefund |-> l.maxRefund,
                   submissionFeeRefund |-> l.submissionFeeRefund, from |-> r.from,
                   to |-> r.to, value |-> r.callvalue, intrinsic |-> r.intrinsic]
  <1>1. logs \in Seq(RedeemLog) /\ logs # << >> /\ scheduled \in Seq(Envelope)
    BY DEF ScheduleRetry, Inv, TypeOK
  <1>2. /\ l.ticket \in Tickets /\ l.seq \in Nat /\ l.gas \in Nat /\ l.refundTo \in Addresses
        /\ l.maxRefund \in Nat /\ l.submissionFeeRefund \in Nat
    <2>1. l \in RedeemLog
      BY <1>1
    <2> HIDE DEF l
    <2> QED  BY <2>1 DEF RedeemLog
  <1> HIDE DEF l
  <1>3. /\ r.to \in Addresses /\ r.callvalue \in Nat /\ r.intrinsic \in Nat
        /\ r.numTries # 0 => r.from \in Users
    <2>1. rec \in Records /\ RecordsOK(rec)
      BY InvParts DEF Inv
    <2>2. r.timeout = 0 => r = EmptyRecord
      BY <1>2, <2>1 DEF RecordsOK
    <2>3. r.timeout = 0 => r.numTries = 0
      BY <2>2 DEF EmptyRecord
    <2>4. r.timeout # 0 => r.from \in Users
      BY <1>2, <2>1 DEF RecordsOK
    <2>5. r.to \in Addresses /\ r.callvalue \in Nat /\ r.intrinsic \in Nat
      BY <1>2, <2>1, RecordFields
    <2> QED  BY <2>3, <2>4, <2>5
  <1> HIDE DEF r
  <1>4. r.numTries # 0 => e \in Envelope
    BY Zenon, <1>2, <1>3 DEF Envelope
  <1> HIDE DEF e
  <1>5. scheduled' = scheduled \/ (r.numTries # 0 /\ scheduled' = Append(scheduled, e))
    BY DEF ScheduleRetry, l, r, e
  <1>6. scheduled' \in Seq(Envelope)
    BY <1>1, <1>4, <1>5
  <1>7. logs' \in Seq(RedeemLog)
    BY <1>1 DEF ScheduleRetry
  <1>8. UNCHANGED <<bal, rec, queue, now, msg, userLeft, tx, backlog, pending, zombies,
                    submitted, history>>
    BY DEF ScheduleRetry
  <1>9. TypeOK'
    BY <1>6, <1>7, <1>8 DEF Inv, TypeOK
  <1>10. EscrowCoversCallvalue' /\ NoFatalTransfer' /\ GasBounded' /\ PendingBorn'
    BY Zenon, <1>8 DEF Inv, EscrowCoversCallvalue, Live, InFlight, NoFatalTransfer, GasBounded,
                PendingBorn
  <1> QED  BY Zenon, <1>8, <1>9, <1>10, StorageFrame DEF Inv

\* Deposits and transfers between users and escrows: nobody but a user pays.
LEMMA DepositInv ==
    ASSUME Inv, NEW u \in Users, NEW y \in Addresses, NEW a \in Amounts, Deposit(u, y, a)
    PROVE  Inv' /\ DeadKept
  <1> DEFINE b0 == [bal EXCEPT ![u] = @ + a]
             b1 == Pay(b0, u, y, a)
  <1>1. a \in Nat /\ u \in Addresses /\ bal \in Balances
    BY Zenon, NumbersAssumption, AddressFacts, InvParts DEF Inv
  <1>2. /\ b0 \in Balances /\ b0[u] >= a
        /\ \A z \in Addresses \ {u} : b0[z] = bal[z]
    BY <1>1 DEF Balances
  <1> HIDE DEF b0
  <1>3. b1 \in Balances /\ \A z \in Addresses \ {u} : b1[z] >= b0[z]
    BY <1>1, <1>2, PayFacts
  <1>4. bal' = b1
    BY DEF Deposit, b0
  <1> HIDE DEF b1
  <1>5. /\ UNCHANGED <<rec, queue, now, msg, scheduled, tx, logs, backlog, pending, zombies,
                       submitted>>
        /\ userLeft' = userLeft - 1 /\ userLeft > 0
    BY DEF Deposit, UserTurn
  <1>6. history' \in History /\ history'.born = history.born
    <2> DEFINE m == history.minted + a
               d == history.delivered + a
    <2>1. history \in History /\ history.minted \in Nat /\ history.delivered \in Nat
      BY Zenon, HistoryFields DEF Inv, TypeOK
    <2>2. m \in Nat /\ d \in Nat
      BY <1>1, <2>1
    <2>3. history' = [history EXCEPT !.minted = m, !.delivered = d]
      BY DEF Deposit
    <2> HIDE DEF m, d
    <2> QED  BY Zenon, <2>1, <2>2, <2>3 DEF History
  <1>7. TypeOK'
    <2>1. userLeft' \in Nat
      BY <1>5 DEF Inv, TypeOK
    <2> QED  BY <1>3, <1>4, <1>5, <1>6 DEF Inv, TypeOK, Balances
  <1>8. EscrowCoversCallvalue' /\ DeadKept
    <2>1. \A t \in Tickets : Escrow[t] \in Addresses /\ Escrow[t] # u
      BY Zenon, AddressFacts, EscrowAssumption
    <2>2. \A t \in Tickets : bal'[Escrow[t]] >= bal[Escrow[t]]
      BY Zenon, <1>2, <1>3, <1>4, <2>1
    <2> QED  BY <1>5, <1>7, <2>2, EscrowsKept DEF Live, InFlight, DeadKept
  <1>9. NoFatalTransfer' /\ GasBounded' /\ PendingBorn'
    BY Zenon, <1>5, <1>6 DEF Inv, NoFatalTransfer, GasBounded, PendingBorn
  <1> QED  BY Zenon, <1>5, <1>7, <1>8, <1>9, StorageFrame DEF Inv

=============================================================================
