-------------------------- MODULE RetryablesProofs --------------------------
(***************************************************************************)
(* Every step of Retryables keeps the inductive invariant, and the safety  *)
(* properties that follow from it, for every value of the constants:       *)
(* escrows, records, the timeout queue, the reaper, zombies.               *)
(***************************************************************************)
EXTENDS RetryablesLemmas

-----------------------------------------------------------------------------
(* Submissions and user transactions, one lemma for each action.           *)

\* A new ticket is appended to the queue.
LEMMA AppendKeepsQueue ==
    ASSUME NEW t \in Tickets, t \notin submitted,
           NEW q \in Seq(Tickets), NEW r \in Records, NEW r2 \in Records,
           QueueOK(r, q), \A u \in Tickets \ {t} : r2[u] = r[u]
    PROVE  /\ Append(q, t) \in Seq(Tickets)
           /\ \A i, j \in DOMAIN Append(q, t) : Append(q, t)[i] = Append(q, t)[j] => i = j
           /\ \A u \in Tickets : r2[u].timeout # 0
                => \E i \in DOMAIN Append(q, t) : Append(q, t)[i] = u
           /\ \A i \in DOMAIN Append(q, t) : Append(q, t)[i] \in submitted \cup {t}
  <1> DEFINE n == Len(q) + 1
             q2 == Append(q, t)
  <1>1. /\ q2 \in Seq(Tickets) /\ n \in Nat /\ DOMAIN q = 1..(n - 1) /\ DOMAIN q2 = 1..n
        /\ n \in 1..n /\ q2[n] = t /\ \A i \in 1..(n - 1) : q2[i] = q[i]
    OBVIOUS
  <1> HIDE DEF n, q2
  <1>2. \A i \in 1..(n - 1) : q2[i] # t /\ q2[i] \in submitted
    BY <1>1 DEF QueueOK
  <1>3. \A i, j \in DOMAIN q2 : q2[i] = q2[j] => i = j
    <2> SUFFICES ASSUME NEW i \in 1..n, NEW j \in 1..n, q2[i] = q2[j] PROVE i = j
      BY <1>1
    <2>1. CASE i = n \/ j = n
      BY <1>1, <1>2, <2>1
    <2>2. CASE i # n /\ j # n
      <3>1. i \in DOMAIN q /\ j \in DOMAIN q /\ q[i] = q[j]
        BY <1>1, <2>2
      <3> QED  BY <3>1 DEF QueueOK
    <2> QED  BY <2>1, <2>2
  <1>4. \A u \in Tickets : r2[u].timeout # 0 => \E i \in DOMAIN q2 : q2[i] = u
    <2> SUFFICES ASSUME NEW u \in Tickets, r2[u].timeout # 0
                 PROVE  \E i \in DOMAIN q2 : q2[i] = u
      OBVIOUS
    <2>1. CASE u = t
      <3>1. n \in DOMAIN q2
        BY <1>1
      <3> QED  BY <1>1, <2>1
    <2>2. CASE u # t
      <3>1. PICK i \in DOMAIN q : q[i] = u
        BY <2>2 DEF QueueOK
      <3> QED  BY <1>1, <3>1
    <2> QED  BY <2>1, <2>2
  <1>5. \A i \in DOMAIN q2 : q2[i] \in submitted \cup {t}
    BY <1>1, <1>2
  <1> QED  BY <1>3, <1>4, <1>5 DEF q2

\* SubmitRetryable never aborts the message, and sets up record, escrow and queue entry
\* together.
LEMMA SubmitRetryableInv ==
    ASSUME Inv, NEW s \in Submissions, SubmitRetryable(s)
    PROVE  Inv' /\ DeadKept
  <1> DEFINE t == s.ticket
             path == SubmitPath(s)
             st == SubmitStage(s)
             new == NewRecord(s)
  <1>0. s \in Submission
    BY SubmissionsAssumption
  <1>1. /\ t \in Tickets /\ s.from \in Users /\ s.from \in Addresses /\ s.to \in Addresses
        /\ Beneficiary(s) \in Addresses /\ RefundAddress(s) \in Addresses
        /\ s.deposit \in Nat /\ s.retryValue \in Nat /\ s.submissionFee \in Nat
        /\ s.gasLimit \in Nat /\ s.intrinsic \in Nat
    BY <1>0, SubmissionFacts
  <1>2. /\ bal \in Balances /\ rec \in Records /\ queue \in Seq(Tickets) /\ tx = NoTx
        /\ RecordsOK(rec) /\ EscrowsOK(rec, bal) /\ QueueOK(rec, queue) /\ now \in Nat
        /\ t \notin submitted /\ submitted \subseteq Tickets
    BY InvParts DEF Inv, TypeOK, SubmitRetryable, UserTurn
  <1>3. PICK b \in Balances, v \in Nat, r \in Nat :
           /\ st = Funded(b, v, r)
           /\ \A u \in Tickets : b[Escrow[u]] >= bal[Escrow[u]]
           /\ Creates(path) => b[Escrow[t]] >= s.retryValue
    BY Zenon, <1>0, <1>2, SubmitFacts
  <1>4. path = "redeem" => MaxRefund(s) \in Nat
    BY Zenon, <1>0, <1>2, SubmitFacts
  <1> HIDE DEF path, st, new
  <1>5. st.result = "ok" /\ st.bal = b /\ st.refunded = r
    BY <1>3, FundedFields
  <1>6. /\ bal' = b
        /\ rec' = IF Creates(path) THEN [rec EXCEPT ![t] = new] ELSE rec
        /\ queue' = IF Creates(path) THEN Append(queue, t) ELSE queue
        /\ logs' = IF path = "redeem" THEN <<SubmitLog(s)>> ELSE << >>
        /\ pending' \subseteq pending \cup {t}
        /\ submitted' = submitted \cup {t}
        /\ userLeft' = userLeft - 1 /\ userLeft > 0
        /\ UNCHANGED <<now, msg, scheduled, tx, backlog, zombies>>
    BY <1>5 DEF SubmitRetryable, path, st, new, UserTurn
  <1>7. /\ new \in Record /\ new.timeout # 0 /\ new.windowsLeft = 0 /\ new.from = s.from
        /\ new.callvalue = s.retryValue
    <2> DEFINE k == IF path = "redeem" THEN 1 ELSE 0
               end == now + Lifetime
    <2>1. k \in Nat /\ end \in Nat /\ end # 0
      BY <1>2, NumberFacts
    <2>2. new = [numTries |-> k, from |-> s.from, to |-> s.to, callvalue |-> s.retryValue,
                 beneficiary |-> Beneficiary(s), timeout |-> end, windowsLeft |-> 0,
                 intrinsic |-> s.intrinsic]
      BY DEF new, NewRecord, path
    <2> HIDE DEF k, end
    <2> QED  BY <1>1, <2>1, <2>2 DEF Record
  <1>8. /\ rec' \in Records /\ \A u \in Tickets \ {t} : rec'[u] = rec[u]
        /\ rec'[t] = IF Creates(path) THEN new ELSE rec[t]
    BY Zenon, <1>1, <1>2, <1>6, <1>7 DEF Records
  <1>9. RecordsWellFormed'
    BY <1>1, <1>2, <1>6, <1>7 DEF RecordsOK, RecordsWellFormed, Live
  <1>10. /\ queue' \in Seq(Tickets)
         /\ QueueHoldsLiveTickets' /\ QueueHoldsSubmitted'
    <2>1. CASE Creates(path)
      <3>1. queue' = Append(queue, t)
        BY <1>6, <2>1
      <3> QED
        BY <1>1, <1>2, <1>6, <3>1, AppendKeepsQueue
        DEF QueueHoldsLiveTickets, QueueHoldsSubmitted, Live
    <2>2. CASE ~Creates(path)
      BY Zenon, <1>2, <1>6, <2>2
      DEF QueueOK, QueueHoldsLiveTickets, QueueHoldsSubmitted, Live
    <2> QED  BY <2>1, <2>2
  <1>11. EscrowCoversCallvalue'
    <2> SUFFICES ASSUME NEW u \in Tickets, Live(u)'
                 PROVE  b[Escrow[u]] >= rec'[u].callvalue
      BY <1>6 DEF EscrowCoversCallvalue
    <2>1. CASE u = t /\ Creates(path)
      BY Zenon, <1>3, <1>7, <1>8, <2>1
    <2>2. CASE ~(u = t /\ Creates(path))
      <3>1. rec'[u] = rec[u] /\ rec[u].timeout # 0
        BY <1>8, <2>2 DEF Live
      <3>2. bal[Escrow[u]] >= rec[u].callvalue
        BY <1>2, <3>1 DEF EscrowsOK, InFlight, NoTx
      <3>3. rec[u].callvalue \in Nat /\ bal[Escrow[u]] \in Nat /\ b[Escrow[u]] \in Nat
        BY <1>2, RecordFields, AddressFacts DEF Balances
      <3> QED  BY <1>3, <3>1, <3>2, <3>3
    <2> QED  BY <2>1, <2>2
  <1>12. history' \in History /\ history'.born = history.born \cup {t}
    <2> DEFINE m == history.minted + IF path = "fee_too_low" THEN 0 ELSE s.deposit
               d == history.delivered + s.deposit
               B == history.born \cup {t}
    <2>1. /\ history \in History /\ history.minted \in Nat /\ history.delivered \in Nat
          /\ history.born \subseteq Tickets
      BY HistoryFields DEF Inv, TypeOK
    <2>2. m \in Nat /\ d \in Nat /\ B \in SUBSET Tickets
      BY <1>1, <2>1
    <2>3. history' = [history EXCEPT !.minted = m, !.delivered = d, !.deposit[t] = s.deposit,
                                     !.refunded[t] = r, !.born = B]
      BY <1>5 DEF SubmitRetryable, path, st
    <2> HIDE DEF m, d, B, t
    <2>4. history' \in History /\ history'.born = B
      BY Zenon, <1>1, <2>1, <2>2, <2>3 DEF History
    <2> QED  BY <2>4 DEF B, t
  <1>13. logs' \in Seq(RedeemLog)
    <2>1. CASE path = "redeem"
      <3>1. SubmitLog(s) \in RedeemLog
        BY <1>1, <1>4, <2>1 DEF SubmitLog, RedeemLog
      <3> QED  BY <1>6, <3>1
    <2>2. CASE path # "redeem"
      BY <1>6, <2>2
    <2> QED  BY <2>1, <2>2
  <1>14. TypeOK'
    <2>1. pending \subseteq Tickets /\ userLeft \in Nat
      BY DEF Inv, TypeOK
    <2>2. userLeft' \in Nat
      BY <1>6, <2>1
    <2>3. submitted' \subseteq Tickets
      BY Zenon, <1>1, <1>2, <1>6
    <2>4. pending' \subseteq Tickets
      BY <1>1, <1>6, <2>1
    <2> QED
      BY <1>6, <1>8, <1>12, <1>13, <2>3 DEF Inv, TypeOK, Balances, Records
  <1>15. NoFatalTransfer' /\ GasBounded' /\ PendingBorn'
    BY <1>6, <1>12 DEF Inv, NoFatalTransfer, GasBounded, PendingBorn
  <1>16. DeadKept
    BY Zenon, <1>3, <1>6 DEF DeadKept
  <1> QED  BY <1>9, <1>10, <1>11, <1>14, <1>15, <1>16 DEF Inv

\* BeginUserTx buys the gas limit and spends the intrinsic gas of it.
LEMMA BeginUserTxInv ==
    ASSUME Inv, NEW u \in Users, NEW g \in GasLimits, BeginUserTx(u, g)
    PROVE  Inv' /\ DeadKept
  <1> DEFINE cost == BaseFee * g
             rest == g - TxGas
  <1>1. /\ g \in Nat /\ cost \in Nat /\ rest \in Nat /\ rest <= g
        /\ u \in Addresses /\ bal \in Balances
    <2>1. g \in Nat /\ g >= TxGas
      BY Zenon, NumbersAssumption DEF BeginUserTx
    <2>2. cost \in Nat
      BY <2>1, PriceSplit
    <2> HIDE DEF cost
    <2> QED  BY <2>1, <2>2, NumberFacts, AddressFacts, InvParts DEF Inv
  <1>2. /\ bal[u] >= cost /\ bal' = [bal EXCEPT ![u] = @ - cost]
        /\ tx' = [kind |-> "user", origin |-> u, limit |-> g, gas |-> rest, donated |-> 0]
        /\ tx = NoTx /\ userLeft' = userLeft - 1 /\ userLeft > 0
        /\ UNCHANGED <<rec, queue, now, msg, scheduled, logs, backlog, pending, zombies,
                       submitted, history>>
    BY DEF BeginUserTx, UserTurn
  <1> HIDE DEF cost, rest
  <1>3. bal' \in Balances /\ \A z \in Addresses \ {u} : bal'[z] = bal[z]
    BY <1>1, <1>2 DEF Balances
  <1>4. tx' \in UserTx /\ tx'.kind = "user" /\ tx'.gas + tx'.donated <= tx'.limit
    BY <1>1, <1>2 DEF UserTx
  <1>5. TypeOK'
    <2>1. userLeft' \in Nat
      BY <1>2 DEF Inv, TypeOK
    <2> QED  BY <1>2, <1>3, <1>4 DEF Inv, TypeOK, Balances
  <1>6. EscrowCoversCallvalue' /\ DeadKept
    <2>1. \A t \in Tickets : Escrow[t] \in Addresses /\ Escrow[t] # u
      BY Zenon, AddressFacts, EscrowAssumption
    <2>2. \A t \in Tickets : bal'[Escrow[t]] >= bal[Escrow[t]]
      BY <1>3, <2>1 DEF Balances
    <2>3. \A t \in Tickets : ~InFlight(t)
      BY <1>2 DEF InFlight, NoTx
    <2> QED  BY Zenon, <1>2, <1>5, <2>2, <2>3, EscrowsKept DEF Live, DeadKept
  <1>7. NoFatalTransfer' /\ PendingBorn'
    BY <1>2 DEF Inv, NoFatalTransfer, PendingBorn
  <1>8. GasBounded'
    BY <1>4 DEF GasBounded
  <1> QED  BY <1>2, <1>5, <1>6, <1>7, <1>8, StorageFrame DEF Inv

\* SkipUnsupported only consumes the transaction.
LEMMA SkipUnsupportedInv ==
    ASSUME Inv, SkipUnsupported
    PROVE  Inv'
  <1>1. /\ userLeft' = userLeft - 1 /\ userLeft > 0
        /\ UNCHANGED <<bal, rec, queue, now, msg, scheduled, tx, logs, backlog, pending,
                       zombies, submitted, history>>
    BY DEF SkipUnsupported, UserTurn
  <1>2. TypeOK'
    <2>1. userLeft' \in Nat
      BY <1>1 DEF Inv, TypeOK
    <2> QED  BY <1>1 DEF Inv, TypeOK
  <1>3. EscrowCoversCallvalue' /\ NoFatalTransfer' /\ GasBounded' /\ PendingBorn'
    BY <1>1 DEF Inv, EscrowCoversCallvalue, Live, InFlight, NoFatalTransfer, GasBounded,
                PendingBorn
  <1> QED  BY <1>1, <1>2, <1>3, StorageFrame DEF Inv

\* EndUserTx pays the sender and the fee accounts only.
LEMMA EndUserTxInv ==
    ASSUME Inv, NEW left \in 0..tx.gas, EndUserTx(left)
    PROVE  Inv' /\ DeadKept
  <1> DEFINE back == BaseFee * left
             used == tx.limit - left
             work == tx.limit - left - tx.donated
             u == tx.origin
             b0 == [bal EXCEPT ![u] = @ + back]
  <1>1. /\ tx.kind = "user" /\ tx \in UserTx /\ u \in Users /\ tx.limit \in Nat
        /\ tx.gas \in Nat /\ tx.donated \in Nat /\ tx.gas + tx.donated <= tx.limit
        /\ bal \in Balances
    BY InvParts, TxKinds DEF Inv, EndUserTx, GasBounded
  <1>2. left \in Nat /\ used \in Nat /\ work \in Nat
    BY <1>1
  <1>3. back \in Nat
    BY PriceSplit
  <1>4. /\ bal' = PayFees(b0, used) /\ backlog' = Grow(backlog, used) /\ tx' = NoTx
        /\ history' = [history EXCEPT !.work = Grow(@, work)]
        /\ UNCHANGED <<rec, queue, now, msg, userLeft, scheduled, logs, pending, zombies,
                       submitted>>
    BY DEF EndUserTx
  <1> HIDE DEF back, used, work, u
  <1>5. b0 \in Balances /\ \A z \in Addresses : b0[z] >= bal[z]
    BY <1>1, <1>3, AddressFacts DEF Balances
  <1> HIDE DEF b0
  <1>6. bal' \in Balances /\ \A z \in Addresses : bal'[z] >= bal[z]
    <2>1. bal' \in Balances /\ \A z \in Addresses : bal'[z] >= b0[z]
      BY <1>2, <1>4, <1>5, PayFeesFacts
    <2> QED  BY <1>1, <1>5, <2>1, RisesTwice
  <1>7. backlog' \in Nat
    BY <1>2, <1>4, GrowNat DEF Inv, TypeOK
  <1>8. history' \in History /\ history'.born = history.born
    <2> DEFINE w == Grow(history.work, work)
    <2>1. history \in History /\ history.work \in Nat
      BY HistoryFields DEF Inv, TypeOK
    <2>2. w \in Nat
      BY Zenon, <1>2, <2>1, GrowNat
    <2>3. history' = [history EXCEPT !.work = w]
      BY <1>4
    <2> HIDE DEF w
    <2> QED  BY <2>1, <2>2, <2>3 DEF History
  <1>9. TypeOK'
    BY <1>4, <1>6, <1>7, <1>8 DEF Inv, TypeOK, Balances
  <1>10. EscrowCoversCallvalue' /\ DeadKept
    <2>1. \A t \in Tickets : bal'[Escrow[t]] >= bal[Escrow[t]]
      BY <1>6, AddressFacts
    <2>2. \A t \in Tickets : ~InFlight(t)
      BY <1>1 DEF InFlight
    <2> QED  BY <1>4, <1>9, <2>1, <2>2, EscrowsKept DEF Live, DeadKept
  <1>11. NoFatalTransfer' /\ GasBounded' /\ PendingBorn'
    BY <1>4 DEF Inv, NoFatalTransfer, GasBounded, PendingBorn, NoTx
  <1> QED  BY <1>4, <1>9, <1>10, <1>11, StorageFrame DEF Inv

-----------------------------------------------------------------------------
\* A call of a body keeps the transaction it belongs to.
LEMMA BodyCallFacts ==
    ASSUME Inv, NEW cost \in Nat, NEW donation \in Nat, donation <= cost,
           BodyCall(cost, donation)
    PROVE  /\ tx' \in {NoTx} \cup UserTx \cup RetryTx
           /\ GasBounded'
           /\ \A t : InFlight(t)' <=> InFlight(t)
           /\ tx'.kind = tx.kind /\ tx'.donated = tx.donated + donation
           /\ tx.kind = "retry" => tx'.retry = tx.retry
  <1> DEFINE a == tx.gas - cost
             d == tx.donated + donation
  <1>1. /\ tx \in TxType /\ tx # NoTx /\ tx.gas \in Nat /\ tx.donated \in Nat
        /\ tx \in UserTx \cup RetryTx /\ tx.kind \in {"user", "retry"}
        /\ tx.kind = "user" => tx.limit \in Nat /\ tx.gas + tx.donated <= tx.limit
        /\ tx.kind = "retry" => tx.retry.gas \in Nat /\ tx.gas + tx.donated <= tx.retry.gas
    <2>1. tx \in TxType /\ tx # NoTx
      BY InvParts DEF Inv, BodyCall
    <2> QED  BY <2>1, TxKinds, EnvelopeFields DEF Inv, GasBounded, TxType
  <1>2. a \in Nat /\ d \in Nat /\ a + d <= tx.gas + tx.donated
    BY <1>1 DEF BodyCall
  <1>3. tx' = [tx EXCEPT !.gas = a, !.donated = d]
    BY DEF BodyCall
  <1> HIDE DEF a, d
  <1>4. /\ tx' \in UserTx \cup RetryTx
        /\ tx'.kind = tx.kind /\ tx'.gas = a /\ tx'.donated = d
        /\ tx'.kind = "user" => tx'.limit = tx.limit
        /\ tx'.kind = "retry" => tx'.retry = tx.retry
    <2>1. CASE tx \in UserTx
      BY Zenon, <1>2, <1>3, <2>1 DEF UserTx
    <2>2. CASE tx \in RetryTx
      BY Zenon, <1>2, <1>3, <2>2 DEF RetryTx
    <2> QED  BY <1>1, <2>1, <2>2
  <1>5. GasBounded'
    BY <1>1, <1>2, <1>4 DEF GasBounded
  <1>6. \A t : InFlight(t)' <=> InFlight(t)
    BY <1>4 DEF InFlight
  <1> QED  BY <1>4, <1>5, <1>6 DEF d

\* Send moves money of a user.
LEMMA SendInv ==
    ASSUME Inv, NEW x \in Users, NEW y \in Addresses, NEW a \in Amounts, Send(x, y, a)
    PROVE  Inv' /\ DeadKept
  <1>1. a \in Nat /\ x \in Addresses /\ bal \in Balances /\ bal[x] >= a
    BY Zenon, NumbersAssumption, AddressFacts, InvParts DEF Inv, Send
  <1>2. /\ bal' = Pay(bal, x, y, a) /\ BodyCall(CallGas, 0)
        /\ UNCHANGED <<rec, queue, now, msg, userLeft, scheduled, logs, backlog, pending,
                       zombies, submitted, history>>
    BY DEF Send
  <1>3. bal' \in Balances /\ \A z \in Addresses \ {x} : bal'[z] >= bal[z]
    BY <1>1, <1>2, PayFacts
  <1>4. /\ tx' \in {NoTx} \cup UserTx \cup RetryTx /\ GasBounded'
        /\ \A t : InFlight(t)' <=> InFlight(t)
    BY <1>2, NumberFacts, BodyCallFacts
  <1>5. TypeOK'
    BY <1>2, <1>3, <1>4 DEF Inv, TypeOK, Balances
  <1>6. EscrowCoversCallvalue' /\ DeadKept
    <2>1. \A t \in Tickets : Escrow[t] \in Addresses /\ Escrow[t] # x
      BY Zenon, AddressFacts, EscrowAssumption
    <2> QED  BY Zenon, <1>2, <1>3, <1>4, <1>5, <2>1, EscrowsKept DEF Live, DeadKept
  <1>7. NoFatalTransfer' /\ PendingBorn'
    BY Zenon, <1>2 DEF Inv, NoFatalTransfer, PendingBorn
  <1> QED  BY <1>2, <1>4, <1>5, <1>6, <1>7, StorageFrame DEF Inv

\* A record whose tries, timeout or windows change, the ticket staying live.
LEMMA RecordTouched ==
    ASSUME Inv, TypeOK', NEW t \in Tickets, Live(t), Live(t)', GasBounded',
           \A u \in Tickets \ {t} : rec'[u] = rec[u],
           rec'[t].windowsLeft = 0, rec'[t].from = rec[t].from,
           rec'[t].callvalue = rec[t].callvalue,
           \A u : InFlight(u)' <=> InFlight(u),
           UNCHANGED <<bal, queue, msg, pending, submitted, history>>
    PROVE  Inv'
  <1>1. \A u \in Tickets : Live(u)' <=> Live(u)
    BY DEF Live
  <1>2. RecordsWellFormed'
    BY <1>1 DEF Inv, RecordsWellFormed
  <1>3. EscrowCoversCallvalue'
    <2>1. \A u \in Tickets : bal[Escrow[u]] \in Nat /\ bal'[Escrow[u]] = bal[Escrow[u]]
      BY AddressFacts DEF Inv, TypeOK
    <2>2. \A u \in Tickets : bal'[Escrow[u]] >= bal[Escrow[u]]
      BY <2>1
    <2> QED  BY <1>1, <2>2, EscrowsKept
  <1>4. QueueHoldsLiveTickets' /\ QueueHoldsSubmitted'
    BY <1>1 DEF Inv, QueueHoldsLiveTickets, QueueHoldsSubmitted
  <1>5. NoFatalTransfer' /\ PendingBorn'
    BY DEF Inv, NoFatalTransfer, PendingBorn
  <1> QED  BY <1>2, <1>3, <1>4, <1>5 DEF Inv

\* Redeem counts a try and logs it.
LEMMA RedeemInv ==
    ASSUME Inv, NEW c \in Users, NEW t \in Tickets, NEW d \in 0..tx.gas, Redeem(c, t, d)
    PROVE  Inv'
  <1> DEFINE n == rec[t].numTries + 1
             l == [ticket |-> t, seq |-> rec[t].numTries, gas |-> d, refundTo |-> c,
                   maxRefund |-> MaxU256, submissionFeeRefund |-> 0]
  <1>1. /\ rec \in Records /\ rec[t] \in Record /\ rec[t].numTries \in Nat /\ n \in Nat
        /\ d \in Nat /\ logs \in Seq(RedeemLog) /\ backlog \in Nat /\ c \in Addresses
    <2>1. tx.gas \in Nat
      BY InvParts, TxKinds DEF Inv
    <2> QED  BY <2>1, InvParts, RecordFields, AddressFacts DEF Inv, TypeOK
  <1>2. /\ BodyCall(CallGas + d, d) /\ Live(t) /\ rec' = [rec EXCEPT ![t].numTries = n]
        /\ logs' = Append(logs, l) /\ backlog' = Monus(backlog, d)
        /\ UNCHANGED <<bal, queue, now, msg, userLeft, scheduled, pending, zombies, submitted,
                       history>>
    BY DEF Redeem, Exists
  <1>3. l \in RedeemLog
    BY Zenon, <1>1, NumberFacts DEF RedeemLog
  <1> HIDE DEF n, l
  <1>4. /\ tx' \in {NoTx} \cup UserTx \cup RetryTx /\ GasBounded'
        /\ \A u : InFlight(u)' <=> InFlight(u)
    <2>1. CallGas + d \in Nat /\ d <= CallGas + d
      BY <1>1, NumberFacts
    <2> QED  BY <1>2, <2>1, BodyCallFacts
  <1>5. rec' \in Records /\ \A u \in Tickets \ {t} : rec'[u] = rec[u]
    <2>1. [rec[t] EXCEPT !.numTries = n] \in Record
      BY Zenon, <1>1 DEF Record
    <2> QED  BY <1>1, <1>2, <2>1 DEF Records
  <1>6. /\ rec'[t].windowsLeft = rec[t].windowsLeft /\ rec'[t].from = rec[t].from
        /\ rec'[t].callvalue = rec[t].callvalue /\ rec'[t].timeout = rec[t].timeout
    <2>1. rec'[t] = [rec[t] EXCEPT !.numTries = n]
      BY <1>1, <1>2 DEF Records
    <2> QED  BY <2>1 DEF Record
  <1>7. TypeOK'
    <2>1. logs' \in Seq(RedeemLog) /\ backlog' \in Nat
      BY <1>1, <1>2, <1>3, LesserFacts
    <2> QED  BY <1>2, <1>4, <1>5, <2>1 DEF Inv, TypeOK, Records
  <1>8. rec[t].windowsLeft = 0 /\ Live(t)'
    BY <1>2 DEF Inv, RecordsWellFormed, Live
  <1> QED  BY <1>2, <1>4, <1>7, <1>8, RecordTouched

\* Keepalive extends the timeout of a ticket that has one.
LEMMA KeepaliveInv ==
    ASSUME Inv, NEW t \in Tickets, Keepalive(t)
    PROVE  Inv'
  <1> DEFINE end == TimeoutWithWindows(t) + Lifetime
  <1>1. /\ rec \in Records /\ rec[t] \in Record /\ rec[t].timeout \in Nat
        /\ rec[t].windowsLeft = 0
    BY Zenon, InvParts, RecordFields DEF Inv, RecordsWellFormed
  <1>2. TimeoutWithWindows(t) = rec[t].timeout
    <2>1. 0 * Lifetime = 0
      BY NumberFacts
    <2> QED  BY <1>1, <2>1 DEF TimeoutWithWindows
  <1>3. end \in Nat /\ end # 0 /\ Live(t)
    BY <1>1, <1>2, NumberFacts DEF Keepalive, Live
  <1>4. /\ BodyCall(CallGas, 0)
        /\ rec' = [rec EXCEPT ![t].timeout = end, ![t].windowsLeft = 0]
        /\ UNCHANGED <<bal, queue, now, msg, userLeft, scheduled, logs, backlog, pending,
                       zombies, submitted, history>>
    BY DEF Keepalive
  <1> HIDE DEF end
  <1>5. /\ tx' \in {NoTx} \cup UserTx \cup RetryTx /\ GasBounded'
        /\ \A u : InFlight(u)' <=> InFlight(u)
    BY <1>4, NumberFacts, BodyCallFacts
  <1>6. /\ rec'[t] = [rec[t] EXCEPT !.timeout = end, !.windowsLeft = 0]
        /\ \A u \in Tickets \ {t} : rec'[u] = rec[u]
    BY <1>1, <1>4 DEF Records
  <1>7. /\ rec'[t] \in Record /\ rec'[t].windowsLeft = 0 /\ rec'[t].from = rec[t].from
        /\ rec'[t].callvalue = rec[t].callvalue /\ rec'[t].timeout = end
    BY Zenon, <1>1, <1>3, <1>6 DEF Record
  <1>8. rec' \in Records
    BY <1>1, <1>4, <1>7 DEF Records
  <1>9. TypeOK'
    BY <1>4, <1>5, <1>8 DEF Inv, TypeOK, Records
  <1>10. Live(t)'
    BY <1>3, <1>7 DEF Live
  <1> QED  BY Zenon, <1>3, <1>4, <1>5, <1>6, <1>7, <1>9, <1>10, RecordTouched

\* delete_retryable, of a live or a dead ticket, with balances b in which no other escrow
\* has less than before.
LEMMA TicketDeleted ==
    ASSUME Inv, NEW b \in Balances, NEW t \in Tickets,
           \A u \in Tickets \ {t} : b[Escrow[u]] >= bal[Escrow[u]],
           rec' = DeleteRetryable(Store(b), t).rec,
           bal' = DeleteRetryable(Store(b), t).bal,
           queue' = queue, submitted' = submitted
    PROVE  /\ rec' \in Records /\ bal' \in Balances
           /\ RecordsWellFormed' /\ QueueHoldsLiveTickets' /\ QueueHoldsSubmitted'
           /\ ~Live(t)'
           /\ \A u \in Tickets \ {t} : /\ rec'[u] = rec[u]
                                       /\ bal'[Escrow[u]] >= bal[Escrow[u]]
           /\ ~Live(t) => bal' = b
           /\ \A z \in FeeAccounts : bal'[z] >= b[z]
  <1>1. /\ Store(b) = Stored(rec, b, queue) /\ rec \in Records /\ bal \in Balances
        /\ \A u \in Tickets : Escrow[u] \in Addresses
    BY Zenon, InvParts, AddressFacts DEF Store, Stored, Inv
  <1>2. CASE rec[t].timeout = 0
    <2>1. DeleteRetryable(Store(b), t) = Stored(rec, b, queue)
      BY <1>1, <1>2, StoredFields DEF DeleteRetryable
    <2>2. rec' = rec /\ bal' = b
      BY <2>1, StoredFields
    <2>3. \A z \in FeeAccounts : b[z] \in Nat
      BY AddressFacts DEF FeeAccounts, Balances
    <2> QED  BY <1>1, <1>2, <2>2, <2>3, StorageFrame DEF Live
  <1>3. CASE rec[t].timeout # 0
    <2> DEFINE r2 == Cleared(rec, t)
    <2>1. PICK b2 \in Balances :
             /\ DeleteRetryable(Stored(rec, b, queue), t) = Stored(r2, b2, queue)
             /\ r2 \in Records
             /\ \A u \in Tickets \ {t} : b2[Escrow[u]] >= b[Escrow[u]]
             /\ Removes(rec, b, r2, b2)
      BY Zenon, <1>1, <1>3, DeleteFacts
    <2>2. r2[t] = EmptyRecord /\ \A u \in Tickets \ {t} : r2[u] = rec[u]
      BY Zenon, <1>1 DEF Records, Cleared
    <2> HIDE DEF r2
    <2>3. rec' = r2 /\ bal' = b2
      BY <1>1, <2>1, StoredFields
    <2>4. ~Live(t)' /\ \A u \in Tickets \ {t} : Live(u)' <=> Live(u)
      BY <2>2, <2>3, EmptyRecordFacts DEF Live
    <2>5. RecordsWellFormed'
      BY Zenon, <2>2, <2>3, <2>4, EmptyRecordFacts DEF Inv, RecordsWellFormed
    <2>6. QueueHoldsLiveTickets' /\ QueueHoldsSubmitted'
      BY <2>4 DEF Inv, QueueHoldsLiveTickets, QueueHoldsSubmitted
    <2>7. \A u \in Tickets \ {t} : bal'[Escrow[u]] >= bal[Escrow[u]]
      BY Zenon, <1>1, <2>1, <2>3, RisesTwice
    <2>8. \A z \in FeeAccounts : bal'[z] >= b[z]
      BY <2>1, <2>3 DEF Removes
    <2> QED  BY <1>3, <2>1, <2>2, <2>3, <2>4, <2>5, <2>6, <2>7, <2>8 DEF Live
  <1> QED  BY Zenon, <1>2, <1>3

\* Cancel deletes a ticket for its beneficiary.
LEMMA CancelInv ==
    ASSUME Inv, NEW c \in Users, NEW t \in Tickets, Cancel(c, t)
    PROVE  Inv' /\ DeadKept
  <1>1. /\ rec' = DeleteRetryable(Store(bal), t).rec
        /\ bal' = DeleteRetryable(Store(bal), t).bal
        /\ BodyCall(CallGas, 0) /\ Live(t)
        /\ UNCHANGED <<queue, now, msg, userLeft, scheduled, logs, backlog, pending, zombies,
                       submitted, history>>
    BY DEF Cancel
  <1>2. bal \in Balances /\ \A u \in Tickets \ {t} : bal[Escrow[u]] >= bal[Escrow[u]]
    <2>1. bal \in Balances
      BY InvParts DEF Inv
    <2>2. \A u \in Tickets : bal[Escrow[u]] \in Nat
      BY <2>1, AddressFacts DEF Balances
    <2> QED  BY <2>1, <2>2
  <1>3. /\ rec' \in Records /\ bal' \in Balances
        /\ RecordsWellFormed' /\ QueueHoldsLiveTickets' /\ QueueHoldsSubmitted'
        /\ ~Live(t)'
        /\ \A u \in Tickets \ {t} : /\ rec'[u] = rec[u]
                                    /\ bal'[Escrow[u]] >= bal[Escrow[u]]
    BY Zenon, <1>1, <1>2, TicketDeleted
  <1>4. /\ tx' \in {NoTx} \cup UserTx \cup RetryTx /\ GasBounded'
        /\ \A u : InFlight(u)' <=> InFlight(u)
    BY <1>1, NumberFacts, BodyCallFacts
  <1>5. TypeOK'
    BY Zenon, <1>1, <1>3, <1>4 DEF Inv, TypeOK, Balances, Records
  <1>6. EscrowCoversCallvalue'
    BY Zenon, <1>3, <1>4, <1>5, EscrowsKept DEF Live
  <1>7. NoFatalTransfer' /\ PendingBorn'
    BY Zenon, <1>1 DEF Inv, NoFatalTransfer, PendingBorn
  <1>8. DeadKept
    BY Zenon, <1>1, <1>3 DEF DeadKept
  <1> QED  BY <1>3, <1>4, <1>5, <1>6, <1>7, <1>8 DEF Inv

-----------------------------------------------------------------------------
(* Retry transactions.                                                     *)

\* The retry at the front, when its turn has come.
LEMMA FrontRetry ==
    ASSUME Inv, RetryTurn
    PROVE  /\ Head(scheduled) \in Envelope /\ Tail(scheduled) \in Seq(Envelope)
           /\ tx = NoTx /\ \A t : ~InFlight(t)
           /\ RetryError(Head(scheduled)) # "retry_callvalue"
  <1>1. scheduled \in Seq(Envelope) /\ scheduled # << >> /\ tx = NoTx
    BY DEF Inv, TypeOK, RetryTurn
  <1> DEFINE r == Head(scheduled)
  <1>2. r \in Envelope /\ Tail(scheduled) \in Seq(Envelope)
    BY <1>1
  <1>3. \A t : ~InFlight(t)
    BY <1>1 DEF InFlight, NoTx
  <1> HIDE DEF r
  <1>4. r.ticket \in Tickets
    BY <1>2, EnvelopeFields
  <1>5. Live(r.ticket) => bal[Escrow[r.ticket]] >= rec[r.ticket].callvalue
    BY <1>3, <1>4 DEF Inv, EscrowCoversCallvalue
  <1>6. bal[Escrow[r.ticket]] \in Nat /\ rec[r.ticket].callvalue \in Nat
    BY <1>4, AddressFacts, RecordFields, InvParts DEF Inv, Balances
  <1>7. RetryError(r) # "retry_callvalue"
    BY <1>5, <1>6 DEF RetryError, Exists
  <1> QED  BY <1>1, <1>2, <1>3, <1>7 DEF r

\* AbortOnRetry never reports a failed callvalue transfer.
LEMMA AbortOnRetryInv ==
    ASSUME Inv, AbortOnRetry
    PROVE  Inv'
  <1>1. RetryError(Head(scheduled)) \in {"retry_invalid", "retry_not_found"}
    BY FrontRetry DEF AbortOnRetry, RetryError
  <1> QED  BY <1>1, MessageFrame DEF AbortOnRetry, Abort

\* The callvalue of a retry that may start is there to be moved to its sender.
LEMMA CallvalueFacts ==
    ASSUME Inv, RetryTurn, RetryError(Head(scheduled)) = "none"
    PROVE  LET r == Head(scheduled)
               b == CallvalueMoved(r)
               v == rec[r.ticket].callvalue
           IN  /\ b \in Balances /\ v \in Nat
               /\ r.gas - r.intrinsic \in Nat
               /\ b[r.from] >= v
               /\ b[Escrow[r.ticket]] = bal[Escrow[r.ticket]] - v
               /\ bal[Escrow[r.ticket]] >= v
               /\ \A u \in Tickets \ {r.ticket} : b[Escrow[u]] >= bal[Escrow[u]]
               /\ Live(r.ticket)
               /\ \A z \in FeeAccounts : b[z] >= bal[z]
  <1> DEFINE r == Head(scheduled)
             e == Escrow[r.ticket]
             v == rec[r.ticket].callvalue
             b == CallvalueMoved(r)
  <1>1. r \in Envelope
    BY FrontRetry
  <1> HIDE DEF r
  <1>2. /\ r.ticket \in Tickets /\ r.from \in Addresses /\ r.from # e /\ e \in Addresses
        /\ r.gas \in Nat /\ r.intrinsic \in Nat
    BY <1>1, EnvelopeFields, AddressFacts
  <1>3. bal \in Balances /\ bal[e] \in Nat /\ v \in Nat /\ bal[r.from] \in Nat
    BY <1>2, InvParts, RecordFields DEF Inv, Balances
  <1>4. ~(r.gas < r.intrinsic) /\ Live(r.ticket) /\ ~(bal[e] < v)
    <2>1. RetryError(r) = "none"
      BY DEF r
    <2> QED  BY <2>1 DEF RetryError, Exists
  <1>5. bal[e] >= v /\ r.gas - r.intrinsic \in Nat
    BY <1>2, <1>3, <1>4
  <1> HIDE DEF e, v
  <1>6. b = Pay(bal, e, r.from, v)
    BY DEF CallvalueMoved, e, v
  <1> HIDE DEF b
  <1>7. /\ b \in Balances /\ b[e] = bal[e] - v /\ b[r.from] = bal[r.from] + v
        /\ \A z \in Addresses \ {e} : b[z] >= bal[z]
    BY <1>2, <1>3, <1>5, <1>6, PayFacts
  <1>8. \A u \in Tickets \ {r.ticket} : b[Escrow[u]] >= bal[Escrow[u]]
    BY <1>2, <1>7, AddressFacts, EscrowAssumption DEF e
  <1>9. b[r.from] >= v
    BY <1>3, <1>7
  <1>10. \A z \in FeeAccounts : b[z] >= bal[z]
    BY <1>2, <1>7, AddressFacts, EscrowAssumption DEF FeeAccounts, e
  <1> QED  BY <1>3, <1>4, <1>5, <1>7, <1>8, <1>9, <1>10 DEF r, e, v, b

\* BeginRetry takes the callvalue from the escrow of the retry's ticket alone.
LEMMA BeginRetryInv ==
    ASSUME Inv, BeginRetry
    PROVE  Inv' /\ DeadKept
  <1> DEFINE r == Head(scheduled)
             b == CallvalueMoved(r)
             g == r.gas - r.intrinsic
  <1>1. /\ RetryTurn /\ RetryError(r) = "none" /\ b[r.from] >= r.value
        /\ bal' = Pay(b, r.from, r.to, r.value)
        /\ tx' = [kind |-> "retry", retry |-> r, limit |-> r.gas, gas |-> g, donated |-> 0]
        /\ scheduled' = Tail(scheduled)
        /\ UNCHANGED <<rec, queue, now, msg, userLeft, logs, backlog, pending, zombies,
                       submitted, history>>
    BY DEF BeginRetry
  <1>2. r \in Envelope /\ scheduled' \in Seq(Envelope) /\ \A t : ~InFlight(t)
    BY <1>1, FrontRetry
  <1>3. /\ b \in Balances /\ g \in Nat
        /\ \A u \in Tickets \ {r.ticket} : b[Escrow[u]] >= bal[Escrow[u]]
        /\ Live(r.ticket)
    BY <1>1, CallvalueFacts
  <1> HIDE DEF r, b
  <1>4. /\ r.ticket \in Tickets /\ r.from \in Addresses /\ r.to \in Addresses
        /\ r.value \in Nat /\ r.gas \in Nat /\ r.intrinsic \in Nat
        /\ \A u \in Tickets : r.from # Escrow[u] /\ Escrow[u] \in Addresses
    BY <1>2, EnvelopeFields, AddressFacts
  <1>5. bal' \in Balances /\ \A z \in Addresses \ {r.from} : bal'[z] >= b[z]
    BY <1>1, <1>3, <1>4, PayFacts
  <1>6. g <= r.gas
    BY <1>4
  <1> HIDE DEF g
  <1>7. /\ tx' \in RetryTx /\ tx'.kind = "retry" /\ tx'.retry = r
        /\ tx'.gas + tx'.donated <= tx'.retry.gas
    BY <1>1, <1>2, <1>3, <1>4, <1>6 DEF RetryTx
  <1>8. TypeOK'
    BY <1>1, <1>2, <1>5, <1>7 DEF Inv, TypeOK, Balances
  <1>9. EscrowCoversCallvalue' /\ DeadKept
    <2>1. \A u \in Tickets \ {r.ticket} : bal'[Escrow[u]] >= bal[Escrow[u]]
      <3> TAKE u \in Tickets \ {r.ticket}
      <3>1. b[Escrow[u]] >= bal[Escrow[u]] /\ bal'[Escrow[u]] >= b[Escrow[u]]
        BY <1>3, <1>4, <1>5
      <3>2. bal \in Balances
        BY InvParts DEF Inv
      <3> QED  BY <1>3, <1>4, <1>5, <3>1, <3>2, RisesTwice
    <2>2. \A u \in Tickets : ~InFlight(u)' => u # r.ticket
      BY Zenon, <1>7 DEF InFlight
    <2>3. EscrowCoversCallvalue'
      BY <1>1, <1>2, <1>8, <2>1, <2>2, EscrowsKept DEF Live
    <2> QED  BY <1>3, <2>1, <2>3 DEF DeadKept
  <1>10. NoFatalTransfer' /\ PendingBorn'
    BY <1>1 DEF Inv, NoFatalTransfer, PendingBorn
  <1>11. GasBounded'
    BY <1>7 DEF GasBounded
  <1> QED  BY <1>1, <1>8, <1>9, <1>10, <1>11, StorageFrame DEF Inv

\* The history of refunds keeps its type.
LEMMA RefundedFacts ==
    ASSUME Inv, NEW r \in Envelope, NEW f \in Nat, NEW h \in Nat, NEW b, NEW g,
           NEW donated \in Nat, NEW left \in Nat, left + donated <= r.gas
    PROVE  /\ Refunded(Refunding(b, g, f, h), r, donated, left) \in History
           /\ Refunded(Refunding(b, g, f, h), r, donated, left).born = history.born
  <1> DEFINE t == r.ticket
             x == history.refunded[t] + IF r.maxRefund = MaxU256 THEN 0 ELSE f
             y == history.short + h
             n == r.gas - left - donated
             w == Grow(history.work, n)
             st == Refunding(b, g, f, h)
             h2 == [history EXCEPT !.refunded[t] = x, !.short = y, !.work = w]
  <1>1. /\ t \in Tickets /\ history \in History /\ history.refunded[t] \in Nat
        /\ history.short \in Nat /\ history.work \in Nat /\ n \in Nat
    BY EnvelopeFields, HistoryFields DEF Inv, TypeOK
  <1>2. x \in Nat /\ y \in Nat
    BY <1>1
  <1> HIDE DEF n
  <1>3. w \in Nat
    BY Zenon, <1>1, GrowNat
  <1>4. Refunded(st, r, donated, left) = h2
    <2>1. st.refunded = f /\ st.short = h
      BY RefundingFields
    <2> HIDE DEF st
    <2> QED  BY <2>1, Zenon DEF Refunded, n
  <1> HIDE DEF x, y, w, t, st
  <1>5. h2 \in History /\ h2.born = history.born
    BY Zenon, <1>1, <1>2, <1>3 DEF History
  <1> HIDE DEF h2
  <1> QED  BY <1>4, <1>5 DEF st

\* EndRetry pays the refunds from the fee accounts and deletes the ticket.
LEMMA EndRetryInv ==
    ASSUME Inv, NEW left \in 0..tx.gas, EndRetry(left)
    PROVE  Inv' /\ DeadKept
  <1> DEFINE r == tx.retry
             t == r.ticket
             st == RetryRefunds(bal, r, TRUE, left)
             used == r.gas - left
  <1>1. /\ tx.kind = "retry" /\ r \in Envelope /\ tx.gas \in Nat /\ tx.donated \in Nat
        /\ tx.gas + tx.donated <= r.gas /\ bal \in Balances
    BY InvParts, TxKinds DEF Inv, EndRetry, GasBounded
  <1> HIDE DEF r
  <1>2. /\ t \in Tickets /\ r.gas \in Nat
        /\ \A u \in Tickets : Escrow[u] \in Addresses /\ Escrow[u] \notin FeeAccounts
    BY Zenon, <1>1, EnvelopeFields, AddressFacts, EscrowAssumption
  <1>3. left \in Nat /\ left <= r.gas /\ left + tx.donated <= r.gas /\ used \in Nat
    BY <1>1, <1>2
  <1>4. PICK b \in Balances, g \in Nat, f \in Nat, h \in Nat :
           /\ st = Refunding(b, g, f, h)
           /\ \A z \in Addresses \ FeeAccounts : b[z] >= bal[z]
    <2>1. PaidBy(st, bal, FeeAccounts, r.maxRefund)
      BY Zenon, <1>1, <1>3, RefundsFacts
    <2> QED  BY Zenon, <2>1 DEF PaidBy
  <1> HIDE DEF st, used
  <1>5. st.bal = b
    BY <1>4, RefundingFields
  <1>6. /\ rec' = DeleteRetryable(Store(b), t).rec
        /\ bal' = DeleteRetryable(Store(b), t).bal
        /\ backlog' = Grow(backlog, used)
        /\ zombies' \subseteq zombies \cup {t}
        /\ history' = Refunded(st, r, tx.donated, left)
        /\ tx' = NoTx
        /\ UNCHANGED <<queue, now, msg, userLeft, scheduled, logs, pending, submitted>>
    BY Zenon, <1>5 DEF EndRetry, r, st, used
  <1>7. \A u \in Tickets : b[Escrow[u]] >= bal[Escrow[u]]
    BY Zenon, <1>2, <1>4
  <1> HIDE DEF t
  <1>8. /\ rec' \in Records /\ bal' \in Balances
        /\ RecordsWellFormed' /\ QueueHoldsLiveTickets' /\ QueueHoldsSubmitted'
        /\ rec'[t].timeout = 0
        /\ rec[t].timeout = 0 => bal' = b
        /\ \A u \in Tickets \ {t} : /\ rec'[u] = rec[u]
                                    /\ bal'[Escrow[u]] >= bal[Escrow[u]]
    <2>1. ASSUME NEW k \in Tickets, k = t PROVE
             /\ rec' \in Records /\ bal' \in Balances
             /\ RecordsWellFormed' /\ QueueHoldsLiveTickets' /\ QueueHoldsSubmitted'
             /\ ~Live(k)' /\ (~Live(k) => bal' = b)
             /\ \A u \in Tickets \ {k} : /\ rec'[u] = rec[u]
                                         /\ bal'[Escrow[u]] >= bal[Escrow[u]]
      BY Zenon, <1>4, <1>6, <1>7, <2>1, TicketDeleted
    <2> QED  BY Zenon, <1>2, <2>1 DEF Live
  <1>9. history' \in History /\ history'.born = history.born
    <2>1. history' = Refunded(Refunding(b, g, f, h), r, tx.donated, left)
      BY Zenon, <1>4, <1>6
    <2>2. /\ Refunded(Refunding(b, g, f, h), r, tx.donated, left) \in History
          /\ Refunded(Refunding(b, g, f, h), r, tx.donated, left).born = history.born
      BY <1>1, <1>3, RefundedFacts
    <2> QED  BY Zenon, <2>1, <2>2
  <1>10. TypeOK'
    <2>1. backlog' \in Nat
      BY Zenon, <1>3, <1>6, GrowNat DEF Inv, TypeOK
    <2> QED  BY Zenon, <1>2, <1>6, <1>8, <1>9, <2>1 DEF Inv, TypeOK, Balances, Records
  <1>11. EscrowCoversCallvalue'
    <2>1. \A u \in Tickets \ {t} : ~InFlight(u)
      BY DEF InFlight, t, r
    <2> QED  BY <1>8, <1>10, <2>1, EscrowsKept DEF Live
  <1>12. NoFatalTransfer' /\ GasBounded' /\ PendingBorn'
    BY <1>6, <1>9 DEF Inv, NoFatalTransfer, GasBounded, PendingBorn, NoTx
  <1>13. DeadKept
    BY <1>7, <1>8 DEF DeadKept, Live
  <1> QED  BY Zenon, <1>8, <1>10, <1>11, <1>12, <1>13 DEF Inv

\* RetryFails always finds the callvalue with the sender and returns it to the escrow.
LEMMA RetryFailsInv ==
    ASSUME Inv, RetryTurn, NEW left \in 0..Head(scheduled).gas, RetryFails(left)
    PROVE  Inv' /\ DeadKept
  <1> DEFINE r == Head(scheduled)
             t == r.ticket
             e == Escrow[t]
             v == rec[t].callvalue
             c == CallvalueMoved(r)
             st == RetryRefunds(c, r, FALSE, left)
             used == r.gas - left
  <1>1. /\ r \in Envelope /\ Tail(scheduled) \in Seq(Envelope) /\ tx = NoTx
        /\ \A u : ~InFlight(u)
    BY Zenon, FrontRetry
  <1>2. /\ c \in Balances /\ v \in Nat /\ c[r.from] >= v /\ c[e] = bal[e] - v
        /\ \A u \in Tickets \ {t} : c[Escrow[u]] >= bal[Escrow[u]]
    <2>1. RetryError(r) = "none"
      BY DEF RetryFails
    <2> QED  BY Zenon, <2>1, CallvalueFacts
  <1> HIDE DEF r, c
  <1>3. /\ t \in Tickets /\ r.gas \in Nat /\ r.from \in Addresses /\ r.from \notin FeeAccounts
        /\ \A u \in Tickets : /\ Escrow[u] \in Addresses /\ Escrow[u] \notin FeeAccounts
                              /\ Escrow[u] # r.from
        /\ bal \in Balances
    BY <1>1, EnvelopeFields, AddressFacts, EscrowAssumption, InvParts DEF Inv
  <1>4. left \in Nat /\ left <= r.gas /\ used \in Nat
    BY <1>3 DEF r
  <1>5. PICK b \in Balances, g \in Nat, f \in Nat, h \in Nat :
           /\ st = Refunding(b, g, f, h)
           /\ \A z \in Addresses \ FeeAccounts : b[z] >= c[z]
    <2>1. PaidBy(st, c, FeeAccounts, r.maxRefund)
      BY Zenon, <1>1, <1>2, <1>4, RefundsFacts
    <2> QED  BY Zenon, <2>1 DEF PaidBy
  <1> HIDE DEF st, used, v
  <1>6. st.bal = b
    BY <1>5, RefundingFields
  <1>7. b[r.from] >= v
    <2>1. b[r.from] >= c[r.from] /\ b[r.from] \in Nat /\ c[r.from] \in Nat
      BY <1>2, <1>3, <1>5 DEF Balances
    <2> QED  BY <1>2, <2>1
  <1>8. /\ bal' = Pay(b, r.from, e, v)
        /\ backlog' = Grow(backlog, used)
        /\ history' = Refunded(st, r, 0, left)
        /\ scheduled' = Tail(scheduled)
        /\ UNCHANGED <<rec, queue, now, msg, userLeft, tx, logs, pending, zombies,
                       submitted>>
    <2>1. ~(b[r.from] < v)
      BY <1>2, <1>3, <1>7 DEF Balances
    <2> QED  BY Zenon, <1>6, <2>1 DEF RetryFails, r, c, st, used, v
  <1>9. /\ bal' \in Balances /\ bal'[e] = b[e] + v
        /\ \A z \in Addresses \ {r.from} : bal'[z] >= b[z]
    BY <1>2, <1>3, <1>5, <1>7, <1>8, PayFacts
  <1>10. history' \in History /\ history'.born = history.born
    <2>1. left + 0 <= r.gas
      BY <1>3, <1>4
    <2> QED  BY <1>1, <1>4, <1>5, <1>8, <2>1, RefundedFacts
  <1>11. TypeOK'
    <2>1. backlog' \in Nat
      BY Zenon, <1>4, <1>8, GrowNat DEF Inv, TypeOK
    <2> QED  BY Zenon, <1>1, <1>8, <1>9, <1>10, <2>1 DEF Inv, TypeOK, Balances
  <1>12. \A u \in Tickets : bal'[Escrow[u]] >= bal[Escrow[u]]
    <2> TAKE u \in Tickets
    <2>1. CASE u = t
      <3>1. b[e] >= c[e] /\ b[e] \in Nat /\ c[e] \in Nat /\ bal[e] \in Nat
        BY <1>2, <1>3, <1>5 DEF Balances
      <3> QED  BY <1>2, <1>9, <2>1, <3>1
    <2>2. CASE u # t
      <3>1. /\ c[Escrow[u]] >= bal[Escrow[u]] /\ b[Escrow[u]] >= c[Escrow[u]]
            /\ bal'[Escrow[u]] >= b[Escrow[u]]
        BY <1>2, <1>3, <1>5, <1>9, <2>2
      <3>2. b[Escrow[u]] >= bal[Escrow[u]]
        BY <1>2, <1>3, <1>5, <3>1, RisesTwice
      <3> QED  BY <1>3, <1>5, <1>9, <3>1, <3>2, RisesTwice
    <2> QED  BY <2>1, <2>2
  <1>13. EscrowCoversCallvalue'
    BY <1>1, <1>8, <1>11, <1>12, EscrowsKept DEF Live, InFlight
  <1>14. NoFatalTransfer' /\ GasBounded' /\ PendingBorn'
    BY <1>8, <1>10 DEF Inv, NoFatalTransfer, GasBounded, PendingBorn
  <1>15. DeadKept
    BY <1>12 DEF DeadKept
  <1> QED  BY <1>8, <1>11, <1>13, <1>14, <1>15, StorageFrame DEF Inv

\* Every step keeps the invariant, and no escrow of a dead ticket loses money.
LEMMA NextInv == Inv /\ [Next]_vars => Inv' /\ DeadKept
  <1> SUFFICES ASSUME Inv, [Next]_vars PROVE Inv' /\ DeadKept
    OBVIOUS
  <1>1. ASSUME NEW time \in 0..MaxTime, StartBlock(time) PROVE Inv' /\ DeadKept
    BY <1>1, StartBlockInv
  <1>2. CASE Body
    <2>1. ASSUME NEW x \in Users, NEW y \in Recipients, NEW a \in Amounts, Send(x, y, a)
          PROVE  Inv' /\ DeadKept
      BY <2>1, AddressFacts, SendInv DEF Recipients
    <2>2. ASSUME NEW c \in Users, NEW t \in Tickets, NEW d \in 0..tx.gas, Redeem(c, t, d)
          PROVE  Inv' /\ DeadKept
      BY Zenon, <2>2, RedeemInv, BalancesFrame DEF Redeem
    <2>3. ASSUME NEW t \in Tickets, Keepalive(t) PROVE Inv' /\ DeadKept
      BY Zenon, <2>3, KeepaliveInv, BalancesFrame DEF Keepalive
    <2> QED  BY <1>2, <2>1, <2>2, <2>3, CancelInv DEF Body
  <1>3. CASE Step
    <2>1. ASSUME NEW u \in Users, NEW y \in Recipients \cup {FilteredFundsRecipient},
                 NEW a \in Amounts, Deposit(u, y, a)
          PROVE  Inv' /\ DeadKept
      BY <2>1, AddressFacts, DepositInv DEF Recipients
    <2>2. ASSUME NEW u \in Users, NEW g \in GasLimits, RejectUserTx(u, g)
          PROVE  Inv' /\ DeadKept
      BY <2>2, MessageFrame, BalancesFrame DEF RejectUserTx, Abort
    <2>3. CASE ScheduleRetry
      BY <2>3, ScheduleRetryInv, BalancesFrame DEF ScheduleRetry
    <2>4. CASE EndMessage
      BY <2>4, EndMessageInv, BalancesFrame DEF EndMessage
    <2>5. CASE SkipUnsupported
      BY <2>5, SkipUnsupportedInv, BalancesFrame DEF SkipUnsupported
    <2>6. CASE AbortOnRetry
      BY <2>6, AbortOnRetryInv, BalancesFrame DEF AbortOnRetry, Abort
    <2> QED
      BY Zenon, <1>3, <2>1, <2>2, <2>3, <2>4, <2>5, <2>6, SubmitRetryableInv, BeginUserTxInv,
         EndUserTxInv, BeginRetryInv, EndRetryInv, RetryFailsInv
      DEF Step
  <1>4. CASE UNCHANGED vars
    <2>1. UNCHANGED <<bal, rec, queue, now, msg, userLeft, scheduled, tx, logs, backlog,
                      pending, zombies, submitted, history>>
      BY <1>4 DEF vars
    <2>2. TypeOK'
      BY <2>1 DEF Inv, TypeOK
    <2>3. EscrowCoversCallvalue' /\ NoFatalTransfer' /\ GasBounded' /\ PendingBorn'
      BY <2>1 DEF Inv, EscrowCoversCallvalue, Live, InFlight, NoFatalTransfer, GasBounded,
                  PendingBorn
    <2> QED  BY <2>1, <2>2, <2>3, StorageFrame, BalancesFrame DEF Inv
  <1> QED  BY <1>1, <1>2, <1>3, <1>4 DEF Next

-----------------------------------------------------------------------------
(* The theorems.                                                           *)

\* The invariant holds in every state of every behaviour.
THEOREM Invariance == Spec => []Inv
  <1>1. Init => Inv
    BY InitInv
  <1>2. Inv /\ [Next]_vars => Inv'
    BY NextInv
  <1> QED  BY <1>1, <1>2, PTL DEF Spec

\* Every variable keeps its type: in particular no balance, timeout or gas counter
\* that the message loop computes ever falls below zero.
THEOREM TypeCorrectness == Spec => []TypeOK
  <1>1. Inv => TypeOK
    BY DEF Inv
  <1> QED  BY <1>1, Invariance, PTL

\* The pre-execution hook of a retry always finds the callvalue of its ticket in escrow.
THEOREM EscrowSolvency == Spec => []EscrowCoversCallvalue
  <1>1. Inv => EscrowCoversCallvalue
    BY DEF Inv
  <1> QED  BY <1>1, Invariance, PTL

\* No transfer of a submission or a retry that would abort the message ever fails.
THEOREM TransfersSucceed == Spec => []NoFatalTransfer
  <1>1. Inv => NoFatalTransfer
    BY DEF Inv
  <1> QED  BY <1>1, Invariance, PTL

\* The reaper can find every live ticket: each is in the timeout queue, once.
THEOREM QueueComplete == Spec => []QueueHoldsLiveTickets
  <1>1. Inv => QueueHoldsLiveTickets
    BY DEF Inv
  <1> QED  BY <1>1, Invariance, PTL

\* Removed tickets leave empty records, and no ticket has an extension window, which the
\* reaper would lose.
THEOREM RecordsStayWellFormed == Spec => []RecordsWellFormed
  <1>1. Inv => RecordsWellFormed
    BY DEF Inv
  <1> QED  BY <1>1, Invariance, PTL

\* Only EndRetry makes zombies, of tickets that the start of the block cleared.
LEMMA ZombieStep == Inv /\ [Next]_vars => zombies' \ zombies \subseteq history.born
  <1> SUFFICES ASSUME Inv, [Next]_vars PROVE zombies' \ zombies \subseteq history.born
    BY Zenon
  <1>1. ASSUME NEW left \in 0..tx.gas, EndRetry(left)
        PROVE  zombies' \ zombies \subseteq history.born
    BY <1>1 DEF EndRetry, Inv, PendingBorn
  <1>2. ASSUME NEW s \in Submissions, SubmitRetryable(s) PROVE zombies' = zombies
    BY <1>2 DEF SubmitRetryable, Abort
  <1>3. ASSUME NEW left \in 0..Head(scheduled).gas, RetryFails(left) PROVE zombies' = zombies
    BY Zenon, <1>3 DEF RetryFails, Abort
  <1>4. CASE Body
    BY Zenon, <1>4 DEF Body, Send, Redeem, Keepalive, Cancel
  <1>5. CASE Step
    BY Zenon, <1>1, <1>2, <1>3, <1>5
    DEF Step, ScheduleRetry, EndMessage, SkipUnsupported, Deposit, BeginUserTx, RejectUserTx,
        EndUserTx, AbortOnRetry, BeginRetry, Abort
  <1>6. CASE UNCHANGED vars
    BY <1>6 DEF vars
  <1>7. CASE \E time \in 0..MaxTime : StartBlock(time)
    BY <1>7 DEF StartBlock
  <1> QED  BY <1>4, <1>5, <1>6, <1>7 DEF Next

\* An escrow is resurrected as an empty account only in the block that submitted its ticket.
THEOREM ZombieScope == Spec => ZombiesOnlyInSubmitBlock
  <1>1. Inv /\ [Next]_vars => [zombies' \ zombies \subseteq history.born]_vars
    BY ZombieStep
  <1> QED  BY <1>1, Invariance, PTL DEF Spec, ZombiesOnlyInSubmitBlock

\* While no body runs, a live ticket that has not expired stays live.
LEMMA ReapStep ==
    Inv /\ [Next]_vars =>
      \A t \in Tickets :
         tx.kind = "none" /\ Live(t) /\ rec[t].timeout >= now' => Live(t)'
  <1> SUFFICES ASSUME Inv, [Next]_vars, NEW t \in Tickets, tx.kind = "none", Live(t),
                      rec[t].timeout >= now'
               PROVE  Live(t)'
    OBVIOUS
  <1>0. tx = NoTx
    BY InvParts, TxKinds DEF Inv, TxType, UserTx, RetryTx
  <1>1. ASSUME NEW time \in 0..MaxTime, StartBlock(time) PROVE Live(t)'
    <2>1. rec'[t] = rec[t]
      BY <1>1, StartBlockInv
    <2> QED  BY <2>1 DEF Live
  <1>2. ASSUME NEW s \in Submissions, SubmitRetryable(s) PROVE Live(t)'
    <2>1. s.ticket \in Tickets /\ s.ticket \notin submitted /\ t \in submitted
      BY <1>2, SubmissionsAssumption, SubmissionFacts
      DEF SubmitRetryable, Inv, RecordsWellFormed
    <2>2. rec' = rec \/ rec' = [rec EXCEPT ![s.ticket] = NewRecord(s)]
      BY <1>2 DEF SubmitRetryable, Abort
    <2> QED  BY <2>1, <2>2, InvParts DEF Inv, Records, Live
  <1>3. ASSUME NEW left \in 0..Head(scheduled).gas, RetryFails(left) PROVE rec' = rec
    BY Zenon, <1>3 DEF RetryFails, Abort
  <1>4. CASE Body
    BY <1>0, <1>4 DEF Body, Send, Redeem, Keepalive, Cancel, BodyCall
  <1>5. CASE Step
    <2>1. ASSUME NEW left \in 0..tx.gas, EndRetry(left) PROVE FALSE
      BY Zenon, <2>1 DEF EndRetry
    <2> QED
      BY Zenon, <1>2, <1>3, <1>5, <2>1
      DEF Step, ScheduleRetry, EndMessage, SkipUnsupported, Deposit, BeginUserTx, RejectUserTx,
          EndUserTx, AbortOnRetry, BeginRetry, Abort, Live
  <1>6. CASE UNCHANGED vars
    BY Zenon, <1>6 DEF vars, Live
  <1> QED  BY <1>1, <1>4, <1>5, <1>6 DEF Next

\* The reaper never takes a ticket that could still be redeemed in the new block.
THEOREM ReaperIsPatient == Spec => ReapOnlyExpired
  <1>1. Inv /\ [Next]_vars =>
          [\A t \in Tickets :
              tx.kind = "none" /\ Live(t) /\ rec[t].timeout >= now' => Live(t)']_vars
    BY ReapStep
  <1> QED  BY <1>1, Invariance, PTL DEF Spec, ReapOnlyExpired

\* The escrow of a ticket that was redeemed, cancelled or reaped is never drawn on, nor
\* is that of a ticket yet to be submitted.
THEOREM DeadEscrowsKept == Spec => DeadTicketsNeverPay
  <1>1. Inv /\ [Next]_vars =>
          [\A t \in Tickets : ~Live(t) => bal'[Escrow[t]] >= bal[Escrow[t]]]_vars
    BY NextInv DEF DeadKept
  <1> QED  BY <1>1, Invariance, PTL DEF Spec, DeadTicketsNeverPay

-----------------------------------------------------------------------------
(* What the invariants of the modules that extend this one also need.      *)

\* The fields of an attempt that proofs use.
LEMMA LogFields ==
    ASSUME NEW x \in RedeemLog
    PROVE  /\ x.ticket \in Tickets /\ x.seq \in Nat /\ x.gas \in Nat
           /\ x.refundTo \in Addresses
           /\ x.maxRefund \in Nat /\ x.submissionFeeRefund \in Nat
  BY DEF RedeemLog

\* new is the history after a retry that refunded f: it counts for its ticket, if the retry is
\* the automatic one.
Counts(new, r, f, h, gas) ==
    /\ new.deposit = history.deposit
    /\ \A u \in Tickets \ {r.ticket} : new.refunded[u] = history.refunded[u]
    /\ new.refunded[r.ticket] = history.refunded[r.ticket]
                                + IF r.maxRefund = MaxU256 THEN 0 ELSE f
    /\ new.short = history.short + h
    /\ new.work = Grow(history.work, gas)

\* The history that EndRetry and RetryFails record is such a history.
LEMMA RefundedCounts ==
    ASSUME Inv, NEW r \in Envelope, NEW f \in Nat, NEW h \in Nat, NEW b, NEW g,
           NEW donated, NEW left
    PROVE  Counts(Refunded(Refunding(b, g, f, h), r, donated, left), r, f, h,
                  r.gas - left - donated)
  <1> DEFINE t == r.ticket
             x == history.refunded[t] + IF r.maxRefund = MaxU256 THEN 0 ELSE f
             y == history.short + h
             n == r.gas - left - donated
             w == Grow(history.work, n)
             st == Refunding(b, g, f, h)
             new == Refunded(st, r, donated, left)
  <1>1. t \in Tickets /\ history \in History
    BY EnvelopeFields DEF Inv, TypeOK
  <1>2. new = [history EXCEPT !.refunded[t] = x, !.short = y, !.work = w]
    <2>1. st.refunded = f /\ st.short = h
      BY RefundingFields
    <2> HIDE DEF st
    <2> QED  BY <2>1, Zenon DEF Refunded
  <1> HIDE DEF x, y, w, t, st, new, n
  <1>3. /\ new.deposit = history.deposit /\ new.short = y /\ new.work = w
        /\ new.refunded = [history.refunded EXCEPT ![t] = x]
    BY <1>1, <1>2 DEF History
  <1>4. history.refunded \in [Tickets -> Nat]
    BY <1>1 DEF History
  <1>5. new.refunded[t] = x /\ \A u \in Tickets \ {t} : new.refunded[u] = history.refunded[u]
    BY <1>1, <1>3, <1>4
  <1>6. Counts(new, r, f, h, n)
    BY <1>3, <1>5 DEF Counts, t, x, y, w
  <1> QED  BY <1>6 DEF new, st, n

=============================================================================
