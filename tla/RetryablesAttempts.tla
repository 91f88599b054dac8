------------------------- MODULE RetryablesAttempts -------------------------
(***************************************************************************)
(* The attempts at a ticket and their refunds, and the gas backlog, for    *)
(* every value of the constants of Retryables.                             *)
(***************************************************************************)
EXTENDS RetryablesProofs

-----------------------------------------------------------------------------
(* Attempts.  An attempt to redeem a ticket is a log of the transaction    *)
(* that just ended, then a scheduled retry, then the running retry.  That  *)
(* scheduled retries agree with their records, and that no refund exceeds  *)
(* the deposit, rest on one invariant about all three: an attempt is       *)
(* outstanding once, its ticket can never be submitted again, its number   *)
(* is below the record's count of tries, and only the attempt the          *)
(* submission itself made, number 0, may refund from the deposit.          *)

Same(x, y) == x.ticket = y.ticket /\ x.seq = y.seq

\* Attempt x is in order for records r, submitted tickets S and history h.
AttemptOK(x, r, S, h) ==
    /\ x.ticket \in S
    /\ r[x.ticket].timeout # 0 => x.seq < r[x.ticket].numTries
    /\ x.maxRefund # MaxU256
       => x.seq = 0 /\ h.refunded[x.ticket] + x.maxRefund <= h.deposit[x.ticket]

\* Envelope x agrees with the record of its ticket, if there is one.
Agrees(x, r) ==
    r[x.ticket].timeout # 0
    => /\ x.from = r[x.ticket].from /\ x.to = r[x.ticket].to
       /\ x.value = r[x.ticket].callvalue /\ x.intrinsic = r[x.ticket].intrinsic

AttemptsInOrder ==
    /\ \A i \in DOMAIN logs : AttemptOK(logs[i], rec, submitted, history)
    /\ \A i \in DOMAIN scheduled : /\ AttemptOK(scheduled[i], rec, submitted, history)
                                   /\ Agrees(scheduled[i], rec)
    /\ tx.kind = "retry" => AttemptOK(tx.retry, rec, submitted, history)

AttemptedOnce ==
    /\ \A i, j \in DOMAIN logs : Same(logs[i], logs[j]) => i = j
    /\ \A i, j \in DOMAIN scheduled : Same(scheduled[i], scheduled[j]) => i = j
    /\ \A i \in DOMAIN logs, j \in DOMAIN scheduled : ~Same(logs[i], scheduled[j])
    /\ tx.kind = "retry" => /\ \A i \in DOMAIN logs : ~Same(tx.retry, logs[i])
                            /\ \A i \in DOMAIN scheduled : ~Same(tx.retry, scheduled[i])

AttemptInv == AttemptsInOrder /\ AttemptedOnce /\ RefundBoundedByDeposit

\* The record of a ticket lost nothing but its life: what was true of an attempt stays so.
Ages(a, b) ==
    b.timeout # 0
    => /\ a.timeout # 0
       /\ b.from = a.from /\ b.to = a.to /\ b.callvalue = a.callvalue
       /\ b.intrinsic = a.intrinsic /\ b.numTries >= a.numTries

RecordsAge == \A t \in Tickets : Ages(rec[t], rec'[t])

\* What was in order stays in order when records age and the ticket's history is kept.
LEMMA AttemptKept ==
    ASSUME NEW x, NEW r \in Records, NEW r2 \in Records, NEW S, NEW S2, NEW h, NEW h2,
           x.ticket \in Tickets, x.seq \in Nat,
           AttemptOK(x, r, S, h), S \subseteq S2, Ages(r[x.ticket], r2[x.ticket]),
           h2.refunded[x.ticket] = h.refunded[x.ticket],
           h2.deposit[x.ticket] = h.deposit[x.ticket]
    PROVE  AttemptOK(x, r2, S2, h2) /\ (Agrees(x, r) => Agrees(x, r2))
  <1>1. r[x.ticket].numTries \in Nat /\ r2[x.ticket].numTries \in Nat
    BY RecordFields
  <1>2. r2[x.ticket].timeout # 0 => x.seq < r2[x.ticket].numTries
    BY <1>1 DEF AttemptOK, Ages
  <1>3. Agrees(x, r) => Agrees(x, r2)
    BY DEF Agrees, Ages
  <1> QED  BY <1>2, <1>3 DEF AttemptOK

\* The head and the tail of a sequence, by index.
LEMMA TailEntries ==
    ASSUME NEW S, NEW q \in Seq(S), q # << >>
    PROVE  /\ Head(q) \in S /\ Tail(q) \in Seq(S)
           /\ 1 \in DOMAIN q /\ Head(q) = q[1]
           /\ \A i \in DOMAIN Tail(q) : /\ i + 1 \in DOMAIN q /\ i + 1 # 1 /\ i \in Nat
                                        /\ Tail(q)[i] = q[i + 1]
           /\ \A i \in DOMAIN q : q[i] \in S
  OBVIOUS

\* The types of the attempts.
LEMMA AttemptTypes ==
    ASSUME TypeOK
    PROVE  /\ \A i \in DOMAIN logs : logs[i] \in RedeemLog
           /\ \A i \in DOMAIN scheduled : scheduled[i] \in Envelope
           /\ tx.kind = "retry" => tx.retry \in Envelope
  <1>1. tx.kind = "retry" => tx.retry \in Envelope
    BY DEF TypeOK, NoTx, UserTx, RetryTx
  <1>2. logs \in Seq(RedeemLog) /\ scheduled \in Seq(Envelope)
    BY DEF TypeOK
  <1> QED  BY <1>1, <1>2

\* Every attempt's ticket, number and budget have their types.
LEMMA AttemptParts ==
    ASSUME TypeOK
    PROVE  /\ \A i \in DOMAIN logs : logs[i].ticket \in Tickets /\ logs[i].seq \in Nat
           /\ \A i \in DOMAIN scheduled : /\ scheduled[i].ticket \in Tickets
                                          /\ scheduled[i].seq \in Nat
           /\ tx.kind = "retry" => tx.retry.ticket \in Tickets /\ tx.retry.seq \in Nat
  BY AttemptTypes, LogFields, EnvelopeFields

\* A record ages by staying the same or by being cleared.
LEMMA AgesFacts ==
    ASSUME NEW r \in Records, NEW t \in Tickets, NEW b, b = r[t] \/ b = EmptyRecord
    PROVE  Ages(r[t], b)
  BY RecordFields, EmptyRecordFacts DEF Ages

\* delete_retryable leaves a record alone or clears it.
LEMMA DeletedRecords ==
    ASSUME rec \in Records, NEW b, NEW t \in Tickets, NEW u \in Tickets
    PROVE  \/ DeleteRetryable(Store(b), t).rec[u] = rec[u]
           \/ DeleteRetryable(Store(b), t).rec[u] = EmptyRecord
  <1>1. Store(b) = Stored(rec, b, queue)
    BY DEF Store, Stored
  <1>2. CASE rec[t].timeout = 0
    <2>1. DeleteRetryable(Store(b), t) = Stored(rec, b, queue)
      BY <1>1, <1>2, StoredFields DEF DeleteRetryable
    <2>2. DeleteRetryable(Store(b), t).rec = rec
      BY <2>1, StoredFields
    <2> QED  BY <2>2
  <1>3. CASE rec[t].timeout # 0
    <2> DEFINE r2 == [rec EXCEPT ![t] = EmptyRecord]
               b2 == Pay(b, Escrow[t], rec[t].beneficiary, b[Escrow[t]])
    <2>1. DeleteRetryable(Stored(rec, b, queue), t) = Stored(r2, b2, queue)
      BY <1>3, DeleteStored, Zenon
    <2>2. r2[u] = rec[u] \/ r2[u] = EmptyRecord
      BY DEF Records
    <2> HIDE DEF r2, b2
    <2>3. DeleteRetryable(Store(b), t).rec = r2
      BY <1>1, <2>1, StoredFields
    <2> QED  BY <2>2, <2>3
  <1> QED  BY <1>2, <1>3

\* No step but a submission does more to a record than age it.
LEMMA AgeStep ==
    ASSUME Inv, [Next]_vars, \A s \in Submissions : ~SubmitRetryable(s)
    PROVE  RecordsAge
  <1>0. rec \in Records
    BY InvParts DEF Inv
  <1>1. CASE rec' = rec
    BY <1>0, <1>1, AgesFacts DEF RecordsAge
  <1>2. ASSUME NEW time \in 0..MaxTime, StartBlock(time) PROVE RecordsAge
    <2>1. \A t \in Tickets : rec'[t] = rec[t] \/ rec'[t] = EmptyRecord
      BY <1>2, StartBlockInv
    <2> QED  BY <1>0, <2>1, AgesFacts DEF RecordsAge
  <1>3. ASSUME NEW c \in Users, NEW t \in Tickets, NEW d \in 0..tx.gas, Redeem(c, t, d)
        PROVE  RecordsAge
    <2> DEFINE n == rec[t].numTries + 1
    <2>1. rec[t] \in Record /\ rec[t].numTries \in Nat /\ n \in Nat /\ n >= rec[t].numTries
      BY <1>0, RecordFields
    <2>2. rec' = [rec EXCEPT ![t].numTries = n]
      BY <1>3 DEF Redeem
    <2> HIDE DEF n
    <2>3. /\ rec'[t] = [rec[t] EXCEPT !.numTries = n]
          /\ \A u \in Tickets \ {t} : rec'[u] = rec[u]
      BY <1>0, <2>2 DEF Records
    <2>4. Ages(rec[t], rec'[t])
      BY <2>1, <2>3 DEF Ages, Record
    <2>5. ASSUME NEW u \in Tickets PROVE Ages(rec[u], rec'[u])
      <3>1. CASE u = t
        BY <2>4, <3>1
      <3>2. CASE u # t
        BY <1>0, <2>3, <3>2, AgesFacts
      <3> QED  BY <3>1, <3>2
    <2> QED  BY <2>5 DEF RecordsAge
  <1>4. ASSUME NEW t \in Tickets, Keepalive(t) PROVE RecordsAge
    <2> DEFINE end == TimeoutWithWindows(t) + Lifetime
    <2>1. /\ rec[t] \in Record /\ rec[t].timeout \in Nat /\ rec[t].windowsLeft = 0
          /\ rec[t].numTries \in Nat
      BY <1>0, RecordFields DEF Inv, RecordsWellFormed
    <2>2. rec[t].timeout # 0
      <3>1. 0 * Lifetime = 0
        BY NumberFacts
      <3> QED  BY <1>4, <2>1, <3>1 DEF TimeoutWithWindows, Keepalive
    <2>3. rec' = [rec EXCEPT ![t].timeout = end, ![t].windowsLeft = 0]
      BY <1>4 DEF Keepalive
    <2> HIDE DEF end
    <2>4. /\ rec'[t] = [rec[t] EXCEPT !.timeout = end, !.windowsLeft = 0]
          /\ \A u \in Tickets \ {t} : rec'[u] = rec[u]
      BY <1>0, <2>3 DEF Records
    <2>5. Ages(rec[t], rec'[t])
      BY <2>1, <2>2, <2>4 DEF Ages, Record
    <2>6. ASSUME NEW u \in Tickets PROVE Ages(rec[u], rec'[u])
      <3>1. CASE u = t
        BY <2>5, <3>1
      <3>2. CASE u # t
        BY <1>0, <2>4, <3>2, AgesFacts
      <3> QED  BY <3>1, <3>2
    <2> QED  BY <2>6 DEF RecordsAge
  <1>5. ASSUME NEW c \in Users, NEW t \in Tickets, Cancel(c, t) PROVE RecordsAge
    <2>1. rec' = DeleteRetryable(Store(bal), t).rec
      BY <1>5 DEF Cancel
    <2>2. \A u \in Tickets : rec'[u] = rec[u] \/ rec'[u] = EmptyRecord
      BY <1>0, <2>1, DeletedRecords
    <2> QED  BY <1>0, <2>2, AgesFacts DEF RecordsAge
  <1>6. ASSUME NEW left \in 0..tx.gas, EndRetry(left) PROVE RecordsAge
    <2> DEFINE b == RetryRefunds(bal, tx.retry, TRUE, left).bal
    <2>1. rec' = DeleteRetryable(Store(b), tx.retry.ticket).rec
      BY <1>6 DEF EndRetry
    <2> HIDE DEF b
    <2>2. tx.retry.ticket \in Tickets
      BY <1>6, AttemptParts DEF EndRetry, Inv
    <2>3. \A u \in Tickets : rec'[u] = rec[u] \/ rec'[u] = EmptyRecord
      BY <1>0, <2>1, <2>2, DeletedRecords
    <2> QED  BY <1>0, <2>3, AgesFacts DEF RecordsAge
  <1>7. ASSUME NEW left \in 0..Head(scheduled).gas, RetryFails(left) PROVE rec' = rec
    BY Zenon, <1>7 DEF RetryFails, Abort
  <1>8. CASE Body
    BY <1>1, <1>3, <1>4, <1>5, <1>8 DEF Body, Send
  <1>9. CASE Step
    BY Zenon, <1>1, <1>6, <1>7, <1>9
    DEF Step, ScheduleRetry, EndMessage, SkipUnsupported, Deposit, BeginUserTx, RejectUserTx,
        EndUserTx, AbortOnRetry, BeginRetry, Abort
  <1>10. CASE UNCHANGED vars
    BY <1>1, <1>10 DEF vars
  <1> QED  BY <1>2, <1>8, <1>9, <1>10 DEF Next

\* A step that makes no attempt and moves none, and leaves the history of refunds alone.
LEMMA AttemptsFrame ==
    ASSUME Inv, TypeOK', AttemptInv, RecordsAge, submitted \subseteq submitted',
           history'.refunded = history.refunded, history'.deposit = history.deposit,
           logs' = logs, scheduled' = scheduled \/ scheduled' = << >>,
           tx'.kind = "retry" => tx.kind = "retry" /\ tx'.retry = tx.retry
    PROVE  AttemptInv'
  <1>1. /\ rec \in Records /\ rec' \in Records
        /\ \A t \in Tickets : Ages(rec[t], rec'[t])
    BY DEF Inv, TypeOK, Records, RecordsAge
  <1>2. \A i \in DOMAIN scheduled' : i \in DOMAIN scheduled /\ scheduled'[i] = scheduled[i]
    OBVIOUS
  <1>3. AttemptsInOrder'
    <2>1. \A i \in DOMAIN logs' : AttemptOK(logs'[i], rec', submitted', history')
      BY <1>1, AttemptParts, AttemptKept DEF Inv, AttemptInv, AttemptsInOrder
    <2>2. ASSUME NEW i \in DOMAIN scheduled
          PROVE  AttemptOK(scheduled[i], rec', submitted', history') /\ Agrees(scheduled[i], rec')
      BY <1>1, AttemptParts, AttemptKept DEF Inv, AttemptInv, AttemptsInOrder
    <2>3. tx'.kind = "retry" => AttemptOK(tx'.retry, rec', submitted', history')
      BY Zenon, <1>1, AttemptParts, AttemptKept DEF Inv, AttemptInv, AttemptsInOrder
    <2> QED  BY <1>2, <2>1, <2>2, <2>3 DEF AttemptsInOrder
  <1>4. AttemptedOnce'
    BY <1>2 DEF AttemptInv, AttemptedOnce, Same
  <1>5. RefundBoundedByDeposit'
    BY DEF AttemptInv, RefundBoundedByDeposit
  <1> QED  BY <1>3, <1>4, <1>5 DEF AttemptInv

\* scheduled_retries_from_redeem_logs turns the first log into a scheduled retry.
LEMMA ScheduleRetryAttempts ==
    ASSUME Inv, TypeOK', AttemptInv, ScheduleRetry
    PROVE  AttemptInv'
  <1> DEFINE l == Head(logs)
             r == rec[l.ticket]
             e == [ticket |-> l.ticket, seq |-> l.seq, gas |-> l.gas,
                   refundTo |-> l.refundTo, maxRefund |-> l.maxRefund,
                   submissionFeeRefund |-> l.submissionFeeRefund, from |-> r.from,
                   to |-> r.to, value |-> r.callvalue, intrinsic |-> r.intrinsic]
  <1>1. /\ logs \in Seq(RedeemLog) /\ logs # << >> /\ scheduled \in Seq(Envelope)
        /\ logs' = Tail(logs) /\ tx.kind # "retry" /\ tx'.kind # "retry"
        /\ UNCHANGED <<rec, submitted, history>>
    BY DEF Inv, TypeOK, ScheduleRetry, NoTx
  <1>2. /\ 1 \in DOMAIN logs /\ l = logs[1]
        /\ \A i \in DOMAIN logs' : /\ i + 1 \in DOMAIN logs /\ i + 1 # 1
                                    /\ logs'[i] = logs[i + 1]
    BY <1>1, TailEntries
  <1>3. scheduled' = scheduled \/ scheduled' = Append(scheduled, e)
    BY DEF ScheduleRetry
  <1>4. /\ e.ticket = l.ticket /\ e.seq = l.seq /\ e.maxRefund = l.maxRefund
        /\ e.from = r.from /\ e.to = r.to /\ e.value = r.callvalue
        /\ e.intrinsic = r.intrinsic
    BY Zenon
  <1> HIDE DEF l, e
  <1>5. \A i \in DOMAIN scheduled' :
           \/ i \in DOMAIN scheduled /\ scheduled'[i] = scheduled[i]
           \/ i \notin DOMAIN scheduled /\ scheduled'[i] = e /\ i = Len(scheduled) + 1
    <2>1. CASE scheduled' = scheduled
      BY <2>1
    <2>2. CASE scheduled' = Append(scheduled, e)
      BY <1>1, <2>2
    <2> QED  BY <1>3, <2>1, <2>2
  <1>6. AttemptsInOrder'
    <2>1. AttemptOK(e, rec, submitted, history)
      BY <1>2, <1>4 DEF AttemptInv, AttemptsInOrder, AttemptOK
    <2>2. Agrees(e, rec)
      BY <1>4 DEF Agrees
    <2> QED  BY <1>1, <1>2, <1>5, <2>1, <2>2 DEF AttemptInv, AttemptsInOrder
  <1>7. AttemptedOnce'
    <2>1. \A i, j \in DOMAIN logs' : Same(logs'[i], logs'[j]) => i = j
      <3>1. \A i \in DOMAIN logs' : i \in Int
        BY <1>1
      <3>2. \A i, j \in DOMAIN logs' : Same(logs'[i], logs'[j]) => i + 1 = j + 1
        BY <1>2 DEF AttemptInv, AttemptedOnce
      <3> QED  BY <3>1, <3>2
    <2>2. \A i \in DOMAIN scheduled : ~Same(scheduled[i], e) /\ ~Same(e, scheduled[i])
      BY <1>2, <1>4 DEF AttemptInv, AttemptedOnce, Same
    <2>3. \A i \in DOMAIN logs' : ~Same(logs'[i], e)
      BY <1>2, <1>4 DEF AttemptInv, AttemptedOnce, Same
    <2>4. \A i, j \in DOMAIN scheduled' : Same(scheduled'[i], scheduled'[j]) => i = j
      BY <1>5, <2>2 DEF AttemptInv, AttemptedOnce
    <2>5. \A i \in DOMAIN logs', j \in DOMAIN scheduled' : ~Same(logs'[i], scheduled'[j])
      BY <1>2, <1>5, <2>3 DEF AttemptInv, AttemptedOnce
    <2> QED  BY <1>1, <2>1, <2>4, <2>5 DEF AttemptedOnce
  <1>8. RefundBoundedByDeposit'
    BY <1>1 DEF AttemptInv, RefundBoundedByDeposit
  <1> QED  BY <1>6, <1>7, <1>8 DEF AttemptInv

\* Redeem makes an attempt with a number no other attempt of the ticket has.
LEMMA RedeemAttempts ==
    ASSUME Inv, TypeOK', AttemptInv, RecordsAge,
           NEW c \in Users, NEW t \in Tickets, NEW d \in 0..tx.gas, Redeem(c, t, d)
    PROVE  AttemptInv'
  <1> DEFINE n == rec[t].numTries
             l == [ticket |-> t, seq |-> n, gas |-> d, refundTo |-> c,
                   maxRefund |-> MaxU256, submissionFeeRefund |-> 0]
  <1>1. /\ logs' = Append(logs, l) /\ rec' = [rec EXCEPT ![t].numTries = n + 1]
        /\ rec[t].timeout # 0 /\ logs \in Seq(RedeemLog)
        /\ UNCHANGED <<scheduled, submitted, history>> /\ BodyCall(CallGas + d, d)
    BY DEF Redeem, Inv, TypeOK, Exists, Live
  <1>2. rec \in Records /\ rec' \in Records /\ n \in Nat /\ t \in submitted
    BY Zenon, <1>1, RecordFields DEF Inv, TypeOK, Records, RecordsWellFormed, Live
  <1>3. rec'[t].numTries = n + 1
    BY <1>1, <1>2 DEF Records, Record
  <1>4. tx'.kind = "retry" => tx.kind = "retry" /\ tx'.retry = tx.retry
    <2>1. tx' = [tx EXCEPT !.gas = @ - (CallGas + d), !.donated = @ + d]
      BY <1>1 DEF BodyCall
    <2>2. tx \in {NoTx} \cup UserTx \cup RetryTx
      BY DEF Inv, TypeOK
    <2> QED  BY <2>1, <2>2 DEF NoTx, UserTx, RetryTx
  <1>5. l.ticket = t /\ l.seq = n /\ l.maxRefund = MaxU256
    OBVIOUS
  <1> HIDE DEF n, l
  <1>6. \A i \in DOMAIN logs' :
           \/ i \in DOMAIN logs /\ logs'[i] = logs[i]
           \/ i \notin DOMAIN logs /\ logs'[i] = l /\ i = Len(logs) + 1
    BY <1>1
  <1>7. AttemptsInOrder'
    <2>1. AttemptOK(l, rec', submitted', history')
      BY <1>1, <1>2, <1>3, <1>5 DEF AttemptOK
    <2>2. \A u \in Tickets : Ages(rec[u], rec'[u])
      BY DEF RecordsAge
    <2>3. ASSUME NEW i \in DOMAIN logs
          PROVE  AttemptOK(logs[i], rec', submitted', history')
      BY Zenon, <1>1, <1>2, <2>2, AttemptParts, AttemptKept DEF Inv, AttemptInv, AttemptsInOrder
    <2>4. ASSUME NEW i \in DOMAIN scheduled
          PROVE  AttemptOK(scheduled[i], rec', submitted', history') /\ Agrees(scheduled[i], rec')
      BY Zenon, <1>1, <1>2, <2>2, AttemptParts, AttemptKept DEF Inv, AttemptInv, AttemptsInOrder
    <2>5. tx'.kind = "retry" => AttemptOK(tx'.retry, rec', submitted', history')
      BY Zenon, <1>1, <1>2, <1>4, <2>2, AttemptParts, AttemptKept DEF Inv, AttemptInv, AttemptsInOrder
    <2> QED  BY Zenon, <1>1, <1>6, <2>1, <2>3, <2>4, <2>5 DEF AttemptsInOrder
  <1>8. AttemptedOnce'
    <2>1. ASSUME NEW x, AttemptOK(x, rec, submitted, history), x.seq \in Nat
          PROVE  ~Same(x, l) /\ ~Same(l, x)
      BY <1>1, <1>2, <1>5, <2>1 DEF AttemptOK, Same, n
    <2>2. \A i \in DOMAIN logs : ~Same(logs[i], l) /\ ~Same(l, logs[i])
      BY <2>1, AttemptParts DEF Inv, AttemptInv, AttemptsInOrder
    <2>3. \A i \in DOMAIN scheduled : ~Same(l, scheduled[i])
      BY <2>1, AttemptParts DEF Inv, AttemptInv, AttemptsInOrder
    <2>4. tx.kind = "retry" => ~Same(tx.retry, l)
      BY <2>1, AttemptParts DEF Inv, AttemptInv, AttemptsInOrder
    <2>5. \A i, j \in DOMAIN logs' : Same(logs'[i], logs'[j]) => i = j
      BY <1>6, <2>2 DEF AttemptInv, AttemptedOnce
    <2>6. \A i \in DOMAIN logs', j \in DOMAIN scheduled' : ~Same(logs'[i], scheduled'[j])
      BY <1>1, <1>6, <2>3 DEF AttemptInv, AttemptedOnce
    <2>7. tx'.kind = "retry" => /\ \A i \in DOMAIN logs' : ~Same(tx'.retry, logs'[i])
                                /\ \A i \in DOMAIN scheduled' : ~Same(tx'.retry, scheduled'[i])
      BY <1>1, <1>4, <1>6, <2>4 DEF AttemptInv, AttemptedOnce
    <2> QED  BY <1>1, <2>5, <2>6, <2>7 DEF AttemptInv, AttemptedOnce
  <1>9. RefundBoundedByDeposit'
    BY <1>1 DEF AttemptInv, RefundBoundedByDeposit
  <1> QED  BY <1>7, <1>8, <1>9 DEF AttemptInv

-----------------------------------------------------------------------------
(* What a submission refunds.  Neither transfers nor the checks of funds   *)
(* touch the available deposit: only take_funds does.                      *)

\* Stage st has v of the deposit available and has refunded r.
Holds(st, v, r) == \E b, x : st = [bal |-> b, avail |-> v, refunded |-> r, result |-> x]

\* The fields of such a stage.
LEMMA HoldsFields ==
    ASSUME NEW st, NEW v, NEW r, Holds(st, v, r)
    PROVE  st.avail = v /\ st.refunded = r
  BY DEF Holds

\* A transfer between accounts neither uses nor refunds the deposit.
LEMMA TransferHolds ==
    ASSUME NEW st, NEW v, NEW r, NEW x, NEW y, NEW a, Holds(st, v, r)
    PROVE  Holds(Transfer(st, x, y, a), v, r)
  <1>1. PICK b, z : st = [bal |-> b, avail |-> v, refunded |-> r, result |-> z]
    BY Zenon DEF Holds
  <1> DEFINE c == Pay(st.bal, x, y, a)
             o == "out_of_funds"
  <1>2. Transfer(st, x, y, a) = [st EXCEPT !.bal = c] \/ Transfer(st, x, y, a) = [st EXCEPT !.result = o]
    BY DEF Transfer
  <1> HIDE DEF c, o
  <1>3. /\ [st EXCEPT !.bal = c] = [bal |-> c, avail |-> v, refunded |-> r, result |-> z]
        /\ [st EXCEPT !.result = o] = [bal |-> b, avail |-> v, refunded |-> r, result |-> o]
    BY <1>1
  <1> QED  BY Zenon, <1>2, <1>3 DEF Holds

\* Taking from the deposit refunds nothing.
LEMMA TakeHolds ==
    ASSUME NEW st, NEW v, NEW r, NEW a, Holds(st, v, r)
    PROVE  Holds(Take(st, a), Monus(v, a), r)
  <1>1. PICK b, z : st = [bal |-> b, avail |-> v, refunded |-> r, result |-> z]
    BY Zenon DEF Holds
  <1> DEFINE m == Monus(v, a)
  <1>2. Take(st, a) = [st EXCEPT !.avail = m]
    BY HoldsFields DEF Take
  <1> HIDE DEF m
  <1>3. [st EXCEPT !.avail = m] = [bal |-> b, avail |-> m, refunded |-> r, result |-> z]
    BY <1>1
  <1> QED  BY Zenon, <1>2, <1>3 DEF Holds, m

\* A refund is taken from what is left of the deposit.
LEMMA RefundHolds ==
    ASSUME NEW st, NEW v, NEW r, NEW x, NEW y, NEW a, Holds(st, v, r)
    PROVE  Holds(Refund(st, x, y, a), v - Lesser(v, a), r + Lesser(v, a))
  <1> DEFINE m == v - Lesser(v, a)
             n == r + Lesser(v, a)
             s2 == [bal |-> st.bal, avail |-> m, refunded |-> n, result |-> st.result]
  <1>1. Refund(st, x, y, a) = Transfer(s2, x, y, Lesser(v, a))
    BY HoldsFields DEF Refund
  <1> HIDE DEF m, n
  <1>2. Holds(s2, m, n)
    BY Zenon DEF Holds
  <1> QED  BY <1>1, <1>2, TransferHolds DEF m, n

\* What a cut-off takes and leaves add up.
LEMMA SplitSum ==
    ASSUME NEW a \in Nat, NEW b \in Nat
    PROVE  /\ Lesser(a, b) \in Nat /\ Monus(a, b) \in Nat
           /\ Lesser(a, b) + Monus(a, b) = a
  BY DEF Lesser, Monus

\* Whatever exit a submission takes, what it refunds, and what its automatic redeem may
\* refund later, comes out of the deposit.
LEMMA SubmitBounds ==
    ASSUME NEW s \in Submission
    PROVE  /\ SubmitStage(s).refunded <= s.deposit
           /\ SubmitPath(s) = "redeem"
              => /\ MaxRefund(s) \in Nat
                 /\ SubmitStage(s).refunded + MaxRefund(s) <= s.deposit
  <1>1. /\ s.deposit \in Nat /\ s.retryValue \in Nat /\ s.submissionFee \in Nat
        /\ s.maxSubmissionFee \in Nat /\ s.gasLimit \in Nat /\ s.gasFeeCap \in Nat
    BY SubmissionFacts
  <1>2. CASE SubmitPath(s) \in {"fee_too_low", "unfunded"}
    <2>1. SubmitStage(s) = Unminted(s) \/ SubmitStage(s) = Minted(s)
      BY <1>2 DEF SubmitStage
    <2>2. Unminted(s).refunded = 0 /\ Minted(s).refunded = 0
      BY DEF Unminted, Minted
    <2>3. SubmitStage(s).refunded = 0
      BY <2>1, <2>2
    <2> QED  BY <1>1, <1>2, <2>3
  <1>3. CASE SubmitPath(s) \notin {"fee_too_low", "unfunded"}
    <2> DEFINE more == s.maxSubmissionFee - s.submissionFee
               v1 == Monus(s.deposit, s.retryValue)
               wf == Lesser(v1, s.submissionFee)
               v2 == Monus(v1, s.submissionFee)
               k3 == Lesser(v2, more)
               v3 == v2 - k3
               r3 == 0 + k3
    <2>1. ~(s.maxSubmissionFee < s.submissionFee)
      BY <1>3 DEF SubmitPath
    <2>2. more \in Nat
      BY <1>1, <2>1
    <2>3. v1 \in Nat /\ v1 <= s.deposit
      BY Zenon, <1>1, LesserFacts
    <2>4. Holds(Minted(s), s.deposit, 0)
      BY Zenon DEF Holds, Minted
    <2>5. Holds(AfterRetryValue(s), v1, 0)
      BY <2>4, TakeHolds DEF AfterRetryValue
    <2>6. WithheldFee(s) = wf
      BY <2>5, HoldsFields DEF WithheldFee
    <2>7. Holds(FeeCharged(s), v2, 0)
      BY <2>5, TransferHolds, TakeHolds DEF FeeCharged
    <2>8. Holds(FeeRefunded(s), v3, r3)
      BY <2>7, RefundHolds DEF FeeRefunded
    <2> HIDE DEF v1, more
    <2>9. wf \in Nat /\ v2 \in Nat /\ wf + v2 = v1
      BY Zenon, <1>1, <2>3, SplitSum
    <2> HIDE DEF wf, v2
    <2>10. k3 \in Nat /\ k3 <= v2
      BY <2>2, <2>9, LesserFacts
    <2> HIDE DEF k3
    <2>11. v3 \in Nat /\ r3 \in Nat /\ v3 + r3 + wf = v1
      BY <2>9, <2>10
    <2> HIDE DEF v3, r3
    <2>12. Holds(Escrowed(s), v3, r3)
      BY <2>8, TransferHolds DEF Escrowed
    <2>13. CASE SubmitPath(s) = "escrow_failed"
      <3> DEFINE back == Transfer(FeeRefunded(s), NetworkFeeAccount, s.from, s.submissionFee)
                 w == r3 + wf
                 st2 == [back EXCEPT !.refunded = w]
      <3>1. Holds(back, v3, r3)
        BY <2>8, TransferHolds
      <3>2. back.refunded = r3
        BY <3>1, HoldsFields
      <3>3. Unwound(s) = Transfer(st2, s.from, RefundAddress(s), WithheldFee(s))
        BY <2>6, <3>2 DEF Unwound
      <3> HIDE DEF back, w
      <3>4. Holds(st2, v3, w)
        BY <3>1 DEF Holds
      <3> HIDE DEF st2
      <3>5. Unwound(s).refunded = w
        BY <3>3, <3>4, TransferHolds, HoldsFields
      <3>6. SubmitStage(s) = Unwound(s)
        BY <2>13 DEF SubmitStage
      <3> QED  BY <1>1, <2>3, <2>9, <2>11, <2>13, <3>5, <3>6 DEF w
    <2>14. CASE SubmitPath(s) = "no_redeem"
      <3> DEFINE cost == MaxGasCost(s)
                 k4 == Lesser(v3, cost)
      <3>1. cost \in Nat
        BY <1>1, ProductNat DEF MaxGasCost
      <3>2. Holds(GasCostRefunded(s), v3 - k4, r3 + k4)
        BY <2>12, RefundHolds DEF GasCostRefunded
      <3> HIDE DEF cost
      <3>3. k4 \in Nat /\ k4 <= v3
        BY <2>11, <3>1, LesserFacts
      <3> HIDE DEF k4
      <3>4. SubmitStage(s) = GasCostRefunded(s)
        BY <2>14 DEF SubmitStage
      <3>5. SubmitStage(s).refunded = r3 + k4
        BY <3>2, <3>4, HoldsFields
      <3> QED  BY <1>1, <2>3, <2>9, <2>11, <2>14, <3>3, <3>5
    <2>15. CASE SubmitPath(s) \in {"filtered", "redeem"}
      <3> DEFINE cost == GasCost(s)
                 wg == Lesser(v3, cost)
                 v5 == Monus(v3, cost)
                 price == (s.gasFeeCap - BaseFee) * s.gasLimit
                 k6 == Lesser(v5, price)
      <3>1. cost \in Nat /\ price \in Nat
        <4>1. BaseFee \in Nat
          BY PriceSplit
        <4>2. ~(s.gasFeeCap < BaseFee)
          BY <1>3, <2>15 DEF SubmitPath
        <4>3. s.gasFeeCap - BaseFee \in Nat
          BY <1>1, <4>1, <4>2
        <4> QED  BY <1>1, <4>1, <4>3, ProductNat DEF GasCost
      <3>2. WithheldGas(s) = wg
        BY <2>12, HoldsFields DEF WithheldGas
      <3>3. Holds(GasCharged(s), v5, r3)
        BY <2>12, TransferHolds, TakeHolds DEF GasCharged
      <3>4. Holds(PriceRefunded(s), v5 - k6, r3 + k6)
        BY <3>3, RefundHolds DEF PriceRefunded
      <3> HIDE DEF cost, price
      <3>5. wg \in Nat /\ v5 \in Nat /\ wg + v5 = v3
        BY <2>11, <3>1, SplitSum
      <3> HIDE DEF wg, v5
      <3>6. k6 \in Nat /\ k6 <= v5
        BY <3>1, <3>5, LesserFacts
      <3> HIDE DEF k6
      <3>7. SubmitStage(s) = PriceRefunded(s)
        BY <2>15 DEF SubmitStage
      <3>8. SubmitStage(s).refunded = r3 + k6 /\ MaxRefund(s) = (v5 - k6) + wg + wf
        BY <2>6, <3>2, <3>4, <3>7, HoldsFields DEF MaxRefund
      <3> QED  BY <1>1, <2>3, <2>9, <2>11, <3>5, <3>6, <3>8
    <2> QED  BY Zenon, <1>3, <2>13, <2>14, <2>15 DEF SubmitPath
  <1> QED  BY <1>2, <1>3

\* SubmitRetryable: no attempt of its ticket is outstanding, and it makes at most one.
LEMMA SubmitAttempts ==
    ASSUME Inv, TypeOK', AttemptInv, NEW s \in Submissions, SubmitRetryable(s)
    PROVE  AttemptInv'
  <1> DEFINE t == s.ticket
             path == SubmitPath(s)
             st == SubmitStage(s)
             l == SubmitLog(s)
             new == NewRecord(s)
  <1>0. s \in Submission /\ bal \in Balances
    BY SubmissionsAssumption, InvParts DEF Inv
  <1>1. /\ st.refunded \in Nat /\ st.refunded <= s.deposit /\ st.result = "ok"
        /\ path = "redeem" => /\ MaxRefund(s) \in Nat
                              /\ st.refunded + MaxRefund(s) <= s.deposit
        /\ t \in Tickets /\ s.deposit \in Nat
    <2>1. PICK b \in Balances, v \in Nat, r \in Nat : st = Funded(b, v, r)
      BY Zenon, <1>0, SubmitFacts
    <2>2. st.refunded \in Nat /\ st.result = "ok"
      BY <2>1, FundedFields
    <2> QED  BY <1>0, <2>2, SubmitBounds, SubmissionFacts
  <1>2. l.ticket = t /\ l.seq = 0 /\ l.maxRefund = MaxRefund(s)
    BY DEF SubmitLog
  <1>3. path = "redeem" => new.numTries = 1
    BY DEF NewRecord
  <1> HIDE DEF path, st, l, new
  <1>4. /\ rec' = rec \/ rec' = [rec EXCEPT ![t] = new]
        /\ path = "redeem" => rec' = [rec EXCEPT ![t] = new]
        /\ logs = << >> /\ t \notin submitted
        /\ logs' = << >> \/ (path = "redeem" /\ logs' = <<l>>)
        /\ submitted' = submitted \cup {t} /\ tx.kind # "retry" /\ tx'.kind # "retry"
        /\ scheduled' = scheduled
    BY <1>1 DEF SubmitRetryable, UserTurn, NoTx, Creates, path, st, l, new
  <1>5. /\ history'.refunded = [history.refunded EXCEPT ![t] = st.refunded]
        /\ history'.deposit = [history.deposit EXCEPT ![t] = s.deposit]
    <2> DEFINE m == history.minted + IF path = "fee_too_low" THEN 0 ELSE s.deposit
               d == history.delivered + s.deposit
               B == history.born \cup {t}
               k == st.refunded
    <2>1. history' = [history EXCEPT !.minted = m, !.delivered = d, !.deposit[t] = s.deposit,
                                     !.refunded[t] = k, !.born = B]
      BY <1>1 DEF SubmitRetryable, path, st
    <2>2. history \in History
      BY DEF Inv, TypeOK
    <2> HIDE DEF m, d, B, t, k
    <2>3. history'.refunded = [history.refunded EXCEPT ![t] = k]
      BY <2>1, <2>2 DEF History
    <2>4. history'.deposit = [history.deposit EXCEPT ![t] = s.deposit]
      BY <2>1, <2>2 DEF History
    <2> QED  BY <2>3, <2>4 DEF k, t
  <1>6. /\ history.refunded \in [Tickets -> Nat] /\ history.deposit \in [Tickets -> Nat]
        /\ rec \in Records /\ rec' \in Records
    BY DEF Inv, TypeOK, History, Records
  <1> HIDE DEF t
  <1>7. \A u \in Tickets \ {t} : /\ rec'[u] = rec[u]
                                 /\ history'.refunded[u] = history.refunded[u]
                                 /\ history'.deposit[u] = history.deposit[u]
    BY <1>1, <1>4, <1>5, <1>6 DEF Records
  <1>8. history'.refunded[t] = st.refunded /\ history'.deposit[t] = s.deposit
    BY <1>1, <1>5, <1>6
  <1>9. AttemptsInOrder'
    <2>1. ASSUME path = "redeem" PROVE AttemptOK(l, rec', submitted', history')
      <3>1. rec'[t] = new
        BY <1>1, <1>4, <1>6, <2>1 DEF Records
      <3> QED  BY <1>1, <1>2, <1>3, <1>4, <1>8, <2>1, <3>1 DEF AttemptOK
    <2>2. ASSUME NEW i \in DOMAIN scheduled
          PROVE  AttemptOK(scheduled[i], rec', submitted', history') /\ Agrees(scheduled[i], rec')
      <3> DEFINE x == scheduled[i]
      <3>1. /\ x.ticket \in Tickets /\ x.seq \in Nat
            /\ AttemptOK(x, rec, submitted, history) /\ Agrees(x, rec)
        BY AttemptParts DEF Inv, AttemptInv, AttemptsInOrder
      <3> HIDE DEF x
      <3>2. x.ticket # t
        BY <1>4, <3>1 DEF AttemptOK
      <3>3. Ages(rec[x.ticket], rec'[x.ticket])
        BY <1>6, <1>7, <3>1, <3>2, AgesFacts
      <3>4. AttemptOK(x, rec', submitted', history') /\ Agrees(x, rec')
        BY Zenon, <1>4, <1>6, <1>7, <3>1, <3>2, <3>3, AttemptKept
      <3> QED  BY <3>4 DEF x
    <2>3. \A i \in DOMAIN logs' : path = "redeem" /\ logs'[i] = l
      BY <1>4
    <2> QED  BY Zenon, <1>4, <2>1, <2>2, <2>3 DEF AttemptsInOrder
  <1>10. AttemptedOnce'
    <2>1. \A i \in DOMAIN logs' : i = 1 /\ logs'[i] = l
      BY <1>4
    <2>2. \A i \in DOMAIN scheduled : ~Same(l, scheduled[i])
      BY <1>2, <1>4 DEF AttemptInv, AttemptsInOrder, AttemptOK, Same
    <2> QED  BY <1>4, <2>1, <2>2 DEF AttemptInv, AttemptedOnce
  <1>11. RefundBoundedByDeposit'
    BY <1>1, <1>7, <1>8 DEF AttemptInv, RefundBoundedByDeposit
  <1> QED  BY <1>9, <1>10, <1>11 DEF AttemptInv

\* BeginRetry starts the attempt at the front.
LEMMA BeginRetryAttempts ==
    ASSUME Inv, TypeOK', AttemptInv, BeginRetry
    PROVE  AttemptInv'
  <1>1. /\ scheduled \in Seq(Envelope) /\ scheduled # << >> /\ logs = << >>
        /\ scheduled' = Tail(scheduled) /\ UNCHANGED <<rec, submitted, history, logs>>
        /\ tx'.retry = Head(scheduled)
    BY DEF BeginRetry, RetryTurn, Inv, TypeOK
  <1>2. /\ 1 \in DOMAIN scheduled /\ Head(scheduled) = scheduled[1]
        /\ \A i \in DOMAIN scheduled' : /\ i + 1 \in DOMAIN scheduled /\ i + 1 # 1 /\ i \in Nat
                                         /\ scheduled'[i] = scheduled[i + 1]
    BY <1>1, TailEntries
  <1>3. AttemptsInOrder'
    BY <1>1, <1>2 DEF AttemptInv, AttemptsInOrder
  <1>4. AttemptedOnce'
    <2>1. \A i, j \in DOMAIN scheduled' : Same(scheduled'[i], scheduled'[j]) => i = j
      <3>1. \A i, j \in DOMAIN scheduled' : Same(scheduled'[i], scheduled'[j]) => i + 1 = j + 1
        BY <1>2 DEF AttemptInv, AttemptedOnce
      <3> QED  BY <1>2, <3>1
    <2>2. \A i \in DOMAIN scheduled' : ~Same(tx'.retry, scheduled'[i])
      BY <1>1, <1>2 DEF AttemptInv, AttemptedOnce
    <2>3. DOMAIN logs' = {}
      BY <1>1
    <2> QED  BY <2>1, <2>2, <2>3 DEF AttemptedOnce
  <1>5. RefundBoundedByDeposit'
    BY <1>1 DEF AttemptInv, RefundBoundedByDeposit
  <1> QED  BY <1>3, <1>4, <1>5 DEF AttemptInv

\* h2 is the history after attempt r refunded what its budget allowed.
Applied(r, h2) ==
    \E f \in Nat :
       /\ f <= r.maxRefund
       /\ h2.deposit = history.deposit
       /\ \A u \in Tickets \ {r.ticket} : h2.refunded[u] = history.refunded[u]
       /\ h2.refunded[r.ticket] = history.refunded[r.ticket]
                                  + IF r.maxRefund = MaxU256 THEN 0 ELSE f

\* The refunds of a retry, from any balances, are applied to the history.
LEMMA RefundsApplied ==
    ASSUME Inv, NEW b \in Balances, NEW r \in Envelope, NEW success \in BOOLEAN,
           NEW left \in Nat, left <= r.gas, NEW donated
    PROVE  Applied(r, Refunded(RetryRefunds(b, r, success, left), r, donated, left))
  <1> DEFINE st == RetryRefunds(b, r, success, left)
             new == Refunded(st, r, donated, left)
  <1>1. PICK b2 \in Balances, g \in Nat, f \in Nat, h \in Nat :
           st = Refunding(b2, g, f, h) /\ f + g <= r.maxRefund
    <2>1. PaidBy(st, b, FeeAccounts, r.maxRefund)
      BY RefundsFacts
    <2> QED  BY <2>1 DEF PaidBy
  <1> HIDE DEF st
  <1>2. f <= r.maxRefund
    BY <1>1, EnvelopeFields
  <1>3. new = Refunded(Refunding(b2, g, f, h), r, donated, left)
    BY <1>1
  <1> HIDE DEF new
  <1>4. Counts(new, r, f, h, r.gas - left - donated)
    BY <1>3, RefundedCounts
  <1> QED  BY Zenon, <1>2, <1>4 DEF Applied, Counts, new, st

\* When attempt r is over, any other attempt is still in order: if r was the attempt of the
\* submission, no other attempt of its ticket refunds from the deposit.
LEMMA OthersKept ==
    ASSUME Inv, TypeOK', AttemptInv, RecordsAge, submitted' = submitted,
           NEW r \in Envelope, AttemptOK(r, rec, submitted, history), Applied(r, history'),
           NEW x, AttemptOK(x, rec, submitted, history), ~Same(r, x),
           x.ticket \in Tickets, x.seq \in Nat
    PROVE  AttemptOK(x, rec', submitted', history') /\ (Agrees(x, rec) => Agrees(x, rec'))
  <1>1. /\ rec \in Records /\ rec' \in Records /\ Ages(rec[x.ticket], rec'[x.ticket])
        /\ history.refunded[r.ticket] \in Nat
    BY Zenon, EnvelopeFields DEF Inv, TypeOK, Records, RecordsAge, History
  <1>2. PICK f \in Nat :
           /\ history'.deposit = history.deposit
           /\ \A u \in Tickets \ {r.ticket} : history'.refunded[u] = history.refunded[u]
           /\ history'.refunded[r.ticket] = history.refunded[r.ticket]
                                      + IF r.maxRefund = MaxU256 THEN 0 ELSE f
    BY Zenon DEF Applied
  <1>3. CASE x.ticket # r.ticket \/ r.maxRefund = MaxU256
    <2>1. CASE x.ticket # r.ticket
      <3>1. history'.refunded[x.ticket] = history.refunded[x.ticket]
        BY <1>2, <2>1, x.ticket \in Tickets
      <3> QED  BY Zenon, <1>1, <1>2, <3>1, AttemptKept
    <2>2. CASE x.ticket = r.ticket /\ r.maxRefund = MaxU256
      <3>1. history'.refunded[r.ticket] = history.refunded[r.ticket] + 0
        BY Zenon, <1>2, <2>2
      <3>2. \A k \in Nat : k + 0 = k
        OBVIOUS
      <3>3. history'.refunded[r.ticket] = history.refunded[r.ticket]
        BY Zenon, <1>1, <3>1, <3>2
      <3>4. history'.refunded[x.ticket] = history.refunded[x.ticket]
        BY Zenon, <2>2, <3>3
      <3> QED  BY Zenon, <1>1, <1>2, <3>4, AttemptKept
    <2> QED  BY <1>3, <2>1, <2>2
  <1>4. CASE x.ticket = r.ticket /\ r.maxRefund # MaxU256
    <2>1. x.maxRefund = MaxU256
      BY <1>4 DEF AttemptOK, Same
    <2>2. AttemptOK(x, rec', submitted, history) /\ (Agrees(x, rec) => Agrees(x, rec'))
      BY Zenon, <1>1, AttemptKept
    <2> QED  BY Zenon, <2>1, <2>2 DEF AttemptOK
  <1> QED  BY <1>3, <1>4

\* The refund of an attempt that was in order stays within the deposit.
LEMMA AppliedBounded ==
    ASSUME Inv, AttemptInv, NEW r \in Envelope, AttemptOK(r, rec, submitted, history),
           Applied(r, history')
    PROVE  RefundBoundedByDeposit'
  <1>1. PICK f \in Nat :
           /\ f <= r.maxRefund
           /\ history'.deposit = history.deposit
           /\ \A u \in Tickets \ {r.ticket} : history'.refunded[u] = history.refunded[u]
           /\ history'.refunded[r.ticket] = history.refunded[r.ticket]
                                      + IF r.maxRefund = MaxU256 THEN 0 ELSE f
    BY DEF Applied
  <1>2. /\ history.refunded[r.ticket] \in Nat /\ history.deposit[r.ticket] \in Nat
        /\ r.ticket \in Tickets /\ r.maxRefund \in Nat
    BY EnvelopeFields DEF Inv, TypeOK, History
  <1>3. history'.refunded[r.ticket] <= history'.deposit[r.ticket]
    BY <1>1, <1>2 DEF AttemptOK, AttemptInv, RefundBoundedByDeposit
  <1> QED  BY Zenon, <1>1, <1>3 DEF AttemptInv, RefundBoundedByDeposit

\* EndRetry ends the running attempt.
LEMMA EndRetryAttempts ==
    ASSUME Inv, TypeOK', AttemptInv, RecordsAge, NEW left \in 0..tx.gas, EndRetry(left)
    PROVE  AttemptInv'
  <1> DEFINE r == tx.retry
  <1>1. /\ tx.kind = "retry" /\ r \in Envelope /\ bal \in Balances
        /\ left \in Nat /\ left <= r.gas
    <2>1. tx.kind = "retry"
      BY DEF EndRetry
    <2>2. r \in Envelope /\ bal \in Balances /\ tx.gas \in Nat /\ tx.donated \in Nat
      BY <2>1, InvParts, TxKinds DEF Inv
    <2>3. tx.gas + tx.donated <= r.gas /\ r.gas \in Nat
      BY <2>1, <2>2, EnvelopeFields DEF Inv, GasBounded
    <2> QED  BY <2>1, <2>2, <2>3
  <1>2. /\ history' = Refunded(RetryRefunds(bal, r, TRUE, left), r, tx.donated, left)
        /\ tx'.kind # "retry" /\ UNCHANGED <<scheduled, logs, submitted>>
    <2>1. history' = Refunded(RetryRefunds(bal, r, TRUE, left), r, tx.donated, left)
      BY Zenon DEF EndRetry
    <2>2. tx' = NoTx /\ UNCHANGED <<scheduled, logs, submitted>>
      BY Zenon DEF EndRetry
    <2>3. NoTx.kind # "retry"
      BY DEF NoTx
    <2> QED  BY Zenon, <2>1, <2>2, <2>3
  <1>3. Applied(r, history')
    BY Zenon, <1>1, <1>2, RefundsApplied
  <1>4. /\ AttemptOK(r, rec, submitted, history)
        /\ \A i \in DOMAIN logs : ~Same(r, logs[i])
        /\ \A i \in DOMAIN scheduled : ~Same(r, scheduled[i])
    BY Zenon, <1>1 DEF AttemptInv, AttemptsInOrder, AttemptedOnce
  <1> HIDE DEF r
  <1>5. AttemptsInOrder'
    <2>1. ASSUME NEW i \in DOMAIN logs PROVE AttemptOK(logs[i], rec', submitted', history')
      BY Zenon, <1>1, <1>2, <1>3, <1>4, AttemptParts, OthersKept DEF Inv, AttemptInv, AttemptsInOrder
    <2>2. ASSUME NEW i \in DOMAIN scheduled
          PROVE  AttemptOK(scheduled[i], rec', submitted', history') /\ Agrees(scheduled[i], rec')
      BY Zenon, <1>1, <1>2, <1>3, <1>4, AttemptParts, OthersKept DEF Inv, AttemptInv, AttemptsInOrder
    <2> QED  BY Zenon, <1>2, <2>1, <2>2 DEF AttemptsInOrder
  <1>6. AttemptedOnce'
    BY Zenon, <1>2 DEF AttemptInv, AttemptedOnce
  <1>7. RefundBoundedByDeposit'
    BY Zenon, <1>1, <1>3, <1>4, AppliedBounded
  <1> QED  BY <1>5, <1>6, <1>7 DEF AttemptInv

\* RetryFails ends the attempt at the front.
LEMMA RetryFailsAttempts ==
    ASSUME Inv, TypeOK', AttemptInv, RecordsAge, RetryTurn,
           NEW left \in 0..Head(scheduled).gas, RetryFails(left)
    PROVE  AttemptInv'
  <1> DEFINE r == Head(scheduled)
             c == CallvalueMoved(r)
  <1>1. CASE Abort("retry_return")
    BY <1>1, AttemptsFrame DEF Abort
  <1>2. CASE ~Abort("retry_return")
    <2>1. /\ history' = Refunded(RetryRefunds(c, r, FALSE, left), r, 0, left)
          /\ scheduled' = Tail(scheduled) /\ UNCHANGED <<tx, logs, submitted>>
          /\ RetryError(r) = "none"
      BY Zenon, <1>2 DEF RetryFails
    <2>2. /\ tx.kind # "retry" /\ logs = << >> /\ scheduled # << >>
          /\ scheduled \in Seq(Envelope)
      BY DEF RetryTurn, NoTx, Inv, TypeOK
    <2>3. /\ 1 \in DOMAIN scheduled /\ r = scheduled[1] /\ r \in Envelope
          /\ \A i \in DOMAIN scheduled' : /\ i + 1 \in DOMAIN scheduled /\ i + 1 # 1 /\ i \in Nat
                                           /\ scheduled'[i] = scheduled[i + 1]
      BY <2>1, <2>2, TailEntries
    <2>4. c \in Balances
      BY <2>1, CallvalueFacts
    <2>5. left \in Nat /\ left <= r.gas
      BY <2>3, EnvelopeFields
    <2> HIDE DEF r, c
    <2>6. Applied(r, history')
      BY Zenon, <2>1, <2>3, <2>4, <2>5, RefundsApplied
    <2>7. /\ AttemptOK(r, rec, submitted, history)
          /\ \A i \in DOMAIN scheduled : i # 1 => ~Same(r, scheduled[i])
      BY Zenon, <2>3 DEF AttemptInv, AttemptsInOrder, AttemptedOnce
    <2>8. AttemptsInOrder'
      <3>1. ASSUME NEW i \in DOMAIN scheduled, i # 1
            PROVE  AttemptOK(scheduled[i], rec', submitted', history') /\ Agrees(scheduled[i], rec')
        BY Zenon, <2>1, <2>3, <2>6, <2>7, <3>1, AttemptParts, OthersKept
        DEF Inv, AttemptInv, AttemptsInOrder
      <3>2. DOMAIN logs' = {}
        BY <2>1, <2>2
      <3> QED  BY Zenon, <2>1, <2>2, <2>3, <3>1, <3>2 DEF AttemptsInOrder
    <2>9. AttemptedOnce'
      <3>1. \A i, j \in DOMAIN scheduled' : Same(scheduled'[i], scheduled'[j]) => i + 1 = j + 1
        BY <2>3 DEF AttemptInv, AttemptedOnce
      <3>2. \A i, j \in DOMAIN scheduled' : Same(scheduled'[i], scheduled'[j]) => i = j
        BY <2>3, <3>1
      <3>3. DOMAIN logs' = {}
        BY <2>1, <2>2
      <3> QED  BY <2>1, <2>2, <3>2, <3>3 DEF AttemptedOnce
    <2>10. RefundBoundedByDeposit'
      BY <2>3, <2>6, <2>7, AppliedBounded
    <2> QED  BY <2>8, <2>9, <2>10 DEF AttemptInv
  <1> QED  BY <1>1, <1>2

\* Every step keeps the attempts in order.
LEMMA NextAttempts == Inv /\ AttemptInv /\ [Next]_vars => AttemptInv'
  <1> SUFFICES ASSUME Inv, AttemptInv, [Next]_vars PROVE AttemptInv'
    OBVIOUS
  <1>1. TypeOK'
    BY NextInv DEF Inv
  <1>2. ASSUME NEW s \in Submissions, SubmitRetryable(s) PROVE AttemptInv'
    BY <1>1, <1>2, SubmitAttempts
  <1>3. CASE \A s \in Submissions : ~SubmitRetryable(s)
    <2>1. RecordsAge
      BY <1>3, AgeStep
    <2>2. tx \in {NoTx} \cup UserTx \cup RetryTx
      BY DEF Inv, TypeOK
    <2>3. ASSUME NEW cost, NEW donation, BodyCall(cost, donation)
          PROVE  tx'.kind = "retry" => tx.kind = "retry" /\ tx'.retry = tx.retry
      <3>1. tx' = [tx EXCEPT !.gas = @ - cost, !.donated = @ + donation]
        BY <2>3 DEF BodyCall
      <3> QED  BY <2>2, <3>1 DEF NoTx, UserTx, RetryTx
    <2>4. CASE Body
      <3>1. ASSUME NEW x \in Users, NEW y \in Recipients, NEW a \in Amounts, Send(x, y, a)
            PROVE  AttemptInv'
        BY <1>1, <2>1, <2>3, <3>1, AttemptsFrame DEF Send
      <3>2. ASSUME NEW t \in Tickets, Keepalive(t) PROVE AttemptInv'
        BY <1>1, <2>1, <2>3, <3>2, AttemptsFrame DEF Keepalive
      <3>3. ASSUME NEW c \in Users, NEW t \in Tickets, Cancel(c, t) PROVE AttemptInv'
        BY <1>1, <2>1, <2>3, <3>3, AttemptsFrame DEF Cancel
      <3> QED  BY <1>1, <2>1, <2>4, <3>1, <3>2, <3>3, RedeemAttempts DEF Body
    <2>5. ASSUME NEW time \in 0..MaxTime, StartBlock(time) PROVE AttemptInv'
      <3>1. history'.refunded = history.refunded /\ history'.deposit = history.deposit
        <4> DEFINE w == Monus(history.work, SpeedLimit * (now' - now))
                   n == history.txs + userLeft'
        <4>1. history' = [history EXCEPT !.work = w, !.born = {}, !.txs = n]
          BY <2>5 DEF StartBlock
        <4> HIDE DEF w, n
        <4> QED  BY <4>1 DEF Inv, TypeOK, History
      <3>2. UNCHANGED <<tx, logs, submitted>> /\ scheduled' = << >>
        BY <2>5 DEF StartBlock
      <3> QED  BY <1>1, <2>1, <3>1, <3>2, AttemptsFrame
    <2>6. CASE Step
      <3>1. CASE ScheduleRetry
        BY <1>1, <3>1, ScheduleRetryAttempts
      <3>2. CASE EndMessage \/ SkipUnsupported \/ AbortOnRetry
        BY <1>1, <2>1, <3>2, AttemptsFrame DEF EndMessage, SkipUnsupported, AbortOnRetry, Abort
      <3>3. ASSUME NEW u \in Users, NEW y \in Recipients \cup {FilteredFundsRecipient},
                   NEW a \in Amounts, Deposit(u, y, a)
            PROVE  AttemptInv'
        <4>1. history'.refunded = history.refunded /\ history'.deposit = history.deposit
          <5> DEFINE m == history.minted + a
                     d == history.delivered + a
          <5>1. history' = [history EXCEPT !.minted = m, !.delivered = d]
            BY <3>3 DEF Deposit
          <5> HIDE DEF m, d
          <5> QED  BY <5>1 DEF Inv, TypeOK, History
        <4>2. UNCHANGED <<tx, logs, submitted, scheduled>>
          BY <3>3 DEF Deposit
        <4> QED  BY <1>1, <2>1, <4>1, <4>2, AttemptsFrame
      <3>4. ASSUME NEW u \in Users, NEW g \in GasLimits, BeginUserTx(u, g)
            PROVE  AttemptInv'
        <4>1. tx'.kind # "retry" /\ UNCHANGED <<logs, submitted, scheduled, history>>
          BY <3>4 DEF BeginUserTx
        <4> QED  BY <1>1, <2>1, <4>1, AttemptsFrame
      <3>5. ASSUME NEW u \in Users, NEW g \in GasLimits, RejectUserTx(u, g)
            PROVE  AttemptInv'
        BY <1>1, <2>1, <3>5, AttemptsFrame DEF RejectUserTx, Abort
      <3>6. ASSUME NEW left \in 0..tx.gas, EndUserTx(left) PROVE AttemptInv'
        <4>1. history'.refunded = history.refunded /\ history'.deposit = history.deposit
          <5> DEFINE w == Grow(history.work, tx.limit - left - tx.donated)
          <5>1. history' = [history EXCEPT !.work = w]
            BY <3>6 DEF EndUserTx
          <5> HIDE DEF w
          <5> QED  BY <5>1 DEF Inv, TypeOK, History
        <4>2. tx'.kind # "retry" /\ UNCHANGED <<logs, submitted, scheduled>>
          BY <3>6 DEF EndUserTx, NoTx
        <4> QED  BY <1>1, <2>1, <4>1, <4>2, AttemptsFrame
      <3>7. CASE BeginRetry
        BY <1>1, <3>7, BeginRetryAttempts
      <3>8. ASSUME NEW left \in 0..tx.gas, EndRetry(left) PROVE AttemptInv'
        BY <1>1, <2>1, <3>8, EndRetryAttempts
      <3>9. ASSUME RetryTurn, NEW left \in 0..Head(scheduled).gas, RetryFails(left)
            PROVE  AttemptInv'
        BY <1>1, <2>1, <3>9, RetryFailsAttempts
      <3> QED
        BY <1>3, <2>6, <3>1, <3>2, <3>3, <3>4, <3>5, <3>6, <3>7, <3>8, <3>9 DEF Step
    <2>7. CASE UNCHANGED vars
      BY <1>1, <2>1, <2>7, AttemptsFrame DEF vars
    <2> QED  BY <2>4, <2>5, <2>6, <2>7 DEF Next
  <1> QED  BY <1>2, <1>3

\* The attempts are in order in every state.
LEMMA AttemptsInvariance == Spec => []AttemptInv
  <1>1. Init => AttemptInv
    <2> SUFFICES ASSUME Init PROVE AttemptInv
      OBVIOUS
    <2>1. AttemptsInOrder /\ AttemptedOnce
      <3>1. DOMAIN logs = {} /\ DOMAIN scheduled = {} /\ tx.kind # "retry"
        BY DEF Init, NoTx
      <3> QED  BY <3>1 DEF AttemptsInOrder, AttemptedOnce
    <2>2. RefundBoundedByDeposit
      <3>1. \A t \in Tickets : history.refunded[t] = 0 /\ history.deposit[t] = 0
        BY Zenon DEF Init
      <3>2. 0 <= 0
        OBVIOUS
      <3> QED  BY <3>1, <3>2, Zenon DEF RefundBoundedByDeposit
    <2> QED  BY <2>1, <2>2 DEF AttemptInv
  <1>2. Inv /\ AttemptInv /\ [Next]_vars => AttemptInv'
    BY NextAttempts
  <1> QED  BY <1>1, <1>2, Invariance, PTL DEF Spec

\* A scheduled retry agrees with the record of its ticket for as long as the ticket lives,
\* and no two scheduled retries are the same attempt.
THEOREM EnvelopesStayMatched == Spec => []EnvelopesMatchRecords
  <1>1. AttemptInv => EnvelopesMatchRecords
    BY Zenon DEF AttemptInv, AttemptsInOrder, AttemptedOnce, AttemptOK, Agrees, Same, Live,
           EnvelopesMatchRecords
  <1> QED  BY <1>1, AttemptsInvariance, PTL

\* A submission and its automatic redeem never refund more than the deposit from L1.
THEOREM RefundsStayBounded == Spec => []RefundBoundedByDeposit
  <1>1. AttemptInv => RefundBoundedByDeposit
    BY DEF AttemptInv
  <1> QED  BY <1>1, AttemptsInvariance, PTL

-----------------------------------------------------------------------------
(* The backlog.                                                            *)

\* A step that adds the same gas to both, beyond what was donated.
LEMMA GrowCovers ==
    ASSUME NEW b \in Nat, NEW w \in Nat, NEW d \in Nat, NEW gas \in Nat,
           d <= gas, b + d >= w
    PROVE  Grow(b, gas) + 0 >= Grow(w, gas - d)
  BY NumberFacts DEF Grow, Lesser

\* A step that drains both by the same amount.
LEMMA DrainCovers ==
    ASSUME NEW b \in Nat, NEW w \in Nat, NEW d \in Nat, NEW gas \in Nat, b + d >= w
    PROVE  Monus(b, gas) + d >= Monus(w, gas)
  BY DEF Monus, Lesser

\* A redeem: what the backlog loses was donated.
LEMMA DonateCovers ==
    ASSUME NEW b \in Nat, NEW w \in Nat, NEW d \in Nat, NEW gas \in Nat, b + d >= w
    PROVE  Monus(b, gas) + (d + gas) >= w
  BY DEF Monus, Lesser

\* Every step keeps the work covered.
LEMMA NextBacklog == Inv /\ BacklogCoversWork /\ [Next]_vars => BacklogCoversWork'
  <1> SUFFICES ASSUME Inv, BacklogCoversWork, [Next]_vars PROVE BacklogCoversWork'
    OBVIOUS
  <1>1. /\ backlog \in Nat /\ history \in History /\ history.work \in Nat
        /\ tx \in TxType /\ tx.donated \in Nat /\ tx.gas \in Nat
        /\ backlog + tx.donated >= history.work
    BY Zenon, InvParts, TxKinds, HistoryFields DEF Inv, TypeOK, BacklogCoversWork
  <1>2. CASE backlog' = backlog /\ history'.work = history.work /\ tx'.donated = tx.donated
    BY <1>2 DEF BacklogCoversWork
  <1>3. ASSUME NEW cost, BodyCall(cost, 0), backlog' = backlog, history' = history
        PROVE  BacklogCoversWork'
    <2> DEFINE a == tx.gas - cost
               d == tx.donated + 0
    <2>1. tx' = [tx EXCEPT !.gas = a, !.donated = d] /\ tx # NoTx
      BY <1>3 DEF BodyCall
    <2>2. d = tx.donated
      BY <1>1
    <2> HIDE DEF a, d
    <2>3. tx'.donated = d
      BY <1>1, <2>1 DEF TxType, UserTx, RetryTx
    <2> QED  BY <1>2, <1>3, <2>2, <2>3
  <1>4. CASE Body
    <2>1. ASSUME NEW c \in Users, NEW t \in Tickets, NEW d \in 0..tx.gas, Redeem(c, t, d)
          PROVE  BacklogCoversWork'
      <3> DEFINE a == tx.gas - (CallGas + d)
                 e == tx.donated + d
      <3>1. /\ tx' = [tx EXCEPT !.gas = a, !.donated = e] /\ tx # NoTx
            /\ backlog' = Monus(backlog, d) /\ history' = history
        BY <2>1 DEF Redeem, BodyCall
      <3>2. d \in Nat
        BY <1>1
      <3>3. Monus(backlog, d) + e >= history.work
        BY <1>1, <3>2, DonateCovers
      <3> HIDE DEF a, e
      <3>4. tx'.donated = e
        BY <1>1, <3>1 DEF TxType, UserTx, RetryTx
      <3> QED  BY <3>1, <3>3, <3>4 DEF BacklogCoversWork
    <2>2. ASSUME NEW x \in Users, NEW y \in Recipients, NEW a \in Amounts, Send(x, y, a)
          PROVE  BacklogCoversWork'
      BY <1>3, <2>2 DEF Send
    <2>3. ASSUME NEW t \in Tickets, Keepalive(t) PROVE BacklogCoversWork'
      BY <1>3, <2>3 DEF Keepalive
    <2>4. ASSUME NEW c \in Users, NEW t \in Tickets, Cancel(c, t) PROVE BacklogCoversWork'
      BY <1>3, <2>4 DEF Cancel
    <2> QED  BY <1>4, <2>1, <2>2, <2>3, <2>4 DEF Body
  <1>5. ASSUME NEW time \in 0..MaxTime, StartBlock(time) PROVE BacklogCoversWork'
    <2> DEFINE gas == SpeedLimit * (now' - now)
               w == Monus(history.work, gas)
               n == history.txs + userLeft'
    <2>1. gas \in Nat
      <3>1. now' = IF time > now THEN time ELSE now
        BY <1>5 DEF StartBlock
      <3>2. now \in Nat /\ time \in Nat
        BY NumbersAssumption DEF Inv, TypeOK
      <3>3. now' - now \in Nat
        BY <3>1, <3>2
      <3> QED  BY <3>3, NumberFacts, ProductNat
    <2>2. /\ history' = [history EXCEPT !.work = w, !.born = {}, !.txs = n]
          /\ backlog' = Monus(backlog, gas) /\ tx' = tx
      BY <1>5 DEF StartBlock
    <2> HIDE DEF gas
    <2>3. Monus(backlog, gas) + tx.donated >= w
      BY <1>1, <2>1, DrainCovers
    <2> HIDE DEF w, n
    <2>4. history'.work = w
      BY <1>1, <2>2 DEF History
    <2> QED  BY <2>2, <2>3, <2>4 DEF BacklogCoversWork
  <1>6. ASSUME NEW gas \in Nat, tx.donated <= gas, backlog' = Grow(backlog, gas),
               history'.work = Grow(history.work, gas - tx.donated), tx'.donated = 0
        PROVE  BacklogCoversWork'
    BY <1>1, <1>6, GrowCovers DEF BacklogCoversWork
  <1>7. ASSUME NEW left \in 0..tx.gas, EndUserTx(left) PROVE BacklogCoversWork'
    <2> DEFINE gas == tx.limit - left
               w == Grow(history.work, gas - tx.donated)
    <2>1. tx.kind = "user" /\ tx.limit \in Nat /\ tx.gas + tx.donated <= tx.limit
      BY <1>1, <1>7, TxKinds DEF EndUserTx, Inv, GasBounded
    <2>2. gas \in Nat /\ tx.donated <= gas
      BY <1>1, <2>1
    <2>3. history' = [history EXCEPT !.work = w] /\ backlog' = Grow(backlog, gas) /\ tx' = NoTx
      BY <1>7 DEF EndUserTx
    <2> HIDE DEF gas, w
    <2>4. history'.work = w /\ tx'.donated = 0
      BY <1>1, <2>3 DEF History, NoTx
    <2> QED  BY <1>6, <2>2, <2>3, <2>4 DEF w
  <1>8. ASSUME NEW r \in Envelope, NEW b \in Balances, NEW success \in BOOLEAN, NEW left \in Nat,
               left + tx.donated <= r.gas,
               history' = Refunded(RetryRefunds(b, r, success, left), r, tx.donated, left),
               backlog' = Grow(backlog, r.gas - left), tx'.donated = 0
        PROVE  BacklogCoversWork'
    <2> DEFINE st == RetryRefunds(b, r, success, left)
    <2>1. r.gas \in Nat
      BY EnvelopeFields
    <2>2. r.gas - left \in Nat /\ tx.donated <= r.gas - left /\ left <= r.gas
      BY <1>1, <1>8, <2>1
    <2>3. PICK b2 \in Balances, g \in Nat, f \in Nat, h \in Nat : st = Refunding(b2, g, f, h)
      <3>1. PaidBy(st, b, FeeAccounts, r.maxRefund)
        BY <2>2, RefundsFacts
      <3> QED  BY <3>1 DEF PaidBy
    <2> HIDE DEF st
    <2>4. history' = Refunded(Refunding(b2, g, f, h), r, tx.donated, left)
      BY <1>8, <2>3 DEF st
    <2>5. Counts(history', r, f, h, r.gas - left - tx.donated)
      BY <2>4, RefundedCounts
    <2>6. history'.work = Grow(history.work, r.gas - left - tx.donated)
      BY <2>5 DEF Counts
    <2> QED  BY <1>6, <1>8, <2>2, <2>6
  <1>9. ASSUME NEW left \in 0..tx.gas, EndRetry(left) PROVE BacklogCoversWork'
    <2>1. /\ tx.kind = "retry" /\ tx.retry \in Envelope /\ bal \in Balances
          /\ tx.gas + tx.donated <= tx.retry.gas /\ tx.retry.gas \in Nat
      BY Zenon, <1>1, <1>9, TxKinds, InvParts, EnvelopeFields DEF EndRetry, Inv, GasBounded
    <2>2. left \in Nat /\ left + tx.donated <= tx.retry.gas
      BY <1>1, <2>1
    <2>3. /\ history' = Refunded(RetryRefunds(bal, tx.retry, TRUE, left), tx.retry, tx.donated, left)
          /\ backlog' = Grow(backlog, tx.retry.gas - left) /\ tx'.donated = 0
      BY Zenon, <1>9 DEF EndRetry, NoTx
    <2> QED  BY Zenon, <1>8, <2>1, <2>2, <2>3
  <1>10. ASSUME RetryTurn, NEW left \in 0..Head(scheduled).gas, RetryFails(left)
         PROVE  BacklogCoversWork'
    <2> DEFINE r == Head(scheduled)
               c == CallvalueMoved(r)
    <2>1. CASE Abort("retry_return")
      BY <1>2, <2>1 DEF Abort
    <2>2. CASE ~Abort("retry_return")
      <3>1. /\ history' = Refunded(RetryRefunds(c, r, FALSE, left), r, 0, left)
            /\ backlog' = Grow(backlog, r.gas - left) /\ tx' = tx
            /\ RetryError(r) = "none"
        BY Zenon, <1>10, <2>2 DEF RetryFails
      <3>2. r \in Envelope /\ tx.donated = 0
        BY <1>10, FrontRetry DEF NoTx
      <3>3. c \in Balances
        BY <1>10, <3>1, CallvalueFacts
      <3>4. left \in Nat /\ left + tx.donated <= r.gas
        BY <3>2, EnvelopeFields
      <3> HIDE DEF r, c
      <3> QED  BY Zenon, <1>8, <3>1, <3>2, <3>3, <3>4
    <2> QED  BY <2>1, <2>2
  <1>11. CASE Step
    <2>1. ASSUME NEW s \in Submissions, SubmitRetryable(s) PROVE BacklogCoversWork'
      <3>1. CASE Abort("submit_transfer")
        BY <1>2, <3>1 DEF Abort
      <3>2. CASE ~Abort("submit_transfer")
        <4> DEFINE t == s.ticket
                   m == history.minted + IF SubmitPath(s) = "fee_too_low" THEN 0 ELSE s.deposit
                   d == history.delivered + s.deposit
                   B == history.born \cup {t}
                   k == SubmitStage(s).refunded
        <4>1. /\ history' = [history EXCEPT !.minted = m, !.delivered = d,
                                            !.deposit[t] = s.deposit, !.refunded[t] = k, !.born = B]
              /\ UNCHANGED <<tx, backlog>>
          BY <2>1, <3>2 DEF SubmitRetryable
        <4> HIDE DEF m, d, B, t, k
        <4>2. history'.work = history.work
          BY <1>1, <4>1 DEF History
        <4> QED  BY <1>2, <4>1, <4>2
      <3> QED  BY <3>1, <3>2
    <2>2. ASSUME NEW u \in Users, NEW y \in Recipients \cup {FilteredFundsRecipient},
                 NEW a \in Amounts, Deposit(u, y, a)
          PROVE  BacklogCoversWork'
      <3> DEFINE m == history.minted + a
                 d == history.delivered + a
      <3>1. history' = [history EXCEPT !.minted = m, !.delivered = d] /\ UNCHANGED <<tx, backlog>>
        BY <2>2 DEF Deposit
      <3> HIDE DEF m, d
      <3>2. history'.work = history.work
        BY <1>1, <3>1 DEF History
      <3> QED  BY <1>2, <3>1, <3>2
    <2>3. ASSUME NEW u \in Users, NEW g \in GasLimits, BeginUserTx(u, g) PROVE BacklogCoversWork'
      BY <1>2, <2>3 DEF BeginUserTx, UserTurn, NoTx
    <2>4. CASE BeginRetry
      BY <1>2, <2>4 DEF BeginRetry, RetryTurn, NoTx
    <2> QED
      BY Zenon, <1>2, <1>7, <1>9, <1>10, <1>11, <2>1, <2>2, <2>3, <2>4
      DEF Step, ScheduleRetry, EndMessage, SkipUnsupported, RejectUserTx, AbortOnRetry, Abort
  <1>12. CASE UNCHANGED vars
    BY <1>2, <1>12 DEF vars
  <1> QED  BY <1>4, <1>5, <1>11, <1>12 DEF Next

\* Donating gas to a retry never hides work from the backlog.
THEOREM BacklogStaysCovering == Spec => []BacklogCoversWork
  <1>1. Init => BacklogCoversWork
    BY DEF Init, BacklogCoversWork, NoTx
  <1>2. Inv /\ BacklogCoversWork /\ [Next]_vars => BacklogCoversWork'
    BY NextBacklog
  <1> QED  BY <1>1, <1>2, Invariance, PTL DEF Spec
=============================================================================
