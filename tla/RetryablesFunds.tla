--------------------------- MODULE RetryablesFunds ---------------------------
(***************************************************************************)
(* The fee accounts can always pay the refunds of retries in full, for     *)
(* every value of the constants of Retryables.                             *)
(***************************************************************************)
EXTENDS RetryablesProofs

-----------------------------------------------------------------------------
(* What the fee accounts may have to pay back.  A redeem that was logged,  *)
(* a scheduled retry and the running retry may each claim the price of all *)
(* their gas, and the submission fee.  The invariant says that each fee    *)
(* account holds the sum of all these claims.  The gas that the running    *)
(* transaction donated is an exception: a user transaction pays the fee    *)
(* accounts for it when it ends, a retry does not claim it.                *)

\* What attempt x may claim from fee account a.
Owed(a, x) == Due(a, x.gas, x.submissionFeeRefund)

\* n covers the claims of the sequence s on account a: p[i] those from the i-th on.
Covers(n, a, s) ==
    \E p \in [1 .. Len(s) + 1 -> Nat] :
       /\ p[1] = n
       /\ \A i \in 1 .. Len(s) : p[i] >= Owed(a, s[i]) + p[i + 1]

\* What the running transaction may claim.
Held(a, x) == IF x.kind = "retry" THEN Owed(a, x.retry) ELSE 0

\* Balance b of account a covers the claims of the running transaction x, the scheduled
\* retries s and the logs l.
Backed(a, b, x, s, l) ==
    \E m \in Nat, n \in Nat :
       /\ Covers(m, a, s) /\ Covers(n, a, l)
       /\ b + Rate(a) * x.donated >= m + n + Held(a, x)

FundsInv ==
    /\ RefundsFullyFunded
    /\ \A a \in FeeAccounts : Backed(a, bal[a], tx, scheduled, logs)

\* Prices of sums of gas.
LEMMA RateSum ==
    ASSUME NEW a, NEW g \in Nat, NEW h \in Nat
    PROVE  /\ Rate(a) * g \in Nat /\ Rate(a) * h \in Nat
           /\ Rate(a) * (g + h) = Rate(a) * g + Rate(a) * h
           /\ Rate(a) * 0 = 0
  <1>1. Rate(a) \in Nat /\ Rate(a) * g \in Nat /\ Rate(a) * h \in Nat
    BY RateSplit
  <1>2. \A x, y, z \in Int : x * (y + z) = x * y + x * z /\ x * 0 = 0
    BY SMT
  <1> QED  BY <1>1

\* No claims are covered by nothing.
LEMMA CoverNone ==
    ASSUME NEW a
    PROVE  Covers(0, a, << >>)
  <1> DEFINE p == [i \in 1 .. 1 |-> 0]
  <1>1. Len(<< >>) = 0
    OBVIOUS
  <1>2. p \in [1 .. 0 + 1 -> Nat] /\ p[1] = 0
    OBVIOUS
  <1> HIDE DEF p
  <1>3. \A i \in 1 .. 0 : p[i] >= Owed(a, << >>[i]) + p[i + 1]
    OBVIOUS
  <1> QED  BY <1>2 DEF Covers

\* One more claim.
LEMMA CoverAppend ==
    ASSUME NEW a, NEW S, NEW s \in Seq(S), NEW n \in Nat, Covers(n, a, s), NEW x \in S,
           \A y \in S : Owed(a, y) \in Nat
    PROVE  Covers(n + Owed(a, x), a, Append(s, x))
  <1> DEFINE w == Owed(a, x)
             k == Len(s)
             u == Append(s, x)
  <1>0. \E p \in [1 .. k + 1 -> Nat] :
           p[1] = n /\ \A i \in 1 .. k : p[i] >= Owed(a, s[i]) + p[i + 1]
    BY Zenon DEF Covers
  <1>1. PICK p \in [1 .. k + 1 -> Nat] :
           p[1] = n /\ \A i \in 1 .. k : p[i] >= Owed(a, s[i]) + p[i + 1]
    BY Zenon, <1>0
  <1> DEFINE q == [i \in 1 .. k + 2 |-> IF i <= k + 1 THEN p[i] + w ELSE 0]
  <1>2. /\ k \in Nat /\ Len(u) = k + 1 /\ u[k + 1] = x
        /\ \A i \in 1 .. k : u[i] = s[i]
    OBVIOUS
  <1> HIDE DEF w, k, u
  <1>3. w \in Nat
    BY DEF w
  <1>4. q \in [1 .. k + 2 -> Nat] /\ q[1] = n + w
    BY <1>1, <1>2, <1>3
  <1>5. ASSUME NEW i \in 1 .. k + 1 PROVE q[i] >= Owed(a, u[i]) + q[i + 1]
    <2>1. CASE i = k + 1
      <3>1. q[i] = p[i] + w /\ q[i + 1] = 0 /\ p[i] \in Nat /\ u[i] = x
        BY <1>2, <2>1
      <3>2. Owed(a, u[i]) = w
        BY <3>1 DEF w
      <3> QED  BY <3>1, <3>2
    <2>2. CASE i \in 1 .. k
      <3>1. q[i] = p[i] + w /\ q[i + 1] = p[i + 1] + w /\ u[i] = s[i]
        BY <1>2, <2>2
      <3>2. p[i] \in Nat /\ p[i + 1] \in Nat /\ p[i] >= Owed(a, u[i]) + p[i + 1]
        BY <1>1, <1>2, <2>2
      <3>3. Owed(a, u[i]) \in Nat
        BY <2>2, <3>1 DEF k
      <3> HIDE DEF q
      <3> QED  BY <1>3, <3>1, <3>2, <3>3
    <2> QED  BY <1>2, <2>1, <2>2
  <1> HIDE DEF q
  <1>6. Len(u) + 1 = k + 2
    BY <1>2
  <1> QED  BY Zenon, <1>2, <1>4, <1>5, <1>6 DEF Covers, w, u

\* One claim less.
LEMMA CoverTail ==
    ASSUME NEW a, NEW S, NEW s \in Seq(S), s # << >>, NEW n \in Nat, Covers(n, a, s)
    PROVE  \E m \in Nat : Covers(m, a, Tail(s)) /\ n >= Owed(a, Head(s)) + m
  <1> DEFINE k == Len(s)
             u == Tail(s)
  <1>1. PICK p \in [1 .. k + 1 -> Nat] :
           p[1] = n /\ \A i \in 1 .. k : p[i] >= Owed(a, s[i]) + p[i + 1]
    BY DEF Covers
  <1> DEFINE q == [i \in 1 .. k |-> p[i + 1]]
  <1>2. /\ k \in Nat \ {0} /\ Len(u) = k - 1 /\ \A i \in 1 .. k - 1 : u[i] = s[i + 1]
        /\ Head(s) = s[1]
    OBVIOUS
  <1> HIDE DEF k, u
  <1>3. q \in [1 .. k -> Nat] /\ q[1] = p[2] /\ p[2] \in Nat
    BY <1>2
  <1>4. ASSUME NEW i \in 1 .. k - 1 PROVE q[i] >= Owed(a, u[i]) + q[i + 1]
    <2>1. q[i] = p[i + 1] /\ q[i + 1] = p[i + 1 + 1] /\ u[i] = s[i + 1] /\ i + 1 \in 1 .. k
      BY <1>2
    <2> HIDE DEF q
    <2> QED  BY <1>1, <2>1
  <1>5. n >= Owed(a, Head(s)) + p[2]
    <2>1. 1 \in 1 .. k /\ 1 + 1 = 2
      BY <1>2
    <2> QED  BY <1>1, <2>1
  <1> HIDE DEF q
  <1>6. Len(u) + 1 = k
    BY <1>2
  <1>7. Covers(p[2], a, u)
    BY Zenon, <1>2, <1>3, <1>4, <1>6 DEF Covers
  <1> QED  BY <1>3, <1>5, <1>7 DEF u
\* The claims of attempts are numbers.
LEMMA OwedNat ==
    ASSUME NEW a
    PROVE  /\ \A x \in Envelope : Owed(a, x) \in Nat
           /\ \A x \in RedeemLog : Owed(a, x) \in Nat
           /\ \A x \in TxType : Held(a, x) \in Nat
  <1>1. \A x \in Envelope : Owed(a, x) \in Nat
    BY EnvelopeFields, DueNat DEF Owed
  <1>2. \A x \in RedeemLog : Owed(a, x) \in Nat
    BY LogFields, DueNat DEF Owed
  <1>3. \A x \in TxType : Held(a, x) \in Nat
    BY <1>1, TxKinds DEF Held
  <1> QED  BY <1>1, <1>2, <1>3

\* A balance that covers its claims covers them when it grows, when the scheduled retries
\* are dropped, and while the running transaction claims and donates the same.
LEMMA BackedKept ==
    ASSUME NEW a, NEW b \in Nat, NEW c \in Nat, c >= b, NEW x \in TxType, NEW s, NEW l,
           Backed(a, b, x, s, l), NEW y \in TxType, y.donated = x.donated,
           y.kind = "retry" => x.kind = "retry" /\ y.retry = x.retry
    PROVE  Backed(a, c, y, s, l) /\ Backed(a, c, y, << >>, l)
  <1>1. PICK m \in Nat, n \in Nat :
           /\ Covers(m, a, s) /\ Covers(n, a, l)
           /\ b + Rate(a) * x.donated >= m + n + Held(a, x)
    BY DEF Backed
  <1>2. /\ Held(a, x) \in Nat /\ Held(a, y) \in Nat /\ x.donated \in Nat
    BY OwedNat, TxKinds
  <1>3. Held(a, x) >= Held(a, y)
    BY <1>2 DEF Held
  <1> DEFINE d == Rate(a) * x.donated
  <1>4. d \in Nat /\ d = Rate(a) * y.donated
    BY <1>2, RateSplit
  <1> HIDE DEF d
  <1>5. c + d >= m + n + Held(a, y) /\ c + d >= 0 + n + Held(a, y)
    BY <1>1, <1>2, <1>3, <1>4 DEF d
  <1>6. Covers(0, a, << >>) /\ 0 \in Nat
    BY CoverNone
  <1> QED  BY <1>1, <1>4, <1>5, <1>6 DEF Backed

\* A redeem is logged: the gas it donates is claimed by the retry to come.
LEMMA BackedLogged ==
    ASSUME NEW a, NEW b \in Nat, NEW x \in TxType, NEW s, NEW l \in Seq(RedeemLog),
           Backed(a, b, x, s, l), NEW y \in TxType, NEW e \in RedeemLog,
           NEW d \in Nat, y.donated = x.donated + d, y.kind = x.kind,
           x.kind = "retry" => y.retry = x.retry,
           NEW c \in Nat, c + Rate(a) * d >= b + Owed(a, e)
    PROVE  Backed(a, c, y, s, Append(l, e))
  <1>1. PICK m \in Nat, n \in Nat :
           /\ Covers(m, a, s) /\ Covers(n, a, l)
           /\ b + Rate(a) * x.donated >= m + n + Held(a, x)
    BY DEF Backed
  <1>2. /\ Held(a, x) \in Nat /\ Held(a, y) = Held(a, x) /\ x.donated \in Nat
        /\ Owed(a, e) \in Nat
    BY OwedNat, TxKinds DEF Held
  <1>3. Covers(n + Owed(a, e), a, Append(l, e)) /\ n + Owed(a, e) \in Nat
    BY <1>1, OwedNat, CoverAppend
  <1> DEFINE p == Rate(a) * x.donated
             q == Rate(a) * d
  <1>4. p \in Nat /\ q \in Nat /\ Rate(a) * y.donated = p + q
    <2>1. PICK k \in Nat : k = x.donated
      BY <1>2
    <2>2. Rate(a) * k \in Nat /\ q \in Nat /\ Rate(a) * (k + d) = Rate(a) * k + q
      BY Zenon, RateSum
    <2>3. p = Rate(a) * k /\ Rate(a) * y.donated = Rate(a) * (k + d)
      BY <2>1, Zenon
    <2> QED  BY <2>2, <2>3, Zenon
  <1>5. b + p >= m + n + Held(a, x) /\ c + q >= b + Owed(a, e)
    BY <1>1
  <1> HIDE DEF p, q
  <1>6. c + (p + q) >= m + (n + Owed(a, e)) + Held(a, y)
    BY <1>2, <1>4, <1>5
  <1> QED  BY <1>1, <1>3, <1>4, <1>6 DEF Backed

\* A log becomes a scheduled retry with the same claims, or nothing.
LEMMA BackedScheduled ==
    ASSUME NEW a, NEW b \in Nat, NEW s \in Seq(Envelope), NEW l \in Seq(RedeemLog), l # << >>,
           NEW x \in TxType, Backed(a, b, x, s, l)
    PROVE  /\ Backed(a, b, x, s, Tail(l))
           /\ \A e \in Envelope : Owed(a, e) = Owed(a, Head(l))
                                  => Backed(a, b, x, Append(s, e), Tail(l))
  <1>1. PICK m \in Nat, n \in Nat :
           /\ Covers(m, a, s) /\ Covers(n, a, l)
           /\ b + Rate(a) * x.donated >= m + n + Held(a, x)
    BY DEF Backed
  <1> DEFINE w == Owed(a, Head(l))
  <1>2. Held(a, x) \in Nat /\ x.donated \in Nat /\ w \in Nat
    <2>1. Head(l) \in RedeemLog
      OBVIOUS
    <2> QED  BY <2>1, OwedNat, TxKinds
  <1>3. PICK k \in Nat : Covers(k, a, Tail(l)) /\ n >= w + k
    BY <1>1, CoverTail
  <1> DEFINE p == Rate(a) * x.donated
  <1>4. p \in Nat /\ b + p >= m + n + Held(a, x)
    BY Zenon, <1>1, <1>2, RateSum
  <1> HIDE DEF p, w
  <1>5. m + w \in Nat /\ b + p >= m + k + Held(a, x) /\ b + p >= (m + w) + k + Held(a, x)
    BY <1>2, <1>3, <1>4
  <1>6. ASSUME NEW e \in Envelope, Owed(a, e) = w
        PROVE  Backed(a, b, x, Append(s, e), Tail(l))
    <2>1. Covers(m + w, a, Append(s, e))
      BY <1>1, <1>6, OwedNat, CoverAppend
    <2> QED  BY <1>3, <1>5, <2>1 DEF Backed, p
  <1>7. Backed(a, b, x, s, Tail(l))
    BY <1>1, <1>3, <1>5 DEF Backed, p
  <1> QED  BY <1>6, <1>7 DEF w

\* Balance b covers the claim o beside those of s and l.
Spare(a, b, o, s, l) ==
    \E m \in Nat, n \in Nat : Covers(m, a, s) /\ Covers(n, a, l) /\ b >= m + n + o

\* The retry at the front claims from the balance while no transaction runs.
LEMMA BackedFront ==
    ASSUME NEW a, NEW b \in Nat, NEW s \in Seq(Envelope), s # << >>, NEW l,
           Backed(a, b, NoTx, s, l)
    PROVE  Spare(a, b, Owed(a, Head(s)), Tail(s), l)
  <1>1. PICK k \in Nat, n \in Nat :
           /\ Covers(k, a, s) /\ Covers(n, a, l)
           /\ b + Rate(a) * NoTx.donated >= k + n + Held(a, NoTx)
    BY DEF Backed
  <1>2. Rate(a) * NoTx.donated = 0 /\ Held(a, NoTx) = 0
    BY RateSum DEF NoTx, Held
  <1>3. PICK m \in Nat : Covers(m, a, Tail(s)) /\ k >= Owed(a, Head(s)) + m
    BY <1>1, CoverTail
  <1>4. Owed(a, Head(s)) \in Nat
    BY OwedNat
  <1>5. b >= m + n + Owed(a, Head(s))
    BY <1>1, <1>2, <1>3, <1>4
  <1> QED  BY <1>1, <1>3, <1>5 DEF Spare

\* A retry claims less for the gas it has left.
LEMMA DueLess ==
    ASSUME NEW a, NEW g \in Nat, NEW h \in Nat, h <= g, NEW fee \in Nat
    PROVE  Due(a, h, fee) \in Nat /\ Due(a, g, fee) \in Nat /\ Due(a, h, fee) <= Due(a, g, fee)
  <1>1. PICK k \in Nat : g = h + k
    <2>1. g - h \in Nat /\ g = h + (g - h)
      OBVIOUS
    <2> QED  BY <2>1
  <1>2. /\ Rate(a) * h \in Nat /\ Rate(a) * k \in Nat
        /\ Rate(a) * g = Rate(a) * h + Rate(a) * k
    BY Zenon, <1>1, RateSum
  <1>3. Rate(a) * h <= Rate(a) * g
    BY <1>2
  <1>4. Due(a, h, fee) \in Nat /\ Due(a, g, fee) \in Nat
    BY DueNat
  <1> QED  BY <1>2 DEF Due

\* A smaller claim is covered as well.
LEMMA SpareLess ==
    ASSUME NEW a, NEW b \in Nat, NEW o \in Nat, NEW w \in Nat, w <= o, NEW s, NEW l,
           Spare(a, b, o, s, l)
    PROVE  Spare(a, b, w, s, l) /\ b >= w
  <1>1. PICK m \in Nat, n \in Nat : Covers(m, a, s) /\ Covers(n, a, l) /\ b >= m + n + o
    BY DEF Spare
  <1>2. b >= m + n + w /\ b >= w
    BY <1>1
  <1> QED  BY <1>2 DEF Spare

\* The running retry does not claim the gas it donated.
LEMMA SpareRunning ==
    ASSUME NEW a, NEW b \in Nat, NEW x \in TxType, x.kind = "retry", NEW s, NEW l,
           Backed(a, b, x, s, l), NEW left \in Nat, left + x.donated <= x.retry.gas
    PROVE  Spare(a, b, Due(a, left, x.retry.submissionFeeRefund), s, l)
  <1> DEFINE fee == x.retry.submissionFeeRefund
             gas == x.retry.gas
             d == x.donated
  <1>1. fee \in Nat /\ gas \in Nat /\ d \in Nat
    BY TxKinds, EnvelopeFields
  <1>2. PICK m \in Nat, n \in Nat :
           /\ Covers(m, a, s) /\ Covers(n, a, l)
           /\ b + Rate(a) * d >= m + n + Due(a, gas, fee)
    BY DEF Backed, Held, Owed
  <1>3. left + d <= gas
    OBVIOUS
  <1> HIDE DEF fee, gas, d
  <1>4. Due(a, left + d, fee) \in Nat /\ Due(a, gas, fee) \in Nat
        /\ Due(a, left + d, fee) <= Due(a, gas, fee)
    BY <1>1, <1>3, DueLess
  <1>5. /\ Rate(a) * d \in Nat /\ Rate(a) * left \in Nat
        /\ Rate(a) * (left + d) = Rate(a) * left + Rate(a) * d
    BY <1>1, RateSum
  <1>6. Due(a, left, fee) \in Nat
    BY <1>1, DueNat
  <1>7. Due(a, left + d, fee) = Due(a, left, fee) + Rate(a) * d
    <2> DEFINE f == IF a = NetworkFeeAccount THEN fee ELSE 0
    <2>1. f \in Nat
      BY <1>1
    <2>2. Due(a, left + d, fee) = Rate(a) * (left + d) + f /\ Due(a, left, fee) = Rate(a) * left + f
      BY DEF Due
    <2> HIDE DEF f
    <2> QED  BY <1>5, <2>1, <2>2
  <1>8. b >= m + n + Due(a, left, fee)
    BY <1>2, <1>4, <1>5, <1>6, <1>7
  <1> QED  BY <1>2, <1>8 DEF Spare, fee

\* Once the claim has been paid, and while no transaction runs, the rest is covered.
LEMMA SparePaid ==
    ASSUME NEW a, NEW b \in Nat, NEW o \in Nat, NEW s, NEW l, Spare(a, b, o, s, l),
           NEW c \in Nat, c >= b - o
    PROVE  Backed(a, c, NoTx, s, l)
  <1>1. PICK m \in Nat, n \in Nat : Covers(m, a, s) /\ Covers(n, a, l) /\ b >= m + n + o
    BY DEF Spare
  <1>2. Rate(a) * NoTx.donated = 0 /\ Held(a, NoTx) = 0
    BY RateSum DEF NoTx, Held
  <1>3. c + 0 >= m + n + 0
    BY <1>1
  <1> QED  BY <1>1, <1>2 DEF Backed
-----------------------------------------------------------------------------
(* The refunds of a retry.                                                 *)

\* st is a refund in progress that fell short of nothing, for which account source has
\* paid at most amount since b and nobody else anything.
PaidInFull(st, b, source, amount) ==
    \E b2 \in Balances, g2 \in Nat, f2 \in Nat :
       /\ st = Refunding(b2, g2, f2, 0)
       /\ b2[source] >= b[source] - amount
       /\ \A z \in Addresses \ {source} : b2[z] >= b[z]

\* A fee account that has the amount pays all of it.
LEMMA FeeRefundPaid ==
    ASSUME NEW b \in Balances, NEW g \in Nat, NEW f \in Nat,
           NEW source \in Addresses, NEW amount \in Nat, NEW r \in Envelope,
           b[source] >= amount, source = ZeroAddress => amount = 0
    PROVE  PaidInFull(RetryFeeRefund(Refunding(b, g, f, 0), source, amount, r), b, source,
                      amount)
  <1> DEFINE st == Refunding(b, g, f, 0)
             within == Lesser(amount, g)
             paid == Pay(b, source, r.refundTo, within)
             rest == amount - within
             b2 == Pay(paid, source, r.from, rest)
  <1>1. r.refundTo \in Addresses /\ r.from \in Addresses /\ b[source] \in Nat
    BY EnvelopeFields DEF Balances
  <1>2. within \in Nat /\ within <= amount /\ within <= g
    BY LesserFacts
  <1> HIDE DEF st, within, paid, rest, b2
  <1>3. b[source] >= within /\ Lesser(within, b[source]) = within
    BY <1>1, <1>2 DEF Lesser
  <1>4. /\ paid \in Balances /\ paid[source] >= b[source] - within
        /\ \A z \in Addresses \ {source} : paid[z] >= b[z]
    BY <1>1, <1>2, PayFacts DEF paid
  <1>5. /\ rest \in Nat /\ paid[source] \in Nat /\ g - within \in Nat /\ f + within \in Nat
        /\ 0 + amount - within - rest = 0
    BY <1>2, <1>4 DEF rest, Balances
  <1>6. paid[source] >= rest /\ Lesser(rest, paid[source]) = rest
    BY <1>1, <1>2, <1>4, <1>5 DEF rest, Lesser
  <1>7. /\ b2 \in Balances /\ b2[source] >= paid[source] - rest
        /\ \A z \in Addresses \ {source} : b2[z] >= paid[z]
    BY <1>1, <1>4, <1>5, <1>6, PayFacts DEF b2
  <1>8. \A z \in Addresses \ {source} : b2[z] >= b[z]
    BY <1>4, <1>7, RisesTwice
  <1>9. b2[source] >= b[source] - amount
    BY <1>2, <1>4, <1>7 DEF rest, Balances
  <1>10. st.bal = b /\ st.budget = g /\ st.refunded = f /\ st.short = 0
    BY RefundingFields DEF st
  <1>11. CASE source = ZeroAddress
    <2>1. RetryFeeRefund(st, source, amount, r) = [st EXCEPT !.budget = g - within]
      BY <1>10, <1>11 DEF RetryFeeRefund, within
    <2>2. [st EXCEPT !.budget = g - within] = Refunding(b, g - within, f, 0)
      BY RefundingFields DEF st
    <2>3. \A z \in Addresses : b[z] >= b[z] /\ b[z] >= b[z] - 0
      BY DEF Balances
    <2> QED  BY <1>5, <1>11, <2>1, <2>2, <2>3 DEF st, PaidInFull
  <1>12. CASE source # ZeroAddress
    <2>1. RetryFeeRefund(st, source, amount, r)
          = [bal |-> b2, budget |-> g - within, refunded |-> f + within,
             short |-> 0 + amount - within - rest]
      BY <1>3, <1>6, <1>10, <1>12 DEF RetryFeeRefund, within, paid, rest, b2
    <2>2. RetryFeeRefund(st, source, amount, r) = Refunding(b2, g - within, f + within, 0)
      BY <1>5, <2>1 DEF Refunding
    <2> QED  BY <1>5, <1>7, <1>8, <1>9, <2>2 DEF st, PaidInFull
  <1> QED  BY <1>11, <1>12

\* st is the end of the refunds of retry r, which fell short of nothing and for which the
\* fee accounts have paid at most what r may claim.
AllPaid(st, b, r, left) ==
    \E b2 \in Balances, g2 \in Nat, f2 \in Nat :
       /\ st = Refunding(b2, g2, f2, 0)
       /\ \A a \in FeeAccounts : b2[a] >= b[a] - Due(a, left, r.submissionFeeRefund)

\* Fee accounts that have what a retry may claim for the gas left pay it in full, and
\* lose no more.
LEMMA RefundsPaid ==
    ASSUME NEW b \in Balances, NEW r \in Envelope, NEW success \in BOOLEAN,
           NEW left \in Nat, left <= r.gas,
           \A a \in FeeAccounts : b[a] >= Due(a, left, r.submissionFeeRefund)
    PROVE  AllPaid(RetryRefunds(b, r, success, left), b, r, left)
  <1> DEFINE fee == r.submissionFeeRefund
             N == NetworkFeeAccount
             I == InfraFeeAccount
             start == Refunding(b, r.maxRefund, 0, 0)
             first == IF success
                      THEN RetryFeeRefund(start, N, fee, r)
                      ELSE [start EXCEPT !.budget = Monus(@, fee)]
             spent == BaseFee * (r.gas - left)
             work == [first EXCEPT !.budget = Monus(@, spent)]
             p == InfraPrice * left
             q == (BaseFee - InfraPrice) * left
             infra == RetryFeeRefund(work, I, p, r)
             end == RetryFeeRefund(infra, N, q, r)
             D1(a) == IF a = N THEN fee ELSE 0
             D2(a) == IF a = I THEN p ELSE 0
             D3(a) == IF a = N THEN q ELSE 0
  <1>0. RetryRefunds(b, r, success, left) = end
    BY DEF RetryRefunds, Refunding
  <1> HIDE DEF start, first, spent, work, infra, end
  <1>1. /\ r.maxRefund \in Nat /\ fee \in Nat /\ N \in Addresses /\ I \in Addresses
        /\ \A a \in FeeAccounts : a \in Addresses /\ a \in {N, I}
        /\ N \in FeeAccounts /\ I \in FeeAccounts /\ N # ZeroAddress
    BY EnvelopeFields, AddressFacts, FeeAccountAssumption DEF FeeAccounts
  <1>2. spent \in Nat /\ p \in Nat /\ q \in Nat /\ (I = ZeroAddress => p = 0)
    <2>1. r.gas - left \in Nat
      BY EnvelopeFields
    <2>2. I = ZeroAddress => InfraPrice = 0
      BY DEF InfraPrice
    <2>3. 0 * left = 0
      OBVIOUS
    <2> QED  BY <2>1, <2>2, PriceSplit DEF spent
  <1>3. \A a : Due(a, left, fee) = D1(a) + D2(a) + D3(a)
    <2> TAKE a
    <2>1. Rate(a) * left = D2(a) + D3(a)
      BY RateSplit
    <2> QED  BY <1>1, <1>2, <2>1 DEF Due
  <1>4. \A a : D1(a) \in Nat /\ D2(a) \in Nat /\ D3(a) \in Nat
    BY <1>1, <1>2
  <1>5. \A a \in FeeAccounts : b[a] \in Nat /\ b[a] >= D1(a) + D2(a) + D3(a)
    BY <1>1, <1>3 DEF Balances
  <1>6. D1(N) = fee /\ D3(N) = q /\ D2(I) = p /\ (I = N => D3(I) = q)
    OBVIOUS
  <1>7. \A a : (a # N => D1(a) = 0 /\ D3(a) = 0) /\ (a # I => D2(a) = 0)
    OBVIOUS
  <1> HIDE DEF D1, D2, D3, p, q, fee, N, I
  <1>8. PICK b1 \in Balances, g1 \in Nat, f1 \in Nat :
           first = Refunding(b1, g1, f1, 0) /\ \A a \in FeeAccounts : b1[a] >= b[a] - D1(a)
    <2>1. CASE success
      <3>1. first = RetryFeeRefund(start, N, fee, r)
        BY <2>1 DEF first
      <3>2. b[N] >= fee
        BY <1>1, <1>4, <1>5, <1>6
      <3>3. PICK b1 \in Balances, g1 \in Nat, f1 \in Nat :
               /\ first = Refunding(b1, g1, f1, 0) /\ b1[N] >= b[N] - fee
               /\ \A z \in Addresses \ {N} : b1[z] >= b[z]
        <4>1. PaidInFull(first, b, N, fee)
          BY <1>1, <3>1, <3>2, FeeRefundPaid DEF start
        <4> QED  BY <4>1 DEF PaidInFull
      <3>4. \A a \in FeeAccounts : b1[a] >= b[a] - D1(a)
        <4> TAKE a \in FeeAccounts
        <4>1. CASE a = N
          BY <1>6, <3>3, <4>1
        <4>2. CASE a # N
          BY <1>1, <1>5, <1>7, <3>3, <4>2
        <4> QED  BY <4>1, <4>2
      <3> QED  BY <3>3, <3>4
    <2>2. CASE ~success
      <3>1. first = Refunding(b, Monus(r.maxRefund, fee), 0, 0)
        BY <2>2, RefundingFields DEF first, start
      <3>2. Monus(r.maxRefund, fee) \in Nat
        BY Zenon, <1>1, LesserFacts
      <3>3. \A a \in FeeAccounts : b[a] >= b[a] - D1(a)
        BY <1>4, <1>5
      <3> QED  BY <3>1, <3>2, <3>3
    <2> QED  BY <2>1, <2>2
  <1>9. \A a \in FeeAccounts : b1[a] \in Nat /\ b1[a] >= D2(a) + D3(a)
    <2> TAKE a \in FeeAccounts
    <2>1. b1[a] \in Nat
      BY <1>1 DEF Balances
    <2> QED  BY <1>4, <1>5, <1>8, <2>1
  <1>10. work = Refunding(b1, Monus(g1, spent), f1, 0) /\ Monus(g1, spent) \in Nat
    BY <1>2, <1>8, RefundingFields, LesserFacts DEF work
  <1>11. b1[I] >= p
    BY <1>1, <1>4, <1>6, <1>9
  <1>12. PICK b2 \in Balances, g2 \in Nat, f2 \in Nat :
            /\ infra = Refunding(b2, g2, f2, 0) /\ b2[I] >= b1[I] - p
            /\ \A z \in Addresses \ {I} : b2[z] >= b1[z]
    <2>1. PaidInFull(infra, b1, I, p)
      BY <1>1, <1>2, <1>10, <1>11, FeeRefundPaid DEF infra
    <2> QED  BY <2>1 DEF PaidInFull
  <1>13. \A a \in FeeAccounts : b2[a] >= b1[a] - D2(a)
    <2> TAKE a \in FeeAccounts
    <2>1. CASE a = I
      BY <1>6, <1>12, <2>1
    <2>2. CASE a # I
      BY <1>1, <1>7, <1>9, <1>12, <2>2
    <2> QED  BY <2>1, <2>2
  <1>14. \A a \in FeeAccounts : b2[a] \in Nat /\ b2[a] >= D3(a)
    <2> TAKE a \in FeeAccounts
    <2>1. b2[a] \in Nat
      BY <1>1 DEF Balances
    <2> QED  BY <1>4, <1>9, <1>13, <2>1
  <1>15. b2[N] >= q
    BY <1>1, <1>6, <1>14
  <1>16. PICK b3 \in Balances, g3 \in Nat, f3 \in Nat :
            /\ end = Refunding(b3, g3, f3, 0) /\ b3[N] >= b2[N] - q
            /\ \A z \in Addresses \ {N} : b3[z] >= b2[z]
    <2>1. PaidInFull(end, b2, N, q)
      BY <1>1, <1>2, <1>12, <1>15, FeeRefundPaid DEF end
    <2> QED  BY <2>1 DEF PaidInFull
  <1>17. \A a \in FeeAccounts : b3[a] >= b2[a] - D3(a)
    <2> TAKE a \in FeeAccounts
    <2>1. CASE a = N
      BY <1>6, <1>16, <2>1
    <2>2. CASE a # N
      BY <1>1, <1>7, <1>14, <1>16, <2>2
    <2> QED  BY <2>1, <2>2
  <1>18. \A a \in FeeAccounts : b3[a] >= b[a] - Due(a, left, fee)
    <2> TAKE a \in FeeAccounts
    <2>1. b3[a] \in Nat
      BY <1>1 DEF Balances
    <2> QED  BY <1>3, <1>4, <1>5, <1>8, <1>9, <1>13, <1>14, <1>17, <2>1
  <1> QED  BY <1>0, <1>16, <1>18 DEF fee, AllPaid
-----------------------------------------------------------------------------
(* The steps.                                                              *)

\* The types of what the invariant speaks of.
LEMMA FundsTypes ==
    ASSUME TypeOK
    PROVE  /\ bal \in Balances /\ tx \in TxType /\ tx.donated \in Nat
           /\ scheduled \in Seq(Envelope) /\ logs \in Seq(RedeemLog)
           /\ \A a \in FeeAccounts : a \in Addresses /\ bal[a] \in Nat
  <1>1. bal \in Balances /\ tx \in TxType
    BY InvParts
  <1>2. \A a \in FeeAccounts : a \in Addresses
    BY AddressFacts DEF FeeAccounts
  <1>3. \A a \in FeeAccounts : bal[a] \in Nat
    BY <1>1, <1>2 DEF Balances
  <1>4. tx.donated \in Nat
    BY <1>1, TxKinds
  <1> QED  BY <1>1, <1>2, <1>4 DEF TypeOK

\* A step that neither takes from a fee account nor makes a claim.
LEMMA FundsFrame ==
    ASSUME TypeOK, TypeOK', FundsInv, history'.short = history.short,
           \A a \in FeeAccounts : bal'[a] >= bal[a],
           tx'.donated = tx.donated,
           tx'.kind = "retry" => tx.kind = "retry" /\ tx'.retry = tx.retry,
           scheduled' = scheduled \/ scheduled' = << >>, logs' = logs
    PROVE  FundsInv'
  <1>1. RefundsFullyFunded'
    BY DEF FundsInv, RefundsFullyFunded
  <1>2. ASSUME NEW a \in FeeAccounts PROVE Backed(a, bal'[a], tx', scheduled', logs')
    <2>1. bal[a] \in Nat /\ tx \in TxType /\ Backed(a, bal[a], tx, scheduled, logs)
      BY FundsTypes DEF FundsInv
    <2>2. bal'[a] \in Nat /\ tx' \in TxType
      <3>1. bal' \in Balances /\ tx' \in TxType
        BY DEF TypeOK, Balances, TxType
      <3>2. a \in Addresses
        BY FundsTypes
      <3> QED  BY <3>1, <3>2 DEF Balances
    <2>3. Backed(a, bal'[a], tx', scheduled, logs) /\ Backed(a, bal'[a], tx', << >>, logs)
      BY <2>1, <2>2, BackedKept
    <2> QED  BY <2>3
  <1> QED  BY <1>1, <1>2 DEF FundsInv

\* A step that leaves the balances and the transaction alone too.
LEMMA FundsStutter ==
    ASSUME TypeOK, TypeOK', FundsInv, UNCHANGED <<bal, scheduled, tx, logs, history>>
    PROVE  FundsInv'
  <1>1. \A a \in FeeAccounts : bal'[a] >= bal[a]
    BY FundsTypes
  <1> QED  BY <1>1, FundsFrame

\* StartBlock drops the scheduled retries of an aborted message.
LEMMA StartBlockFunds ==
    ASSUME Inv, TypeOK', FundsInv, NEW time \in 0..MaxTime, StartBlock(time)
    PROVE  FundsInv'
  <1>1. \A a \in FeeAccounts : bal'[a] >= bal[a]
    BY StartBlockInv
  <1>2. scheduled' = << >> /\ tx' = tx /\ logs' = logs
    BY DEF StartBlock
  <1>3. history'.short = history.short
    <2> DEFINE w == Monus(history.work, SpeedLimit * (now' - now))
               n == history.txs + userLeft'
    <2>1. history' = [history EXCEPT !.work = w, !.born = {}, !.txs = n]
      BY DEF StartBlock
    <2> HIDE DEF w, n
    <2>2. history \in History
      BY DEF Inv, TypeOK
    <2> QED  BY <2>1 DEF History
  <1> QED  BY <1>1, <1>2, <1>3, FundsFrame DEF Inv

\* Deposit takes from nobody.
LEMMA DepositFunds ==
    ASSUME Inv, TypeOK', FundsInv, NEW u \in Users, NEW y \in Addresses, NEW a \in Amounts,
           Deposit(u, y, a)
    PROVE  FundsInv'
  <1> DEFINE b0 == [bal EXCEPT ![u] = @ + a]
             m == history.minted + a
             d == history.delivered + a
  <1>1. a \in Nat /\ u \in Addresses /\ bal \in Balances
    BY NumbersAssumption, AddressFacts, FundsTypes DEF Inv
  <1>2. b0 \in Balances /\ b0[u] >= a /\ \A z \in Addresses \ {u} : b0[z] = bal[z]
    BY <1>1 DEF Balances
  <1>3. /\ bal' = Pay(b0, u, y, a) /\ UNCHANGED <<tx, scheduled, logs>>
        /\ history' = [history EXCEPT !.minted = m, !.delivered = d]
    BY DEF Deposit
  <1> HIDE DEF b0, m, d
  <1>4. \A z \in Addresses \ {u} : bal'[z] >= b0[z]
    BY <1>1, <1>2, <1>3, PayFacts
  <1>5. \A z \in FeeAccounts : bal'[z] >= bal[z]
    <2> TAKE z \in FeeAccounts
    <2>1. z \in Addresses /\ z # u
      BY AddressFacts, FeeAccountAssumption DEF FeeAccounts
    <2> QED  BY <1>2, <1>4, <2>1
  <1>6. history'.short = history.short
    <2>1. history \in History
      BY DEF Inv, TypeOK
    <2> QED  BY <1>3 DEF History
  <1> QED  BY <1>3, <1>5, FundsFrame DEF Inv

\* ScheduleRetry turns a claim of a log into the same claim of a retry.
LEMMA ScheduleRetryFunds ==
    ASSUME Inv, TypeOK', FundsInv, ScheduleRetry
    PROVE  FundsInv'
  <1>1. /\ logs # << >> /\ logs' = Tail(logs) /\ UNCHANGED <<bal, tx, history>>
    BY DEF ScheduleRetry
  <1>2. RefundsFullyFunded'
    BY Zenon, <1>1 DEF FundsInv, RefundsFullyFunded
  <1> DEFINE l == Head(logs)
             r == rec[l.ticket]
             e == [ticket |-> l.ticket, seq |-> l.seq, gas |-> l.gas, refundTo |-> l.refundTo,
                   maxRefund |-> l.maxRefund,
                   submissionFeeRefund |-> l.submissionFeeRefund, from |-> r.from,
                   to |-> r.to, value |-> r.callvalue, intrinsic |-> r.intrinsic]
  <1>3. scheduled' = scheduled \/ scheduled' = Append(scheduled, e)
    BY DEF ScheduleRetry
  <1>4. e.gas = l.gas /\ e.submissionFeeRefund = l.submissionFeeRefund
    OBVIOUS
  <1> HIDE DEF e
  <1>5. ASSUME NEW a \in FeeAccounts PROVE Backed(a, bal'[a], tx', scheduled', logs')
    <2>1. /\ bal[a] \in Nat /\ tx \in TxType /\ Backed(a, bal[a], tx, scheduled, logs)
          /\ scheduled \in Seq(Envelope) /\ logs \in Seq(RedeemLog)
      BY FundsTypes DEF FundsInv, Inv
    <2>2. CASE scheduled' = scheduled
      BY <1>1, <2>1, <2>2, BackedScheduled
    <2>3. CASE scheduled' = Append(scheduled, e)
      <3>1. e \in Envelope
        <4>1. scheduled' \in Seq(Envelope)
          BY DEF TypeOK
        <4>2. /\ Len(scheduled') = Len(scheduled) + 1 /\ Len(scheduled) \in Nat
              /\ scheduled'[Len(scheduled) + 1] = e
          BY <2>3
        <4> QED  BY <4>1, <4>2
      <3>2. Owed(a, e) = Owed(a, Head(logs))
        BY <1>4 DEF Owed
      <3> QED  BY <1>1, <2>1, <2>3, <3>1, <3>2, BackedScheduled
    <2> QED  BY <1>3, <2>2, <2>3
  <1> QED  BY Zenon, <1>2, <1>5 DEF FundsInv

\* SubmitRetryable pays the fee accounts all that the retry it logs may claim.
LEMMA SubmitFunds ==
    ASSUME Inv, TypeOK', FundsInv, NEW s \in Submission, SubmitRetryable(s)
    PROVE  FundsInv'
  <1>1. UserTurn /\ tx = NoTx /\ logs = << >>
    BY DEF SubmitRetryable, UserTurn
  <1>2. PICK b \in Balances, v \in Nat, r \in Nat :
           /\ SubmitStage(s) = Funded(b, v, r)
           /\ \A z \in FeeAccounts : b[z] >= bal[z]
           /\ SubmitPath(s) = "redeem" =>
                 \A z \in FeeAccounts :
                    b[z] >= bal[z] + Due(z, s.gasLimit, s.submissionFee)
    BY FundsTypes, SubmitFacts DEF Inv
  <1>3. SubmitStage(s).result = "ok" /\ SubmitStage(s).bal = b
    BY <1>2, FundedFields
  <1> DEFINE t == s.ticket
             m == history.minted + IF SubmitPath(s) = "fee_too_low" THEN 0 ELSE s.deposit
             d == history.delivered + s.deposit
             n == SubmitStage(s).refunded
             born == history.born \cup {t}
  <1>4. /\ bal' = b /\ scheduled' = scheduled /\ tx' = tx
        /\ logs' = IF SubmitPath(s) = "redeem" THEN <<SubmitLog(s)>> ELSE << >>
        /\ history' = [history EXCEPT !.minted = m, !.delivered = d, !.deposit[t] = s.deposit,
                                      !.refunded[t] = n, !.born = born]
    BY <1>3 DEF SubmitRetryable
  <1> HIDE DEF t, m, d, n, born
  <1>5. history'.short = history.short
    <2>1. history \in History
      BY DEF Inv, TypeOK
    <2> QED  BY <1>4 DEF History
  <1>6. CASE SubmitPath(s) # "redeem"
    BY <1>1, <1>2, <1>4, <1>6, FundsFrame DEF Inv
  <1>7. CASE SubmitPath(s) = "redeem"
    <2> DEFINE e == SubmitLog(s)
    <2>1. e.gas = s.gasLimit /\ e.submissionFeeRefund = s.submissionFee
      BY DEF SubmitLog
    <2>2. logs' = <<e>>
      BY <1>4, <1>7
    <2> HIDE DEF e
    <2>3. e \in RedeemLog
      <3>1. logs' \in Seq(RedeemLog)
        BY DEF TypeOK
      <3>2. Len(<<e>>) = 1 /\ <<e>>[1] = e
        OBVIOUS
      <3> QED  BY <2>2, <3>1
    <2>4. ASSUME NEW a \in FeeAccounts PROVE Backed(a, bal'[a], tx', scheduled', logs')
      <3>1. /\ bal[a] \in Nat /\ tx \in TxType /\ Backed(a, bal[a], tx, scheduled, << >>)
            /\ tx.donated \in Nat /\ a \in Addresses /\ << >> \in Seq(RedeemLog)
        BY <1>1, FundsTypes DEF FundsInv, Inv
      <3>2. Append(<< >>, e) = <<e>>
        OBVIOUS
      <3>3. b[a] >= bal[a] + Owed(a, e) /\ b[a] \in Nat
        BY <1>2, <1>7, <2>1, <3>1 DEF Owed, Balances
      <3>4. b[a] + Rate(a) * 0 >= bal[a] + Owed(a, e) /\ 0 \in Nat
        BY <3>3, RateSum
      <3>5. tx.donated = tx.donated + 0
        BY <3>1
      <3>6. Backed(a, b[a], tx, scheduled, Append(<< >>, e))
        BY Zenon, <2>3, <3>1, <3>3, <3>4, <3>5, BackedLogged
      <3> QED  BY <1>4, <2>2, <3>6
    <2>5. RefundsFullyFunded'
      BY <1>5 DEF FundsInv, RefundsFullyFunded
    <2> QED  BY <2>4, <2>5 DEF FundsInv
  <1> QED  BY <1>6, <1>7

\* EndUserTx pays the fee accounts for the gas the transaction donated.
LEMMA EndUserTxFunds ==
    ASSUME Inv, TypeOK', FundsInv, NEW left \in 0..tx.gas, EndUserTx(left)
    PROVE  FundsInv'
  <1> DEFINE back == BaseFee * left
             used == tx.limit - left
             u == tx.origin
             b0 == [bal EXCEPT ![u] = @ + back]
             w == Grow(history.work, tx.limit - left - tx.donated)
  <1>1. /\ tx.kind = "user" /\ u \in Users /\ tx.limit \in Nat /\ tx.gas \in Nat
        /\ tx.donated \in Nat /\ tx.gas + tx.donated <= tx.limit /\ bal \in Balances
    BY InvParts, TxKinds DEF Inv, EndUserTx, GasBounded
  <1>2. left \in Nat /\ used \in Nat /\ tx.donated <= used
    BY <1>1
  <1>3. back \in Nat
    BY PriceSplit
  <1>4. /\ bal' = PayFees(b0, used) /\ tx' = NoTx /\ UNCHANGED <<scheduled, logs>>
        /\ history' = [history EXCEPT !.work = w]
    BY DEF EndUserTx
  <1> HIDE DEF back, used, u, w
  <1>5. b0 \in Balances /\ \A z \in Addresses : b0[z] >= bal[z]
    BY <1>1, <1>3, AddressFacts DEF Balances
  <1> HIDE DEF b0
  <1>6. history'.short = history.short
    <2>1. history \in History
      BY DEF Inv, TypeOK
    <2> QED  BY <1>4 DEF History
  <1>7. ASSUME NEW a \in FeeAccounts PROVE Backed(a, bal'[a], tx', scheduled', logs')
    <2> DEFINE g == tx.donated
               h == used - tx.donated
    <2>1. /\ bal[a] \in Nat /\ Backed(a, bal[a], tx, scheduled, logs)
          /\ a \in Addresses /\ b0[a] \in Nat /\ b0[a] >= bal[a]
      BY <1>5, FundsTypes DEF FundsInv, Inv, Balances
    <2>2. bal'[a] = b0[a] + Rate(a) * used
      <3> DEFINE p == InfraPrice * used
                 q == (BaseFee - InfraPrice) * used
      <3>1. p \in Nat /\ q \in Nat
        BY <1>2, PriceSplit
      <3>2. Rate(a) * used = (IF a = InfraFeeAccount THEN p ELSE 0)
                             + (IF a = NetworkFeeAccount THEN q ELSE 0)
        BY <1>2, RateSplit
      <3> HIDE DEF p, q
      <3> DEFINE c == [b0 EXCEPT ![InfraFeeAccount] = @ + p]
      <3>3. bal' = [c EXCEPT ![NetworkFeeAccount] = @ + q]
        BY <1>4 DEF PayFees, p, q
      <3>4. InfraFeeAccount \in Addresses /\ NetworkFeeAccount \in Addresses
        BY AddressFacts
      <3>5. bal'[a] = b0[a] + ((IF a = InfraFeeAccount THEN p ELSE 0)
                              + (IF a = NetworkFeeAccount THEN q ELSE 0))
        <4>1. /\ c \in Balances /\ c[a] \in Nat
              /\ c[a] = b0[a] + IF a = InfraFeeAccount THEN p ELSE 0
          <5>1. b0[InfraFeeAccount] \in Nat
            BY <1>5, <3>4 DEF Balances
          <5> DEFINE k == b0[InfraFeeAccount] + p
          <5>2. k \in Nat /\ c = [b0 EXCEPT ![InfraFeeAccount] = k]
            BY <3>1, <5>1
          <5> HIDE DEF c, k
          <5>3. c \in Balances
            BY Zenon, <1>5, <5>2 DEF Balances
          <5>4. c[a] = IF a = InfraFeeAccount THEN k ELSE b0[a]
            BY <1>5, <2>1, <5>2 DEF Balances
          <5>5. c[a] = b0[a] + IF a = InfraFeeAccount THEN p ELSE 0
            BY <2>1, <5>4 DEF k
          <5> QED  BY <2>1, <3>1, <5>3, <5>5
        <4> HIDE DEF c
        <4>2. bal'[a] = c[a] + IF a = NetworkFeeAccount THEN q ELSE 0
          BY <3>3, <3>4, <4>1 DEF Balances
        <4> QED  BY <2>1, <3>1, <4>1, <4>2
      <3> QED  BY <3>2, <3>5
    <2>3. g \in Nat /\ h \in Nat /\ used = g + h
      BY <1>1, <1>2
    <2> HIDE DEF g, h
    <2>4. Rate(a) * g \in Nat /\ Rate(a) * h \in Nat /\ Rate(a) * used = Rate(a) * g + Rate(a) * h
      BY <2>3, RateSum
    <2>5. PICK m \in Nat, n \in Nat :
             /\ Covers(m, a, scheduled) /\ Covers(n, a, logs)
             /\ bal[a] + Rate(a) * g >= m + n + Held(a, tx)
      BY <2>1 DEF Backed, g
    <2>6. Held(a, tx) = 0
      BY Zenon, <1>1 DEF Held
    <2>7. bal'[a] >= m + n /\ bal'[a] \in Nat
      BY <2>1, <2>2, <2>4, <2>5, <2>6
    <2>8. Rate(a) * NoTx.donated = 0 /\ Held(a, NoTx) = 0
      BY RateSum DEF NoTx, Held
    <2>9. bal'[a] + 0 >= m + n + 0
      BY <2>7
    <2> QED  BY <1>4, <2>5, <2>8, <2>9 DEF Backed
  <1>8. RefundsFullyFunded'
    BY <1>6 DEF FundsInv, RefundsFullyFunded
  <1> QED  BY <1>7, <1>8 DEF FundsInv

\* Redeem claims the price of the gas it donates, which the caller has bought.
LEMMA RedeemFunds ==
    ASSUME Inv, TypeOK', FundsInv, NEW c \in Users, NEW t \in Tickets, NEW d \in 0..tx.gas,
           Redeem(c, t, d)
    PROVE  FundsInv'
  <1> DEFINE e == [ticket |-> t, seq |-> rec[t].numTries, gas |-> d, refundTo |-> c,
                   maxRefund |-> MaxU256, submissionFeeRefund |-> 0]
  <1>1. /\ BodyCall(CallGas + d, d) /\ logs' = Append(logs, e)
        /\ UNCHANGED <<bal, scheduled, history>>
    BY DEF Redeem
  <1>2. e.gas = d /\ e.submissionFeeRefund = 0
    OBVIOUS
  <1> HIDE DEF e
  <1>3. d \in Nat
    <2>1. tx.gas \in Nat
      BY Zenon, InvParts, TxKinds DEF Inv
    <2> QED  BY <2>1
  <1>4. /\ tx' \in TxType /\ tx'.kind = tx.kind /\ tx'.donated = tx.donated + d
        /\ tx.kind = "retry" => tx'.retry = tx.retry
    <2>1. CallGas + d \in Nat /\ d <= CallGas + d
      BY NumberFacts
    <2> QED  BY <1>1, <2>1, BodyCallFacts DEF TxType
  <1>5. logs \in Seq(RedeemLog) /\ e \in RedeemLog
    <2>1. logs \in Seq(RedeemLog) /\ logs' \in Seq(RedeemLog)
      BY DEF Inv, TypeOK
    <2>2. Len(logs) \in Nat /\ Len(logs') = Len(logs) + 1 /\ logs'[Len(logs) + 1] = e
      BY <1>1
    <2> QED  BY <2>1, <2>2
  <1>6. ASSUME NEW a \in FeeAccounts PROVE Backed(a, bal'[a], tx', scheduled', logs')
    <2>1. bal[a] \in Nat /\ tx \in TxType /\ Backed(a, bal[a], tx, scheduled, logs)
      BY FundsTypes DEF FundsInv, Inv
    <2>2. Owed(a, e) = Rate(a) * d /\ Rate(a) * d \in Nat
      <3>1. Rate(a) * d \in Nat
        BY RateSplit
      <3> QED  BY <1>2, <3>1 DEF Owed, Due
    <2>3. bal[a] + Rate(a) * d >= bal[a] + Owed(a, e)
      BY <2>1, <2>2
    <2>4. Backed(a, bal[a], tx', scheduled, Append(logs, e))
      BY <1>4, <1>5, <2>1, <2>3, BackedLogged
    <2> QED  BY <1>1, <2>4
  <1>7. RefundsFullyFunded'
    BY <1>1 DEF FundsInv, RefundsFullyFunded
  <1> QED  BY <1>6, <1>7 DEF FundsInv

\* BeginUserTx takes from a user alone.
LEMMA BeginUserTxFunds ==
    ASSUME Inv, TypeOK', FundsInv, NEW u \in Users, NEW g \in GasLimits, BeginUserTx(u, g)
    PROVE  FundsInv'
  <1> DEFINE cost == BaseFee * g
             rest == g - TxGas
  <1>1. /\ bal' = [bal EXCEPT ![u] = @ - cost] /\ tx = NoTx
        /\ tx' = [kind |-> "user", origin |-> u, limit |-> g, gas |-> rest, donated |-> 0]
        /\ UNCHANGED <<scheduled, logs, history>>
    BY DEF BeginUserTx, UserTurn
  <1> HIDE DEF cost, rest
  <1>2. tx'.donated = tx.donated /\ tx'.kind # "retry"
    BY <1>1 DEF NoTx
  <1>3. \A z \in FeeAccounts : bal'[z] >= bal[z]
    <2> TAKE z \in FeeAccounts
    <2>1. z \in Addresses /\ z # u /\ bal[z] \in Nat /\ bal \in Balances
      BY FundsTypes, FeeAccountAssumption DEF FeeAccounts, Inv
    <2>2. bal'[z] = bal[z]
      BY Zenon, <1>1, <2>1 DEF Balances
    <2> QED  BY <2>1, <2>2
  <1> QED  BY Zenon, <1>1, <1>2, <1>3, FundsFrame DEF Inv

\* A call of the body that logs nothing and takes from no fee account.
LEMMA BodyFunds ==
    ASSUME Inv, TypeOK', FundsInv, BodyCall(CallGas, 0),
           \A z \in FeeAccounts : bal'[z] >= bal[z], UNCHANGED <<scheduled, logs, history>>
    PROVE  FundsInv'
  <1>1. /\ tx'.kind = tx.kind /\ tx'.donated = tx.donated + 0
        /\ tx.kind = "retry" => tx'.retry = tx.retry
    BY NumberFacts, BodyCallFacts
  <1>2. tx'.donated = tx.donated
    <2>1. tx.donated \in Nat
      BY FundsTypes DEF Inv
    <2> QED  BY <1>1, <2>1
  <1> QED  BY Zenon, <1>1, <1>2, FundsFrame DEF Inv

\* Send, Keepalive and Cancel are such calls.
LEMMA CallFunds ==
    ASSUME Inv, TypeOK', FundsInv
    PROVE  /\ \A x \in Users, y \in Addresses, a \in Amounts : Send(x, y, a) => FundsInv'
           /\ \A t \in Tickets : Keepalive(t) => FundsInv'
           /\ \A c \in Users, t \in Tickets : Cancel(c, t) => FundsInv'
  <1>1. ASSUME NEW x \in Users, NEW y \in Addresses, NEW a \in Amounts, Send(x, y, a)
        PROVE  FundsInv'
    <2>1. /\ BodyCall(CallGas, 0) /\ bal[x] >= a /\ bal' = Pay(bal, x, y, a)
          /\ UNCHANGED <<scheduled, logs, history>>
      BY Zenon, <1>1 DEF Send
    <2>2. a \in Nat /\ x \in Addresses /\ bal \in Balances
      BY NumbersAssumption, AddressFacts, FundsTypes DEF Inv
    <2>3. \A z \in Addresses \ {x} : bal'[z] >= bal[z]
      BY <2>1, <2>2, PayFacts
    <2>4. \A z \in FeeAccounts : z \in Addresses /\ z # x
      BY AddressFacts, FeeAccountAssumption DEF FeeAccounts
    <2> QED  BY Zenon, <2>1, <2>3, <2>4, BodyFunds
  <1>2. ASSUME NEW t \in Tickets, Keepalive(t) PROVE FundsInv'
    <2>1. BodyCall(CallGas, 0) /\ UNCHANGED <<bal, scheduled, logs, history>>
      BY <1>2 DEF Keepalive
    <2>2. \A z \in FeeAccounts : bal'[z] >= bal[z]
      BY <2>1, FundsTypes DEF Inv
    <2> QED  BY <2>1, <2>2, BodyFunds
  <1>3. ASSUME NEW c \in Users, NEW t \in Tickets, Cancel(c, t) PROVE FundsInv'
    <2>1. /\ BodyCall(CallGas, 0) /\ UNCHANGED <<queue, submitted, scheduled, logs, history>>
          /\ rec' = DeleteRetryable(Store(bal), t).rec
          /\ bal' = DeleteRetryable(Store(bal), t).bal
      BY <1>3 DEF Cancel
    <2>2. bal \in Balances /\ \A u \in Tickets \ {t} : bal[Escrow[u]] >= bal[Escrow[u]]
      <3>1. bal \in Balances
        BY FundsTypes DEF Inv
      <3>2. \A u \in Tickets : bal[Escrow[u]] \in Nat
        BY Zenon, <3>1, AddressFacts DEF Balances
      <3> QED  BY <3>1, <3>2
    <2>3. \A z \in FeeAccounts : bal'[z] >= bal[z]
      BY <2>1, <2>2, TicketDeleted
    <2> QED  BY <2>1, <2>3, BodyFunds
  <1> QED  BY Zenon, <1>1, <1>2, <1>3

\* BeginRetry: the claim of the retry at the front becomes that of the running one.
LEMMA BeginRetryFunds ==
    ASSUME Inv, TypeOK', FundsInv, BeginRetry
    PROVE  FundsInv'
  <1> DEFINE r == Head(scheduled)
             b == CallvalueMoved(r)
             g == r.gas - r.intrinsic
  <1>1. /\ RetryTurn /\ RetryError(r) = "none" /\ b[r.from] >= r.value
        /\ bal' = Pay(b, r.from, r.to, r.value)
        /\ tx' = [kind |-> "retry", retry |-> r, limit |-> r.gas, gas |-> g, donated |-> 0]
        /\ scheduled' = Tail(scheduled) /\ UNCHANGED <<logs, history>>
    BY Zenon DEF BeginRetry
  <1>2. r \in Envelope /\ scheduled # << >> /\ tx = NoTx
    BY Zenon, <1>1, FrontRetry DEF RetryTurn
  <1>3. b \in Balances /\ \A z \in FeeAccounts : b[z] >= bal[z]
    BY Zenon, <1>1, CallvalueFacts
  <1> HIDE DEF b, g
  <1>4. RefundsFullyFunded'
    BY <1>1 DEF FundsInv, RefundsFullyFunded
  <1>5. ASSUME NEW a \in FeeAccounts PROVE Backed(a, bal'[a], tx', scheduled', logs')
    <2>1. /\ a \in Addresses /\ bal[a] \in Nat /\ Backed(a, bal[a], NoTx, scheduled, logs)
          /\ scheduled \in Seq(Envelope)
      BY Zenon, <1>2, FundsTypes DEF FundsInv, Inv
    <2>2. Spare(a, bal[a], Owed(a, r), scheduled', logs')
      BY <1>1, <1>2, <2>1, BackedFront
    <2>3. PICK m \in Nat, n \in Nat :
             Covers(m, a, scheduled') /\ Covers(n, a, logs') /\ bal[a] >= m + n + Owed(a, r)
      BY <2>2 DEF Spare
    <2> HIDE DEF r
    <2>4. Held(a, tx') = Owed(a, r) /\ tx'.donated = 0
      BY <1>1 DEF Held
    <2>5. Rate(a) * tx'.donated = 0 /\ Owed(a, r) \in Nat
      BY <1>2, <2>4, RateSum, OwedNat
    <2>6. bal'[a] >= bal[a] /\ bal'[a] \in Nat
      <3>1. /\ r.from \in Addresses /\ r.to \in Addresses /\ r.value \in Nat
            /\ r.from \notin FeeAccounts
        BY <1>2, EnvelopeFields
      <3>2. bal' \in Balances /\ bal'[a] >= b[a]
        BY Zenon, <1>1, <1>3, <2>1, <3>1, PayFacts
      <3>3. b[a] >= bal[a] /\ b[a] \in Nat /\ bal'[a] \in Nat
        BY <1>3, <2>1, <3>2 DEF Balances
      <3> QED  BY <2>1, <3>2, <3>3
    <2>7. bal'[a] + 0 >= m + n + Owed(a, r)
      BY <2>1, <2>3, <2>5, <2>6
    <2> QED  BY <2>3, <2>4, <2>5, <2>7 DEF Backed
  <1> QED  BY <1>4, <1>5 DEF FundsInv

\* The shortfall that the history counts grows by that of the refunds.
LEMMA ShortKept ==
    ASSUME Inv, RefundsFullyFunded, NEW r \in Envelope, NEW b, NEW g, NEW f \in Nat,
           NEW donated, NEW left,
           history' = Refunded(Refunding(b, g, f, 0), r, donated, left)
    PROVE  RefundsFullyFunded'
  <1>1. Counts(history', r, f, 0, r.gas - left - donated)
    BY RefundedCounts
  <1>2. history'.short = history.short + 0
    BY <1>1 DEF Counts
  <1> QED  BY <1>2 DEF RefundsFullyFunded

\* EndRetry pays no more than the retry may claim, and the claim is gone.
LEMMA EndRetryFunds ==
    ASSUME Inv, TypeOK', FundsInv, NEW left \in 0..tx.gas, EndRetry(left)
    PROVE  FundsInv'
  <1> DEFINE r == tx.retry
             t == r.ticket
             st == RetryRefunds(bal, r, TRUE, left)
             due(a) == Due(a, left, r.submissionFeeRefund)
  <1>1. /\ tx.kind = "retry" /\ r \in Envelope /\ tx.gas \in Nat /\ tx.donated \in Nat
        /\ tx.gas + tx.donated <= r.gas /\ bal \in Balances /\ tx \in TxType
    BY Zenon, InvParts, TxKinds DEF Inv, EndRetry, GasBounded
  <1>2. /\ t \in Tickets /\ r.gas \in Nat /\ r.submissionFeeRefund \in Nat
        /\ \A u \in Tickets : Escrow[u] \in Addresses /\ Escrow[u] \notin FeeAccounts
    BY <1>1, EnvelopeFields, AddressFacts, EscrowAssumption
  <1>3. left \in Nat /\ left <= r.gas /\ left + tx.donated <= r.gas
    BY <1>1, <1>2
  <1>4. ASSUME NEW a \in FeeAccounts
        PROVE  /\ a \in Addresses /\ bal[a] \in Nat /\ due(a) \in Nat
               /\ Spare(a, bal[a], due(a), scheduled, logs) /\ bal[a] >= due(a)
    <2>1. a \in Addresses /\ bal[a] \in Nat /\ Backed(a, bal[a], tx, scheduled, logs)
      BY FundsTypes DEF FundsInv, Inv
    <2>2. due(a) \in Nat
      BY <1>2, DueNat
    <2>3. Spare(a, bal[a], due(a), scheduled, logs)
      BY <1>1, <1>3, <2>1, SpareRunning
    <2> HIDE DEF due
    <2>4. due(a) <= due(a)
      BY <2>2
    <2> QED  BY <2>1, <2>2, <2>3, SpareLess
  <1>5. PICK b \in Balances, g \in Nat, f \in Nat :
           /\ st = Refunding(b, g, f, 0)
           /\ \A a \in FeeAccounts : b[a] >= bal[a] - due(a)
    <2>1. AllPaid(st, bal, r, left)
      BY Zenon, <1>1, <1>3, <1>4, RefundsPaid
    <2> QED  BY Zenon, <2>1 DEF AllPaid
  <1>6. PICK h \in Nat : /\ st = Refunding(b, g, f, h)
                         /\ \A z \in Addresses \ FeeAccounts : b[z] >= bal[z]
    <2>1. PaidBy(st, bal, FeeAccounts, r.maxRefund)
      BY Zenon, <1>1, <1>3, RefundsFacts
    <2>2. PICK b2 \in Balances, g2 \in Nat, f2 \in Nat, h2 \in Nat :
             /\ st = Refunding(b2, g2, f2, h2)
             /\ \A z \in Addresses \ FeeAccounts : b2[z] >= bal[z]
      BY Zenon, <2>1 DEF PaidBy
    <2> HIDE DEF st
    <2>3. b2 = b /\ h2 = 0 /\ 0 \in Nat
      BY <1>5, <2>2, RefundingFields
    <2> QED  BY <1>5, <2>2, <2>3
  <1> HIDE DEF st, r, due
  <1>7. st.bal = b
    BY <1>5, RefundingFields
  <1>8. /\ rec' = DeleteRetryable(Store(b), t).rec /\ bal' = DeleteRetryable(Store(b), t).bal
        /\ history' = Refunded(st, r, tx.donated, left) /\ tx' = NoTx
        /\ UNCHANGED <<queue, submitted, scheduled, logs>>
    BY Zenon, <1>7 DEF EndRetry, r, st
  <1>9. \A z \in FeeAccounts : bal'[z] >= b[z]
    <2>1. \A u \in Tickets \ {t} : b[Escrow[u]] >= bal[Escrow[u]]
      BY Zenon, <1>2, <1>6
    <2> HIDE DEF t
    <2> QED  BY <1>2, <1>8, <2>1, TicketDeleted
  <1>10. RefundsFullyFunded'
    BY <1>1, <1>5, <1>8, ShortKept DEF FundsInv
  <1>11. ASSUME NEW a \in FeeAccounts PROVE Backed(a, bal'[a], tx', scheduled', logs')
    <2>1. bal'[a] \in Nat /\ b[a] \in Nat
      BY Zenon, <1>4 DEF TypeOK, Balances
    <2>2. bal'[a] >= bal[a] - due(a)
      BY <1>4, <1>5, <1>9, <2>1
    <2>3. Backed(a, bal'[a], NoTx, scheduled, logs)
      BY <1>4, <2>1, <2>2, SparePaid
    <2> QED  BY <1>8, <2>3
  <1> QED  BY <1>10, <1>11 DEF FundsInv

\* RetryFails pays from the claim of the retry at the front, and returns the callvalue.
LEMMA RetryFailsFunds ==
    ASSUME Inv, TypeOK', FundsInv, RetryTurn, NEW left \in 0..Head(scheduled).gas,
           RetryFails(left)
    PROVE  FundsInv'
  <1> DEFINE r == Head(scheduled)
             v == rec[r.ticket].callvalue
             e == Escrow[r.ticket]
             c == CallvalueMoved(r)
             st == RetryRefunds(c, r, FALSE, left)
             due(a) == Due(a, left, r.submissionFeeRefund)
  <1>1. r \in Envelope /\ scheduled # << >> /\ tx = NoTx
    BY FrontRetry DEF RetryTurn
  <1>2. /\ c \in Balances /\ v \in Nat /\ c[r.from] >= v
        /\ \A z \in FeeAccounts : c[z] >= bal[z]
    <2>1. RetryError(r) = "none"
      BY DEF RetryFails
    <2> QED  BY <2>1, CallvalueFacts
  <1>3. /\ r.ticket \in Tickets /\ r.gas \in Nat /\ r.submissionFeeRefund \in Nat
        /\ r.from \in Addresses /\ r.from \notin FeeAccounts /\ e \in Addresses
        /\ left \in Nat /\ left <= r.gas
    BY <1>1, EnvelopeFields, AddressFacts
  <1> HIDE DEF c
  <1>4. ASSUME NEW a \in FeeAccounts
        PROVE  /\ a \in Addresses /\ c[a] \in Nat /\ due(a) \in Nat /\ bal[a] \in Nat
               /\ Spare(a, bal[a], due(a), Tail(scheduled), logs) /\ c[a] >= due(a)
    <2>1. /\ a \in Addresses /\ bal[a] \in Nat /\ Backed(a, bal[a], NoTx, scheduled, logs)
          /\ scheduled \in Seq(Envelope)
      BY <1>1, FundsTypes DEF FundsInv, Inv
    <2>2. Spare(a, bal[a], Owed(a, r), Tail(scheduled), logs)
      BY <1>1, <2>1, BackedFront
    <2>3. Owed(a, r) \in Nat /\ due(a) \in Nat /\ due(a) <= Owed(a, r)
      BY <1>3, DueLess DEF Owed
    <2> HIDE DEF due, r
    <2>4. Spare(a, bal[a], due(a), Tail(scheduled), logs) /\ bal[a] >= due(a)
      BY Zenon, <2>1, <2>2, <2>3, SpareLess
    <2>5. c[a] \in Nat /\ c[a] >= bal[a]
      BY <1>2, <2>1 DEF Balances
    <2> QED  BY <2>1, <2>3, <2>4, <2>5
  <1> HIDE DEF r
  <1>5. PICK b \in Balances, g \in Nat, f \in Nat :
           /\ st = Refunding(b, g, f, 0)
           /\ \A a \in FeeAccounts : b[a] >= c[a] - due(a)
    <2>1. AllPaid(st, c, r, left)
      BY Zenon, <1>1, <1>2, <1>3, <1>4, RefundsPaid
    <2> QED  BY Zenon, <2>1 DEF AllPaid
  <1>6. b[r.from] >= c[r.from]
    <2>1. PaidBy(st, c, FeeAccounts, r.maxRefund)
      BY Zenon, <1>1, <1>2, <1>3, RefundsFacts
    <2>2. PICK b2 \in Balances, g2 \in Nat, f2 \in Nat, h2 \in Nat :
             /\ st = Refunding(b2, g2, f2, h2)
             /\ \A z \in Addresses \ FeeAccounts : b2[z] >= c[z]
      BY Zenon, <2>1 DEF PaidBy
    <2> HIDE DEF st
    <2>3. b2 = b
      BY <1>5, <2>2, RefundingFields
    <2> QED  BY <1>3, <2>2, <2>3
  <1> HIDE DEF st, due, v
  <1>7. st.bal = b
    BY <1>5, RefundingFields
  <1>8. b[r.from] >= v
    <2>1. b[r.from] \in Nat /\ c[r.from] \in Nat
      BY <1>2, <1>3 DEF Balances
    <2> QED  BY <1>2, <1>6, <2>1
  <1>9. /\ bal' = Pay(b, r.from, e, v) /\ history' = Refunded(st, r, 0, left)
        /\ scheduled' = Tail(scheduled) /\ UNCHANGED <<tx, logs>>
    <2>1. ~(b[r.from] < v)
      BY <1>2, <1>3, <1>8 DEF Balances
    <2> QED  BY Zenon, <1>7, <2>1 DEF RetryFails, r, c, st, v
  <1>10. \A z \in Addresses \ {r.from} : bal'[z] >= b[z]
    BY Zenon, <1>2, <1>3, <1>8, <1>9, PayFacts
  <1>11. RefundsFullyFunded'
    BY Zenon, <1>1, <1>5, <1>9, ShortKept DEF FundsInv
  <1>12. ASSUME NEW a \in FeeAccounts PROVE Backed(a, bal'[a], tx', scheduled', logs')
    <2>1. bal'[a] \in Nat /\ b[a] \in Nat
      BY Zenon, <1>4 DEF TypeOK, Balances
    <2>2. bal'[a] >= b[a] /\ b[a] >= c[a] - due(a) /\ c[a] >= bal[a]
      BY <1>2, <1>3, <1>4, <1>5, <1>10
    <2>3. bal'[a] >= bal[a] - due(a)
      BY <1>4, <2>1, <2>2
    <2>4. Backed(a, bal'[a], NoTx, Tail(scheduled), logs)
      BY <1>4, <2>1, <2>3, SparePaid
    <2> QED  BY Zenon, <1>1, <1>9, <2>4
  <1> QED  BY <1>11, <1>12 DEF FundsInv

-----------------------------------------------------------------------------
(* The theorem.                                                            *)

\* Every step keeps the fee accounts solvent.
LEMMA NextFunds == Inv /\ FundsInv /\ [Next]_vars => FundsInv'
  <1> SUFFICES ASSUME Inv, FundsInv, [Next]_vars PROVE FundsInv'
    OBVIOUS
  <1>1. TypeOK' /\ TypeOK
    BY NextInv DEF Inv
  <1>2. ASSUME NEW time \in 0..MaxTime, StartBlock(time) PROVE FundsInv'
    BY <1>1, <1>2, StartBlockFunds
  <1>3. CASE Body
    <2>1. ASSUME NEW x \in Users, NEW y \in Recipients, NEW a \in Amounts, Send(x, y, a)
          PROVE  FundsInv'
      <3>1. y \in Addresses
        BY AddressFacts DEF Recipients
      <3> QED  BY <1>1, <2>1, <3>1, CallFunds
    <2>2. ASSUME NEW c \in Users, NEW t \in Tickets, NEW d \in 0..tx.gas, Redeem(c, t, d)
          PROVE  FundsInv'
      BY <1>1, <2>2, RedeemFunds
    <2>3. ASSUME NEW t \in Tickets, Keepalive(t) PROVE FundsInv'
      BY <1>1, <2>3, CallFunds
    <2>4. ASSUME NEW c \in Users, NEW t \in Tickets, Cancel(c, t) PROVE FundsInv'
      BY <1>1, <2>4, CallFunds
    <2> QED  BY Zenon, <1>3, <2>1, <2>2, <2>3, <2>4 DEF Body
  <1>4. CASE Step
    <2>1. ASSUME NEW u \in Users, NEW y \in Recipients \cup {FilteredFundsRecipient},
                 NEW a \in Amounts, Deposit(u, y, a)
          PROVE  FundsInv'
      <3>1. y \in Addresses
        BY AddressFacts DEF Recipients
      <3> QED  BY <1>1, <2>1, <3>1, DepositFunds
    <2>2. ASSUME NEW s \in Submissions, SubmitRetryable(s) PROVE FundsInv'
      BY <1>1, <2>2, SubmissionsAssumption, SubmitFunds
    <2>3. ASSUME NEW u \in Users, NEW g \in GasLimits, BeginUserTx(u, g) PROVE FundsInv'
      BY <1>1, <2>3, BeginUserTxFunds
    <2>4. ASSUME NEW u \in Users, NEW g \in GasLimits, RejectUserTx(u, g) PROVE FundsInv'
      BY <1>1, <2>4, FundsStutter DEF RejectUserTx, Abort
    <2>5. ASSUME NEW left \in 0..tx.gas, EndUserTx(left) PROVE FundsInv'
      BY <1>1, <2>5, EndUserTxFunds
    <2>6. CASE ScheduleRetry
      BY <1>1, <2>6, ScheduleRetryFunds
    <2>7. CASE EndMessage \/ SkipUnsupported \/ AbortOnRetry
      <3>1. UNCHANGED <<bal, scheduled, tx, logs, history>>
        BY <2>7 DEF EndMessage, SkipUnsupported, AbortOnRetry, Abort
      <3> QED  BY <1>1, <3>1, FundsStutter
    <2>8. CASE BeginRetry
      BY <1>1, <2>8, BeginRetryFunds
    <2>9. ASSUME NEW left \in 0..tx.gas, EndRetry(left) PROVE FundsInv'
      BY <1>1, <2>9, EndRetryFunds
    <2>10. ASSUME RetryTurn, NEW left \in 0..Head(scheduled).gas, RetryFails(left)
           PROVE  FundsInv'
      BY <1>1, <2>10, RetryFailsFunds
    <2> QED
      BY Zenon, <1>4, <2>1, <2>2, <2>3, <2>4, <2>5, <2>6, <2>7, <2>8, <2>9, <2>10 DEF Step
  <1>5. CASE UNCHANGED vars
    BY <1>1, <1>5, FundsStutter DEF vars
  <1> QED  BY <1>2, <1>3, <1>4, <1>5 DEF Next

\* The gas and the submission fee that a retry gets back are always there: neither fee
\* account ever pays less than retry_fee_refund asks of it, however many retries are under
\* way, whatever gas their transactions donated, and in whatever order they end.
THEOREM RefundsStayFunded == Spec => []RefundsFullyFunded
  <1>1. Init => FundsInv
    <2> SUFFICES ASSUME Init PROVE FundsInv
      OBVIOUS
    <2>1. RefundsFullyFunded
      BY DEF Init, RefundsFullyFunded
    <2>2. ASSUME NEW a \in FeeAccounts PROVE Backed(a, bal[a], tx, scheduled, logs)
      <3>1. scheduled = << >> /\ logs = << >> /\ tx = NoTx
        BY DEF Init
      <3>2. Covers(0, a, << >>)
        BY CoverNone
      <3>3. bal[a] \in Nat
        BY InitInv, FundsTypes DEF Inv
      <3>4. Rate(a) * NoTx.donated = 0 /\ Held(a, NoTx) = 0
        BY RateSum DEF NoTx, Held
      <3>5. bal[a] + 0 >= 0 + 0 + 0 /\ 0 \in Nat
        BY <3>3
      <3> QED  BY <3>1, <3>2, <3>4, <3>5 DEF Backed
    <2> QED  BY <2>1, <2>2 DEF FundsInv
  <1>2. Inv /\ FundsInv /\ [Next]_vars => FundsInv'
    BY NextFunds
  <1>3. FundsInv => RefundsFullyFunded
    BY DEF FundsInv
  <1> QED  BY <1>1, <1>2, <1>3, Invariance, PTL DEF Spec
=============================================================================
