----------------------------- MODULE L2Pricing -----------------------------
(* The L2 base fee (storage/l2_pricing.rs): operators on a record that holds *)
(* the pricing parameters, the backlogs and the fees.  Three models share    *)
(* the record: one backlog against a speed limit, a vector of constraints    *)
(* with a backlog each (version 50 and later), and constraints that weigh    *)
(* the resources of a transaction (version 60 and later).                    *)
EXTENDS Integers, Sequences

CONSTANTS
    MaxU64,         \* the largest value of a u64, scaled down
    OneInBips,      \* ONE_IN_BIPS, scaled down with it
    Kinds,          \* the kinds of resources
    SingleDim       \* RESOURCE_KIND_SINGLE_DIM, the synthetic total

MaxI64 == MaxU64 \div 2

ASSUME WidthAssumption == MaxU64 \in Nat /\ OneInBips \in Nat \ {0} /\ OneInBips <= MaxI64
ASSUME KindsAssumption == SingleDim \in Kinds

\* GasConstraint and MultiGasConstraint, the entries of the two vectors.
Constraint == [target : Nat, window : Nat, backlog : Nat]
WeightedConstraint ==
    [target : Nat, window : Nat, backlog : Nat, weights : [Kinds -> Nat], maxWeight : Nat]

\* saturating_mul, saturating_add and saturating_sub of u64.
Sat(x) == IF x > MaxU64 THEN MaxU64 ELSE x
Less(x, y) == IF x > y THEN x - y ELSE 0

\* `x as i64` keeps the bits: the upper half of u64 is negative.
AsI64(x) == IF x > MaxI64 THEN x - (MaxU64 + 1) ELSE x

\* Division of i64 rounds towards zero; the dividend is never negative here.
DivI64(n, d) == IF d > 0 THEN n \div d ELSE -(n \div (-d))

\* Fault: the product wraps before it is cast.
InBipsWrapping(x) == AsI64((x * OneInBips) % (MaxU64 + 1))

\* The dividend of an exponent, in basis points and no more than i64 holds.
InBips(x) == IF x * OneInBips > MaxI64 THEN MaxI64 ELSE x * OneInBips

\* The contributions of several constraints, added with saturating_add of i64.
SumI64(sum, x) ==
    IF sum + x > MaxI64 THEN MaxI64 ELSE IF sum + x < -MaxI64 - 1 THEN -MaxI64 - 1 ELSE sum + x

\* The sum of a sequence of contributions, in its order.
TotalI64(xs) ==
    LET sum[i \in 0 .. Len(xs)] == IF i = 0 THEN 0 ELSE SumI64(sum[i - 1], xs[i])
    IN  sum[Len(xs)]

-----------------------------------------------------------------------------
\* approx_exp_basis_points with accuracy 4: a Horner sum of the first terms.
HornerTerm(result, x, i) == OneInBips + Sat(result * x) \div (i * OneInBips)

ApproxExp(value) ==
    LET x == IF value < 0 THEN -value ELSE value
        result == HornerTerm(HornerTerm(HornerTerm(OneInBips + x \div 4, x, 3), x, 2), x, 1)
        bounded == IF value < 0 THEN (OneInBips * OneInBips) \div result ELSE result
    IN  IF bounded > MaxI64 THEN MaxI64 ELSE bounded

BigMulByBips(value, bips) == IF bips < 0 THEN 0 ELSE (value * bips) \div OneInBips

GasModel(l2, version) ==
    IF version >= 60 /\ l2.multi # <<>> THEN "multi"
    ELSE IF version >= 50 /\ l2.constraints # <<>> THEN "single" ELSE "legacy"

-----------------------------------------------------------------------------
(* Pricing, once per block.                                                *)

\* Fault: the excess over the tolerance is taken without asking whether there is any.
LegacyFeeUnguarded(l2, backlog) ==
    LET excess == backlog - Sat(l2.tolerance * l2.speed)
        divisor == Sat(l2.inertia * l2.speed)
    IN  BigMulByBips(l2.minBaseFee,
            ApproxExp(IF excess < 0 THEN -DivI64(InBips(-excess), AsI64(divisor))
                      ELSE DivI64(InBips(excess), AsI64(divisor))))

LegacyFee(l2, backlog) ==
    LET threshold == Sat(l2.tolerance * l2.speed)
        divisor == Sat(l2.inertia * l2.speed)
    IN  IF backlog > threshold
        THEN BigMulByBips(l2.minBaseFee,
                 ApproxExp(IF divisor > 0
                           THEN DivI64(InBips(backlog - threshold), AsI64(divisor)) ELSE 0))
        ELSE l2.minBaseFee

UpdateLegacy(l2, timePassed) ==
    LET backlog == Less(l2.backlog, Sat(timePassed * l2.speed))
    IN  [l2 EXCEPT !.backlog = backlog, !.baseFee = LegacyFee(l2, backlog)]

\* Every constraint is paid down by the time that passed.
PayDown(constraints, timePassed) ==
    [i \in DOMAIN constraints |->
        [constraints[i] EXCEPT !.backlog = Less(@, Sat(timePassed * constraints[i].target))]]

\* What one constraint adds to the exponent.
SingleExponent(c) ==
    LET divisor == Sat(c.window * c.target)
    IN  IF c.backlog > 0 /\ divisor > 0 THEN DivI64(InBips(c.backlog), AsI64(divisor)) ELSE 0

PositiveExponentFee(l2, exponent) ==
    IF exponent > 0 THEN BigMulByBips(l2.minBaseFee, ApproxExp(exponent)) ELSE l2.minBaseFee

UpdateSingle(l2, timePassed) ==
    LET paid == PayDown(l2.constraints, timePassed)
        total == TotalI64([i \in DOMAIN paid |-> SingleExponent(paid[i])])
    IN  [l2 EXCEPT !.constraints = paid, !.baseFee = PositiveExponentFee(l2, total)]

\* What one weighted constraint adds to the exponent of a kind of resource.
MultiExponent(c, kind) ==
    LET divisor == Sat(Sat(c.window * c.target) * c.maxWeight)
    IN  IF c.backlog = 0 \/ divisor = 0 \/ kind = SingleDim \/ c.weights[kind] = 0 THEN 0
        ELSE InBips(Sat(c.backlog * c.weights[kind]))
                 \div (IF divisor > MaxI64 THEN MaxI64 ELSE divisor)

UpdateMulti(l2, timePassed) ==
    LET paid == PayDown(l2.multi, timePassed)
        fee(kind) == PositiveExponentFee(l2,
                         TotalI64([i \in DOMAIN paid |-> MultiExponent(paid[i], kind)]))
        fees == {fee(kind) : kind \in Kinds} \cup {l2.minBaseFee}
    IN  [l2 EXCEPT !.multi = paid, !.next = [kind \in Kinds |-> fee(kind)],
                   !.baseFee = CHOOSE f \in fees : \A g \in fees : g <= f]

UpdatePricingModel(l2, timePassed, version) ==
    CASE GasModel(l2, version) = "legacy" -> UpdateLegacy(l2, timePassed)
      [] GasModel(l2, version) = "single" -> UpdateSingle(l2, timePassed)
      [] OTHER -> UpdateMulti(l2, timePassed)

\* The fees computed by the last block become those of this one.
CommitMultiGasFees(l2, version) ==
    IF GasModel(l2, version) = "multi" THEN [l2 EXCEPT !.current = l2.next] ELSE l2

-----------------------------------------------------------------------------
(* The backlog.                                                            *)

\* A transaction cannot be accounted for while weighted constraints are active.
CanGrow(l2, version) == GasModel(l2, version) # "multi"

GrowBacklog(l2, gas, version) ==
    IF GasModel(l2, version) = "legacy" THEN [l2 EXCEPT !.backlog = Sat(@ + gas)]
    ELSE [l2 EXCEPT !.constraints =
             [i \in DOMAIN l2.constraints |->
                 [l2.constraints[i] EXCEPT !.backlog = Sat(@ + gas)]]]

ShrinkBacklog(l2, gas, version) ==
    CASE GasModel(l2, version) = "legacy" -> [l2 EXCEPT !.backlog = Less(@, gas)]
      [] GasModel(l2, version) = "single" ->
             [l2 EXCEPT !.constraints =
                 [i \in DOMAIN l2.constraints |->
                     [l2.constraints[i] EXCEPT !.backlog = Less(@, gas)]]]
      [] OTHER ->
             [l2 EXCEPT !.multi =
                 [i \in DOMAIN l2.multi |->
                     [l2.multi[i] EXCEPT !.backlog =
                         Less(@, Sat(gas * l2.multi[i].weights[SingleDim]))]]]

\* Gas of the storage operations behind an update of the backlog (arb_journal.rs).
ReadCost == 800
WriteCost == 20000
WriteZeroCost == 5000

UpdatedCost(backlog) == ReadCost + (IF backlog = 0 THEN WriteZeroCost ELSE WriteCost)

\* The update of every constraint, after the reads that find them.
ConstraintsCost(constraints) ==
    LET cost[i \in 0 .. Len(constraints)] ==
            IF i = 0 THEN 2 * ReadCost ELSE cost[i - 1] + UpdatedCost(constraints[i].backlog)
    IN  cost[Len(constraints)]

\* What shrink_backlog charges, from the backlogs it leaves behind.
ShrinkCost(after, version) ==
    CASE version >= 60 -> ReadCost + WriteCost
      [] version < 60 /\ GasModel(after, version) = "legacy" ->
             (IF version >= 50 THEN ReadCost ELSE 0) + UpdatedCost(after.backlog)
      [] OTHER -> ConstraintsCost(after.constraints)

\* Fault: the constraints are left out of the reservation after version 50 as well.
BacklogUpdateCostFixed(l2, version) ==
    IF version >= 60 THEN ReadCost + WriteCost
    ELSE (IF version >= 50 THEN ReadCost ELSE 0) + ReadCost + WriteCost

\* backlog_update_cost: what redeem reserves for the update before it donates the rest.
BacklogUpdateCost(l2, version) ==
    CASE version >= 60 -> ReadCost + WriteCost
      [] version \in 51 .. 59 /\ l2.constraints # <<>> ->
             2 * ReadCost + Len(l2.constraints) * (ReadCost + WriteCost)
      [] OTHER -> (IF version >= 50 THEN ReadCost ELSE 0) + ReadCost + WriteCost

-----------------------------------------------------------------------------
(* Constraints.                                                            *)

\* add_gas_constraint, for one constraint after another, and clear_gas_constraints.
AddGasConstraints(l2, list) == [l2 EXCEPT !.constraints = @ \o list]
ClearGasConstraints(l2) == [l2 EXCEPT !.constraints = <<>>]

\* add_multi_gas_constraint keeps the largest weight beside the weights.
MultiConstraint(target, window, backlog, weights) ==
    [target |-> target, window |-> window, backlog |-> backlog, weights |-> weights,
     maxWeight |-> CHOOSE w \in {weights[k] : k \in Kinds} : \A k \in Kinds : weights[k] <= w]
=============================================================================
