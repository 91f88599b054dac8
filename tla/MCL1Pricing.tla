----------------------------- MODULE MCL1Pricing -----------------------------
(***************************************************************************)
(* Instances of L1Pricing for TLC.                                         *)
(***************************************************************************)
EXTENDS L1Pricing, FiniteSetsExt

CONSTANTS poster, other, owner, poolAccount

MCGenesisParameters ==
    [payRewardsTo |-> owner, equilibrationUnits |-> 8, inertia |-> 2, perUnitReward |-> 1,
     perBatchGas |-> 0, costCapBips |-> 0, gasFloorPerToken |-> 0]

MCParameterValues ==
    [payRewardsTo |-> {poolAccount}, costCapBips |-> {5}, equilibrationUnits |-> {0},
     inertia |-> {0}, perBatchGas |-> {-1}, gasFloorPerToken |-> {2}, perUnitReward |-> {2}]

MCBatches ==
    {[v2 |-> FALSE, dataGas |-> 3, baseFee |-> 1],
     [v2 |-> TRUE, length |-> 3, nonZeros |-> 1, extraGas |-> 0, baseFee |-> 2]}

\* The total of the poster table is the sum of what is due to each poster.
DuesAddUp == table.totalDue = MapThenSumSet(LAMBDA p : table.due[p], Posters)
=============================================================================
