SPECIFICATION MCSpec
CONSTANTS
  Envs <- MCEnvs
  Txs <- MCTxs
  FrameGas = {0, 4, 99}
  Refunds <- MCRefunds
  InitialFunds = 200
  MaxTransactions = 2
  Contracts = {"p", "q", "c"}
  Programs = {"p", "q"}
  Footprint = 2
  MorePages = {1}
  MemoryLimit = 5
  MaxU16 = 7
  Deltas <- MCDeltas
  MaxDepth = 4
  MaxSteps = 7
INVARIANTS
  FeesConserved
  ComputeCapped
  GasUsedExact
  OpenCoversActive
  ReentrancyExact
  RefundsJournaled
CHECK_DEADLOCK FALSE
