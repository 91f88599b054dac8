SPECIFICATION Spec
CONSTANTS
  poster = poster
  other = other
  owner = owner
  poolAccount = poolAccount
  Posters = {poster, other}
  BatchPoster = poster
  Accounts = {owner}
  Pool = poolAccount
  PosterPayTo = owner
  ChainOwner = owner
  Versions = {1, 6, 50}
  GenesisParameters <- MCGenesisParameters
  GenesisPrice = 2
  ParameterValues <- MCParameterValues
  Prices = {5}
  PerBatchGasV6 = 1
  PerBatchGasV12 = 1
  EquilibrationUnitsV6 = 6
  MaxBips = 1000
  OneInBips = 10
  DataZeroGas = 1
  DataNonZeroGas = 2
  KeccakGas = 1
  KeccakWordGas = 1
  WordSize = 2
  SstoreGas = 1
  FloorTokens = 1
  TxGas = 2
  TxUnits = {3}
  GasPrices = {0, 4}
  Donations = {20}
  Batches <- MCBatches
  MaxTime = 3
  MaxTxs = 2
  MaxReports = 2
  MaxOwnerCalls = 1
INVARIANTS
  AvailableCovered
  PaymentsSucceed
  SpendingSettled
  UnitsChargedOnce
PROPERTIES
  PriceFollowsSurplus
