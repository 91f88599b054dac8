SPECIFICATION Spec
CONSTANTS
  t1 = t1
  t2 = t2
  alice = alice
  bob = bob
  esc1 = esc1
  esc2 = esc2
  network = network
  infraAccount = infraAccount
  zero = zero
  Tickets = {t1}
  Users = {alice, bob}
  Escrow <- MCEscrow
  NetworkFeeAccount = network
  InfraFeeAccount = infraAccount
  FilteredFundsRecipient = network
  ZeroAddress = zero
  Submissions <- FeeSubmissions
  Lifetime = 1
  TxGas = 1
  CallGas = 1
  BaseFee = 2
  MinBaseFee = 1
  SpeedLimit = 1
  MaxU256 = 1000
  PreStylus = TRUE
  InitialBalance = 8
  GasLimits = {0, 4}
  Amounts = {1}
  MaxTime = 2
  MaxTimeout = 2
  MaxUserTxs = 2
  MaxTotalTxs = 3
  BacklogCap = 1000
INVARIANTS
  RefundBoundedByDeposit
  RefundsFullyFunded
  BacklogCoversWork
  SupplyConserved
PROPERTIES
  DeadTicketsNeverPay
