SPECIFICATION Spec
CONSTANTS
  t1 = t1
  t2 = t2
  alice = alice
  bob = bob
  esc1 = esc1
  esc2 = esc2
  network = network
  infraAccount = infraAccount
  zero = zero
  Tickets = {t1}
  Users = {alice, bob}
  Escrow <- MCEscrow
  NetworkFeeAccount = network
  InfraFeeAccount = infraAccount
  FilteredFundsRecipient = network
  ZeroAddress = zero
  Submissions <- FeeSubmissions
  Lifetime = 1
  TxGas = 1
  CallGas = 1
  BaseFee = 2
  MinBaseFee = 1
  SpeedLimit = 100
  MaxU256 = 1000
  PreStylus = TRUE
  InitialBalance = 8
  GasLimits = {4}
  Amounts = {}
  MaxTime = 3
  MaxTimeout = 3
  MaxUserTxs = 2
  MaxTotalTxs = 4
  BacklogCap = 0
INVARIANTS
  DepositsMinted
