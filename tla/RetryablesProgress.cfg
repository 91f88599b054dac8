SPECIFICATION FairSpec
CONSTANTS
  t1 = t1
  t2 = t2
  alice = alice
  bob = bob
  esc1 = esc1
  esc2 = esc2
  network = network
  infraAccount = infraAccount
  zero = zero
  Tickets = {t1, t2}
  Users = {alice, bob}
  Escrow <- MCEscrow
  NetworkFeeAccount = network
  InfraFeeAccount = zero
  FilteredFundsRecipient = network
  ZeroAddress = zero
  Submissions <- LivenessSubmissions
  Lifetime = 1
  TxGas = 1
  CallGas = 1
  BaseFee = 0
  MinBaseFee = 0
  SpeedLimit = 100
  MaxU256 = 1000
  PreStylus = TRUE
  InitialBalance = 1
  GasLimits = {3}
  Amounts = {1}
  MaxTime = 3
  MaxTimeout = 2
  MaxUserTxs = 2
  MaxTotalTxs = 2
  BacklogCap = 0
PROPERTIES
  MessageTerminates
  TicketsAreTransient
