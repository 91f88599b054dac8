SPECIFICATION MCSpec
CONSTANTS
    MaxU64 = 1023
    OneInBips = 8
    Kinds = {single, storage}
    SingleDim = single
    Accounts = {alice, bob}
    Hashes = {h}
    GenesisVersions = {1, 2, 9, 29, 50, 51, 60}
    Targets = {3, 11, 30, 42, 61, 62}
    Times = {1, 2, 3, 4}
    Delay = 2
    ParamChoices <- MCParamChoices
    PricingChoices <- MCPricingChoices
    ConstraintLists <- MCConstraintLists
    MaxConstraints = 2
    MultiLists <- MCMultiLists
    GenesisSpeed = 2
    GenesisSpeedV6 = 3
    GenesisBlockLimit = 10
    GenesisBlockLimitV6 = 12
    GenesisInertia = 4
    GenesisTolerance = 3
    GenesisMinFee = 4
    GenesisTxLimit = 12
    TxGas = {7, 90}
    HistoryWindow = 2
    MaxBlocks = 3
    MaxCalls = 4
INVARIANTS
    FeatureNotice
    UpgradePathsAgree
    SpecMatchesState
    ReserveCoversUpdate
PROPERTIES
    BaseFeeFloor
    IdlePriceFalls
SYMMETRY MCSymmetry
CHECK_DEADLOCK FALSE
