------------------------------- MODULE Arbos -------------------------------
(* The ArbOS state of a chain over its life: genesis, the start of every     *)
(* block with its pricing update and scheduled upgrades, and the calls by    *)
(* which owners and filterers change the state in between.                   *)
EXTENDS L2Pricing, FiniteSets

CONSTANTS
    Accounts,       \* addresses that may be owners, filterers or native token owners
    Hashes,         \* transaction hashes
    GenesisVersions, Targets,   \* versions of genesis, and versions an upgrade is scheduled to
    Times,          \* timestamps of blocks, 0 .. MaxTime
    Delay,          \* FEATURE_ENABLE_DELAY_SECONDS
    ParamChoices,   \* pairs <<name, value>> an owner may set
    PricingChoices, \* pairs <<field, value>> of L2 pricing an owner may set
    ConstraintLists, MaxConstraints,   \* GAS_CONSTRAINTS_MAX_NUM
    MultiLists,     \* weighted constraints a chain at version 60 may come with
    GenesisSpeed, GenesisSpeedV6, GenesisBlockLimit, GenesisBlockLimitV6,
    GenesisInertia, GenesisTolerance, GenesisMinFee, GenesisTxLimit,
    TxGas,          \* compute gas of a transaction
    HistoryWindow,  \* HISTORY_SERVE_WINDOW, scaled down
    MaxBlocks, MaxCalls     \* bounds on blocks, and on calls and transactions

ASSUME TimesAssumption == Times \subseteq Nat /\ Delay \in Nat
ASSUME AmountsAssumption ==
    /\ {GenesisSpeed, GenesisSpeedV6, GenesisBlockLimit, GenesisBlockLimitV6, GenesisInertia,
        GenesisTolerance, GenesisMinFee, GenesisTxLimit} \subseteq Nat
    /\ TxGas \subseteq Nat
ASSUME ConstraintsAssumption ==
    ConstraintLists \subseteq Seq(Constraint) /\ MultiLists \subseteq Seq(WeightedConstraint)

\* The fields of L2 pricing that an owner has a setter for.
PricingFields == {"speed", "inertia", "tolerance", "backlog", "baseFee", "minBaseFee", "blockLimit"}
ASSUME PricingAssumption == \A c \in PricingChoices : c[1] \in PricingFields /\ c[2] \in Nat

VARIABLES
    version, upgrade,       \* arbos_version; upgrade_version and upgrade_timestamp
    block, now, inBlock,    \* number and timestamp of the block, and whether it is open
    cfg,                    \* CfgEnv of the message: specification and calldata floor
    par, touched,           \* parameters that upgrades write; those an owner set since
    installed,              \* precompile accounts that have code
    history,                \* the block whose hash each slot of the history contract holds
    l2, quiet,              \* L2 pricing; nothing changed it since the block started
    owners, calldataFloor,  \* chain owners; the feature bit of EIP-7623
    enabledFrom, members,   \* per feature: its timestamp, and the accounts it admits
    notice, firstNotice,    \* when it was last, and first, announced; -1 before that
    filtered,               \* transaction hashes in the filter
    calls, halted           \* calls left; StartBlock failed

vars == <<version, upgrade, block, now, inBlock, cfg, par, touched, installed, history, l2,
          quiet, owners, calldataFloor, enabledFrom, members, notice,
          firstNotice, filtered, calls, halted>>

features == <<enabledFrom, members, notice, firstNotice, filtered>>
governance == <<owners, calldataFloor, features>>
chain == <<version, block, now, inBlock, cfg, installed, history, halted>>

-----------------------------------------------------------------------------
(* Versions, specifications and precompiles.                               *)

LatestVersion == 61

ASSUME VersionsAssumption == GenesisVersions \subseteq 1 .. LatestVersion /\ Targets \subseteq Nat

\* from_arbos_version: the nearest version at or below that changes the rules.
SpecVersions == (1 .. 11) \cup {20, 30, 31, 32, 40, 41, 50, 51, 60, 61}
FromArbosVersion(v) ==
    IF v <= 1 THEN 1 ELSE CHOOSE s \in SpecVersions :
        s <= v /\ \A u \in SpecVersions : u <= v => u <= s

\* into_eth_spec
IntoEthSpec(spec) ==
    CASE spec >= 50 -> "osaka" [] spec \in 40 .. 49 -> "prague" [] spec \in 20 .. 39 -> "cancun"
      [] spec \in 11 .. 19 -> "shanghai" [] OTHER -> "london"

\* arb_eth_precompiles: the set a message is executed with, refreshed by set_spec.
EthPrecompiles(spec) == IF spec >= 50 THEN "osaka" ELSE "cancun+p256"

\* ARBOS_PRECOMPILES: ArbSys stands for those of version 0 that are no debug precompile.
Precompiles == {"ArbSys", "ArbDebug", "ArbWasm", "ArbWasmCache", "ArbNativeTokenManager",
                "ArbFilteredTransactionsManager"}
IntroducedAt ==
    [p \in Precompiles |->
        CASE p \in {"ArbWasm", "ArbWasmCache"} -> 30
          [] p = "ArbNativeTokenManager" -> 41
          [] p = "ArbFilteredTransactionsManager" -> 60
          [] OTHER -> 0]

\* precompile_min_arbos_version, the table the dispatcher goes by.
PrecompileMinArbosVersion ==
    [p \in Precompiles |->
        CASE p \in {"ArbWasm", "ArbWasmCache"} -> 30
          [] p = "ArbNativeTokenManager" -> 41
          [] p = "ArbFilteredTransactionsManager" -> 60
          [] OTHER -> 0]

\* install_precompiles_introduced_at, for every step of an upgrade.
Install(from, to) == {p \in Precompiles \ {"ArbDebug"} : IntroducedAt[p] \in (from + 1) .. to}

\* method_arbos_bounds: the first version at which an owner method may be called.
MethodMin(method) ==
    CASE method = "infraFeeAccount" -> 5
      [] method = "brotli" -> 20
      [] method \in {"maxWasm", "calldataPriceIncrease"} -> 40
      [] method = "nativeToken" -> 41
      [] method \in {"backlog", "blockLimit", "parentGasFloor"} -> 50
      [] method \in {"fragments", "filtering"} -> 60
      [] OTHER -> 0

-----------------------------------------------------------------------------
(* Parameters and what the steps of an upgrade write to them.              *)

StylusNames == {"stylusVersion", "inkPrice", "stackDepth", "freePages", "pageGas", "pageLimit",
                "minInitGas", "minCachedGas", "initScalar", "cachedScalar", "expiryDays",
                "keepaliveDays", "cacheSize", "maxWasm", "fragments"}
PricerNames == {"dataRate", "dataTime", "dataMinPrice", "dataInertia"}
ParamNames == StylusNames \cup PricerNames
                  \cup {"perBatch", "cap", "brotli", "historyNonce", "filterNonce"}

\* programs.initialize(30): one word, in which nothing of an earlier word is kept, and the
\* fields of the data pricer.
ProgramsInitialize(p) ==
    [n \in ParamNames |->
        CASE n = "stylusVersion" -> 1 [] n = "inkPrice" -> 10000 [] n = "stackDepth" -> 262144
          [] n = "freePages" -> 2 [] n = "pageGas" -> 1000 [] n = "pageLimit" -> 128
          [] n = "minInitGas" -> 72 [] n = "minCachedGas" -> 11
          [] n \in {"initScalar", "cachedScalar"} -> 50 [] n = "expiryDays" -> 365
          [] n = "keepaliveDays" -> 31 [] n = "cacheSize" -> 32
          [] n \in {"maxWasm", "fragments"} -> 0
          [] n = "dataRate" -> 34865 [] n = "dataTime" -> 1421388000
          [] n = "dataMinPrice" -> 82928201 [] n = "dataInertia" -> 21360419
          [] OTHER -> p[n]]

\* The steps that move the Stylus parameters to their second and third version.
StylusV2(p) == [p EXCEPT !["stylusVersion"] = 2, !["minInitGas"] = 69]
StylusV3(p) == [p EXCEPT !["stylusVersion"] = 3]

\* Version 40: the history contract, and the size of programs becomes a parameter.
HistoryStorage(p) == [p EXCEPT !["maxWasm"] = 131072, !["historyNonce"] = 1]

\* Version 50 caps the depth, and leaves a lower one.
CapStackDepth(p) == [p EXCEPT !["stackDepth"] = IF @ > 22000 THEN 22000 ELSE @]

\* Version 60: larger programs in fragments, and the account of the filter.
ContractLimit(p) == [p EXCEPT !["maxWasm"] = 262144, !["fragments"] = 4, !["filterNonce"] = 1]

\* What the step to version v writes here; what versions 2 and 10 write is state of
\* L1Pricing, and the list that version 11 clears is AddressSet's.
Step(p, v) ==
    CASE v = 3 -> [p EXCEPT !["perBatch"] = 0, !["cap"] = MaxU64]
      [] v = 11 -> [p EXCEPT !["perBatch"] = 210000, !["cap"] = IF @ = MaxU64 THEN 0 ELSE @]
      [] v = 20 -> [p EXCEPT !["brotli"] = 1]
      [] v = 30 -> ProgramsInitialize(p)
      [] v = 31 -> StylusV2(p)
      [] v = 40 -> HistoryStorage(p)
      [] v = 50 -> CapStackDepth(p)
      [] v = 59 -> StylusV3(p)
      [] v = 60 -> ContractLimit(p)
      [] OTHER -> p

\* The names a step writes whatever their value was.
Overwrites(v) ==
    CASE v = 3 -> {"perBatch", "cap"} [] v = 11 -> {"perBatch"} [] v = 20 -> {"brotli"}
      [] v = 30 -> StylusNames \cup PricerNames [] v = 31 -> {"stylusVersion", "minInitGas"}
      [] v = 40 -> {"maxWasm", "historyNonce"} [] v = 50 -> {"txLimit"}
      [] v = 59 -> {"stylusVersion"} [] v = 60 -> {"maxWasm", "fragments", "filterNonce"}
      [] OTHER -> {}

\* Fault: only the step of the target version is run.
UpgradedAtOnce(p, from, to) == IF to > from THEN Step(p, to) ELSE p

\* upgrade_arbos_version: one step per version.
Upgraded(p, from, to) ==
    LET after[v \in from .. to] == IF v = from THEN p ELSE Step(after[v - 1], v)
    IN  after[to]

\* The features that an owner announces before they start.
Features == {"nativeToken", "filtering"}

BlankPar == [n \in ParamNames |-> 0]

\* initialize_arbos_state: version 1, the steps up to the target, and the values that
\* only a genesis from version 6 on has.
GenesisPar ==
    [v \in 1 .. LatestVersion |->
        LET p == Upgraded(BlankPar, 1, v)
        IN  IF v \in 6 .. 10 THEN [p EXCEPT !["perBatch"] = 100000] ELSE p]

GenesisL2(v, multi) ==
    [speed |-> IF v >= 6 THEN GenesisSpeedV6 ELSE GenesisSpeed,
     blockLimit |-> IF v >= 6 THEN GenesisBlockLimitV6 ELSE GenesisBlockLimit,
     txLimit |-> IF v >= 50 THEN GenesisTxLimit ELSE 0,
     baseFee |-> GenesisMinFee, minBaseFee |-> GenesisMinFee, backlog |-> 0,
     inertia |-> GenesisInertia, tolerance |-> GenesisTolerance, constraints |-> <<>>,
     multi |-> multi, next |-> [k \in Kinds |-> 0], current |-> [k \in Kinds |-> 0]]

Init ==
    /\ version \in GenesisVersions
    /\ upgrade = [version |-> 0, time |-> 0]
    /\ block = 0 /\ now \in {t \in Times : \A u \in Times : t <= u} /\ inBlock = FALSE
    /\ cfg = [spec |-> 0, floor |-> FALSE]
    /\ par = GenesisPar[version] /\ touched = {}
    /\ installed = {p \in Precompiles : IntroducedAt[p] <= version}
    /\ history = [i \in 0 .. HistoryWindow - 1 |-> -1]
    /\ \E m \in MultiLists : (m # <<>> => version >= 60) /\ l2 = GenesisL2(version, m)
    /\ quiet = FALSE
    /\ \E a \in Accounts : owners = {a}
    /\ calldataFloor = FALSE
    /\ enabledFrom = [f \in Features |-> 0]
    /\ members = [f \in Features |-> {}]
    /\ notice = [f \in Features |-> -1]
    /\ firstNotice = [f \in Features |-> -1]
    /\ filtered = {} /\ calls = MaxCalls /\ halted = FALSE

-----------------------------------------------------------------------------
(* Blocks.                                                                 *)

\* Fault: the upgrade is taken to start after its timestamp.
EffectiveVersionLate(time) ==
    IF upgrade.version > version /\ time > upgrade.time THEN upgrade.version ELSE version

\* resolve_effective_version, before the message.
EffectiveVersion(time) ==
    IF upgrade.version > version /\ time >= upgrade.time THEN upgrade.version ELSE version

\* message_cfg_env: the rules of a message, from the state before its StartBlock.
MessageCfgEnv(time) ==
    [spec |-> FromArbosVersion(EffectiveVersion(time)), floor |-> calldataFloor]

\* StartBlock's own test, on the state it runs on.
UpgradeTarget(time) ==
    IF upgrade.version > version /\ time >= upgrade.time THEN upgrade.version ELSE version

\* Before version 3 StartBlock takes the number of the block for the time that passed.
TimePassed(time) == IF version < 3 THEN block + 1 ELSE time - now

NextBlock(time) ==
    /\ ~inBlock /\ ~halted /\ block < MaxBlocks
    /\ time >= now

\* A message up to the end of its StartBlock transaction: the configuration is fixed
\* from the state, then history, pricing and the upgrade are applied.
StartBlock(time) ==
    /\ NextBlock(time)
    /\ UpgradeTarget(time) <= LatestVersion
    /\ LET target == UpgradeTarget(time)
           priced == UpdatePricingModel(CommitMultiGasFees(l2, version),
                                        TimePassed(time), version)
       IN  /\ cfg' = MessageCfgEnv(time)
           /\ version' = target
           /\ par' = Upgraded(par, version, target)
           /\ touched' = touched \ UNION {Overwrites(v) : v \in (version + 1) .. target}
           /\ installed' = installed \cup Install(version, target)
           /\ l2' = IF 50 \in (version + 1) .. target
                    THEN [priced EXCEPT !.txLimit = GenesisTxLimit] ELSE priced
           /\ quiet' = (target = version)
    /\ history' = IF version >= 40 THEN [history EXCEPT ![block % HistoryWindow] = block]
                  ELSE history
    /\ block' = block + 1 /\ now' = time /\ inBlock' = TRUE
    /\ UNCHANGED <<upgrade, calls, halted, governance>>

\* An upgrade to a version this node does not know fails the message, and every later one.
StartBlockFails(time) ==
    /\ NextBlock(time)
    /\ UpgradeTarget(time) > LatestVersion
    /\ halted' = TRUE
    /\ UNCHANGED <<version, upgrade, block, now, inBlock, cfg, par, touched, installed, history,
                   l2, quiet, calls, governance>>

EndBlock ==
    /\ inBlock /\ inBlock' = FALSE
    /\ UNCHANGED <<version, upgrade, block, now, cfg, par, touched, installed, history, l2,
                   quiet, calls, halted, governance>>

-----------------------------------------------------------------------------
(* Calls in a block.                                                       *)

Call == inBlock /\ ~halted /\ calls > 0 /\ calls' = calls - 1

\* ArbOwner runs its method for owners only, and from the version of the method on.
OwnerCall(method) == Call /\ owners # {} /\ version >= MethodMin(method)

AddChainOwner(a) ==
    /\ OwnerCall("chainOwner")
    /\ owners' = owners \cup {a}
    /\ UNCHANGED <<chain, upgrade, par, touched, l2, quiet, calldataFloor, features>>

\* Nothing keeps the last owner from being removed.
RemoveChainOwner(a) ==
    /\ OwnerCall("chainOwner")
    /\ a \in owners
    /\ owners' = owners \ {a}
    /\ UNCHANGED <<chain, upgrade, par, touched, l2, quiet, calldataFloor, features>>

\* scheduleArbOSUpgrade checks neither argument.
ScheduleUpgrade(v, time) ==
    /\ OwnerCall("scheduleUpgrade")
    /\ upgrade' = [version |-> v, time |-> time]
    /\ UNCHANGED <<chain, par, touched, l2, quiet, governance>>

\* pack_uint writes the low bytes of a value to its field of the Stylus word.
FieldBytes(n) ==
    CASE n \in {"minInitGas", "minCachedGas", "initScalar", "cachedScalar", "fragments"} -> 1
      [] n \in {"stylusVersion", "freePages", "pageGas", "pageLimit", "expiryDays",
                "keepaliveDays", "cacheSize"} -> 2
      [] n = "inkPrice" -> 3
      [] OTHER -> 4
PackUint(n, value) == IF FieldBytes(n) < 4 THEN value % (256 ^ FieldBytes(n)) ELSE value

\* Init gas is stored in units of 128, that of a cached program of 32, a scalar of 2.
Unit(n) ==
    CASE n = "minInitGas" -> 128 [] n = "minCachedGas" -> 32 [] n = "initScalar" -> 2
      [] OTHER -> 1
Stored(n, value) ==
    IF n \in StylusNames THEN PackUint(n, (value + Unit(n) - 1) \div Unit(n)) ELSE value

\* A setter of a parameter that upgrades write too.
Sets(n, value) ==
    /\ OwnerCall(n)
    /\ par' = [par EXCEPT ![n] = Stored(n, value)]
    /\ touched' = touched \cup {n}
    /\ UNCHANGED <<chain, upgrade, l2, quiet, governance>>

\* An ink price is a positive number of three bytes.
SetInkPrice(value) == value \in 1 .. (256 ^ 3 - 1) /\ Sets("inkPrice", value)

\* Stack depth, free pages, gas of a page and limit of pages.
WasmLimits == {"stackDepth", "freePages", "pageGas", "pageLimit"}
SetWasmLimit(n, value) == n \in WasmLimits /\ Sets(n, value)

\* Scalar, periods in days, sizes, and the parameters that have nothing to do with Stylus.
SetParam(n, value) == n \notin WasmLimits \cup {"inkPrice"} /\ Sets(n, value)

\* setWasmMinInitGas writes two fields of the word.
SetWasmMinInitGas(gas, cached) ==
    /\ OwnerCall("minInitGas")
    /\ par' = [par EXCEPT !["minInitGas"] = Stored("minInitGas", gas),
                          !["minCachedGas"] = Stored("minCachedGas", cached)]
    /\ touched' = touched \cup {"minInitGas", "minCachedGas"}
    /\ UNCHANGED <<chain, upgrade, l2, quiet, governance>>

\* One bit of the word of features.
WriteFeatureBit(on) == calldataFloor' = on

SetCalldataPriceIncrease(on) ==
    /\ OwnerCall("calldataPriceIncrease")
    /\ WriteFeatureBit(on)
    /\ UNCHANGED <<chain, upgrade, par, touched, l2, quiet, owners, features>>

\* The setters of L2 pricing: speed limit and inertia are not zero.
SetPricing(field, value) ==
    /\ OwnerCall(field)
    /\ field \in {"speed", "inertia"} => value # 0
    /\ l2' = [l2 EXCEPT ![field] = value]
    /\ quiet' = FALSE
    /\ UNCHANGED <<chain, upgrade, par, touched, governance>>

\* setMaxTxGasLimit sets the limit of a block before version 50.
SetMaxTxGasLimit(value) ==
    /\ OwnerCall("txLimit")
    /\ l2' = IF version < 50 THEN [l2 EXCEPT !.blockLimit = value]
             ELSE [l2 EXCEPT !.txLimit = value]
    /\ touched' = IF version < 50 THEN touched ELSE touched \cup {"txLimit"}
    /\ UNCHANGED <<chain, upgrade, par, quiet, governance>>

ValidConstraints(list) ==
    /\ version \in 51 .. 59 => Len(list) <= MaxConstraints
    /\ \A i \in DOMAIN list : list[i].target # 0 /\ list[i].window # 0

\* setGasPricingConstraints clears the vector and fills it; the frame undoes both when a
\* constraint is refused.
SetGasPricingConstraints(list) ==
    /\ OwnerCall("gasPricingConstraints")
    /\ l2' = IF ValidConstraints(list)
             THEN AddGasConstraints(ClearGasConstraints(l2), list) ELSE l2
    /\ quiet' = FALSE
    /\ UNCHANGED <<chain, upgrade, par, touched, governance>>

-----------------------------------------------------------------------------
(* Features that are announced before they start.                          *)

\* Fault: a feature announced for a time within the delay may be moved forward.
MayEnableAtAnyMove(f, time) ==
    \/ time = 0
    \/ ~(enabledFrom[f] = 0 /\ time < now + Delay)

\* The tests of setNativeTokenManagementFrom and setTransactionFilteringFrom.
MayEnableAt(f, time) ==
    \/ time = 0
    \/ /\ ~((enabledFrom[f] = 0 \/ enabledFrom[f] > now + Delay) /\ time < now + Delay)
       /\ ~(enabledFrom[f] > now /\ enabledFrom[f] <= now + Delay /\ time < enabledFrom[f])

SetFeatureFrom(f, time) ==
    /\ OwnerCall(f)
    /\ MayEnableAt(f, time)
    /\ enabledFrom' = [enabledFrom EXCEPT ![f] = time]
    /\ notice' = [notice EXCEPT ![f] = IF time # 0 /\ enabledFrom[f] = 0 THEN now ELSE @]
    /\ firstNotice' = [firstNotice EXCEPT ![f] = IF time # 0 /\ @ = -1 THEN now ELSE @]
    /\ UNCHANGED <<chain, upgrade, par, touched, l2, quiet, owners, calldataFloor, members,
                   filtered>>

Enabled(f) == enabledFrom[f] # 0 /\ enabledFrom[f] <= now

\* addNativeTokenOwner and addTransactionFilterer
AddMember(f, a) ==
    /\ OwnerCall(f)
    /\ Enabled(f)
    /\ members' = [members EXCEPT ![f] = @ \cup {a}]
    /\ UNCHANGED <<chain, upgrade, par, touched, l2, quiet, owners, calldataFloor, enabledFrom,
                   notice, firstNotice, filtered>>

\* removeNativeTokenOwner and removeTransactionFilterer
RemoveMember(f, a) ==
    /\ OwnerCall(f)
    /\ a \in members[f]
    /\ members' = [members EXCEPT ![f] = @ \ {a}]
    /\ UNCHANGED <<chain, upgrade, par, touched, l2, quiet, owners, calldataFloor, enabledFrom,
                   notice, firstNotice, filtered>>

\* ArbFilteredTransactionsManager answers filterers only, whatever the feature's timestamp.
Filterer(a) ==
    /\ version >= PrecompileMinArbosVersion["ArbFilteredTransactionsManager"]
    /\ a \in members["filtering"]

ChangeFilter(a, h) ==
    /\ Call
    /\ Filterer(a)
    /\ filtered' \in {filtered \cup {h}, filtered \ {h}}
    /\ UNCHANGED <<chain, upgrade, par, touched, l2, quiet, owners, calldataFloor, enabledFrom,
                   members, notice, firstNotice>>

-----------------------------------------------------------------------------
(* Transactions, by what they do to the backlog.                           *)

\* EndTxHook of a transaction.
UserTx(gas) ==
    /\ Call
    /\ CanGrow(l2, version)
    /\ l2' = GrowBacklog(l2, gas, version)
    /\ quiet' = FALSE
    /\ UNCHANGED <<chain, upgrade, par, touched, governance>>

\* With weighted constraints the hook fails, and the message with it.
UserTxFails ==
    /\ Call
    /\ ~CanGrow(l2, version)
    /\ halted' = TRUE
    /\ UNCHANGED <<version, upgrade, block, now, inBlock, cfg, par, touched, installed, history,
                   l2, quiet, governance>>

\* Redeem takes the donated gas off the backlog unless the reservation falls short.
Redeem(gas) ==
    /\ Call
    /\ LET after == ShrinkBacklog(l2, gas, version)
       IN  l2' = IF ShrinkCost(after, version) > BacklogUpdateCost(l2, version)
                 THEN l2 ELSE after
    /\ quiet' = FALSE
    /\ UNCHANGED <<chain, upgrade, par, touched, governance>>

-----------------------------------------------------------------------------
Blocks == (\E t \in Times : StartBlock(t) \/ StartBlockFails(t)) \/ EndBlock

Upgrades ==
    \/ \E v \in Targets, t \in Times : ScheduleUpgrade(v, t)
    \/ \E c \in ParamChoices : SetParam(c[1], c[2]) \/ SetWasmLimit(c[1], c[2])
    \/ \E v \in 0 .. 1 : SetInkPrice(v)
    \/ SetWasmMinInitGas(40000, 64)
    \/ \E on \in BOOLEAN : SetCalldataPriceIncrease(on)
    \/ SetMaxTxGasLimit(GenesisTxLimit + 1)

Governs ==
    \/ \E a \in Accounts : AddChainOwner(a) \/ RemoveChainOwner(a)
    \/ \E f \in Features, t \in Times : SetFeatureFrom(f, t)
    \/ \E f \in Features, a \in Accounts : AddMember(f, a) \/ RemoveMember(f, a)
    \/ \E a \in Accounts, h \in Hashes : ChangeFilter(a, h)

Prices ==
    \/ \E c \in PricingChoices : SetPricing(c[1], c[2])
    \/ \E list \in ConstraintLists : SetGasPricingConstraints(list)
    \/ \E g \in TxGas : UserTx(g) \/ Redeem(g)
    \/ UserTxFails

Next == Blocks \/ Upgrades \/ Governs \/ Prices

Spec == Init /\ [][Next]_vars

-----------------------------------------------------------------------------
(* Properties.                                                             *)

\* A feature that is on was announced at least the delay ago, in whatever order its owners
\* announced, moved and withdrew it (the two tests of setNativeTokenManagementFrom and of
\* setTransactionFilteringFrom).  Members, and hashes in the filter, outlive a feature that
\* is switched off, but none was there before its first announcement was that old.
FeatureNotice ==
    /\ \A f \in Features :
          /\ Enabled(f) => notice[f] # -1 /\ now >= notice[f] + Delay
          /\ members[f] # {} => firstNotice[f] # -1 /\ now >= firstNotice[f] + Delay
    /\ filtered # {} => firstNotice["filtering"] # -1 /\ now >= firstNotice["filtering"] + Delay

\* The precompile accounts with code are those the dispatcher answers for at the version
\* of the state, whatever upgrades led there: two tables in two files, applied at different
\* moments (install_precompiles_introduced_at, precompile_min_arbos_version).
PrecompilesMatchVersion ==
    installed = {p \in Precompiles : PrecompileMinArbosVersion[p] <= version}

\* A chain upgraded at run time has the parameters and the precompile accounts of a chain
\* born at its version, but for the parameters an owner set since an upgrade last wrote
\* them, and but for the charge per batch, which only a genesis at versions 6 to 10 sets
\* (upgrade_arbos_version, initialize_arbos_state).
UpgradePathsAgree ==
    /\ \A n \in ParamNames \ touched :
          par[n] = GenesisPar[version][n] \/ (n = "perBatch" /\ version \in 6 .. 10)
    /\ "txLimit" \in touched \/ l2.txLimit = GenesisL2(version, <<>>).txLimit
    /\ PrecompilesMatchVersion

\* The transactions of a block run under the rules of the version its StartBlock leaves in
\* the state, in the block of an upgrade too: message_cfg_env fixes them before StartBlock
\* has run, from the same schedule.
SpecMatchesState ==
    inBlock => /\ cfg.spec = FromArbosVersion(version)
               /\ IntoEthSpec(cfg.spec) = IntoEthSpec(version)
               /\ EthPrecompiles(cfg.spec) = EthPrecompiles(version)

\* What redeem reserves for the update of the backlog covers its cost, for every model and
\* version but 50, whose fixed reservation a vector of constraints may exceed
\* (backlog_update_cost, shrink_backlog).
ReserveCoversUpdate ==
    version # 50 =>
        \A g \in TxGas :
            ShrinkCost(ShrinkBacklog(l2, g, version), version) <= BacklogUpdateCost(l2, version)

\* The divisor of the first model fits an i64.
DivisorFits == Sat(l2.inertia * l2.speed) <= MaxI64

\* StartBlock never leaves a base fee below the minimum, as long as the product of inertia
\* and speed limit fits the signed integer it is cast to (update_pricing_model).
BaseFeeFloor == [][block' # block /\ DivisorFits => l2'.baseFee >= l2.minBaseFee]_vars

\* So do the divisors of the constraints of the second model; the third clamps its own.
DivisorsFit ==
    /\ DivisorFits
    /\ \A i \in DOMAIN l2.constraints :
          Sat(l2.constraints[i].window * l2.constraints[i].target) <= MaxI64

\* In a block without transactions or owner calls on pricing the base fee does not rise,
\* although every product on the way to the exponent saturates (update_pricing_model).
\* Not so with a divisor that is cast to a negative number: its exponent grows
\* as the backlog is paid down.
IdlePriceFalls ==
    [][block' # block /\ quiet /\ DivisorsFit => l2'.baseFee <= l2.baseFee]_vars
=============================================================================
