---------------------------- MODULE ArbosProofs ----------------------------
(* The notice a chain gives of a feature, the precompiles it installs, the   *)
(* agreement of its upgrade paths, the rules of its blocks, the floor of the *)
(* base fee and the reservation for an update of the backlog, for any        *)
(* accounts, hashes, times, delay, versions, pricing and bounds.             *)
EXTENDS Arbos, WellFoundedInduction, TLAPS

\* The variables the argument is about.
NoticeType ==
    /\ now \in Times
    /\ enabledFrom \in [Features -> Times \cup {0}]
    /\ members \in [Features -> SUBSET Accounts]
    /\ notice \in [Features -> Times \cup {-1}]
    /\ firstNotice \in [Features -> Times \cup {-1}]

\* A feature with a timestamp was announced, and either its timestamp or the present keeps
\* the delay; the first announcement is no later than the last, and both are past.
Announced(f) ==
    /\ enabledFrom[f] # 0 => notice[f] # -1
    /\ enabledFrom[f] # 0 => enabledFrom[f] >= notice[f] + Delay \/ now >= notice[f] + Delay
    /\ notice[f] # -1 => firstNotice[f] # -1 /\ firstNotice[f] <= notice[f]
    /\ notice[f] <= now /\ firstNotice[f] <= now

\* The first announcement of a feature is older than the delay.
Matured(f) == firstNotice[f] # -1 /\ now >= firstNotice[f] + Delay

NoticeInv ==
    /\ NoticeType
    /\ \A f \in Features : Announced(f)
    /\ \A f \in Features : members[f] # {} => Matured(f)
    /\ filtered # {} => Matured("filtering")

\* Clocks are numbers.
LEMMA Clocks ==
    ASSUME NoticeType, NEW f \in Features
    PROVE  /\ enabledFrom[f] \in Nat /\ notice[f] \in Int /\ firstNotice[f] \in Int
           /\ now \in Nat /\ Delay \in Nat
<1>1. Times \subseteq Nat /\ Delay \in Nat
  BY TimesAssumption
<1>2. enabledFrom[f] \in Times \cup {0}
  BY DEF NoticeType
<1>3. notice[f] \in Times \cup {-1}
  BY DEF NoticeType
<1>4. firstNotice[f] \in Times \cup {-1}
  BY DEF NoticeType
<1>5. now \in Times
  BY DEF NoticeType
<1>6. Times \cup {0} \subseteq Nat /\ Times \cup {-1} \subseteq Int
  BY <1>1
<1>. QED BY Zenon, <1>1, <1>2, <1>3, <1>4, <1>5, <1>6

\* What a feature's state and the clock decide does not depend on anything else.
LEMMA OthersKeepNotice ==
    ASSUME NoticeInv, UNCHANGED <<now, features>>
    PROVE  NoticeInv'
BY DEF NoticeInv, NoticeType, Announced, Matured, features

\* The clock only goes forward.
LEMMA BlocksKeepNotice ==
    ASSUME NoticeInv, NEW t \in Times, t >= now, now' = t, UNCHANGED features
    PROVE  NoticeInv'
<1>1. NoticeType'
  BY DEF NoticeInv, NoticeType, features
<1>2. ASSUME NEW f \in Features PROVE Announced(f)'
  <2>1. /\ enabledFrom[f] \in Nat /\ notice[f] \in Int /\ firstNotice[f] \in Int
        /\ now \in Nat /\ t \in Nat /\ Delay \in Nat
    BY Clocks, TimesAssumption DEF NoticeInv
  <2>2. Announced(f)
    BY DEF NoticeInv
  <2>. QED BY <2>1, <2>2 DEF Announced, features
<1>3. ASSUME NEW f \in Features, Matured(f) PROVE Matured(f)'
  <2>1. firstNotice[f] \in Int /\ now \in Nat /\ t \in Nat /\ Delay \in Nat
    BY Clocks, TimesAssumption DEF NoticeInv
  <2>. QED BY <1>3, <2>1 DEF Matured, features
<1>4. "filtering" \in Features
  BY DEF Features
<1>. QED BY <1>1, <1>2, <1>3, <1>4 DEF NoticeInv, features

\* The two tests of the setters keep the delay, however a timestamp is moved.
LEMMA SetFeatureFromKeepsNotice ==
    ASSUME NoticeInv, NEW g \in Features, NEW time \in Times, SetFeatureFrom(g, time)
    PROVE  NoticeInv'
<1>. Delay \in Nat /\ now \in Nat /\ time \in Nat /\ now \in Times
  BY TimesAssumption DEF NoticeInv, NoticeType
<1>0. /\ enabledFrom' = [enabledFrom EXCEPT ![g] = time]
      /\ notice' = [notice EXCEPT ![g] = IF time # 0 /\ enabledFrom[g] = 0 THEN now ELSE @]
      /\ firstNotice' = [firstNotice EXCEPT ![g] = IF time # 0 /\ @ = -1 THEN now ELSE @]
      /\ UNCHANGED <<now, members, filtered>>
      /\ MayEnableAt(g, time)
  BY DEF SetFeatureFrom, chain
<1>1. NoticeType'
  BY <1>0 DEF NoticeInv, NoticeType
<1>2. ASSUME NEW f \in Features PROVE Announced(f)'
  <2>1. /\ enabledFrom[f] \in Nat /\ notice[f] \in Int /\ firstNotice[f] \in Int
    BY Clocks, TimesAssumption DEF NoticeInv
  <2>2. Announced(f)
    BY DEF NoticeInv
  <2>3. CASE f # g
    <3>1. /\ enabledFrom'[f] = enabledFrom[f] /\ notice'[f] = notice[f]
          /\ firstNotice'[f] = firstNotice[f] /\ now' = now
      BY <1>0, <2>3 DEF NoticeInv, NoticeType
    <3>. QED BY <3>1, <2>2 DEF Announced
  <2>4. CASE f = g
    <3>1. /\ enabledFrom'[f] = time /\ now' = now
          /\ notice'[f] = IF time # 0 /\ enabledFrom[f] = 0 THEN now ELSE notice[f]
          /\ firstNotice'[f] = IF time # 0 /\ firstNotice[f] = -1 THEN now ELSE firstNotice[f]
      BY <1>0, <2>4 DEF NoticeInv, NoticeType
    <3>2. MayEnableAt(f, time)
      BY <1>0, <2>4
    <3>3. CASE time = 0
      BY <3>1, <3>3, <2>1, <2>2 DEF Announced
    <3>4. CASE time # 0 /\ enabledFrom[f] = 0
      BY <3>1, <3>2, <3>4, <2>1, <2>2 DEF Announced, MayEnableAt
    <3>5. CASE time # 0 /\ enabledFrom[f] # 0
      <4>1. notice'[f] = notice[f] /\ firstNotice'[f] = firstNotice[f]
        BY <3>1, <3>5, <2>2 DEF Announced
      <4>2. time >= notice[f] + Delay \/ now >= notice[f] + Delay
        BY <3>2, <3>5, <2>1, <2>2 DEF Announced, MayEnableAt
      <4>. QED BY <4>1, <4>2, <3>1, <3>5, <2>2 DEF Announced
    <3>. QED BY <3>3, <3>4, <3>5
  <2>. QED BY <2>3, <2>4
<1>3. ASSUME NEW f \in Features, Matured(f) PROVE Matured(f)'
  BY <1>0, <1>3 DEF Matured, NoticeInv, NoticeType
<1>4. "filtering" \in Features
  BY DEF Features
<1>. QED BY <1>0, <1>1, <1>2, <1>3, <1>4 DEF NoticeInv

\* A feature that is on was announced long enough ago for its first announcement, too.
LEMMA EnabledIsMatured ==
    ASSUME NoticeInv, NEW f \in Features, Enabled(f)
    PROVE  notice[f] # -1 /\ now >= notice[f] + Delay /\ Matured(f)
<1>1. /\ enabledFrom[f] \in Nat /\ notice[f] \in Int /\ firstNotice[f] \in Int
      /\ now \in Nat /\ Delay \in Nat
  BY Clocks DEF NoticeInv
<1>2. Announced(f)
  BY DEF NoticeInv
<1>. QED BY <1>1, <1>2 DEF Announced, Enabled, Matured

\* Members are admitted to features that are on.
LEMMA AddMemberKeepsNotice ==
    ASSUME NoticeInv, NEW g \in Features, NEW a \in Accounts, AddMember(g, a)
    PROVE  NoticeInv'
<1>0. /\ members' = [members EXCEPT ![g] = @ \cup {a}]
      /\ UNCHANGED <<now, enabledFrom, notice, firstNotice, filtered>>
      /\ Enabled(g)
  BY DEF AddMember, chain
<1>1. Matured(g)
  BY <1>0, EnabledIsMatured
<1>2. NoticeType'
  BY <1>0 DEF NoticeInv, NoticeType
<1>3. \A f \in Features : Announced(f)'
  BY <1>0 DEF NoticeInv, Announced
<1>4. \A f \in Features : members'[f] # {} => Matured(f)
  BY <1>0, <1>1 DEF NoticeInv, NoticeType
<1>5. \A f \in Features : Matured(f) <=> Matured(f)'
  BY <1>0 DEF Matured
<1>6. "filtering" \in Features
  BY DEF Features
<1>. QED BY <1>0, <1>2, <1>3, <1>4, <1>5, <1>6 DEF NoticeInv

\* Removing members admits nobody.
LEMMA RemoveMemberKeepsNotice ==
    ASSUME NoticeInv, NEW g \in Features, NEW a \in Accounts, RemoveMember(g, a)
    PROVE  NoticeInv'
<1>0. /\ members' = [members EXCEPT ![g] = @ \ {a}]
      /\ UNCHANGED <<now, enabledFrom, notice, firstNotice, filtered>>
  BY DEF RemoveMember, chain
<1>2. NoticeType'
  BY <1>0 DEF NoticeInv, NoticeType
<1>3. \A f \in Features : Announced(f)'
  BY <1>0 DEF NoticeInv, Announced
<1>4. \A f \in Features : members'[f] # {} => Matured(f)
  BY <1>0 DEF NoticeInv, NoticeType
<1>5. \A f \in Features : Matured(f) <=> Matured(f)'
  BY <1>0 DEF Matured
<1>6. "filtering" \in Features
  BY DEF Features
<1>. QED BY <1>0, <1>2, <1>3, <1>4, <1>5, <1>6 DEF NoticeInv

\* Hashes enter the filter by the hand of a filterer.
LEMMA ChangeFilterKeepsNotice ==
    ASSUME NoticeInv, NEW a \in Accounts, NEW h \in Hashes, ChangeFilter(a, h)
    PROVE  NoticeInv'
<1>0. /\ UNCHANGED <<now, enabledFrom, members, notice, firstNotice>>
      /\ a \in members["filtering"]
  BY DEF ChangeFilter, Filterer, chain
<1>1. Matured("filtering")
  BY <1>0 DEF NoticeInv, Features
<1>. QED BY <1>0, <1>1 DEF NoticeInv, NoticeType, Announced, Matured

\* Owner calls about upgrades leave features and clock alone.
LEMMA UpgradesLeaveFeatures ==
    ASSUME Upgrades
    PROVE  UNCHANGED <<now, features>>
BY SMTT(30) DEF Upgrades, ScheduleUpgrade, SetParam, SetWasmLimit, SetInkPrice, Sets, SetWasmMinInitGas,
       SetCalldataPriceIncrease, SetMaxTxGasLimit, chain, governance

\* So do owner calls about prices, and transactions.
LEMMA PricesLeaveFeatures ==
    ASSUME Prices
    PROVE  UNCHANGED <<now, features>>
BY DEF Prices, SetPricing, SetGasPricingConstraints, UserTx, UserTxFails, Redeem, chain,
       governance

\* No step loses the invariant.
LEMMA NextKeepsNotice ==
    ASSUME NoticeInv, [Next]_vars
    PROVE  NoticeInv'
<1>1. CASE Upgrades
  BY <1>1, UpgradesLeaveFeatures, OthersKeepNotice
<1>2. CASE Prices
  BY <1>2, PricesLeaveFeatures, OthersKeepNotice
<1>3. CASE Governs
  <2>1. ASSUME NEW a \in Accounts, AddChainOwner(a) \/ RemoveChainOwner(a) PROVE NoticeInv'
    <3>1. UNCHANGED <<now, features>>
      BY <2>1 DEF AddChainOwner, RemoveChainOwner, chain
    <3>. QED BY <3>1, OthersKeepNotice
  <2>. QED BY <1>3, <2>1, SetFeatureFromKeepsNotice, AddMemberKeepsNotice,
              RemoveMemberKeepsNotice, ChangeFilterKeepsNotice DEF Governs
<1>4. CASE Blocks
  <2>1. ASSUME NEW t \in Times, StartBlock(t) PROVE NoticeInv'
    <3>1. t >= now /\ now' = t /\ UNCHANGED features
      BY <2>1 DEF StartBlock, NextBlock, governance
    <3>. QED BY <3>1, BlocksKeepNotice
  <2>2. ASSUME NEW t \in Times, StartBlockFails(t) PROVE NoticeInv'
    <3>1. UNCHANGED <<now, features>>
      BY <2>2 DEF StartBlockFails, governance
    <3>. QED BY <3>1, OthersKeepNotice
  <2>3. ASSUME EndBlock PROVE NoticeInv'
    <3>1. UNCHANGED <<now, features>>
      BY <2>3 DEF EndBlock, governance
    <3>. QED BY <3>1, OthersKeepNotice
  <2>. QED BY <1>4, <2>1, <2>2, <2>3 DEF Blocks
<1>5. CASE UNCHANGED vars
  <2>1. UNCHANGED <<now, features>>
    BY <1>5 DEF vars, features
  <2>. QED BY <2>1, OthersKeepNotice
<1>. QED BY <1>1, <1>2, <1>3, <1>4, <1>5 DEF Next

\* The invariant holds before anything was announced.
LEMMA InitNotice == Init => NoticeInv
<1>. SUFFICES ASSUME Init PROVE NoticeInv
  OBVIOUS
<1>1. /\ now \in Times
      /\ enabledFrom = [f \in Features |-> 0] /\ members = [f \in Features |-> {}]
      /\ notice = [f \in Features |-> -1] /\ firstNotice = [f \in Features |-> -1]
      /\ filtered = {}
  BY DEF Init
<1>2. now \in Nat
  BY <1>1, TimesAssumption
<1>. QED BY <1>1, <1>2 DEF NoticeInv, NoticeType, Announced

\* In every reachable state a feature that is on was announced at least the delay ago, and
\* nobody was admitted to it, and nothing filtered, before that (the setters of the two
\* timestamps in ArbOwner, and who may write to the filter).
THEOREM NoticeIsGiven == Spec => []FeatureNotice
<1>1. NoticeInv => FeatureNotice
  <2>. SUFFICES ASSUME NoticeInv PROVE FeatureNotice
    OBVIOUS
  <2>1. \A f \in Features : Enabled(f) => notice[f] # -1 /\ now >= notice[f] + Delay
    BY EnabledIsMatured
  <2>. QED BY <2>1 DEF NoticeInv, Matured, FeatureNotice
<1>. QED BY <1>1, InitNotice, NextKeepsNotice, PTL DEF Spec

-----------------------------------------------------------------------------
(* Precompile accounts.                                                    *)

\* What the tables decide, with versions as numbers.
InstallInv ==
    /\ version \in 1 .. LatestVersion /\ upgrade.version \in Nat
    /\ PrecompilesMatchVersion

\* The table of the dispatcher is that of the installer.
LEMMA TablesAgree ==
    ASSUME NEW p \in Precompiles
    PROVE  /\ PrecompileMinArbosVersion[p] = IntroducedAt[p]
           /\ IntroducedAt[p] \in Nat
           /\ p = "ArbDebug" => IntroducedAt[p] = 0
BY DEF PrecompileMinArbosVersion, IntroducedAt, Precompiles

\* An upgrade installs what lies between the versions it leads from and to.
LEMMA StartBlockInstalls ==
    ASSUME InstallInv, NEW t \in Times, StartBlock(t)
    PROVE  InstallInv'
<1>. DEFINE target == UpgradeTarget(t)
<1>1. version' = target /\ installed' = installed \cup Install(version, target)
      /\ upgrade' = upgrade
  BY DEF StartBlock
<1>2. /\ version \in Nat /\ target \in 1 .. LatestVersion /\ version <= target
      /\ upgrade.version \in Nat
  <2>1. target <= LatestVersion
    BY DEF StartBlock
  <2> QED  BY <2>1 DEF InstallInv, UpgradeTarget, LatestVersion
<1>. HIDE DEF target
<1>3. ASSUME NEW p \in Precompiles
      PROVE  p \in installed' <=> PrecompileMinArbosVersion[p] <= version'
  <2>1. p \in installed <=> PrecompileMinArbosVersion[p] <= version
    BY DEF InstallInv, PrecompilesMatchVersion
  <2>2. p \in Install(version, target)
            <=> p # "ArbDebug" /\ IntroducedAt[p] \in (version + 1) .. target
    BY DEF Install
  <2>3. p = "ArbDebug" => IntroducedAt[p] <= version
    BY <1>2, TablesAgree
  <2>. QED BY <1>1, <1>2, <2>1, <2>2, <2>3, TablesAgree
<1>4. installed' \subseteq Precompiles
  BY <1>1 DEF InstallInv, PrecompilesMatchVersion, Install
<1>5. PrecompilesMatchVersion'
  <2>1. \A p \in Precompiles :
            p \in installed' <=> PrecompileMinArbosVersion[p] <= version'
    BY <1>3
  <2>2. PrecompileMinArbosVersion' = PrecompileMinArbosVersion /\ Precompiles' = Precompiles
    BY DEF PrecompileMinArbosVersion, Precompiles
  <2>. QED BY <2>1, <2>2, <1>4 DEF PrecompilesMatchVersion
<1>. QED BY <1>1, <1>2, <1>5 DEF InstallInv

\* No other step touches version or accounts.
LEMMA OthersKeepInstalled ==
    ASSUME InstallInv, UNCHANGED <<version, upgrade, installed>>
    PROVE  InstallInv'
BY DEF InstallInv, PrecompilesMatchVersion, PrecompileMinArbosVersion, Precompiles

\* A schedule names a version.
LEMMA ScheduleKeepsInstalled ==
    ASSUME InstallInv, NEW v \in Targets, NEW t \in Times, ScheduleUpgrade(v, t)
    PROVE  InstallInv'
<1>1. upgrade' = [version |-> v, time |-> t] /\ UNCHANGED <<version, installed>>
  BY DEF ScheduleUpgrade, chain
<1>2. upgrade'.version \in Nat
  BY <1>1, VersionsAssumption
<1>. QED BY <1>1, <1>2
         DEF InstallInv, PrecompilesMatchVersion, PrecompileMinArbosVersion, Precompiles

\* The same for all steps.
LEMMA NextInstalls ==
    ASSUME InstallInv, [Next]_vars
    PROVE  InstallInv'
<1>1. CASE Upgrades
  <2>1. ASSUME \/ \E c \in ParamChoices : SetParam(c[1], c[2]) \/ SetWasmLimit(c[1], c[2])
               \/ \E v \in 0 .. 1 : SetInkPrice(v)
               \/ SetWasmMinInitGas(40000, 64)
               \/ \E on \in BOOLEAN : SetCalldataPriceIncrease(on)
               \/ SetMaxTxGasLimit(GenesisTxLimit + 1)
        PROVE  UNCHANGED <<version, upgrade, installed>>
    BY SMTT(30), <2>1 DEF SetParam, SetWasmLimit, SetInkPrice, Sets, SetWasmMinInitGas,
                SetCalldataPriceIncrease, SetMaxTxGasLimit, chain
  <2>. QED BY SMTT(30), <1>1, <2>1, ScheduleKeepsInstalled, OthersKeepInstalled DEF Upgrades
<1>2. CASE Prices
  <2>1. UNCHANGED <<version, upgrade, installed>>
    BY <1>2 DEF Prices, SetPricing, SetGasPricingConstraints, UserTx, UserTxFails, Redeem, chain
  <2>. QED BY SMTT(30), <2>1, OthersKeepInstalled
<1>3. CASE Governs
  <2>1. UNCHANGED <<version, upgrade, installed>>
    BY <1>3 DEF Governs, AddChainOwner, RemoveChainOwner, SetFeatureFrom, AddMember,
                RemoveMember, ChangeFilter, chain
  <2>. QED BY <2>1, OthersKeepInstalled
<1>4. CASE Blocks
  <2>1. ASSUME EndBlock \/ (\E t \in Times : StartBlockFails(t))
        PROVE  UNCHANGED <<version, upgrade, installed>>
    BY <2>1 DEF EndBlock, StartBlockFails
  <2>. QED BY <1>4, <2>1, StartBlockInstalls, OthersKeepInstalled DEF Blocks
<1>5. CASE UNCHANGED vars
  <2>1. UNCHANGED <<version, upgrade, installed>>
    BY <1>5 DEF vars
  <2>. QED BY <2>1, OthersKeepInstalled
<1>. QED BY <1>1, <1>2, <1>3, <1>4, <1>5 DEF Next

\* Genesis installs what its version introduced.
LEMMA InitInstalls == Init => InstallInv
<1>. SUFFICES ASSUME Init PROVE InstallInv
  OBVIOUS
<1>1. /\ version \in GenesisVersions /\ upgrade = [version |-> 0, time |-> 0]
      /\ installed = {p \in Precompiles : IntroducedAt[p] <= version}
  BY DEF Init
<1>2. version \in 1 .. LatestVersion
  BY <1>1, VersionsAssumption
<1>. QED BY <1>1, <1>2, TablesAgree DEF InstallInv, PrecompilesMatchVersion

\* For every genesis version and every sequence of upgrades, the precompile accounts with
\* code are those that the dispatcher answers for (initialize_arbos_state,
\* install_precompiles_introduced_at, precompile_min_arbos_version).
THEOREM PrecompilesInstalled == Spec => []PrecompilesMatchVersion
<1>1. InstallInv => PrecompilesMatchVersion
  BY DEF InstallInv
<1>. QED BY <1>1, InitInstalls, NextInstalls, PTL DEF Spec

-----------------------------------------------------------------------------
(* The rules of a block: the nearest version with rules of its own.        *)

\* from_arbos_version finds the largest version of the table at or below the one it is given.
LEMMA NearestVersion ==
    ASSUME NEW v \in 1 .. LatestVersion
    PROVE  /\ FromArbosVersion(v) \in SpecVersions /\ FromArbosVersion(v) <= v
           /\ \A u \in SpecVersions : u <= v => u <= FromArbosVersion(v)
<1> DEFINE Nearest(s) == s <= v /\ \A u \in SpecVersions : u <= v => u <= s
<1>1. \E s \in SpecVersions : Nearest(s)
  <2>1. CASE v \in 1 .. 11
    <3>1. v \in SpecVersions /\ Nearest(v)
      BY <2>1 DEF SpecVersions
    <3> QED  BY <3>1
  <2>2. ASSUME NEW s \in SpecVersions, NEW t \in Nat, v \in s .. t - 1,
               \A u \in SpecVersions : u <= s \/ t <= u
        PROVE  \E r \in SpecVersions : Nearest(r)
    <3>1. Nearest(s)
      BY <2>2 DEF SpecVersions
    <3> QED  BY <3>1
  <2>3. SpecVersions = (1 .. 11) \cup {20, 30, 31, 32, 40, 41, 50, 51, 60, 61}
    BY DEF SpecVersions
  <2>4. CASE v \in 11 .. 19
    BY <2>2, <2>3, <2>4
  <2>5. CASE v \in 20 .. 29
    BY <2>2, <2>3, <2>5
  <2>6. CASE v = 30
    BY <2>2, <2>3, <2>6
  <2>7. CASE v = 31
    BY <2>2, <2>3, <2>7
  <2>8. CASE v \in 32 .. 39
    BY <2>2, <2>3, <2>8
  <2>9. CASE v = 40
    BY <2>2, <2>3, <2>9
  <2>10. CASE v \in 41 .. 49
    BY <2>2, <2>3, <2>10
  <2>11. CASE v = 50
    BY <2>2, <2>3, <2>11
  <2>12. CASE v \in 51 .. 59
    BY <2>2, <2>3, <2>12
  <2>13. CASE v = 60
    BY <2>2, <2>3, <2>13
  <2>14. CASE v = 61
    BY <2>2, <2>3, <2>14
  <2>15. v \in 1 .. 11 \/ v \in 11 .. 19 \/ v \in 20 .. 29 \/ v = 30 \/ v = 31 \/ v \in 32 .. 39
         \/ v = 40 \/ v \in 41 .. 49 \/ v = 50 \/ v \in 51 .. 59 \/ v = 60 \/ v = 61
    BY DEF LatestVersion
  <2> HIDE DEF Nearest
  <2> QED  BY <2>1, <2>4, <2>5, <2>6, <2>7, <2>8, <2>9, <2>10, <2>11, <2>12, <2>13, <2>14, <2>15
<1>2. CASE v <= 1
  <2>1. v = 1 /\ FromArbosVersion(v) = 1
    BY <1>2 DEF FromArbosVersion
  <2> QED  BY <2>1 DEF SpecVersions
<1>3. CASE ~(v <= 1)
  <2>1. FromArbosVersion(v) = CHOOSE s \in SpecVersions : Nearest(s)
    BY <1>3 DEF FromArbosVersion
  <2> DEFINE c == CHOOSE s \in SpecVersions : Nearest(s)
  <2>2. c \in SpecVersions /\ Nearest(c)
    <3> HIDE DEF Nearest
    <3> QED  BY <1>1
  <2> QED  BY <2>1, <2>2
<1> QED  BY <1>2, <1>3

\* The rules of Ethereum change at versions that are in the table.
LEMMA RulesOfNearest ==
    ASSUME NEW v \in 1 .. LatestVersion
    PROVE  /\ IntoEthSpec(FromArbosVersion(v)) = IntoEthSpec(v)
           /\ EthPrecompiles(FromArbosVersion(v)) = EthPrecompiles(v)
<1> DEFINE s == FromArbosVersion(v)
<1>1. s \in Nat /\ v \in Nat /\ s <= v
  BY NearestVersion DEF SpecVersions
<1>2. ASSUME NEW u \in {11, 20, 40, 50} PROVE s >= u <=> v >= u
  <2>1. u \in SpecVersions
    BY DEF SpecVersions
  <2> QED  BY <1>1, <2>1, NearestVersion
<1> HIDE DEF s
<1>3. IntoEthSpec(s) = IntoEthSpec(v)
  <2>1. (s >= 50 <=> v >= 50) /\ (s \in 40 .. 49 <=> v \in 40 .. 49)
    BY <1>1, <1>2
  <2>2. (s \in 20 .. 39 <=> v \in 20 .. 39) /\ (s \in 11 .. 19 <=> v \in 11 .. 19)
    BY <1>1, <1>2
  <2> QED  BY <1>1, <2>1, <2>2 DEF IntoEthSpec
<1>4. EthPrecompiles(s) = EthPrecompiles(v)
  BY <1>2 DEF EthPrecompiles
<1> QED  BY <1>3, <1>4 DEF s

-----------------------------------------------------------------------------
(* The upgrade path as a sequence of steps.  A path up to n exists and is  *)
(* unique, by the least index at which it would fail.                      *)

\* Every nonempty set of natural numbers has a least element.
LEMMA Least ==
    ASSUME NEW S \in SUBSET Nat, S # {}
    PROVE  \E n \in S : \A m \in S : n <= m
<1> DEFINE R == OpToRel(<, Nat)
<1>1. IsWellFoundedOn(R, Nat)
  BY Zenon, NatLessThanWellFounded
<1> HIDE DEF R
<1>2. \E x \in S : \A y \in S : ~(<<y, x>> \in R)
  BY Zenon, <1>1, WFMin
<1>3. PICK x \in S : \A y \in S : ~(<<y, x>> \in R)
  BY <1>2
<1>4. \A y \in S : ~(y < x)
  BY Zenon, <1>3 DEF R, OpToRel
<1> QED  BY <1>4

\* The parameters on the way from version f to version n, starting with p.
IsPath(a, p, f, n) == a = [v \in f .. n |-> IF v = f THEN p ELSE Step(a[v - 1], v)]

\* A path starts with the parameters it is given.
LEMMA PathStart ==
    ASSUME NEW a, NEW p, NEW f \in Nat, NEW n \in Nat, IsPath(a, p, f, n), f <= n
    PROVE  a[f] = p
<1>1. f \in f .. n
  OBVIOUS
<1> QED  BY <1>1 DEF IsPath

\* And it takes one step per version.
LEMMA PathSteps ==
    ASSUME NEW a, NEW p, NEW f \in Nat, NEW n \in Nat, IsPath(a, p, f, n), NEW v \in f + 1 .. n
    PROVE  a[v] = Step(a[v - 1], v)
<1>1. v \in f .. n /\ v # f
  OBVIOUS
<1> QED  BY <1>1 DEF IsPath

\* There is a path between any two versions.
LEMMA PathExists ==
    ASSUME NEW p, NEW f \in Nat, NEW n \in Nat, f <= n
    PROVE  \E a : IsPath(a, p, f, n)
<1> DEFINE S == {m \in Nat : f <= m /\ ~\E a : IsPath(a, p, f, m)}
<1>1. SUFFICES ASSUME S # {} PROVE FALSE
  OBVIOUS
<1>2. PICK m \in S : \A k \in S : m <= k
  <2>1. S \in SUBSET Nat
    OBVIOUS
  <2> HIDE DEF S
  <2> QED  BY <1>1, <2>1, Least
<1>3. CASE m = f
  <2> DEFINE a == [v \in f .. f |-> p]
  <2>1. IsPath(a, p, f, f)
    BY DEF IsPath
  <2> QED  BY <1>2, <1>3, <2>1
<1>4. CASE m # f
  <2>1. m - 1 \in Nat /\ f <= m - 1 /\ m - 1 \notin S
    BY <1>2, <1>4
  <2>2. PICK a : IsPath(a, p, f, m - 1)
    BY <2>1
  <2> DEFINE b == [v \in f .. m |-> IF v = m THEN Step(a[m - 1], m) ELSE a[v]]
  <2>3. ASSUME NEW v \in f .. m
        PROVE  b[v] = IF v = f THEN p ELSE Step(b[v - 1], v)
    <3>1. CASE v = f
      <4>1. a[f] = p
        BY <2>1, <2>2, PathStart
      <4>2. b[v] = a[f]
        BY <3>1, <1>4
      <4> QED  BY <3>1, <4>1, <4>2
    <3>2. CASE v # f /\ v # m
      <4>1. v \in f + 1 .. m - 1 /\ v - 1 \in f .. m /\ v - 1 # m
        BY <3>2, <2>1
      <4>2. a[v] = Step(a[v - 1], v)
        BY <4>1, <2>1, <2>2, PathSteps
      <4> QED  BY <3>2, <4>1, <4>2
    <3>3. CASE v # f /\ v = m
      <4>1. m - 1 \in f .. m /\ m - 1 # m
        BY <2>1
      <4>2. b[m - 1] = a[m - 1]
        BY <4>1
      <4> QED  BY <3>3, <4>2
    <3> QED  BY <3>1, <3>2, <3>3
  <2>4. b = [v \in f .. m |-> b[v]]
    OBVIOUS
  <2>5. IsPath(b, p, f, m)
    <3> HIDE DEF b
    <3> QED  BY Zenon, <2>3, <2>4 DEF IsPath
  <2> QED  BY <1>2, <2>5
<1> QED  BY <1>3, <1>4

\* Paths from the same start agree where both are defined.
LEMMA PathsAgree ==
    ASSUME NEW p, NEW f \in Nat, NEW m \in Nat, NEW n \in Nat,
           NEW a, IsPath(a, p, f, m), NEW b, IsPath(b, p, f, n),
           NEW k \in Nat, f <= k, k <= m, k <= n
    PROVE  a[k] = b[k]
<1> DEFINE S == {i \in Nat : f <= i /\ i <= k /\ a[i] # b[i]}
<1>1. SUFFICES ASSUME S # {} PROVE FALSE
  OBVIOUS
<1>2. PICK i \in S : \A j \in S : i <= j
  <2>1. S \in SUBSET Nat
    OBVIOUS
  <2> HIDE DEF S
  <2> QED  BY <1>1, <2>1, Least
<1>3. i # f
  <2>1. f <= m /\ f <= n
    OBVIOUS
  <2>2. a[f] = p
    BY <2>1, PathStart
  <2>3. b[f] = p
    BY <2>1, PathStart
  <2> QED  BY <1>2, <2>2, <2>3
<1>4. i - 1 \in Nat /\ f <= i - 1 /\ i - 1 <= k /\ i - 1 \notin S
  BY <1>2, <1>3
<1>5. a[i - 1] = b[i - 1]
  BY <1>4
<1>6. i # f /\ i \in f .. m /\ i \in f .. n
  BY <1>2, <1>3
<1>7. a[i] = Step(a[i - 1], i) /\ b[i] = Step(b[i - 1], i)
  BY <1>6 DEF IsPath
<1> QED  BY <1>2, <1>5, <1>7

\* upgrade_arbos_version follows the path.
LEMMA UpgradedIsPath ==
    ASSUME NEW p, NEW f \in Nat, NEW n \in Nat, f <= n
    PROVE  \E a : IsPath(a, p, f, n) /\ Upgraded(p, f, n) = a[n]
<1> DEFINE c == CHOOSE a : IsPath(a, p, f, n)
<1>1. IsPath(c, p, f, n)
  BY Zenon, PathExists
<1>2. Upgraded(p, f, n) = c[n]
  BY DEF Upgraded, IsPath
<1> QED  BY Zenon, <1>1, <1>2

\* A value for every parameter.
Params(p) == p = [n \in ParamNames |-> p[n]]

\* The names the steps write are parameters.
LEMMA StepKeepsNames ==
    ASSUME NEW p, Params(p), NEW v \in Nat
    PROVE  Params(Step(p, v))
<1>1. ASSUME NEW x, NEW n \in ParamNames PROVE Params([p EXCEPT ![n] = x])
  BY <1>1 DEF Params
<1>2. Params(ProgramsInitialize(p))
  BY DEF Params, ProgramsInitialize
<1>3. ASSUME NEW n \in ParamNames, NEW x, NEW m \in ParamNames, NEW y
      PROVE  Params([p EXCEPT ![n] = x, ![m] = y])
  BY Zenon, <1>3 DEF Params
<1>4. ASSUME NEW n \in ParamNames, NEW x, NEW m \in ParamNames, NEW y, NEW k \in ParamNames, NEW z
      PROVE  Params([p EXCEPT ![n] = x, ![m] = y, ![k] = z])
  BY Zenon, <1>4 DEF Params
<1>5. {"perBatch", "cap", "brotli", "historyNonce", "filterNonce", "stylusVersion", "minInitGas",
       "maxWasm", "stackDepth", "fragments"} \subseteq ParamNames
  BY DEF ParamNames, StylusNames
<1>6. CASE v = 3
  BY <1>3, <1>5, <1>6 DEF Step
<1>7. CASE v = 11
  BY SMTT(30), <1>3, <1>5, <1>7 DEF Step
<1>8. CASE v = 20
  BY <1>1, <1>5, <1>8 DEF Step
<1>9. CASE v = 30
  BY <1>2, <1>9 DEF Step
<1>10. CASE v = 31
  BY <1>3, <1>5, <1>10 DEF Step, StylusV2
<1>11. CASE v = 40
  BY <1>3, <1>5, <1>11 DEF Step, HistoryStorage
<1>12. CASE v = 50
  BY <1>1, <1>5, <1>12 DEF Step, CapStackDepth
<1>13. CASE v = 59
  BY <1>1, <1>5, <1>13 DEF Step, StylusV3
<1>14. CASE v = 60
  BY SMTT(30), <1>4, <1>5, <1>14 DEF Step, ContractLimit
<1>15. CASE v \notin {3, 11, 20, 30, 31, 40, 50, 59, 60}
  BY <1>15 DEF Step
<1> QED  BY <1>6, <1>7, <1>8, <1>9, <1>10, <1>11, <1>12, <1>13, <1>14, <1>15

\* What a step leaves in a parameter depends on its own value at most, and not even on
\* that where the step overwrites it.
LEMMA StepAlike ==
    ASSUME NEW p, Params(p), NEW q, Params(q), NEW v \in Nat, NEW n \in ParamNames,
           p[n] = q[n] \/ n \in Overwrites(v)
    PROVE  Step(p, v)[n] = Step(q, v)[n]
<1>1. DOMAIN p = ParamNames /\ DOMAIN q = ParamNames
  BY DEF Params
<1>2. {"perBatch", "cap", "brotli", "historyNonce", "filterNonce", "stylusVersion", "minInitGas",
       "maxWasm", "stackDepth", "fragments"} \subseteq ParamNames
  BY DEF ParamNames, StylusNames
<1>6. CASE v = 3
  BY <1>1, <1>2, <1>6 DEF Step, Overwrites, Params
<1>7. CASE v = 11
  BY <1>1, <1>2, <1>7 DEF Step, Overwrites, Params
<1>8. CASE v = 20
  BY <1>1, <1>2, <1>8 DEF Step, Overwrites, Params
<1>9. CASE v = 30
  <2>1. n \notin StylusNames \cup PricerNames => p[n] = q[n]
    BY <1>9 DEF Overwrites
  <2>2. Step(p, v) = ProgramsInitialize(p) /\ Step(q, v) = ProgramsInitialize(q)
    BY <1>9 DEF Step
  <2>3. CASE n \in StylusNames \cup PricerNames
    BY <2>2, <2>3 DEF ProgramsInitialize, StylusNames, PricerNames
  <2>4. CASE n \notin StylusNames \cup PricerNames
    BY <2>1, <2>2, <2>4 DEF ProgramsInitialize, StylusNames, PricerNames
  <2> QED  BY <2>3, <2>4
<1>10. CASE v = 31
  BY <1>1, <1>2, <1>10 DEF Step, Overwrites, Params, StylusV2
<1>11. CASE v = 40
  BY <1>1, <1>2, <1>11 DEF Step, Overwrites, Params, HistoryStorage
<1>12. CASE v = 50
  <2>1. p[n] = q[n]
    BY <1>12 DEF Overwrites, ParamNames, StylusNames, PricerNames
  <2>2. Step(p, v) = CapStackDepth(p) /\ Step(q, v) = CapStackDepth(q)
    BY <1>12 DEF Step
  <2> QED  BY <1>1, <2>1, <2>2 DEF CapStackDepth
<1>13. CASE v = 59
  BY <1>1, <1>2, <1>13 DEF Step, Overwrites, Params, StylusV3
<1>14. CASE v = 60
  BY <1>1, <1>2, <1>14 DEF Step, Overwrites, Params, ContractLimit
<1>15. CASE v \notin {3, 11, 20, 30, 31, 40, 50, 59, 60}
  BY <1>15 DEF Step, Overwrites
<1> QED  BY <1>6, <1>7, <1>8, <1>9, <1>10, <1>11, <1>12, <1>13, <1>14, <1>15

\* The parameters of a chain that upgraded from version 1 with nobody interfering.
Plain(v) == Upgraded(BlankPar, 1, v)

\* Along a path the parameters stay parameters.
LEMMA PathKeepsNames ==
    ASSUME NEW p, Params(p), NEW f \in Nat, NEW n \in Nat, NEW a, IsPath(a, p, f, n),
           NEW k \in f .. n
    PROVE  Params(a[k])
<1> DEFINE S == {i \in Nat : f <= i /\ i <= n /\ ~Params(a[i])}
<1>1. SUFFICES ASSUME S # {} PROVE FALSE
  OBVIOUS
<1>2. PICK i \in S : \A j \in S : i <= j
  <2>1. S \in SUBSET Nat
    OBVIOUS
  <2> HIDE DEF S
  <2> QED  BY <1>1, <2>1, Least
<1>3. i # f
  <2>1. a[f] = p
    BY PathStart
  <2> QED  BY <1>2, <2>1
<1>4. i - 1 \in Nat /\ f <= i - 1 /\ i - 1 <= n /\ i - 1 \notin S /\ i \in f + 1 .. n
  BY <1>2, <1>3
<1>5. a[i] = Step(a[i - 1], i)
  BY <1>4, PathSteps
<1>6. Params(a[i - 1])
  BY <1>4
<1>7. Params(Step(a[i - 1], i))
  BY <1>6, StepKeepsNames
<1> QED  BY <1>2, <1>5, <1>7

\* Genesis takes the same steps.
LEMMA PlainSteps ==
    ASSUME NEW v \in Nat, v >= 1
    PROVE  /\ Plain(1) = BlankPar /\ Params(Plain(v))
           /\ Plain(v + 1) = Step(Plain(v), v + 1)
<1>1. PICK a : IsPath(a, BlankPar, 1, v) /\ Plain(v) = a[v]
  BY UpgradedIsPath DEF Plain
<1>2. PICK b : IsPath(b, BlankPar, 1, v + 1) /\ Plain(v + 1) = b[v + 1]
  BY UpgradedIsPath DEF Plain
<1>3. PICK c : IsPath(c, BlankPar, 1, 1) /\ Plain(1) = c[1]
  BY UpgradedIsPath DEF Plain
<1>4. a[v] = b[v]
  <2>1. 1 <= v /\ v <= v /\ v <= v + 1 /\ v + 1 \in Nat
    OBVIOUS
  <2> QED  BY <1>1, <1>2, <2>1, PathsAgree
<1>5. b[v + 1] = Step(b[v], v + 1)
  <2> DEFINE w == v + 1
  <2>1. w # 1 /\ w \in 1 .. w /\ w \in Nat /\ w - 1 = v
    OBVIOUS
  <2>2. IsPath(b, BlankPar, 1, w)
    BY <1>2
  <2> HIDE DEF w
  <2>3. b[w] = Step(b[w - 1], w)
    BY <2>1, <2>2 DEF IsPath
  <2> QED  BY <2>1, <2>3 DEF w
<1>6. c[1] = BlankPar
  BY <1>3, PathStart
<1>7. Params(BlankPar)
  BY DEF Params, BlankPar
<1>8. Params(a[v])
  <2>1. v \in 1 .. v
    OBVIOUS
  <2> QED  BY <1>1, <1>7, <2>1, PathKeepsNames
<1> QED  BY <1>1, <1>2, <1>3, <1>4, <1>5, <1>6, <1>8

\* The parameters outside T are those of genesis; genesis alone charges per batch at 6 to 10.
AgreesAt(p, v, T) ==
    \A n \in ParamNames \ T : p[n] = Plain(v)[n] \/ (n = "perBatch" /\ v \in 6 .. 10)

\* One step of an upgrade.
LEMMA StepAgrees ==
    ASSUME NEW p, Params(p), NEW v \in Nat, v >= 1, NEW T, AgreesAt(p, v, T)
    PROVE  AgreesAt(Step(p, v + 1), v + 1, T \ Overwrites(v + 1))
<1>1. Params(Plain(v)) /\ Plain(v + 1) = Step(Plain(v), v + 1) /\ v + 1 \in Nat
  BY PlainSteps
<1>2. SUFFICES ASSUME NEW n \in ParamNames \ (T \ Overwrites(v + 1))
               PROVE  \/ Step(p, v + 1)[n] = Plain(v + 1)[n]
                      \/ n = "perBatch" /\ v + 1 \in 6 .. 10
  BY DEF AgreesAt
<1>3. CASE p[n] = Plain(v)[n] \/ n \in Overwrites(v + 1)
  <2>1. Step(p, v + 1)[n] = Step(Plain(v), v + 1)[n]
    BY <1>1, <1>3, StepAlike
  <2> QED  BY <1>1, <2>1
<1>4. CASE n = "perBatch" /\ v \in 6 .. 10 /\ n \notin Overwrites(v + 1)
  <2>1. "perBatch" \in Overwrites(11)
    BY DEF Overwrites
  <2>2. v + 1 # 11
    BY <1>4, <2>1
  <2> QED  BY <1>4, <2>2
<1>5. n \in Overwrites(v + 1) \/ n \notin T
  OBVIOUS
<1> QED  BY <1>3, <1>4, <1>5 DEF AgreesAt

\* An upgrade, of as many steps as it has.
LEMMA UpgradeAgrees ==
    ASSUME NEW p, Params(p), NEW f \in Nat, f >= 1, NEW n \in Nat, f <= n, NEW T, AgreesAt(p, f, T)
    PROVE  /\ Params(Upgraded(p, f, n))
           /\ AgreesAt(Upgraded(p, f, n), n, T \ UNION {Overwrites(u) : u \in f + 1 .. n})
<1> DEFINE Left(v) == T \ UNION {Overwrites(u) : u \in f + 1 .. v}
<1>1. PICK a : IsPath(a, p, f, n) /\ Upgraded(p, f, n) = a[n]
  BY UpgradedIsPath
<1> DEFINE S == {i \in Nat : f <= i /\ i <= n /\ ~AgreesAt(a[i], i, Left(i))}
<1>2. ASSUME S # {} PROVE FALSE
  <2>1. PICK i \in S : \A j \in S : i <= j
    <3>1. S \in SUBSET Nat
      OBVIOUS
    <3> HIDE DEF S
    <3> QED  BY <1>2, <3>1, Least
  <2>2. CASE i = f
    <3>1. a[f] = p
      BY <1>1, PathStart
    <3>2. Left(f) = T
      <4>1. f + 1 .. f = {}
        OBVIOUS
      <4> QED  BY <4>1
    <3> HIDE DEF Left
    <3> QED  BY <2>1, <2>2, <3>1, <3>2
  <2>3. CASE i # f
    <3> DEFINE j == i - 1
    <3>0. i \in Nat /\ f <= i /\ i <= n
      BY <2>1
    <3>1. /\ j \in Nat /\ f <= j /\ j <= n /\ j >= 1 /\ j + 1 = i /\ ~(i <= j)
          /\ i \in f + 1 .. n /\ j \in f .. n
      BY <3>0, <2>3
    <3>2. AgreesAt(a[j], j, Left(j))
      <4>1. j \notin S
        <5> HIDE DEF S
        <5> QED  BY <2>1, <3>1
      <4> QED  BY <3>1, <4>1
    <3>3. Params(a[j])
      BY <1>1, <3>1, PathKeepsNames
    <3>4. a[i] = Step(a[j], i)
      <4>1. a[i] = Step(a[i - 1], i)
        BY <1>1, <3>1, PathSteps
      <4> QED  BY <4>1
    <3>5. Left(i) = Left(j) \ Overwrites(i)
      <4>1. f + 1 .. i = (f + 1 .. j) \cup {i}
        BY <3>1
      <4> QED  BY <4>1
    <3> HIDE DEF j, Left
    <3>6. AgreesAt(Step(a[j], j + 1), j + 1, Left(j) \ Overwrites(j + 1))
      BY <3>1, <3>2, <3>3, StepAgrees
    <3>7. AgreesAt(a[i], i, Left(i))
      BY <3>1, <3>4, <3>5, <3>6
    <3> QED  BY <2>1, <3>7
  <2> QED  BY <2>2, <2>3
<1>3. AgreesAt(a[n], n, Left(n))
  <2> HIDE DEF Left
  <2> QED  BY <1>2
<1>4. Params(a[n])
  <2>1. n \in f .. n
    OBVIOUS
  <2> QED  BY <1>1, <2>1, PathKeepsNames
<1> QED  BY <1>1, <1>3, <1>4

\* Genesis parameters, but for the charge per batch, are those of the upgrades.
LEMMA GenesisAgrees ==
    ASSUME NEW v \in 1 .. LatestVersion
    PROVE  /\ Params(GenesisPar[v]) /\ AgreesAt(GenesisPar[v], v, {})
           /\ \A p, T : AgreesAt(p, v, T) =>
                 \A n \in ParamNames \ T :
                    p[n] = GenesisPar[v][n] \/ (n = "perBatch" /\ v \in 6 .. 10)
<1>1. v \in Nat /\ v >= 1
  BY DEF LatestVersion
<1>2. Params(Plain(v))
  BY <1>1, PlainSteps
<1>3. GenesisPar[v] = IF v \in 6 .. 10 THEN [Plain(v) EXCEPT !["perBatch"] = 100000] ELSE Plain(v)
  BY DEF GenesisPar, Plain
<1>4. CASE v \in 6 .. 10
  <2>1. Params([Plain(v) EXCEPT !["perBatch"] = 100000])
    BY <1>2 DEF Params
  <2>2. \A n \in ParamNames \ {"perBatch"} :
            [Plain(v) EXCEPT !["perBatch"] = 100000][n] = Plain(v)[n]
    BY <1>2 DEF Params
  <2> QED  BY <1>3, <1>4, <2>1, <2>2 DEF AgreesAt
<1>5. CASE v \notin 6 .. 10
  BY <1>2, <1>3, <1>5 DEF AgreesAt
<1> QED  BY <1>4, <1>5

-----------------------------------------------------------------------------
(* What the pricing record keeps.                                          *)

\* The fields of the pricing record.
L2Fields == {"speed", "blockLimit", "txLimit", "baseFee", "minBaseFee", "backlog", "inertia",
             "tolerance", "constraints", "multi", "next", "current"}

\* L2 pricing, with what the minimum and the exponents are computed from.
L2OK(l) ==
    /\ l = [x \in L2Fields |-> l[x]]
    /\ l.speed \in Nat /\ l.minBaseFee \in Nat /\ l.backlog \in Nat
    /\ l.inertia \in Nat /\ l.tolerance \in Nat
    /\ l.constraints \in Seq(Constraint) /\ l.multi \in Seq(WeightedConstraint)

\* m has the limit of l.
SameLimit(l, m) == m.txLimit = l.txLimit

\* The widths are numbers.
LEMMA Widths == MaxU64 \in Nat /\ MaxI64 \in Nat
<1>1. MaxU64 \in Nat
  BY WidthAssumption
<1> QED  BY <1>1 DEF MaxI64

\* Saturating arithmetic stays within the natural numbers.
LEMMA SatNat ==
    ASSUME NEW x \in Nat
    PROVE  Sat(x) \in Nat
BY Widths DEF Sat

\* A saturating difference is a natural number.
LEMMA LessNat ==
    ASSUME NEW x \in Nat, NEW y \in Nat
    PROVE  Less(x, y) \in Nat
BY DEF Less

\* A vector of constraints with other backlogs.
WithBacklogs(s, b) == [i \in DOMAIN s |-> [s[i] EXCEPT !.backlog = b[i]]]

\* Every constraint stays a constraint when its backlog is replaced.
LEMMA BacklogReplaced ==
    ASSUME NEW s \in Seq(Constraint), NEW b, \A i \in DOMAIN s : b[i] \in Nat
    PROVE  WithBacklogs(s, b) \in Seq(Constraint)
<1>1. DOMAIN s = 1 .. Len(s) /\ Len(s) \in Nat
  OBVIOUS
<1>2. ASSUME NEW i \in DOMAIN s PROVE [s[i] EXCEPT !.backlog = b[i]] \in Constraint
  <2>1. s[i] \in Constraint
    BY <1>1
  <2> QED  BY Zenon, <2>1 DEF Constraint
<1> QED  BY <1>1, <1>2 DEF WithBacklogs

\* So does every weighted constraint.
LEMMA WeightedBacklogReplaced ==
    ASSUME NEW s \in Seq(WeightedConstraint), NEW b, \A i \in DOMAIN s : b[i] \in Nat
    PROVE  WithBacklogs(s, b) \in Seq(WeightedConstraint)
<1>1. DOMAIN s = 1 .. Len(s) /\ Len(s) \in Nat
  OBVIOUS
<1>2. ASSUME NEW i \in DOMAIN s PROVE [s[i] EXCEPT !.backlog = b[i]] \in WeightedConstraint
  <2>1. s[i] \in WeightedConstraint
    BY <1>1
  <2> QED  BY Zenon, <2>1 DEF WeightedConstraint
<1> QED  BY <1>1, <1>2 DEF WithBacklogs

\* Paying the constraints down keeps them.
LEMMA PayDownKeeps ==
    ASSUME NEW t \in Nat
    PROVE  /\ \A s \in Seq(Constraint) : PayDown(s, t) \in Seq(Constraint)
           /\ \A s \in Seq(WeightedConstraint) : PayDown(s, t) \in Seq(WeightedConstraint)
<1>1. ASSUME NEW s \in Seq(Constraint) PROVE PayDown(s, t) \in Seq(Constraint)
  <2> DEFINE b == [i \in DOMAIN s |-> Less(s[i].backlog, Sat(t * s[i].target))]
  <2>0. DOMAIN s = 1 .. Len(s)
    OBVIOUS
  <2>1. ASSUME NEW i \in DOMAIN s PROVE b[i] \in Nat
    <3>1. s[i] \in Constraint
      BY <2>0
    <3>2. s[i].backlog \in Nat /\ s[i].target \in Nat
      BY <3>1 DEF Constraint
    <3>3. Sat(t * s[i].target) \in Nat
      <4>1. t * s[i].target \in Nat
        BY <3>2
      <4> QED  BY Zenon, <4>1, SatNat
    <3> QED  BY Zenon, <3>2, <3>3, LessNat
  <2>2. PayDown(s, t) = WithBacklogs(s, b)
    BY DEF PayDown, WithBacklogs
  <2> HIDE DEF b
  <2> QED  BY <2>1, <2>2, BacklogReplaced
<1>2. ASSUME NEW s \in Seq(WeightedConstraint) PROVE PayDown(s, t) \in Seq(WeightedConstraint)
  <2> DEFINE b == [i \in DOMAIN s |-> Less(s[i].backlog, Sat(t * s[i].target))]
  <2>0. DOMAIN s = 1 .. Len(s)
    OBVIOUS
  <2>1. ASSUME NEW i \in DOMAIN s PROVE b[i] \in Nat
    <3>1. s[i] \in WeightedConstraint
      BY <2>0
    <3>2. s[i].backlog \in Nat /\ s[i].target \in Nat
      BY <3>1 DEF WeightedConstraint
    <3>3. Sat(t * s[i].target) \in Nat
      <4>1. t * s[i].target \in Nat
        BY <3>2
      <4> QED  BY Zenon, <4>1, SatNat
    <3> QED  BY Zenon, <3>2, <3>3, LessNat
  <2>2. PayDown(s, t) = WithBacklogs(s, b)
    BY DEF PayDown, WithBacklogs
  <2> HIDE DEF b
  <2> QED  BY <2>1, <2>2, WeightedBacklogReplaced
<1> QED  BY <1>1, <1>2

\* The update of a block.
LEMMA UpdateKeeps ==
    ASSUME NEW l, L2OK(l), NEW t \in Nat, NEW v \in Nat
    PROVE  /\ L2OK(UpdatePricingModel(CommitMultiGasFees(l, v), t, v))
           /\ SameLimit(l, UpdatePricingModel(CommitMultiGasFees(l, v), t, v))
<1> DEFINE c == CommitMultiGasFees(l, v)
<1>1. L2OK(c) /\ SameLimit(l, c)
  BY SMTT(30) DEF CommitMultiGasFees, L2OK, SameLimit, L2Fields
<1> HIDE DEF c
<1>2. L2OK(UpdateLegacy(c, t)) /\ SameLimit(c, UpdateLegacy(c, t))
  <2> DEFINE b == Less(c.backlog, Sat(t * c.speed))
             f == LegacyFee(c, b)
  <2>1. b \in Nat
    <3>1. c.backlog \in Nat /\ c.speed \in Nat /\ t * c.speed \in Nat
      BY SMTT(30), <1>1 DEF L2OK
    <3>2. Sat(t * c.speed) \in Nat
      BY <3>1, SatNat
    <3> QED  BY Zenon, <3>1, <3>2, LessNat
  <2>2. UpdateLegacy(c, t) = [c EXCEPT !.backlog = b, !.baseFee = f]
    BY DEF UpdateLegacy
  <2> HIDE DEF b, f
  <2> QED  BY Zenon, <1>1, <2>1, <2>2 DEF L2OK, SameLimit, L2Fields
<1>3. L2OK(UpdateSingle(c, t)) /\ SameLimit(c, UpdateSingle(c, t))
  <2> DEFINE p == PayDown(c.constraints, t)
             f == PositiveExponentFee(c, TotalI64([i \in DOMAIN p |-> SingleExponent(p[i])]))
  <2>1. p \in Seq(Constraint)
    BY <1>1, PayDownKeeps DEF L2OK
  <2>2. UpdateSingle(c, t) = [c EXCEPT !.constraints = p, !.baseFee = f]
    BY DEF UpdateSingle
  <2> HIDE DEF p, f
  <2> QED  BY Zenon, <1>1, <2>1, <2>2 DEF L2OK, SameLimit, L2Fields
<1>4. L2OK(UpdateMulti(c, t)) /\ SameLimit(c, UpdateMulti(c, t))
  <2>1. PICK p, n, f : UpdateMulti(c, t) = [c EXCEPT !.multi = p, !.next = n, !.baseFee = f]
                       /\ p = PayDown(c.multi, t)
    BY Zenon DEF UpdateMulti
  <2>2. p \in Seq(WeightedConstraint)
    BY <1>1, <2>1, PayDownKeeps DEF L2OK
  <2> QED  BY Zenon, <1>1, <2>1, <2>2 DEF L2OK, SameLimit, L2Fields
<1>5. \/ UpdatePricingModel(c, t, v) = UpdateLegacy(c, t)
      \/ UpdatePricingModel(c, t, v) = UpdateSingle(c, t)
      \/ UpdatePricingModel(c, t, v) = UpdateMulti(c, t)
  <2>1. GasModel(c, v) \in {"multi", "single", "legacy"}
    BY DEF GasModel
  <2> QED  BY <2>1 DEF UpdatePricingModel
<1>6. L2OK(UpdatePricingModel(c, t, v)) /\ SameLimit(c, UpdatePricingModel(c, t, v))
  BY <1>2, <1>3, <1>4, <1>5
<1> QED  BY <1>1, <1>6 DEF c, SameLimit

-----------------------------------------------------------------------------
(* The inductive invariant, and the owner calls.                           *)

\* The limit of a transaction that genesis and the step to version 50 set.
LimitAt(v) == IF v >= 50 THEN GenesisTxLimit ELSE 0

\* In a block the rules are those of the version in the state.
RulesInv == inBlock => cfg.spec = FromArbosVersion(version)

\* A parameter that no owner has set is the one an upgrade path to the version leaves.
PathInv ==
    /\ Params(par) /\ AgreesAt(par, version, touched)
    /\ "txLimit" \in touched \/ l2.txLimit = LimitAt(version)

\* The clock and the block number count up.
ClockInv == block \in Nat /\ now \in Nat

\* The inductive invariant of the chain.
ChainInv == InstallInv /\ ClockInv /\ RulesInv /\ PathInv /\ L2OK(l2)

\* Owner calls about parameters mark what they set.
LEMMA SetsKeeps ==
    ASSUME PathInv, NEW n, NEW value, Sets(n, value)
    PROVE  PathInv'
<1>1. /\ par' = [par EXCEPT ![n] = Stored(n, value)] /\ touched' = touched \cup {n}
      /\ version' = version /\ l2' = l2
  BY DEF Sets, chain
<1>2. Params(par')
  BY <1>1 DEF PathInv, Params
<1>3. \A m \in ParamNames \ touched' : par'[m] = par[m] /\ m \notin touched
  BY <1>1 DEF PathInv, Params
<1>4. AgreesAt(par', version', touched')
  BY <1>1, <1>3 DEF PathInv, AgreesAt
<1> QED  BY <1>1, <1>2, <1>4 DEF PathInv

\* setWasmMinInitGas sets two parameters and marks both.
LEMMA SetWasmMinInitGasKeeps ==
    ASSUME PathInv, NEW gas, NEW cached, SetWasmMinInitGas(gas, cached)
    PROVE  PathInv'
<1>1. /\ par' = [par EXCEPT !["minInitGas"] = Stored("minInitGas", gas),
                            !["minCachedGas"] = Stored("minCachedGas", cached)]
      /\ touched' = touched \cup {"minInitGas", "minCachedGas"}
      /\ version' = version /\ l2' = l2
  BY DEF SetWasmMinInitGas, chain
<1>2. Params(par')
  BY Zenon, <1>1 DEF PathInv, Params
<1>3. \A m \in ParamNames \ touched' : par'[m] = par[m] /\ m \notin touched
  BY <1>1 DEF PathInv, Params
<1>4. AgreesAt(par', version', touched')
  BY Zenon, <1>1, <1>3 DEF PathInv, AgreesAt
<1> QED  BY <1>1, <1>2, <1>4 DEF PathInv

\* A step that leaves the parameters alone, and the limit of L2 pricing.
LEMMA LimitKept ==
    ASSUME PathInv, SameLimit(l2, l2'), UNCHANGED <<version, par, touched>>
    PROVE  PathInv'
<1>1. AgreesAt(par', version', touched') /\ Params(par')
  BY DEF PathInv
<1>2. LimitAt(version') = LimitAt(version)
  OBVIOUS
<1> QED  BY <1>1, <1>2 DEF PathInv, SameLimit

\* The setters of L2 pricing.
LEMMA SetPricingKeeps ==
    ASSUME PathInv, L2OK(l2), NEW c \in PricingChoices, SetPricing(c[1], c[2])
    PROVE  PathInv' /\ L2OK(l2')
<1> DEFINE f == c[1]
           x == c[2]
<1>1. f \in PricingFields /\ x \in Nat
  BY PricingAssumption
<1>2. l2' = [l2 EXCEPT ![f] = x] /\ UNCHANGED <<version, par, touched>>
  BY DEF SetPricing, chain
<1> HIDE DEF f, x
<1>3. l2 = [y \in L2Fields |-> l2[y]]
  BY DEF L2OK
<1>4. l2' = [y \in L2Fields |-> IF y = f THEN x ELSE l2[y]]
  BY <1>2, <1>3
<1>5. L2OK(l2') /\ SameLimit(l2, l2')
  BY <1>1, <1>4 DEF L2OK, SameLimit, PricingFields, L2Fields
<1> QED  BY <1>2, <1>5, LimitKept

\* setMaxTxGasLimit marks the limit once it is its own field.
LEMMA SetMaxTxGasLimitKeeps ==
    ASSUME PathInv, L2OK(l2), NEW value, SetMaxTxGasLimit(value)
    PROVE  PathInv' /\ L2OK(l2')
<1>1. UNCHANGED <<version, par>>
  BY DEF SetMaxTxGasLimit, chain
<1>2. CASE version < 50
  <2>1. l2' = [l2 EXCEPT !.blockLimit = value] /\ touched' = touched
    BY <1>2 DEF SetMaxTxGasLimit
  <2>2. L2OK(l2') /\ SameLimit(l2, l2')
    BY Zenon, <2>1 DEF L2OK, SameLimit, L2Fields
  <2> QED  BY <1>1, <2>1, <2>2, LimitKept
<1>3. CASE ~(version < 50)
  <2>1. l2' = [l2 EXCEPT !.txLimit = value] /\ touched' = touched \cup {"txLimit"}
    BY <1>3 DEF SetMaxTxGasLimit
  <2>2. L2OK(l2')
    BY Zenon, <2>1 DEF L2OK, L2Fields
  <2>3. AgreesAt(par', version', touched')
    BY <1>1, <2>1 DEF AgreesAt, PathInv
  <2> QED  BY <1>1, <2>1, <2>2, <2>3 DEF PathInv
<1> QED  BY <1>2, <1>3

\* The owner replaces the constraints.
LEMMA SetConstraintsKeeps ==
    ASSUME PathInv, L2OK(l2), NEW list \in ConstraintLists, SetGasPricingConstraints(list)
    PROVE  PathInv' /\ L2OK(l2')
<1>1. UNCHANGED <<version, par, touched>>
  BY DEF SetGasPricingConstraints, chain
<1>2. l2' = AddGasConstraints(ClearGasConstraints(l2), list) \/ l2' = l2
  BY DEF SetGasPricingConstraints
<1> DEFINE a == ClearGasConstraints(l2)
           b == AddGasConstraints(a, list)
<1>3. L2OK(a) /\ SameLimit(l2, a)
  <2> DEFINE e == <<>>
  <2>1. a = [l2 EXCEPT !.constraints = e] /\ e \in Seq(Constraint)
    BY DEF ClearGasConstraints
  <2> HIDE DEF a, e
  <2> QED  BY Zenon, <2>1 DEF L2OK, SameLimit, L2Fields
<1> HIDE DEF a
<1>4. list \in Seq(Constraint)
  BY ConstraintsAssumption
<1>5. a.constraints \o list \in Seq(Constraint)
  BY <1>3, <1>4 DEF L2OK
<1>6. L2OK(b) /\ SameLimit(a, b)
  BY Zenon, <1>3, <1>5 DEF AddGasConstraints, L2OK, SameLimit, L2Fields
<1>7. L2OK(l2') /\ SameLimit(l2, l2')
  BY <1>2, <1>3, <1>6 DEF a, SameLimit
<1> QED  BY <1>1, <1>7, LimitKept

-----------------------------------------------------------------------------
(* Transactions, and the backlogs they change.                             *)

\* A transaction adds its gas to the backlogs.
LEMMA GrowKeeps ==
    ASSUME NEW l, L2OK(l), NEW gas \in Nat, NEW v
    PROVE  L2OK(GrowBacklog(l, gas, v)) /\ SameLimit(l, GrowBacklog(l, gas, v))
<1> DEFINE m == GrowBacklog(l, gas, v)
<1>1. CASE GasModel(l, v) = "legacy"
  <2> DEFINE b == Sat(l.backlog + gas)
  <2>1. b \in Nat
    <3>1. l.backlog + gas \in Nat
      BY DEF L2OK
    <3> QED  BY <3>1, SatNat
  <2>2. m = [l EXCEPT !.backlog = b]
    BY <1>1 DEF GrowBacklog
  <2> HIDE DEF m, b
  <2>3. L2OK(m) /\ SameLimit(l, m)
    BY Zenon, <2>1, <2>2 DEF L2OK, SameLimit, L2Fields
  <2> QED  BY <2>3 DEF m
<1>2. CASE GasModel(l, v) # "legacy"
  <2> DEFINE s == l.constraints
             b == [i \in DOMAIN s |-> Sat(s[i].backlog + gas)]
             w == WithBacklogs(s, b)
  <2>1. s \in Seq(Constraint) /\ DOMAIN s = 1 .. Len(s)
    BY DEF L2OK
  <2>2. ASSUME NEW i \in DOMAIN s PROVE b[i] \in Nat
    <3>1. s[i] \in Constraint
      BY <2>1
    <3>2. s[i].backlog + gas \in Nat
      BY <3>1 DEF Constraint
    <3> QED  BY <3>2, SatNat
  <2> DEFINE u == [i \in DOMAIN s |-> [s[i] EXCEPT !.backlog = Sat(@ + gas)]]
  <2>6. m = [l EXCEPT !.constraints = u]
    BY <1>2 DEF GrowBacklog
  <2>7. u = w
    BY Zenon DEF WithBacklogs
  <2>3. m = [l EXCEPT !.constraints = w]
    BY SMTT(30), <2>6, <2>7
  <2>4. w \in Seq(Constraint)
    <3> HIDE DEF s, b
    <3> QED  BY <2>1, <2>2, BacklogReplaced
  <2> HIDE DEF m, w
  <2>5. L2OK(m) /\ SameLimit(l, m)
    BY Zenon, <2>3, <2>4 DEF L2OK, SameLimit, L2Fields
  <2> QED  BY <2>5 DEF m
<1> QED  BY <1>1, <1>2

\* A redeem takes gas off them.
LEMMA ShrinkKeeps ==
    ASSUME NEW l, L2OK(l), NEW gas \in Nat, NEW v
    PROVE  L2OK(ShrinkBacklog(l, gas, v)) /\ SameLimit(l, ShrinkBacklog(l, gas, v))
<1> DEFINE m == ShrinkBacklog(l, gas, v)
<1>1. CASE GasModel(l, v) = "legacy"
  <2> DEFINE b == Less(l.backlog, gas)
  <2>1. b \in Nat
    BY LessNat DEF L2OK
  <2>2. m = [l EXCEPT !.backlog = b]
    BY <1>1 DEF ShrinkBacklog
  <2> HIDE DEF m, b
  <2>3. L2OK(m) /\ SameLimit(l, m)
    BY Zenon, <2>1, <2>2 DEF L2OK, SameLimit, L2Fields
  <2> QED  BY <2>3 DEF m
<1>2. CASE GasModel(l, v) = "single"
  <2> DEFINE s == l.constraints
             b == [i \in DOMAIN s |-> Less(s[i].backlog, gas)]
             w == WithBacklogs(s, b)
  <2>1. s \in Seq(Constraint) /\ DOMAIN s = 1 .. Len(s)
    BY DEF L2OK
  <2>2. ASSUME NEW i \in DOMAIN s PROVE b[i] \in Nat
    <3>1. s[i] \in Constraint
      BY <2>1
    <3>2. s[i].backlog \in Nat
      BY <3>1 DEF Constraint
    <3> QED  BY Zenon, <3>2, LessNat
  <2> DEFINE u == [i \in DOMAIN s |-> [s[i] EXCEPT !.backlog = Less(@, gas)]]
  <2>6. m = [l EXCEPT !.constraints = u]
    BY <1>2 DEF ShrinkBacklog
  <2>7. u = w
    BY DEF WithBacklogs
  <2>3. m = [l EXCEPT !.constraints = w]
    BY Zenon, <2>6, <2>7
  <2>4. w \in Seq(Constraint)
    <3> HIDE DEF s, b
    <3> QED  BY <2>1, <2>2, BacklogReplaced
  <2> HIDE DEF m, w
  <2>5. L2OK(m) /\ SameLimit(l, m)
    BY Zenon, <2>3, <2>4 DEF L2OK, SameLimit, L2Fields
  <2> QED  BY <2>5 DEF m
<1>3. CASE GasModel(l, v) \notin {"legacy", "single"}
  <2> DEFINE s == l.multi
             b == [i \in DOMAIN s |-> Less(s[i].backlog, Sat(gas * s[i].weights[SingleDim]))]
             w == WithBacklogs(s, b)
  <2>1. s \in Seq(WeightedConstraint) /\ DOMAIN s = 1 .. Len(s)
    BY DEF L2OK
  <2>2. ASSUME NEW i \in DOMAIN s PROVE b[i] \in Nat
    <3>1. s[i] \in WeightedConstraint
      BY <2>1
    <3>2. s[i].backlog \in Nat /\ s[i].weights[SingleDim] \in Nat
      BY SMTT(30), <3>1, KindsAssumption DEF WeightedConstraint
    <3>3. gas * s[i].weights[SingleDim] \in Nat
      BY <3>2
    <3>4. Sat(gas * s[i].weights[SingleDim]) \in Nat
      BY <3>3, SatNat
    <3> QED  BY Zenon, <3>2, <3>4, LessNat
  <2> DEFINE u == [i \in DOMAIN s |->
                     [s[i] EXCEPT !.backlog =
                         Less(@, Sat(gas * l.multi[i].weights[SingleDim]))]]
  <2>6. m = [l EXCEPT !.multi = u]
    BY <1>3 DEF ShrinkBacklog
  <2>7. u = w
    BY DEF WithBacklogs
  <2>3. m = [l EXCEPT !.multi = w]
    BY Zenon, <2>6, <2>7
  <2>4. w \in Seq(WeightedConstraint)
    <3> HIDE DEF s, b
    <3> QED  BY <2>1, <2>2, WeightedBacklogReplaced
  <2> HIDE DEF m, w
  <2>5. L2OK(m) /\ SameLimit(l, m)
    BY Zenon, <2>3, <2>4 DEF L2OK, SameLimit, L2Fields
  <2> QED  BY <2>5 DEF m
<1> QED  BY <1>1, <1>2, <1>3

\* Calls about prices, and transactions.
LEMMA PricesKeep ==
    ASSUME PathInv, L2OK(l2), Prices
    PROVE  PathInv' /\ L2OK(l2')
<1>1. ASSUME NEW g \in TxGas, UserTx(g) PROVE PathInv' /\ L2OK(l2')
  <2>1. g \in Nat
    BY AmountsAssumption
  <2>2. l2' = GrowBacklog(l2, g, version) /\ UNCHANGED <<version, par, touched>>
    BY <1>1 DEF UserTx, chain
  <2>3. L2OK(l2') /\ SameLimit(l2, l2')
    BY <2>1, <2>2, GrowKeeps
  <2> QED  BY <2>2, <2>3, LimitKept
<1>2. ASSUME NEW g \in TxGas, Redeem(g) PROVE PathInv' /\ L2OK(l2')
  <2>1. g \in Nat
    BY AmountsAssumption
  <2>2. (l2' = ShrinkBacklog(l2, g, version) \/ l2' = l2) /\ UNCHANGED <<version, par, touched>>
    BY <1>2 DEF Redeem, chain
  <2>3. L2OK(l2') /\ SameLimit(l2, l2')
    BY <2>1, <2>2, ShrinkKeeps DEF SameLimit
  <2> QED  BY <2>2, <2>3, LimitKept
<1>3. ASSUME UserTxFails PROVE PathInv' /\ L2OK(l2')
  <2>1. l2' = l2 /\ UNCHANGED <<version, par, touched>>
    BY <1>3 DEF UserTxFails
  <2> QED  BY <2>1, LimitKept DEF SameLimit
<1> QED  BY <1>1, <1>2, <1>3, SetPricingKeeps, SetConstraintsKeeps DEF Prices

-----------------------------------------------------------------------------
(* Upgrades and blocks.                                                    *)

\* Calls about upgrades.
LEMMA UpgradesKeep ==
    ASSUME PathInv, L2OK(l2), Upgrades
    PROVE  PathInv' /\ L2OK(l2')
<1>1. ASSUME NEW n, NEW value, Sets(n, value) PROVE PathInv' /\ L2OK(l2')
  <2>1. l2' = l2
    BY <1>1 DEF Sets
  <2> QED  BY <1>1, <2>1, SetsKeeps
<1>2. ASSUME SetWasmMinInitGas(40000, 64) PROVE PathInv' /\ L2OK(l2')
  <2>1. l2' = l2
    BY <1>2 DEF SetWasmMinInitGas
  <2> QED  BY <1>2, <2>1, SetWasmMinInitGasKeeps
<1>3. ASSUME \/ \E v \in Targets, t \in Times : ScheduleUpgrade(v, t)
             \/ \E on \in BOOLEAN : SetCalldataPriceIncrease(on)
      PROVE  PathInv' /\ L2OK(l2')
  <2>1. UNCHANGED <<version, par, touched, l2>>
    BY <1>3 DEF ScheduleUpgrade, SetCalldataPriceIncrease, chain
  <2> QED  BY <2>1, LimitKept DEF SameLimit
<1>4. ASSUME NEW c \in ParamChoices, SetParam(c[1], c[2]) \/ SetWasmLimit(c[1], c[2])
      PROVE  PathInv' /\ L2OK(l2')
  <2>1. Sets(c[1], c[2])
    BY <1>4 DEF SetParam, SetWasmLimit
  <2> QED  BY <2>1, <1>1
<1>5. ASSUME NEW v \in 0 .. 1, SetInkPrice(v) PROVE PathInv' /\ L2OK(l2')
  <2>1. Sets("inkPrice", v)
    BY <1>5 DEF SetInkPrice
  <2> QED  BY <2>1, <1>1
<1> QED  BY SMTT(30), <1>2, <1>3, <1>4, <1>5, SetMaxTxGasLimitKeeps DEF Upgrades

\* StartBlock runs every step of a scheduled upgrade, after it set the prices.
LEMMA StartBlockKeeps ==
    ASSUME ChainInv, NEW t \in Times, StartBlock(t)
    PROVE  PathInv' /\ L2OK(l2')
<1> DEFINE target == UpgradeTarget(t)
           passed == TimePassed(t)
           priced == UpdatePricingModel(CommitMultiGasFees(l2, version), passed, version)
<1>1. /\ version' = target /\ par' = Upgraded(par, version, target)
      /\ touched' = touched \ UNION {Overwrites(v) : v \in (version + 1) .. target}
      /\ l2' = IF 50 \in (version + 1) .. target
               THEN [priced EXCEPT !.txLimit = GenesisTxLimit] ELSE priced
  BY DEF StartBlock
<1>2. version \in Nat /\ version >= 1 /\ target \in Nat /\ version <= target
  BY DEF ChainInv, InstallInv, UpgradeTarget, LatestVersion
<1>3. passed \in Nat
  <2>1. t \in Nat /\ t >= now
    BY TimesAssumption DEF StartBlock, NextBlock
  <2> QED  BY <2>1 DEF ChainInv, ClockInv, TimePassed
<1> HIDE DEF target, passed
<1>4. L2OK(priced) /\ SameLimit(l2, priced)
  BY <1>2, <1>3, UpdateKeeps DEF ChainInv
<1> HIDE DEF priced
<1>5. L2OK(l2')
  <2> DEFINE d == [priced EXCEPT !.txLimit = GenesisTxLimit]
  <2>1. L2OK(d)
    BY Zenon, <1>4 DEF L2OK, L2Fields
  <2>2. l2' \in {d, priced}
    BY Zenon, <1>1
  <2> HIDE DEF d
  <2> QED  BY Zenon, <1>4, <2>1, <2>2
<1>6. Params(par') /\ AgreesAt(par', version', touched')
  BY <1>1, <1>2, UpgradeAgrees DEF ChainInv, PathInv
<1>7. "txLimit" \in touched' \/ l2'.txLimit = LimitAt(version')
  <2>1. CASE 50 \in (version + 1) .. target
    <3>1. l2'.txLimit = GenesisTxLimit
      BY <1>1, <1>4, <2>1 DEF L2OK, L2Fields
    <3> QED  BY <1>1, <1>2, <2>1, <3>1 DEF LimitAt
  <2>2. CASE 50 \notin (version + 1) .. target
    <3>1. l2'.txLimit = l2.txLimit
      BY <1>1, <1>4, <2>2 DEF SameLimit
    <3>2. LimitAt(target) = LimitAt(version)
      BY <1>2, <2>2 DEF LimitAt
    <3>3. ASSUME NEW v \in (version + 1) .. target PROVE "txLimit" \notin Overwrites(v)
      <4>1. v # 50
        BY SMTT(30), <2>2
      <4> QED  BY <1>2, <4>1 DEF Overwrites, StylusNames, PricerNames
    <3> QED  BY <1>1, <3>1, <3>2, <3>3 DEF ChainInv, PathInv
  <2> QED  BY <2>1, <2>2
<1> QED  BY <1>5, <1>6, <1>7 DEF PathInv

\* The rules of a block are fixed from the schedule its StartBlock applies.
LEMMA StartBlockRules ==
    ASSUME ChainInv, NEW t \in Times, StartBlock(t)
    PROVE  RulesInv' /\ ClockInv'
<1>1. cfg' = MessageCfgEnv(t) /\ version' = UpgradeTarget(t) /\ block' = block + 1 /\ now' = t
  BY DEF StartBlock
<1>2. MessageCfgEnv(t).spec = FromArbosVersion(UpgradeTarget(t))
  BY DEF MessageCfgEnv, EffectiveVersion, UpgradeTarget
<1>3. t \in Nat
  BY TimesAssumption
<1> QED  BY <1>1, <1>2, <1>3 DEF RulesInv, ClockInv, ChainInv

\* Calls in a block leave it as it is.
LEMMA CallsLeaveBlock ==
    ASSUME Upgrades \/ Governs \/ Prices
    PROVE  UNCHANGED <<version, block, now, inBlock, cfg>>
<1>1. ASSUME Upgrades PROVE UNCHANGED <<version, block, now, inBlock, cfg>>
  <2>1. ASSUME NEW n, NEW value, Sets(n, value)
        PROVE  UNCHANGED <<version, block, now, inBlock, cfg>>
    BY Zenon, <2>1 DEF Sets, chain
  <2>2. ASSUME NEW gas, NEW cached, SetWasmMinInitGas(gas, cached)
        PROVE  UNCHANGED <<version, block, now, inBlock, cfg>>
    BY Zenon, <2>2 DEF SetWasmMinInitGas, chain
  <2>3. ASSUME NEW limit, SetMaxTxGasLimit(limit)
        PROVE  UNCHANGED <<version, block, now, inBlock, cfg>>
    BY Zenon, <2>3 DEF SetMaxTxGasLimit, chain
  <2>4. ASSUME \/ \E v \in Targets, t \in Times : ScheduleUpgrade(v, t)
               \/ \E on \in BOOLEAN : SetCalldataPriceIncrease(on)
        PROVE  UNCHANGED <<version, block, now, inBlock, cfg>>
    BY Zenon, <2>4 DEF ScheduleUpgrade, SetCalldataPriceIncrease, chain
  <2> QED  BY SMTT(30), <1>1, <2>1, <2>2, <2>3, <2>4
           DEF Upgrades, SetParam, SetWasmLimit, SetInkPrice
<1>2. ASSUME Governs PROVE UNCHANGED <<version, block, now, inBlock, cfg>>
  BY Zenon, <1>2 DEF Governs, AddChainOwner, RemoveChainOwner, SetFeatureFrom, AddMember,
              RemoveMember, ChangeFilter, chain
<1>3. ASSUME Prices PROVE UNCHANGED <<version, block, now, inBlock, cfg>>
  BY Zenon, <1>3 DEF Prices, SetPricing, SetGasPricingConstraints, UserTx, UserTxFails,
              Redeem, chain
<1> QED  BY SMTT(30), <1>1, <1>2, <1>3

\* Calls about owners and features leave versions, parameters and prices alone.
LEMMA GovernsLeave ==
    ASSUME Governs
    PROVE  UNCHANGED <<version, par, touched, l2>>
BY DEF Governs, AddChainOwner, RemoveChainOwner, SetFeatureFrom, AddMember, RemoveMember,
       ChangeFilter, chain

\* No step loses the invariant.
LEMMA NextKeepsChain ==
    ASSUME ChainInv, [Next]_vars
    PROVE  ChainInv'
<1>0. InstallInv'
  BY NextInstalls DEF ChainInv
<1>1. CASE Upgrades \/ Governs \/ Prices
  <2>1. RulesInv' /\ ClockInv'
    BY <1>1, CallsLeaveBlock DEF ChainInv, RulesInv, ClockInv
  <2>2. CASE Governs
    <3>1. PathInv' /\ L2OK(l2')
      BY <2>2, GovernsLeave, LimitKept DEF ChainInv, SameLimit
    <3> QED  BY <1>0, <2>1, <3>1 DEF ChainInv
  <2>3. CASE Upgrades
    <3>1. PathInv' /\ L2OK(l2')
      BY <2>3, UpgradesKeep DEF ChainInv
    <3> QED  BY <1>0, <2>1, <3>1 DEF ChainInv
  <2>4. CASE Prices
    <3>1. PathInv' /\ L2OK(l2')
      BY <2>4, PricesKeep DEF ChainInv
    <3> QED  BY <1>0, <2>1, <3>1 DEF ChainInv
  <2> QED  BY <1>1, <2>2, <2>3, <2>4
<1>2. ASSUME NEW t \in Times, StartBlock(t) PROVE ChainInv'
  BY <1>0, <1>2, StartBlockKeeps, StartBlockRules DEF ChainInv
<1>3. CASE EndBlock \/ (\E t \in Times : StartBlockFails(t)) \/ UNCHANGED vars
  <2>1. UNCHANGED <<version, par, touched, l2, block, now, cfg>> /\ (inBlock' => inBlock)
    BY <1>3 DEF EndBlock, StartBlockFails, vars
  <2>2. PathInv' /\ L2OK(l2')
    BY <2>1, LimitKept DEF ChainInv, SameLimit
  <2>3. RulesInv' /\ ClockInv'
    BY <2>1 DEF ChainInv, RulesInv, ClockInv
  <2> QED  BY SMTT(30), <1>0, <2>2, <2>3 DEF ChainInv
<1> QED  BY <1>1, <1>2, <1>3 DEF Next, Blocks

\* A chain is born with the parameters of its version, and in no block.
LEMMA InitChain == Init => ChainInv
<1> SUFFICES ASSUME Init PROVE ChainInv
  OBVIOUS
<1>1. InstallInv
  BY InitInstalls
<1>2. ClockInv /\ RulesInv
  BY TimesAssumption DEF Init, ClockInv, RulesInv
<1>3. PICK m \in MultiLists : l2 = GenesisL2(version, m)
  BY DEF Init
<1>4. par = GenesisPar[version] /\ touched = {}
  BY DEF Init
<1>5. L2OK(l2) /\ l2.txLimit = LimitAt(version)
  <2>1. m \in Seq(WeightedConstraint) /\ <<>> \in Seq(Constraint)
    BY SMTT(30), ConstraintsAssumption
  <2>2. /\ l2.speed \in Nat /\ l2.minBaseFee \in Nat /\ l2.backlog \in Nat
        /\ l2.inertia \in Nat /\ l2.tolerance \in Nat
    BY SMTT(30), <1>3, AmountsAssumption DEF GenesisL2
  <2>3. l2.constraints = <<>> /\ l2.multi = m /\ l2.txLimit = LimitAt(version)
    BY SMTT(30), <1>3 DEF GenesisL2, LimitAt
  <2>4. l2 = [x \in L2Fields |-> l2[x]]
    BY SMTT(30), <1>3 DEF GenesisL2, L2Fields
  <2> QED  BY <2>1, <2>2, <2>3, <2>4 DEF L2OK
<1>6. Params(par) /\ AgreesAt(par, version, touched)
  BY SMTT(30), <1>1, <1>4, GenesisAgrees DEF InstallInv
<1> QED  BY <1>1, <1>2, <1>5, <1>6 DEF ChainInv, PathInv

\* For every genesis version, every schedule and every sequence of owner calls: a chain
\* upgraded at run time has the parameters and the precompile accounts of a chain born at
\* its version, but for what an owner set since (upgrade_arbos_version,
\* initialize_arbos_state).
THEOREM UpgradePathsStayAgreed == Spec => []UpgradePathsAgree
<1>1. ChainInv => UpgradePathsAgree
  <2> SUFFICES ASSUME ChainInv PROVE UpgradePathsAgree
    OBVIOUS
  <2>1. version \in 1 .. LatestVersion /\ AgreesAt(par, version, touched) /\ PrecompilesMatchVersion
    BY DEF ChainInv, InstallInv, PathInv
  <2>2. \A n \in ParamNames \ touched :
            par[n] = GenesisPar[version][n] \/ (n = "perBatch" /\ version \in 6 .. 10)
    BY SMTT(30), <2>1, GenesisAgrees
  <2>3. GenesisL2(version, <<>>).txLimit = LimitAt(version)
    BY DEF GenesisL2, LimitAt
  <2> QED  BY <2>1, <2>2, <2>3 DEF UpgradePathsAgree, ChainInv, PathInv
<1> QED  BY <1>1, InitChain, NextKeepsChain, PTL DEF Spec

\* The transactions of a block run under the rules of the version in the state, whatever
\* was scheduled and whenever (message_cfg_env, from_arbos_version, into_eth_spec).
THEOREM SpecStaysMatched == Spec => []SpecMatchesState
<1>1. ChainInv => SpecMatchesState
  <2> SUFFICES ASSUME ChainInv, inBlock PROVE SpecMatchesState
    BY DEF SpecMatchesState
  <2>1. version \in 1 .. LatestVersion /\ cfg.spec = FromArbosVersion(version)
    BY DEF ChainInv, InstallInv, RulesInv
  <2> QED  BY <2>1, RulesOfNearest DEF SpecMatchesState
<1> QED  BY <1>1, InitChain, NextKeepsChain, PTL DEF Spec

-----------------------------------------------------------------------------
(* The base fee: sums of exponents, and the exponential.                   *)

\* The running sums of xs, up to n.
IsSum(s, xs, n) == s = [i \in 0 .. n |-> IF i = 0 THEN 0 ELSE SumI64(s[i - 1], xs[i])]

\* A running sum starts at zero and adds one contribution at a time.
LEMMA SumSteps ==
    ASSUME NEW s, NEW xs, NEW n \in Nat, IsSum(s, xs, n)
    PROVE  s[0] = 0 /\ \A i \in 1 .. n : s[i] = SumI64(s[i - 1], xs[i])
<1>1. 0 \in 0 .. n /\ \A i \in 1 .. n : i \in 0 .. n /\ i # 0
  OBVIOUS
<1> QED  BY <1>1 DEF IsSum

\* Running sums exist.
LEMMA SumExists ==
    ASSUME NEW xs, NEW n \in Nat
    PROVE  \E s : IsSum(s, xs, n)
<1> DEFINE S == {m \in Nat : ~\E s : IsSum(s, xs, m)}
<1>1. SUFFICES ASSUME S # {} PROVE FALSE
  OBVIOUS
<1>2. PICK m \in S : \A k \in S : m <= k
  <2>1. S \in SUBSET Nat
    OBVIOUS
  <2> HIDE DEF S
  <2> QED  BY <1>1, <2>1, Least
<1>3. m \in Nat
  BY <1>2
<1>4. CASE m = 0
  <2> DEFINE s == [i \in 0 .. 0 |-> 0]
  <2>1. IsSum(s, xs, 0)
    BY DEF IsSum
  <2> QED  BY <1>2, <1>4, <2>1
<1>5. CASE m # 0
  <2> DEFINE k == m - 1
  <2>1. k \in Nat /\ k < m /\ k + 1 = m
    BY <1>3, <1>5
  <2>2. k \notin S
    <3> HIDE DEF S
    <3> QED  BY <1>2, <1>3, <2>1
  <2>3. PICK s : IsSum(s, xs, k)
    BY <2>1, <2>2
  <2>4. s[0] = 0 /\ \A i \in 1 .. k : s[i] = SumI64(s[i - 1], xs[i])
    <3> HIDE DEF k
    <3> QED  BY SMTT(30), <2>1, <2>3, SumSteps
  <2> DEFINE r == [i \in 0 .. m |-> IF i = m THEN SumI64(s[k], xs[m]) ELSE s[i]]
  <2>5. ASSUME NEW i \in 0 .. m PROVE r[i] = IF i = 0 THEN 0 ELSE SumI64(r[i - 1], xs[i])
    <3>1. CASE i = 0
      BY <1>5, <2>4, <3>1
    <3>2. CASE i # 0 /\ i # m
      <4>1. i \in 1 .. k /\ i - 1 \in 0 .. m /\ i - 1 # m
        BY <3>2, <1>3
      <4>2. s[i] = SumI64(s[i - 1], xs[i])
        BY <4>1, <2>4
      <4> QED  BY <3>2, <4>1, <4>2
    <3>3. CASE i = m
      <4>1. k \in 0 .. m /\ k # m /\ i - 1 = k
        BY <2>1, <3>3
      <4>2. r[k] = s[k]
        BY <4>1
      <4> QED  BY <1>5, <3>3, <4>1, <4>2
    <3> QED  BY <3>1, <3>2, <3>3
  <2>6. r = [i \in 0 .. m |-> r[i]]
    OBVIOUS
  <2>7. IsSum(r, xs, m)
    <3> HIDE DEF r
    <3> QED  BY Zenon, <2>5, <2>6 DEF IsSum
  <2> QED  BY <1>2, <2>7
<1> QED  BY <1>4, <1>5

\* The sum of integers is an integer.
LEMMA TotalIsInt ==
    ASSUME NEW xs \in Seq(Int)
    PROVE  TotalI64(xs) \in Int
<1> DEFINE n == Len(xs)
           s == CHOOSE f : IsSum(f, xs, n)
<1>1. n \in Nat /\ \A i \in 1 .. n : xs[i] \in Int
  OBVIOUS
<1>2. IsSum(s, xs, n)
  <2> HIDE DEF n
  <2> QED  BY Zenon, <1>1, SumExists
<1>3. TotalI64(xs) = s[n]
  BY DEF TotalI64, IsSum
<1> HIDE DEF n, s
<1>4. s[0] = 0 /\ \A i \in 1 .. n : s[i] = SumI64(s[i - 1], xs[i])
  BY <1>1, <1>2, SumSteps
<1> DEFINE S == {i \in Nat : i <= n /\ s[i] \notin Int}
<1>5. ASSUME S # {} PROVE FALSE
  <2>1. PICK i \in S : \A k \in S : i <= k
    <3>1. S \in SUBSET Nat
      OBVIOUS
    <3> HIDE DEF S
    <3> QED  BY SMTT(30), <1>5, <3>1, Least
  <2>2. i \in 1 .. n
    BY <1>1, <1>4, <2>1
  <2>3. i - 1 \in Nat /\ i - 1 <= n /\ ~(i <= i - 1)
    BY <1>1, <2>2
  <2>4. i - 1 \notin S
    <3> HIDE DEF S
    <3> QED  BY <2>1, <2>3
  <2>5. s[i - 1] \in Int /\ xs[i] \in Int
    BY <1>1, <2>2, <2>3, <2>4
  <2>6. SumI64(s[i - 1], xs[i]) \in Int
    BY <2>5, Widths DEF SumI64
  <2> QED  BY <1>4, <2>1, <2>2, <2>6
<1> QED  BY <1>1, <1>3, <1>5

\* The quotient of natural numbers.
LEMMA Quotient ==
    ASSUME NEW x \in Nat, NEW d \in Nat \ {0}
    PROVE  /\ x \div d \in Nat
           /\ \A q \in Nat : q * d <= x => q <= x \div d
           /\ \A q \in Nat : x <= q * d => x \div d <= q
<1>1. x \div d \in Nat /\ d * (x \div d) <= x /\ x < d * (x \div d) + d
  BY Z3
<1> DEFINE k == x \div d
<1> HIDE DEF k
<1>2. k \in Nat /\ d * k <= x /\ x < d * k + d
  BY <1>1 DEF k
<1>3. ASSUME NEW q \in Nat, q * d <= x PROVE q <= k
  <2>1. SUFFICES ASSUME q >= k + 1 PROVE FALSE
    BY <1>2
  <2>2. q * d >= (k + 1) * d
    BY <1>2, <2>1
  <2>3. (k + 1) * d = d * k + d
    BY <1>2
  <2> QED  BY <1>2, <1>3, <2>2, <2>3
<1>4. ASSUME NEW q \in Nat, x <= q * d PROVE k <= q
  <2>1. SUFFICES ASSUME k >= q + 1 PROVE FALSE
    BY <1>2
  <2>2. d * k >= d * (q + 1)
    BY <1>2, <2>1
  <2>3. d * (q + 1) = q * d + d
    OBVIOUS
  <2>4. q * d \in Nat /\ d * k \in Nat
    BY <1>2
  <2> QED  BY <1>2, <1>4, <2>2, <2>3, <2>4
<1> QED  BY <1>2, <1>3, <1>4 DEF k

\* Products of natural numbers.
LEMMA Products ==
    ASSUME NEW m \in Nat, NEW a \in Nat, NEW b \in Nat, a <= b
    PROVE  m * a \in Nat /\ m * a <= m * b
OBVIOUS

\* A term of the exponential is at least one, in basis points.
LEMMA HornerBound ==
    ASSUME NEW r \in Nat, NEW x \in Nat, NEW i \in Nat \ {0}
    PROVE  HornerTerm(r, x, i) \in Nat /\ HornerTerm(r, x, i) >= OneInBips
<1>1. OneInBips \in Nat \ {0}
  BY WidthAssumption
<1>2. r * x \in Nat
  OBVIOUS
<1>3. Sat(r * x) \in Nat
  BY <1>2, SatNat
<1>4. i * OneInBips \in Nat \ {0}
  BY <1>1
<1>5. Sat(r * x) \div (i * OneInBips) \in Nat
  BY <1>3, <1>4, Quotient
<1> QED  BY <1>1, <1>5 DEF HornerTerm

\* The exponential of a positive exponent is at least one, and fits an i64.
LEMMA ApproxExpBound ==
    ASSUME NEW x \in Nat
    PROVE  ApproxExp(x) \in Nat /\ OneInBips <= ApproxExp(x) /\ ApproxExp(x) <= MaxI64
<1>1. OneInBips \in Nat \ {0} /\ OneInBips <= MaxI64 /\ MaxI64 \in Nat
  BY WidthAssumption, Widths
<1> DEFINE r0 == OneInBips + x \div 4
           r1 == HornerTerm(r0, x, 3)
           r2 == HornerTerm(r1, x, 2)
           r3 == HornerTerm(r2, x, 1)
<1>2. r0 \in Nat
  BY <1>1
<1>3. r1 \in Nat
  <2> HIDE DEF r0
  <2> QED  BY <1>2, HornerBound
<1>4. r2 \in Nat
  <2> HIDE DEF r1
  <2> QED  BY <1>3, HornerBound
<1>5. r3 \in Nat /\ r3 >= OneInBips
  <2> HIDE DEF r2
  <2> QED  BY SMTT(30), <1>4, HornerBound
<1>6. ApproxExp(x) = IF r3 > MaxI64 THEN MaxI64 ELSE r3
  BY DEF ApproxExp
<1> HIDE DEF r3
<1> QED  BY <1>1, <1>5, <1>6

\* The largest fee a minimum fee can become.
Ceiling(m) == (m * MaxI64) \div OneInBips

\* A fee times the exponential of a positive exponent is no less than the fee.
LEMMA FeeBound ==
    ASSUME NEW m \in Nat, NEW x \in Nat
    PROVE  LET f == BigMulByBips(m, ApproxExp(x))
           IN  f \in Nat /\ m <= f /\ f <= Ceiling(m) /\ Ceiling(m) \in Nat
<1> DEFINE b == ApproxExp(x)
<1>1. b \in Nat /\ OneInBips <= b /\ b <= MaxI64 /\ OneInBips \in Nat \ {0} /\ MaxI64 \in Nat
  BY ApproxExpBound, WidthAssumption, Widths
<1> HIDE DEF b
<1>2. BigMulByBips(m, b) = (m * b) \div OneInBips
  BY <1>1 DEF BigMulByBips
<1>3. m * b \in Nat /\ m * OneInBips <= m * b /\ m * b <= m * MaxI64 /\ m * MaxI64 \in Nat
  BY <1>1, Products
<1> DEFINE p == m * b
           q == m * MaxI64
<1>4. m <= p \div OneInBips /\ p \div OneInBips \in Nat
  <2>1. p \in Nat /\ m * OneInBips <= p
    BY <1>3
  <2> HIDE DEF p
  <2> QED  BY <1>1, <2>1, Quotient
<1>5. p \div OneInBips <= q \div OneInBips /\ q \div OneInBips \in Nat
  <2>1. p \in Nat /\ q \in Nat /\ p <= q
    BY <1>3
  <2> HIDE DEF p, q
  <2> DEFINE k == p \div OneInBips
  <2>2. k \in Nat /\ k * OneInBips <= p
    BY <1>1, <2>1, Z3
  <2>3. k * OneInBips <= q /\ k * OneInBips \in Nat
    BY <1>1, <2>1, <2>2
  <2> HIDE DEF k
  <2>4. k <= q \div OneInBips /\ q \div OneInBips \in Nat
    BY <1>1, <2>1, <2>2, <2>3, Quotient
  <2> QED  BY <2>4 DEF k
<1> QED  BY <1>2, <1>4, <1>5 DEF b, Ceiling

\* Dividends are numbers.
LEMMA InBipsNat ==
    ASSUME NEW x \in Nat
    PROVE  InBips(x) \in Nat
<1>1. OneInBips \in Nat /\ MaxI64 \in Nat
  BY WidthAssumption, Widths
<1>2. x * OneInBips \in Nat
  BY <1>1
<1> QED  BY <1>1, <1>2 DEF InBips

\* A quotient of i64 is an integer, whatever the sign of the divisor.
LEMMA ExponentInt ==
    ASSUME NEW x \in Nat, NEW d \in Nat, d > 0, d <= MaxU64
    PROVE  /\ DivI64(InBips(x), AsI64(d)) \in Int
           /\ d <= MaxI64 => DivI64(InBips(x), AsI64(d)) \in Nat
<1>1. InBips(x) \in Nat /\ MaxI64 \in Nat /\ MaxU64 \in Nat
  BY InBipsNat, Widths
<1> DEFINE n == InBips(x)
           e == AsI64(d)
<1> HIDE DEF n
<1>2. n \in Nat
  BY <1>1 DEF n
<1>3. e \in Int /\ (d <= MaxI64 => e = d) /\ e # 0
  BY <1>1 DEF AsI64
<1> HIDE DEF e
<1>4. CASE e > 0
  <2>1. n \div e \in Nat
    BY <1>2, <1>3, <1>4, Quotient
  <2> QED  BY <1>4, <2>1 DEF DivI64, n, e
<1>5. CASE ~(e > 0)
  <2>1. -e \in Nat \ {0}
    BY <1>3, <1>5
  <2>2. n \div (-e) \in Nat
    BY <1>2, <2>1, Quotient
  <2>3. DivI64(n, e) = -(n \div (-e))
    BY <1>5 DEF DivI64
  <2>4. DivI64(n, e) \in Int
    BY <2>2, <2>3
  <2> QED  BY <1>3, <1>5, <2>4 DEF n, e
<1> QED  BY <1>4, <1>5

\* A saturating product of two natural numbers fits a u64.
LEMMA SatProduct ==
    ASSUME NEW x \in Nat, NEW y \in Nat
    PROVE  Sat(x * y) \in Nat /\ Sat(x * y) <= MaxU64
<1>1. x * y \in Nat
  OBVIOUS
<1> DEFINE p == x * y
<1> HIDE DEF p
<1>2. p \in Nat
  BY <1>1 DEF p
<1> QED  BY <1>2, Widths DEF Sat, p

\* The first model: the fee is the minimum, or the minimum times an exponential.
LEMMA LegacyFloor ==
    ASSUME NEW l, L2OK(l), Sat(l.inertia * l.speed) <= MaxI64, NEW backlog \in Nat
    PROVE  l.minBaseFee <= LegacyFee(l, backlog)
<1> DEFINE threshold == Sat(l.tolerance * l.speed)
           divisor == Sat(l.inertia * l.speed)
           excess == backlog - threshold
           e == IF divisor > 0 THEN DivI64(InBips(excess), AsI64(divisor)) ELSE 0
<1>1. /\ l.minBaseFee \in Nat /\ l.tolerance \in Nat /\ l.speed \in Nat /\ l.inertia \in Nat
  BY DEF L2OK
<1>2. threshold \in Nat /\ divisor \in Nat /\ divisor <= MaxU64
  BY <1>1, SatProduct
<1>3. divisor <= MaxI64
  OBVIOUS
<1>4. LegacyFee(l, backlog) = IF backlog > threshold THEN BigMulByBips(l.minBaseFee, ApproxExp(e))
                              ELSE l.minBaseFee
  BY DEF LegacyFee
<1> HIDE DEF threshold, divisor
<1>5. CASE backlog > threshold
  <2>1. excess \in Nat
    BY <1>2, <1>5
  <2> HIDE DEF excess
  <2>2. e \in Nat
    BY <1>2, <1>3, <2>1, ExponentInt
  <2> HIDE DEF e
  <2> QED  BY Zenon, <1>1, <1>4, <1>5, <2>2, FeeBound
<1>6. CASE ~(backlog > threshold)
  BY <1>1, <1>4, <1>6
<1> QED  BY <1>5, <1>6

\* The fee of an exponent of any sign.
LEMMA PositiveFloor ==
    ASSUME NEW l, L2OK(l), NEW e \in Int
    PROVE  LET f == PositiveExponentFee(l, e)
           IN  f \in Nat /\ l.minBaseFee <= f /\ f <= l.minBaseFee + Ceiling(l.minBaseFee)
<1>1. l.minBaseFee \in Nat
  BY DEF L2OK
<1>2. Ceiling(l.minBaseFee) \in Nat
  BY Zenon, <1>1, FeeBound
<1>3. CASE e > 0
  <2>1. e \in Nat /\ PositiveExponentFee(l, e) = BigMulByBips(l.minBaseFee, ApproxExp(e))
    BY <1>3 DEF PositiveExponentFee
  <2> DEFINE m == l.minBaseFee
             f == BigMulByBips(m, ApproxExp(e))
  <2>2. m \in Nat
    BY <1>1
  <2>3. f \in Nat /\ m <= f /\ f <= Ceiling(m)
    <3> HIDE DEF m
    <3> QED  BY Zenon, <2>1, <2>2, FeeBound
  <2> HIDE DEF f
  <2>4. f <= m + Ceiling(m)
    BY <1>2, <2>2, <2>3
  <2> QED  BY <2>1, <2>3, <2>4 DEF f
<1>4. CASE ~(e > 0)
  BY <1>1, <1>2, <1>4 DEF PositiveExponentFee
<1> QED  BY <1>3, <1>4

\* What a constraint adds to an exponent is an integer.
LEMMA ContributionInt ==
    /\ \A c \in Constraint : SingleExponent(c) \in Int
    /\ \A c \in WeightedConstraint, k \in Kinds : MultiExponent(c, k) \in Int
<1>1. ASSUME NEW c \in Constraint PROVE SingleExponent(c) \in Int
  <2> DEFINE d == Sat(c.window * c.target)
  <2>1. c.window \in Nat /\ c.target \in Nat /\ c.backlog \in Nat
    BY DEF Constraint
  <2>2. d \in Nat /\ d <= MaxU64
    BY <2>1, SatProduct
  <2>3. SingleExponent(c) = IF c.backlog > 0 /\ d > 0 THEN DivI64(InBips(c.backlog), AsI64(d)) ELSE 0
    BY DEF SingleExponent
  <2> HIDE DEF d
  <2> QED  BY <2>1, <2>2, <2>3, ExponentInt
<1>2. ASSUME NEW c \in WeightedConstraint, NEW k \in Kinds PROVE MultiExponent(c, k) \in Int
  <2> DEFINE d == Sat(Sat(c.window * c.target) * c.maxWeight)
             e == IF d > MaxI64 THEN MaxI64 ELSE d
             b == Sat(c.backlog * c.weights[k])
  <2>1. /\ c.window \in Nat /\ c.target \in Nat /\ c.backlog \in Nat /\ c.maxWeight \in Nat
        /\ c.weights[k] \in Nat
    BY DEF WeightedConstraint
  <2>2. Sat(c.window * c.target) \in Nat
    BY <2>1, SatProduct
  <2>3. d \in Nat /\ b \in Nat
    BY SMTT(30), <2>1, <2>2, SatProduct
  <2>4. MultiExponent(c, k) =
            IF c.backlog = 0 \/ d = 0 \/ k = SingleDim \/ c.weights[k] = 0 THEN 0
            ELSE InBips(b) \div e
    BY DEF MultiExponent
  <2> HIDE DEF d, b
  <2>5. InBips(b) \in Nat
    BY <2>3, InBipsNat
  <2>6. CASE d # 0
    <3>1. e \in Nat \ {0}
      BY <2>3, <2>6, WidthAssumption, Widths
    <3> HIDE DEF e
    <3>2. InBips(b) \div e \in Nat
      BY <2>5, <3>1, Quotient
    <3> QED  BY <2>4, <3>2
  <2>7. CASE d = 0
    BY <2>4, <2>7
  <2> QED  BY <2>6, <2>7
<1> QED  BY <1>1, <1>2

\* A bounded set of natural numbers that is not empty has a largest element.
LEMMA Largest ==
    ASSUME NEW S \in SUBSET Nat, S # {}, NEW b \in Nat, \A x \in S : x <= b
    PROVE  \E x \in S : \A y \in S : y <= x
<1> DEFINE D == {k \in Nat : \E x \in S : k = b - x}
<1>1. PICK y \in S : TRUE
  BY Zenon
<1>2. b - y \in D
  OBVIOUS
<1>3. PICK k \in D : \A m \in D : k <= m
  <2>1. D \in SUBSET Nat /\ D # {}
    BY Zenon, <1>2
  <2> HIDE DEF D
  <2> QED  BY <2>1, Least
<1>4. PICK x \in S : k = b - x
  BY <1>3
<1>5. ASSUME NEW z \in S PROVE z <= x
  <2>1. b - z \in D
    OBVIOUS
  <2>2. k <= b - z
    <3> HIDE DEF D
    <3> QED  BY <1>3, <2>1
  <2> QED  BY <1>4, <2>2
<1> QED  BY <1>5

\* No model leaves a fee below the minimum.
LEMMA UpdateFloor ==
    ASSUME NEW l, L2OK(l), Sat(l.inertia * l.speed) <= MaxI64, NEW t \in Nat, NEW v \in Nat
    PROVE  l.minBaseFee <= UpdatePricingModel(l, t, v).baseFee
<1>0. l = [x \in L2Fields |-> l[x]]
  BY DEF L2OK
<1>1. l.minBaseFee <= UpdateLegacy(l, t).baseFee
  <2> DEFINE b == Less(l.backlog, Sat(t * l.speed))
  <2>1. l.backlog \in Nat /\ l.speed \in Nat
    BY DEF L2OK
  <2>2. Sat(t * l.speed) \in Nat
    BY <2>1, SatProduct
  <2>3. b \in Nat
    BY Zenon, <2>1, <2>2, LessNat
  <2>4. UpdateLegacy(l, t) = [l EXCEPT !.backlog = b, !.baseFee = LegacyFee(l, b)]
    BY DEF UpdateLegacy
  <2> HIDE DEF b
  <2>5. UpdateLegacy(l, t).baseFee = LegacyFee(l, b)
    BY Zenon, <1>0, <2>4 DEF L2Fields
  <2> QED  BY <2>3, <2>5, LegacyFloor
<1>2. l.minBaseFee <= UpdateSingle(l, t).baseFee
  <2> DEFINE p == PayDown(l.constraints, t)
             xs == [i \in DOMAIN p |-> SingleExponent(p[i])]
             f == PositiveExponentFee(l, TotalI64(xs))
  <2>1. p \in Seq(Constraint)
    BY PayDownKeeps DEF L2OK
  <2>2. UpdateSingle(l, t) = [l EXCEPT !.constraints = p, !.baseFee = f]
    BY DEF UpdateSingle
  <2> HIDE DEF p
  <2>3. xs \in Seq(Int)
    <3>1. DOMAIN p = 1 .. Len(p) /\ Len(p) \in Nat /\ \A i \in 1 .. Len(p) : p[i] \in Constraint
      BY <2>1
    <3>2. \A i \in 1 .. Len(p) : SingleExponent(p[i]) \in Int
      BY <3>1, ContributionInt
    <3> QED  BY <3>1, <3>2
  <2> HIDE DEF xs
  <2>4. l.minBaseFee <= f
    BY SMTT(30), <2>3, TotalIsInt, PositiveFloor
  <2> HIDE DEF f
  <2>5. UpdateSingle(l, t).baseFee = f
    BY Zenon, <1>0, <2>2 DEF L2Fields
  <2> QED  BY <2>4, <2>5
<1>3. l.minBaseFee <= UpdateMulti(l, t).baseFee
  <2> DEFINE p == PayDown(l.multi, t)
             xs(k) == [i \in DOMAIN p |-> MultiExponent(p[i], k)]
             fee(k) == PositiveExponentFee(l, TotalI64(xs(k)))
             fees == {fee(k) : k \in Kinds} \cup {l.minBaseFee}
             f == CHOOSE g \in fees : \A h \in fees : h <= g
  <2>1. p \in Seq(WeightedConstraint)
    BY PayDownKeeps DEF L2OK
  <2>2. UpdateMulti(l, t) = [l EXCEPT !.multi = p, !.next = [k \in Kinds |-> fee(k)], !.baseFee = f]
    BY DEF UpdateMulti
  <2>3. UpdateMulti(l, t).baseFee = f
    <3> DEFINE n == [k \in Kinds |-> fee(k)]
    <3>1. UpdateMulti(l, t) = [l EXCEPT !.multi = p, !.next = n, !.baseFee = f]
      BY <2>2
    <3> HIDE DEF p, n, f
    <3> QED  BY Zenon, <1>0, <3>1 DEF L2Fields
  <2> HIDE DEF p
  <2>4. ASSUME NEW k \in Kinds
        PROVE  /\ fee(k) \in Nat /\ l.minBaseFee <= fee(k)
               /\ fee(k) <= l.minBaseFee + Ceiling(l.minBaseFee)
    <3> DEFINE ys == xs(k)
    <3>1. ys \in Seq(Int)
      <4>1. DOMAIN p = 1 .. Len(p) /\ Len(p) \in Nat /\ \A i \in 1 .. Len(p) : p[i] \in WeightedConstraint
        BY <2>1
      <4>2. \A i \in 1 .. Len(p) : MultiExponent(p[i], k) \in Int
        BY <4>1, ContributionInt
      <4> QED  BY <4>1, <4>2
    <3> HIDE DEF ys
    <3>2. LET g == PositiveExponentFee(l, TotalI64(ys))
          IN  g \in Nat /\ l.minBaseFee <= g /\ g <= l.minBaseFee + Ceiling(l.minBaseFee)
      BY SMTT(30), <3>1, TotalIsInt, PositiveFloor
    <3> QED  BY <3>2 DEF ys
  <2>5. l.minBaseFee \in Nat /\ Ceiling(l.minBaseFee) \in Nat
    BY Zenon, FeeBound DEF L2OK
  <2> HIDE DEF fee
  <2>6. /\ fees \in SUBSET Nat /\ fees # {} /\ l.minBaseFee \in fees
        /\ \A x \in fees : x <= l.minBaseFee + Ceiling(l.minBaseFee)
    BY <2>4, <2>5
  <2>7. \E g \in fees : \A h \in fees : h <= g
    <3>1. l.minBaseFee + Ceiling(l.minBaseFee) \in Nat
      BY <2>5
    <3> HIDE DEF fees
    <3> QED  BY Zenon, <2>6, <3>1, Largest
  <2>8. f \in fees /\ \A h \in fees : h <= f
    <3> HIDE DEF fees
    <3> QED  BY <2>7
  <2> HIDE DEF f
  <2> QED  BY <2>3, <2>6, <2>8
<1>4. \/ UpdatePricingModel(l, t, v) = UpdateLegacy(l, t)
      \/ UpdatePricingModel(l, t, v) = UpdateSingle(l, t)
      \/ UpdatePricingModel(l, t, v) = UpdateMulti(l, t)
  <2>1. GasModel(l, v) \in {"multi", "single", "legacy"}
    BY DEF GasModel
  <2> QED  BY <2>1 DEF UpdatePricingModel
<1> QED  BY <1>1, <1>2, <1>3, <1>4

\* For every chain, whatever its owners set and in every pricing model, StartBlock leaves no
\* base fee below the minimum, as long as the divisor of the first model fits the signed
\* integer it is cast to (update_pricing_model).
THEOREM BaseFeeKeepsFloor == Spec => BaseFeeFloor
<1>1. ASSUME ChainInv, [Next]_vars, block' # block, DivisorFits
      PROVE  l2'.baseFee >= l2.minBaseFee
  <2>1. PICK t \in Times : StartBlock(t)
    <3>1. Upgrades \/ Governs \/ Prices => block' = block
      BY CallsLeaveBlock
    <3>2. EndBlock \/ (\E t \in Times : StartBlockFails(t)) \/ UNCHANGED vars => block' = block
      BY DEF EndBlock, StartBlockFails, vars
    <3> QED  BY <1>1, <3>1, <3>2 DEF Next, Blocks
  <2> DEFINE c == CommitMultiGasFees(l2, version)
             passed == TimePassed(t)
             priced == UpdatePricingModel(c, passed, version)
  <2>2. \/ l2' = [priced EXCEPT !.txLimit = GenesisTxLimit]
        \/ l2' = priced
    BY <2>1 DEF StartBlock
  <2>3. version \in Nat
    BY <1>1 DEF ChainInv, InstallInv, LatestVersion
  <2>4. passed \in Nat
    <3>1. t \in Nat /\ t >= now
      BY <2>1, TimesAssumption DEF StartBlock, NextBlock
    <3> QED  BY <1>1, <3>1 DEF ChainInv, ClockInv, TimePassed
  <2>5. /\ L2OK(c) /\ c.minBaseFee = l2.minBaseFee /\ c.inertia = l2.inertia /\ c.speed = l2.speed
    BY Zenon, <1>1 DEF ChainInv, CommitMultiGasFees, L2OK, L2Fields
  <2>6. L2OK(priced)
    <3> HIDE DEF passed
    <3> QED  BY <1>1, <2>3, <2>4, UpdateKeeps DEF ChainInv
  <2>7. c.minBaseFee <= priced.baseFee
    <3>1. Sat(c.inertia * c.speed) <= MaxI64
      BY <1>1, <2>5 DEF DivisorFits
    <3> HIDE DEF c, passed
    <3> QED  BY SMTT(30), <2>3, <2>4, <2>5, <3>1, UpdateFloor
  <2> HIDE DEF priced, c
  <2>8. l2'.baseFee = priced.baseFee
    BY <2>2, <2>6 DEF L2OK, L2Fields
  <2>9. c.minBaseFee \in Nat
    BY <2>5 DEF L2OK
  <2> QED  BY <2>5, <2>7, <2>8, <2>9
<1>2. ChainInv /\ [Next]_vars => [block' # block /\ DivisorFits => l2'.baseFee >= l2.minBaseFee]_vars
  BY <1>1
<1> QED  BY <1>2, InitChain, NextKeepsChain, PTL DEF Spec, BaseFeeFloor

-----------------------------------------------------------------------------
(* The cost of an update of the backlog.                                   *)

\* The running cost of the updates of a list of constraints, up to n.
IsCost(c, list, n) ==
    c = [i \in 0 .. n |->
            IF i = 0 THEN 2 * ReadCost ELSE c[i - 1] + UpdatedCost(list[i].backlog)]

\* A running cost starts with two reads and adds one update at a time.
LEMMA CostSteps ==
    ASSUME NEW c, NEW list, NEW n \in Nat, IsCost(c, list, n)
    PROVE  /\ c[0] = 2 * ReadCost
           /\ \A i \in 1 .. n : c[i] = c[i - 1] + UpdatedCost(list[i].backlog)
<1>1. 0 \in 0 .. n /\ \A i \in 1 .. n : i \in 0 .. n /\ i # 0
  OBVIOUS
<1> QED  BY <1>1 DEF IsCost

\* Running costs exist.
LEMMA CostExists ==
    ASSUME NEW list, NEW n \in Nat
    PROVE  \E c : IsCost(c, list, n)
<1> DEFINE S == {m \in Nat : ~\E c : IsCost(c, list, m)}
<1>1. SUFFICES ASSUME S # {} PROVE FALSE
  OBVIOUS
<1>2. PICK m \in S : \A k \in S : m <= k
  <2>1. S \in SUBSET Nat
    OBVIOUS
  <2> HIDE DEF S
  <2> QED  BY <1>1, <2>1, Least
<1>3. m \in Nat
  BY <1>2
<1>4. CASE m = 0
  <2> DEFINE c == [i \in 0 .. 0 |-> 2 * ReadCost]
  <2>1. IsCost(c, list, 0)
    BY DEF IsCost
  <2> QED  BY <1>2, <1>4, <2>1
<1>5. CASE m # 0
  <2> DEFINE k == m - 1
  <2>1. k \in Nat /\ k < m /\ k + 1 = m
    BY <1>3, <1>5
  <2>2. k \notin S
    <3> HIDE DEF S
    <3> QED  BY <1>2, <1>3, <2>1
  <2>3. PICK c : IsCost(c, list, k)
    BY <2>1, <2>2
  <2>4. /\ c[0] = 2 * ReadCost
        /\ \A i \in 1 .. k : c[i] = c[i - 1] + UpdatedCost(list[i].backlog)
    <3> HIDE DEF k
    <3> QED  BY SMTT(30), <2>1, <2>3, CostSteps
  <2> DEFINE r == [i \in 0 .. m |->
                      IF i = m THEN c[k] + UpdatedCost(list[m].backlog) ELSE c[i]]
  <2>5. ASSUME NEW i \in 0 .. m
        PROVE  r[i] = IF i = 0 THEN 2 * ReadCost ELSE r[i - 1] + UpdatedCost(list[i].backlog)
    <3>1. CASE i = 0
      BY <1>5, <2>4, <3>1
    <3>2. CASE i # 0 /\ i # m
      <4>1. i \in 1 .. k /\ i - 1 \in 0 .. m /\ i - 1 # m
        BY <3>2, <1>3
      <4>2. c[i] = c[i - 1] + UpdatedCost(list[i].backlog)
        BY <4>1, <2>4
      <4> QED  BY <3>2, <4>1, <4>2
    <3>3. CASE i = m
      <4>1. k \in 0 .. m /\ k # m /\ i - 1 = k
        BY <2>1, <3>3
      <4>2. r[k] = c[k]
        BY <4>1
      <4> QED  BY <1>5, <3>3, <4>1, <4>2
    <3> QED  BY <3>1, <3>2, <3>3
  <2>6. r = [i \in 0 .. m |-> r[i]]
    OBVIOUS
  <2>7. IsCost(r, list, m)
    <3> HIDE DEF r
    <3> QED  BY Zenon, <2>5, <2>6 DEF IsCost
  <2> QED  BY SMTT(30), <1>2, <2>7
<1> QED  BY <1>4, <1>5

\* An update costs a read and at most a write of a value other than zero.
LEMMA UpdatedBound ==
    ASSUME NEW b
    PROVE  UpdatedCost(b) \in Nat /\ UpdatedCost(b) <= ReadCost + WriteCost
BY SMTT(30) DEF UpdatedCost, ReadCost, WriteCost, WriteZeroCost

\* The updates of a list of constraints cost no more than is reserved for its length.
LEMMA CostBound ==
    ASSUME NEW list, Len(list) \in Nat
    PROVE  ConstraintsCost(list) <= 2 * ReadCost + Len(list) * (ReadCost + WriteCost)
<1> DEFINE n == Len(list)
           c == CHOOSE f : IsCost(f, list, n)
           u == ReadCost + WriteCost
<1>1. n \in Nat /\ u = 20800 /\ 2 * ReadCost = 1600
  BY SMTT(30) DEF ReadCost, WriteCost
<1>2. IsCost(c, list, n)
  <2> HIDE DEF n
  <2>1. \E f : IsCost(f, list, n)
    <3>1. n \in Nat
      BY <1>1
    <3> QED  BY <3>1, CostExists
  <2> QED  BY <2>1
<1>3. ConstraintsCost(list) = c[n]
  BY DEF ConstraintsCost, IsCost
<1> HIDE DEF n, c
<1>4. /\ c[0] = 2 * ReadCost
      /\ \A i \in 1 .. n : c[i] = c[i - 1] + UpdatedCost(list[i].backlog)
  BY <1>1, <1>2, CostSteps
<1> HIDE DEF u
<1> DEFINE Good(i) == c[i] \in Nat /\ c[i] <= 1600 + i * 20800
           S == {i \in Nat : i <= n /\ ~Good(i)}
<1>5. ASSUME S # {} PROVE FALSE
  <2>1. PICK i \in S : \A k \in S : i <= k
    <3>1. S \in SUBSET Nat
      OBVIOUS
    <3> HIDE DEF S
    <3> QED  BY <1>5, <3>1, Least
  <2>2. i \in 1 .. n
    BY <1>1, <1>4, <2>1
  <2>3. i - 1 \in Nat /\ i - 1 <= n /\ ~(i <= i - 1)
    BY <1>1, <2>2
  <2>4. i - 1 \notin S
    <3> HIDE DEF S
    <3> QED  BY <2>1, <2>3
  <2>5. Good(i - 1)
    BY <2>3, <2>4
  <2>6. UpdatedCost(list[i].backlog) \in Nat /\ UpdatedCost(list[i].backlog) <= 20800
    BY <1>1, UpdatedBound DEF u
  <2>7. c[i] = c[i - 1] + UpdatedCost(list[i].backlog)
    BY <1>4, <2>2
  <2>8. Good(i)
    BY <2>2, <2>5, <2>6, <2>7
  <2> QED  BY <2>1, <2>8
<1>6. Good(n)
  BY <1>1, <1>5
<1> QED  BY <1>1, <1>3, <1>6 DEF n, u

\* Taking gas off the backlogs changes neither the model nor the number of constraints.
LEMMA ShrinkKeepsLists ==
    ASSUME NEW l, L2OK(l), NEW gas, NEW v \in Nat, v < 60
    PROVE  LET m == ShrinkBacklog(l, gas, v)
           IN  /\ GasModel(m, v) = GasModel(l, v)
               /\ Len(m.constraints) = Len(l.constraints)
               /\ Len(l.constraints) \in Nat
<1> DEFINE m == ShrinkBacklog(l, gas, v)
           s == l.constraints
<1>1. l = [x \in L2Fields |-> l[x]] /\ s \in Seq(Constraint)
  BY DEF L2OK
<1>2. CASE GasModel(l, v) = "legacy"
  <2>1. m = [l EXCEPT !.backlog = Less(@, gas)]
    BY <1>2 DEF ShrinkBacklog
  <2> HIDE DEF m
  <2>2. m.constraints = s
    BY <1>1, <2>1 DEF L2Fields
  <2>3. GasModel(m, v) = GasModel(l, v)
    BY SMTT(30), <2>2 DEF GasModel
  <2> QED  BY <1>1, <2>2, <2>3 DEF m
<1>3. CASE GasModel(l, v) = "single"
  <2> DEFINE w == [i \in DOMAIN s |-> [s[i] EXCEPT !.backlog = Less(@, gas)]]
  <2>1. m = [l EXCEPT !.constraints = w]
    BY <1>3 DEF ShrinkBacklog
  <2>2. DOMAIN w = DOMAIN s
    OBVIOUS
  <2>3. DOMAIN s = 1 .. Len(s) /\ Len(s) \in Nat
    BY <1>1
  <2>4. s # <<>> /\ v >= 50
    BY <1>3 DEF GasModel
  <2>5. Len(w) = Len(s)
    BY <2>2, <2>3
  <2>6. w # <<>>
    <3>1. Len(s) # 0
      BY <1>1, <2>4
    <3> HIDE DEF w
    <3> QED  BY <2>5, <3>1
  <2> HIDE DEF m, w
  <2>7. m.constraints = w
    BY <1>1, <2>1 DEF L2Fields
  <2>8. GasModel(m, v) = "single"
    BY <2>4, <2>6, <2>7 DEF GasModel
  <2> QED  BY <1>3, <2>3, <2>5, <2>7, <2>8 DEF m
<1>4. GasModel(l, v) \in {"legacy", "single"}
  BY DEF GasModel
<1> QED  BY <1>2, <1>3, <1>4

\* For every chain and every list of constraints, what redeem reserves for the update of the
\* backlog covers what the update charges, in every version but 50 (backlog_update_cost).
THEOREM ReserveStaysCovering == Spec => []ReserveCoversUpdate
<1>1. ChainInv => ReserveCoversUpdate
  <2>1. SUFFICES ASSUME ChainInv, version # 50, NEW g \in TxGas
                 PROVE  ShrinkCost(ShrinkBacklog(l2, g, version), version)
                            <= BacklogUpdateCost(l2, version)
    BY DEF ReserveCoversUpdate
  <2> DEFINE m == ShrinkBacklog(l2, g, version)
  <2>2. version \in Nat /\ L2OK(l2)
    BY <2>1 DEF ChainInv, InstallInv, LatestVersion
  <2>3. CASE version >= 60
    <3>1. ShrinkCost(m, version) = ReadCost + WriteCost
      BY <2>2, <2>3 DEF ShrinkCost
    <3>2. BacklogUpdateCost(l2, version) = ReadCost + WriteCost
      BY <2>2, <2>3 DEF BacklogUpdateCost
    <3> QED  BY SMTT(30), <3>1, <3>2 DEF ReadCost, WriteCost
  <2>4. CASE version < 60
    <3>1. /\ GasModel(m, version) = GasModel(l2, version)
          /\ Len(m.constraints) = Len(l2.constraints)
          /\ Len(l2.constraints) \in Nat
      BY <2>2, <2>4, ShrinkKeepsLists
    <3> HIDE DEF m
    <3>2. CASE GasModel(l2, version) = "legacy"
      <4>1. ShrinkCost(m, version) =
                (IF version >= 50 THEN ReadCost ELSE 0) + UpdatedCost(m.backlog)
        BY <2>2, <2>4, <3>1, <3>2 DEF ShrinkCost
      <4>2. ~(version \in 51 .. 59 /\ l2.constraints # <<>>)
        BY <2>2, <3>2 DEF GasModel
      <4>3. BacklogUpdateCost(l2, version) =
                (IF version >= 50 THEN ReadCost ELSE 0) + ReadCost + WriteCost
        BY SMTT(30), <2>2, <2>4, <4>2 DEF BacklogUpdateCost
      <4> QED  BY SMTT(30), <4>1, <4>3, UpdatedBound DEF ReadCost, WriteCost, m
    <3>3. CASE GasModel(l2, version) # "legacy"
      <4>1. version \in 51 .. 59 /\ l2.constraints # <<>>
        BY <2>1, <2>2, <2>4, <3>3 DEF GasModel
      <4>2. ShrinkCost(m, version) = ConstraintsCost(m.constraints)
        BY <2>2, <2>4, <3>1, <3>3 DEF ShrinkCost
      <4>3. BacklogUpdateCost(l2, version) =
                2 * ReadCost + Len(l2.constraints) * (ReadCost + WriteCost)
        BY <2>2, <2>4, <4>1 DEF BacklogUpdateCost
      <4>4. ConstraintsCost(m.constraints)
                <= 2 * ReadCost + Len(m.constraints) * (ReadCost + WriteCost)
        BY <3>1, CostBound
      <4> QED  BY <3>1, <4>2, <4>3, <4>4 DEF m
    <3> QED  BY <3>2, <3>3
  <2> QED  BY <2>2, <2>3, <2>4
<1> QED  BY <1>1, InitChain, NextKeepsChain, PTL DEF Spec
=============================================================================
