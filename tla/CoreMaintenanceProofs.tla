----------------------- MODULE CoreMaintenanceProofs -----------------------
(***************************************************************************)
(* What holds across an upgrade, for every number of invoices and every    *)
(* order of calls, upgrades and migration.                                 *)
(***************************************************************************)
EXTENDS CoreMaintenance, InvoiceNftProofs, TimelockProofs

\* A record exists exactly where a schema is noted, the old code wrote only the
\* old schema and no hash, and the new schema is final.
SchemaInv ==
    /\ MaintenanceTypeOK
    /\ \A c \in Upgradable :
          upgrade_proposal[c] # NoProposal => upgrade_proposal[c].value \in Hashes
    /\ Codec = 1 => migration_version < 2
    /\ \A id \in Ids :
          /\ schema[id] = 0 <=> invoices[id] = NoInvoice
          /\ Codec = 1 => schema[id] # 2
          /\ migration_version = 2 => schema[id] # 1
          /\ schema[id] = 1 => invoices[id].metadata_hash = None

MaintenanceInv == NftInv /\ UpgradeInv /\ SchemaInv

\* The code in force is the old or the new one.
LEMMA CodecType == MaintenanceTypeOK => Codec \in {1, 2}
  BY MaintenanceAssumption DEF MaintenanceTypeOK, Codec, CoreContracts

\* A fresh deployment has no records, no proposals and the old code.
LEMMA MaintenanceInitInv == MaintenanceInit => MaintenanceInv
  <1> SUFFICES ASSUME MaintenanceInit PROVE MaintenanceInv
    OBVIOUS
  <1>1. NftInv
    BY NftInitInv DEF MaintenanceInit
  <1>2. UpgradeInv
    BY UpgradeInitInv DEF MaintenanceInit, EnvInit
  <1>3. SchemaInv
    BY MaintenanceAssumption DEF MaintenanceInit, NftInit, TimelockInit,
       SchemaInv, MaintenanceTypeOK, Codec, CoreContracts
  <1> QED  BY <1>1, <1>2, <1>3 DEF MaintenanceInv

-----------------------------------------------------------------------------
(* One lemma per kind of step.                                              *)

\* The clock only moves forward, whatever the NFT contract does.
LEMMA ServeClock ==
  ASSUME NftInv, NftNext
  PROVE  now' \in Nat /\ now' >= now
  BY DEF NftInv, NftTypeOK, EnvTypeOK, NftNext, envVars, Environment, Tick,
     Advance, pause, unpause, set_credit_limit, OracleNext

\* An entry point of the NFT contract rewrites a record in the schema of the
\* code in force.
LEMMA ServeInv ==
  ASSUME MaintenanceInv, Serve
  PROVE  MaintenanceInv'
  <1>1. NftInv'
    BY NftNextInv DEF MaintenanceInv, Serve
  <1>2. UpgradeInv'
    BY ServeClock, UpgradeKept DEF MaintenanceInv, Serve
  <1>3. Codec \in {1, 2} /\ UNCHANGED <<Codec, migration_version, upgrade_proposal>>
    BY CodecType DEF MaintenanceInv, SchemaInv, Serve, upgradeVars, Codec
  <1>4. MaintenanceTypeOK'
    <2>1. ASSUME NEW id \in Ids PROVE SchemaAfter(id) \in 0..2
      BY <1>3 DEF SchemaAfter, MaintenanceInv, SchemaInv, MaintenanceTypeOK
    <2> QED
      BY <2>1 DEF Serve, MaintenanceInv, SchemaInv, MaintenanceTypeOK, upgradeVars
  <1>5. ASSUME NEW id \in Ids
        PROVE  /\ schema'[id] = 0 <=> invoices'[id] = NoInvoice
               /\ Codec = 1 => schema'[id] # 2
               /\ migration_version = 2 => schema'[id] # 1
               /\ schema'[id] = 1 => invoices'[id].metadata_hash = None
    <2>1. schema'[id] = SchemaAfter(id)
      BY DEF Serve
    <2>2. CASE invoices'[id] = NoInvoice
      BY <2>1, <2>2 DEF SchemaAfter
    <2>3. CASE invoices'[id] # NoInvoice /\ invoices'[id] # invoices[id]
      BY <1>3, <2>1, <2>3 DEF SchemaAfter, Serve, MaintenanceInv, SchemaInv
    <2>4. CASE invoices'[id] # NoInvoice /\ invoices'[id] = invoices[id]
      BY <2>1, <2>4 DEF SchemaAfter, MaintenanceInv, SchemaInv
    <2> QED  BY <2>2, <2>3, <2>4
  <1>6. SchemaInv'
    BY <1>3, <1>4, <1>5 DEF SchemaInv, MaintenanceInv
  <1> QED  BY <1>1, <1>2, <1>6 DEF MaintenanceInv

\* Rewriting a record of the old schema keeps every field.
LEMMA FromV1Keeps ==
  ASSUME NEW inv \in Invoice, inv.metadata_hash = None
  PROVE  FromV1(inv) = inv
  BY DEF FromV1, Invoice

\* migrate visits every record there is and changes none but for its schema.
LEMMA MigrateKeeps ==
  ASSUME MaintenanceInv, migrate
  PROVE  UNCHANGED nftVars
  <1>1. invoices \in [Ids -> Invoice]
    BY DEF MaintenanceInv, NftInv, NftTypeOK
  <1>2. ASSUME NEW id \in Ids, schema[id] = 1 PROVE FromV1(invoices[id]) = invoices[id]
    BY <1>1, <1>2, FromV1Keeps DEF MaintenanceInv, SchemaInv
  <1>3. UNCHANGED invoices
    BY <1>1, <1>2 DEF migrate
  <1> QED  BY <1>3 DEF migrate, nftVars

\* migrate rewrites every record it visits in the new schema, and there is no
\* record it does not visit.
LEMMA MigrateInv ==
  ASSUME MaintenanceInv, migrate
  PROVE  MaintenanceInv'
  <1>1. UNCHANGED <<envVars, nftVars, upgradeVars>>
    BY MigrateKeeps DEF migrate
  <1>2. NftInv'
    BY <1>1, NftNextInv DEF MaintenanceInv
  <1>3. UpgradeInv'
    BY <1>1, UpgradeKept DEF MaintenanceInv, UpgradeInv, envVars
  <1>4. ASSUME NEW id \in Ids, id \notin Backfilled PROVE schema[id] = 0
    BY <1>4 DEF MaintenanceInv, SchemaInv, NftInv, NftTypeOK, Timeline, TimelineOf,
       Backfilled, Ids
  <1>5. UNCHANGED <<Codec, upgrade_proposal, invoices>> /\ Codec = 2
    BY <1>1 DEF migrate, Codec, upgradeVars, nftVars
  <1>6. MaintenanceTypeOK'
    BY <1>1 DEF migrate, MaintenanceInv, SchemaInv, MaintenanceTypeOK, upgradeVars
  <1>7. SchemaInv'
    <2>1. CASE UNCHANGED <<schema, migration_version>>
      BY <1>5, <1>6, <2>1 DEF MaintenanceInv, SchemaInv
    <2>2. CASE /\ migration_version' = 2
               /\ \A id \in Backfilled : schema[id] # 2
               /\ schema' = [id \in Ids |->
                    IF id \in Backfilled /\ schema[id] = 1 THEN 2 ELSE schema[id]]
      BY <1>4, <1>5, <1>6, <2>2 DEF MaintenanceInv, SchemaInv
    <2> QED  BY <2>1, <2>2 DEF migrate
  <1> QED  BY <1>2, <1>3, <1>7 DEF MaintenanceInv

\* An upgrade puts a proposed code in force, and what is proposed is the new one.
LEMMA UpgradeCoreInv ==
  ASSUME MaintenanceInv, UpgradeCore
  PROVE  MaintenanceInv'
  <1>1. UNCHANGED <<envVars, nftVars, maintenanceVars>>
    BY DEF UpgradeCore
  <1>2. PICK c \in Upgradable : Upgrade(c)
    BY MaintenanceAssumption DEF UpgradeCore, NftUpgrade, PoolUpgrade, MarketUpgrade,
       CoreContracts
  <1>3. NftInv'
    BY <1>1, NftNextInv DEF MaintenanceInv
  <1>4. UpgradeInv'
    BY <1>1, <1>2, UpgradeStepInv DEF MaintenanceInv, envVars
  <1>5. /\ wasm' \in [Upgradable -> {1, 2}]
        /\ \A k \in Upgradable : wasm'[k] \in {wasm[k], 2}
    <2>1. CASE execute_upgrade(c)
      BY <2>1, MaintenanceAssumption DEF execute_upgrade, Elapsed, MaintenanceInv,
         SchemaInv, MaintenanceTypeOK
    <2>2. CASE UNCHANGED wasm
      BY <2>2 DEF MaintenanceInv, SchemaInv, MaintenanceTypeOK
    <2> QED  BY <1>2, <2>1, <2>2 DEF Upgrade, propose_upgrade
  <1>6. \A k \in Upgradable :
          upgrade_proposal'[k] # NoProposal => upgrade_proposal'[k].value \in Hashes
    BY <1>2 DEF Upgrade, propose_upgrade, NewProposal, execute_upgrade, Consumed, MaintenanceInv,
       SchemaInv, UpgradeInv
  <1>7. Codec' = 1 => Codec = 1
    BY <1>5, MaintenanceAssumption DEF Codec, CoreContracts
  <1>8. MaintenanceTypeOK'
    BY <1>1, <1>5 DEF maintenanceVars, MaintenanceInv, SchemaInv, MaintenanceTypeOK
  <1>9. SchemaInv'
    BY <1>1, <1>6, <1>7, <1>8 DEF maintenanceVars, nftVars, MaintenanceInv, SchemaInv
  <1> QED  BY <1>3, <1>4, <1>9 DEF MaintenanceInv

\* Changing the currency allowlist touches no record and no code.
LEMMA AllowlistInv ==
  ASSUME MaintenanceInv, NEW currency \in Currencies, NEW listed \in BOOLEAN,
         SetAllowed(currency, listed)
  PROVE  MaintenanceInv'
  <1>1. UNCHANGED <<envVars, nftVars, upgradeVars, schema, migration_version>>
    BY DEF SetAllowed
  <1>2. NftInv'
    BY <1>1, NftNextInv DEF MaintenanceInv
  <1>3. UpgradeInv'
    BY <1>1, UpgradeKept DEF MaintenanceInv, UpgradeInv, envVars
  <1>4. MaintenanceTypeOK'
    BY <1>1 DEF SetAllowed, MaintenanceInv, SchemaInv, MaintenanceTypeOK, upgradeVars
  <1>5. SchemaInv'
    BY <1>1, <1>4 DEF MaintenanceInv, SchemaInv, Codec, nftVars, upgradeVars
  <1> QED  BY <1>2, <1>3, <1>5 DEF MaintenanceInv

\* Every entry point, on records of either schema, keeps the invariant.
LEMMA MaintenanceNextInv == MaintenanceInv /\ [MaintenanceNext]_coreVars => MaintenanceInv'
  <1> SUFFICES ASSUME MaintenanceInv, [MaintenanceNext]_coreVars PROVE MaintenanceInv'
    OBVIOUS
  <1>1. CASE Serve
    BY <1>1, ServeInv
  <1>2. CASE migrate
    BY <1>2, MigrateInv
  <1>3. CASE \E currency \in Currencies :
               add_allowed_currency(currency) \/ remove_allowed_currency(currency)
    BY <1>3, AllowlistInv DEF add_allowed_currency, remove_allowed_currency
  <1>4. CASE UpgradeCore
    BY <1>4, UpgradeCoreInv
  <1>5. CASE UNCHANGED coreVars
    <2>1. NftInv'
      BY <1>5, NftNextInv DEF MaintenanceInv, coreVars
    <2>2. UpgradeInv'
      BY <1>5, UpgradeKept DEF MaintenanceInv, UpgradeInv, envVars, coreVars
    <2>3. SchemaInv'
      BY <1>5 DEF MaintenanceInv, SchemaInv, MaintenanceTypeOK, Codec, coreVars,
         nftVars, upgradeVars, maintenanceVars
    <2> QED  BY <2>1, <2>2, <2>3 DEF MaintenanceInv
  <1> QED  BY <1>1, <1>2, <1>3, <1>4, <1>5 DEF MaintenanceNext

-----------------------------------------------------------------------------
(* The theorems.                                                            *)

\* The invariant the others follow from.
LEMMA MaintenanceInvariant == MaintenanceSpec => []MaintenanceInv
  BY MaintenanceInitInv, MaintenanceNextInv, PTL DEF MaintenanceSpec

\* However many invoices there are when migrate runs, and whatever was minted,
\* withdrawn or frozen before, no record stays behind in a schema the code in
\* force does not read.
THEOREM MaintenanceReadable == MaintenanceSpec => []ReadableOutsideWindow
  <1>1. MaintenanceInv => ReadableOutsideWindow
    <2> SUFFICES ASSUME MaintenanceInv, Codec = 1 \/ migration_version = 2,
                        NEW id \in Ids
                 PROVE  Decodes(id)
      BY DEF ReadableOutsideWindow
    <2>1. Codec \in {1, 2} /\ schema[id] \in 0..2
      BY CodecType DEF MaintenanceInv, SchemaInv, MaintenanceTypeOK
    <2> QED  BY <2>1 DEF MaintenanceInv, SchemaInv, Decodes
  <1> QED  BY <1>1, MaintenanceInvariant, PTL

\* Status, timestamps and NextId stay in step across the upgrade and migrate.
THEOREM MaintenanceTimeline == MaintenanceSpec => []Timeline
  BY MaintenanceInvariant, PTL DEF MaintenanceInv, NftInv

\* The step in which migrate sets MigrationVersion changes no invoice.
THEOREM MigrationKeeps == MaintenanceSpec => MigrationKeepsInvoices
  <1>1. MaintenanceInv /\ [MaintenanceNext]_coreVars
          => [migration_version' # migration_version => UNCHANGED nftVars]_coreVars
    <2> SUFFICES ASSUME MaintenanceInv, MaintenanceNext,
                        migration_version' # migration_version
                 PROVE  UNCHANGED nftVars
      OBVIOUS
    <2>1. migrate
      BY DEF MaintenanceNext, Serve, UpgradeCore, maintenanceVars,
         add_allowed_currency, remove_allowed_currency, SetAllowed
    <2> QED  BY <2>1, MigrateKeeps
  <1> QED  BY <1>1, MaintenanceInvariant, PTL DEF MaintenanceSpec, MigrationKeepsInvoices

\* Each of the three core contracts changes its code only to the one proposed
\* last, a whole delay after that proposal and once per proposal.
THEOREM CoreUpgradesAnnounced == MaintenanceSpec => UpgradesAnnounced
  <1>1. MaintenanceInv /\ [MaintenanceNext]_coreVars => [StepAnnounced]_upgradeVars
    <2> SUFFICES ASSUME MaintenanceInv, MaintenanceNext, upgradeVars' # upgradeVars
                 PROVE  StepAnnounced
      BY DEF coreVars
    <2>1. UpgradeCore
      BY DEF MaintenanceNext, Serve, migrate, add_allowed_currency,
         remove_allowed_currency, SetAllowed
    <2>2. PICK c \in Upgradable : Upgrade(c)
      BY <2>1, MaintenanceAssumption DEF UpgradeCore, NftUpgrade, PoolUpgrade,
         MarketUpgrade, CoreContracts
    <2> QED  BY <2>2, UpgradeStepAnnounced DEF MaintenanceInv
  <1> QED
    BY <1>1, MaintenanceInvariant, PTL DEF MaintenanceSpec, UpgradesAnnounced, StepAnnounced
=============================================================================
