-------------------------- MODULE CoreMaintenance --------------------------
(***************************************************************************)
(* Running the core contracts across an upgrade of their code.  A stored   *)
(* invoice is encoded in the schema of the code that wrote it, and code of *)
(* another schema panics when it reads the record, which undoes the whole  *)
(* transaction.  migrate rewrites the records the old code left behind.    *)
(*                                                                         *)
(* Schema 1 is the record without notes and metadata hash (InvoiceV1),     *)
(* schema 2 the current one (Invoice).  The code that writes schema 1 is   *)
(* not in the repository any more: it is taken to have today's entry       *)
(* points, without the metadata hash and without this migrate.             *)
(***************************************************************************)
EXTENDS InvoiceNft, Timelock

CoreContracts == {"invoice_nft", "financing_pool", "marketplace"}

\* A contract's code is identified with the schema it reads and writes: the
\* contracts are deployed with the old code and upgraded to the new one.
ASSUME MaintenanceAssumption ==
    /\ CoreContracts \subseteq Upgradable
    /\ InitialHash = 1
    /\ Hashes = {2}

VARIABLES
    schema,             \* the encoding of Invoice(id), 0 where there is no record
    migration_version,  \* MigrationVersion
    allowed             \* CurrencyAllowlist(currency)

maintenanceVars == <<schema, migration_version, allowed>>
coreVars == <<envVars, nftVars, upgradeVars, maintenanceVars>>

\* The schema of the code in force.
Codec == wasm["invoice_nft"]

\* Before the first migration the version is what initialize stored, or absent
\* if the contract was deployed before the key existed.
MaintenanceInit ==
    /\ EnvInit /\ NftInit /\ TimelockInit
    /\ schema = [id \in Ids |-> 0]
    /\ migration_version \in {0, 1}
    /\ allowed = [c \in Currencies |-> FALSE]

-----------------------------------------------------------------------------
(* The entry points of InvoiceNft, on records of either schema.             *)

Touched(id) == invoices'[id] # invoices[id] \/ frozen'[id] # frozen[id]

\* Every entry point that changes a record or its frozen flag loads the record
\* first; mint_invoice writes where there is none.
Decodes(id) == schema[id] \in {0, Codec}

SchemaAfter(id) ==
    IF invoices'[id] = NoInvoice THEN 0
    ELSE IF invoices'[id] # invoices[id] THEN Codec
    ELSE schema[id]

Serve ==
    /\ NftNext
    /\ \A id \in Ids : Touched(id) => Decodes(id)
    /\ Codec = 1 => \A id \in Ids : invoices'[id].metadata_hash = None
    /\ schema' = [id \in Ids |-> SchemaAfter(id)]
    /\ UNCHANGED <<upgradeVars, migration_version, allowed>>

-----------------------------------------------------------------------------
(* Migration, admin only, by the new code.                                  *)

MutFromV1(old) ==
    [status |-> old.status, sme |-> old.sme, amount |-> old.amount,
     currency |-> old.currency, due_date |-> old.due_date,
     document |-> old.document, metadata_hash |-> None,
     risk_tier |-> old.risk_tier, created_at |-> old.created_at,
     funded_at |-> NoTime, repaid_at |-> NoTime]

\* An InvoiceV1 as an Invoice.
FromV1(old) ==
    [status |-> old.status, sme |-> old.sme, amount |-> old.amount,
     currency |-> old.currency, due_date |-> old.due_date,
     document |-> old.document, metadata_hash |-> None,
     risk_tier |-> old.risk_tier, created_at |-> old.created_at,
     funded_at |-> old.funded_at, repaid_at |-> old.repaid_at]

MutBackfilled == {id \in Ids : id + 1 < next_id}

\* The ids the loop of migrate visits.
Backfilled == {id \in Ids : id < next_id}

\* The InvoiceV1 decoder panics on a record of the new schema.
migrate ==
    /\ Codec = 2
    /\ \/ /\ migration_version < 2
          /\ \A id \in Backfilled : schema[id] # 2
          /\ invoices' = [id \in Ids |->
               IF id \in Backfilled /\ schema[id] = 1 THEN FromV1(invoices[id])
               ELSE invoices[id]]
          /\ schema' = [id \in Ids |->
               IF id \in Backfilled /\ schema[id] = 1 THEN 2 ELSE schema[id]]
          /\ migration_version' = 2
       \/ /\ migration_version >= 2
          /\ UNCHANGED <<invoices, schema, migration_version>>
    /\ UNCHANGED <<envVars, next_id, exposure, frozen, upgradeVars, allowed>>

-----------------------------------------------------------------------------
(* The currency allowlist, admin only.  mint_invoice does not consult it.   *)

SetAllowed(currency, listed) ==
    /\ allowed' = [allowed EXCEPT ![currency] = listed]
    /\ UNCHANGED <<envVars, nftVars, upgradeVars, schema, migration_version>>

add_allowed_currency(currency) == SetAllowed(currency, TRUE)

remove_allowed_currency(currency) == SetAllowed(currency, FALSE)

-----------------------------------------------------------------------------
(* The timelocked upgrade, of which each core contract has a copy.          *)

NftUpgrade == Upgrade("invoice_nft")

PoolUpgrade == Upgrade("financing_pool")

MarketUpgrade == Upgrade("marketplace")

UpgradeCore ==
    /\ NftUpgrade \/ PoolUpgrade \/ MarketUpgrade
    /\ UNCHANGED <<envVars, nftVars, maintenanceVars>>

MaintenanceNext ==
    \/ Serve
    \/ migrate
    \/ \E currency \in Currencies :
          add_allowed_currency(currency) \/ remove_allowed_currency(currency)
    \/ UpgradeCore

MaintenanceSpec == MaintenanceInit /\ [][MaintenanceNext]_coreVars

-----------------------------------------------------------------------------
(* Properties.                                                              *)

\* Schemas, code version and migration version are well formed.
MaintenanceTypeOK ==
    /\ schema \in [Ids -> 0..2]
    /\ migration_version \in 0..2
    /\ wasm \in [Upgradable -> {1, 2}]
    /\ allowed \in [Currencies -> BOOLEAN]

\* A record is unreadable only in the window between the upgrade of the code
\* and migrate: the old code reads all it wrote, and once MigrationVersion is 2
\* no record of the old schema is left and none is ever written again.
ReadableOutsideWindow ==
    Codec = 1 \/ migration_version = 2 => \A id \in Ids : Decodes(id)

\* migrate changes the encoding and nothing else: no invoice gains or loses its
\* record, its stage, its terms or a timestamp by being rewritten.
MigrationKeepsInvoices ==
    [][migration_version' # migration_version => UNCHANGED nftVars]_coreVars

\* As long as an invoice waits to be rewritten, migrate succeeds: "records
\* minted AFTER the WASM upgrade already carry notes and decode as Invoice
\* directly - skip them".
MigrateNeverBlocked ==
    (\E id \in Ids : ~Decodes(id)) => ENABLED migrate
=============================================================================
