----------------------------- MODULE InvoiceNft -----------------------------
(***************************************************************************)
(* The invoice NFT contract: one record per invoice and the status machine *)
(* Created -> Listed -> Funded -> Repaid | Defaulted.                      *)
(*                                                                         *)
(* Every entry point is one ledger transaction: it either takes effect as  *)
(* a whole or, on an error, not at all.  An operator below is therefore    *)
(* enabled exactly when the call succeeds.  Operators prime the contract's *)
(* own storage only, so that another contract's entry point can call them. *)
(***************************************************************************)
EXTENDS KoraEnvironment

CONSTANTS
    MaxInvoices,   \* bound: how many invoices are ever minted
    Amounts,       \* face values an SME may ask for
    DueDates,      \* due dates an SME may ask for
    Scores,        \* risk scores (0..100 are accepted)
    Documents,     \* off-chain documents; a document stands for its CID and its hash
    None           \* an absent optional value

ASSUME NftAssumption ==
    /\ MaxInvoices \in Nat
    /\ Amounts \subseteq Int
    /\ DueDates \subseteq Nat
    /\ Scores \subseteq Nat
    /\ None \notin Documents

Ids == 1..MaxInvoices

MarketplaceAddr == "marketplace"
PoolAddr == "financing_pool"
Outsider == "outsider"
Callers == {MarketplaceAddr, PoolAddr, Outsider}

VARIABLES
    invoices,      \* Invoice(id)
    next_id,       \* NextId
    exposure,      \* OutstandingExposure(sme)
    frozen         \* InvoiceFrozen(id)

nftVars == <<invoices, next_id, exposure, frozen>>

Invoice ==
    [status: InvoiceStatus,
     sme: SMEs \cup {None},
     amount: Nat,
     currency: Currencies \cup {None},
     due_date: Nat,
     document: Documents \cup {None},
     metadata_hash: Documents \cup {None},
     risk_tier: RiskTier,
     created_at: Timestamp,
     funded_at: Timestamp,
     repaid_at: Timestamp]

NoInvoice ==
    [status |-> "Absent", sme |-> None, amount |-> 0, currency |-> None,
     due_date |-> 0, document |-> None, metadata_hash |-> None,
     risk_tier |-> "AAA", created_at |-> NoTime, funded_at |-> NoTime,
     repaid_at |-> NoTime]

NftInit ==
    /\ invoices = [id \in Ids |-> NoInvoice]
    /\ next_id = 1
    /\ exposure = [s \in SMEs |-> 0]
    /\ frozen = [id \in Ids |-> FALSE]

-----------------------------------------------------------------------------
(* Guards shared by several entry points.  An operator named Mut... is the   *)
(* operator after it with a plausible mistake; the specification never uses *)
(* it, and a check replaces the one by the other to see a property fail.    *)

require_not_paused == ~paused

HasStatus(id, status) == invoices[id].status = status

load_invoice(id) == ~HasStatus(id, "Absent")

require_non_zero_amount(amount) == amount > 0

require_future_timestamp(ts) == ts > now

require_valid_risk_score(score) == score <= 100

MutValidTerms(amount, due_date, score) ==
    /\ require_future_timestamp(due_date)
    /\ require_valid_risk_score(score)

ValidTerms(amount, due_date, score) ==
    /\ require_non_zero_amount(amount)
    /\ require_future_timestamp(due_date)
    /\ require_valid_risk_score(score)

WithinCreditLimit(sme, amount) ==
    credit_limit[sme] > 0 => exposure[sme] + amount <= credit_limit[sme]

MutPastDue(id) == now >= invoices[id].due_date

PastDue(id) == now > invoices[id].due_date

\* The SME may change its invoice only before it is listed.
MutOwnedCreated(sme, id) == load_invoice(id) /\ invoices[id].sme = sme

OwnedCreated(sme, id) == HasStatus(id, "Created") /\ invoices[id].sme = sme

MutDefaultable(id) ==
    invoices[id].status \in {"Funded", "Defaulted"} /\ PastDue(id)

Defaultable(id) == HasStatus(id, "Funded") /\ PastDue(id)

-----------------------------------------------------------------------------
(* Entry points of the SME.                                                 *)

mint_invoice(sme, amount, currency, due_date, document, score) ==
    /\ require_not_paused
    /\ ValidTerms(amount, due_date, score)
    /\ WithinCreditLimit(sme, amount)
    /\ next_id <= MaxInvoices
    /\ invoices' = [invoices EXCEPT ![next_id] =
         [NoInvoice EXCEPT !.status = "Created", !.sme = sme,
            !.amount = amount, !.currency = currency, !.due_date = due_date,
            !.document = document, !.risk_tier = from_score(score),
            !.created_at = now]]
    /\ next_id' = next_id + 1
    /\ UNCHANGED <<exposure, frozen>>

MutAmendAnyStage(sme, id, amount, due_date, document, score) ==
    /\ require_not_paused
    /\ ValidTerms(amount, due_date, score)
    /\ load_invoice(id) /\ invoices[id].sme = sme
    /\ invoices' = [invoices EXCEPT ![id] =
         [@ EXCEPT !.amount = amount, !.due_date = due_date,
            !.document = document, !.risk_tier = from_score(score)]]
    /\ UNCHANGED <<next_id, exposure, frozen>>

\* Only a Created invoice may be amended; the credit limit is not consulted
\* and a committed metadata hash is kept.
amend_invoice(sme, id, amount, due_date, document, score) ==
    /\ require_not_paused
    /\ ValidTerms(amount, due_date, score)
    /\ OwnedCreated(sme, id)
    /\ invoices' = [invoices EXCEPT ![id] =
         [@ EXCEPT !.amount = amount, !.due_date = due_date,
            !.document = document, !.risk_tier = from_score(score)]]
    /\ UNCHANGED <<next_id, exposure, frozen>>

ReleaseExposure(id) ==
    exposure' = [exposure EXCEPT ![invoices[id].sme] = @ - invoices[id].amount]

withdraw_invoice(sme, id) ==
    /\ require_not_paused
    /\ OwnedCreated(sme, id)
    /\ invoices' = [invoices EXCEPT ![id] = NoInvoice]
    /\ ReleaseExposure(id)
    /\ UNCHANGED <<next_id, frozen>>

commit_metadata_hash(sme, id, hash) ==
    /\ require_not_paused
    /\ OwnedCreated(sme, id)
    /\ invoices[id].metadata_hash = None
    /\ invoices' = [invoices EXCEPT ![id].metadata_hash = hash]
    /\ UNCHANGED <<next_id, exposure, frozen>>

-----------------------------------------------------------------------------
(* Status transitions, called by the two other contracts and by the admin.  *)

require_authorized_caller(caller, allowed) == caller = allowed

set_listed(caller, id) ==
    /\ require_authorized_caller(caller, MarketplaceAddr)
    /\ require_not_paused
    /\ HasStatus(id, "Created")
    /\ invoices' = [invoices EXCEPT ![id].status = "Listed"]
    /\ UNCHANGED <<next_id, exposure, frozen>>

set_funded(caller, id) ==
    /\ require_authorized_caller(caller, PoolAddr)
    /\ require_not_paused
    /\ HasStatus(id, "Listed")
    /\ invoices' = [invoices EXCEPT ![id] =
         [@ EXCEPT !.status = "Funded", !.funded_at = now]]
    /\ UNCHANGED <<next_id, exposure, frozen>>

set_repaid(caller, id) ==
    /\ require_authorized_caller(caller, PoolAddr)
    /\ require_not_paused
    /\ HasStatus(id, "Funded")
    /\ invoices' = [invoices EXCEPT ![id] =
         [@ EXCEPT !.status = "Repaid", !.repaid_at = now]]
    /\ ReleaseExposure(id)
    /\ UNCHANGED <<next_id, frozen>>

\* Called by the admin, directly or through the pool's mark_default.
set_defaulted(id) ==
    /\ Defaultable(id)
    /\ invoices' = [invoices EXCEPT ![id].status = "Defaulted"]
    /\ ReleaseExposure(id)
    /\ UNCHANGED <<next_id, frozen>>

freeze_invoice(id) ==
    /\ load_invoice(id)
    /\ frozen' = [frozen EXCEPT ![id] = TRUE]
    /\ UNCHANGED <<invoices, next_id, exposure>>

unfreeze_invoice(id) ==
    /\ load_invoice(id)
    /\ frozen' = [frozen EXCEPT ![id] = FALSE]
    /\ UNCHANGED <<invoices, next_id, exposure>>

-----------------------------------------------------------------------------
(* The entry points no other contract of the protocol is part of.           *)

SmeNext ==
    \E sme \in SMEs :
        \/ \E amount \in Amounts, currency \in Currencies, due_date \in DueDates,
              document \in Documents, score \in Scores :
              mint_invoice(sme, amount, currency, due_date, document, score)
        \/ \E id \in Ids, amount \in Amounts, due_date \in DueDates,
              document \in Documents, score \in Scores :
              amend_invoice(sme, id, amount, due_date, document, score)
        \/ \E id \in Ids : withdraw_invoice(sme, id)
        \/ \E id \in Ids, hash \in Documents : commit_metadata_hash(sme, id, hash)

NftAdminNext ==
    \E id \in Ids :
        \/ set_defaulted(id)
        \/ freeze_invoice(id)
        \/ unfreeze_invoice(id)

\* The contract on its own: any address may call the guarded transitions.
NftNext ==
    \/ /\ \/ SmeNext
          \/ NftAdminNext
          \/ \E caller \in Callers, id \in Ids :
                \/ set_listed(caller, id)
                \/ set_funded(caller, id)
                \/ set_repaid(caller, id)
       /\ UNCHANGED envVars
    \/ Environment /\ UNCHANGED nftVars

NftSpec == EnvInit /\ NftInit /\ [][NftNext]_<<envVars, nftVars>>

-----------------------------------------------------------------------------
(* Properties.                                                              *)

\* The storage of the NFT contract is well formed in every state.
NftTypeOK ==
    /\ EnvTypeOK
    /\ invoices \in [Ids -> Invoice]
    /\ next_id \in Nat \ {0}
    /\ exposure \in [SMEs -> Int]
    /\ frozen \in [Ids -> BOOLEAN]

\* mint_invoice, set_funded, set_repaid and set_defaulted together keep an
\* invoice's status and its timestamps in step: an id at or past NextId has no
\* record, a record was created no later than it was funded and funded no later
\* than it was repaid, and a defaulted invoice is past its due date.
TimelineOf(id) ==
    LET inv == invoices[id]
    IN  /\ id >= next_id => inv = NoInvoice
        /\ inv.status # "Absent" =>
             /\ inv.amount > 0
             /\ inv.sme \in SMEs /\ inv.currency \in Currencies
             /\ inv.created_at \in 0..now
             /\ inv.created_at < inv.due_date
        /\ inv.status \in {"Funded", "Repaid", "Defaulted"} =>
             inv.funded_at \in inv.created_at..now
        /\ inv.status \notin {"Funded", "Repaid", "Defaulted"} =>
             inv.funded_at = NoTime
        /\ inv.status = "Repaid" => inv.repaid_at \in inv.funded_at..now
        /\ inv.status # "Repaid" => inv.repaid_at = NoTime
        /\ inv.status = "Defaulted" => now > inv.due_date

\* TimelineOf for every invoice, whoever calls the status transitions.
Timeline == \A id \in Ids : TimelineOf(id)

Terms(inv) ==
    <<inv.sme, inv.amount, inv.currency, inv.due_date, inv.document,
      inv.metadata_hash, inv.risk_tier, inv.created_at>>

\* Once list_invoice has listed an invoice, no later call of amend_invoice,
\* commit_metadata_hash or withdraw_invoice changes the terms investors saw.
TermsFixedOnceListed ==
    [][\A id \in Ids : invoices[id].status \notin {"Absent", "Created"} =>
          Terms(invoices[id])' = Terms(invoices[id])]_invoices
=============================================================================
