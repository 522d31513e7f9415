-------------------------- MODULE InvoiceNftProofs --------------------------
(***************************************************************************)
(* Proofs about the NFT contract: its storage stays well formed, statuses  *)
(* and timestamps stay in step, and the terms of a listed invoice never    *)
(* change.  Every operation has a lemma of its own, because the pool and   *)
(* the marketplace call the operations inside their own transactions.      *)
(***************************************************************************)
EXTENDS InvoiceNft, TLAPS

\* The inductive invariant: the two invariants the runs check are inductive
\* together (Timeline needs the types of the timestamps).
NftInv == NftTypeOK /\ Timeline

-----------------------------------------------------------------------------
(* Facts about the records the operations write.                            *)

\* from_score classifies every score.
LEMMA FromScoreType == \A score : from_score(score) \in RiskTier
  BY DEF from_score, RiskTier

\* The record that stands for an absent invoice is an invoice record.
LEMMA NoInvoiceType == NoInvoice \in Invoice
  BY DEF NoInvoice, Invoice, InvoiceStatus, RiskTier, Timestamp, NoTime

\* mint_invoice writes an invoice record.
LEMMA MintedType ==
  ASSUME NEW sme \in SMEs, NEW amount \in Nat, NEW currency \in Currencies,
         NEW due_date \in Nat, NEW document \in Documents, NEW score,
         NEW time \in Nat
  PROVE  [NoInvoice EXCEPT !.status = "Created", !.sme = sme,
            !.amount = amount, !.currency = currency, !.due_date = due_date,
            !.document = document, !.risk_tier = from_score(score),
            !.created_at = time] \in Invoice
  BY FromScoreType DEF NoInvoice, Invoice, InvoiceStatus, Timestamp, NoTime

\* amend_invoice writes an invoice record.
LEMMA AmendedType ==
  ASSUME NEW inv \in Invoice, NEW amount \in Nat, NEW due_date \in Nat,
         NEW document \in Documents, NEW score
  PROVE  [inv EXCEPT !.amount = amount, !.due_date = due_date,
            !.document = document, !.risk_tier = from_score(score)] \in Invoice
  BY FromScoreType DEF Invoice

\* The status setters write invoice records.
LEMMA StatusType ==
  ASSUME NEW inv \in Invoice, NEW time \in Nat, NEW status \in InvoiceStatus
  PROVE  /\ [inv EXCEPT !.status = status] \in Invoice
         /\ [inv EXCEPT !.status = status, !.funded_at = time] \in Invoice
         /\ [inv EXCEPT !.status = status, !.repaid_at = time] \in Invoice
  BY DEF Invoice, Timestamp

-----------------------------------------------------------------------------
(* The initial state and the operations, one lemma each.                    *)

\* initialize establishes the invariant.
LEMMA NftInitInv == EnvInit /\ NftInit => NftInv
  <1> SUFFICES ASSUME EnvInit, NftInit PROVE NftInv
    OBVIOUS
  <1>1. now \in Nat /\ credit_limit \in [SMEs -> Nat]
    BY DEF EnvInit
  <1>2. paused \in BOOLEAN
    BY DEF EnvInit
  <1>3. invoices \in [Ids -> Invoice]
    BY NoInvoiceType DEF NftInit
  <1>4. next_id \in Nat \ {0} /\ exposure \in [SMEs -> Int]
    BY DEF NftInit
  <1>5. frozen \in [Ids -> BOOLEAN]
    BY DEF NftInit
  <1>6. prices \in [Foreign -> PriceData]
    BY DEF EnvInit, OracleInit, NoPrice, PriceData, Timestamp
  <1>7. Timeline
    BY DEF Timeline, TimelineOf, NftInit, NoInvoice, NoTime, Ids
  <1> QED  BY <1>1, <1>2, <1>3, <1>4, <1>5, <1>6, <1>7 DEF NftInv, NftTypeOK, EnvTypeOK

\* set_price stores a price that is well formed.
LEMMA SetPriceType ==
  ASSUME EnvTypeOK, OracleNext
  PROVE  prices' \in [Foreign -> PriceData]
  <1> PICK base \in Foreign, price \in Prices : set_price(base, price)
    BY DEF OracleNext
  <1>1. [price |-> price, timestamp |-> now] \in PriceData
    BY OracleAssumption DEF EnvTypeOK, set_price, PriceData, Timestamp
  <1> QED  BY <1>1 DEF EnvTypeOK, set_price

\* The clock, the pause flag, the credit limits and the prices move without
\* disturbing it.
LEMMA EnvironmentInv ==
  ASSUME NftInv, Environment, UNCHANGED nftVars
  PROVE  NftInv'
  <1> USE DEF NftInv, NftTypeOK, EnvTypeOK, nftVars, Environment
  <1>1. now' \in Nat /\ now' >= now
    BY DEF Tick, Advance, pause, unpause, set_credit_limit, OracleNext
  <1>2. credit_limit' \in [SMEs -> Nat]
    BY EnvAssumption DEF Tick, pause, unpause, set_credit_limit, OracleNext
  <1>3. paused' \in BOOLEAN
    BY DEF Tick, pause, unpause, set_credit_limit, OracleNext
  <1>4. prices' \in [Foreign -> PriceData]
    BY SetPriceType DEF Tick, pause, unpause, set_credit_limit
  <1>5. Timeline'
    <2> SUFFICES ASSUME NEW id \in Ids PROVE TimelineOf(id)'
      BY DEF Timeline
    <2>1. invoices[id] \in Invoice /\ TimelineOf(id)
      BY DEF Timeline
    <2> QED  BY <1>1, <2>1 DEF TimelineOf, Invoice, Timestamp, NoTime, Ids
  <1> QED  BY <1>1, <1>2, <1>3, <1>4, <1>5

\* mint_invoice: the new id is NextId, and the due date lies ahead.
LEMMA MintInv ==
  ASSUME NftInv, UNCHANGED envVars,
         NEW sme \in SMEs, NEW amount \in Amounts, NEW currency \in Currencies,
         NEW due_date \in DueDates, NEW document \in Documents, NEW score \in Scores,
         mint_invoice(sme, amount, currency, due_date, document, score)
  PROVE  NftInv'
  <1> USE NftAssumption DEF NftInv, NftTypeOK, EnvTypeOK, envVars, mint_invoice
  <1> DEFINE minted == [NoInvoice EXCEPT !.status = "Created", !.sme = sme,
                          !.amount = amount, !.currency = currency, !.due_date = due_date,
                          !.document = document, !.risk_tier = from_score(score),
                          !.created_at = now]
  <1>1. amount \in Nat /\ due_date \in Nat /\ now \in Nat
    BY DEF ValidTerms, require_non_zero_amount, require_future_timestamp
  <1>2. minted \in Invoice
    BY <1>1, MintedType
  <1>3. NftTypeOK'
    BY <1>2 DEF Ids
  <1>4. Timeline'
    BY DEF Timeline, TimelineOf, ValidTerms, require_non_zero_amount,
           require_future_timestamp, NoInvoice, Timestamp, NoTime, Ids
  <1> QED  BY <1>3, <1>4

\* amend_invoice: the new due date lies ahead of the time of creation.
LEMMA AmendInv ==
  ASSUME NftInv, UNCHANGED envVars,
         NEW sme \in SMEs, NEW id \in Ids, NEW amount \in Amounts,
         NEW due_date \in DueDates, NEW document \in Documents, NEW score \in Scores,
         amend_invoice(sme, id, amount, due_date, document, score)
  PROVE  NftInv'
  <1> USE NftAssumption DEF NftInv, NftTypeOK, EnvTypeOK, envVars, amend_invoice, HasStatus, OwnedCreated
  <1> DEFINE amended == [invoices[id] EXCEPT !.amount = amount, !.due_date = due_date,
                           !.document = document, !.risk_tier = from_score(score)]
  <1>1. amount \in Nat /\ due_date \in Nat /\ amount > 0 /\ due_date > now
    BY DEF ValidTerms, require_non_zero_amount, require_future_timestamp
  <1>2. amended \in Invoice
    BY <1>1, AmendedType
  <1>3. NftTypeOK'
    BY <1>2
  <1>4. Timeline'
    <2> SUFFICES ASSUME NEW i \in Ids PROVE TimelineOf(i)'
      BY DEF Timeline
    <2>1. TimelineOf(i) /\ invoices[i] \in Invoice
      BY DEF Timeline
    <2>2. CASE i = id
      <3>1. invoices'[i] = amended
        BY <2>2
      <3>2. i < next_id
        BY <2>1, <2>2 DEF TimelineOf, NoInvoice, Ids
      <3> QED
        BY <1>1, <2>1, <2>2, <3>1, <3>2 DEF TimelineOf, Invoice, Timestamp, NoTime, Ids
    <2>3. CASE i # id
      BY <2>1, <2>3 DEF TimelineOf
    <2> QED  BY <2>2, <2>3
  <1> QED  BY <1>3, <1>4

\* A removal keeps the counters well typed.
LEMMA ReleaseExposureType ==
  ASSUME NftTypeOK, NEW id \in Ids, ReleaseExposure(id)
  PROVE  exposure' \in [SMEs -> Int]
  <1>1. invoices[id].amount \in Int
    BY DEF NftTypeOK, Invoice
  <1>2. exposure \in [SMEs -> Int]
    BY DEF NftTypeOK
  <1>3. SUFFICES ASSUME NEW s \in SMEs PROVE exposure'[s] \in Int
    BY <1>2 DEF ReleaseExposure
  <1>4. exposure'[s] \in {exposure[s], exposure[s] - invoices[id].amount}
    BY <1>2 DEF ReleaseExposure
  <1> QED  BY <1>1, <1>2, <1>4

\* withdraw_invoice removes the record; the id is never used again.
LEMMA WithdrawInv ==
  ASSUME NftInv, UNCHANGED envVars,
         NEW sme \in SMEs, NEW id \in Ids, withdraw_invoice(sme, id)
  PROVE  NftInv'
  <1> USE DEF NftInv, NftTypeOK, EnvTypeOK, envVars, withdraw_invoice
  <1>1. NftTypeOK'
    BY NoInvoiceType, ReleaseExposureType
  <1>2. Timeline'
    BY DEF Timeline, TimelineOf, NoInvoice, NoTime, Ids
  <1> QED  BY <1>1, <1>2

\* commit_metadata_hash touches neither the status nor a timestamp.
LEMMA CommitInv ==
  ASSUME NftInv, UNCHANGED envVars,
         NEW sme \in SMEs, NEW id \in Ids, NEW hash \in Documents,
         commit_metadata_hash(sme, id, hash)
  PROVE  NftInv'
  <1> USE DEF NftInv, NftTypeOK, EnvTypeOK, envVars, commit_metadata_hash, HasStatus, OwnedCreated
  <1>1. [invoices[id] EXCEPT !.metadata_hash = hash] \in Invoice
    BY DEF Invoice
  <1>2. NftTypeOK'
    BY <1>1
  <1>3. Timeline'
    BY DEF Timeline, TimelineOf, NoInvoice, Invoice, Ids
  <1> QED  BY <1>2, <1>3

\* set_listed, set_funded and set_repaid move the status one step and stamp it.
LEMMA SetListedInv ==
  ASSUME NftInv, UNCHANGED envVars, NEW caller, NEW id \in Ids,
         set_listed(caller, id)
  PROVE  NftInv'
  <1> USE DEF NftInv, NftTypeOK, EnvTypeOK, envVars, set_listed, HasStatus
  <1>1. [invoices[id] EXCEPT !.status = "Listed"] \in Invoice
    BY StatusType DEF InvoiceStatus
  <1>2. NftTypeOK'
    BY <1>1
  <1>3. Timeline'
    BY DEF Timeline, TimelineOf, NoInvoice, Invoice, Ids
  <1> QED  BY <1>2, <1>3

\* set_funded stamps a Listed invoice with a time no earlier than its creation.
LEMMA SetFundedInv ==
  ASSUME NftInv, UNCHANGED envVars, NEW caller, NEW id \in Ids,
         set_funded(caller, id)
  PROVE  NftInv'
  <1> USE DEF NftInv, NftTypeOK, EnvTypeOK, envVars, set_funded, HasStatus
  <1>1. [invoices[id] EXCEPT !.status = "Funded", !.funded_at = now] \in Invoice
    BY StatusType DEF InvoiceStatus
  <1>2. NftTypeOK'
    BY <1>1
  <1>3. Timeline'
    BY DEF Timeline, TimelineOf, NoInvoice, Invoice, Timestamp, NoTime, Ids
  <1> QED  BY <1>2, <1>3

\* set_repaid stamps a Funded invoice with a time no earlier than its funding.
LEMMA SetRepaidInv ==
  ASSUME NftInv, UNCHANGED envVars, NEW caller, NEW id \in Ids,
         set_repaid(caller, id)
  PROVE  NftInv'
  <1> USE DEF NftInv, NftTypeOK, EnvTypeOK, envVars, set_repaid, HasStatus
  <1>1. [invoices[id] EXCEPT !.status = "Repaid", !.repaid_at = now] \in Invoice
    BY StatusType DEF InvoiceStatus
  <1>2. NftTypeOK'
    BY <1>1, ReleaseExposureType
  <1>3. Timeline'
    BY DEF Timeline, TimelineOf, NoInvoice, Invoice, Timestamp, NoTime, Ids
  <1> QED  BY <1>2, <1>3

\* set_defaulted is only enabled past the due date.
LEMMA SetDefaultedInv ==
  ASSUME NftInv, UNCHANGED envVars, NEW id \in Ids, set_defaulted(id)
  PROVE  NftInv'
  <1> USE DEF NftInv, NftTypeOK, EnvTypeOK, envVars, set_defaulted, HasStatus, Defaultable
  <1>1. [invoices[id] EXCEPT !.status = "Defaulted"] \in Invoice
    BY StatusType DEF InvoiceStatus
  <1>2. NftTypeOK'
    BY <1>1, ReleaseExposureType
  <1>3. Timeline'
    BY DEF Timeline, TimelineOf, NoInvoice, Invoice, PastDue, Ids
  <1> QED  BY <1>2, <1>3

\* The freeze flag is separate storage.
LEMMA FreezeInv ==
  ASSUME NftInv, UNCHANGED envVars, NEW id \in Ids,
         freeze_invoice(id) \/ unfreeze_invoice(id)
  PROVE  NftInv'
  <1>1. frozen' \in [Ids -> BOOLEAN]
    BY DEF NftInv, NftTypeOK, EnvTypeOK, freeze_invoice, unfreeze_invoice
  <1>2. UNCHANGED <<invoices, next_id, exposure>>
    BY DEF freeze_invoice, unfreeze_invoice
  <1> QED
    BY <1>1, <1>2 DEF NftInv, NftTypeOK, EnvTypeOK, Timeline, TimelineOf, envVars

-----------------------------------------------------------------------------
(* The steps that no other contract takes part in, and the specification.   *)

\* The SME's own entry points preserve the invariant.
LEMMA SmeNextInv ==
  ASSUME NftInv, SmeNext, UNCHANGED envVars
  PROVE  NftInv'
  <1> PICK sme \in SMEs :
        \/ \E amount \in Amounts, currency \in Currencies, due_date \in DueDates,
              document \in Documents, score \in Scores :
              mint_invoice(sme, amount, currency, due_date, document, score)
        \/ \E id \in Ids, amount \in Amounts, due_date \in DueDates,
              document \in Documents, score \in Scores :
              amend_invoice(sme, id, amount, due_date, document, score)
        \/ \E id \in Ids : withdraw_invoice(sme, id)
        \/ \E id \in Ids, hash \in Documents : commit_metadata_hash(sme, id, hash)
    BY DEF SmeNext
  <1> QED  BY MintInv, AmendInv, WithdrawInv, CommitInv

\* The admin's own entry points preserve the invariant.
LEMMA NftAdminNextInv ==
  ASSUME NftInv, NftAdminNext, UNCHANGED envVars
  PROVE  NftInv'
  BY SetDefaultedInv, FreezeInv DEF NftAdminNext

\* Every step of the contract preserves the invariant.
LEMMA NftNextInv ==
  ASSUME NftInv, [NftNext]_<<envVars, nftVars>>
  PROVE  NftInv'
  <1>1. CASE SmeNext /\ UNCHANGED envVars
    BY <1>1, SmeNextInv
  <1>2. CASE NftAdminNext /\ UNCHANGED envVars
    BY <1>2, NftAdminNextInv
  <1>3. ASSUME NEW caller \in Callers, NEW id \in Ids, UNCHANGED envVars,
               set_listed(caller, id) \/ set_funded(caller, id) \/ set_repaid(caller, id)
        PROVE  NftInv'
    BY <1>3, SetListedInv, SetFundedInv, SetRepaidInv
  <1>4. CASE Environment /\ UNCHANGED nftVars
    BY <1>4, EnvironmentInv
  <1>5. CASE UNCHANGED <<envVars, nftVars>>
    BY <1>5 DEF NftInv, NftTypeOK, EnvTypeOK, Timeline, TimelineOf, envVars, nftVars
  <1> QED  BY <1>1, <1>2, <1>3, <1>4, <1>5 DEF NftNext

\* The storage of the NFT contract is well formed in every reachable state,
\* for any number of SMEs, invoices, documents and amounts.
THEOREM NftTypeCorrect == NftSpec => []NftTypeOK
  <1>1. NftInv /\ [NftNext]_<<envVars, nftVars>> => NftInv'
    BY NftNextInv
  <1>2. NftInv => NftTypeOK
    BY DEF NftInv
  <1> QED  BY NftInitInv, <1>1, <1>2, PTL DEF NftSpec

\* Statuses and timestamps stay in step: mint_invoice, set_funded, set_repaid
\* and set_defaulted never leave an invoice whose history is out of order.
THEOREM NftTimeline == NftSpec => []Timeline
  <1>1. NftInv /\ [NftNext]_<<envVars, nftVars>> => NftInv'
    BY NftNextInv
  <1>2. NftInv => Timeline
    BY DEF NftInv
  <1> QED  BY NftInitInv, <1>1, <1>2, PTL DEF NftSpec

-----------------------------------------------------------------------------
(* The terms of a listed invoice.                                           *)

\* No entry point of the SME or the admin changes the terms of a listed invoice.
TermsKept ==
    \A id \in Ids : invoices[id].status \notin {"Absent", "Created"} =>
        Terms(invoices[id])' = Terms(invoices[id])

\* mint_invoice writes at NextId only, where no record is.
LEMMA OwnNextKeepsTerms ==
  ASSUME NftInv, SmeNext \/ NftAdminNext
  PROVE  TermsKept
  <1> SUFFICES ASSUME NEW i \in Ids, invoices[i].status \notin {"Absent", "Created"}
               PROVE  Terms(invoices[i])' = Terms(invoices[i])
    BY DEF TermsKept
  <1>1. invoices \in [Ids -> Invoice] /\ next_id \in Nat
    BY DEF NftInv, NftTypeOK, EnvTypeOK
  <1>2. i # next_id
    BY <1>1 DEF NftInv, Timeline, TimelineOf, NoInvoice, Ids
  <1>3. CASE SmeNext
    <2>1. invoices'[i] = invoices[i]
      BY <1>1, <1>2, <1>3 DEF SmeNext, mint_invoice, amend_invoice,
         withdraw_invoice, commit_metadata_hash, HasStatus, OwnedCreated
    <2> QED  BY <2>1 DEF Terms
  <1>4. CASE NftAdminNext
    BY <1>1, <1>4 DEF NftAdminNext, set_defaulted, freeze_invoice,
       unfreeze_invoice, Terms, Invoice
  <1> QED  BY <1>3, <1>4

\* The status setters write the status and a timestamp of a later stage.
LEMMA SettersKeepTerms ==
  ASSUME NftInv, NEW caller, NEW id \in Ids,
         set_listed(caller, id) \/ set_funded(caller, id) \/ set_repaid(caller, id)
  PROVE  TermsKept
  <1> SUFFICES ASSUME NEW i \in Ids, invoices[i].status \notin {"Absent", "Created"}
               PROVE  Terms(invoices[i])' = Terms(invoices[i])
    BY DEF TermsKept
  <1>1. invoices \in [Ids -> Invoice]
    BY DEF NftInv, NftTypeOK, EnvTypeOK
  <1>2. CASE set_listed(caller, id)
    BY <1>1, <1>2 DEF set_listed, HasStatus, Terms, Invoice
  <1>3. CASE set_funded(caller, id)
    BY <1>1, <1>3 DEF set_funded, Terms, Invoice
  <1>4. CASE set_repaid(caller, id)
    BY <1>1, <1>4 DEF set_repaid, Terms, Invoice
  <1> QED  BY <1>2, <1>3, <1>4

\* The terms an investor saw when an invoice was listed are the terms that are
\* repaid: no sequence of calls changes them afterwards.
THEOREM NftTermsFixed == NftSpec => TermsFixedOnceListed
  <1>1. NftInv /\ [NftNext]_<<envVars, nftVars>> => NftInv'
    BY NftNextInv
  <1>2. NftInv /\ [NftNext]_<<envVars, nftVars>> => [TermsKept]_invoices
    <2> SUFFICES ASSUME NftInv, NftNext, invoices' # invoices PROVE TermsKept
      BY DEF nftVars
    <2>1. CASE SmeNext \/ NftAdminNext
      BY <2>1, OwnNextKeepsTerms
    <2>2. CASE \E caller \in Callers, id \in Ids :
                 set_listed(caller, id) \/ set_funded(caller, id) \/ set_repaid(caller, id)
      BY <2>2, SettersKeepTerms
    <2> QED  BY <2>1, <2>2 DEF NftNext, nftVars
  <1>3. NftSpec => [][TermsKept]_invoices
    BY NftInitInv, <1>1, <1>2, PTL DEF NftSpec
  <1> QED  BY <1>3, PTL DEF TermsFixedOnceListed, TermsKept
=============================================================================
