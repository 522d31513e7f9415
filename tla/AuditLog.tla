------------------------------ MODULE AuditLog ------------------------------
(***************************************************************************)
(* The on-chain audit log that the treasury, the access-control contract   *)
(* and the risk registry each keep: a ring buffer of the most recent admin *)
(* actions and a paged view of it, newest first.  The three copies in the  *)
(* code are the same; this module models the one kept by the contract that *)
(* extends it.                                                             *)
(***************************************************************************)
EXTENDS KoraShared, Sequences, FiniteSetsExt

CONSTANTS
    MAX_AUDIT_LOG_SIZE,  \* slots of the ring buffer (500 in the code)
    MaxPageSize,         \* the largest page (50 in the code)
    MaxAudited           \* bound: how many admin actions are ever recorded

ASSUME AuditAssumption ==
    /\ MAX_AUDIT_LOG_SIZE \in Nat \ {0}
    /\ MaxPageSize \in Nat \ {0}
    /\ MaxAudited \in Nat

VARIABLES
    audit_head,   \* AuditLogHead: the slot written next
    audit_total,  \* AuditLogTotal: how many entries were ever written
    audit_entry   \* AuditEntry(n)

auditVars == <<audit_head, audit_total, audit_entry>>

Slots == 0..(MAX_AUDIT_LOG_SIZE - 1)

\* A slot nothing was written to yet.  An entry's actor and action are payload
\* that no property tells apart and are left out.
NoEntry == [sequence |-> -1, timestamp |-> 0]

AuditInit ==
    /\ now = 0
    /\ audit_head = 0
    /\ audit_total = 0
    /\ audit_entry = [n \in Slots |-> NoEntry]

MutNextHead(head) == IF head >= MAX_AUDIT_LOG_SIZE - 2 THEN 0 ELSE head + 1

NextHead(head) == (head + 1) % MAX_AUDIT_LOG_SIZE

append_audit_entry ==
    /\ audit_total < MaxAudited
    /\ audit_entry' = [audit_entry EXCEPT ![audit_head] =
         [sequence |-> audit_total, timestamp |-> now]]
    /\ audit_head' = NextHead(audit_head)
    /\ audit_total' = audit_total + 1

Stored == Min({audit_total, MAX_AUDIT_LOG_SIZE})

\* The slot that holds the entry written `offset` actions ago.
PositionOf(offset) ==
    (audit_head + MAX_AUDIT_LOG_SIZE - 1 - offset) % MAX_AUDIT_LOG_SIZE

ClampedSize(page_size) == Min({Max({page_size, 1}), MaxPageSize})

get_audit_log(page, page_size) ==
    LET size == ClampedSize(page_size)
        skip == page * size
        count == Max({0, Min({size, Stored - skip})})
    IN  [i \in 1..count |-> audit_entry[PositionOf(skip + i - 1)]]

\* A call that only reads, such as get_audit_log.
View(v) == UNCHANGED v

-----------------------------------------------------------------------------
(* Properties.                                                              *)

\* Before and after the ring wraps, the slots get_audit_log walks hold the most
\* recent actions without a gap: the entry `offset` actions back has the
\* sequence number that many below the newest, and is no younger than it.
RingHoldsNewest ==
    /\ audit_head = audit_total % MAX_AUDIT_LOG_SIZE
    /\ \A offset \in 0..(Stored - 1) :
          /\ audit_entry[PositionOf(offset)].sequence = audit_total - 1 - offset
          /\ audit_entry[PositionOf(offset)].timestamp
               <= audit_entry[PositionOf(0)].timestamp

Pages(page_size) ==
    {<<page, i>> : page \in 0..MAX_AUDIT_LOG_SIZE, i \in 1..ClampedSize(page_size)}

\* Reading page after page at any page size, get_audit_log yields every stored
\* entry exactly once, newest first; pages past the end are empty.
PagesCoverLog ==
    \A page_size \in 0..(MaxPageSize + 1) :
        \A p \in Pages(page_size) :
            LET log == get_audit_log(p[1], page_size)
                offset == p[1] * ClampedSize(page_size) + p[2] - 1
            IN  /\ offset < Stored <=> p[2] \in DOMAIN log
                /\ offset < Stored => log[p[2]].sequence = audit_total - 1 - offset
=============================================================================
