------------------------- MODULE MCCoreMaintenance -------------------------
(* The core contracts across an upgrade, on a small instance.               *)
EXTENDS CoreMaintenance, FiniteSets

\* A face value mint_invoice and amend_invoice refuse, and one they take.
MCAmounts == {-1, 5}

\* Bound: the switches that only block calls stay off, the currency allowlist,
\* which no call reads, is used before the first mint only, and the timelocks,
\* which do not read each other, are used one contract at a time.
Calm ==
    /\ ~paused
    /\ \A id \in Ids : ~frozen[id]
    /\ next_id > 1 => \A c \in Currencies : ~allowed[c]
    /\ Cardinality({c \in Upgradable :
          upgrade_proposal[c] # NoProposal \/ upgrades[c] > 0}) <= 1
=============================================================================
