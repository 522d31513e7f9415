-------------------------- MODULE MCFinancingPool --------------------------
(* The pool and the NFT contract on small instances.                        *)
EXTENDS FinancingPool, TLC

MCDecimals == [t \in Tokens |-> STANDARD_DECIMALS]

\* Bound of the run with two invoices: the switches that only block calls, and
\* the hash and sale offers that move no money, stay off; invoices are not
\* withdrawn, their pools are opened in the order of their ids, and only the first
\* invoice is offered for settlement.
Calm ==
    /\ ~paused
    /\ \A id \in Ids :
          /\ ~frozen[id]
          /\ invoices[id].metadata_hash = None
          /\ \A i \in Investors : ~for_sale[id][i]
          /\ id < next_id => load_invoice(id)
          /\ id > 1 /\ pools[id].exists => pools[id - 1].exists
          /\ id > 1 => ~HasSettlement(id)

TokenSymmetry == Permutations(Tokens)
=============================================================================
