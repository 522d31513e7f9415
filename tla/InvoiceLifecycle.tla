-------------------------- MODULE InvoiceLifecycle --------------------------
(***************************************************************************)
(* What the protocol promises about one invoice, whoever calls what and in *)
(* which order: it moves forward through its stages and never back, its    *)
(* face value is settled once it is listed, an id is never used again, and *)
(* its investors are paid out at most once, in the step that ends it.      *)
(***************************************************************************)
EXTENDS Integers

CONSTANT Ids

VARIABLES
    stage,          \* where the invoice is
    face_value,     \* what its debtor owes
    distributions   \* how often its investors were paid out

vars == <<stage, face_value, distributions>>

Stage == {"Unminted", "Created", "Withdrawn", "Listed", "Funded", "Repaid", "Defaulted"}

Init ==
    /\ stage = [id \in Ids |-> "Unminted"]
    /\ face_value = [id \in Ids |-> 0]
    /\ distributions = [id \in Ids |-> 0]

Move(id, from, to) ==
    /\ stage[id] = from
    /\ stage' = [stage EXCEPT ![id] = to]

\* Any positive face value for id, and no other invoice's.
ChooseFace(id) ==
    /\ face_value'[id] \in Nat \ {0}
    /\ face_value' = [face_value EXCEPT ![id] = face_value'[id]]

Mint(id) ==
    /\ Move(id, "Unminted", "Created")
    /\ ChooseFace(id)
    /\ UNCHANGED distributions

Amend(id) ==
    /\ stage[id] = "Created"
    /\ ChooseFace(id)
    /\ UNCHANGED <<stage, distributions>>

Withdraw(id) ==
    /\ Move(id, "Created", "Withdrawn")
    /\ face_value' = [face_value EXCEPT ![id] = 0]
    /\ UNCHANGED distributions

List(id) ==
    /\ Move(id, "Created", "Listed")
    /\ UNCHANGED <<face_value, distributions>>

Fund(id) ==
    /\ Move(id, "Listed", "Funded")
    /\ UNCHANGED <<face_value, distributions>>

PayOut(id) ==
    /\ distributions[id] = 0
    /\ distributions' = [distributions EXCEPT ![id] = 1]

Repay(id) ==
    /\ Move(id, "Funded", "Repaid")
    /\ PayOut(id)
    /\ UNCHANGED face_value

\* A default pays out what was recovered, if anything was.
Default(id) ==
    /\ Move(id, "Funded", "Defaulted")
    /\ PayOut(id) \/ UNCHANGED distributions
    /\ UNCHANGED face_value

Next ==
    \E id \in Ids :
        \/ Mint(id)
        \/ Amend(id)
        \/ Withdraw(id)
        \/ List(id)
        \/ Fund(id)
        \/ Repay(id)
        \/ Default(id)

Spec == Init /\ [][Next]_vars
=============================================================================
