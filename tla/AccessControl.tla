--------------------------- MODULE AccessControl ---------------------------
(***************************************************************************)
(* The access-control contract: the admin and the roles, the protocol's    *)
(* pause flag, the N-of-M multisig that proposes, approves and executes    *)
(* admin actions, and the governance of protocol parameters by the same    *)
(* signers under a timelock.                                               *)
(***************************************************************************)
EXTENDS AuditLog, Timelock, FiniteSets

CONSTANTS
    Addresses,             \* accounts
    Deployer,              \* the account the contract is initialized with
    SignerLists,           \* signer lists the admin may configure; they may repeat
    ActionKinds,           \* kinds of action a signer may propose
    ParameterKeys,         \* parameters a signer may propose to change
    ParameterValues,       \* values a signer may propose
    PROPOSAL_TTL_LEDGERS,  \* 120_960 in the code, added to a timestamp
    MaxProposals           \* bound: proposals of each of the two sorts

ASSUME AccessAssumption ==
    /\ "access_control" \in Upgradable
    /\ Deployer \in Addresses
    /\ SignerLists \subseteq Seq(Addresses)
    /\ ActionKinds \subseteq {"Pause", "Unpause", "GrantRole", "RevokeRole", "TransferAdmin"}
    /\ ParameterKeys \subseteq {"FeeBps", "LatePenaltyBps", "MaxRiskScore"}
    /\ ParameterValues \subseteq Nat
    /\ PROPOSAL_TTL_LEDGERS \in Nat
    /\ MaxProposals \in Nat

Role == {"Admin", "Operator", "Verifier", "None"}
ProposalIds == 1..MaxProposals
NoValue == -1

\* A pause has no target and only a grant has a role value; the fields an
\* action does not have are given one value.
AdminAction ==
    {action \in [kind: ActionKinds, target: Addresses, role_val: {1, 2, 3}] :
        /\ action.kind \in {"Pause", "Unpause"} => action.target = Deployer
        /\ action.kind # "GrantRole" => action.role_val = 1}

VARIABLES
    admin,             \* Admin
    ac_paused,         \* Paused
    role,              \* Role(address); "None" when there is no entry
    multisig,          \* MultisigConfig; threshold 0 before it is configured
    next_proposal_id,  \* NextProposalId
    proposals,         \* Proposal(id)
    next_param_id,     \* NextParamProposalId
    param_proposals,   \* ParameterProposal(id)
    parameters         \* Parameter(key)

roleVars == <<admin, role>>
actionVars == <<next_proposal_id, proposals>>
paramVars == <<next_param_id, param_proposals, parameters>>
accessVars ==
    <<now, auditVars, upgradeVars, ac_paused, roleVars, multisig, actionVars, paramVars>>

NoMultisig == [threshold |-> 0, signers |-> <<>>]

\* What both sorts of proposal have in common.  voted_at (when the last approval
\* came in), quorum (the threshold an execution met) and executions are ghosts.
Ballot(approvals, at) ==
    [approvals |-> approvals, created_at |-> at, executed |-> FALSE,
     voted_at |-> at, quorum |-> 0, executions |-> 0]
NoAction == [exists |-> FALSE, subject |-> {}, ballot |-> Ballot(<<>>, 0)]

AccessInit ==
    /\ AuditInit
    /\ TimelockInit
    /\ admin = Deployer
    /\ ac_paused = FALSE
    /\ role = [a \in Addresses |-> IF a = Deployer THEN "Admin" ELSE "None"]
    /\ multisig = NoMultisig
    /\ next_proposal_id = 1
    /\ proposals = [id \in ProposalIds |-> NoAction]
    /\ next_param_id = 1
    /\ param_proposals = [id \in ProposalIds |-> NoAction]
    /\ parameters = [key \in ParameterKeys |-> NoValue]

-----------------------------------------------------------------------------
(* Direct calls of the admin.                                               *)

require_admin(caller) == caller = admin

pause(caller) ==
    /\ require_admin(caller)
    /\ ~ac_paused
    /\ ac_paused' = TRUE
    /\ append_audit_entry
    /\ UNCHANGED <<roleVars, multisig>>

unpause(caller) ==
    /\ require_admin(caller)
    /\ ac_paused
    /\ ac_paused' = FALSE
    /\ append_audit_entry
    /\ UNCHANGED <<roleVars, multisig>>

MutGrantsToSelf(caller, target, granted) ==
    /\ require_admin(caller)
    /\ granted \notin {"Admin", "None"}
    /\ role' = [role EXCEPT ![target] = granted]
    /\ append_audit_entry
    /\ UNCHANGED <<admin, ac_paused, multisig>>

grant_role(caller, target, granted) ==
    /\ require_admin(caller)
    /\ granted \notin {"Admin", "None"}
    /\ target # caller
    /\ role' = [role EXCEPT ![target] = granted]
    /\ append_audit_entry
    /\ UNCHANGED <<admin, ac_paused, multisig>>

revoke_role(caller, target) ==
    /\ require_admin(caller)
    /\ role[target] \notin {"Admin", "None"}
    /\ role' = [role EXCEPT ![target] = "None"]
    /\ append_audit_entry
    /\ UNCHANGED <<admin, ac_paused, multisig>>

transfer_admin(caller, new_admin) ==
    /\ require_admin(caller)
    /\ caller # new_admin
    /\ role[new_admin] \in {"None", "Admin"}
    /\ admin' = new_admin
    /\ role' = [role EXCEPT ![new_admin] = "Admin", ![caller] = "None"]
    /\ append_audit_entry
    /\ UNCHANGED <<ac_paused, multisig>>

MutThreshold(signers, threshold) == threshold <= Len(signers)

\* A repeated signer counts towards the length.
ValidThreshold(signers, threshold) == threshold # 0 /\ threshold <= Len(signers)

configure_multisig(caller, signers, threshold) ==
    /\ require_admin(caller)
    /\ ValidThreshold(signers, threshold)
    /\ multisig' = [threshold |-> threshold, signers |-> signers]
    /\ append_audit_entry
    /\ UNCHANGED <<roleVars, ac_paused>>

-----------------------------------------------------------------------------
(* Ballots of the signers.                                                  *)

Elements(seq) == {seq[i] : i \in DOMAIN seq}

require_signer(caller) ==
    /\ multisig # NoMultisig
    /\ caller \in Elements(multisig.signers)

\* A new proposal carries its proposer's approval.
Proposed(proposer, subject) ==
    [exists |-> TRUE, subject |-> {subject}, ballot |-> Ballot(<<proposer>>, now)]

Subject(proposal) == CHOOSE subject \in proposal.subject : TRUE

Expired(proposal) == now > proposal.ballot.created_at + PROPOSAL_TTL_LEDGERS

MutOpen(signer, proposal) == proposal.exists /\ ~proposal.ballot.executed

\* A signer approves once, and only what has not been executed.
OpenTo(signer, proposal) ==
    /\ proposal.exists
    /\ ~proposal.ballot.executed
    /\ signer \notin Elements(proposal.ballot.approvals)

Approved(signer, proposal) ==
    [proposal EXCEPT !.ballot = [proposal.ballot EXCEPT
        !.approvals = Append(proposal.ballot.approvals, signer), !.voted_at = now]]

MutQuorum(proposal) ==
    /\ proposal.exists
    /\ Len(proposal.ballot.approvals) >= multisig.threshold

\* The approvals count as they were given, also those of former signers.
Executable(proposal) ==
    /\ proposal.exists
    /\ ~proposal.ballot.executed
    /\ Len(proposal.ballot.approvals) >= multisig.threshold

Executed(proposal) ==
    [proposal EXCEPT !.ballot = [proposal.ballot EXCEPT
        !.executed = TRUE, !.quorum = multisig.threshold,
        !.executions = proposal.ballot.executions + 1]]

-----------------------------------------------------------------------------
(* Admin actions through the multisig.                                      *)

propose_action(proposer, action) ==
    /\ require_signer(proposer)
    /\ next_proposal_id <= MaxProposals
    /\ proposals' = [proposals EXCEPT ![next_proposal_id] = Proposed(proposer, action)]
    /\ next_proposal_id' = next_proposal_id + 1
    /\ UNCHANGED <<auditVars, ac_paused, roleVars>>

approve_action(approver, id) ==
    /\ require_signer(approver)
    /\ OpenTo(approver, proposals[id])
    /\ ~Expired(proposals[id])
    /\ proposals' = [proposals EXCEPT ![id] = Approved(approver, proposals[id])]
    /\ UNCHANGED <<next_proposal_id, auditVars, ac_paused, roleVars>>

\* What an executed action does: none of the checks of the direct calls.
Perform(action) ==
    CASE action.kind \in {"Pause", "Unpause"} ->
           /\ ac_paused' = (action.kind = "Pause")
           /\ UNCHANGED roleVars
      [] action.kind = "GrantRole" ->
           /\ action.role_val \in {1, 2}
           /\ role' = [role EXCEPT ![action.target] =
                IF action.role_val = 1 THEN "Operator" ELSE "Verifier"]
           /\ UNCHANGED <<admin, ac_paused>>
      [] action.kind = "RevokeRole" ->
           /\ role' = [role EXCEPT ![action.target] = "None"]
           /\ UNCHANGED <<admin, ac_paused>>
      [] action.kind = "TransferAdmin" ->
           /\ admin' = action.target
           /\ role' = [role EXCEPT ![action.target] = "Admin"]
           /\ UNCHANGED ac_paused

execute_action(executor, id) ==
    /\ require_signer(executor)
    /\ Executable(proposals[id])
    /\ ~Expired(proposals[id])
    /\ proposals' = [proposals EXCEPT ![id] = Executed(proposals[id])]
    /\ Perform(Subject(proposals[id]))
    /\ append_audit_entry
    /\ UNCHANGED next_proposal_id

-----------------------------------------------------------------------------
(* Parameters.  A proposal does not expire.                                 *)

MutAnyParameter(key, value) == value \in Nat

require_valid_parameter(key, value) ==
    value <= IF key = "MaxRiskScore" THEN 100 ELSE 10000

propose_parameter_change(proposer, key, value) ==
    /\ require_signer(proposer)
    /\ require_valid_parameter(key, value)
    /\ next_param_id <= MaxProposals
    /\ param_proposals' = [param_proposals EXCEPT ![next_param_id] =
         Proposed(proposer, [key |-> key, value |-> value])]
    /\ next_param_id' = next_param_id + 1
    /\ append_audit_entry
    /\ UNCHANGED parameters

vote_parameter_change(signer, id) ==
    /\ require_signer(signer)
    /\ OpenTo(signer, param_proposals[id])
    /\ param_proposals' = [param_proposals EXCEPT ![id] = Approved(signer, param_proposals[id])]
    /\ UNCHANGED <<next_param_id, parameters, auditVars>>

execute_parameter_change(caller, id) ==
    LET change == Subject(param_proposals[id])
    IN  /\ require_signer(caller)
        /\ Executable(param_proposals[id])
        /\ now >= param_proposals[id].ballot.created_at + UPGRADE_TIMELOCK_DELAY
        /\ param_proposals' = [param_proposals EXCEPT ![id] = Executed(param_proposals[id])]
        /\ parameters' = [parameters EXCEPT ![change.key] = change.value]
        /\ append_audit_entry
        /\ UNCHANGED next_param_id

-----------------------------------------------------------------------------
AdminNext ==
    \E caller \in Addresses :
        \/ pause(caller) \/ unpause(caller)
        \/ \E target \in Addresses :
              \/ \E granted \in Role : grant_role(caller, target, granted)
              \/ revoke_role(caller, target)
              \/ transfer_admin(caller, target)
        \/ \E signers \in SignerLists : \E threshold \in 0..(Len(signers) + 1) :
              configure_multisig(caller, signers, threshold)

ActionNext ==
    \E caller \in Addresses :
        \/ \E action \in AdminAction : propose_action(caller, action)
        \/ \E id \in ProposalIds : approve_action(caller, id) \/ execute_action(caller, id)

ParameterNext ==
    \E caller \in Addresses :
        \/ \E key \in ParameterKeys, value \in ParameterValues :
              propose_parameter_change(caller, key, value)
        \/ \E id \in ProposalIds :
              vote_parameter_change(caller, id) \/ execute_parameter_change(caller, id)

UpgradeNext ==
    \E caller \in Addresses :
        /\ require_admin(caller)
        /\ Upgrade("access_control")
        /\ append_audit_entry

AccessNext ==
    \/ AdminNext /\ UNCHANGED <<now, upgradeVars, actionVars, paramVars>>
    \/ ActionNext /\ UNCHANGED <<now, upgradeVars, multisig, paramVars>>
    \/ ParameterNext /\ UNCHANGED <<now, upgradeVars, ac_paused, roleVars, multisig, actionVars>>
    \/ UpgradeNext /\ UNCHANGED <<now, ac_paused, roleVars, multisig, actionVars, paramVars>>
    \/ Advance /\ UNCHANGED <<auditVars, upgradeVars, ac_paused, roleVars, multisig,
                              actionVars, paramVars>>
    \/ View(accessVars)

AccessSpec == AccessInit /\ [][AccessNext]_accessVars

-----------------------------------------------------------------------------
(* Properties.                                                              *)

\* The storage of the access-control contract is well formed: in particular a
\* configured multisig has a threshold its signer list can be counted up to.
AccessTypeOK ==
    /\ admin \in Addresses
    /\ ac_paused \in BOOLEAN
    /\ role \in [Addresses -> Role]
    /\ multisig = NoMultisig \/ multisig.threshold \in 1..Len(multisig.signers)
    /\ Elements(multisig.signers) \subseteq Addresses

Ballots ==
    {proposals[id].ballot : id \in ProposalIds} \cup
    {param_proposals[id].ballot : id \in ProposalIds}

\* However the signer set and the threshold were changed while a proposal was
\* open, what execute_action and execute_parameter_change carried out had as
\* many approvals as the threshold of that moment, all of different signers.
ExecutedByQuorum ==
    \A b \in Ballots :
        b.executed =>
          /\ b.quorum > 0
          /\ Cardinality(Elements(b.approvals)) >= b.quorum

\* No proposal takes effect twice, also when several signers execute it.
ExecutedOnce == \A b \in Ballots : b.executions = IF b.executed THEN 1 ELSE 0

\* A parameter in force is in its range and is what an executed proposal set.
ParametersVoted ==
    \A key \in ParameterKeys :
        parameters[key] # NoValue =>
          /\ parameters[key] <= IF key = "MaxRiskScore" THEN 100 ELSE 10000
          /\ \E id \in ProposalIds :
                /\ param_proposals[id].ballot.executed
                /\ param_proposals[id].subject = {[key |-> key, value |-> parameters[key]]}

ExecutedActions == {id \in ProposalIds : proposals[id].ballot.executed}

\* The admin moves by two paths, transfer_admin and an executed TransferAdmin,
\* that maintain the role map differently.  On both, only the account that
\* becomes admin gains the Admin role, and the admin in office loses it to
\* nothing but an action the signers executed.
RoleFollowsAdmin ==
    [][/\ \A a \in Addresses :
            role'[a] = "Admin" /\ role[a] # "Admin" => admin' = a
       /\ role[admin] = "Admin" /\ role'[admin] # "Admin" /\ admin' = admin
            => ExecutedActions' # ExecutedActions]_accessVars

\* The governance timelock is the "delay between a parameter proposal reaching
\* quorum and being executable": a proposal whose last vote was needed for the
\* threshold is executed no sooner than a delay after that vote.
DelayedFromQuorum ==
    [][\A id \in ProposalIds :
          LET before == param_proposals[id].ballot
              after == param_proposals'[id].ballot
          IN  /\ after.executed /\ ~before.executed
              /\ Len(before.approvals) = multisig.threshold
              => now >= before.voted_at + UPGRADE_TIMELOCK_DELAY]_accessVars
=============================================================================
