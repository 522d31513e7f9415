------------------------ MODULE AccessControlProofs ------------------------
(***************************************************************************)
(* The multisig and the governance of parameters, for every number of      *)
(* accounts, signers and proposals: what is executed was approved by a     *)
(* quorum of different signers and takes effect once; the admin role moves *)
(* with the admin; upgrades follow the timelock.                           *)
(***************************************************************************)
EXTENDS AccessControl, TimelockProofs, FiniteSetTheorems

Change == [key: ParameterKeys, value: Nat]

BallotRecord ==
    [approvals: Seq(Addresses), created_at: Nat, executed: BOOLEAN,
     voted_at: Nat, quorum: Nat, executions: Nat]

\* Nobody is on the list of approvals twice, so that its length counts signers;
\* an executed ballot met its threshold, once.
GoodBallot(b) ==
    /\ b \in BallotRecord
    /\ IsFiniteSet(Elements(b.approvals))
    /\ Cardinality(Elements(b.approvals)) = Len(b.approvals)
    /\ b.executed => b.quorum > 0 /\ Len(b.approvals) >= b.quorum
    /\ b.executions = IF b.executed THEN 1 ELSE 0

\* A proposal about one subject of a set, or none yet.
GoodProposal(p, Subjects) ==
    /\ p \in [exists: BOOLEAN, subject: SUBSET Subjects, ballot: BallotRecord]
    /\ GoodBallot(p.ballot)
    /\ IF p.exists THEN \E x \in Subjects : p.subject = {x} ELSE ~p.ballot.executed

ValidChange == {x \in Change : require_valid_parameter(x.key, x.value)}

AccessTyped ==
    /\ AccessTypeOK
    /\ now \in Nat
    /\ multisig \in [threshold: Nat, signers: Seq(Addresses)]
    /\ parameters \in [ParameterKeys -> Int]

ProposalsGood ==
    /\ next_proposal_id \in Nat \ {0}
    /\ proposals \in [ProposalIds -> [exists: BOOLEAN, subject: SUBSET AdminAction,
                                      ballot: BallotRecord]]
    /\ \A id \in ProposalIds : GoodProposal(proposals[id], AdminAction)

\* Proposals are numbered in turn: the next id has no proposal yet.
ChangesGood ==
    /\ next_param_id \in Nat \ {0}
    /\ param_proposals \in [ProposalIds -> [exists: BOOLEAN, subject: SUBSET ValidChange,
                                            ballot: BallotRecord]]
    /\ \A id \in ProposalIds : /\ GoodProposal(param_proposals[id], ValidChange)
                               /\ id >= next_param_id => ~param_proposals[id].exists

AccessInv == AccessTyped /\ ProposalsGood /\ ChangesGood /\ ParametersVoted

-----------------------------------------------------------------------------
(* Ballots.                                                                 *)

\* The signers on a list that one is appended to.
LEMMA ElementsAppend ==
  ASSUME NEW s \in Seq(Addresses), NEW a \in Addresses
  PROVE  /\ Append(s, a) \in Seq(Addresses)
         /\ Len(Append(s, a)) = Len(s) + 1
         /\ Elements(Append(s, a)) = Elements(s) \cup {a}
  <1>1. /\ Append(s, a) \in Seq(Addresses) /\ Len(Append(s, a)) = Len(s) + 1
        /\ Append(s, a)[Len(s) + 1] = a
        /\ \A i \in 1..Len(s) : Append(s, a)[i] = s[i]
        /\ DOMAIN s = 1..Len(s) /\ DOMAIN Append(s, a) = 1..(Len(s) + 1) /\ Len(s) \in Nat
    OBVIOUS
  <1>2. ASSUME NEW x \in Elements(Append(s, a)) PROVE x \in Elements(s) \cup {a}
    <2>1. PICK i \in 1..(Len(s) + 1) : x = Append(s, a)[i]
      BY <1>1 DEF Elements
    <2>2. CASE i = Len(s) + 1
      BY <1>1, <2>1, <2>2
    <2>3. CASE i # Len(s) + 1
      <3>1. i \in 1..Len(s)
        BY <1>1, <2>1, <2>3
      <3> QED  BY <1>1, <2>1, <3>1 DEF Elements
    <2> QED  BY <2>2, <2>3
  <1>3. ASSUME NEW x \in Elements(s) PROVE x \in Elements(Append(s, a))
    <2>1. PICK i \in 1..Len(s) : x = s[i]
      BY <1>1 DEF Elements
    <2>2. i \in 1..(Len(s) + 1) /\ x = Append(s, a)[i]
      BY <1>1, <2>1
    <2> QED  BY <1>1, <2>2 DEF Elements
  <1>4. a \in Elements(Append(s, a))
    <2>1. Len(s) + 1 \in DOMAIN Append(s, a)
      BY <1>1
    <2> QED  BY <1>1, <2>1 DEF Elements
  <1> QED  BY <1>1, <1>2, <1>3, <1>4

\* The empty list of approvals of a proposal that does not exist.
LEMMA EmptyGood == GoodBallot(Ballot(<<>>, 0)) /\ ~Ballot(<<>>, 0).executed
  <1> DEFINE b == Ballot(<<>>, 0)
  <1>1. Elements(<<>>) = {} /\ <<>> \in Seq(Addresses) /\ Len(<<>>) = 0
    BY DEF Elements
  <1>2. b \in BallotRecord
    BY <1>1 DEF Ballot, BallotRecord
  <1>3. b.approvals = <<>> /\ b.executed = FALSE /\ b.executions = 0
    BY DEF Ballot
  <1> QED  BY <1>1, <1>2, <1>3, FS_EmptySet DEF GoodBallot

\* A new proposal carries its proposer's approval.
LEMMA ProposedGood ==
  ASSUME now \in Nat, NEW proposer \in Addresses, NEW Subjects, NEW x \in Subjects
  PROVE  /\ Proposed(proposer, x) \in [exists: BOOLEAN, subject: SUBSET Subjects,
                                       ballot: BallotRecord]
         /\ GoodProposal(Proposed(proposer, x), Subjects)
         /\ ~Proposed(proposer, x).ballot.executed
  <1> DEFINE b == Ballot(<<proposer>>, now)
             p == [exists |-> TRUE, subject |-> {x}, ballot |-> b]
  <1>1. Proposed(proposer, x) = p
    BY DEF Proposed
  <1>2. /\ b \in BallotRecord /\ b.approvals = <<proposer>> /\ b.executed = FALSE
        /\ b.executions = 0
    BY DEF Ballot, BallotRecord
  <1>3. Elements(<<proposer>>) = {proposer} /\ Len(<<proposer>>) = 1
    BY DEF Elements
  <1>4. IsFiniteSet({proposer}) /\ Cardinality({proposer}) = 1
    BY FS_Singleton
  <1>5. GoodBallot(b)
    BY <1>2, <1>3, <1>4 DEF GoodBallot
  <1> HIDE DEF b
  <1>6. p \in [exists: BOOLEAN, subject: SUBSET Subjects, ballot: BallotRecord]
    BY <1>2
  <1>7. GoodProposal(p, Subjects)
    BY <1>5, <1>6 DEF GoodProposal
  <1> QED  BY <1>1, <1>2, <1>6, <1>7

\* An approval adds a signer that was not on the list.
LEMMA ApprovedGood ==
  ASSUME now \in Nat, NEW signer \in Addresses, NEW Subjects, NEW p,
         GoodProposal(p, Subjects), OpenTo(signer, p)
  PROVE  /\ Approved(signer, p) \in [exists: BOOLEAN, subject: SUBSET Subjects,
                                     ballot: BallotRecord]
         /\ GoodProposal(Approved(signer, p), Subjects)
         /\ Approved(signer, p).exists /\ Approved(signer, p).subject = p.subject
         /\ ~Approved(signer, p).ballot.executed
  <1> DEFINE s == p.ballot.approvals
             b == [p.ballot EXCEPT !.approvals = Append(s, signer), !.voted_at = now]
             q == [p EXCEPT !.ballot = b]
  <1>1. /\ p \in [exists: BOOLEAN, subject: SUBSET Subjects, ballot: BallotRecord]
        /\ p.ballot \in BallotRecord /\ GoodBallot(p.ballot) /\ s \in Seq(Addresses)
        /\ p.exists /\ ~p.ballot.executed /\ signer \notin Elements(s)
    BY DEF GoodProposal, OpenTo, BallotRecord
  <1>2. /\ Append(s, signer) \in Seq(Addresses) /\ Len(Append(s, signer)) = Len(s) + 1
        /\ Elements(Append(s, signer)) = Elements(s) \cup {signer}
    BY <1>1, ElementsAppend
  <1>3. /\ IsFiniteSet(Elements(s) \cup {signer})
        /\ Cardinality(Elements(s) \cup {signer}) = Len(s) + 1
    BY <1>1, FS_AddElement DEF GoodBallot
  <1>4. /\ b \in BallotRecord /\ b.approvals = Append(s, signer)
        /\ b.executed = p.ballot.executed /\ b.executions = p.ballot.executions
    BY <1>1, <1>2 DEF BallotRecord
  <1> HIDE DEF b
  <1>5. GoodBallot(b)
    BY <1>1, <1>2, <1>3, <1>4 DEF GoodBallot
  <1>6. /\ q \in [exists: BOOLEAN, subject: SUBSET Subjects, ballot: BallotRecord]
        /\ q.exists = p.exists /\ q.subject = p.subject /\ q.ballot = b
    BY <1>1, <1>4
  <1>7. Approved(signer, p) = q
    BY DEF Approved, b
  <1> HIDE DEF q
  <1> QED  BY <1>1, <1>4, <1>5, <1>6, <1>7 DEF GoodProposal

\* An execution met the threshold in force and marks the ballot.
LEMMA ExecutedGood ==
  ASSUME AccessTyped, NEW Subjects, NEW p, NEW caller, require_signer(caller),
         GoodProposal(p, Subjects), Executable(p)
  PROVE  /\ Executed(p) \in [exists: BOOLEAN, subject: SUBSET Subjects, ballot: BallotRecord]
         /\ GoodProposal(Executed(p), Subjects)
         /\ Executed(p).exists /\ Executed(p).subject = p.subject
         /\ Executed(p).ballot.executed
  <1> DEFINE b == [p.ballot EXCEPT !.executed = TRUE, !.quorum = multisig.threshold,
                                   !.executions = p.ballot.executions + 1]
             q == [p EXCEPT !.ballot = b]
  <1>1. /\ p \in [exists: BOOLEAN, subject: SUBSET Subjects, ballot: BallotRecord]
        /\ p.ballot \in BallotRecord /\ GoodBallot(p.ballot)
        /\ p.exists /\ p.ballot.executions = 0
        /\ Len(p.ballot.approvals) >= multisig.threshold
    BY DEF GoodProposal, Executable, GoodBallot
  <1>2. multisig.threshold \in Nat \ {0}
    BY DEF AccessTyped, AccessTypeOK, require_signer
  <1>3. /\ b \in BallotRecord /\ b.approvals = p.ballot.approvals /\ b.executed = TRUE
        /\ b.executions = 1 /\ b.quorum = multisig.threshold
    <2>1. p.ballot.executions + 1 = 1 /\ multisig.threshold \in Nat
      BY <1>1, <1>2
    <2>2. b.approvals = p.ballot.approvals
      BY <1>1, <2>1 DEF BallotRecord
    <2>3. b.executed = TRUE
      BY <1>1, <2>1 DEF BallotRecord
    <2>4. b.executions = 1
      BY <1>1, <2>1 DEF BallotRecord
    <2>5. b.quorum = multisig.threshold
      BY <1>1, <2>1 DEF BallotRecord
    <2>6. b \in BallotRecord
      <3> DEFINE c == [p.ballot EXCEPT !.executed = TRUE]
                 m == multisig.threshold
                 n == p.ballot.executions + 1
      <3>1. c \in BallotRecord
        BY <1>1 DEF BallotRecord
      <3>2. m \in Nat /\ n \in Nat
        BY <2>1
      <3>3. b = [c EXCEPT !.quorum = m, !.executions = n]
        OBVIOUS
      <3> HIDE DEF b, c, m, n
      <3> QED  BY <3>1, <3>2, <3>3 DEF BallotRecord
    <2> QED  BY <2>2, <2>3, <2>4, <2>5, <2>6
  <1> HIDE DEF b
  <1>4. GoodBallot(b)
    BY <1>1, <1>2, <1>3 DEF GoodBallot
  <1>5. /\ q \in [exists: BOOLEAN, subject: SUBSET Subjects, ballot: BallotRecord]
        /\ q.exists = p.exists /\ q.subject = p.subject /\ q.ballot = b
    BY <1>1, <1>3
  <1>6. Executed(p) = q
    BY DEF Executed, b
  <1> HIDE DEF q
  <1> QED  BY <1>1, <1>3, <1>4, <1>5, <1>6 DEF GoodProposal

-----------------------------------------------------------------------------
(* The invariant, step by step.                                             *)

\* Nothing is configured, proposed or set when the contract is initialized.
LEMMA AccessInitInv == AccessInit => AccessInv
  <1> SUFFICES ASSUME AccessInit PROVE AccessInv
    OBVIOUS
  <1>1. now \in Nat
    BY DEF AccessInit, AuditInit
  <1>2. /\ NoMultisig.signers = <<>> /\ NoMultisig \in [threshold: Nat, signers: Seq(Addresses)]
        /\ Elements(<<>>) = {}
    BY DEF NoMultisig, Elements
  <1>3. role \in [Addresses -> Role]
    BY DEF AccessInit, Role
  <1>4. AccessTyped
    <2>1. admin \in Addresses /\ ac_paused \in BOOLEAN /\ multisig = NoMultisig
      BY AccessAssumption DEF AccessInit
    <2>2. parameters \in [ParameterKeys -> Int]
      BY DEF AccessInit, NoValue
    <2>3. Elements(multisig.signers) \subseteq Addresses
      BY <1>2, <2>1
    <2>4. AccessTypeOK
      BY <1>3, <2>1, <2>3 DEF AccessTypeOK
    <2> QED  BY <1>1, <1>2, <2>1, <2>2, <2>4 DEF AccessTyped
  <1>5. ASSUME NEW Subjects
        PROVE  /\ NoAction \in [exists: BOOLEAN, subject: SUBSET Subjects, ballot: BallotRecord]
               /\ GoodProposal(NoAction, Subjects)
               /\ ~NoAction.exists
    <2> DEFINE b == Ballot(<<>>, 0)
    <2>1. b \in BallotRecord /\ GoodBallot(b) /\ ~b.executed
      BY EmptyGood DEF GoodBallot
    <2> HIDE DEF b
    <2>2. NoAction = [exists |-> FALSE, subject |-> {}, ballot |-> b]
      BY DEF NoAction, b
    <2>3. NoAction \in [exists: BOOLEAN, subject: SUBSET Subjects, ballot: BallotRecord]
      BY <2>1, <2>2
    <2>4. NoAction.exists = FALSE /\ NoAction.ballot = b
      BY <2>2
    <2> QED  BY <2>1, <2>3, <2>4 DEF GoodProposal
  <1>6. ProposalsGood
    BY <1>5 DEF AccessInit, ProposalsGood
  <1>7. ChangesGood
    <2>1. /\ NoAction \in [exists: BOOLEAN, subject: SUBSET ValidChange, ballot: BallotRecord]
          /\ GoodProposal(NoAction, ValidChange)
          /\ ~NoAction.exists
      BY <1>5
    <2>2. next_param_id = 1 /\ param_proposals = [id \in ProposalIds |-> NoAction]
      BY DEF AccessInit
    <2> QED  BY <2>1, <2>2 DEF ChangesGood
  <1>8. ParametersVoted
    BY DEF AccessInit, ParametersVoted
  <1> QED  BY <1>4, <1>6, <1>7, <1>8 DEF AccessInv

\* The direct calls write admin, roles, pause flag and multisig.
LEMMA AdminTyped ==
  ASSUME AccessTyped, AdminNext, UNCHANGED <<now, paramVars>>
  PROVE  AccessTyped'
  <1>1. PICK caller \in Addresses :
          \/ pause(caller) \/ unpause(caller)
          \/ \E target \in Addresses :
                \/ \E granted \in Role : grant_role(caller, target, granted)
                \/ revoke_role(caller, target)
                \/ transfer_admin(caller, target)
          \/ \E signers \in SignerLists : \E threshold \in 0..(Len(signers) + 1) :
                configure_multisig(caller, signers, threshold)
    BY DEF AdminNext
  <1>2. "None" \in Role /\ "Admin" \in Role
    BY DEF Role
  <1>3. CASE pause(caller) \/ unpause(caller)
    BY <1>3 DEF pause, unpause, AccessTyped, AccessTypeOK, roleVars, paramVars
  <1>4. ASSUME NEW target \in Addresses, NEW granted \in Role, grant_role(caller, target, granted)
        PROVE  AccessTyped'
    BY <1>4 DEF grant_role, AccessTyped, AccessTypeOK, paramVars
  <1>5. ASSUME NEW target \in Addresses, revoke_role(caller, target) PROVE AccessTyped'
    BY <1>2, <1>5 DEF revoke_role, AccessTyped, AccessTypeOK, paramVars
  <1>6. ASSUME NEW target \in Addresses, transfer_admin(caller, target) PROVE AccessTyped'
    BY <1>2, <1>6 DEF transfer_admin, AccessTyped, AccessTypeOK, paramVars
  <1>7. ASSUME NEW signers \in SignerLists, NEW threshold \in 0..(Len(signers) + 1),
               configure_multisig(caller, signers, threshold)
        PROVE  AccessTyped'
    <2>1. signers \in Seq(Addresses) /\ Len(signers) \in Nat
            /\ \A i \in DOMAIN signers : signers[i] \in Addresses
      BY AccessAssumption
    <2>2. threshold \in 1..Len(signers) /\ threshold \in Nat
      BY <1>7, <2>1 DEF configure_multisig, ValidThreshold
    <2>3. multisig' = [threshold |-> threshold, signers |-> signers] /\ UNCHANGED <<roleVars, ac_paused>>
      BY <1>7 DEF configure_multisig
    <2>4. Elements(signers) \subseteq Addresses
      BY <2>1 DEF Elements
    <2> QED  BY <2>1, <2>2, <2>3, <2>4 DEF AccessTyped, AccessTypeOK, roleVars, paramVars
  <1> QED  BY <1>1, <1>3, <1>4, <1>5, <1>6, <1>7

\* What an executed action does to admin, roles and pause flag.
LEMMA PerformTyped ==
  ASSUME AccessTyped, NEW action \in AdminAction, Perform(action), UNCHANGED <<now, multisig, paramVars>>
  PROVE  AccessTyped'
  <1>1. /\ action.kind \in {"Pause", "Unpause", "GrantRole", "RevokeRole", "TransferAdmin"}
        /\ action.target \in Addresses
    BY AccessAssumption DEF AdminAction
  <1>2. {"None", "Admin", "Operator", "Verifier"} \subseteq Role
    BY DEF Role
  <1>3. CASE action.kind \in {"Pause", "Unpause"}
    BY <1>3 DEF Perform, AccessTyped, AccessTypeOK, roleVars, paramVars
  <1>4. CASE action.kind = "GrantRole"
    BY <1>1, <1>2, <1>4 DEF Perform, AccessTyped, AccessTypeOK, paramVars
  <1>5. CASE action.kind = "RevokeRole"
    BY <1>1, <1>2, <1>5 DEF Perform, AccessTyped, AccessTypeOK, paramVars
  <1>6. CASE action.kind = "TransferAdmin"
    BY <1>1, <1>2, <1>6 DEF Perform, AccessTyped, AccessTypeOK, paramVars
  <1> QED  BY <1>1, <1>3, <1>4, <1>5, <1>6

\* The subject of a proposal that exists.
LEMMA SubjectOf ==
  ASSUME NEW Subjects, NEW p, GoodProposal(p, Subjects), p.exists
  PROVE  Subject(p) \in Subjects /\ p.subject = {Subject(p)}
  BY DEF GoodProposal, Subject

\* Proposing, approving and executing actions.
LEMMA ActionInv ==
  ASSUME AccessInv, ActionNext, UNCHANGED <<now, multisig, paramVars>>
  PROVE  AccessInv'
  <1>1. ChangesGood' /\ ParametersVoted'
    BY DEF AccessInv, ChangesGood, ParametersVoted, paramVars
  <1>2. now \in Nat /\ AccessTyped /\ ProposalsGood
    BY DEF AccessInv, AccessTyped
  <1>3. ASSUME NEW caller \in Addresses, NEW action \in AdminAction, propose_action(caller, action)
        PROVE  AccessTyped' /\ ProposalsGood'
    <2>1. AccessTyped'
      BY <1>2, <1>3 DEF propose_action, AccessTyped, AccessTypeOK, roleVars, paramVars
    <2>2. next_proposal_id \in ProposalIds
      BY <1>2, <1>3, AccessAssumption DEF propose_action, ProposalsGood, ProposalIds
    <2>3. proposals' = [proposals EXCEPT ![next_proposal_id] = Proposed(caller, action)]
            /\ next_proposal_id' = next_proposal_id + 1
      BY <1>3 DEF propose_action
    <2>4. /\ Proposed(caller, action) \in [exists: BOOLEAN, subject: SUBSET AdminAction,
                                           ballot: BallotRecord]
          /\ GoodProposal(Proposed(caller, action), AdminAction)
      BY <1>2, ProposedGood
    <2>5. next_proposal_id' \in Nat \ {0}
      BY <1>2, <2>3 DEF ProposalsGood
    <2> QED  BY <1>2, <2>1, <2>2, <2>3, <2>4, <2>5 DEF ProposalsGood
  <1>4. ASSUME NEW caller \in Addresses, NEW id \in ProposalIds, approve_action(caller, id)
        PROVE  AccessTyped' /\ ProposalsGood'
    <2>1. AccessTyped'
      BY <1>2, <1>4 DEF approve_action, AccessTyped, AccessTypeOK, roleVars, paramVars
    <2>2. /\ proposals' = [proposals EXCEPT ![id] = Approved(caller, proposals[id])]
          /\ OpenTo(caller, proposals[id]) /\ GoodProposal(proposals[id], AdminAction)
          /\ next_proposal_id' = next_proposal_id
      BY <1>2, <1>4 DEF approve_action, ProposalsGood
    <2> QED  BY <1>2, <2>1, <2>2, ApprovedGood DEF ProposalsGood
  <1>5. ASSUME NEW caller \in Addresses, NEW id \in ProposalIds, execute_action(caller, id)
        PROVE  AccessTyped' /\ ProposalsGood'
    <2>1. /\ proposals' = [proposals EXCEPT ![id] = Executed(proposals[id])]
          /\ Executable(proposals[id]) /\ require_signer(caller)
          /\ GoodProposal(proposals[id], AdminAction)
          /\ Perform(Subject(proposals[id])) /\ next_proposal_id' = next_proposal_id
      BY <1>2, <1>5 DEF execute_action, ProposalsGood
    <2>2. Subject(proposals[id]) \in AdminAction
      BY <2>1, SubjectOf DEF Executable
    <2>3. AccessTyped'
      BY <1>2, <2>1, <2>2, PerformTyped
    <2> QED  BY <1>2, <2>1, <2>3, ExecutedGood DEF ProposalsGood
  <1> QED  BY <1>1, <1>3, <1>4, <1>5 DEF ActionNext, AccessInv

\* A step that writes one parameter proposal and keeps what was executed.
LEMMA ParametersKept ==
  ASSUME ChangesGood, ParametersVoted, UNCHANGED parameters,
         \A id \in ProposalIds : param_proposals[id].ballot.executed =>
             /\ param_proposals'[id].ballot.executed
             /\ param_proposals'[id].subject = param_proposals[id].subject
  PROVE  ParametersVoted'
  BY DEF ParametersVoted

\* Proposing, voting for and executing changes of parameters.
LEMMA ParameterInv ==
  ASSUME AccessInv, ParameterNext,
         UNCHANGED <<now, ac_paused, roleVars, multisig, actionVars>>
  PROVE  AccessInv'
  <1>1. ProposalsGood'
    BY DEF AccessInv, ProposalsGood, actionVars
  <1>2. now \in Nat /\ AccessTyped /\ ChangesGood /\ ParametersVoted
    BY DEF AccessInv, AccessTyped
  <1>3. ASSUME parameters' \in [ParameterKeys -> Int] PROVE AccessTyped'
    BY <1>2, <1>3 DEF AccessTyped, AccessTypeOK, roleVars
  <1>4. ASSUME NEW caller \in Addresses, NEW key \in ParameterKeys, NEW value \in ParameterValues,
               propose_parameter_change(caller, key, value)
        PROVE  AccessTyped' /\ ChangesGood' /\ ParametersVoted'
    <2> DEFINE x == [key |-> key, value |-> value]
               n == next_param_id
    <2>1. x \in ValidChange
      BY <1>4, AccessAssumption DEF propose_parameter_change, ValidChange, Change
    <2> HIDE DEF x
    <2>2. n \in ProposalIds /\ n \in Nat
      BY <1>2, <1>4, AccessAssumption DEF propose_parameter_change, ChangesGood, ProposalIds
    <2>3. /\ param_proposals' = [param_proposals EXCEPT ![n] = Proposed(caller, x)]
          /\ next_param_id' = n + 1 /\ UNCHANGED parameters
      BY <1>4 DEF propose_parameter_change, x
    <2>4. /\ Proposed(caller, x) \in [exists: BOOLEAN, subject: SUBSET ValidChange,
                                      ballot: BallotRecord]
          /\ GoodProposal(Proposed(caller, x), ValidChange)
      BY <1>2, <2>1, ProposedGood
    <2>5. \A id \in ProposalIds : id \in Nat
      BY AccessAssumption DEF ProposalIds
    <2>6. ChangesGood'
      BY <1>2, <2>2, <2>3, <2>4, <2>5 DEF ChangesGood
    <2>7. ~param_proposals[n].ballot.executed
      BY <1>2, <2>2 DEF ChangesGood, GoodProposal
    <2>8. ParametersVoted'
      <3>1. ASSUME NEW id \in ProposalIds, param_proposals[id].ballot.executed
            PROVE  /\ param_proposals'[id].ballot.executed
                   /\ param_proposals'[id].subject = param_proposals[id].subject
        BY <1>2, <2>3, <2>7, <3>1 DEF ChangesGood
      <3> QED  BY <1>2, <2>3, <3>1, ParametersKept
    <2> QED  BY <1>2, <1>3, <2>3, <2>6, <2>8 DEF AccessTyped
  <1>5. ASSUME NEW caller \in Addresses, NEW id \in ProposalIds, vote_parameter_change(caller, id)
        PROVE  AccessTyped' /\ ChangesGood' /\ ParametersVoted'
    <2> DEFINE p == Approved(caller, param_proposals[id])
    <2>1. /\ param_proposals' = [param_proposals EXCEPT ![id] = p]
          /\ OpenTo(caller, param_proposals[id]) /\ GoodProposal(param_proposals[id], ValidChange)
          /\ next_param_id' = next_param_id /\ UNCHANGED parameters
      BY <1>2, <1>5 DEF vote_parameter_change, ChangesGood
    <2>2. /\ p \in [exists: BOOLEAN, subject: SUBSET ValidChange, ballot: BallotRecord]
          /\ GoodProposal(p, ValidChange)
      BY <1>2, <2>1, ApprovedGood
    <2> HIDE DEF p
    <2>3. param_proposals[id].exists /\ ~param_proposals[id].ballot.executed
      BY <2>1 DEF OpenTo
    <2>4. ChangesGood'
      BY <1>2, <2>1, <2>2, <2>3 DEF ChangesGood
    <2>5. ParametersVoted'
      <3>1. ASSUME NEW k \in ProposalIds, param_proposals[k].ballot.executed
            PROVE  /\ param_proposals'[k].ballot.executed
                   /\ param_proposals'[k].subject = param_proposals[k].subject
        BY <1>2, <2>1, <2>3, <3>1 DEF ChangesGood
      <3> QED  BY <1>2, <2>1, <3>1, ParametersKept
    <2> QED  BY <1>2, <1>3, <2>1, <2>4, <2>5 DEF AccessTyped
  <1>6. ASSUME NEW caller \in Addresses, NEW id \in ProposalIds, execute_parameter_change(caller, id)
        PROVE  AccessTyped' /\ ChangesGood' /\ ParametersVoted'
    <2> DEFINE change == Subject(param_proposals[id])
               p == Executed(param_proposals[id])
    <2>1. /\ param_proposals' = [param_proposals EXCEPT ![id] = p]
          /\ parameters' = [parameters EXCEPT ![change.key] = change.value]
          /\ require_signer(caller) /\ Executable(param_proposals[id])
          /\ GoodProposal(param_proposals[id], ValidChange)
          /\ next_param_id' = next_param_id
      BY <1>2, <1>6 DEF execute_parameter_change, ChangesGood
    <2>2. change \in ValidChange /\ param_proposals[id].subject = {change}
      BY <2>1, SubjectOf DEF Executable
    <2>3. /\ p \in [exists: BOOLEAN, subject: SUBSET ValidChange, ballot: BallotRecord]
          /\ GoodProposal(p, ValidChange) /\ p.subject = {change} /\ p.ballot.executed
      BY <1>2, <2>1, <2>2, ExecutedGood
    <2> HIDE DEF p, change
    <2>4. /\ change.key \in ParameterKeys /\ change.value \in Nat
          /\ change = [key |-> change.key, value |-> change.value]
          /\ require_valid_parameter(change.key, change.value)
      BY <2>2 DEF ValidChange, Change
    <2>5. param_proposals[id].exists
      BY <2>1 DEF Executable
    <2>6. ChangesGood'
      BY <1>2, <2>1, <2>3, <2>5 DEF ChangesGood
    <2>7. parameters' \in [ParameterKeys -> Int]
      BY <1>2, <2>1, <2>4 DEF AccessTyped
    <2>8. ParametersVoted'
      <3> SUFFICES ASSUME NEW key \in ParameterKeys, parameters'[key] # NoValue
                   PROVE  /\ parameters'[key] <= IF key = "MaxRiskScore" THEN 100 ELSE 10000
                          /\ \E k \in ProposalIds :
                                /\ param_proposals'[k].ballot.executed
                                /\ param_proposals'[k].subject
                                     = {[key |-> key, value |-> parameters'[key]]}
        BY DEF ParametersVoted
      <3>1. CASE key = change.key
        <4>1. parameters'[key] = change.value
          BY <1>2, <2>1, <3>1 DEF AccessTyped
        <4>2. param_proposals'[id].ballot.executed /\ param_proposals'[id].subject = {change}
          BY <1>2, <2>1, <2>3 DEF ChangesGood
        <4> QED  BY <2>4, <3>1, <4>1, <4>2 DEF require_valid_parameter
      <3>2. CASE key # change.key
        <4>1. parameters'[key] = parameters[key]
          BY <1>2, <2>1, <3>2 DEF AccessTyped
        <4>2. PICK k \in ProposalIds :
                 /\ param_proposals[k].ballot.executed
                 /\ param_proposals[k].subject = {[key |-> key, value |-> parameters[key]]}
          BY <1>2, <4>1 DEF ParametersVoted
        <4>3. k # id
          BY <2>1, <4>2 DEF Executable
        <4>4. param_proposals'[k] = param_proposals[k]
          BY <1>2, <2>1, <4>3 DEF ChangesGood
        <4> QED  BY <1>2, <4>1, <4>2, <4>4 DEF ParametersVoted
      <3> QED  BY <3>1, <3>2
    <2> QED  BY <1>3, <2>6, <2>7, <2>8
  <1> QED  BY <1>1, <1>4, <1>5, <1>6 DEF ParameterNext, AccessInv

\* Every step of the contract keeps the invariant.
LEMMA AccessStep ==
  ASSUME AccessInv, [AccessNext]_accessVars
  PROVE  AccessInv'
  <1>1. CASE AdminNext /\ UNCHANGED <<now, upgradeVars, actionVars, paramVars>>
    <2>1. AccessTyped'
      BY <1>1, AdminTyped DEF AccessInv
    <2> QED
      BY <1>1, <2>1 DEF AccessInv, ProposalsGood, ChangesGood, ParametersVoted, actionVars, paramVars
  <1>2. CASE ActionNext /\ UNCHANGED <<now, upgradeVars, multisig, paramVars>>
    BY <1>2, ActionInv
  <1>3. CASE ParameterNext /\ UNCHANGED <<now, upgradeVars, ac_paused, roleVars, multisig, actionVars>>
    BY <1>3, ParameterInv
  <1>4. CASE UNCHANGED <<ac_paused, roleVars, multisig, actionVars, paramVars>>
               /\ (UNCHANGED now \/ Advance)
    <2>1. now' \in Nat
      BY <1>4 DEF AccessInv, AccessTyped, Advance
    <2> QED
      BY <1>4, <2>1 DEF AccessInv, AccessTyped, AccessTypeOK, ProposalsGood, ChangesGood,
                        ParametersVoted, roleVars, actionVars, paramVars
  <1> QED
    BY <1>1, <1>2, <1>3, <1>4 DEF AccessNext, View, accessVars

-----------------------------------------------------------------------------
(* What the invariant is for.                                               *)

\* The state of the contract is consistent, whatever its callers do: every
\* ballot is well formed and every parameter in force was voted for.
THEOREM AccessInvariant == AccessSpec => []AccessInv
  BY AccessInitInv, AccessStep, PTL DEF AccessSpec

\* The storage is well formed; configure_multisig leaves a threshold that the
\* signer list can be counted up to.
THEOREM AccessTypeCorrect == AccessSpec => []AccessTypeOK
  <1>1. AccessInv => AccessTypeOK
    BY DEF AccessInv, AccessTyped
  <1> QED  BY <1>1, AccessInvariant, PTL

\* The ballots the properties speak of are good ones.
LEMMA BallotsGood ==
  ASSUME AccessInv, NEW b \in Ballots
  PROVE  GoodBallot(b)
  <1>1. CASE b \in {proposals[id].ballot : id \in ProposalIds}
    BY <1>1 DEF AccessInv, ProposalsGood, GoodProposal
  <1>2. CASE b \in {param_proposals[id].ballot : id \in ProposalIds}
    BY <1>2 DEF AccessInv, ChangesGood, GoodProposal
  <1> QED  BY <1>1, <1>2 DEF Ballots

\* What execute_action and execute_parameter_change carry out was approved by as
\* many different signers as the threshold of that moment.
THEOREM AccessExecutedByQuorum == AccessSpec => []ExecutedByQuorum
  <1>1. AccessInv => ExecutedByQuorum
    BY BallotsGood DEF ExecutedByQuorum, GoodBallot
  <1> QED  BY <1>1, AccessInvariant, PTL

\* No proposal is executed a second time.
THEOREM AccessExecutedOnce == AccessSpec => []ExecutedOnce
  <1>1. AccessInv => ExecutedOnce
    BY BallotsGood DEF ExecutedOnce, GoodBallot
  <1> QED  BY <1>1, AccessInvariant, PTL

\* A parameter in force is in range and was set by an executed proposal.
THEOREM AccessParametersVoted == AccessSpec => []ParametersVoted
  <1>1. AccessInv => ParametersVoted
    BY DEF AccessInv
  <1> QED  BY <1>1, AccessInvariant, PTL

\* What RoleFollowsAdmin says of one step.
RoleStep ==
    /\ \A a \in Addresses : role'[a] = "Admin" /\ role[a] # "Admin" => admin' = a
    /\ role[admin] = "Admin" /\ role'[admin] # "Admin" /\ admin' = admin
         => ExecutedActions' # ExecutedActions

\* The direct calls: grant_role never touches the admin's own role, revoke_role
\* refuses it, and transfer_admin takes it from the account it leaves.
LEMMA AdminRoles ==
  ASSUME AccessTyped, AdminNext
  PROVE  RoleStep
  <1>1. PICK caller \in Addresses :
          \/ pause(caller) \/ unpause(caller)
          \/ \E target \in Addresses :
                \/ \E granted \in Role : grant_role(caller, target, granted)
                \/ revoke_role(caller, target)
                \/ transfer_admin(caller, target)
          \/ \E signers \in SignerLists : \E threshold \in 0..(Len(signers) + 1) :
                configure_multisig(caller, signers, threshold)
    BY DEF AdminNext
  <1>2. admin \in Addresses /\ role \in [Addresses -> Role]
    BY DEF AccessTyped, AccessTypeOK
  <1>3. CASE UNCHANGED role
    BY <1>3 DEF RoleStep
  <1>4. ASSUME NEW target \in Addresses, NEW granted \in Role, grant_role(caller, target, granted)
        PROVE  RoleStep
    BY <1>2, <1>4 DEF grant_role, require_admin, RoleStep
  <1>5. ASSUME NEW target \in Addresses, revoke_role(caller, target) PROVE RoleStep
    BY <1>2, <1>5 DEF revoke_role, RoleStep
  <1>6. ASSUME NEW target \in Addresses, transfer_admin(caller, target) PROVE RoleStep
    BY <1>2, <1>6 DEF transfer_admin, require_admin, RoleStep
  <1> QED
    BY <1>1, <1>3, <1>4, <1>5, <1>6 DEF pause, unpause, configure_multisig, roleVars

\* An executed action gives the Admin role to the account it makes admin only,
\* and is on record as executed.
LEMMA ActionRoles ==
  ASSUME AccessInv, ActionNext
  PROVE  RoleStep
  <1>1. CASE UNCHANGED role
    BY <1>1 DEF RoleStep
  <1>2. ASSUME NEW caller \in Addresses, NEW id \in ProposalIds, execute_action(caller, id)
        PROVE  RoleStep
    <2> DEFINE action == Subject(proposals[id])
    <2>1. /\ proposals' = [proposals EXCEPT ![id] = Executed(proposals[id])]
          /\ Executable(proposals[id]) /\ require_signer(caller)
          /\ GoodProposal(proposals[id], AdminAction) /\ Perform(action)
      BY <1>2 DEF execute_action, AccessInv, ProposalsGood
    <2>2. action \in AdminAction
      BY <2>1, SubjectOf DEF Executable
    <2>3. proposals'[id].ballot.executed
      BY <2>1, ExecutedGood DEF AccessInv, ProposalsGood
    <2>4. ExecutedActions' # ExecutedActions
      BY <2>1, <2>3 DEF ExecutedActions, Executable
    <2> HIDE DEF action
    <2>5. /\ action.kind \in {"Pause", "Unpause", "GrantRole", "RevokeRole", "TransferAdmin"}
          /\ action.target \in Addresses
      BY <2>2, AccessAssumption DEF AdminAction
    <2>6. role \in [Addresses -> Role]
      BY DEF AccessInv, AccessTyped, AccessTypeOK
    <2>7. \A a \in Addresses : role'[a] = "Admin" /\ role[a] # "Admin" => admin' = a
      BY <2>1, <2>5, <2>6 DEF Perform, roleVars
    <2> QED  BY <2>4, <2>7 DEF RoleStep
  <1> QED
    BY <1>1, <1>2 DEF ActionNext, propose_action, approve_action, roleVars

\* The Admin role is gained by the account that becomes admin and by no other,
\* and the admin in office loses it to an executed action only.
THEOREM AccessRoleFollowsAdmin == AccessSpec => RoleFollowsAdmin
  <1>1. AccessInv /\ [AccessNext]_accessVars => RoleStep
    <2> SUFFICES ASSUME AccessInv, [AccessNext]_accessVars PROVE RoleStep
      OBVIOUS
    <2>1. CASE UNCHANGED role
      BY <2>1 DEF RoleStep
    <2>2. CASE AdminNext
      BY <2>2, AdminRoles DEF AccessInv
    <2>3. CASE ActionNext
      BY <2>3, ActionRoles
    <2> QED  BY <2>1, <2>2, <2>3 DEF AccessNext, View, accessVars, roleVars
  <1> QED
    BY <1>1, AccessInvariant, PTL DEF AccessSpec, RoleFollowsAdmin, RoleStep

\* execute_upgrade replaces the contract's code by the one proposed last, a whole
\* delay after that proposal and once per proposal.
THEOREM AccessUpgradesAnnounced == AccessSpec => UpgradesAnnounced
  <1>1. AccessInit => UpgradeInv
    BY UpgradeInitInv DEF AccessInit, AuditInit
  <1>2. UpgradeInv /\ [AccessNext]_accessVars => UpgradeInv' /\ [StepAnnounced]_upgradeVars
    <2> SUFFICES ASSUME UpgradeInv, [AccessNext]_accessVars PROVE UpgradeInv' /\ StepAnnounced
      OBVIOUS
    <2>1. now \in Nat
      BY DEF UpgradeInv
    <2>2. CASE UNCHANGED upgradeVars /\ (UNCHANGED now \/ Advance)
      <3>1. now' \in Nat /\ now' >= now
        BY <2>1, <2>2 DEF Advance
      <3> QED  BY <2>2, <3>1, UpgradeKept, UnchangedAnnounced
    <2>3. CASE UpgradeNext /\ UNCHANGED now
      <3>1. "access_control" \in Upgradable /\ Upgrade("access_control")
        BY <2>3, AccessAssumption DEF UpgradeNext
      <3> QED  BY <2>3, <3>1, UpgradeStepInv, UpgradeStepAnnounced
    <2> QED  BY <2>2, <2>3 DEF AccessNext, View, accessVars
  <1> QED
    BY <1>1, <1>2, PTL DEF AccessSpec, UpgradesAnnounced, StepAnnounced
=============================================================================
