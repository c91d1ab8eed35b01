---------------------------- MODULE CaseWorkflow ----------------------------
(***************************************************************************)
(* The workflows of one case: the rows of ops.case_records,                *)
(* ops.case_property_matches, ops.case_evidence_items, ops.case_parties,   *)
(* ops.case_decision_proposals, ops.case_decisions and pilot.matter_links  *)
(* that belong to it, and the API operations that change them.             *)
(*                                                                         *)
(* The grain is the database transaction: each workflow of the store is    *)
(* one step. Accepting a proposal, recording a decision and the customer's *)
(* reopening of a matter first read the case outside the transaction, so   *)
(* they are two steps, and other clients act between them.                 *)
(*                                                                         *)
(* No workflow reads or writes the rows of another case, so one case is    *)
(* the whole system. Audit events are left out: nothing reads them back.   *)
(***************************************************************************)
EXTENDS DecisionEngine

CONSTANTS Clients,          \* requests in flight at once
          Seeds,            \* seed properties
          CaseTitles,       \* title references a case is created with
          EvidenceKeys,     \* identities of evidence items
          KeyType,          \* the evidence type of an identity
          CanonicalKey,     \* the item generated for the linked property
          IntakeKey,        \* the item copied from the linked property
          NewEvidence,      \* the evidence items an analyst may submit, whose
                            \* sources are typed in: a generated identity too
          Properties,       \* the states of the linked property's rows
          ManualDecisions,  \* the manual decisions an analyst may submit
          ClosureCodes,     \* the code sets a closure may submit
          MaxParties        \* bound: owner and seller rows of the case

EvidenceRows == [key : EvidenceKeys, flagged : BOOLEAN, status : EvidenceStatuses]
Proposals == [decision : DecisionOutcomes, codes : SUBSET ReasonCodes]

ASSUME WorkflowConstants ==
    /\ CaseTitles \subseteq Titles \cup {NoTitle}
    /\ KeyType \in [EvidenceKeys -> EvidenceTypes]
    /\ CanonicalKey \in EvidenceKeys /\ IntakeKey \in EvidenceKeys
    /\ NewEvidence \subseteq EvidenceRows
    /\ Properties \subseteq PropertyRows
    /\ ManualDecisions \subseteq Proposals
    /\ MaxParties \in Nat
    /\ "none" \notin Seeds

VARIABLES caseRec,      \* the case_records row
          matches,      \* the status of the match with each seed property
          evidence,     \* the evidence rows
          parties,      \* the names of the owner and seller rows
          property,     \* the canonical rows of the linked property
          proposal,     \* the current proposal
          decision,     \* the current decision
          matter,       \* customer_status of the matter link, "none" if it has none
          requests      \* what a request in flight has read and will write

vars == <<caseRec, matches, evidence, parties, property, proposal, decision, matter, requests>>

CaseStatuses == {"open", "in_review", "resolved", "closed_unresolved", "reopened"}
Closed == {"resolved", "closed_unresolved"}
CustomerStatuses == {"submitted", "in_review", "resolved", "reopened"}

NoProposal == [decision |-> "none", codes |-> {}]
NoDecision == [decision |-> "none", codes |-> {}, source |-> "none", exception |-> FALSE]
Idle == [op |-> "idle", decision |-> "none", codes |-> {}, note |-> FALSE]

Decisions ==
    [decision : DecisionOutcomes, codes : SUBSET ReasonCodes,
     source : {"manual", "manual_override", "accepted_proposal"}, exception : BOOLEAN]

Requests ==
    [op : {"idle", "accept", "record", "reopen"}, decision : DecisionOutcomes \cup {"none"},
     codes : SUBSET ReasonCodes, note : BOOLEAN]

TypeOK ==
    /\ caseRec \in [status : CaseStatuses \cup {"absent"}, resolvedAt : BOOLEAN,
                    linkedProperty : BOOLEAN, linkedSeed : Seeds \cup {"none"},
                    title : Titles \cup {NoTitle}]
    /\ matches \in [Seeds -> {"none", "candidate", "confirmed", "rejected"}]
    /\ evidence \subseteq EvidenceRows
    /\ parties \in Seq(Owners)
    /\ property \in PropertyRows
    /\ proposal \in Proposals \cup {NoProposal}
    /\ decision \in Decisions \cup {NoDecision}
    /\ matter \in CustomerStatuses \cup {"none"}
    /\ requests \in [Clients -> Requests]

-----------------------------------------------------------------------------
Exists == caseRec.status # "absent"

\* Some client is free to make a call that is a single transaction.
SomeIdle == \E c \in Clients : requests[c] = Idle

\* The rows buildCaseDetail hands to the engine.
RowsOf(rec, items, names) ==
    [linked   |-> rec.linkedProperty,
     title    |-> rec.title,
     evidence |-> {[type |-> KeyType[e.key], flagged |-> e.flagged, status |-> e.status] :
                       e \in items},
     parties  |-> names]

\* Variant of ReevaluateInTx: a current proposal is kept.
ReevaluateIfNone ==
    proposal' = IF proposal = NoProposal
                THEN Propose(RowsOf(caseRec', evidence', parties'), property) ELSE proposal

\* reevaluateCaseInTx at the end of a workflow: the new rows give the proposal.
ReevaluateInTx == proposal' = Propose(RowsOf(caseRec', evidence', parties'), property)

\* The evidence readiness of the case as it stands.
Readiness ==
    EvaluateEvidenceReadiness(
        [status    |-> caseRec.status,
         linked    |-> \/ caseRec.linkedProperty
                       \/ caseRec.linkedSeed # "none"
                       \/ \E s \in Seeds : matches[s] = "confirmed",
         evidence  |-> {e.status : e \in evidence},
         exception |-> decision.exception])

\* Variant of UpsertEvidence: a superseded row takes the place of the live one.
UpsertSuperseding(items, row) == {e \in items : e.key # row.key} \cup {row}

\* UpsertCaseEvidence. The arbiter is a unique index over the rows that are not
\* superseded, so a row submitted as superseded conflicts with none: it is
\* inserted beside the live row of its identity, which stays.
UpsertEvidence(items, row) ==
    IF row.status = "superseded" THEN items \cup {row}
    ELSE {e \in items : e.key # row.key \/ e.status = "superseded"} \cup {row}

\* Variant of CustomerStatus: the case status is shown as it is.
CustomerStatusUnmapped(status) == IF status = "open" THEN "submitted" ELSE status

CustomerStatus(status) ==
    IF status \in Closed THEN "resolved"
    ELSE IF status \in {"in_review", "reopened"} THEN status
    ELSE "submitted"

\* syncPilotStatusInTx: no row is updated when the case has no matter link.
SyncMatter(status) == IF matter = "none" THEN "none" ELSE CustomerStatus(status)

Reopened(rec) == [rec EXCEPT !.status = "reopened", !.resolvedAt = FALSE]

\* Variant of AutoReopened: an unresolved closure is not undone.
AutoReopenedIfResolved(rec) == IF rec.status = "resolved" THEN Reopened(rec) ELSE rec

\* maybeAutoReopen: the case row a workflow that changes the file goes on with.
AutoReopened(rec) == IF rec.status \in Closed THEN Reopened(rec) ELSE rec

\* ResolveCase and CloseCaseUnresolved.
ClosedAs(rec, status) == [rec EXCEPT !.status = status, !.resolvedAt = TRUE]

-----------------------------------------------------------------------------
Init ==
    /\ caseRec = [status |-> "absent", resolvedAt |-> FALSE, linkedProperty |-> FALSE,
                  linkedSeed |-> "none", title |-> NoTitle]
    /\ matches = [s \in Seeds |-> "none"]
    /\ evidence = {}
    /\ parties = <<>>
    /\ property \in Properties
    /\ proposal = NoProposal
    /\ decision = NoDecision
    /\ matter = "none"
    /\ requests = [c \in Clients |-> Idle]

CanonicalEvidence == {[key |-> CanonicalKey, flagged |-> FALSE, status |-> "confirmed"]}
IntakeEvidence == {[key |-> IntakeKey, flagged |-> FALSE, status |-> "captured"]}

\* CreateCaseWorkflow. With a seed property the case starts confirmed against it
\* and in review, otherwise every seed property the description finds becomes a
\* candidate. A linked property brings its canonical evidence, which requires
\* source links.
CreateCase(seed, found, linked, title) ==
    /\ ~Exists /\ SomeIdle
    /\ linked => property.sourced
    /\ caseRec' = [status |-> IF seed = "none" THEN "open" ELSE "in_review",
                   resolvedAt |-> FALSE, linkedProperty |-> linked,
                   linkedSeed |-> seed, title |-> title]
    /\ matches' = [s \in Seeds |-> IF seed = s THEN "confirmed"
                                   ELSE IF seed = "none" /\ s \in found THEN "candidate"
                                   ELSE "none"]
    /\ evidence' = IF linked THEN CanonicalEvidence \cup IntakeEvidence ELSE {}
    /\ UNCHANGED <<parties, property, decision, matter, requests>>
    /\ ReevaluateInTx

\* PilotStore.CreateMatter: a case with a matter link; linked when exactly one
\* source-backed candidate qualifies, which looks up no seed property.
CreateMatter(linked, title) ==
    /\ ~Exists /\ SomeIdle
    /\ linked => property.sourced
    /\ caseRec' = [status |-> "open", resolvedAt |-> FALSE, linkedProperty |-> linked,
                   linkedSeed |-> "none", title |-> title]
    /\ evidence' = IF linked THEN CanonicalEvidence ELSE {}
    /\ matter' = "submitted"
    /\ UNCHANGED <<matches, parties, property, decision, requests>>
    /\ ReevaluateInTx

\* ConfirmPropertyMatchWorkflow, action "confirm", whatever the match's status;
\* a match that does not exist rolls the transaction back.
ConfirmMatch(s) ==
    /\ Exists /\ SomeIdle
    /\ matches[s] # "none"
    /\ matches' = [matches EXCEPT ![s] = "confirmed"]
    /\ caseRec' = [AutoReopened(caseRec) EXCEPT !.status = "in_review", !.linkedSeed = s]
    /\ matter' = SyncMatter("in_review")
    /\ UNCHANGED <<evidence, parties, property, decision, requests>>
    /\ ReevaluateInTx

\* ConfirmPropertyMatchWorkflow, action "reject": every candidate of the case is
\* rejected, whichever match was named.
RejectMatches ==
    /\ Exists /\ SomeIdle
    /\ matches' = [s \in Seeds |-> IF matches[s] = "candidate" THEN "rejected" ELSE matches[s]]
    /\ caseRec' = AutoReopened(caseRec)
    /\ matter' = SyncMatter("in_review")
    /\ UNCHANGED <<evidence, parties, property, decision, requests>>
    /\ ReevaluateInTx

AddEvidence(row) ==
    /\ Exists /\ SomeIdle
    /\ caseRec' = AutoReopened(caseRec)
    /\ evidence' = UpsertEvidence(evidence, row)
    /\ matter' = SyncMatter("in_review")
    /\ UNCHANGED <<matches, parties, property, decision, requests>>
    /\ ReevaluateInTx

\* AddPartyWorkflow for a seller; other roles leave parties as it is.
AddParty(names) ==
    /\ Exists /\ SomeIdle
    /\ Len(parties) + Len(names) <= MaxParties
    /\ caseRec' = AutoReopened(caseRec)
    /\ parties' = parties \o names
    /\ matter' = SyncMatter("in_review")
    /\ UNCHANGED <<matches, evidence, property, decision, requests>>
    /\ ReevaluateInTx

\* ReassignCaseWorkflow: it reopens a closed case and, unlike the others, neither
\* re-evaluates it nor syncs the matter otherwise. The assignee is not modelled.
Reassign ==
    /\ Exists /\ SomeIdle
    /\ caseRec' = AutoReopened(caseRec)
    /\ matter' = IF caseRec.status \in Closed THEN SyncMatter("reopened") ELSE matter
    /\ UNCHANGED <<matches, evidence, parties, property, proposal, decision, requests>>

Reevaluate ==
    /\ Exists /\ SomeIdle
    /\ UNCHANGED <<caseRec, matches, evidence, parties, property, decision, matter, requests>>
    /\ ReevaluateInTx

\* Variant of CloseUnresolved: the proposal is withdrawn.
CloseWithdrawingProposal(codes) ==
    /\ Exists /\ SomeIdle
    /\ ClosureCodesAllowed(codes)
    /\ caseRec' = ClosedAs(caseRec, "closed_unresolved")
    /\ matter' = SyncMatter("closed_unresolved")
    /\ proposal' = NoProposal
    /\ UNCHANGED <<matches, evidence, parties, property, decision, requests>>

CloseUnresolved(codes) ==
    /\ Exists /\ SomeIdle
    /\ ClosureCodesAllowed(codes)
    /\ caseRec' = ClosedAs(caseRec, "closed_unresolved")
    /\ matter' = SyncMatter("closed_unresolved")
    /\ UNCHANGED <<matches, evidence, parties, property, proposal, decision, requests>>

\* ReopenCaseWorkflow, whatever the case's status.
ReopenCase ==
    /\ Exists /\ SomeIdle
    /\ caseRec' = Reopened(caseRec)
    /\ matter' = SyncMatter("reopened")
    /\ UNCHANGED <<matches, evidence, parties, property, decision, requests>>
    /\ ReevaluateInTx

-----------------------------------------------------------------------------
\* The calls that read the case before their transaction.

Begin(c, request) ==
    /\ requests[c] = Idle
    /\ requests' = [requests EXCEPT ![c] = request]
    /\ UNCHANGED <<caseRec, matches, evidence, parties, property, proposal, decision, matter>>

\* The end of a request, whatever it has written.
Return(c) == requests' = [requests EXCEPT ![c] = Idle]

\* Service.AcceptProposal: the exception rule is applied to the proposal read
\* now; with no current proposal nothing is checked.
BeginAccept(c, note) ==
    /\ Exists
    /\ proposal # NoProposal => ExceptionAllowed(Readiness, proposal.decision, note)
    /\ Begin(c, [op |-> "accept", decision |-> proposal.decision, codes |-> proposal.codes,
                 note |-> IF proposal = NoProposal THEN note ELSE StoredNote(Readiness, note)])

\* Variant of FinishAccept: the proposal the service has checked is accepted.
AcceptCheckedProposal(c) ==
    /\ requests[c].op = "accept"
    /\ proposal # NoProposal
    /\ decision' = [decision |-> requests[c].decision, codes |-> requests[c].codes,
                    source |-> "accepted_proposal", exception |-> requests[c].note]
    /\ proposal' = NoProposal
    /\ caseRec' = ClosedAs(caseRec, "resolved")
    /\ matter' = SyncMatter("resolved")
    /\ Return(c)
    /\ UNCHANGED <<matches, evidence, parties, property>>

\* AcceptProposalWorkflow: accepts whatever proposal is current by now.
FinishAccept(c) ==
    /\ requests[c].op = "accept"
    /\ proposal # NoProposal
    /\ decision' = [decision |-> proposal.decision, codes |-> proposal.codes,
                    source |-> "accepted_proposal", exception |-> requests[c].note]
    /\ proposal' = NoProposal
    /\ caseRec' = ClosedAs(caseRec, "resolved")
    /\ matter' = SyncMatter("resolved")
    /\ Return(c)
    /\ UNCHANGED <<matches, evidence, parties, property>>

\* Variant of BeginRecord: the reason-code rules are skipped.
BeginRecordUnchecked(c, manual, note) ==
    /\ Exists
    /\ ExceptionAllowed(Readiness, manual.decision, note)
    /\ Begin(c, [op |-> "record", decision |-> manual.decision, codes |-> manual.codes,
                 note |-> StoredNote(Readiness, note)])

\* Service.RecordDecision, up to the store's workflow.
BeginRecord(c, manual, note) ==
    /\ Exists
    /\ DecisionCodesAllowed(manual.decision, manual.codes)
    /\ ExceptionAllowed(Readiness, manual.decision, note)
    /\ Begin(c, [op |-> "record", decision |-> manual.decision, codes |-> manual.codes,
                 note |-> StoredNote(Readiness, note)])

\* A manual decision overrides a current proposal it differs from.
SourceOf(manual) ==
    IF proposal # NoProposal /\ (proposal.decision # manual.decision \/ proposal.codes # manual.codes)
    THEN "manual_override" ELSE "manual"

\* RecordDecisionWorkflow: the proposal stays current.
FinishRecord(c) ==
    /\ requests[c].op = "record"
    /\ decision' = [decision |-> requests[c].decision, codes |-> requests[c].codes,
                    source |-> SourceOf(requests[c]), exception |-> requests[c].note]
    /\ caseRec' = ClosedAs(caseRec, "resolved")
    /\ matter' = SyncMatter("resolved")
    /\ Return(c)
    /\ UNCHANGED <<matches, evidence, parties, property, proposal>>

\* PilotStore.ReopenMatter: the customer status is checked, and the case
\* reopened in a transaction that does not look at it again. The case is not
\* re-evaluated.
BeginReopenMatter(c) ==
    /\ matter = "resolved"
    /\ Begin(c, [Idle EXCEPT !.op = "reopen"])

FinishReopenMatter(c) ==
    /\ requests[c].op = "reopen"
    /\ caseRec' = Reopened(caseRec)
    /\ matter' = "reopened"
    /\ Return(c)
    /\ UNCHANGED <<matches, evidence, parties, property, proposal, decision>>

\* A request ends without an effect: its client went away, or the transaction
\* was rolled back. AcceptProposalWorkflow rolls back when no proposal is current.
FailRequest(c) ==
    /\ requests[c] # Idle
    /\ Return(c)
    /\ UNCHANGED <<caseRec, matches, evidence, parties, property, proposal, decision, matter>>

\* The pipeline's core.* upserts change the linked property under the case.
PipelineUpdate(p) ==
    /\ property.sourced => p.sourced
    /\ property' = p
    /\ UNCHANGED <<caseRec, matches, evidence, parties, proposal, decision, matter, requests>>

-----------------------------------------------------------------------------
Creation ==
    \/ \E seed \in Seeds \cup {"none"}, found \in SUBSET Seeds, linked \in BOOLEAN,
          title \in CaseTitles : CreateCase(seed, found, linked, title)
    \/ \E linked \in BOOLEAN, title \in CaseTitles : CreateMatter(linked, title)

FileChange ==
    \/ \E s \in Seeds : ConfirmMatch(s)
    \/ RejectMatches
    \/ \E row \in NewEvidence : AddEvidence(row)
    \/ \E names \in {<<>>} \cup {<<n>> : n \in Owners} : AddParty(names)

Administration ==
    \/ Reassign
    \/ Reevaluate
    \/ \E codes \in ClosureCodes : CloseUnresolved(codes)
    \/ ReopenCase

RequestStep(c) ==
    \/ \E note \in BOOLEAN : BeginAccept(c, note)
    \/ FinishAccept(c)
    \/ \E manual \in ManualDecisions, note \in BOOLEAN : BeginRecord(c, manual, note)
    \/ FinishRecord(c)
    \/ BeginReopenMatter(c)
    \/ FinishReopenMatter(c)
    \/ FailRequest(c)

Next ==
    \/ Creation
    \/ FileChange
    \/ Administration
    \/ \E c \in Clients : RequestStep(c)
    \/ \E p \in Properties : PipelineUpdate(p)

Spec == Init /\ [][Next]_vars
-----------------------------------------------------------------------------
\* resolved_at is set exactly while the case is closed: ConfirmMatch moves a case
\* to in_review without touching it and relies on the auto-reopen before.
ClosedIffStamped == caseRec.resolvedAt <=> caseRec.status \in Closed

\* A resolved case shows a decision to the analyst and the customer.
ResolvedHasDecision == caseRec.status = "resolved" => decision # NoDecision

\* The customer is shown "resolved" exactly while the case is closed, though the
\* two rows are written by separate statements of ten workflows.
MatterResolvedIffClosed == matter # "none" => (matter = "resolved" <=> caseRec.status \in Closed)

\* The current proposal is the engine's answer to the case's present rows and to
\* some state of its property: no workflow that changes the rows forgets to
\* re-evaluate.
ProposalMatchesCase ==
    proposal # NoProposal =>
        \E p \in Properties : proposal = Propose(RowsOf(caseRec, evidence, parties), p)

\* A case nobody has decided always offers a proposal to accept; only a decision
\* leaves a case, reopened or not, without one.
UndecidedHasProposal == Exists /\ decision = NoDecision => proposal # NoProposal

\* Whichever way a decision came about, its codes support it: a clear cites clear
\* support and neither a hard block nor missing information, a stop cites a hard
\* block, a review neither a hard block nor clear support.
DecisionIsSound ==
    /\ decision.decision = "clear" =>
         /\ decision.codes \cap ClearSupport # {}
         /\ decision.codes \cap (HardBlock \cup UnresolvedInformation) = {}
    /\ decision.decision = "stop" => decision.codes \cap HardBlock # {}
    /\ decision.decision = "review" => decision.codes \cap (HardBlock \cup ClearSupport) = {}

\* What the engine calls clear, the service accepts without an exception, but for
\* one case: an analyst has overwritten the item generated for the linked property
\* with one that is captured only. The engine looks at the link and not at that
\* item, the readiness rules at the item.
RefusedClearWasOverwritten ==
    /\ proposal.decision = "clear" /\ caseRec.status # "resolved"
    /\ Readiness # "ready_for_decision"
    => /\ Readiness = "needs_evidence"
       /\ \E row \in evidence \cap NewEvidence :
             row.key = CanonicalKey /\ row.status = "captured"

\* Whether the file would be ready had it not been decided.
FileIsReady ==
    EvaluateEvidenceReadiness(
        [status    |-> caseRec.status,
         linked    |-> \/ caseRec.linkedProperty
                       \/ caseRec.linkedSeed # "none"
                       \/ \E s \in Seeds : matches[s] = "confirmed",
         evidence  |-> {e.status : e \in evidence},
         exception |-> FALSE]) = "ready_for_decision"

\* A resolved case was cleared only on a ready file: "clear decision requires
\* confirmed evidence".
ResolvedClearIsReady ==
    caseRec.status = "resolved" /\ decision.decision = "clear" => FileIsReady

\* A proposal may be replaced between the check of its acceptance and the
\* acceptance. What is accepted then is not what was checked; but it is the engine's
\* answer to the rows of the case at that moment, and never to outdated ones.
AcceptedAnswersTheCase ==
    [][proposal # NoProposal /\ proposal' = NoProposal =>
         \E p \in Properties :
            LET fresh == Propose(RowsOf(caseRec, evidence, parties), p)
            IN  decision'.decision = fresh.decision /\ decision'.codes = fresh.codes]_vars

\* What CaseLifecycle calls the phase of a case, and its file.
Phase ==
    CASE caseRec.status = "absent" -> "absent"
      [] caseRec.status = "resolved" -> "decided"
      [] caseRec.status = "closed_unresolved" -> "closed"
      [] OTHER -> "working"

File ==
    <<caseRec.linkedProperty, caseRec.linkedSeed, caseRec.title, matches, evidence, parties>>

\* The workflows keep the promises of CaseLifecycle: the file of a closed case
\* stays as it was, a verdict stays until replaced, the customer sees the phase.
Lifecycle == INSTANCE CaseLifecycle WITH
    NoVerdict <- NoDecision, NoMatter <- "none",
    phase <- Phase, file <- File, verdict <- decision, shown <- matter

LifecycleSpec == Lifecycle!Spec
=============================================================================
