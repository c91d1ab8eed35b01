------------------------- MODULE CaseWorkflowProofs -------------------------
(***************************************************************************)
(* The safety properties of CaseWorkflow, for any number of clients, seed  *)
(* properties, evidence items and parties, and its refinement of           *)
(* CaseLifecycle; and, for one request at a time, that a clear rests on a  *)
(* file that was ready.                                                    *)
(***************************************************************************)
EXTENDS CaseWorkflow, DecisionEngineProofs

\* What a request in flight has established, and still holds when it finishes.
InFlight ==
    \A c \in Clients :
        /\ requests[c] # Idle => Exists
        /\ requests[c].op = "record" =>
             /\ requests[c].decision \in DecisionOutcomes
             /\ DecisionCodesAllowed(requests[c].decision, requests[c].codes)
        /\ requests[c].op = "reopen" => matter # "none"

\* No matter link without a case.
MatterNeedsCase == ~Exists => matter = "none"

\* The current proposal obeys the reason-code rules.
ProposalIsSound ==
    proposal # NoProposal => DecisionCodesAllowed(proposal.decision, proposal.codes)

\* A linked case has a live canonical item, and it is confirmed as it was generated
\* unless an analyst has overwritten it.
LinkIsEvidenced ==
    caseRec.linkedProperty =>
        \E e \in evidence :
            /\ e.key = CanonicalKey /\ e.status # "superseded"
            /\ e.status = "confirmed" \/ e \in NewEvidence

IInv ==
    /\ TypeOK /\ property \in Properties
    /\ InFlight /\ MatterNeedsCase
    /\ ProposalIsSound /\ ProposalMatchesCase /\ LinkIsEvidenced
    /\ ClosedIffStamped /\ MatterResolvedIffClosed
    /\ ResolvedHasDecision /\ UndecidedHasProposal /\ DecisionIsSound

-----------------------------------------------------------------------------
LEMMA ProposeType ==
    ASSUME NEW c, NEW p
    PROVE  Propose(c, p) \in Proposals
BY ProposalsAreRecordable DEF Propose, Proposals

LEMMA GeneratedEvidenceType ==
    CanonicalEvidence \subseteq EvidenceRows /\ IntakeEvidence \subseteq EvidenceRows
<1>1. CanonicalKey \in EvidenceKeys /\ IntakeKey \in EvidenceKeys
  BY WorkflowConstants
<1> QED
  BY <1>1 DEF CanonicalEvidence, IntakeEvidence, EvidenceRows, EvidenceStatuses

LEMMA AutoReopenedType ==
    ASSUME TypeOK, Exists
    PROVE  /\ AutoReopened(caseRec) \in
                  [status : {"open", "in_review", "reopened"}, resolvedAt : BOOLEAN,
                   linkedProperty : BOOLEAN, linkedSeed : Seeds \cup {"none"},
                   title : Titles \cup {NoTitle}]
           /\ AutoReopened(caseRec).linkedProperty = caseRec.linkedProperty
           /\ AutoReopened(caseRec).linkedSeed = caseRec.linkedSeed
           /\ AutoReopened(caseRec).title = caseRec.title
BY DEF TypeOK, Exists, AutoReopened, Reopened, Closed, CaseStatuses

LEMMA SyncMatterType ==
    ASSUME TypeOK, NEW status \in CaseStatuses
    PROVE  SyncMatter(status) \in CustomerStatuses \cup {"none"}
BY DEF SyncMatter, CustomerStatus, CaseStatuses, CustomerStatuses, Closed

LEMMA InitType == Init => TypeOK /\ property \in Properties
<1> SUFFICES ASSUME Init PROVE TypeOK /\ property \in Properties
  OBVIOUS
<1>1. property \in PropertyRows
  BY WorkflowConstants DEF Init
<1>2. Idle \in Requests
  BY DEF Idle, Requests
<1> QED
  BY <1>1, <1>2 DEF Init, TypeOK, NoProposal, NoDecision

LEMMA NextType == TypeOK /\ property \in Properties /\ InFlight /\ [Next]_vars
                  => TypeOK' /\ (property \in Properties)'
<1> SUFFICES ASSUME TypeOK, property \in Properties, InFlight, [Next]_vars
             PROVE  TypeOK' /\ property' \in Properties
  OBVIOUS
<1> USE DEF TypeOK
<1>0. Idle \in Requests
  BY DEF Idle, Requests
<1>1. ASSUME NEW seed \in Seeds \cup {"none"}, NEW found \in SUBSET Seeds,
             NEW linked \in BOOLEAN, NEW title \in CaseTitles,
             CreateCase(seed, found, linked, title)
      PROVE  TypeOK' /\ property' \in Properties
  <2>1. title \in Titles \cup {NoTitle}
    BY WorkflowConstants
  <2>2. evidence' \subseteq EvidenceRows
    BY <1>1, GeneratedEvidenceType DEF CreateCase
  <2>3. proposal' \in Proposals
    BY <1>1, ProposeType DEF CreateCase, ReevaluateInTx
  <2>4. caseRec' \in [status : CaseStatuses \cup {"absent"}, resolvedAt : BOOLEAN,
                    linkedProperty : BOOLEAN, linkedSeed : Seeds \cup {"none"},
                    title : Titles \cup {NoTitle}]
    BY <1>1, <2>1 DEF CreateCase, CaseStatuses
  <2>5. matches' \in [Seeds -> {"none", "candidate", "confirmed", "rejected"}]
    BY <1>1 DEF CreateCase
  <2> QED
    BY <1>1, <2>2, <2>3, <2>4, <2>5 DEF CreateCase
<1>2. ASSUME NEW linked \in BOOLEAN, NEW title \in CaseTitles, CreateMatter(linked, title)
      PROVE  TypeOK' /\ property' \in Properties
  <2>1. title \in Titles \cup {NoTitle}
    BY WorkflowConstants
  <2>2. evidence' \subseteq EvidenceRows
    BY <1>2, GeneratedEvidenceType DEF CreateMatter
  <2>3. proposal' \in Proposals
    BY <1>2, ProposeType DEF CreateMatter, ReevaluateInTx
  <2> QED
    BY <1>2, <2>1, <2>2, <2>3 DEF CreateMatter, CaseStatuses, CustomerStatuses
<1>3. ASSUME NEW s \in Seeds, ConfirmMatch(s)
      PROVE  TypeOK' /\ property' \in Properties
  <2>1. proposal' \in Proposals
    BY <1>3, ProposeType DEF ConfirmMatch, ReevaluateInTx
  <2>2. matter' \in CustomerStatuses \cup {"none"}
    BY <1>3, SyncMatterType DEF ConfirmMatch, CaseStatuses
  <2>3. matches' \in [Seeds -> {"none", "candidate", "confirmed", "rejected"}]
    BY <1>3 DEF ConfirmMatch
  <2>4. caseRec' \in [status : CaseStatuses \cup {"absent"}, resolvedAt : BOOLEAN,
                    linkedProperty : BOOLEAN, linkedSeed : Seeds \cup {"none"},
                    title : Titles \cup {NoTitle}]
    BY <1>3, AutoReopenedType DEF ConfirmMatch, CaseStatuses
  <2> QED
    BY <1>3, <2>1, <2>2, <2>3, <2>4 DEF ConfirmMatch
<1>4. ASSUME RejectMatches
      PROVE  TypeOK' /\ property' \in Properties
  <2>1. proposal' \in Proposals
    BY <1>4, ProposeType DEF RejectMatches, ReevaluateInTx
  <2>2. matter' \in CustomerStatuses \cup {"none"}
    BY <1>4, SyncMatterType DEF RejectMatches, CaseStatuses
  <2>3. matches' \in [Seeds -> {"none", "candidate", "confirmed", "rejected"}]
    BY <1>4 DEF RejectMatches
  <2> QED
    BY <1>4, <2>1, <2>2, <2>3, AutoReopenedType DEF RejectMatches, CaseStatuses
<1>5. ASSUME NEW row \in NewEvidence, AddEvidence(row)
      PROVE  TypeOK' /\ property' \in Properties
  <2>1. proposal' \in Proposals
    BY <1>5, ProposeType DEF AddEvidence, ReevaluateInTx
  <2>2. matter' \in CustomerStatuses \cup {"none"}
    BY <1>5, SyncMatterType DEF AddEvidence, CaseStatuses
  <2>3. evidence' \subseteq EvidenceRows
    BY <1>5, WorkflowConstants DEF AddEvidence, UpsertEvidence
  <2> QED
    BY <1>5, <2>1, <2>2, <2>3, AutoReopenedType DEF AddEvidence, CaseStatuses
<1>6. ASSUME NEW names \in {<<>>} \cup {<<n>> : n \in Owners}, AddParty(names)
      PROVE  TypeOK' /\ property' \in Properties
  <2>1. proposal' \in Proposals
    BY <1>6, ProposeType DEF AddParty, ReevaluateInTx
  <2>2. matter' \in CustomerStatuses \cup {"none"}
    BY <1>6, SyncMatterType DEF AddParty, CaseStatuses
  <2>3. parties' \in Seq(Owners)
    <3>1. names \in Seq(Owners)
      <4>1. CASE names = <<>>
        BY <4>1
      <4>2. ASSUME NEW n \in Owners, names = <<n>> PROVE names \in Seq(Owners)
        BY <4>2
      <4> QED
        BY <4>1, <4>2
    <3> QED
      BY <1>6, <3>1 DEF AddParty
  <2> QED
    BY <1>6, <2>1, <2>2, <2>3, AutoReopenedType DEF AddParty, CaseStatuses
<1>7. ASSUME Reassign
      PROVE  TypeOK' /\ property' \in Properties
  <2>1. matter' \in CustomerStatuses \cup {"none"}
    BY <1>7, SyncMatterType DEF Reassign, CaseStatuses
  <2> QED
    BY <1>7, <2>1, AutoReopenedType DEF Reassign, CaseStatuses
<1>8. ASSUME Reevaluate
      PROVE  TypeOK' /\ property' \in Properties
  BY <1>8, ProposeType DEF Reevaluate, ReevaluateInTx
<1>9. ASSUME NEW codes \in ClosureCodes, CloseUnresolved(codes)
      PROVE  TypeOK' /\ property' \in Properties
  <2>1. matter' \in CustomerStatuses \cup {"none"}
    BY <1>9, SyncMatterType DEF CloseUnresolved, CaseStatuses
  <2> QED
    BY <1>9, <2>1 DEF CloseUnresolved, ClosedAs, CaseStatuses
<1>10. ASSUME ReopenCase
       PROVE  TypeOK' /\ property' \in Properties
  <2>1. matter' \in CustomerStatuses \cup {"none"}
    BY <1>10, SyncMatterType DEF ReopenCase, CaseStatuses
  <2>2. proposal' \in Proposals
    BY <1>10, ProposeType DEF ReopenCase, ReevaluateInTx
  <2> QED
    BY <1>10, <2>1, <2>2 DEF ReopenCase, Reopened, CaseStatuses
<1>11. ASSUME NEW c \in Clients, NEW r \in Requests, Begin(c, r)
       PROVE  TypeOK' /\ property' \in Properties
  BY <1>11 DEF Begin
<1>12. ASSUME NEW c \in Clients, NEW note \in BOOLEAN, BeginAccept(c, note)
       PROVE  TypeOK' /\ property' \in Properties
  <2> DEFINE r == [op |-> "accept", decision |-> proposal.decision, codes |-> proposal.codes,
                   note |-> IF proposal = NoProposal THEN note ELSE StoredNote(Readiness, note)]
  <2>1. /\ proposal.decision \in DecisionOutcomes \cup {"none"}
        /\ proposal.codes \in SUBSET ReasonCodes
    BY DEF Proposals, NoProposal
  <2>2. StoredNote(Readiness, note) \in BOOLEAN
    BY DEF StoredNote
  <2>3. r \in Requests
    BY <2>1, <2>2 DEF Requests
  <2> QED
    BY <1>11, <1>12, <2>3 DEF BeginAccept
<1>13. ASSUME NEW c \in Clients, NEW manual \in ManualDecisions, NEW note \in BOOLEAN,
              BeginRecord(c, manual, note)
       PROVE  TypeOK' /\ property' \in Properties
  <2> DEFINE r == [op |-> "record", decision |-> manual.decision, codes |-> manual.codes,
                   note |-> StoredNote(Readiness, note)]
  <2>1. manual \in Proposals
    BY WorkflowConstants
  <2>2. r \in Requests
    BY <2>1 DEF Requests, StoredNote, Proposals
  <2> QED
    BY <1>11, <1>13, <2>2 DEF BeginRecord
<1>14. ASSUME NEW c \in Clients, BeginReopenMatter(c)
       PROVE  TypeOK' /\ property' \in Properties
  <2>1. [Idle EXCEPT !.op = "reopen"] \in Requests
    BY DEF Requests, Idle
  <2> QED
    BY <1>11, <1>14, <2>1 DEF BeginReopenMatter
<1>15. ASSUME NEW c \in Clients, FinishAccept(c)
       PROVE  TypeOK' /\ property' \in Properties
  <2>1. proposal \in Proposals /\ requests[c] \in Requests
    BY <1>15 DEF FinishAccept
  <2>2. decision' \in Decisions
    BY <1>15, <2>1 DEF FinishAccept, Proposals, Decisions, Requests
  <2>3. matter' \in CustomerStatuses \cup {"none"}
    BY <1>15, SyncMatterType DEF FinishAccept, CaseStatuses
  <2> QED
    BY <1>0, <1>15, <2>2, <2>3 DEF FinishAccept, ClosedAs, Return, CaseStatuses
<1>16. ASSUME NEW c \in Clients, FinishRecord(c)
       PROVE  TypeOK' /\ property' \in Properties
  <2>1. requests[c] \in Requests /\ requests[c].decision \in DecisionOutcomes
    BY <1>16 DEF InFlight, FinishRecord
  <2>2. decision' \in Decisions
    BY <1>16, <2>1 DEF FinishRecord, SourceOf, Decisions, Requests
  <2>3. matter' \in CustomerStatuses \cup {"none"}
    BY <1>16, SyncMatterType DEF FinishRecord, CaseStatuses
  <2> QED
    BY <1>0, <1>16, <2>2, <2>3 DEF FinishRecord, ClosedAs, Return, CaseStatuses
<1>17. ASSUME NEW c \in Clients, FinishReopenMatter(c)
       PROVE  TypeOK' /\ property' \in Properties
  BY <1>0, <1>17 DEF FinishReopenMatter, Reopened, Return, CaseStatuses, CustomerStatuses
<1>18. ASSUME NEW c \in Clients, FailRequest(c)
       PROVE  TypeOK' /\ property' \in Properties
  BY <1>0, <1>18 DEF FailRequest, Return
<1>19. ASSUME NEW p \in Properties, PipelineUpdate(p)
       PROVE  TypeOK' /\ property' \in Properties
  BY <1>19, WorkflowConstants DEF PipelineUpdate
<1>20. CASE UNCHANGED vars
  BY <1>20 DEF vars
<1> QED
  BY <1>1, <1>2, <1>3, <1>4, <1>5, <1>6, <1>7, <1>8, <1>9, <1>10, <1>12, <1>13, <1>14,
     <1>15, <1>16, <1>17, <1>18, <1>19, <1>20, ZenonT(30)
     DEF Next, Creation, FileChange, Administration, RequestStep

-----------------------------------------------------------------------------
(***************************************************************************)
(* What a step does to the case, the decision and the matter is one of     *)
(* five things.                                                            *)
(***************************************************************************)
MatterFollows(statuses) == IF matter = "none" THEN matter' = "none" ELSE matter' \in statuses

Opened ==
    /\ ~Exists
    /\ caseRec'.status \in {"open", "in_review"} /\ ~caseRec'.resolvedAt
    /\ matter' \in {"none", "submitted"}
    /\ decision' = decision

Worked ==
    /\ Exists
    /\ caseRec'.status \in {"open", "in_review", "reopened"} /\ ~caseRec'.resolvedAt
    /\ MatterFollows({"submitted", "in_review", "reopened"})
    /\ decision' = decision

Decided ==
    /\ Exists
    /\ caseRec'.status = "resolved" /\ caseRec'.resolvedAt
    /\ MatterFollows({"resolved"})
    /\ decision' \in Decisions
    /\ DecisionCodesAllowed(decision'.decision, decision'.codes)
    /\ File' = File

ClosedUp ==
    /\ Exists
    /\ caseRec'.status = "closed_unresolved" /\ caseRec'.resolvedAt
    /\ MatterFollows({"resolved"})
    /\ decision' = decision
    /\ File' = File

Unmoved == UNCHANGED <<caseRec, matches, evidence, parties, decision, matter>>

\* A workflow that goes on with the auto-reopened case works on it.
LEMMA AutoReopenWorks ==
    ASSUME TypeOK, ClosedIffStamped, Exists
    PROVE  /\ AutoReopened(caseRec).status \in {"open", "in_review", "reopened"}
           /\ ~AutoReopened(caseRec).resolvedAt
BY DEF TypeOK, ClosedIffStamped, Exists, AutoReopened, Reopened, Closed, CaseStatuses

LEMMA ClosingKeepsFile ==
    ASSUME TypeOK, NEW status \in Closed, caseRec' = ClosedAs(caseRec, status),
           UNCHANGED <<matches, evidence, parties>>
    PROVE  File' = File /\ caseRec'.status = status /\ caseRec'.resolvedAt
BY DEF TypeOK, ClosedAs, File, Closed

LEMMA StepKind ==
    ASSUME IInv, [Next]_vars
    PROVE  Opened \/ Worked \/ Decided \/ ClosedUp \/ Unmoved
<1> USE DEF IInv
<1>1. ASSUME NEW seed \in Seeds \cup {"none"}, NEW found \in SUBSET Seeds,
             NEW linked \in BOOLEAN, NEW title \in CaseTitles,
             CreateCase(seed, found, linked, title)
      PROVE  Opened
  BY <1>1 DEF CreateCase, Opened, MatterNeedsCase
<1>2. ASSUME NEW linked \in BOOLEAN, NEW title \in CaseTitles, CreateMatter(linked, title)
      PROVE  Opened
  BY <1>2 DEF CreateMatter, Opened
<1>3. ASSUME NEW s \in Seeds, ConfirmMatch(s)
      PROVE  Worked
  <2>1. caseRec'.status = "in_review" /\ caseRec'.resolvedAt = AutoReopened(caseRec).resolvedAt
    BY <1>3, AutoReopenedType DEF ConfirmMatch
  <2> QED
    BY <1>3, <2>1, AutoReopenWorks
       DEF ConfirmMatch, Worked, MatterFollows, SyncMatter, CustomerStatus, Closed
<1>4. CASE RejectMatches
  BY <1>4, AutoReopenWorks
     DEF RejectMatches, Worked, MatterFollows, SyncMatter, CustomerStatus, Closed
<1>5. ASSUME NEW row \in NewEvidence, AddEvidence(row)
      PROVE  Worked
  BY <1>5, AutoReopenWorks
     DEF AddEvidence, Worked, MatterFollows, SyncMatter, CustomerStatus, Closed
<1>6. ASSUME NEW names \in {<<>>} \cup {<<n>> : n \in Owners}, AddParty(names)
      PROVE  Worked
  BY <1>6, AutoReopenWorks
     DEF AddParty, Worked, MatterFollows, SyncMatter, CustomerStatus, Closed
<1>7. ASSUME Reassign
      PROVE  Worked
  <2>1. MatterFollows({"submitted", "in_review", "reopened"})
    BY <1>7 DEF Reassign, MatterFollows, SyncMatter, CustomerStatus, Closed,
                MatterResolvedIffClosed, TypeOK, CustomerStatuses
  <2> QED
    BY <1>7, <2>1, AutoReopenWorks DEF Reassign, Worked
<1>8. CASE Reevaluate
  BY <1>8 DEF Reevaluate, Unmoved
<1>9. ASSUME NEW codes \in ClosureCodes, CloseUnresolved(codes)
      PROVE  ClosedUp
  BY <1>9, ClosingKeepsFile
     DEF CloseUnresolved, ClosedUp, MatterFollows, SyncMatter, CustomerStatus, Closed
<1>10. ASSUME ReopenCase
       PROVE  Worked
  BY <1>10 DEF ReopenCase, Reopened, TypeOK, Worked, MatterFollows, SyncMatter, CustomerStatus, Closed
<1>11. ASSUME NEW c \in Clients, NEW r, Begin(c, r)
       PROVE  Unmoved
  BY <1>11 DEF Begin, Unmoved
<1>12. ASSUME NEW c \in Clients, NEW note \in BOOLEAN, BeginAccept(c, note)
       PROVE  Unmoved
  BY <1>11, <1>12 DEF BeginAccept
<1>13. ASSUME NEW c \in Clients, NEW manual \in ManualDecisions, NEW note \in BOOLEAN,
              BeginRecord(c, manual, note)
       PROVE  Unmoved
  BY <1>11, <1>13 DEF BeginRecord
<1>14. ASSUME NEW c \in Clients, BeginReopenMatter(c)
       PROVE  Unmoved
  BY <1>11, <1>14 DEF BeginReopenMatter
<1>15. ASSUME NEW c \in Clients, FinishAccept(c)
       PROVE  Decided
  <2>1. Exists /\ requests[c] \in Requests
    BY <1>15 DEF FinishAccept, InFlight, Idle, TypeOK
  <2>2. proposal \in Proposals /\ DecisionCodesAllowed(proposal.decision, proposal.codes)
    BY <1>15 DEF FinishAccept, ProposalIsSound, TypeOK
  <2>3. /\ decision' \in Decisions
        /\ decision'.decision = proposal.decision /\ decision'.codes = proposal.codes
    BY <1>15, <2>1, <2>2 DEF FinishAccept, Proposals, Decisions, Requests
  <2>4. MatterFollows({"resolved"})
    BY <1>15 DEF FinishAccept, MatterFollows, SyncMatter, CustomerStatus, Closed
  <2>5. File' = File /\ caseRec'.status = "resolved" /\ caseRec'.resolvedAt
    BY <1>15, ClosingKeepsFile DEF FinishAccept, Closed
  <2> QED
    BY <2>1, <2>2, <2>3, <2>4, <2>5 DEF Decided
<1>16. ASSUME NEW c \in Clients, FinishRecord(c)
       PROVE  Decided
  <2>1. /\ Exists /\ requests[c] \in Requests /\ requests[c].decision \in DecisionOutcomes
        /\ DecisionCodesAllowed(requests[c].decision, requests[c].codes)
    BY <1>16 DEF FinishRecord, InFlight, Idle, TypeOK
  <2>2. /\ decision' \in Decisions
        /\ decision'.decision = requests[c].decision /\ decision'.codes = requests[c].codes
    BY <1>16, <2>1 DEF FinishRecord, SourceOf, Decisions, Requests
  <2>3. MatterFollows({"resolved"})
    BY <1>16 DEF FinishRecord, MatterFollows, SyncMatter, CustomerStatus, Closed
  <2>4. File' = File /\ caseRec'.status = "resolved" /\ caseRec'.resolvedAt
    BY <1>16, ClosingKeepsFile DEF FinishRecord, Closed
  <2> QED
    BY <2>1, <2>2, <2>3, <2>4 DEF Decided
<1>17. ASSUME NEW c \in Clients, FinishReopenMatter(c)
       PROVE  Worked
  <2>1. Exists /\ matter # "none"
    BY <1>17 DEF FinishReopenMatter, InFlight, Idle
  <2> QED
    BY <1>17, <2>1 DEF FinishReopenMatter, Reopened, TypeOK, Worked, MatterFollows
<1>18. ASSUME NEW c \in Clients, FailRequest(c)
       PROVE  Unmoved
  BY <1>18 DEF FailRequest, Unmoved
<1>19. ASSUME NEW p \in Properties, PipelineUpdate(p)
       PROVE  Unmoved
  BY <1>19 DEF PipelineUpdate, Unmoved
<1>20. CASE UNCHANGED vars
  BY <1>20 DEF vars, Unmoved
<1> QED
  BY <1>1, <1>2, <1>3, <1>4, <1>5, <1>6, <1>7, <1>8, <1>9, <1>10, <1>12, <1>13, <1>14,
     <1>15, <1>16, <1>17, <1>18, <1>19, <1>20
     DEF Next, Creation, FileChange, Administration, RequestStep

-----------------------------------------------------------------------------
(***************************************************************************)
(* What a step does to the proposal is one of three things: it follows the *)
(* new rows, or it stays and so do the rows it was computed from, or it is *)
(* accepted.                                                               *)
(***************************************************************************)
Rows == RowsOf(caseRec, evidence, parties)

Reevaluated == proposal' = Propose(Rows', property)

Kept ==
    /\ proposal' = proposal /\ Rows' = Rows
    /\ Exists' => Exists
    /\ decision' = decision \/ decision' \in Decisions

Accepted == proposal' = NoProposal /\ decision' \in Decisions

\* A case row that differs in its status only gives the same rows.
LEMMA SameRows ==
    ASSUME UNCHANGED <<evidence, parties>>,
           caseRec'.linkedProperty = caseRec.linkedProperty, caseRec'.title = caseRec.title
    PROVE  Rows' = Rows
BY DEF Rows, RowsOf

LEMMA ProposalStep ==
    ASSUME IInv, [Next]_vars
    PROVE  Reevaluated \/ Kept \/ Accepted
<1> USE DEF IInv
<1>1. ASSUME NEW seed \in Seeds \cup {"none"}, NEW found \in SUBSET Seeds,
             NEW linked \in BOOLEAN, NEW title \in CaseTitles,
             CreateCase(seed, found, linked, title)
      PROVE  Reevaluated
  BY <1>1 DEF CreateCase, ReevaluateInTx, Reevaluated, Rows
<1>2. ASSUME NEW linked \in BOOLEAN, NEW title \in CaseTitles, CreateMatter(linked, title)
      PROVE  Reevaluated
  BY <1>2 DEF CreateMatter, ReevaluateInTx, Reevaluated, Rows
<1>3. ASSUME NEW s \in Seeds, ConfirmMatch(s)
      PROVE  Reevaluated
  BY <1>3 DEF ConfirmMatch, ReevaluateInTx, Reevaluated, Rows
<1>4. CASE RejectMatches
  BY <1>4 DEF RejectMatches, ReevaluateInTx, Reevaluated, Rows
<1>5. ASSUME NEW row \in NewEvidence, AddEvidence(row)
      PROVE  Reevaluated
  BY <1>5 DEF AddEvidence, ReevaluateInTx, Reevaluated, Rows
<1>6. ASSUME NEW names \in {<<>>} \cup {<<n>> : n \in Owners}, AddParty(names)
      PROVE  Reevaluated
  BY <1>6 DEF AddParty, ReevaluateInTx, Reevaluated, Rows
<1>7. ASSUME Reassign
      PROVE  Kept
  <2>1. caseRec'.linkedProperty = caseRec.linkedProperty /\ caseRec'.title = caseRec.title
    BY <1>7, AutoReopenedType DEF Reassign
  <2>2. Rows' = Rows
    BY <1>7, <2>1, SameRows DEF Reassign
  <2> QED
    BY <1>7, <2>2 DEF Reassign, Kept
<1>8. CASE Reevaluate
  BY <1>8 DEF Reevaluate, ReevaluateInTx, Reevaluated, Rows
<1>9. ASSUME NEW codes \in ClosureCodes, CloseUnresolved(codes)
      PROVE  Kept
  <2>1. caseRec'.linkedProperty = caseRec.linkedProperty /\ caseRec'.title = caseRec.title
    BY <1>9 DEF CloseUnresolved, ClosedAs, TypeOK
  <2>2. Rows' = Rows
    BY <1>9, <2>1, SameRows DEF CloseUnresolved
  <2> QED
    BY <1>9, <2>2 DEF CloseUnresolved, Kept
<1>10. CASE ReopenCase
  BY <1>10 DEF ReopenCase, ReevaluateInTx, Reevaluated, Rows
<1>11. ASSUME UNCHANGED <<caseRec, evidence, parties, proposal, decision>>
       PROVE  Kept
  BY <1>11, SameRows DEF Kept, Exists
<1>12. ASSUME NEW c \in Clients, NEW note \in BOOLEAN, BeginAccept(c, note)
       PROVE  Kept
  BY <1>11, <1>12 DEF BeginAccept, Begin
<1>13. ASSUME NEW c \in Clients, NEW manual \in ManualDecisions, NEW note \in BOOLEAN,
              BeginRecord(c, manual, note)
       PROVE  Kept
  BY <1>11, <1>13 DEF BeginRecord, Begin
<1>14. ASSUME NEW c \in Clients, BeginReopenMatter(c)
       PROVE  Kept
  BY <1>11, <1>14 DEF BeginReopenMatter, Begin
<1>15. ASSUME NEW c \in Clients, FinishAccept(c)
       PROVE  Accepted
  <2>1. proposal \in Proposals /\ requests[c] \in Requests
    BY <1>15 DEF FinishAccept, TypeOK
  <2> QED
    BY <1>15, <2>1 DEF FinishAccept, Accepted, Proposals, Decisions, Requests
<1>16. ASSUME NEW c \in Clients, FinishRecord(c)
       PROVE  Kept
  <2>1. /\ Exists /\ requests[c] \in Requests
        /\ requests[c].decision \in DecisionOutcomes
    BY <1>16 DEF FinishRecord, InFlight, Idle, TypeOK
  <2>2. decision' \in Decisions
    BY <1>16, <2>1 DEF FinishRecord, SourceOf, Decisions, Requests
  <2>3. caseRec'.linkedProperty = caseRec.linkedProperty /\ caseRec'.title = caseRec.title
    BY <1>16 DEF FinishRecord, ClosedAs, TypeOK
  <2>4. Rows' = Rows
    BY <1>16, <2>3, SameRows DEF FinishRecord
  <2> QED
    BY <1>16, <2>1, <2>2, <2>4 DEF FinishRecord, Kept
<1>17. ASSUME NEW c \in Clients, FinishReopenMatter(c)
       PROVE  Kept
  <2>1. Exists
    BY <1>17 DEF FinishReopenMatter, InFlight, Idle
  <2>2. caseRec'.linkedProperty = caseRec.linkedProperty /\ caseRec'.title = caseRec.title
    BY <1>17 DEF FinishReopenMatter, Reopened, TypeOK
  <2>3. Rows' = Rows
    BY <1>17, <2>2, SameRows DEF FinishReopenMatter
  <2> QED
    BY <1>17, <2>1, <2>3 DEF FinishReopenMatter, Kept
<1>18. ASSUME NEW c \in Clients, FailRequest(c)
       PROVE  Kept
  BY <1>11, <1>18 DEF FailRequest
<1>19. ASSUME NEW p \in Properties, PipelineUpdate(p)
       PROVE  Kept
  BY <1>11, <1>19 DEF PipelineUpdate
<1>20. CASE UNCHANGED vars
  BY <1>11, <1>20 DEF vars
<1> QED
  BY <1>1, <1>2, <1>3, <1>4, <1>5, <1>6, <1>7, <1>8, <1>9, <1>10, <1>12, <1>13, <1>14,
     <1>15, <1>16, <1>17, <1>18, <1>19, <1>20
     DEF Next, Creation, FileChange, Administration, RequestStep

\* The three facts about the proposal are kept.
LEMMA ProposalKept ==
    ASSUME IInv, [Next]_vars
    PROVE  ProposalIsSound' /\ ProposalMatchesCase' /\ UndecidedHasProposal'
<1> USE DEF IInv
<1>1. CASE Reevaluated
  <2>1. proposal' \in Proposals
    BY <1>1, ProposeType DEF Reevaluated
  <2>2. proposal' # NoProposal
    BY <2>1 DEF Proposals, NoProposal, DecisionOutcomes
  <2>3. DecisionCodesAllowed(proposal'.decision, proposal'.codes)
    BY <1>1, ProposalsAreRecordable DEF Reevaluated, Propose
  <2> QED
    BY <1>1, <2>2, <2>3
       DEF Reevaluated, Rows, ProposalIsSound, ProposalMatchesCase, UndecidedHasProposal
<1>2. ASSUME decision' \in Decisions
      PROVE  decision' # NoDecision
  BY <1>2 DEF Decisions, NoDecision, DecisionOutcomes
<1>3. CASE Kept
  <2>1. ProposalIsSound'
    BY <1>3 DEF Kept, ProposalIsSound
  <2>2. ProposalMatchesCase'
    BY <1>3 DEF Kept, ProposalMatchesCase, Rows
  <2>3. UndecidedHasProposal'
    BY <1>2, <1>3 DEF Kept, UndecidedHasProposal
  <2> QED
    BY <2>1, <2>2, <2>3
<1>4. CASE Accepted
  BY <1>2, <1>4 DEF Accepted, ProposalIsSound, ProposalMatchesCase, UndecidedHasProposal
<1> QED
  BY <1>1, <1>3, <1>4, ProposalStep

-----------------------------------------------------------------------------
(***************************************************************************)
(* A step leaves a request as it is, ends it, or begins one that has       *)
(* established what InFlight says of it.                                   *)
(***************************************************************************)
Established(r) ==
    /\ Exists
    /\ r.op = "record" => /\ r.decision \in DecisionOutcomes
                          /\ DecisionCodesAllowed(r.decision, r.codes)
    /\ r.op = "reopen" => matter # "none"

RequestsMove ==
    \A d \in Clients :
        requests'[d] = requests[d] \/ requests'[d] = Idle \/ Established(requests'[d])

LEMMA OneRequestMoves ==
    ASSUME TypeOK, NEW c \in Clients, NEW r, requests' = [requests EXCEPT ![c] = r],
           r = Idle \/ Established(r)
    PROVE  RequestsMove
BY DEF TypeOK, RequestsMove

LEMMA RequestSteps ==
    ASSUME IInv, [Next]_vars
    PROVE  RequestsMove
<1> USE DEF IInv
<1>1. CASE requests' = requests
  BY <1>1 DEF RequestsMove
<1>2. CASE Creation \/ FileChange \/ Administration \/ UNCHANGED vars
           \/ \E p \in Properties : PipelineUpdate(p)
  BY <1>1, <1>2 DEF Creation, CreateCase, CreateMatter, FileChange, ConfirmMatch, RejectMatches,
       AddEvidence, AddParty, Administration, Reassign, Reevaluate, CloseUnresolved,
       ReopenCase, PipelineUpdate, vars
<1>3. ASSUME NEW c \in Clients, Return(c)
      PROVE  RequestsMove
  BY <1>3, OneRequestMoves DEF Return
<1>4. ASSUME NEW c \in Clients, NEW note \in BOOLEAN, BeginAccept(c, note)
      PROVE  RequestsMove
  <2> DEFINE r == [op |-> "accept", decision |-> proposal.decision, codes |-> proposal.codes,
                   note |-> IF proposal = NoProposal THEN note ELSE StoredNote(Readiness, note)]
  <2>1. Established(r)
    BY <1>4 DEF BeginAccept, Established
  <2>2. requests' = [requests EXCEPT ![c] = r]
    BY <1>4 DEF BeginAccept, Begin
  <2> HIDE DEF r
  <2> QED
    BY <2>1, <2>2, OneRequestMoves
<1>5. ASSUME NEW c \in Clients, NEW manual \in ManualDecisions, NEW note \in BOOLEAN,
             BeginRecord(c, manual, note)
      PROVE  RequestsMove
  <2> DEFINE r == [op |-> "record", decision |-> manual.decision, codes |-> manual.codes,
                   note |-> StoredNote(Readiness, note)]
  <2>1. manual.decision \in DecisionOutcomes
    BY WorkflowConstants DEF Proposals
  <2>2. Established(r)
    BY <1>5, <2>1 DEF BeginRecord, Established
  <2>3. requests' = [requests EXCEPT ![c] = r]
    BY <1>5 DEF BeginRecord, Begin
  <2> HIDE DEF r
  <2> QED
    BY <2>2, <2>3, OneRequestMoves
<1>6. ASSUME NEW c \in Clients, BeginReopenMatter(c)
      PROVE  RequestsMove
  <2> DEFINE r == [Idle EXCEPT !.op = "reopen"]
  <2>1. Exists /\ matter # "none"
    BY <1>6 DEF BeginReopenMatter, MatterNeedsCase
  <2>2. Established(r)
    BY <2>1 DEF Established, Idle
  <2>3. requests' = [requests EXCEPT ![c] = r]
    BY <1>6 DEF BeginReopenMatter, Begin
  <2> HIDE DEF r
  <2> QED
    BY <2>2, <2>3, OneRequestMoves
<1>7. ASSUME NEW c \in Clients,
             FinishAccept(c) \/ FinishRecord(c) \/ FinishReopenMatter(c) \/ FailRequest(c)
      PROVE  RequestsMove
  BY <1>3, <1>7 DEF FinishAccept, FinishRecord, FinishReopenMatter, FailRequest
<1> QED
  BY <1>2, <1>4, <1>5, <1>6, <1>7 DEF Next, RequestStep

\* A case, once created, stays, and so does its matter link.
LEMMA CaseStays ==
    ASSUME TypeOK, MatterNeedsCase, Opened \/ Worked \/ Decided \/ ClosedUp \/ Unmoved
    PROVE  (Exists => Exists') /\ (Exists /\ matter # "none" => matter' # "none")
<1>1. CASE Opened
  BY <1>1 DEF Opened, Exists
<1>2. CASE Worked \/ Decided \/ ClosedUp
  BY <1>2 DEF Worked, Decided, ClosedUp, MatterFollows, Exists
<1>3. CASE Unmoved
  BY <1>3 DEF Unmoved, Exists
<1> QED
  BY <1>1, <1>2, <1>3

LEMMA InFlightKept ==
    ASSUME IInv, [Next]_vars
    PROVE  InFlight'
<1> USE DEF IInv
<1>1. (Exists => Exists') /\ (Exists /\ matter # "none" => matter' # "none")
  BY StepKind, CaseStays
<1> SUFFICES ASSUME NEW c \in Clients
    PROVE  /\ requests'[c] # Idle => Exists'
           /\ requests'[c].op = "record" =>
                /\ requests'[c].decision \in DecisionOutcomes
                /\ DecisionCodesAllowed(requests'[c].decision, requests'[c].codes)
           /\ requests'[c].op = "reopen" => matter' # "none"
  BY DEF InFlight
<1>2. CASE requests'[c] = requests[c]
  BY <1>1, <1>2 DEF InFlight, Idle
<1>3. CASE requests'[c] = Idle
  BY <1>3 DEF Idle
<1>4. CASE Established(requests'[c])
  BY <1>1, <1>4 DEF Established
<1> QED
  BY <1>2, <1>3, <1>4, RequestSteps DEF RequestsMove

-----------------------------------------------------------------------------
(***************************************************************************)
(* The link of a case is made at its creation, with its evidence. The link *)
(* never changes; only evidence an analyst submits takes the place of a    *)
(* live item, and only evidence that is live itself.                       *)
(***************************************************************************)
LinkStays ==
    /\ caseRec'.linkedProperty = caseRec.linkedProperty
    /\ \A e \in evidence :
          e.key = CanonicalKey /\ e.status # "superseded" =>
              \/ e \in evidence'
              \/ \E row \in evidence' \cap NewEvidence :
                    row.key = CanonicalKey /\ row.status # "superseded"

LEMMA LinkKept ==
    ASSUME IInv, [Next]_vars
    PROVE  LinkIsEvidenced'
<1> USE DEF IInv
<1>1. ASSUME NEW seed \in Seeds \cup {"none"}, NEW found \in SUBSET Seeds,
             NEW linked \in BOOLEAN, NEW title \in CaseTitles,
             CreateCase(seed, found, linked, title)
      PROVE  LinkIsEvidenced'
  <2>1. caseRec'.linkedProperty = linked
    BY <1>1 DEF CreateCase
  <2>2. linked => CanonicalEvidence \subseteq evidence'
    BY <1>1 DEF CreateCase
  <2> QED
    BY <2>1, <2>2 DEF LinkIsEvidenced, CanonicalEvidence
<1>2. ASSUME NEW linked \in BOOLEAN, NEW title \in CaseTitles, CreateMatter(linked, title)
      PROVE  LinkIsEvidenced'
  BY <1>2 DEF CreateMatter, LinkIsEvidenced, CanonicalEvidence
<1>3. ASSUME LinkStays
      PROVE  LinkIsEvidenced'
  BY <1>3 DEF LinkStays, LinkIsEvidenced
<1>4. ASSUME NEW s \in Seeds, ConfirmMatch(s)
      PROVE  LinkStays
  <2>1. caseRec'.linkedProperty = AutoReopened(caseRec).linkedProperty
    BY <1>4, AutoReopenedType DEF ConfirmMatch
  <2> QED
    BY <1>4, <2>1, AutoReopenedType DEF ConfirmMatch, LinkStays
<1>5. ASSUME RejectMatches \/ Reassign
             \/ \E names \in {<<>>} \cup {<<n>> : n \in Owners} : AddParty(names)
      PROVE  LinkStays
  BY <1>5, AutoReopenedType DEF RejectMatches, Reassign, AddParty, LinkStays
<1>6. ASSUME NEW row \in NewEvidence, AddEvidence(row)
      PROVE  LinkStays
  <2>1. evidence' = UpsertEvidence(evidence, row) /\ row \in evidence'
    BY <1>6 DEF AddEvidence, UpsertEvidence
  <2>2. ASSUME NEW e \in evidence, e.key = CanonicalKey, e.status # "superseded"
        PROVE  \/ e \in evidence'
               \/ row.key = CanonicalKey /\ row.status # "superseded"
    BY <2>1, <2>2 DEF UpsertEvidence
  <2>3. caseRec'.linkedProperty = caseRec.linkedProperty
    BY <1>6, AutoReopenedType DEF AddEvidence
  <2> QED
    BY <2>1, <2>2, <2>3 DEF LinkStays
<1>7. ASSUME Reevaluate \/ ReopenCase \/ \E codes \in ClosureCodes : CloseUnresolved(codes)
      PROVE  LinkStays
  BY <1>7 DEF Reevaluate, ReopenCase, CloseUnresolved, ClosedAs, Reopened, TypeOK, LinkStays
<1>8. ASSUME NEW c \in Clients, RequestStep(c)
      PROVE  LinkStays
  <2>1. CASE UNCHANGED <<caseRec, evidence>>
    BY <2>1 DEF LinkStays
  <2>2. CASE FinishAccept(c) \/ FinishRecord(c) \/ FinishReopenMatter(c)
    BY <2>2 DEF FinishAccept, FinishRecord, FinishReopenMatter, ClosedAs, Reopened, TypeOK, LinkStays
  <2> QED
    BY <1>8, <2>1, <2>2 DEF RequestStep, BeginAccept, BeginRecord, BeginReopenMatter, Begin, FailRequest
<1>9. ASSUME UNCHANGED vars \/ \E p \in Properties : PipelineUpdate(p)
      PROVE  LinkStays
  BY <1>9 DEF vars, PipelineUpdate, LinkStays
<1> QED
  BY <1>1, <1>2, <1>3, <1>4, <1>5, <1>6, <1>7, <1>8, <1>9
     DEF Next, Creation, FileChange, Administration

-----------------------------------------------------------------------------
\* What a step of each kind does to the rest of the invariant.
LEMMA StatusKept ==
    ASSUME IInv, [Next]_vars
    PROVE  /\ MatterNeedsCase' /\ ClosedIffStamped' /\ MatterResolvedIffClosed'
           /\ ResolvedHasDecision' /\ DecisionIsSound'
<1> USE DEF IInv, MatterNeedsCase, ClosedIffStamped, MatterResolvedIffClosed,
            ResolvedHasDecision, DecisionIsSound, Exists, Closed
<1>1. CASE Opened
  BY <1>1 DEF Opened
<1>2. CASE Worked
  BY <1>2 DEF Worked, MatterFollows
<1>3. CASE Decided
  <2>1. decision' # NoDecision
    BY <1>3 DEF Decided, Decisions, NoDecision, DecisionOutcomes
  <2>2. DecisionIsSound'
    BY <1>3, CategoriesAreDisjoint DEF Decided, DecisionCodesAllowed
  <2> QED
    BY <1>3, <2>1, <2>2 DEF Decided, MatterFollows
<1>4. CASE ClosedUp
  BY <1>4 DEF ClosedUp, MatterFollows
<1>5. CASE Unmoved
  BY <1>5 DEF Unmoved
<1> QED
  BY <1>1, <1>2, <1>3, <1>4, <1>5, StepKind

LEMMA InitIInv == Init => IInv
<1> SUFFICES ASSUME Init PROVE IInv
  OBVIOUS
<1>1. TypeOK /\ property \in Properties
  BY InitType
<1>2. InFlight
  BY DEF Init, InFlight, Idle
<1>3. MatterNeedsCase /\ ProposalIsSound /\ ProposalMatchesCase /\ LinkIsEvidenced
  BY DEF Init, MatterNeedsCase, ProposalIsSound, ProposalMatchesCase, LinkIsEvidenced
<1>4. ClosedIffStamped /\ MatterResolvedIffClosed /\ ResolvedHasDecision /\ UndecidedHasProposal
  BY DEF Init, ClosedIffStamped, MatterResolvedIffClosed, ResolvedHasDecision,
         UndecidedHasProposal, Exists, Closed
<1>5. DecisionIsSound
  BY DEF Init, DecisionIsSound, NoDecision
<1> QED
  BY <1>1, <1>2, <1>3, <1>4, <1>5 DEF IInv

LEMMA NextIInv == IInv /\ [Next]_vars => IInv'
<1> SUFFICES ASSUME IInv, [Next]_vars PROVE IInv'
  OBVIOUS
<1>1. TypeOK' /\ (property \in Properties)'
  BY NextType DEF IInv
<1> QED
  BY <1>1, InFlightKept, ProposalKept, LinkKept, StatusKept DEF IInv

-----------------------------------------------------------------------------
\* The inductive invariant holds throughout.
THEOREM Invariance == Spec => []IInv
BY InitIInv, NextIInv, PTL DEF Spec

\* Every row is of its type, however the workflows interleave.
THEOREM TypeCorrect == Spec => []TypeOK
<1>1. IInv => TypeOK
  BY DEF IInv
<1> QED
  BY <1>1, Invariance, PTL

\* resolved_at and customer_status agree with the case status in every state.
THEOREM StatusesAgree == Spec => [](ClosedIffStamped /\ MatterResolvedIffClosed)
<1>1. IInv => ClosedIffStamped /\ MatterResolvedIffClosed
  BY DEF IInv
<1> QED
  BY <1>1, Invariance, PTL

\* A resolved case has a decision, and every decision the codes it needs.
THEOREM DecisionsAreSound == Spec => [](ResolvedHasDecision /\ DecisionIsSound)
<1>1. IInv => ResolvedHasDecision /\ DecisionIsSound
  BY DEF IInv
<1> QED
  BY <1>1, Invariance, PTL

\* The current proposal is the engine's answer to the case's rows.
THEOREM ProposalsMatch == Spec => []ProposalMatchesCase
<1>1. IInv => ProposalMatchesCase
  BY DEF IInv
<1> QED
  BY <1>1, Invariance, PTL

\* An undecided case has a proposal to accept.
THEOREM UndecidedCasesHaveProposals == Spec => []UndecidedHasProposal
<1>1. IInv => UndecidedHasProposal
  BY DEF IInv
<1> QED
  BY <1>1, Invariance, PTL

-----------------------------------------------------------------------------
\* The workflows implement CaseLifecycle: each step does what Open, Work, Decide
\* or Close allow, or nothing that CaseLifecycle sees.
LEMMA LifecycleInit == Init => Lifecycle!Init
BY DEF Init, Lifecycle!Init, Phase

LEMMA LifecycleStep == IInv /\ [Next]_vars => [Lifecycle!Next]_(Lifecycle!lifecycleVars)
<1> SUFFICES ASSUME IInv, [Next]_vars
             PROVE  [Lifecycle!Next]_(Lifecycle!lifecycleVars)
  OBVIOUS
<1> USE DEF Lifecycle!Next, Lifecycle!Show, Lifecycle!ShownWhile, Phase, Exists
<1>1. CASE Opened
  BY <1>1 DEF Opened, Lifecycle!Open
<1>2. CASE Worked
  <2>1. Lifecycle!Work
    BY <1>2 DEF Worked, MatterFollows, Lifecycle!Work
  <2> QED
    BY <2>1
<1>3. CASE Decided
  <2>1. decision' # NoDecision
    BY <1>3 DEF Decided, Decisions, NoDecision, DecisionOutcomes
  <2>2. Lifecycle!Decide
    BY <1>3, <2>1 DEF Decided, MatterFollows, Lifecycle!Decide
  <2> QED
    BY <2>2
<1>4. CASE ClosedUp
  <2>1. Lifecycle!Close
    BY <1>4 DEF ClosedUp, MatterFollows, Lifecycle!Close
  <2> QED
    BY <2>1
<1>5. CASE Unmoved
  BY <1>5 DEF Unmoved, File, Lifecycle!lifecycleVars
<1> QED
  BY <1>1, <1>2, <1>3, <1>4, <1>5, StepKind

\* Every transaction on the case is a step of CaseLifecycle, or changes nothing that
\* its analyst and customer are promised.
THEOREM ImplementsLifecycle == Spec => LifecycleSpec
BY Invariance, LifecycleInit, LifecycleStep, PTL DEF Spec, LifecycleSpec, Lifecycle!Spec
-----------------------------------------------------------------------------
(***************************************************************************)
(* Clear decisions and the file. Whether a file is ready is a matter of    *)
(* its link and its evidence alone; the decision's exception, which        *)
(* Readiness looks at as well, only makes a file seem less ready.          *)
(***************************************************************************)
Linked ==
    \/ caseRec.linkedProperty
    \/ caseRec.linkedSeed # "none"
    \/ \E s \in Seeds : matches[s] = "confirmed"

LEMMA ReadyFile ==
    /\ FileIsReady <=> /\ Linked
                       /\ \E e \in evidence : e.status = "confirmed"
                       /\ \A e \in evidence : e.status # "conflicting"
    /\ Readiness = "ready_for_decision" => FileIsReady
BY DEF FileIsReady, Readiness, EvaluateEvidenceReadiness, Linked

LEMMA SameFileSameReadiness ==
    ASSUME TypeOK, File' = File
    PROVE  FileIsReady' <=> FileIsReady
<1>1. /\ caseRec'.linkedProperty = caseRec.linkedProperty
      /\ caseRec'.linkedSeed = caseRec.linkedSeed
      /\ matches' = matches /\ evidence' = evidence
  BY DEF File
<1>2. Linked' <=> Linked
  BY <1>1 DEF Linked
<1>3. FileIsReady' <=> /\ Linked'
                       /\ \E e \in evidence' : e.status = "confirmed"
                       /\ \A e \in evidence' : e.status # "conflicting"
  BY DEF FileIsReady, EvaluateEvidenceReadiness, Linked
<1> QED
  BY <1>1, <1>2, <1>3, ReadyFile

\* The engine calls clear only a linked file without a conflict, whatever the status
\* of the case.
LEMMA ClearProposalFile ==
    ASSUME IInv, proposal.decision = "clear"
    PROVE  caseRec.linkedProperty /\ \A e \in evidence : e.status # "conflicting"
<1> DEFINE case == RowsOf(caseRec, evidence, parties)
<1>1. PICK p \in Properties : proposal = Propose(case, p)
  BY DEF IInv, ProposalMatchesCase, NoProposal
<1>2. case.linked /\ \A item \in case.evidence : item.status # "conflicting"
  BY <1>1, RowsOfAClear
<1>3. caseRec.linkedProperty
  BY <1>2 DEF RowsOf
<1>4. ASSUME NEW e \in evidence PROVE e.status # "conflicting"
  <2>1. [type |-> KeyType[e.key], flagged |-> e.flagged, status |-> e.status] \in case.evidence
    BY DEF RowsOf
  <2> QED
    BY <1>2, <2>1
<1> QED
  BY <1>3, <1>4

\* The engine's rules and the readiness rules, which read the evidence separately,
\* agree on a clear unless an analyst has overwritten the canonical item
\* (UpsertCaseEvidence) with one that is only captured.
THEOREM RefusedClearsWereOverwritten == Spec => []RefusedClearWasOverwritten
<1>1. IInv => RefusedClearWasOverwritten
  <2> SUFFICES ASSUME IInv, proposal.decision = "clear", caseRec.status # "resolved",
                      Readiness # "ready_for_decision"
               PROVE  /\ Readiness = "needs_evidence"
                      /\ \E row \in evidence \cap NewEvidence :
                            row.key = CanonicalKey /\ row.status = "captured"
    BY DEF RefusedClearWasOverwritten
  <2>1. caseRec.linkedProperty /\ \A e \in evidence : e.status # "conflicting"
    BY ClearProposalFile
  <2>2. (\A e \in evidence : e.status # "confirmed") /\ Readiness = "needs_evidence"
    BY <2>1 DEF Readiness, EvaluateEvidenceReadiness
  <2>3. PICK e \in evidence : /\ e.key = CanonicalKey /\ e.status # "superseded"
                              /\ e.status = "confirmed" \/ e \in NewEvidence
    BY <2>1 DEF IInv, LinkIsEvidenced
  <2>4. e.status \in EvidenceStatuses
    BY DEF IInv, TypeOK, EvidenceRows
  <2>5. e \in NewEvidence /\ e.status = "captured"
    BY <2>1, <2>2, <2>3, <2>4 DEF EvidenceStatuses
  <2> QED
    BY <2>2, <2>3, <2>5
<1> QED
  BY <1>1, Invariance, PTL

\* A decision is made by FinishAccept, of the current proposal, or by FinishRecord;
\* nothing else makes a case resolved.
DecidesNothing ==
    /\ decision' = decision
    /\ caseRec'.status = "resolved" => caseRec.status = "resolved"

LEMMA WhoDecides ==
    ASSUME IInv, [Next]_vars
    PROVE  \/ DecidesNothing
           \/ \E c \in Clients :
                 /\ requests[c].op = "accept"
                 /\ proposal # NoProposal
                 /\ decision'.source = "accepted_proposal"
                 /\ decision'.decision = proposal.decision
                 /\ decision'.codes = proposal.codes
           \/ \E c \in Clients :
                 /\ requests[c].op = "record"
                 /\ decision'.source # "accepted_proposal"
                 /\ decision'.decision = requests[c].decision
<1>1. CASE FileChange \/ Administration
  <2>1. AutoReopened(caseRec).status # "resolved"
    BY DEF AutoReopened, Reopened, Closed, IInv, TypeOK
  <2>2. ASSUME NEW s \in Seeds, ConfirmMatch(s)
        PROVE  DecidesNothing
    <3>1. Exists
      BY <2>2 DEF ConfirmMatch
    <3>2. caseRec'.status = "in_review"
      BY <2>2, <3>1, AutoReopenedType DEF ConfirmMatch, IInv
    <3> QED
      BY <2>2, <3>2 DEF ConfirmMatch, DecidesNothing
  <2>3. ASSUME \/ RejectMatches \/ Reassign
               \/ \E row \in NewEvidence : AddEvidence(row)
               \/ \E names \in {<<>>} \cup {<<n>> : n \in Owners} : AddParty(names)
        PROVE  DecidesNothing
    BY <2>1, <2>3 DEF RejectMatches, Reassign, AddEvidence, AddParty, DecidesNothing
  <2>4. ASSUME Reevaluate \/ ReopenCase \/ \E codes \in ClosureCodes : CloseUnresolved(codes)
        PROVE  DecidesNothing
    BY <2>4 DEF Reevaluate, ReopenCase, CloseUnresolved, ClosedAs, Reopened, DecidesNothing,
         IInv, TypeOK
  <2> QED
    BY <1>1, <2>2, <2>3, <2>4 DEF FileChange, Administration
<1>2. ASSUME NEW c \in Clients, FinishAccept(c)
      PROVE  /\ requests[c].op = "accept"
             /\ proposal # NoProposal
             /\ decision'.source = "accepted_proposal"
             /\ decision'.decision = proposal.decision
             /\ decision'.codes = proposal.codes
  BY <1>2 DEF FinishAccept
<1>3. ASSUME NEW c \in Clients, FinishRecord(c)
      PROVE  /\ requests[c].op = "record"
             /\ decision'.source # "accepted_proposal"
             /\ decision'.decision = requests[c].decision
  BY <1>3 DEF FinishRecord, SourceOf
<1>4. ASSUME NEW c \in Clients, RequestStep(c), ~FinishAccept(c), ~FinishRecord(c)
      PROVE  DecidesNothing
  BY <1>4 DEF DecidesNothing, RequestStep, BeginAccept, BeginRecord, BeginReopenMatter, Begin,
       FinishReopenMatter, FailRequest, Reopened, IInv, TypeOK
<1>5. CASE Creation \/ UNCHANGED vars \/ \E p \in Properties : PipelineUpdate(p)
  BY <1>5 DEF DecidesNothing, Creation, CreateCase, CreateMatter, PipelineUpdate, vars
<1> QED
  BY <1>1, <1>2, <1>3, <1>4, <1>5 DEF Next

\* What a request accepts is the proposal that is current by then, and that answers to
\* the rows as they are: every workflow that changed them since the service's check
\* has re-evaluated the case (AcceptProposalWorkflow, reevaluateCaseInTx).
LEMMA AcceptingStep ==
    ASSUME IInv, [Next]_vars, proposal # NoProposal, proposal' = NoProposal
    PROVE  decision'.decision = proposal.decision /\ decision'.codes = proposal.codes
<1>1. ASSUME NEW c \in Clients, FinishAccept(c)
      PROVE  decision'.decision = proposal.decision /\ decision'.codes = proposal.codes
  BY <1>1 DEF FinishAccept
<1>2. ASSUME NEW c \in Clients, RequestStep(c), ~FinishAccept(c)
      PROVE  FALSE
  BY <1>2 DEF RequestStep, BeginAccept, BeginRecord, BeginReopenMatter, Begin, FinishRecord,
       FinishReopenMatter, FailRequest
<1>3. proposal' \in Proposals => proposal' # NoProposal
  BY DEF Proposals, NoProposal, DecisionOutcomes
<1>4. ReevaluateInTx => proposal' \in Proposals
  BY ProposeType DEF ReevaluateInTx
<1>5. ASSUME Creation \/ FileChange \/ Administration \/ UNCHANGED vars
             \/ \E p \in Properties : PipelineUpdate(p)
      PROVE  FALSE
  BY <1>3, <1>4, <1>5 DEF Creation, CreateCase, CreateMatter, FileChange, ConfirmMatch,
     RejectMatches, AddEvidence, AddParty, Administration, Reassign, Reevaluate,
     CloseUnresolved, ReopenCase, PipelineUpdate, vars
<1> QED
  BY <1>1, <1>2, <1>5 DEF Next

\* However many requests are in flight, no outdated proposal is ever accepted.
THEOREM AcceptancesAnswerTheCase == Spec => AcceptedAnswersTheCase
<1> DEFINE Answers ==
      proposal # NoProposal /\ proposal' = NoProposal =>
         \E p \in Properties :
            LET fresh == Propose(RowsOf(caseRec, evidence, parties), p)
            IN  decision'.decision = fresh.decision /\ decision'.codes = fresh.codes
<1>1. IInv /\ [Next]_vars => [Answers]_vars
  <2> SUFFICES ASSUME IInv, [Next]_vars, proposal # NoProposal, proposal' = NoProposal
               PROVE  \E p \in Properties :
                         LET fresh == Propose(RowsOf(caseRec, evidence, parties), p)
                         IN  /\ decision'.decision = fresh.decision
                             /\ decision'.codes = fresh.codes
    OBVIOUS
  <2>1. PICK p \in Properties : proposal = Propose(RowsOf(caseRec, evidence, parties), p)
    BY DEF IInv, ProposalMatchesCase
  <2> QED
    BY <2>1, AcceptingStep
<1> QED
  BY <1>1, Invariance, PTL DEF Spec, AcceptedAnswersTheCase

\* A case resolved by an accepted proposal that says clear is linked and its file has
\* no conflict, even though AcceptProposal checks the readiness before the
\* transaction that accepts: a conflict submitted in between has replaced the clear
\* proposal. A manual clear is carried out all the same (MCCaseWorkflowClearRace).
AcceptedClearHasNoConflict ==
    caseRec.status = "resolved" /\ decision.decision = "clear"
        /\ decision.source = "accepted_proposal"
    => caseRec.linkedProperty /\ \A e \in evidence : e.status # "conflicting"

LEMMA AcceptedClearStep ==
    ASSUME IInv, AcceptedClearHasNoConflict, [Next]_vars
    PROVE  AcceptedClearHasNoConflict'
<1> SUFFICES ASSUME caseRec'.status = "resolved", decision'.decision = "clear",
                    decision'.source = "accepted_proposal"
             PROVE  caseRec'.linkedProperty /\ \A e \in evidence' : e.status # "conflicting"
  BY DEF AcceptedClearHasNoConflict
<1>1. Decided \/ Unmoved
  BY StepKind DEF Opened, Worked, ClosedUp
<1>2. caseRec'.linkedProperty = caseRec.linkedProperty /\ evidence' = evidence
  BY <1>1 DEF Decided, Unmoved, File
<1>3. CASE proposal.decision = "clear"
  BY <1>2, <1>3, ClearProposalFile
<1>4. CASE DecidesNothing
  BY <1>2, <1>4 DEF DecidesNothing, AcceptedClearHasNoConflict
<1> QED
  BY <1>3, <1>4, WhoDecides

\* However many requests are in flight, no accepted clear overlooks a conflict.
THEOREM AcceptedClearsHaveNoConflict == Spec => []AcceptedClearHasNoConflict
<1>1. Init => AcceptedClearHasNoConflict
  BY DEF Init, AcceptedClearHasNoConflict
<1> QED
  BY <1>1, AcceptedClearStep, Invariance, PTL DEF Spec

-----------------------------------------------------------------------------
(***************************************************************************)
(* One request at a time: what a request has read still holds when it is   *)
(* carried out.                                                            *)
(***************************************************************************)
OneClient == \A c, d \in Clients : c = d

\* A clear under way, manual or accepted, was checked against the file as it is, and
\* the proposal to be accepted is the one that was checked.
WhatWasReadHolds ==
    \A c \in Clients :
        /\ requests[c].op \in {"record", "accept"} /\ requests[c].decision = "clear"
              => FileIsReady
        /\ requests[c].op = "accept" => requests[c].decision = proposal.decision

SerialInv == ResolvedClearIsReady /\ WhatWasReadHolds

\* While the one client waits, nobody else changes the file or the proposal; and when
\* its request begins, its checks are those of the service.
LEMMA ReadingsKept ==
    ASSUME OneClient, IInv, SerialInv, [Next]_vars
    PROVE  WhatWasReadHolds'
<1> USE DEF IInv
<1> SUFFICES ASSUME NEW c \in Clients
    PROVE  /\ requests'[c].op \in {"record", "accept"} /\ requests'[c].decision = "clear"
                 => FileIsReady'
           /\ requests'[c].op = "accept" => requests'[c].decision = proposal'.decision
  BY DEF WhatWasReadHolds
<1>1. CASE requests'[c] = Idle
  BY <1>1 DEF Idle
<1>2. ASSUME SomeIdle, requests' = requests
      PROVE  requests'[c] = Idle
  BY <1>2 DEF SomeIdle, OneClient
<1>3. CASE Creation \/ FileChange \/ Administration
  BY <1>1, <1>2, <1>3 DEF Creation, CreateCase, CreateMatter, FileChange, ConfirmMatch,
       RejectMatches, AddEvidence, AddParty, Administration, Reassign, Reevaluate,
       CloseUnresolved, ReopenCase
<1>4. ASSUME File' = File, proposal' = proposal, requests' = requests
      PROVE  WhatWasReadHolds'
  BY <1>4, SameFileSameReadiness DEF SerialInv, WhatWasReadHolds
<1>5. CASE UNCHANGED vars \/ \E p \in Properties : PipelineUpdate(p)
  <2>1. File' = File /\ proposal' = proposal /\ requests' = requests
    BY <1>5 DEF vars, PipelineUpdate, File
  <2> QED
    BY <1>4, <2>1 DEF WhatWasReadHolds
<1>6. ASSUME NEW r, Begin(c, r)
      PROVE  requests'[c] = r /\ File' = File /\ proposal' = proposal
  BY <1>6 DEF Begin, File, TypeOK
<1>7. ASSUME NEW note \in BOOLEAN, BeginAccept(c, note)
      PROVE  /\ requests'[c].op = "accept"
             /\ requests'[c].decision = proposal'.decision
             /\ requests'[c].decision = "clear" => FileIsReady'
  <2> DEFINE r == [op |-> "accept", decision |-> proposal.decision, codes |-> proposal.codes,
                   note |-> IF proposal = NoProposal THEN note ELSE StoredNote(Readiness, note)]
  <2>1. requests'[c] = r /\ proposal' = proposal /\ File' = File
    BY <1>6, <1>7 DEF BeginAccept
  <2>2. proposal.decision = "clear" => Readiness = "ready_for_decision"
    BY <1>7 DEF BeginAccept, ExceptionAllowed, NoProposal
  <2> QED
    BY <2>1, <2>2, ReadyFile, SameFileSameReadiness
<1>8. ASSUME NEW manual \in ManualDecisions, NEW note \in BOOLEAN, BeginRecord(c, manual, note)
      PROVE  /\ requests'[c].op = "record"
             /\ requests'[c].decision = "clear" => FileIsReady'
  <2> DEFINE r == [op |-> "record", decision |-> manual.decision, codes |-> manual.codes,
                   note |-> StoredNote(Readiness, note)]
  <2>1. requests'[c] = r /\ File' = File
    BY <1>6, <1>8 DEF BeginRecord
  <2>2. manual.decision = "clear" => Readiness = "ready_for_decision"
    BY <1>8 DEF BeginRecord, ExceptionAllowed
  <2> QED
    BY <2>1, <2>2, ReadyFile, SameFileSameReadiness
<1>9. ASSUME BeginReopenMatter(c)
      PROVE  requests'[c].op = "reopen"
  BY <1>9 DEF BeginReopenMatter, Begin, TypeOK, Idle
<1>10. ASSUME FinishAccept(c) \/ FinishRecord(c) \/ FinishReopenMatter(c) \/ FailRequest(c)
       PROVE  requests'[c] = Idle
  BY <1>10 DEF FinishAccept, FinishRecord, FinishReopenMatter, FailRequest, Return, TypeOK
<1>11. CASE RequestStep(c)
  BY <1>1, <1>7, <1>8, <1>9, <1>10, <1>11 DEF RequestStep
<1> QED
  BY <1>3, <1>5, <1>11 DEF Next, OneClient

LEMMA SerialStep ==
    ASSUME OneClient, IInv, SerialInv, [Next]_vars
    PROVE  SerialInv'
<1>1. ASSUME caseRec'.status = "resolved", decision'.decision = "clear"
      PROVE  FileIsReady'
  <2>1. Decided \/ Unmoved
    BY <1>1, StepKind DEF Opened, Worked, ClosedUp
  <2>2. FileIsReady' <=> FileIsReady
    BY <2>1, SameFileSameReadiness DEF Decided, Unmoved, File, IInv
  <2>3. CASE DecidesNothing
    BY <1>1, <2>2, <2>3 DEF DecidesNothing, SerialInv, ResolvedClearIsReady
  <2>4. ASSUME NEW c \in Clients, requests[c].op \in {"record", "accept"},
               requests[c].decision = "clear"
        PROVE  FileIsReady'
    BY <2>2, <2>4 DEF SerialInv, WhatWasReadHolds
  <2>5. ASSUME NEW c \in Clients, requests[c].op = "accept", proposal.decision = "clear"
        PROVE  requests[c].decision = "clear"
    BY <2>5 DEF SerialInv, WhatWasReadHolds
  <2> QED
    BY <1>1, <2>3, <2>4, <2>5, WhoDecides
<1> QED
  BY <1>1, ReadingsKept DEF SerialInv, ResolvedClearIsReady

LEMMA SerialInvariance ==
    ASSUME OneClient
    PROVE  Spec => []SerialInv
<1>1. Init => SerialInv
  BY DEF Init, SerialInv, ResolvedClearIsReady, WhatWasReadHolds, Idle
<1>2. IInv /\ SerialInv /\ [Next]_vars => SerialInv'
  BY SerialStep
<1> QED
  BY <1>1, <1>2, Invariance, PTL DEF Spec

\* While no two requests are in flight at once, no case is cleared on a file that is
\* not ready (RecordDecision, AcceptProposal). MCCaseWorkflowClearRace shows that the
\* hypothesis is needed.
THEOREM SerialClearsAreReady == OneClient => (Spec => []ResolvedClearIsReady)
<1> SUFFICES ASSUME OneClient
             PROVE  Spec => []ResolvedClearIsReady
  OBVIOUS
<1>1. SerialInv => ResolvedClearIsReady
  BY DEF SerialInv
<1> QED
  BY <1>1, SerialInvariance, PTL
=============================================================================
