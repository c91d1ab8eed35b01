---------------------------- MODULE PortalCases ----------------------------
(***************************************************************************)
(* The analysts' page of a case: src/apps/portal/app/internal/cases. Each  *)
(* browser shows a case as it was when the page was rendered, offers the   *)
(* forms that fit what it shows, and sends what is submitted as server     *)
(* actions, one at a time. The portal's server calls the cases API and     *)
(* answers; a form answered with success reloads the page, any other shows *)
(* the error and leaves the page as it is.                                 *)
(*                                                                         *)
(* The API is a case record and what each call may make of it: the engine  *)
(* proposes any outcome the readiness allows and evidence changes the      *)
(* readiness freely. CaseWorkflow has the rows behind it. A check of the   *)
(* API and its transaction are one step here.                              *)
(*                                                                         *)
(* change counts the changes of the case and stands for its contents: two  *)
(* views with the same number are equal. own is bookkeeping: the number of *)
(* the last change a browser made and has a page left to hear of.          *)
(***************************************************************************)
EXTENDS DecisionRules, Sequences

CONSTANTS Browsers,     \* browsers that have the page of the case open
          Catalogue,    \* the reason codes GET reason-codes answers with
          Proposed,     \* the outcomes the engine proposes
          Initially,    \* the cases the pages may be opened on
          Used,         \* bound: the forms these analysts use; others use all
          MaxChanges,   \* bound: changes of the case
          MaxQueue      \* bound: submissions of a browser not yet answered

DecisionForms == {"decide", "close", "accept"}
FileForms == {"evidence", "party", "confirm", "reject"}
Forms == DecisionForms \cup FileForms \cup {"reassign", "reevaluate", "reopen"}

Opened == {"open", "in_review", "reopened"}
Closed == {"resolved", "closed_unresolved"}
Outcomes == DecisionOutcomes \cup {"none"}

Cases == [status : Opened \cup Closed, proposal : Outcomes, candidate : BOOLEAN,
          ready : BOOLEAN, change : 0..MaxChanges]

ASSUME PortalConstants ==
    /\ Catalogue \subseteq ReasonCodes
    /\ Proposed \subseteq DecisionOutcomes /\ Proposed \ {"clear"} # {}
    /\ Used \subseteq Forms
    /\ \A c \in Initially : c \in Cases /\ c.status \in Opened /\ c.change = 0
    /\ MaxChanges \in Nat /\ MaxQueue \in [Browsers -> Nat]

VARIABLES case,    \* the case at the service
          page,    \* what a browser shows
          load,    \* the page a browser is waiting for
          queue,   \* the server actions of a browser, in the order of the clicks
          failed,  \* the forms whose last submission the page reported as failed
          own

vars == <<case, page, load, queue, failed, own>>

Views == [status : Opened \cup Closed, proposed : BOOLEAN, candidate : BOOLEAN,
          change : 0..MaxChanges]
Submissions ==
    [form : Forms, at : 0..MaxChanges, state : {"sent", "committed", "refused"}]

NoView == [status |-> "unread"]
NoLoad == [kind |-> "none"]
Loads == [kind : {"soft", "reload"}, seen : Views \cup {NoView}]

TypeOK ==
    /\ case \in Cases
    /\ page \in [Browsers -> Views]
    /\ load \in [Browsers -> Loads \cup {NoLoad}]
    /\ queue \in [Browsers -> Seq(Submissions)]
    /\ failed \in [Browsers -> SUBSET Forms]
    /\ own \in [Browsers -> 0..MaxChanges]

-----------------------------------------------------------------------------
(***************************************************************************)
(* What the page shows and offers.                                         *)
(***************************************************************************)
\* getCase as the page uses it.
GetCase(c) == [status |-> c.status, proposed |-> c.proposal # "none",
               candidate |-> c.candidate, change |-> c.change]

\* Variant of FilteredCodes: a review is offered what a stop is.
FilteredCodesForReview(decision) ==
    Catalogue \cap
        CASE decision = "clear"  -> ClearSupport
          [] decision = "review" -> HardBlock \cup ReviewTrigger \cup UnresolvedInformation
          [] decision = "stop"   -> HardBlock \cup ReviewTrigger

\* The reason codes RecordDecisionForm offers for a decision. Codes ticked for
\* another decision stay ticked only while they are offered.
FilteredCodes(decision) ==
    Catalogue \cap
        CASE decision = "clear"  -> ClearSupport
          [] decision = "review" -> ReviewTrigger \cup UnresolvedInformation
          [] decision = "stop"   -> HardBlock \cup ReviewTrigger

\* CloseUnresolvedForm's.
UnresolvedCodes == Catalogue \cap UnresolvedInformation

\* The checklist of the evidence panel: four items, each found from fields of its
\* own of the readiness the service answers with.
Checklist(file) ==
    [sourceMatch |-> file.linked,
     confirmedEvidence |-> "confirmed" \in file.evidence,
     noConflicts |-> "conflicting" \notin file.evidence,
     decisionSupport |->
         EvaluateEvidenceReadiness(file) \in {"ready_for_decision", "exception_approved"}]

\* PropertyMatchActions stand beside a candidate.
MatchActions(seen) == IF seen.candidate THEN {"confirm", "reject"} ELSE {}

\* Variant of Offered: the forms beside the case, whatever its status.
OfferedAlways(seen) ==
    {"decide", "close", "evidence", "party", "accept", "reevaluate", "reopen", "reassign"}

\* The forms of the overview and beside it. The other tabs offer fewer.
Offered(seen) ==
    {"reassign"} \cup MatchActions(seen)
      \cup (IF seen.status \in Closed THEN {"reopen"}
            ELSE {"decide", "evidence", "party", "close"}
                   \cup (IF seen.proposed THEN {"accept", "reevaluate"} ELSE {}))

\* What an analyst can fill in. slip is what the page lets pass and the service does
\* not: a text field the browser requires that holds nothing but spaces, or facts
\* that are JSON and that the service cannot store. The other fields of a form
\* change nothing that is modelled here. What was filled in is chosen when the
\* service looks at it.
Filled(decisions, codes, notes, statuses, slips) ==
    [decision : decisions, codes : codes, note : notes, status : statuses, slip : slips]

Text == {"none", "spaces"}

\* A decision and codes that are offered for it; note is the exception's.
RecordDecisionForm ==
    UNION {Filled({d}, SUBSET FilteredCodes(d), BOOLEAN, {"none"}, Text) :
               d \in DecisionOutcomes}

CloseUnresolvedForm ==
    Filled({"none"}, SUBSET UnresolvedCodes, {FALSE}, {"none"}, Text)

\* The card submits what the proposal is when the service looks, not what it shows.
DecisionProposalCard == Filled({"none"}, {{}}, BOOLEAN, {"none"}, {"none"})

\* Facts that are not JSON are sent as none; facts that are, as they are: an object,
\* or a number or a list that Decode refuses.
EvidenceForm ==
    Filled({"none"}, {{}}, {FALSE},
           {"captured", "confirmed", "conflicting", "superseded"}, Text \cup {"facts"})

PartyForm == Filled({"none"}, {{}}, {FALSE}, {"none"}, Text)

\* An analyst picked from the list; a note nobody asks for; no field at all.
ReassignCaseForm == Filled({"none"}, {{}}, {FALSE}, {"none"}, {"none"})
ReopenForm == Filled({"none"}, {{}}, {FALSE}, {"none"}, {"none"})
Button == Filled({"none"}, {{}}, {FALSE}, {"none"}, {"none"})

Fillings(form) ==
    CASE form = "decide"   -> RecordDecisionForm
      [] form = "close"    -> CloseUnresolvedForm
      [] form = "accept"   -> DecisionProposalCard
      [] form = "evidence" -> EvidenceForm
      [] form = "party"    -> PartyForm
      [] form = "reassign" -> ReassignCaseForm
      [] form = "reopen"   -> ReopenForm
      [] form \in {"confirm", "reject", "reevaluate"} -> Button

-----------------------------------------------------------------------------
(***************************************************************************)
(* What the service makes of a call: the cases it may leave behind, none   *)
(* when it refuses.                                                        *)
(***************************************************************************)
AutoReopened(c) == IF c.status \in Closed THEN [c EXCEPT !.status = "reopened"] ELSE c

\* The engine proposes a clear only on a file that is ready.
Reevaluated(c) ==
    {[c EXCEPT !.proposal = p] : p \in {o \in Proposed : o = "clear" => c.ready}}

EvidenceChanged(c) ==
    UNION {Reevaluated([c EXCEPT !.ready = r]) : r \in BOOLEAN}

\* A conflicting item leaves no file ready; any other may make it so, as it takes
\* the place of the item with its source.
AddEvidence(c, f) ==
    IF f.slip # "none" \/ f.status \notin EvidenceStatuses THEN {}
    ELSE IF f.status = "conflicting"
         THEN Reevaluated([AutoReopened(c) EXCEPT !.ready = FALSE])
         ELSE EvidenceChanged(AutoReopened(c))

AddParty(c, f) == IF f.slip # "none" THEN {} ELSE Reevaluated(AutoReopened(c))

\* Variant of ConfirmMatch: the case takes the status of the match.
ConfirmMatchOnly(c) == EvidenceChanged([c EXCEPT !.status = "confirmed", !.candidate = FALSE])

ConfirmMatch(c) == EvidenceChanged([c EXCEPT !.status = "in_review", !.candidate = FALSE])
RejectMatches(c) == Reevaluated([AutoReopened(c) EXCEPT !.candidate = FALSE])
ReopenCase(c) == Reevaluated([c EXCEPT !.status = "reopened"])

Readiness(c) == IF c.ready THEN "ready_for_decision" ELSE "needs_evidence"

RecordDecision(c, f) ==
    IF /\ f.slip = "none" /\ DecisionCodesAllowed(f.decision, f.codes)
       /\ ExceptionAllowed(Readiness(c), f.decision, f.note)
    THEN {[c EXCEPT !.status = "resolved"]} ELSE {}

CloseUnresolved(c, f) ==
    IF f.slip = "none" /\ ClosureCodesAllowed(f.codes)
    THEN {[c EXCEPT !.status = "closed_unresolved"]} ELSE {}

AcceptProposal(c, f) ==
    IF c.proposal # "none" /\ ExceptionAllowed(Readiness(c), c.proposal, f.note)
    THEN {[c EXCEPT !.status = "resolved", !.proposal = "none"]} ELSE {}

Results(c, form, f) ==
    CASE form = "decide"     -> RecordDecision(c, f)
      [] form = "close"      -> CloseUnresolved(c, f)
      [] form = "accept"     -> AcceptProposal(c, f)
      [] form = "evidence"   -> AddEvidence(c, f)
      [] form = "party"      -> AddParty(c, f)
      [] form = "confirm"    -> ConfirmMatch(c)
      [] form = "reject"     -> RejectMatches(c)
      [] form = "reassign"   -> {AutoReopened(c)}
      [] form = "reevaluate" -> Reevaluated(c)
      [] form = "reopen"     -> ReopenCase(c)

Changed(c) == [c EXCEPT !.change = c.change + 1]

-----------------------------------------------------------------------------
Init ==
    /\ case \in Initially
    /\ page = [b \in Browsers |-> GetCase(case)]
    /\ load = [b \in Browsers |-> NoLoad]
    /\ queue = [b \in Browsers |-> <<>>]
    /\ failed = [b \in Browsers |-> {}]
    /\ own = [b \in Browsers |-> 0]

\* A tab of the page is a link: the page is rendered again, its forms stay.
OpenTab(b) ==
    /\ load[b] = NoLoad
    /\ load' = [load EXCEPT ![b] = [kind |-> "soft", seen |-> NoView]]
    /\ UNCHANGED <<case, page, queue, failed, own>>

\* The page is given up for a new one, and with it every answer it waits for: a
\* submission that was sent is carried out with nobody listening, as the work of
\* others is.
Reload(b) ==
    /\ load' = [load EXCEPT ![b] = [kind |-> "reload", seen |-> NoView]]
    /\ queue' = [queue EXCEPT ![b] = <<>>]
    /\ UNCHANGED <<case, page, failed, own>>

\* CaseDetailAnalystSwitcher sets window.location; so does the analyst's reload.
SwitchAnalyst(b) == load[b].kind # "reload" /\ Reload(b)

\* The portal renders the page: getCase.
RenderPage(b) ==
    /\ load[b] # NoLoad /\ load[b].seen = NoView
    /\ load' = [load EXCEPT ![b].seen = GetCase(case)]
    /\ UNCHANGED <<case, page, queue, failed, own>>

ShowPage(b) ==
    /\ load[b] # NoLoad /\ load[b].seen # NoView
    /\ page' = [page EXCEPT ![b] = load[b].seen]
    /\ load' = [load EXCEPT ![b] = NoLoad]
    /\ failed' = [failed EXCEPT ![b] = IF load[b].kind = "reload" THEN {} ELSE @]
    /\ UNCHANGED <<case, queue, own>>

\* A form is submitted: its error is cleared and its server action queued. The
\* buttons are never disabled, so it may be submitted again before the answer.
Submit(b, form) ==
    /\ form \in Offered(page[b])
    /\ load[b].kind # "reload"
    /\ Len(queue[b]) < MaxQueue[b]
    /\ failed' = [failed EXCEPT ![b] = @ \ {form}]
    /\ queue' = [queue EXCEPT ![b] =
           Append(@, [form |-> form, at |-> page[b].change, state |-> "sent"])]
    /\ UNCHANGED <<case, page, load, own>>

\* The first of a browser's actions reaches the service.
Sent(b) == queue[b] # <<>> /\ Head(queue[b]).state = "sent"

Served(b, state) == queue' = [queue EXCEPT ![b][1].state = state]

Commit(b) ==
    /\ Sent(b) /\ case.change < MaxChanges
    /\ \E filled \in Fillings(Head(queue[b]).form) :
           \E c \in Results(case, Head(queue[b]).form, filled) : case' = Changed(c)
    /\ Served(b, "committed")
    /\ own' = [own EXCEPT ![b] = case.change + 1]
    /\ UNCHANGED <<page, load, failed>>

Refuse(b) ==
    /\ Sent(b)
    /\ \E filled \in Fillings(Head(queue[b]).form) :
           Results(case, Head(queue[b]).form, filled) = {}
    /\ Served(b, "refused")
    /\ UNCHANGED <<case, page, load, failed, own>>

\* The request does not reach the service.
LoseRequest(b) ==
    /\ Sent(b)
    /\ Served(b, "refused")
    /\ UNCHANGED <<case, page, load, failed, own>>

Answered(b) == queue[b] # <<>> /\ Head(queue[b]).state # "sent"

\* Variant of AnswerDone: the page is left as it is.
AnswerDoneQuietly(b) ==
    /\ Answered(b) /\ Head(queue[b]).state = "committed"
    /\ queue' = [queue EXCEPT ![b] = Tail(@)]
    /\ UNCHANGED <<case, page, load, failed, own>>

\* Success: the page is loaded anew.
AnswerDone(b) ==
    /\ Answered(b) /\ Head(queue[b]).state = "committed"
    /\ Reload(b)

\* Variant of AnswerFailed: the error is dropped.
AnswerFailedQuietly(b) ==
    /\ Answered(b)
    /\ queue' = [queue EXCEPT ![b] = Tail(@)]
    /\ UNCHANGED <<case, page, load, failed, own>>

\* Failure, which a commit is taken for as well when the answer is lost or when
\* the action throws after it, as toast of a client module does on the server.
AnswerFailed(b) ==
    /\ Answered(b)
    /\ failed' = [failed EXCEPT ![b] = @ \cup {Head(queue[b]).form}]
    /\ queue' = [queue EXCEPT ![b] = Tail(@)]
    /\ UNCHANGED <<case, page, load, own>>

\* Others work on the case: analysts at pages of their own, or at pages since given
\* up, and the customer, whose reopening is not followed by an evaluation.
OthersWork ==
    /\ case.change < MaxChanges
    /\ \/ \E form \in Forms : \E filled \in Fillings(form) :
             \E c \in Results(case, form, filled) : case' = Changed(c)
       \/ /\ case.status \in Closed
          /\ case' = Changed([case EXCEPT !.status = "reopened"])
    /\ UNCHANGED <<page, load, queue, failed, own>>

-----------------------------------------------------------------------------
PageStep(b) ==
    \/ OpenTab(b)
    \/ SwitchAnalyst(b)
    \/ RenderPage(b)
    \/ ShowPage(b)
    \/ \E form \in Used : Submit(b, form)

ServerStep(b) == Commit(b) \/ Refuse(b) \/ LoseRequest(b)
AnswerStep(b) == AnswerDone(b) \/ AnswerFailed(b)

Next ==
    \/ \E b \in Browsers : PageStep(b) \/ ServerStep(b) \/ AnswerStep(b)
    \/ OthersWork

Spec == Init /\ [][Next]_vars

\* Requests end, one way or the other, and so does the rendering of a page.
Fairness ==
    \A b \in Browsers :
        /\ WF_vars(RenderPage(b)) /\ WF_vars(ShowPage(b))
        /\ WF_vars(ServerStep(b)) /\ WF_vars(AnswerStep(b))

FairSpec == Spec /\ Fairness
-----------------------------------------------------------------------------
\* An analyst whose page misses a change of the analyst's own has been told of a
\* failure, or is still waiting: work is never silently undone on the screen.
StaleOnlyAfterError ==
    \A b \in Browsers :
        page[b].change < own[b]
            => failed[b] # {} \/ queue[b] # <<>> \/ load[b] # NoLoad

\* The page knows the rules of the service, which it has copies of: the service
\* refuses what a form lets be filled in only when a required text is spaces, the
\* facts of evidence are JSON but no object, no code is ticked, no hard block is
\* ticked for a stop, or the file is not ready; and all items of the checklist are
\* complete exactly on a file that is ready, whether or not an exception was
\* approved before it was.
PageKnowsTheRules ==
    /\ \A f \in Fillings("decide") : Results(case, "decide", f) = {} =>
           \/ f.slip = "spaces" \/ f.codes = {}
           \/ f.decision = "stop" /\ f.codes \cap HardBlock = {}
           \/ ~ case.ready /\ (f.decision = "clear" \/ ~ f.note)
    /\ \A f \in Fillings("close") :
           Results(case, "close", f) = {} => f.slip = "spaces" \/ f.codes = {}
    /\ \A form \in {"evidence", "party"} : \A f \in Fillings(form) :
           Results(case, form, f) = {} =>
               f.slip = "spaces" \/ (form = "evidence" /\ f.slip = "facts")
    /\ \A file \in [status : {case.status}, linked : BOOLEAN,
                     evidence : SUBSET EvidenceStatuses, exception : BOOLEAN] :
           (\A item \in DOMAIN Checklist(file) : Checklist(file)[item])
               <=> EvaluateEvidenceReadiness([file EXCEPT !.exception = FALSE]) = "ready_for_decision"

\* The service takes decisions, closures and reopenings in every status; only the
\* pages keep a closed case from being decided again. A change that does not fit
\* the status of the case was sent from a page the case had moved on from.
OnlyStalePagesMisfit ==
    [][\A b \in Browsers :
        /\ Sent(b) /\ case' # case /\ queue'[b] # queue[b]
        /\ Head(queue[b]).form \in DecisionForms \cup {"reopen"}
        => \/ (Head(queue[b]).form = "reopen") = (case.status \in Closed)
           \/ Head(queue[b]).at < case.change]_vars

\* A change an analyst made comes to be seen, or reported as failed.
OwnWorkIsSeen ==
    \A b \in Browsers :
        page[b].change < own[b] ~> (page[b].change >= own[b] \/ failed[b] # {})
=============================================================================
