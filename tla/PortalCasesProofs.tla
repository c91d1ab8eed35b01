------------------------- MODULE PortalCasesProofs -------------------------
(***************************************************************************)
(* The safety properties of PortalCases, for any number of browsers, any   *)
(* catalogue of reason codes and queues of any length.                     *)
(***************************************************************************)
EXTENDS PortalCases, SequenceTheorems, TLAPS

Rendered(b) == load[b] # NoLoad /\ load[b].seen # NoView

\* A view with the number of the present case is a view of the present case.
Snapshot(view) ==
    /\ view.change <= case.change
    /\ view.change = case.change => view = GetCase(case)

\* A submission that was made from the present case fits its status.
Fits(s) ==
    /\ s.at <= case.change
    /\ s.at = case.change /\ s.form \in DecisionForms \cup {"reopen"}
         => ((s.form = "reopen") <=> (case.status \in Closed))

ViewsAreSnapshots ==
    \A b \in Browsers : Snapshot(page[b]) /\ (Rendered(b) => Snapshot(load[b].seen))

SubmissionsFit ==
    \A b \in Browsers : \A i \in 1..Len(queue[b]) : Fits(queue[b][i])

OwnWorkIsDone == \A b \in Browsers : own[b] <= case.change

\* A reload gave up every answer, and what it was answered with has all own work;
\* other renderings may lack work that was committed, and not answered, since.
LoadsAreFresh ==
    \A b \in Browsers :
        /\ load[b] # NoLoad /\ load[b].kind = "reload" =>
               /\ queue[b] = <<>>
               /\ Rendered(b) => load[b].seen.change >= own[b]
        /\ Rendered(b) /\ load[b].seen.change < own[b] =>
               failed[b] # {} \/ queue[b] # <<>>

IInv ==
    /\ TypeOK
    /\ ViewsAreSnapshots /\ SubmissionsFit
    /\ OwnWorkIsDone /\ LoadsAreFresh /\ StaleOnlyAfterError

-----------------------------------------------------------------------------
LEMMA GetCaseType ==
    ASSUME NEW c \in Cases
    PROVE  GetCase(c) \in Views /\ GetCase(c).status = c.status /\ GetCase(c).change = c.change
BY DEF GetCase, Cases, Views

LEMMA ReevaluatedType ==
    ASSUME NEW c \in Cases
    PROVE  \A d \in Reevaluated(c) : d \in Cases /\ d.change = c.change
BY PortalConstants DEF Reevaluated, Cases, Outcomes, PortalConstants

\* There is always something the engine can propose.
LEMMA ProposalsFound ==
    ASSUME NEW c
    PROVE  Reevaluated(c) # {}
<1>1. PICK o \in Proposed : o # "clear"
  BY PortalConstants DEF PortalConstants
<1>2. [c EXCEPT !.proposal = o] \in Reevaluated(c)
  BY <1>1 DEF Reevaluated
<1> QED
  BY <1>2

LEMMA AutoReopenedType ==
    ASSUME NEW c \in Cases
    PROVE  AutoReopened(c) \in Cases /\ AutoReopened(c).change = c.change
BY DEF AutoReopened, Cases, Opened, Closed

LEMMA EvidenceChangedType ==
    ASSUME NEW c \in Cases
    PROVE  \A d \in EvidenceChanged(c) : d \in Cases /\ d.change = c.change
<1> SUFFICES ASSUME NEW d \in EvidenceChanged(c) PROVE d \in Cases /\ d.change = c.change
  OBVIOUS
<1>1. PICK r \in BOOLEAN : d \in Reevaluated([c EXCEPT !.ready = r])
  BY DEF EvidenceChanged
<1> DEFINE e == [c EXCEPT !.ready = r]
<1>2. e \in Cases /\ e.change = c.change
  BY DEF Cases
<1> HIDE DEF e
<1>3. d \in Reevaluated(e)
  BY <1>1 DEF e
<1> QED
  BY <1>2, <1>3, ReevaluatedType

\* Whatever the service makes of a call is a case, and not yet counted as a change.
LEMMA ResultsType ==
    ASSUME NEW c \in Cases, NEW form \in Forms, NEW f, NEW d \in Results(c, form, f)
    PROVE  d \in Cases /\ d.change = c.change
<1>1. CASE form = "decide"
  BY <1>1 DEF Results, RecordDecision, Cases, Closed
<1>2. CASE form = "close"
  BY <1>2 DEF Results, CloseUnresolved, Cases, Closed
<1>3. CASE form = "accept"
  BY <1>3 DEF Results, AcceptProposal, Cases, Closed, Outcomes
<1>4. CASE form = "evidence"
  <2> DEFINE e == [AutoReopened(c) EXCEPT !.ready = FALSE]
  <2>1. e \in Cases /\ e.change = c.change
    BY AutoReopenedType DEF Cases
  <2>2. d \in Reevaluated(e) \cup EvidenceChanged(AutoReopened(c))
    BY <1>4 DEF Results, AddEvidence
  <2> QED
    BY <2>1, <2>2, AutoReopenedType, EvidenceChangedType, ReevaluatedType
<1>5. CASE form = "party"
  BY <1>5, AutoReopenedType, ReevaluatedType DEF Results, AddParty
<1>6. CASE form = "confirm"
  <2> DEFINE e == [c EXCEPT !.status = "in_review", !.candidate = FALSE]
  <2>1. e \in Cases /\ e.change = c.change
    BY DEF Cases, Opened
  <2> QED
    BY <1>6, <2>1, EvidenceChangedType DEF Results, ConfirmMatch
<1>7. CASE form = "reject"
  <2> DEFINE e == [AutoReopened(c) EXCEPT !.candidate = FALSE]
  <2>1. e \in Cases /\ e.change = c.change
    BY AutoReopenedType DEF Cases
  <2> QED
    BY <1>7, <2>1, ReevaluatedType DEF Results, RejectMatches
<1>8. CASE form = "reassign"
  BY <1>8, AutoReopenedType DEF Results
<1>9. CASE form = "reevaluate"
  BY <1>9, ReevaluatedType DEF Results
<1>10. CASE form = "reopen"
  <2> DEFINE e == [c EXCEPT !.status = "reopened"]
  <2>1. e \in Cases /\ e.change = c.change
    BY DEF Cases, Opened
  <2> QED
    BY <1>10, <2>1, ReevaluatedType DEF Results, ReopenCase
<1> QED
  BY <1>1, <1>2, <1>3, <1>4, <1>5, <1>6, <1>7, <1>8, <1>9, <1>10
     DEF Forms, DecisionForms, FileForms

LEMMA ChangedType ==
    ASSUME NEW c \in Cases, NEW d \in Cases, d.change = c.change, c.change < MaxChanges
    PROVE  Changed(d) \in Cases /\ Changed(d).change = c.change + 1
BY PortalConstants DEF Changed, Cases, PortalConstants

\* Forms are offered as the status of the view asks for.
LEMMA OfferedFits ==
    ASSUME NEW view \in Views, NEW form \in Offered(view) \cap (DecisionForms \cup {"reopen"})
    PROVE  (form = "reopen") <=> (view.status \in Closed)
BY DEF Offered, MatchActions, DecisionForms

\* What the portal's server notes of an action under way leaves the rest of the
\* queue alone.
LEMMA ServedQueue ==
    ASSUME NEW q \in Seq(Submissions), q # <<>>, NEW state \in {"committed", "refused"}
    PROVE  /\ [q EXCEPT ![1].state = state] \in Seq(Submissions)
           /\ [q EXCEPT ![1].state = state] # <<>>
           /\ Len([q EXCEPT ![1].state = state]) = Len(q)
           /\ \A i \in 1..Len(q) : /\ [q EXCEPT ![1].state = state][i].form = q[i].form
                                   /\ [q EXCEPT ![1].state = state][i].at = q[i].at
<1> DEFINE e == [q[1] EXCEPT !.state = state]
           r == [q EXCEPT ![1] = e]
<1>1. 1 \in 1..Len(q) /\ Len(q) \in Nat \ {0}
  BY EmptySeq
<1>2. q[1] \in Submissions
  BY <1>1, ElementOfSeq
<1>3. e \in Submissions /\ e.form = q[1].form /\ e.at = q[1].at
  BY <1>2 DEF Submissions
<1> HIDE DEF e
<1>4. /\ r \in Seq(Submissions) /\ Len(r) = Len(q)
      /\ \A j \in 1..Len(q) : r[j] = IF j = 1 THEN e ELSE q[j]
  BY <1>1, <1>3, ExceptSeq
<1>5. r # <<>>
  BY <1>1, <1>4, EmptySeq
<1>6. \A j \in 1..Len(q) : r[j].form = q[j].form /\ r[j].at = q[j].at
  BY <1>3, <1>4
<1>7. r = [q EXCEPT ![1].state = state]
  BY DEF e
<1> QED
  BY <1>4, <1>5, <1>6, <1>7

-----------------------------------------------------------------------------
LEMMA InitEstablishes == Init => IInv
<1> SUFFICES ASSUME Init PROVE IInv
  OBVIOUS
<1>1. case \in Cases /\ case.change = 0
  BY PortalConstants DEF Init, PortalConstants
<1>2. GetCase(case) \in Views /\ GetCase(case).change = 0
  BY <1>1, GetCaseType
<1>3. TypeOK
  BY <1>1, <1>2, PortalConstants, EmptySeq DEF Init, TypeOK, PortalConstants
<1>4. ViewsAreSnapshots
  BY <1>1, <1>2 DEF Init, ViewsAreSnapshots, Snapshot, Rendered
<1>5. SubmissionsFit
  BY DEF Init, SubmissionsFit
<1>6. OwnWorkIsDone /\ LoadsAreFresh /\ StaleOnlyAfterError
  BY <1>1, <1>2 DEF Init, OwnWorkIsDone, LoadsAreFresh, StaleOnlyAfterError, Rendered
<1> QED
  BY <1>3, <1>4, <1>5, <1>6 DEF IInv

-----------------------------------------------------------------------------
(***************************************************************************)
(* Steps that leave the case as it is.                                     *)
(***************************************************************************)
LEMMA OpenTabStep ==
    ASSUME IInv, NEW b \in Browsers, OpenTab(b)
    PROVE  IInv'
<1> USE DEF IInv, OpenTab
<1>1. TypeOK'
  BY DEF TypeOK, Loads
<1>2. ViewsAreSnapshots'
  BY DEF TypeOK, ViewsAreSnapshots, Snapshot, Rendered
<1>3. SubmissionsFit'
  BY DEF SubmissionsFit, Fits
<1>4. (OwnWorkIsDone /\ LoadsAreFresh /\ StaleOnlyAfterError)'
  BY DEF TypeOK, OwnWorkIsDone, LoadsAreFresh, StaleOnlyAfterError, Rendered, NoLoad
<1> QED
  BY <1>1, <1>2, <1>3, <1>4

LEMMA ReloadStep ==
    ASSUME IInv, NEW b \in Browsers, Reload(b)
    PROVE  IInv'
<1> USE DEF IInv, Reload
<1>1. TypeOK'
  BY EmptySeq DEF TypeOK, Loads
<1>2. ViewsAreSnapshots'
  BY DEF TypeOK, ViewsAreSnapshots, Snapshot, Rendered
<1>3. SubmissionsFit'
  BY DEF TypeOK, SubmissionsFit, Fits
<1>4. (OwnWorkIsDone /\ LoadsAreFresh /\ StaleOnlyAfterError)'
  BY DEF TypeOK, OwnWorkIsDone, LoadsAreFresh, StaleOnlyAfterError, Rendered, NoLoad
<1> QED
  BY <1>1, <1>2, <1>3, <1>4

LEMMA RenderPageStep ==
    ASSUME IInv, NEW b \in Browsers, RenderPage(b)
    PROVE  IInv'
<1> USE DEF IInv, RenderPage
<1>1. case \in Cases
  BY DEF TypeOK
<1>2. /\ GetCase(case) \in Views /\ GetCase(case).change = case.change
      /\ case.change \in Nat
  BY <1>1, GetCaseType, PortalConstants DEF Cases, PortalConstants
<1>3. load[b] \in Loads
  BY DEF TypeOK
<1>4. /\ load'[b] \in Loads /\ load'[b].kind = load[b].kind
      /\ load'[b].seen = GetCase(case)
  BY <1>2, <1>3 DEF TypeOK, Loads
<1>5. \A c \in Browsers \ {b} : load'[c] = load[c]
  BY DEF TypeOK
<1>6. TypeOK'
  BY <1>4, <1>5 DEF TypeOK
<1>7. ViewsAreSnapshots'
  BY <1>2, <1>4, <1>5 DEF ViewsAreSnapshots, Snapshot, Rendered
<1>8. SubmissionsFit'
  BY DEF SubmissionsFit, Fits
<1>9. own \in [Browsers -> Nat] /\ \A c \in Browsers : own[c] <= case.change
  BY PortalConstants DEF TypeOK, OwnWorkIsDone, PortalConstants
<1>10. LoadsAreFresh'
  BY <1>2, <1>3, <1>4, <1>5, <1>9 DEF LoadsAreFresh, Rendered
<1>11. (OwnWorkIsDone /\ StaleOnlyAfterError)'
  BY <1>3, <1>4, <1>5 DEF OwnWorkIsDone, StaleOnlyAfterError, Loads, NoLoad
<1> QED
  BY <1>6, <1>7, <1>8, <1>10, <1>11

LEMMA ShowPageStep ==
    ASSUME IInv, NEW b \in Browsers, ShowPage(b)
    PROVE  IInv'
<1> USE DEF IInv, ShowPage
<1>1. load[b] \in Loads /\ load[b].seen \in Views
  BY DEF TypeOK, Loads
<1>2. /\ load' = [load EXCEPT ![b] = NoLoad] /\ page' = [page EXCEPT ![b] = load[b].seen]
      /\ \A c \in Browsers \ {b} : failed'[c] = failed[c]
      /\ load[b].kind # "reload" => failed'[b] = failed[b]
  BY DEF TypeOK
<1>3. TypeOK'
  BY <1>1, <1>2 DEF TypeOK
<1>4. ViewsAreSnapshots'
  BY <1>1, <1>2 DEF TypeOK, ViewsAreSnapshots, Snapshot, Rendered
<1>5. SubmissionsFit'
  BY DEF SubmissionsFit, Fits
<1>6. LoadsAreFresh'
  BY <1>2 DEF TypeOK, LoadsAreFresh, Rendered
<1>7. own[b] \in Nat /\ load[b].seen.change \in Nat
  BY <1>1, PortalConstants DEF TypeOK, Views, PortalConstants
<1>8. StaleOnlyAfterError'
  BY <1>1, <1>2, <1>7 DEF TypeOK, StaleOnlyAfterError, LoadsAreFresh, Rendered
<1> QED
  BY <1>3, <1>4, <1>5, <1>6, <1>8 DEF OwnWorkIsDone

LEMMA SubmitStep ==
    ASSUME IInv, NEW b \in Browsers, NEW form \in Forms, Submit(b, form)
    PROVE  IInv'
<1> DEFINE s == [form |-> form, at |-> page[b].change, state |-> "sent"]
<1> USE DEF IInv, Submit
<1>1. page[b] \in Views /\ s \in Submissions /\ queue[b] \in Seq(Submissions)
  BY DEF TypeOK, Views, Submissions
<1>2. queue' = [queue EXCEPT ![b] = Append(queue[b], s)]
  BY DEF TypeOK
<1>3. Fits(s)
  <2>1. Snapshot(page[b])
    BY DEF ViewsAreSnapshots
  <2>2. case \in Cases
    BY DEF TypeOK
  <2>3. s.at = page[b].change /\ s.form = form
    OBVIOUS
  <2>4. s.at = case.change => page[b].status = case.status
    BY <2>1, <2>2, <2>3, GetCaseType DEF Snapshot
  <2>5. s.form \in DecisionForms \cup {"reopen"}
          => ((s.form = "reopen") <=> (page[b].status \in Closed))
    BY <1>1, <2>3, OfferedFits
  <2> QED
    BY <2>1, <2>3, <2>4, <2>5 DEF Fits, Snapshot
<1> HIDE DEF s
<1>4. /\ queue'[b] \in Seq(Submissions) /\ queue'[b] # <<>>
      /\ Len(queue'[b]) = Len(queue[b]) + 1
      /\ \A i \in 1..Len(queue'[b]) :
             queue'[b][i] = IF i <= Len(queue[b]) THEN queue[b][i] ELSE s
  <2>1. queue'[b] = Append(queue[b], s)
    BY <1>2 DEF TypeOK
  <2> QED
    BY <1>1, <2>1, AppendProperties, LenProperties, EmptySeq
<1>5. TypeOK'
  BY <1>2, <1>4 DEF TypeOK
<1>6. ViewsAreSnapshots'
  BY DEF ViewsAreSnapshots, Snapshot, Rendered
<1>7. SubmissionsFit'
  <2>1. \A i \in 1..Len(queue'[b]) : Fits(queue'[b][i])
    BY <1>1, <1>3, <1>4, LenProperties DEF SubmissionsFit
  <2>2. \A c \in Browsers \ {b} : queue'[c] = queue[c]
    BY <1>2 DEF TypeOK
  <2> QED
    BY <2>1, <2>2 DEF SubmissionsFit, Fits
<1>8. (OwnWorkIsDone /\ LoadsAreFresh /\ StaleOnlyAfterError)'
  <2>1. \A c \in Browsers \ {b} : queue'[c] = queue[c] /\ failed'[c] = failed[c]
    BY <1>2 DEF TypeOK
  <2>2. load[b] # NoLoad => load[b].kind # "reload"
    OBVIOUS
  <2> QED
    BY <1>4, <2>1, <2>2 DEF OwnWorkIsDone, LoadsAreFresh, StaleOnlyAfterError, Rendered
<1> QED
  BY <1>5, <1>6, <1>7, <1>8

\* The server's note on the first action of a browser; all else is as it was.
LEMMA ServedLeavesTheRest ==
    ASSUME IInv, NEW b \in Browsers, Sent(b), NEW state \in {"committed", "refused"},
           Served(b, state)
    PROVE  /\ queue' \in [Browsers -> Seq(Submissions)]
           /\ \A c \in Browsers :
                  /\ queue'[c] = <<>> <=> queue[c] = <<>>
                  /\ Len(queue'[c]) = Len(queue[c])
                  /\ \A i \in 1..Len(queue[c]) : /\ queue'[c][i].form = queue[c][i].form
                                                 /\ queue'[c][i].at = queue[c][i].at
<1>1. queue \in [Browsers -> Seq(Submissions)] /\ queue[b] # <<>>
  BY DEF IInv, TypeOK, Sent
<1> DEFINE r == [queue[b] EXCEPT ![1].state = state]
<1>2. queue' = [queue EXCEPT ![b] = r]
  BY DEF Served
<1>3. /\ r \in Seq(Submissions) /\ r # <<>> /\ Len(r) = Len(queue[b])
      /\ \A i \in 1..Len(queue[b]) : r[i].form = queue[b][i].form /\ r[i].at = queue[b][i].at
  BY <1>1, ServedQueue
<1> HIDE DEF r
<1> QED
  BY <1>1, <1>2, <1>3

LEMMA RefusedStep ==
    ASSUME IInv, NEW b \in Browsers, Sent(b), Served(b, "refused"),
           UNCHANGED <<case, page, load, failed, own>>
    PROVE  IInv'
<1>1. /\ queue' \in [Browsers -> Seq(Submissions)]
      /\ \A c \in Browsers :
             /\ queue'[c] = <<>> <=> queue[c] = <<>>
             /\ Len(queue'[c]) = Len(queue[c])
             /\ \A i \in 1..Len(queue[c]) : /\ queue'[c][i].form = queue[c][i].form
                                            /\ queue'[c][i].at = queue[c][i].at
  BY ServedLeavesTheRest
<1>2. TypeOK'
  BY <1>1 DEF IInv, TypeOK
<1>3. ViewsAreSnapshots'
  BY DEF IInv, ViewsAreSnapshots, Snapshot, Rendered
<1>4. SubmissionsFit'
  BY <1>1 DEF IInv, SubmissionsFit, Fits
<1>5. (OwnWorkIsDone /\ LoadsAreFresh /\ StaleOnlyAfterError)'
  BY <1>1 DEF IInv, OwnWorkIsDone, LoadsAreFresh, StaleOnlyAfterError, Rendered
<1> QED
  BY <1>2, <1>3, <1>4, <1>5 DEF IInv

LEMMA AnswerFailedStep ==
    ASSUME IInv, NEW b \in Browsers, AnswerFailed(b)
    PROVE  IInv'
<1> USE DEF IInv, AnswerFailed, Answered
<1>1. /\ queue[b] \in Seq(Submissions) /\ queue[b] # <<>>
      /\ queue' = [queue EXCEPT ![b] = Tail(queue[b])]
      /\ failed' = [failed EXCEPT ![b] = failed[b] \cup {Head(queue[b]).form}]
  BY DEF TypeOK
<1>2. /\ Head(queue[b]) \in Submissions /\ Tail(queue[b]) \in Seq(Submissions)
      /\ Len(Tail(queue[b])) = Len(queue[b]) - 1
      /\ \A i \in 1..Len(Tail(queue[b])) : Tail(queue[b])[i] = queue[b][i + 1]
  BY <1>1, HeadTailProperties
<1>3. TypeOK'
  <2>1. Head(queue[b]).form \in Forms
    BY <1>2 DEF Submissions
  <2> QED
    BY <1>1, <1>2, <2>1 DEF TypeOK
<1>4. ViewsAreSnapshots'
  BY DEF ViewsAreSnapshots, Snapshot, Rendered
<1>5. SubmissionsFit'
  <2>1. Len(queue[b]) \in Nat /\ queue'[b] = Tail(queue[b])
    BY <1>1, LenProperties DEF TypeOK
  <2>2. \A i \in 1..Len(queue'[b]) : Fits(queue'[b][i])
    BY <1>2, <2>1 DEF SubmissionsFit
  <2>3. \A c \in Browsers \ {b} : queue'[c] = queue[c]
    BY <1>1 DEF TypeOK
  <2> QED
    BY <2>2, <2>3 DEF SubmissionsFit, Fits
<1>6. (OwnWorkIsDone /\ LoadsAreFresh /\ StaleOnlyAfterError)'
  <2>1. \A c \in Browsers \ {b} : queue'[c] = queue[c] /\ failed'[c] = failed[c]
    BY <1>1 DEF TypeOK
  <2>2. failed'[b] # {}
    BY <1>1 DEF TypeOK
  <2>3. load[b] # NoLoad => load[b].kind # "reload"
    BY <1>1 DEF LoadsAreFresh
  <2> QED
    BY <2>1, <2>2, <2>3 DEF OwnWorkIsDone, LoadsAreFresh, StaleOnlyAfterError, Rendered
<1> QED
  BY <1>3, <1>4, <1>5, <1>6

-----------------------------------------------------------------------------
(***************************************************************************)
(* Steps that change the case: no view and no submission is of the present *)
(* case any more.                                                          *)
(***************************************************************************)
LEMMA CaseMovesOn ==
    ASSUME IInv, case' \in Cases, case'.change = case.change + 1,
           UNCHANGED <<page, load>>,
           \A c \in Browsers :
               /\ Len(queue'[c]) = Len(queue[c])
               /\ \A i \in 1..Len(queue[c]) : queue'[c][i].at = queue[c][i].at
    PROVE  ViewsAreSnapshots' /\ SubmissionsFit'
<1>1. case.change \in Nat
  BY PortalConstants DEF IInv, TypeOK, Cases, PortalConstants
<1>2. ASSUME NEW view \in Views, Snapshot(view)
      PROVE  view.change <= case'.change /\ view.change # case'.change
  BY <1>1, <1>2, PortalConstants DEF Snapshot, Views, PortalConstants
<1>3. \A b \in Browsers : page[b] \in Views /\ (Rendered(b) => load[b].seen \in Views)
  BY DEF IInv, TypeOK, Loads, Rendered
<1>4. ViewsAreSnapshots'
  BY <1>2, <1>3 DEF IInv, ViewsAreSnapshots, Snapshot, Rendered
<1>5. ASSUME NEW b \in Browsers, NEW i \in 1..Len(queue[b])
      PROVE  queue[b][i].at \in Nat
  <2>1. queue[b] \in Seq(Submissions)
    BY DEF IInv, TypeOK
  <2>2. queue[b][i] \in Submissions
    BY <2>1, ElementOfSeq
  <2> QED
    BY <2>2, PortalConstants DEF Submissions, PortalConstants
<1>6. \A b \in Browsers : \A i \in 1..Len(queue[b]) :
          queue'[b][i].at <= case'.change /\ queue'[b][i].at # case'.change
  BY <1>1, <1>5 DEF IInv, SubmissionsFit, Fits
<1>7. SubmissionsFit'
  BY <1>6 DEF SubmissionsFit, Fits
<1> QED
  BY <1>4, <1>7

LEMMA CommitStep ==
    ASSUME IInv, NEW b \in Browsers, Commit(b)
    PROVE  IInv'
<1>1. /\ queue[b] \in Seq(Submissions) /\ queue[b] # <<>> /\ Sent(b)
      /\ case \in Cases /\ case.change < MaxChanges
  BY DEF IInv, TypeOK, Commit, Sent
<1>2. Head(queue[b]).form \in Forms
  <2>1. Head(queue[b]) \in Submissions
    BY <1>1, HeadTailProperties
  <2> QED
    BY <2>1 DEF Submissions
<1>3. case' \in Cases /\ case'.change = case.change + 1
  BY <1>1, <1>2, ResultsType, ChangedType DEF Commit
<1>4. Served(b, "committed") /\ UNCHANGED <<page, load, failed>>
      /\ own' = [own EXCEPT ![b] = case.change + 1]
  BY DEF Commit
<1>5. /\ queue' \in [Browsers -> Seq(Submissions)]
      /\ \A c \in Browsers :
             /\ queue'[c] = <<>> <=> queue[c] = <<>>
             /\ Len(queue'[c]) = Len(queue[c])
             /\ \A i \in 1..Len(queue[c]) : /\ queue'[c][i].form = queue[c][i].form
                                            /\ queue'[c][i].at = queue[c][i].at
  BY <1>1, <1>4, ServedLeavesTheRest
<1>6. case.change \in Nat /\ case.change + 1 \in 0..MaxChanges
  BY <1>1, PortalConstants DEF Cases, PortalConstants
<1>7. TypeOK'
  BY <1>3, <1>4, <1>5, <1>6 DEF IInv, TypeOK
<1>8. ViewsAreSnapshots' /\ SubmissionsFit'
  BY <1>3, <1>4, <1>5, CaseMovesOn
<1>9. own \in [Browsers -> Nat] /\ queue'[b] # <<>>
  BY <1>1, <1>5, PortalConstants DEF IInv, TypeOK, PortalConstants
<1>10. OwnWorkIsDone'
  BY <1>3, <1>4, <1>6, <1>9 DEF IInv, OwnWorkIsDone
<1>11. \A c \in Browsers \ {b} : own'[c] = own[c] /\ (queue'[c] = <<>> <=> queue[c] = <<>>)
  BY <1>4, <1>5, <1>9
<1>12. load[b] # NoLoad => load[b].kind # "reload"
  BY <1>1 DEF IInv, LoadsAreFresh
<1>13. LoadsAreFresh'
  BY <1>4, <1>9, <1>11, <1>12 DEF IInv, LoadsAreFresh, Rendered
<1>14. StaleOnlyAfterError'
  BY <1>4, <1>9, <1>11 DEF IInv, StaleOnlyAfterError
<1> QED
  BY <1>7, <1>8, <1>10, <1>13, <1>14 DEF IInv

LEMMA OthersWorkStep ==
    ASSUME IInv, OthersWork
    PROVE  IInv'
<1>1. case \in Cases /\ case.change < MaxChanges /\ UNCHANGED <<page, load, queue, failed, own>>
  BY DEF IInv, TypeOK, OthersWork
<1>2. case' \in Cases /\ case'.change = case.change + 1
  <2>1. CASE \E form \in Forms : \E filled \in Fillings(form) :
                \E c \in Results(case, form, filled) : case' = Changed(c)
    BY <1>1, <2>1, ResultsType, ChangedType
  <2>2. CASE case' = Changed([case EXCEPT !.status = "reopened"])
    <3>1. /\ [case EXCEPT !.status = "reopened"] \in Cases
          /\ [case EXCEPT !.status = "reopened"].change = case.change
      BY <1>1 DEF Cases, Opened
    <3> QED
      BY <1>1, <2>2, <3>1, ChangedType
  <2> QED
    BY <2>1, <2>2 DEF OthersWork
<1>3. ViewsAreSnapshots' /\ SubmissionsFit'
  BY <1>1, <1>2, CaseMovesOn
<1>4. TypeOK'
  BY <1>1, <1>2 DEF IInv, TypeOK
<1>5. OwnWorkIsDone'
  BY <1>1, <1>2, PortalConstants DEF IInv, TypeOK, Cases, OwnWorkIsDone, PortalConstants
<1>6. (LoadsAreFresh /\ StaleOnlyAfterError)'
  BY <1>1 DEF IInv, LoadsAreFresh, StaleOnlyAfterError, Rendered
<1> QED
  BY <1>3, <1>4, <1>5, <1>6 DEF IInv

-----------------------------------------------------------------------------
LEMMA StepPreserves == IInv /\ [Next]_vars => IInv'
<1> SUFFICES ASSUME IInv, [Next]_vars PROVE IInv'
  OBVIOUS
<1>1. CASE UNCHANGED vars
  BY <1>1 DEF vars, IInv, TypeOK, ViewsAreSnapshots, Snapshot, Rendered, SubmissionsFit, Fits,
              OwnWorkIsDone, LoadsAreFresh, StaleOnlyAfterError
<1>2. ASSUME NEW b \in Browsers, PageStep(b) PROVE IInv'
  BY <1>2, PortalConstants, OpenTabStep, ReloadStep, RenderPageStep, ShowPageStep, SubmitStep
     DEF PageStep, SwitchAnalyst, PortalConstants
<1>3. ASSUME NEW b \in Browsers, ServerStep(b) PROVE IInv'
  BY <1>3, CommitStep, RefusedStep DEF ServerStep, Refuse, LoseRequest
<1>4. ASSUME NEW b \in Browsers, AnswerStep(b) PROVE IInv'
  BY <1>4, ReloadStep, AnswerFailedStep DEF AnswerStep, AnswerDone
<1> QED
  BY <1>1, <1>2, <1>3, <1>4, OthersWorkStep DEF Next

\* The inductive invariant holds however the browsers, the portal's server and the
\* others interleave.
THEOREM Invariance == Spec => []IInv
BY InitEstablishes, StepPreserves, PTL DEF Spec

\* Pages, queues and the case stay of their types.
THEOREM TypeCorrect == Spec => []TypeOK
<1>1. IInv => TypeOK
  BY DEF IInv
<1> QED
  BY <1>1, Invariance, PTL

\* An analyst whose page misses a change of the analyst's own has been told of a
\* failure, or is still waiting.
THEOREM OwnWorkIsNotSilentlyMissed == Spec => []StaleOnlyAfterError
<1>1. IInv => StaleOnlyAfterError
  BY DEF IInv
<1> QED
  BY <1>1, Invariance, PTL

\* A decision, a closure or a reopening that does not fit the status of the case
\* was sent from a page the case had moved on from.
THEOREM MisfitsAreStale == Spec => OnlyStalePagesMisfit
<1> DEFINE A == \A b \in Browsers :
                    /\ Sent(b) /\ case' # case /\ queue'[b] # queue[b]
                    /\ Head(queue[b]).form \in DecisionForms \cup {"reopen"}
                    => \/ (Head(queue[b]).form = "reopen") = (case.status \in Closed)
                       \/ Head(queue[b]).at < case.change
<1>1. IInv => A
  <2> SUFFICES ASSUME IInv, NEW b \in Browsers, Sent(b),
                      Head(queue[b]).form \in DecisionForms \cup {"reopen"},
                      ~ (Head(queue[b]).at < case.change)
               PROVE  (Head(queue[b]).form = "reopen") = (case.status \in Closed)
    OBVIOUS
  <2>1. queue[b] \in Seq(Submissions) /\ queue[b] # <<>>
    BY DEF IInv, TypeOK, Sent
  <2>2. 1 \in 1..Len(queue[b]) /\ Head(queue[b]) = queue[b][1]
    BY <2>1, EmptySeq
  <2>3. Head(queue[b]) \in Submissions /\ case \in Cases
    BY <2>1, HeadTailProperties DEF IInv, TypeOK
  <2>4. Head(queue[b]).at \in Nat /\ case.change \in Nat
    BY <2>3, PortalConstants DEF Submissions, Cases, PortalConstants
  <2> QED
    BY <2>2, <2>4 DEF IInv, SubmissionsFit, Fits
<1>2. IInv /\ [Next]_vars => [A]_vars
  BY <1>1
<1>3. OnlyStalePagesMisfit <=> [][A]_vars
  BY DEF OnlyStalePagesMisfit
<1> HIDE DEF A
<1> QED
  BY <1>2, <1>3, Invariance, PTL DEF Spec

-----------------------------------------------------------------------------
\* The decision form: what it lets be ticked satisfies the rules on categories.
LEMMA DecisionFormFits ==
    ASSUME NEW f \in RecordDecisionForm, f.codes # {},
           f.decision = "stop" => f.codes \cap HardBlock # {}
    PROVE  DecisionCodesAllowed(f.decision, f.codes)
<1>1. PICK d \in DecisionOutcomes :
          f \in Filled({d}, SUBSET FilteredCodes(d), BOOLEAN, {"none"}, Text)
  BY DEF RecordDecisionForm
<1>2. f.decision = d /\ f.codes \subseteq FilteredCodes(d) /\ f.codes \subseteq ReasonCodes
  <2>1. f.decision = d /\ f.codes \subseteq FilteredCodes(d)
    BY <1>1 DEF Filled
  <2>2. FilteredCodes(d) \subseteq ReasonCodes
    BY PortalConstants DEF FilteredCodes, PortalConstants
  <2> QED
    BY <2>1, <2>2
<1>3. CASE d = "clear"
  BY <1>2, <1>3 DEF FilteredCodes, DecisionCodesAllowed, ClearSupport, HardBlock,
                          UnresolvedInformation
<1>4. CASE d = "review"
  BY <1>2, <1>4 DEF FilteredCodes, DecisionCodesAllowed, ClearSupport, HardBlock,
                          ReviewTrigger, UnresolvedInformation
<1>5. CASE d = "stop"
  BY <1>2, <1>5 DEF DecisionCodesAllowed
<1> QED
  BY <1>3, <1>4, <1>5 DEF DecisionOutcomes

LEMMA ChecklistFits ==
    ASSUME NEW file \in [status : Opened \cup Closed, linked : BOOLEAN,
                         evidence : SUBSET EvidenceStatuses, exception : BOOLEAN]
    PROVE  (\A item \in DOMAIN Checklist(file) : Checklist(file)[item])
               <=> EvaluateEvidenceReadiness([file EXCEPT !.exception = FALSE]) = "ready_for_decision"
<1> DEFINE ticks == Checklist(file)
           plain == [file EXCEPT !.exception = FALSE]
<1>1. (\A item \in DOMAIN ticks : ticks[item])
          <=> /\ ticks.sourceMatch /\ ticks.confirmedEvidence
              /\ ticks.noConflicts /\ ticks.decisionSupport
  BY DEF Checklist
<1>2. /\ plain.linked = file.linked /\ plain.evidence = file.evidence
      /\ plain.exception = FALSE /\ plain.status = file.status
  OBVIOUS
<1> HIDE DEF plain
<1>3. EvaluateEvidenceReadiness(plain) = "ready_for_decision"
          <=> file.linked /\ "confirmed" \in file.evidence /\ "conflicting" \notin file.evidence
  BY <1>2 DEF EvaluateEvidenceReadiness
<1>4. /\ ticks.sourceMatch <=> file.linked
      /\ ticks.confirmedEvidence <=> "confirmed" \in file.evidence
      /\ ticks.noConflicts <=> "conflicting" \notin file.evidence
      /\ ticks.decisionSupport <=>
             EvaluateEvidenceReadiness(file) \in {"ready_for_decision", "exception_approved"}
  BY DEF Checklist
<1>5. file.linked /\ "confirmed" \in file.evidence /\ "conflicting" \notin file.evidence
          => EvaluateEvidenceReadiness(file) \in {"ready_for_decision", "exception_approved"}
  BY DEF EvaluateEvidenceReadiness
<1> QED
  BY <1>1, <1>3, <1>4, <1>5 DEF plain

\* Whatever catalogue the service has, its rules and the page's copies of them agree,
\* but for texts of spaces and for facts that are no object.
THEOREM RulesAreKnown == Spec => []PageKnowsTheRules
<1>1. IInv => PageKnowsTheRules
  <2> SUFFICES ASSUME IInv PROVE PageKnowsTheRules
    OBVIOUS
  <2>1. case \in Cases
    BY DEF IInv, TypeOK
  <2>2. ASSUME NEW f \in Fillings("decide"), Results(case, "decide", f) = {}
        PROVE  \/ f.slip = "spaces" \/ f.codes = {}
               \/ f.decision = "stop" /\ f.codes \cap HardBlock = {}
               \/ ~ case.ready /\ (f.decision = "clear" \/ ~ f.note)
    <3>1. f \in RecordDecisionForm
      BY DEF Fillings
    <3>0. f.slip \in Text
      BY <3>1 DEF RecordDecisionForm, Filled
    <3>2. ~ (f.slip = "none" /\ DecisionCodesAllowed(f.decision, f.codes)
               /\ ExceptionAllowed(Readiness(case), f.decision, f.note))
      BY <2>2 DEF Results, RecordDecision
    <3>3. ~ ExceptionAllowed(Readiness(case), f.decision, f.note)
              => ~ case.ready /\ (f.decision = "clear" \/ ~ f.note)
      BY DEF ExceptionAllowed, Readiness
    <3> QED
      BY <3>0, <3>1, <3>2, <3>3, DecisionFormFits DEF Text
  <2>3. ASSUME NEW f \in Fillings("close"), Results(case, "close", f) = {}
        PROVE  f.slip = "spaces" \/ f.codes = {}
    <3>1. f \in CloseUnresolvedForm
      BY DEF Fillings
    <3>2. f.codes \subseteq ReasonCodes /\ f.codes \subseteq UnresolvedInformation
      BY <3>1, PortalConstants DEF CloseUnresolvedForm, Filled, UnresolvedCodes, PortalConstants
    <3>3. f.slip = "spaces" \/ ~ ClosureCodesAllowed(f.codes)
      <4>1. f.slip \in Text
        BY <3>1 DEF CloseUnresolvedForm, Filled
      <4> QED
        BY <2>3, <4>1 DEF Results, CloseUnresolved, Text
    <3> QED
      BY <3>2, <3>3 DEF ClosureCodesAllowed
  <2>4. \A file \in [status : {case.status}, linked : BOOLEAN,
                      evidence : SUBSET EvidenceStatuses, exception : BOOLEAN] :
           (\A item \in DOMAIN Checklist(file) : Checklist(file)[item])
               <=> EvaluateEvidenceReadiness([file EXCEPT !.exception = FALSE]) = "ready_for_decision"
    <3>1. case.status \in Opened \cup Closed
      BY <2>1 DEF Cases
    <3> QED
      BY <3>1, ChecklistFits
  <2>5. ASSUME NEW form \in {"evidence", "party"}, NEW f \in Fillings(form),
               Results(case, form, f) = {}
        PROVE  f.slip = "spaces" \/ (form = "evidence" /\ f.slip = "facts")
    <3>1. CASE form = "evidence"
      <4>1. f \in EvidenceForm /\ AddEvidence(case, f) = {}
        BY <2>5, <3>1 DEF Fillings, Results
      <4>2. f.status \in EvidenceStatuses /\ f.slip \in {"none", "spaces", "facts"}
        BY <4>1 DEF EvidenceForm, Filled, EvidenceStatuses, Text
      <4>3. EvidenceChanged(AutoReopened(case)) # {}
        <5>1. PICK d : d \in Reevaluated([AutoReopened(case) EXCEPT !.ready = TRUE])
          BY ProposalsFound
        <5>2. d \in EvidenceChanged(AutoReopened(case))
          BY <5>1 DEF EvidenceChanged
        <5> QED
          BY <5>2
      <4>4. Reevaluated([AutoReopened(case) EXCEPT !.ready = FALSE]) # {}
        BY ProposalsFound
      <4>5. f.slip # "none"
        BY <4>1, <4>2, <4>3, <4>4 DEF AddEvidence
      <4> QED
        BY <3>1, <4>2, <4>5
    <3>2. CASE form = "party"
      <4>1. f \in PartyForm /\ AddParty(case, f) = {}
        BY <2>5, <3>2 DEF Fillings, Results
      <4>2. f.slip \in Text
        BY <4>1 DEF PartyForm, Filled
      <4>3. f.slip # "none"
        BY <4>1, ProposalsFound DEF AddParty
      <4> QED
        BY <4>2, <4>3 DEF Text
    <3> QED
      BY <3>1, <3>2
  <2> QED
    BY <2>2, <2>3, <2>4, <2>5 DEF PageKnowsTheRules
<1> QED
  BY <1>1, Invariance, PTL
=============================================================================
