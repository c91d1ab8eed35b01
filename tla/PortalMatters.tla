--------------------------- MODULE PortalMatters ---------------------------
(***************************************************************************)
(* The customer's pages, and the two forms that create a case, in one tab  *)
(* of a browser: src/apps/portal/app/matters, dashboard and                *)
(* internal/cases/new.                                                     *)
(*                                                                         *)
(* A page fetches when it is mounted and shows what it is answered. Pages  *)
(* that are left are unmounted, and the answers they wait for are dropped, *)
(* but for those of the forms: a form that is sent goes on to the record   *)
(* it created wherever the tab is by then. Calls are sent, served and      *)
(* answered in separate steps; any may be lost on either way. In between,  *)
(* the staff and other users of the organization change the matters.       *)
(*                                                                         *)
(* The service keeps its matters in the order of submission; updated is    *)
(* the updated_at of the matter's link. The rows that say who exported a   *)
(* summary are read by nothing, and left out.                              *)
(***************************************************************************)
EXTENDS PortalViews, Sequences

CONSTANTS Earlier,      \* the matters submitted before the tab is opened
          Outcomes,     \* what the staff's work may make of a matter
          ListLimit,    \* how many matters the service lists, 100 in the code
          MaxMatters, MaxChanges,  \* bounds: cases created; changes of the matters
          MaxVisits,    \* bound: times a form is opened
          MaxClicks     \* bound: clicks on a form that wait for the call before them

VARIABLES matters,   \* the cases at the service
          clock,     \* changes so far
          page, fetch, shown,   \* the page of the tab, its call, what it shows
          troubled,  \* the record shows that it could not be reopened
          reopening, reopened,  \* the record's reopening; bookkeeping: when it was done
          visit,     \* how often a form was opened
          create,    \* the call of each visit of a form, and the clicks that wait for it
          lost,      \* bookkeeping: its answer was lost, or taken for a failure
          push       \* where the router is about to go

serviceVars == <<matters, clock>>
pageVars == <<page, fetch, shown, troubled, reopening, reopened, visit>>
formVars == <<create, lost>>
vars == <<serviceVars, pageVars, formVars, push>>

Ids == 1..MaxMatters
Visits == 1..MaxVisits
Times == 0..MaxChanges

\* "intake" is the analysts' form, whose cases belong to no customer.
Forms == {"new", "intake"}
Sections == {"queue", "dashboard"} \cup Forms
Pages == [name : Sections, id : {0}] \cup [name : {"record", "summary", "case"}, id : Ids]
NoPage == [name |-> "none", id |-> 0]

\* Why a form was sent: for the first time; again, after its answer was lost or
\* while the router was about to leave; or early, while a call of its was under way.
Causes == {"first", "again", "early"}

Cases == [form : Forms, by : Visits \cup {0}, cause : Causes,
          status : CustomerStatuses, decision : Decisions, readiness : ReadinessStates,
          updated : Times]
MatterSummaries == [id : Ids, status : CustomerStatuses, decision : Decisions,
                    readiness : ReadinessStates, updated : Times]

ASSUME MatterConstants ==
    /\ Earlier \in Seq(Cases) /\ Len(Earlier) <= MaxMatters /\ Len(Earlier) <= MaxChanges
    /\ \A i \in 1..Len(Earlier) : Earlier[i].by = 0 /\ Earlier[i].updated <= Len(Earlier)
    /\ Outcomes \subseteq [status : CustomerStatuses, decision : Decisions,
                           readiness : ReadinessStates]
    /\ ListLimit \in Nat /\ MaxMatters \in Nat /\ MaxChanges \in Nat /\ MaxVisits \in Nat
    /\ MaxClicks \in Nat

None == [state |-> "none"]
Views == [state : {"loading", "error", "shown"}, report : {"none", "export", "fallback"},
          rows : SUBSET MatterSummaries]
Loading == [state |-> "loading", report |-> "none", rows |-> {}]
Fetches == {None} \cup [state : {"sent", "failed"}, call : {"list", "detail", "export"}]
           \cup [state : {"served"}, call : {"list", "detail", "export"},
                 rows : SUBSET MatterSummaries]
Reopenings == {None} \cup [state : {"sent", "checked", "refused"}]
              \cup [state : {"served"}, rows : SUBSET MatterSummaries]
Calls == [state : {"sent", "refused"}, form : Forms, cause : Causes, more : 0..MaxClicks]
Answers == [state : {"served"}, form : Forms, cause : Causes, more : 0..MaxClicks, id : Ids]
Creations == {None} \cup Calls \cup Answers

TypeOK ==
    /\ matters \in Seq(Cases) /\ Len(matters) <= MaxMatters
    /\ clock \in Times
    /\ page \in Pages /\ fetch \in Fetches /\ shown \in Views
    /\ troubled \in BOOLEAN /\ reopening \in Reopenings /\ reopened \in Times
    /\ visit \in 0..MaxVisits
    /\ create \in [Visits -> Creations] /\ lost \in [Visits -> BOOLEAN]
    /\ push \in Pages \cup {NoPage}

-----------------------------------------------------------------------------
(***************************************************************************)
(* What the service answers.                                               *)
(***************************************************************************)
SummaryIn(ms, i) ==
    [id |-> i, status |-> ms[i].status, decision |-> ms[i].decision,
     readiness |-> ms[i].readiness, updated |-> ms[i].updated]
Summary(i) == SummaryIn(matters, i)

Submitted == {i \in 1..Len(matters) : matters[i].form = "new"}

\* Variant of ListMatters: the limit is spent on the cases of others as well.
ListMattersOfAll ==
    {Summary(i) : i \in {j \in Submitted : Len(matters) - j < ListLimit}}

\* listMatters: those submitted last.
ListMatters ==
    {Summary(i) : i \in {j \in Submitted :
        Cardinality({later \in Submitted : later > j}) < ListLimit}}

\* getMatterDetail notes that the matter was viewed, and with it its updated_at;
\* when it cannot, the detail is answered all the same.
Viewed(i) == [matters EXCEPT ![i].updated = clock + 1]

Changed(i, row) ==
    /\ clock < MaxChanges
    /\ clock' = clock + 1
    /\ matters' = [matters EXCEPT ![i] = [row EXCEPT !.updated = clock + 1]]

\* Variant of NewCase: the case's own status is taken for the customer's.
NewCaseOpen(form, v, cause, readiness) ==
    [form |-> form, by |-> v, cause |-> cause, status |-> "open", decision |-> "none",
     readiness |-> readiness, updated |-> clock + 1]

NewCase(form, v, cause, readiness) ==
    [form |-> form, by |-> v, cause |-> cause, status |-> "submitted", decision |-> "none",
     readiness |-> readiness, updated |-> clock + 1]

\* A case is created. The property it names is linked when one matches, and brings
\* confirmed evidence with it.
Created(form, v, cause) ==
    /\ Len(matters) < MaxMatters /\ clock < MaxChanges
    /\ clock' = clock + 1
    /\ \E readiness \in {"needs_source_match", "ready_for_decision"} :
           matters' = Append(matters, NewCase(form, v, cause, readiness))

-----------------------------------------------------------------------------
(***************************************************************************)
(* Going from page to page.                                                *)
(***************************************************************************)
CallOf(name) ==
    CASE name \in {"queue", "dashboard"} -> "list"
      [] name = "record"  -> "detail"
      [] name = "summary" -> "export"
      [] OTHER -> "none"

\* Variant of Mount: an answer under way to the page before is not dropped.
MountKeepingAnswers(p) ==
    /\ p.name \in Forms => visit < MaxVisits
    /\ visit' = IF p.name \in Forms THEN visit + 1 ELSE visit
    /\ page' = p
    /\ fetch' = IF fetch.state = "served" THEN fetch
                ELSE IF CallOf(p.name) = "none" THEN None
                ELSE [state |-> "sent", call |-> CallOf(p.name)]
    /\ shown' = IF CallOf(p.name) = "none" THEN [Loading EXCEPT !.state = "shown"] ELSE Loading
    /\ troubled' = FALSE /\ reopening' = None /\ reopened' = 0
    /\ push' = NoPage

\* A page is mounted, with its effect, and the one before it is unmounted.
Mount(p) ==
    /\ p.name \in Forms => visit < MaxVisits
    /\ visit' = IF p.name \in Forms THEN visit + 1 ELSE visit
    /\ page' = p
    /\ fetch' = IF CallOf(p.name) = "none" THEN None
                ELSE [state |-> "sent", call |-> CallOf(p.name)]
    /\ shown' = IF CallOf(p.name) = "none" THEN [Loading EXCEPT !.state = "shown"] ELSE Loading
    /\ troubled' = FALSE /\ reopening' = None /\ reopened' = 0
    /\ push' = NoPage

Init ==
    /\ matters = Earlier /\ clock = Len(Earlier)
    /\ page = [name |-> "queue", id |-> 0]
    /\ fetch = [state |-> "sent", call |-> "list"]
    /\ shown = Loading
    /\ troubled = FALSE /\ reopening = None /\ reopened = 0
    /\ visit = 0
    /\ create = [v \in Visits |-> None]
    /\ lost = [v \in Visits |-> FALSE]
    /\ push = NoPage

\* The matters a page links to: the queue through its filters, the dashboard
\* through its widgets.
LinkedMatters ==
    CASE page.name = "queue" -> UNION {FilterMatters(shown.rows, f) : f \in FilterOptions}
      [] page.name = "dashboard" -> DecisionExceptions(shown.rows)
             \cup MatterReadiness(shown.rows) \cup RecentActivity(shown.rows)
      [] OTHER -> {}

\* The command palette opens over any page, a form that waits for its answer
\* included, and leads a pilot_admin to the analysts' form.
Palette == [name : {"intake"}, id : {0}]

\* The record links to its summary, and back; the sidebar is on every page.
Links ==
    [name : Sections \ {"intake"}, id : {0}] \cup Palette
      \cup {[name |-> "record", id |-> m.id] : m \in LinkedMatters}
      \cup (IF shown.state # "shown" THEN {}
            ELSE CASE page.name = "record" -> {[name |-> "summary", id |-> page.id]}
                   [] page.name = "summary" -> {[name |-> "record", id |-> page.id]}
                   [] OTHER -> {})

Browse ==
    /\ \E p \in Links \ {page} : Mount(p)
    /\ UNCHANGED <<serviceVars, formVars>>

\* The router goes where a form sent it.
Arrive ==
    /\ push # NoPage
    /\ IF push = page THEN push' = NoPage /\ UNCHANGED pageVars ELSE Mount(push)
    /\ UNCHANGED <<serviceVars, formVars>>

-----------------------------------------------------------------------------
(***************************************************************************)
(* A page's own call: listMatters, getMatterDetail or createSummary.       *)
(***************************************************************************)
ServeFetch ==
    /\ fetch.state = "sent"
    /\ IF fetch.call = "list"
       THEN /\ fetch' = [state |-> "served", call |-> "list", rows |-> ListMatters]
            /\ UNCHANGED serviceVars
       ELSE /\ \/ clock < MaxChanges /\ clock' = clock + 1 /\ matters' = Viewed(page.id)
               \/ UNCHANGED <<clock, matters>>
            /\ fetch' = [state |-> "served", call |-> fetch.call, rows |-> {SummaryIn(matters', page.id)}]
    /\ UNCHANGED <<page, shown, troubled, reopening, reopened, visit, formVars, push>>

\* The call or its answer is lost.
LoseFetch ==
    /\ fetch.state = "sent"
    /\ fetch' = [state |-> "failed", call |-> fetch.call]
    /\ UNCHANGED <<serviceVars, page, shown, troubled, reopening, reopened, visit, formVars, push>>

ShowFetch ==
    /\ fetch.state = "served"
    /\ shown' = [state |-> "shown", rows |-> fetch.rows,
                 report |-> CASE page.name # "summary" -> "none"
                              [] fetch.call = "export" -> "export"
                              [] OTHER -> "fallback"]
    /\ fetch' = None
    /\ UNCHANGED <<serviceVars, page, troubled, reopening, reopened, visit, formVars, push>>

\* A summary that cannot be exported is made of the detail.
FetchFailed ==
    /\ fetch.state = "failed"
    /\ IF fetch.call = "export"
       THEN fetch' = [state |-> "sent", call |-> "detail"] /\ UNCHANGED shown
       ELSE fetch' = None /\ shown' = [Loading EXCEPT !.state = "error"]
    /\ UNCHANGED <<serviceVars, page, troubled, reopening, reopened, visit, formVars, push>>

-----------------------------------------------------------------------------
(***************************************************************************)
(* The forms: NewMatterForm and CaseIntakeForm.                            *)
(***************************************************************************)
Cause == IF push # NoPage \/ lost[visit] THEN "again" ELSE "first"

\* A form is sent. Its button is enabled again as soon as it is answered, though the
\* router has not left the page yet. A form that lacks a field is not sent.
Submit ==
    /\ page.name \in Forms /\ create[visit] = None
    /\ create' = [create EXCEPT ![visit] =
           [state |-> "sent", form |-> page.name, cause |-> Cause, more |-> 0]]
    /\ UNCHANGED <<serviceVars, pageVars, lost, push>>

\* Variant of ClickAgain: the new form's button is not disabled either.
ClickAgainAnyForm ==
    /\ page.name \in Forms /\ create[visit] # None /\ create[visit].more < MaxClicks
    /\ create' = [create EXCEPT ![visit].more = @ + 1]
    /\ UNCHANGED <<serviceVars, pageVars, lost, push>>

\* The new form's button is disabled while the call is under way. The analysts' form
\* disables its own from within the form's action, which React does not render
\* before the action ends: a second click is taken, and waits for the first call.
ClickAgain ==
    /\ page.name = "intake" /\ create[visit] # None /\ create[visit].more < MaxClicks
    /\ create' = [create EXCEPT ![visit].more = @ + 1]
    /\ UNCHANGED <<serviceVars, pageVars, lost, push>>

ServeCreate(v) ==
    /\ create[v].state = "sent"
    /\ Created(create[v].form, v, create[v].cause)
    /\ create' = [create EXCEPT ![v] = [state |-> "served", form |-> @.form, cause |-> @.cause,
                                        more |-> @.more, id |-> Len(matters) + 1]]
    /\ UNCHANGED <<pageVars, lost, push>>

RefuseCreate(v) ==
    /\ create[v].state = "sent"
    /\ create' = [create EXCEPT ![v].state = "refused"]
    /\ UNCHANGED <<serviceVars, pageVars, lost, push>>

\* The call of a visit is over; a click that waited for it is sent now.
AfterCall(call) ==
    IF call.more = 0 THEN None
    ELSE [state |-> "sent", form |-> call.form, cause |-> "early", more |-> call.more - 1]

\* Success: on to the record, or the case, wherever the tab is by now.
CreateDone(v) ==
    /\ create[v].state = "served"
    /\ push' = [name |-> IF create[v].form = "new" THEN "record" ELSE "case",
                id |-> create[v].id]
    /\ create' = [create EXCEPT ![v] = AfterCall(@)]
    /\ UNCHANGED <<serviceVars, pageVars, lost>>

\* Variant of CreateFailed: the error is shown, and the form stays busy.
CreateFailedBusy(v) ==
    /\ create[v].state \in {"served", "refused"}
    /\ lost' = [lost EXCEPT ![v] = @ \/ create[v].state = "served"]
    /\ UNCHANGED <<serviceVars, pageVars, create, push>>

\* Failure, which a case that was created is taken for when the answer is lost, or
\* when createCaseAction throws after the call.
CreateFailed(v) ==
    /\ create[v].state \in {"served", "refused"}
    /\ lost' = [lost EXCEPT ![v] = @ \/ create[v].state = "served"]
    /\ create' = [create EXCEPT ![v] = AfterCall(@)]
    /\ UNCHANGED <<serviceVars, pageVars, push>>

-----------------------------------------------------------------------------
(***************************************************************************)
(* Reopening a matter from its record.                                     *)
(***************************************************************************)
Reopen ==
    /\ page.name = "record" /\ shown.state = "shown" /\ reopening = None
    /\ \E m \in shown.rows : m.status = "resolved"
    /\ reopening' = [state |-> "sent"]
    /\ troubled' = FALSE
    /\ UNCHANGED <<serviceVars, page, fetch, shown, reopened, visit, formVars, push>>

\* The service reopens resolved matters only: it reads the status before the
\* transaction that reopens the case, and not again in it.
CheckReopen ==
    /\ reopening.state = "sent"
    /\ matters[page.id].status = "resolved"
    /\ reopening' = [state |-> "checked"]
    /\ UNCHANGED <<serviceVars, page, fetch, shown, troubled, reopened, visit, formVars, push>>

\* It answers with the detail.
ServeReopen ==
    /\ reopening.state = "checked"
    /\ Changed(page.id, [matters[page.id] EXCEPT !.status = "reopened"])
    /\ reopening' = [state |-> "served", rows |-> {SummaryIn(matters', page.id)}]
    /\ reopened' = clock + 1
    /\ UNCHANGED <<page, fetch, shown, troubled, visit, formVars, push>>

\* It refuses or fails, or the call does not reach it.
RefuseReopen ==
    /\ reopening.state \in {"sent", "checked"}
    /\ reopening' = [state |-> "refused"]
    /\ UNCHANGED <<serviceVars, page, fetch, shown, troubled, reopened, visit, formVars, push>>

ReopenDone ==
    /\ reopening.state = "served"
    /\ shown' = [shown EXCEPT !.rows = reopening.rows]
    /\ reopening' = None
    /\ UNCHANGED <<serviceVars, page, fetch, troubled, reopened, visit, formVars, push>>

\* Variant of ReopenFailed: the error is dropped.
ReopenFailedQuietly ==
    /\ reopening.state \in {"served", "refused"}
    /\ reopening' = None
    /\ UNCHANGED <<serviceVars, page, fetch, shown, troubled, reopened, visit, formVars, push>>

\* The record keeps what it showed. The answer of a reopening may be lost.
ReopenFailed ==
    /\ reopening.state \in {"served", "refused"}
    /\ troubled' = TRUE
    /\ reopening' = None
    /\ UNCHANGED <<serviceVars, page, fetch, shown, reopened, visit, formVars, push>>

-----------------------------------------------------------------------------
(***************************************************************************)
(* Others: the staff work on a matter; other users of the organization,    *)
(* and calls of pages since left, submit, reopen and view matters.         *)
(***************************************************************************)
StaffWork ==
    \E i \in Submitted : \E o \in Outcomes :
        Changed(i, [matters[i] EXCEPT !.status = o.status, !.decision = o.decision,
                                      !.readiness = o.readiness])

\* A change of the file of an open case leaves the matter's link, and so its
\* updated_at, as it was.
FileWork ==
    /\ clock < MaxChanges /\ clock' = clock + 1
    /\ \E i \in Submitted : \E o \in Outcomes :
           matters' = [matters EXCEPT ![i] = [@ EXCEPT !.readiness = o.readiness]]

\* The staff reopen a case whatever its status; a customer's call was checked
\* before, and writes whatever has become of the matter.
OthersReopen ==
    \E i \in Submitted : Changed(i, [matters[i] EXCEPT !.status = "reopened"])

OthersView ==
    /\ clock < MaxChanges /\ clock' = clock + 1
    /\ \E i \in Submitted : matters' = Viewed(i)

OthersWork ==
    /\ StaffWork \/ FileWork \/ OthersReopen \/ OthersView \/ Created("new", 0, "first")
    /\ UNCHANGED <<pageVars, formVars, push>>

-----------------------------------------------------------------------------
PageStep == Browse \/ Arrive \/ ServeFetch \/ LoseFetch \/ ShowFetch \/ FetchFailed
FormStep == Submit \/ ClickAgain
            \/ \E v \in Visits : ServeCreate(v) \/ RefuseCreate(v)
                                 \/ CreateDone(v) \/ CreateFailed(v)
ReopenStep == Reopen \/ CheckReopen \/ ServeReopen \/ RefuseReopen \/ ReopenDone \/ ReopenFailed

Next == PageStep \/ FormStep \/ ReopenStep \/ OthersWork

Spec == Init /\ [][Next]_vars

\* Calls end, one way or the other, and a browser carries out what it is told.
Fairness ==
    /\ WF_vars(ServeFetch \/ LoseFetch) /\ WF_vars(ShowFetch) /\ WF_vars(FetchFailed)
    /\ WF_vars(Arrive)
    /\ WF_vars(CheckReopen \/ ServeReopen \/ RefuseReopen) /\ WF_vars(ReopenDone \/ ReopenFailed)
    /\ \A v \in Visits : /\ WF_vars(ServeCreate(v) \/ RefuseCreate(v))
                         /\ WF_vars(CreateDone(v) \/ CreateFailed(v))

FairSpec == Spec /\ Fairness
-----------------------------------------------------------------------------
\* Two cases of one form are explained: the second was sent after an answer was lost,
\* or while the router was about to leave, or it is a case of the analysts and the
\* button was clicked again while the call before was under way. A customer's second
\* click makes no second matter.
CopiesAreExplained ==
    \A i, j \in 1..Len(matters) :
        i < j /\ matters[i].by = matters[j].by /\ matters[i].by # 0 =>
            \/ matters[j].cause = "again"
            \/ matters[j].cause = "early" /\ matters[j].form = "intake"

\* A record, or a summary, is that of the matter the page's address names, whatever
\* calls were under way when the tab came to it.
RecordIsOfThePage ==
    page.name \in {"record", "summary"} /\ shown.state = "shown"
        => \A m \in shown.rows : m.id = page.id

\* A reopening that was carried out is shown, or reported as failed: the record
\* never goes on showing the resolved matter without a word.
ReopeningIsTold ==
    reopening = None /\ ~troubled => \A m \in shown.rows : m.updated >= reopened

\* The lists miss no matter but those submitted after they were read, and, when the
\* service's limit is reached, those submitted before all that are listed.
ListsMissOnlyOldMatters ==
    page.name \in {"queue", "dashboard"} /\ shown.rows # {} =>
        \A i \in Submitted :
            \/ \E m \in shown.rows : m.id = i
            \/ \A m \in shown.rows : m.id < i
            \/ /\ \A m \in shown.rows : i < m.id
               /\ Cardinality(shown.rows) = ListLimit

\* The widgets of the dashboard, each counting by itself, agree with one another,
\* and with the badges and the words the record has for the same matters.
WidgetsAgree ==
    LET ms == shown.rows
        metrics == BuildMatterMetrics(ms)
    IN  page.name = "dashboard" =>
            /\ metrics.total = ActiveQueue(ms) + metrics.resolved
            /\ metrics.total = metrics.clear + metrics.pendingDecision
                                 + Cardinality(DecisionExceptions(ms))
            /\ DecisionExceptions(ms)
                   = {m \in ms : DecisionTone(m.decision) \in {"warning", "danger"}}
            /\ RecentActivity(ms) \subseteq MatterReadiness(ms)
            /\ \A m \in ms :
                   LET queues == EvidenceWorkQueues(ms)
                       queued == m.readiness \in DOMAIN queues
                   IN  /\ queued => queues[m.readiness] > 0
                       /\ queued <=> EvidenceReadinessTone(m.readiness) \in {"info", "warning"}
                       /\ queued <=> EvidenceReadinessAction(m.readiness)
                                        \in {"waited for", "relied on with an exception"}

\* No call keeps a page loading, a form busy or a record reopening for ever, unless
\* the tab for ever goes from page to page, or the form is for ever clicked again.
AnswersCome ==
    /\ []<>(shown.state # "loading") \/ []<><<Browse \/ Arrive>>_vars
    /\ \/ \A v \in Visits : create[v] # None ~> create[v] = None
       \/ []<><<ClickAgain>>_vars
    /\ reopening # None ~> reopening = None
=============================================================================
