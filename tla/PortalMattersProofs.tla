------------------------ MODULE PortalMattersProofs ------------------------
(***************************************************************************)
(* The safety properties of PortalMatters, for any matters at the start,   *)
(* any work of the staff and any limits of the lists and widgets.          *)
(***************************************************************************)
EXTENDS PortalMatters, FiniteSetTheorems, FunctionTheorems, SequenceTheorems, TLAPS

Known(rows) == \A m \in rows : m.id <= Len(matters)
AllOf(rows, id) == \A m \in rows : m.id = id

\* Nothing names a matter that was not created.
IdsAreKnown ==
    /\ page.id <= Len(matters) /\ push.id <= Len(matters)
    /\ Known(shown.rows)
    /\ fetch.state = "served" => Known(fetch.rows)
    /\ \A v \in Visits : create[v].state = "served" => create[v].id <= Len(matters)

\* A page waits for a call of its own, and shows what that call is answered with.
PageFits ==
    /\ CallOf(page.name) = "none" => fetch = None /\ shown.rows = {}
    /\ shown.state = "shown" => fetch = None
    /\ fetch.state \in {"sent", "failed"} =>
           ((fetch.call = "list") <=> (CallOf(page.name) = "list"))
    /\ page.name \in {"record", "summary"} =>
           /\ AllOf(shown.rows, page.id)
           /\ fetch.state = "served" => AllOf(fetch.rows, page.id)
    /\ page.name \in Forms => visit \in Visits
    /\ push.name \in {"none", "record", "case"}

\* Only a record that shows its matter is reopened, and what the service answers
\* with is the matter as it reopened it.
ReopeningFits ==
    /\ fetch # None => reopening = None /\ reopened = 0
    /\ reopening # None => page.name = "record"
    /\ reopening.state = "served" =>
           /\ Known(reopening.rows) /\ AllOf(reopening.rows, page.id)
           /\ \A m \in reopening.rows : m.updated >= reopened

\* The visit of a form has created a case. Another one is accounted for when an
\* answer was lost, the router is about to leave, or the form has been left. Only the
\* analysts' form is clicked while its call is under way.
Done(v) == \E i \in 1..Len(matters) : matters[i].by = v
Accounted(v) == lost[v] \/ push # NoPage \/ ~(page.name \in Forms /\ visit = v)

VisitsFit ==
    \A v \in Visits :
        /\ Done(v) \/ create[v] # None => v <= visit
        /\ Done(v) => Accounted(v) \/ create[v].state = "served"
        /\ Done(v) /\ create[v].state = "sent" => create[v].cause # "first"
        /\ create[v] # None /\ (create[v].cause = "early" \/ create[v].more # 0)
               => create[v].form = "intake"
        /\ create[v] # None /\ page.name \in Forms /\ visit = v
               => create[v].form = page.name

IInv ==
    /\ TypeOK /\ IdsAreKnown /\ PageFits /\ ReopeningFits /\ VisitsFit
    /\ ReopeningIsTold /\ CopiesAreExplained

-----------------------------------------------------------------------------
(***************************************************************************)
(* What the steps do to the matters.                                       *)
(***************************************************************************)
SameCreation(new, old) ==
    new.by = old.by /\ new.cause = old.cause /\ new.form = old.form

\* A matter is changed, and keeps who created it, and how.
Continued(ms) ==
    /\ ms \in Seq(Cases) /\ Len(ms) = Len(matters)
    /\ \A i \in 1..Len(matters) : SameCreation(ms[i], matters[i])

LEMMA RowReplaced ==
    ASSUME TypeOK, NEW i \in 1..Len(matters), NEW row \in Cases,
           SameCreation(row, matters[i])
    PROVE  Continued([matters EXCEPT ![i] = row]) /\ [matters EXCEPT ![i] = row][i] = row
<1>1. matters \in Seq(Cases)
  BY DEF TypeOK
<1> QED
  BY <1>1, ExceptSeq DEF Continued, SameCreation

LEMMA RowType ==
    ASSUME TypeOK, NEW i \in 1..Len(matters)
    PROVE  matters[i] \in Cases
BY ElementOfSeq DEF TypeOK

LEMMA ClockType ==
    ASSUME TypeOK, clock < MaxChanges
    PROVE  clock \in Nat /\ clock + 1 \in Times
BY MatterConstants DEF TypeOK, Times, MatterConstants

LEMMA ViewedContinues ==
    ASSUME TypeOK, clock < MaxChanges, NEW i \in 1..Len(matters)
    PROVE  Continued(Viewed(i))
<1> DEFINE row == [matters[i] EXCEPT !.updated = clock + 1]
<1>1. row \in Cases /\ SameCreation(row, matters[i])
  BY RowType, ClockType DEF Cases, SameCreation
<1>2. Viewed(i) = [matters EXCEPT ![i] = row]
  BY DEF Viewed
<1> HIDE DEF row
<1> QED
  BY <1>1, <1>2, RowReplaced

LEMMA ChangedContinues ==
    ASSUME TypeOK, NEW i \in 1..Len(matters), NEW row \in Cases, Changed(i, row),
           SameCreation(row, matters[i])
    PROVE  /\ Continued(matters') /\ matters'[i].updated = clock + 1
           /\ clock' = clock + 1 /\ clock' \in Times
<1> DEFINE new == [row EXCEPT !.updated = clock + 1]
<1>1. new \in Cases /\ SameCreation(new, row) /\ new.updated = clock + 1
  BY ClockType DEF Changed, Cases, SameCreation
<1>2. matters' = [matters EXCEPT ![i] = new] /\ clock' = clock + 1 /\ clock < MaxChanges
  BY DEF Changed
<1> HIDE DEF new
<1>3. SameCreation(new, matters[i])
  BY <1>1 DEF SameCreation
<1> QED
  BY <1>1, <1>2, <1>3, RowReplaced, ClockType

\* A matter is added, and the others are as they were.
LEMMA CreatedGrows ==
    ASSUME TypeOK, NEW form \in Forms, NEW v \in Visits \cup {0}, NEW cause \in Causes,
           Created(form, v, cause)
    PROVE  /\ matters' \in Seq(Cases) /\ Len(matters') = Len(matters) + 1
           /\ Len(matters') <= MaxMatters /\ clock' \in Times
           /\ \A i \in 1..Len(matters) : matters'[i] = matters[i]
           /\ LET new == matters'[Len(matters')]
              IN  new.by = v /\ new.cause = cause /\ new.form = form
<1>1. PICK readiness \in {"needs_source_match", "ready_for_decision"} :
          matters' = Append(matters, NewCase(form, v, cause, readiness))
  BY DEF Created
<1> DEFINE row == NewCase(form, v, cause, readiness)
<1>2. row \in Cases /\ row.by = v /\ row.cause = cause /\ row.form = form
  BY ClockType DEF Created, NewCase, Cases, CustomerStatuses, Decisions, ReadinessStates
<1>3. matters \in Seq(Cases) /\ Len(matters) \in Nat /\ Len(matters) < MaxMatters
  BY LenProperties DEF TypeOK, Created
<1> HIDE DEF row
<1>4. /\ Append(matters, row) \in Seq(Cases) /\ Len(Append(matters, row)) = Len(matters) + 1
      /\ \A i \in 1..Len(matters) : Append(matters, row)[i] = matters[i]
      /\ Append(matters, row)[Len(matters) + 1] = row
  BY <1>2, <1>3, AppendProperties
<1>5. clock' \in Times
  BY ClockType DEF Created
<1> QED
  BY <1>1, <1>2, <1>3, <1>4, <1>5, MatterConstants DEF row, MatterConstants

LEMMA SummaryType ==
    ASSUME NEW ms \in Seq(Cases), Len(ms) <= MaxMatters, NEW i \in 1..Len(ms)
    PROVE  /\ SummaryIn(ms, i) \in MatterSummaries
           /\ SummaryIn(ms, i).id = i /\ SummaryIn(ms, i).updated = ms[i].updated
<1>1. ms[i] \in Cases /\ Len(ms) \in Nat
  BY ElementOfSeq, LenProperties
<1>2. i \in Ids
  BY <1>1, MatterConstants DEF Ids, MatterConstants
<1> QED
  BY <1>1, <1>2 DEF SummaryIn, MatterSummaries, Cases

LEMMA ListMattersType ==
    ASSUME TypeOK
    PROVE  ListMatters \in SUBSET MatterSummaries /\ Known(ListMatters)
<1> SUFFICES ASSUME NEW m \in ListMatters PROVE m \in MatterSummaries /\ m.id <= Len(matters)
  BY DEF Known
<1>1. PICK i \in Submitted : m = SummaryIn(matters, i)
  BY DEF ListMatters, Summary
<1>2. i \in 1..Len(matters) /\ Len(matters) \in Nat /\ matters \in Seq(Cases) /\ Len(matters) <= MaxMatters
  BY LenProperties DEF Submitted, TypeOK
<1> QED
  BY <1>1, <1>2, SummaryType

\* Pages link to the matters they show.
LEMMA LinksType ==
    ASSUME TypeOK, IdsAreKnown, NEW p \in Links
    PROVE  p \in Pages /\ p.id <= Len(matters)
<1>1. Len(matters) \in Nat /\ Len(matters) <= MaxMatters
  BY LenProperties DEF TypeOK
<1>2. CASE p \in [name : Sections, id : {0}]
  BY <1>1, <1>2 DEF Pages
<1>3. CASE p \in {[name |-> "record", id |-> m.id] : m \in LinkedMatters}
  <2>1. PICK m \in LinkedMatters : p = [name |-> "record", id |-> m.id]
    BY <1>3
  <2>2. m \in shown.rows
    BY DEF LinkedMatters, FilterMatters, DecisionExceptions, WithDecision, MatterReadiness,
           RecentActivity, Latest
  <2>3. m.id \in Ids /\ m.id <= Len(matters)
    BY <2>2 DEF TypeOK, IdsAreKnown, Known, Views, MatterSummaries
  <2> QED
    BY <2>1, <2>3 DEF Pages
<1>4. CASE p \in IF shown.state # "shown" THEN {}
                 ELSE CASE page.name = "record" -> {[name |-> "summary", id |-> page.id]}
                        [] page.name = "summary" -> {[name |-> "record", id |-> page.id]}
                        [] OTHER -> {}
  <2>1. page.name \in {"record", "summary"} /\ p \in [name : {"record", "summary"}, id : {page.id}]
    BY <1>4
  <2>2. page.id \in Ids
    BY <2>1 DEF TypeOK, Pages, Sections, Forms
  <2> QED
    BY <2>1, <2>2 DEF Pages, IdsAreKnown
<1> QED
  BY <1>2, <1>3, <1>4 DEF Links, Palette, Sections, Forms

LEMMA MattersKept ==
    ASSUME IInv, Continued(matters') \/ matters' = matters
    PROVE  /\ matters' \in Seq(Cases) /\ Len(matters') = Len(matters) /\ Len(matters') <= MaxMatters
           /\ \A v \in Visits : Done(v)' <=> Done(v)
           /\ CopiesAreExplained'
<1>1. /\ matters' \in Seq(Cases) /\ Len(matters') = Len(matters) /\ Len(matters') <= MaxMatters
      /\ \A i \in 1..Len(matters) : SameCreation(matters'[i], matters[i])
  BY DEF IInv, TypeOK, Continued, SameCreation
<1>2. \A v \in Visits : Done(v)' <=> Done(v)
  BY <1>1 DEF Done, SameCreation
<1>3. CopiesAreExplained'
  BY <1>1 DEF IInv, CopiesAreExplained, SameCreation
<1> QED
  BY <1>1, <1>2, <1>3

-----------------------------------------------------------------------------
LEMMA InitEstablishes == Init => IInv
<1> SUFFICES ASSUME Init PROVE IInv
  OBVIOUS
<1> USE DEF Init
<1>1. /\ matters \in Seq(Cases) /\ Len(matters) <= MaxMatters /\ Len(matters) \in Nat
      /\ \A i \in 1..Len(matters) : matters[i].by = 0
      /\ clock \in Times /\ MaxVisits \in Nat /\ MaxChanges \in Nat
  BY MatterConstants, LenProperties DEF MatterConstants, Times
<1>2. TypeOK
  <2>1. page \in Pages /\ push \in Pages \cup {NoPage}
    BY DEF Pages, Sections
  <2>2. fetch \in Fetches /\ shown \in Views
    BY DEF Fetches, Views, Loading
  <2>3. troubled \in BOOLEAN /\ reopening \in Reopenings
    BY DEF Reopenings
  <2>4. reopened \in Times /\ visit \in 0..MaxVisits
    BY <1>1 DEF Times
  <2>5. create \in [Visits -> Creations] /\ lost \in [Visits -> BOOLEAN]
    BY DEF Creations
  <2> QED
    BY <1>1, <2>1, <2>2, <2>3, <2>4, <2>5 DEF TypeOK
<1>3. IdsAreKnown
  BY <1>1 DEF IdsAreKnown, NoPage, Loading, Known, None
<1>4. PageFits /\ ReopeningFits
  BY DEF PageFits, ReopeningFits, CallOf, Loading, None, NoPage, Forms
<1>5. VisitsFit
  BY <1>1 DEF VisitsFit, Done, Visits, None
<1>6. ReopeningIsTold /\ CopiesAreExplained
  BY <1>1 DEF ReopeningIsTold, CopiesAreExplained, Loading
<1> QED
  BY <1>2, <1>3, <1>4, <1>5, <1>6 DEF IInv

-----------------------------------------------------------------------------
(***************************************************************************)
(* Pages.                                                                  *)
(***************************************************************************)
LEMMA MountStep ==
    ASSUME IInv, NEW p \in Pages, p.id <= Len(matters), Mount(p), UNCHANGED <<serviceVars, formVars>>
    PROVE  IInv'
<1> USE DEF IInv, Mount, serviceVars, formVars
<1>1. /\ visit \in Nat /\ visit' \in Nat /\ visit' \in 0..MaxVisits /\ visit <= visit'
      /\ p.name \in Forms => visit' = visit + 1 /\ visit' \in Visits
      /\ Len(matters) \in Nat
  BY MatterConstants, LenProperties DEF TypeOK, MatterConstants, Visits
<1>2. TypeOK'
  <2>1. fetch' \in Fetches
    BY DEF Fetches, CallOf, Pages, Sections, Forms
  <2>2. shown' \in Views
    BY DEF Loading, Views
  <2>3. /\ page' \in Pages /\ troubled' \in BOOLEAN /\ reopening' \in Reopenings
        /\ push' \in Pages \cup {NoPage}
    BY DEF Reopenings
  <2>4. reopened' \in Times
    BY MatterConstants DEF Times, MatterConstants
  <2> QED
    BY <1>1, <2>1, <2>2, <2>3, <2>4 DEF TypeOK
<1>3. IdsAreKnown'
  BY <1>1 DEF TypeOK, IdsAreKnown, NoPage, Loading, Known, None
<1>4. PageFits'
  BY <1>1 DEF PageFits, AllOf, CallOf, Loading, None, NoPage, Forms
<1>5. ReopeningFits'
  BY DEF ReopeningFits, None
<1>6. VisitsFit'
  <2>1. ASSUME NEW v \in Visits, v <= visit PROVE ~(p.name \in Forms /\ visit' = v)
    BY <1>1, <2>1 DEF Visits
  <2> QED
    BY <1>1, <2>1, MatterConstants DEF VisitsFit, Done, Accounted, Visits, MatterConstants
<1>7. (ReopeningIsTold /\ CopiesAreExplained)'
  BY DEF ReopeningIsTold, CopiesAreExplained, Loading
<1> QED
  BY <1>2, <1>3, <1>4, <1>5, <1>6, <1>7

LEMMA BrowseStep ==
    ASSUME IInv, Browse
    PROVE  IInv'
BY LinksType, MountStep DEF IInv, Browse

LEMMA ArriveStep ==
    ASSUME IInv, Arrive
    PROVE  IInv'
<1>1. CASE push = page /\ push' = NoPage /\ UNCHANGED <<pageVars, serviceVars, formVars>>
  <2> USE <1>1 DEF IInv, pageVars, serviceVars, formVars
  <2>1. page.name \notin Forms
    BY DEF PageFits, Forms
  <2>2. TypeOK' /\ IdsAreKnown' /\ PageFits' /\ ReopeningFits'
    BY LenProperties DEF TypeOK, IdsAreKnown, Known, PageFits, AllOf, ReopeningFits, NoPage
  <2>3. VisitsFit'
    BY <2>1 DEF VisitsFit, Done, Accounted
  <2> QED
    BY <2>2, <2>3 DEF ReopeningIsTold, CopiesAreExplained
<1>2. CASE push # page
  <2>1. push \in Pages /\ push.id <= Len(matters) /\ Mount(push) /\ UNCHANGED <<serviceVars, formVars>>
    BY <1>2 DEF Arrive, IInv, TypeOK, IdsAreKnown
  <2> QED
    BY <2>1, MountStep
<1> QED
  BY <1>1, <1>2 DEF Arrive

LEMMA ServeFetchStep ==
    ASSUME IInv, ServeFetch
    PROVE  IInv'
<1>1. /\ fetch \in [state : {"sent", "failed"}, call : {"list", "detail", "export"}]
      /\ fetch.state = "sent" /\ fetch' = [state |-> "served", call |-> fetch.call, rows |-> fetch'.rows]
      /\ UNCHANGED <<page, shown, troubled, reopening, reopened, visit, create, lost, push>>
  BY DEF IInv, TypeOK, ServeFetch, Fetches, None, formVars
<1>2. /\ Continued(matters') \/ matters' = matters
      /\ clock' \in Times
      /\ fetch'.rows \in SUBSET MatterSummaries /\ Known(fetch'.rows)
      /\ page.name \in {"record", "summary"} => AllOf(fetch'.rows, page.id)
  <2>1. CASE fetch.call = "list"
    <3>1. /\ UNCHANGED <<matters, clock>> /\ fetch'.rows = ListMatters
          /\ page.name \notin {"record", "summary"}
      BY <1>1, <2>1 DEF ServeFetch, serviceVars, IInv, PageFits, CallOf
    <3> QED
      BY <3>1, ListMattersType DEF IInv, TypeOK
  <2>2. CASE fetch.call # "list"
    <3>1. page.id \in 1..Len(matters)
      <4>1. fetch # None
        BY <1>1 DEF None
      <4>2. page.name \in {"record", "summary"}
        BY <1>1, <2>2, <4>1 DEF IInv, PageFits, CallOf, TypeOK, Pages, Sections, Forms
      <4> QED
        BY <4>2, LenProperties, MatterConstants
           DEF IInv, TypeOK, Pages, Sections, Forms, Ids, IdsAreKnown, MatterConstants
    <3>2. /\ \/ matters' = matters /\ clock' = clock
             \/ clock < MaxChanges /\ clock' = clock + 1 /\ matters' = Viewed(page.id)
          /\ fetch'.rows = {SummaryIn(matters', page.id)}
      <4> DEFINE answer == {SummaryIn(matters', page.id)}
      <4>1. /\ \/ clock < MaxChanges /\ clock' = clock + 1 /\ matters' = Viewed(page.id)
               \/ UNCHANGED <<clock, matters>>
            /\ fetch' = [state |-> "served", call |-> fetch.call, rows |-> answer]
        BY <2>2, Zenon DEF ServeFetch
      <4> HIDE DEF answer
      <4>2. fetch'.rows = answer
        BY <4>1
      <4> QED
        BY <4>1, <4>2 DEF answer
    <3>3. (Continued(matters') \/ matters' = matters) /\ clock' \in Times
      BY <3>1, <3>2, ViewedContinues, ClockType DEF IInv, TypeOK
    <3>4. SummaryIn(matters', page.id) \in MatterSummaries /\ SummaryIn(matters', page.id).id = page.id
      BY <3>1, <3>3, MattersKept, SummaryType
    <3> QED
      BY <3>1, <3>2, <3>3, <3>4 DEF Known, AllOf
  <2> QED
    BY <2>1, <2>2
<1>3. /\ matters' \in Seq(Cases) /\ Len(matters') = Len(matters) /\ Len(matters') <= MaxMatters
      /\ \A v \in Visits : Done(v)' <=> Done(v)
      /\ CopiesAreExplained'
  BY <1>2, MattersKept
<1>4. fetch' \in Fetches /\ fetch'.state = "served" /\ fetch' # None /\ fetch # None
  BY <1>1, <1>2 DEF Fetches, None
<1>5. TypeOK'
  BY <1>1, <1>2, <1>3, <1>4 DEF IInv, TypeOK
<1>6. IdsAreKnown'
  BY <1>1, <1>2, <1>3, <1>4 DEF IInv, IdsAreKnown, Known
<1>7. PageFits'
  BY <1>1, <1>2, <1>4 DEF IInv, PageFits, AllOf
<1>8. (ReopeningFits /\ ReopeningIsTold)'
  BY <1>1, <1>3, <1>4 DEF IInv, ReopeningFits, ReopeningIsTold, None, Known, AllOf
<1>9. VisitsFit'
  BY <1>1, <1>3 DEF IInv, VisitsFit, Accounted
<1> QED
  BY <1>3, <1>5, <1>6, <1>7, <1>8, <1>9 DEF IInv

LEMMA LoseFetchStep ==
    ASSUME IInv, LoseFetch
    PROVE  IInv'
<1> USE DEF IInv, LoseFetch, serviceVars, formVars
<1>1. fetch # None /\ fetch.call \in {"list", "detail", "export"} /\ fetch'.state = "failed" /\ fetch' # None
  BY DEF TypeOK, Fetches, None
<1>2. TypeOK'
  BY <1>1 DEF TypeOK, Fetches
<1>3. IdsAreKnown' /\ PageFits' /\ ReopeningFits'
  BY <1>1 DEF IdsAreKnown, Known, PageFits, AllOf, ReopeningFits
<1>4. (VisitsFit /\ ReopeningIsTold /\ CopiesAreExplained)'
  BY DEF VisitsFit, Done, Accounted, ReopeningIsTold, CopiesAreExplained
<1> QED
  BY <1>2, <1>3, <1>4

LEMMA ShowFetchStep ==
    ASSUME IInv, ShowFetch
    PROVE  IInv'
<1> USE DEF IInv, ShowFetch, serviceVars, formVars
<1>1. fetch # None /\ fetch.rows \in SUBSET MatterSummaries /\ fetch' = None /\ shown'.rows = fetch.rows
  BY DEF TypeOK, Fetches, None
<1>2. TypeOK'
  BY <1>1 DEF TypeOK, Fetches, Views
<1>3. IdsAreKnown' /\ PageFits' /\ ReopeningFits'
  BY <1>1 DEF IdsAreKnown, Known, PageFits, AllOf, ReopeningFits, None
<1>4. reopened = 0 /\ \A m \in shown'.rows : m.updated \in Nat
  BY <1>1, MatterConstants DEF ReopeningFits, MatterSummaries, Times, MatterConstants
<1>5. (VisitsFit /\ ReopeningIsTold /\ CopiesAreExplained)'
  BY <1>4 DEF VisitsFit, Done, Accounted, ReopeningIsTold, CopiesAreExplained
<1> QED
  BY <1>2, <1>3, <1>5

LEMMA FetchFailedStep ==
    ASSUME IInv, FetchFailed
    PROVE  IInv'
<1> USE DEF IInv, FetchFailed, serviceVars, formVars
<1>1. fetch # None /\ reopened = 0 /\ reopening = None
  BY DEF ReopeningFits, None
<1>2. TypeOK'
  BY DEF TypeOK, Fetches, Views, Loading
<1>3. IdsAreKnown' /\ PageFits' /\ ReopeningFits'
  BY <1>1 DEF IdsAreKnown, Known, PageFits, AllOf, ReopeningFits, None, Loading
<1>4. (VisitsFit /\ ReopeningIsTold /\ CopiesAreExplained)'
  BY DEF VisitsFit, Done, Accounted, ReopeningIsTold, CopiesAreExplained, Loading
<1> QED
  BY <1>2, <1>3, <1>4

-----------------------------------------------------------------------------
(***************************************************************************)
(* The forms.                                                              *)
(***************************************************************************)
LEMMA SubmitStep ==
    ASSUME IInv, Submit
    PROVE  IInv'
<1> USE DEF IInv, Submit, serviceVars, pageVars
<1> DEFINE call == [state |-> "sent", form |-> page.name, cause |-> Cause, more |-> 0]
<1>1. /\ visit \in Visits /\ visit \in Nat /\ create' = [create EXCEPT ![visit] = call]
      /\ create \in [Visits -> Creations] /\ lost[visit] \in BOOLEAN
  BY MatterConstants DEF TypeOK, PageFits, Visits, MatterConstants
<1>2. /\ call \in Creations /\ call.state = "sent" /\ call.form = page.name
      /\ call.cause = Cause /\ call.more = 0 /\ Cause \in {"first", "again"}
      /\ Cause = "first" <=> ~(push # NoPage \/ lost[visit])
  BY <1>1, MatterConstants DEF Creations, Calls, Causes, Cause, MatterConstants
<1> HIDE DEF call
<1>3. /\ create' \in [Visits -> Creations] /\ create'[visit] = call
      /\ \A v \in Visits : v # visit => create'[v] = create[v]
  BY <1>1, <1>2
<1>4. TypeOK'
  BY <1>3 DEF TypeOK
<1>5. IdsAreKnown' /\ PageFits' /\ ReopeningFits'
  BY <1>1, <1>2, <1>3 DEF IdsAreKnown, Known, PageFits, AllOf, ReopeningFits
<1>6. VisitsFit'
  <2>1. \A v \in Visits : (Done(v)' <=> Done(v)) /\ (Accounted(v)' <=> Accounted(v))
    BY DEF Done, Accounted
  <2>2. create[visit].state # "served"
    BY DEF None
  <2>3. Done(visit) => Accounted(visit) /\ Cause = "again"
    BY <1>1, <1>2, <2>2 DEF VisitsFit, Accounted
  <2>4. ASSUME NEW v \in Visits, v # visit
        PROVE  create'[v] = create[v]
    BY <1>3, <2>4
  <2> QED
    BY <1>1, <1>2, <1>3, <2>1, <2>3, <2>4 DEF VisitsFit
<1>7. (ReopeningIsTold /\ CopiesAreExplained)'
  BY DEF ReopeningIsTold, CopiesAreExplained
<1> QED
  BY <1>4, <1>5, <1>6, <1>7

LEMMA ClickAgainStep ==
    ASSUME IInv, ClickAgain
    PROVE  IInv'
<1> USE DEF IInv, ClickAgain, serviceVars, pageVars
<1> DEFINE call == [create[visit] EXCEPT !.more = @ + 1]
<1>1. /\ visit \in Visits /\ create' = [create EXCEPT ![visit] = call]
      /\ create \in [Visits -> Creations] /\ create[visit] \in Calls \cup Answers
  BY DEF TypeOK, PageFits, Forms, Creations
<1>2. call \in Creations /\ call # None
  BY <1>1, MatterConstants DEF Creations, Calls, Answers, None, MatterConstants
<1>3. /\ call.state = create[visit].state /\ call.form = create[visit].form
      /\ call.cause = create[visit].cause /\ call.form = "intake"
      /\ call.state = "served" => call.id = create[visit].id
  BY <1>1 DEF Calls, Answers, VisitsFit, Forms
<1> HIDE DEF call
<1>4. /\ create' \in [Visits -> Creations] /\ create'[visit] = call
      /\ \A v \in Visits : v # visit => create'[v] = create[v]
  BY <1>1, <1>2
<1>5. TypeOK'
  BY <1>4 DEF TypeOK
<1>6. IdsAreKnown' /\ PageFits' /\ ReopeningFits'
  BY <1>1, <1>3, <1>4 DEF IdsAreKnown, Known, PageFits, AllOf, ReopeningFits
<1>7. VisitsFit'
  <2>1. \A v \in Visits : (Done(v)' <=> Done(v)) /\ (Accounted(v)' <=> Accounted(v))
    BY DEF Done, Accounted
  <2>2. create[visit] # None /\ UNCHANGED <<page, visit>>
    OBVIOUS
  <2> SUFFICES ASSUME NEW v \in Visits
               PROVE  /\ Done(v) \/ create'[v] # None => v <= visit
                      /\ Done(v) => Accounted(v) \/ create'[v].state = "served"
                      /\ Done(v) /\ create'[v].state = "sent" => create'[v].cause # "first"
                      /\ /\ create'[v] # None
                         /\ create'[v].cause = "early" \/ create'[v].more # 0
                         => create'[v].form = "intake"
                      /\ create'[v] # None /\ page.name \in Forms /\ visit = v
                             => create'[v].form = page.name
    BY <2>1, <2>2 DEF VisitsFit
  <2> HIDE DEF ClickAgain
  <2>3. CASE v = visit
    BY <1>1, <1>3, <1>4, <2>2, <2>3 DEF VisitsFit, ClickAgain
  <2>4. CASE v # visit
    BY <1>4, <2>4 DEF VisitsFit
  <2> QED
    BY <2>3, <2>4
<1>8. (ReopeningIsTold /\ CopiesAreExplained)'
  BY DEF ReopeningIsTold, CopiesAreExplained
<1> QED
  BY <1>5, <1>6, <1>7, <1>8

\* The created case is the only one of its visit, or was not sent for the first time.
LEMMA ServeCreateStep ==
    ASSUME IInv, NEW v \in Visits, ServeCreate(v)
    PROVE  IInv'
<1> DEFINE answer == [state |-> "served", form |-> create[v].form,
                      cause |-> create[v].cause, more |-> create[v].more,
                      id |-> Len(matters) + 1]
<1>1. /\ create[v] \in Calls
      /\ create[v].state = "sent" /\ create[v] # None
      /\ create' = [create EXCEPT ![v] = answer] /\ create \in [Visits -> Creations]
      /\ Created(create[v].form, v, create[v].cause)
      /\ UNCHANGED <<page, fetch, shown, troubled, reopening, reopened, visit, lost, push>>
  BY DEF IInv, TypeOK, ServeCreate, Creations, Calls, Answers, None, pageVars
<1>2. create[v].form \in Forms /\ create[v].cause \in Causes /\ create[v].more \in 0..MaxClicks
  BY <1>1 DEF Calls
<1>3. /\ matters' \in Seq(Cases) /\ Len(matters') = Len(matters) + 1
      /\ Len(matters') <= MaxMatters /\ clock' \in Times
      /\ \A i \in 1..Len(matters) : matters'[i] = matters[i]
      /\ matters'[Len(matters')].by = v /\ matters'[Len(matters')].cause = create[v].cause
      /\ matters'[Len(matters')].form = create[v].form
  BY <1>1, <1>2, CreatedGrows DEF IInv
<1>4. Len(matters) \in Nat /\ Len(matters') \in Ids
  BY <1>3, LenProperties, MatterConstants DEF IInv, TypeOK, Ids, MatterConstants
<1>5. /\ answer \in Creations /\ answer.state = "served" /\ answer.id = Len(matters')
      /\ answer # None /\ answer.form = create[v].form /\ answer.cause = create[v].cause
      /\ answer.more = create[v].more
  BY <1>2, <1>3, <1>4 DEF Creations, Answers, None
<1> HIDE DEF answer
<1>6. /\ create' \in [Visits -> Creations] /\ create'[v] = answer
      /\ \A w \in Visits : w # v => create'[w] = create[w]
  BY <1>1, <1>5
<1>7. TypeOK'
  BY <1>1, <1>3, <1>6 DEF IInv, TypeOK
<1>8. IdsAreKnown'
  <2>1. /\ page'.id <= Len(matters') /\ push'.id <= Len(matters')
        /\ Known(shown.rows)' /\ (fetch'.state = "served" => Known(fetch.rows)')
    <3>1. /\ page.id \in Nat /\ push.id \in Nat
          /\ \A m \in shown.rows : m.id \in Nat
          /\ fetch.state = "served" => \A m \in fetch.rows : m.id \in Nat
      <4>1. page.id \in Nat /\ push.id \in Nat
        BY MatterConstants DEF IInv, TypeOK, Pages, NoPage, Ids, MatterConstants
      <4>2. \A m \in shown.rows : m.id \in Nat
        BY MatterConstants DEF IInv, TypeOK, Views, MatterSummaries, Ids, MatterConstants
      <4>3. fetch.state = "served" => \A m \in fetch.rows : m.id \in Nat
        BY MatterConstants DEF IInv, TypeOK, Fetches, None, MatterSummaries, Ids, MatterConstants
      <4> QED
        BY <4>1, <4>2, <4>3
    <3> QED
      BY <3>1, <1>1, <1>3, <1>4 DEF IInv, IdsAreKnown, Known
  <2>2. \A w \in Visits : create'[w].state = "served" => create'[w].id <= Len(matters')
    <3> SUFFICES ASSUME NEW w \in Visits, create'[w].state = "served"
                 PROVE  create'[w].id <= Len(matters')
      OBVIOUS
    <3>1. CASE w = v
      BY <3>1, <1>4, <1>5, <1>6 DEF Ids
    <3>2. CASE w # v
      <4>1. create'[w] = create[w] /\ create[w] \in Creations /\ create[w].id <= Len(matters)
        BY <3>2, <1>6 DEF IInv, TypeOK, IdsAreKnown
      <4>2. create[w].id \in Nat
        BY <3>2, <4>1, <1>6, MatterConstants
           DEF Creations, Calls, Answers, None, Ids, MatterConstants
      <4> QED
        BY <4>1, <4>2, <1>3, <1>4
    <3> QED
      BY <3>1, <3>2
  <2> QED
    BY <2>1, <2>2 DEF IdsAreKnown
<1>9. (PageFits /\ ReopeningIsTold)'
  BY <1>1 DEF IInv, PageFits, AllOf, ReopeningIsTold
<1>10. ReopeningFits'
  <2>1. reopening.state = "served" => Known(reopening.rows)'
    <3>1. reopening.state = "served" => \A m \in reopening.rows : m.id \in Nat
      BY MatterConstants DEF IInv, TypeOK, Reopenings, None, MatterSummaries, Ids, MatterConstants
    <3> QED
      BY <3>1, <1>1, <1>3, <1>4 DEF IInv, ReopeningFits, Known
  <2> QED
    BY <2>1, <1>1 DEF IInv, ReopeningFits, AllOf
<1>11. \A w \in Visits : w # v => (Done(w)' <=> Done(w))
  BY <1>3, <1>4 DEF Done, Ids
<1>12. VisitsFit'
  <2>1. v <= visit
    BY <1>1 DEF IInv, VisitsFit
  <2>2. \A w \in Visits : Accounted(w)' <=> Accounted(w)
    BY <1>1 DEF Accounted
  <2> QED
    BY <1>1, <1>5, <1>6, <1>11, <2>1, <2>2 DEF IInv, VisitsFit
<1>13. CopiesAreExplained'
  <2> SUFFICES ASSUME NEW i \in 1..Len(matters'), NEW j \in 1..Len(matters'),
                      i < j, matters'[i].by = matters'[j].by, matters'[i].by # 0
               PROVE  \/ matters'[j].cause = "again"
                      \/ matters'[j].cause = "early" /\ matters'[j].form = "intake"
    BY DEF CopiesAreExplained
  <2>1. i \in 1..Len(matters)
    BY <1>3, <1>4
  <2>2. CASE j = Len(matters')
    <3>1. Done(v)
      BY <1>3, <2>1, <2>2 DEF Done
    <3>2. create[v].cause # "first" /\ (create[v].cause = "early" => create[v].form = "intake")
      BY <1>1, <3>1 DEF IInv, VisitsFit
    <3> QED
      BY <1>2, <1>3, <2>2, <3>2 DEF Causes
  <2>3. CASE j # Len(matters')
    <3>1. j \in 1..Len(matters)
      BY <1>3, <1>4, <2>3
    <3> QED
      BY <1>3, <2>1, <3>1 DEF IInv, CopiesAreExplained
  <2> QED
    BY <2>2, <2>3
<1> QED
  BY <1>7, <1>8, <1>9, <1>10, <1>12, <1>13 DEF IInv

LEMMA RefuseCreateStep ==
    ASSUME IInv, NEW v \in Visits, RefuseCreate(v)
    PROVE  IInv'
<1> USE DEF IInv, RefuseCreate, serviceVars, pageVars
<1> DEFINE answer == [create[v] EXCEPT !.state = "refused"]
<1>1. create[v] \in Calls /\ create[v] # None
  BY DEF TypeOK, Creations, Calls, Answers, None
<1>2. /\ answer \in Creations /\ answer.state = "refused" /\ answer.form = create[v].form
      /\ answer.cause = create[v].cause /\ answer.more = create[v].more
  BY <1>1 DEF Creations, Calls
<1> HIDE DEF answer
<1>3. /\ create' \in [Visits -> Creations] /\ create'[v] = answer
      /\ \A w \in Visits : w # v => create'[w] = create[w]
  BY <1>2 DEF TypeOK, answer
<1>4. TypeOK' /\ IdsAreKnown'
  BY <1>2, <1>3 DEF TypeOK, IdsAreKnown, Known
<1>5. PageFits' /\ ReopeningFits' /\ ReopeningIsTold' /\ CopiesAreExplained'
  BY DEF PageFits, AllOf, ReopeningFits, Known, ReopeningIsTold, CopiesAreExplained
<1>6. \A w \in Visits : (Done(w)' <=> Done(w)) /\ (Accounted(w)' <=> Accounted(w))
  BY DEF Done, Accounted
<1>7. VisitsFit'
  BY <1>1, <1>2, <1>3, <1>6 DEF VisitsFit
<1> QED
  BY <1>4, <1>5, <1>7

\* When the call of a visit is over, the next is one that waited for it.
NextIsWaiting(v) ==
    \/ create'[v] = None
    \/ /\ create'[v].state = "sent" /\ create'[v].cause = "early"
       /\ create[v].more # 0 /\ create'[v].form = create[v].form

LEMMA CallIsOver ==
    ASSUME TypeOK, NEW v \in Visits, create[v] # None,
           create' = [create EXCEPT ![v] = AfterCall(@)]
    PROVE  /\ create' \in [Visits -> Creations] /\ NextIsWaiting(v)
           /\ \A w \in Visits : w # v => create'[w] = create[w]
<1>1. create \in [Visits -> Creations] /\ create[v] \in Calls \cup Answers
  BY DEF TypeOK, Creations
<1>2. create[v].form \in Forms /\ create[v].more \in 0..MaxClicks
  BY <1>1 DEF Calls, Answers
<1> DEFINE next == AfterCall(create[v])
<1>3. next \in Creations
  BY <1>2, MatterConstants DEF AfterCall, Creations, Calls, Causes, MatterConstants
<1>4. \/ next = None
      \/ /\ next.state = "sent" /\ next.cause = "early"
         /\ create[v].more # 0 /\ next.form = create[v].form
  BY DEF AfterCall
<1> HIDE DEF next
<1>5. create' = [create EXCEPT ![v] = next]
  BY DEF next
<1> QED
  BY <1>1, <1>3, <1>4, <1>5 DEF NextIsWaiting

LEMMA CreateDoneStep ==
    ASSUME IInv, NEW v \in Visits, CreateDone(v)
    PROVE  IInv'
<1> USE DEF IInv, CreateDone, serviceVars, pageVars
<1>1. /\ create[v] \in Answers
      /\ create[v] # None /\ create[v].id <= Len(matters)
  BY DEF TypeOK, Creations, Calls, None, IdsAreKnown
<1>2. /\ push' \in Pages /\ push'.id <= Len(matters) /\ push'.name \in {"record", "case"}
      /\ push' # NoPage
  BY <1>1 DEF Pages, NoPage, Answers
<1>3. /\ create' \in [Visits -> Creations] /\ NextIsWaiting(v)
      /\ \A w \in Visits : w # v => create'[w] = create[w]
  BY <1>1, CallIsOver
<1>4. TypeOK'
  BY <1>2, <1>3 DEF TypeOK
<1>5. IdsAreKnown'
  BY <1>2, <1>3 DEF IdsAreKnown, Known, NextIsWaiting, None
<1>6. PageFits' /\ ReopeningFits' /\ ReopeningIsTold' /\ CopiesAreExplained'
  BY <1>2 DEF PageFits, AllOf, ReopeningFits, Known, ReopeningIsTold, CopiesAreExplained
<1>7. \A w \in Visits : (Done(w)' <=> Done(w)) /\ Accounted(w)'
  BY <1>2 DEF Done, Accounted
<1>8. VisitsFit'
  BY <1>1, <1>3, <1>7 DEF VisitsFit, NextIsWaiting, None
<1> QED
  BY <1>4, <1>5, <1>6, <1>8

LEMMA CreateFailedStep ==
    ASSUME IInv, NEW v \in Visits, CreateFailed(v)
    PROVE  IInv'
<1> USE DEF IInv, CreateFailed, serviceVars, pageVars
<1>1. create[v] # None /\ create[v].state \in {"served", "refused"}
  BY DEF None
<1>2. /\ create' \in [Visits -> Creations] /\ NextIsWaiting(v)
      /\ \A w \in Visits : w # v => create'[w] = create[w]
  BY <1>1, CallIsOver
<1>3. /\ lost' \in [Visits -> BOOLEAN] /\ lost'[v] = (lost[v] \/ create[v].state = "served")
      /\ \A w \in Visits : w # v => lost'[w] = lost[w]
  BY DEF TypeOK
<1>4. TypeOK'
  BY <1>2, <1>3 DEF TypeOK
<1>5. IdsAreKnown'
  BY <1>2 DEF IdsAreKnown, Known, NextIsWaiting, None
<1>6. PageFits' /\ ReopeningFits' /\ ReopeningIsTold' /\ CopiesAreExplained'
  BY DEF PageFits, AllOf, ReopeningFits, Known, ReopeningIsTold, CopiesAreExplained
<1>7. VisitsFit'
  <2>1. \A w \in Visits : Done(w)' <=> Done(w)
    BY DEF Done
  <2>2. \A w \in Visits : w # v => (Accounted(w)' <=> Accounted(w))
    BY <1>3 DEF Accounted
  <2>3. Done(v) => Accounted(v)'
    BY <1>1, <1>3 DEF VisitsFit, Accounted
  <2> QED
    BY <1>1, <1>2, <2>1, <2>2, <2>3 DEF VisitsFit, NextIsWaiting, None
<1> QED
  BY <1>4, <1>5, <1>6, <1>7

-----------------------------------------------------------------------------
(***************************************************************************)
(* Reopening, and the work of others.                                      *)
(***************************************************************************)
LEMMA ReopenStepInv ==
    ASSUME IInv, Reopen
    PROVE  IInv'
<1> USE DEF IInv, Reopen, serviceVars, formVars
<1>1. fetch = None /\ reopening' # None /\ reopening'.state = "sent"
  BY DEF PageFits, None
<1>2. TypeOK' /\ IdsAreKnown'
  BY DEF TypeOK, Reopenings, IdsAreKnown, Known
<1>3. PageFits' /\ ReopeningFits' /\ ReopeningIsTold' /\ CopiesAreExplained'
  BY <1>1 DEF PageFits, AllOf, ReopeningFits, Known, ReopeningIsTold, CopiesAreExplained
<1>4. VisitsFit'
  BY DEF VisitsFit, Done, Accounted
<1> QED
  BY <1>2, <1>3, <1>4

LEMMA CheckReopenStep ==
    ASSUME IInv, CheckReopen
    PROVE  IInv'
<1> USE DEF IInv, CheckReopen, serviceVars, formVars
<1>1. reopening # None /\ reopening' # None /\ reopening'.state = "checked"
  BY DEF None
<1>2. TypeOK' /\ IdsAreKnown'
  BY DEF TypeOK, Reopenings, IdsAreKnown, Known
<1>3. PageFits' /\ ReopeningFits' /\ ReopeningIsTold' /\ CopiesAreExplained'
  BY <1>1 DEF PageFits, AllOf, ReopeningFits, Known, ReopeningIsTold, CopiesAreExplained
<1>4. VisitsFit'
  BY DEF VisitsFit, Done, Accounted
<1> QED
  BY <1>2, <1>3, <1>4

LEMMA ServeReopenStep ==
    ASSUME IInv, ServeReopen
    PROVE  IInv'
<1> DEFINE row == [matters[page.id] EXCEPT !.status = "reopened"]
           answer == [state |-> "served", rows |-> {SummaryIn(matters', page.id)}]
<1>1. /\ reopening.state = "checked" /\ Changed(page.id, row) /\ reopening' = answer
      /\ reopened' = clock + 1
      /\ UNCHANGED <<page, fetch, shown, troubled, visit, create, lost, push>>
  BY DEF ServeReopen, formVars
<1>2. reopening # None /\ page.name = "record" /\ fetch = None
  BY <1>1 DEF IInv, ReopeningFits, None
<1>3. page.id \in 1..Len(matters)
  BY <1>2, LenProperties, MatterConstants
     DEF IInv, TypeOK, Pages, Sections, Forms, Ids, IdsAreKnown, MatterConstants
<1>4. row \in Cases /\ SameCreation(row, matters[page.id])
  BY <1>3, RowType DEF IInv, Cases, CustomerStatuses, SameCreation
<1> HIDE DEF row
<1>5. /\ Continued(matters') /\ matters'[page.id].updated = clock + 1
      /\ clock' = clock + 1 /\ clock' \in Times
  BY <1>1, <1>3, <1>4, ChangedContinues DEF IInv
<1>6. /\ matters' \in Seq(Cases) /\ Len(matters') = Len(matters) /\ Len(matters') <= MaxMatters
      /\ \A v \in Visits : Done(v)' <=> Done(v)
      /\ CopiesAreExplained'
  BY <1>5, MattersKept
<1>7. /\ SummaryIn(matters', page.id) \in MatterSummaries
      /\ SummaryIn(matters', page.id).id = page.id
      /\ SummaryIn(matters', page.id).updated = clock + 1
  BY <1>3, <1>5, <1>6, SummaryType
<1>8. /\ answer \in Reopenings /\ answer.state = "served" /\ answer # None
      /\ \A m \in answer.rows : m.id = page.id /\ m.updated = clock + 1
  BY <1>7 DEF Reopenings, None
<1> HIDE DEF answer
<1>9. TypeOK'
  BY <1>1, <1>5, <1>6, <1>8 DEF IInv, TypeOK
<1>10. IdsAreKnown'
  BY <1>1, <1>6 DEF IInv, IdsAreKnown, Known
<1>11. PageFits'
  BY <1>1 DEF IInv, PageFits, AllOf
<1>12. ReopeningFits'
  <2>1. clock + 1 \in Int /\ page.id <= Len(matters)
    BY <1>3, ClockType, <1>1 DEF IInv, Changed
  <2> QED
    BY <1>1, <1>2, <1>6, <1>8, <2>1 DEF ReopeningFits, Known, AllOf
<1>13. ReopeningIsTold'
  BY <1>1, <1>8 DEF ReopeningIsTold
<1>14. VisitsFit'
  BY <1>1, <1>6 DEF IInv, VisitsFit, Accounted
<1> QED
  BY <1>6, <1>9, <1>10, <1>11, <1>12, <1>13, <1>14 DEF IInv

LEMMA RefuseReopenStep ==
    ASSUME IInv, RefuseReopen
    PROVE  IInv'
<1> USE DEF IInv, RefuseReopen, serviceVars, formVars
<1>1. reopening # None /\ reopening' # None /\ reopening'.state = "refused"
  BY DEF None
<1>2. TypeOK' /\ IdsAreKnown'
  BY DEF TypeOK, Reopenings, IdsAreKnown, Known
<1>3. PageFits' /\ ReopeningFits' /\ ReopeningIsTold' /\ CopiesAreExplained'
  BY <1>1 DEF PageFits, AllOf, ReopeningFits, Known, ReopeningIsTold, CopiesAreExplained
<1>4. VisitsFit'
  BY DEF VisitsFit, Done, Accounted
<1> QED
  BY <1>2, <1>3, <1>4

LEMMA ReopenDoneStep ==
    ASSUME IInv, ReopenDone
    PROVE  IInv'
<1> USE DEF IInv, ReopenDone, serviceVars, formVars
<1>1. /\ reopening # None /\ page.name = "record" /\ fetch = None /\ reopening' = None
      /\ reopening.rows \in SUBSET MatterSummaries
      /\ Known(reopening.rows) /\ AllOf(reopening.rows, page.id)
      /\ \A m \in reopening.rows : m.updated >= reopened
  BY DEF TypeOK, Reopenings, ReopeningFits, None
<1>2. shown' \in Views /\ shown'.rows = reopening.rows
  BY <1>1 DEF TypeOK, Views
<1>3. TypeOK' /\ IdsAreKnown'
  BY <1>1, <1>2 DEF TypeOK, Reopenings, IdsAreKnown, Known
<1>4. PageFits'
  BY <1>1, <1>2 DEF PageFits, AllOf, CallOf, Forms
<1>5. ReopeningFits' /\ ReopeningIsTold' /\ CopiesAreExplained'
  BY <1>1, <1>2 DEF ReopeningFits, None, ReopeningIsTold, CopiesAreExplained
<1>6. VisitsFit'
  BY DEF VisitsFit, Done, Accounted
<1> QED
  BY <1>3, <1>4, <1>5, <1>6

LEMMA ReopenFailedStep ==
    ASSUME IInv, ReopenFailed
    PROVE  IInv'
<1> USE DEF IInv, ReopenFailed, serviceVars, formVars
<1>1. reopening # None /\ fetch = None /\ reopening' = None
  BY DEF ReopeningFits, None
<1>2. TypeOK' /\ IdsAreKnown'
  BY DEF TypeOK, Reopenings, IdsAreKnown, Known
<1>3. PageFits' /\ ReopeningFits' /\ ReopeningIsTold' /\ CopiesAreExplained'
  BY <1>1 DEF PageFits, AllOf, ReopeningFits, None, ReopeningIsTold, CopiesAreExplained
<1>4. VisitsFit'
  BY DEF VisitsFit, Done, Accounted
<1> QED
  BY <1>2, <1>3, <1>4

\* Others change matters, or submit one that is no form's of this tab.
LEMMA OthersChange ==
    ASSUME IInv, StaffWork \/ FileWork \/ OthersReopen \/ OthersView
    PROVE  Continued(matters') /\ clock' \in Times
<1>1. Submitted \subseteq 1..Len(matters)
  BY DEF Submitted
<1>2. CASE StaffWork
  <2>1. PICK i \in Submitted, o \in Outcomes :
            Changed(i, [matters[i] EXCEPT !.status = o.status, !.decision = o.decision,
                                          !.readiness = o.readiness])
    BY <1>2 DEF StaffWork
  <2> DEFINE row == [matters[i] EXCEPT !.status = o.status, !.decision = o.decision,
                                       !.readiness = o.readiness]
  <2>2. row \in Cases /\ SameCreation(row, matters[i])
    BY <1>1, RowType, MatterConstants DEF IInv, Cases, MatterConstants, SameCreation
  <2> HIDE DEF row
  <2>3. Changed(i, row)
    BY <2>1 DEF row
  <2> QED
    BY <1>1, <2>2, <2>3, ChangedContinues DEF IInv
<1>3. CASE OthersReopen
  <2>1. PICK i \in Submitted : Changed(i, [matters[i] EXCEPT !.status = "reopened"])
    BY <1>3 DEF OthersReopen
  <2>2. /\ [matters[i] EXCEPT !.status = "reopened"] \in Cases
        /\ SameCreation([matters[i] EXCEPT !.status = "reopened"], matters[i])
    BY <1>1, RowType DEF IInv, Cases, CustomerStatuses, SameCreation
  <2> QED
    BY <1>1, <2>1, <2>2, ChangedContinues DEF IInv
<1>4. CASE OthersView
  BY <1>1, <1>4, ViewedContinues, ClockType DEF IInv, OthersView
<1>5. CASE FileWork
  <2>1. PICK i \in Submitted, o \in Outcomes :
            matters' = [matters EXCEPT ![i] = [matters[i] EXCEPT !.readiness = o.readiness]]
    BY <1>5 DEF FileWork
  <2> DEFINE row == [matters[i] EXCEPT !.readiness = o.readiness]
  <2>2. row \in Cases /\ SameCreation(row, matters[i])
    BY <1>1, RowType, MatterConstants DEF IInv, Cases, MatterConstants, SameCreation
  <2> HIDE DEF row
  <2>3. matters' = [matters EXCEPT ![i] = row]
    BY <2>1 DEF row
  <2> QED
    BY <1>1, <1>5, <2>2, <2>3, RowReplaced, ClockType DEF IInv, FileWork
<1> QED
  BY <1>2, <1>3, <1>4, <1>5

LEMMA OthersWorkStep ==
    ASSUME IInv, OthersWork
    PROVE  IInv'
<1>1. UNCHANGED <<page, fetch, shown, troubled, reopening, reopened, visit, create, lost, push>>
  BY DEF OthersWork, pageVars, formVars
<1>2. /\ matters' \in Seq(Cases) /\ Len(matters) <= Len(matters') /\ Len(matters') <= MaxMatters
      /\ Len(matters) \in Nat /\ Len(matters') \in Nat /\ clock' \in Times
      /\ \A v \in Visits : Done(v)' <=> Done(v)
      /\ CopiesAreExplained'
  <2>1. CASE StaffWork \/ FileWork \/ OthersReopen \/ OthersView
    BY <2>1, OthersChange, MattersKept, LenProperties DEF IInv, TypeOK
  <2>2. CASE Created("new", 0, "first")
    <3>1. /\ matters' \in Seq(Cases) /\ Len(matters') = Len(matters) + 1
          /\ Len(matters') <= MaxMatters /\ clock' \in Times
          /\ \A i \in 1..Len(matters) : matters'[i] = matters[i]
          /\ matters'[Len(matters')].by = 0
      BY <2>2, CreatedGrows DEF IInv, Forms, Causes
    <3>2. Len(matters) \in Nat /\ Len(matters') \in Nat
      BY <3>1, LenProperties DEF IInv, TypeOK
    <3>3. \A v \in Visits : Done(v)' <=> Done(v)
      BY <3>1, <3>2 DEF Done, Visits
    <3>4. CopiesAreExplained'
      BY <3>1, <3>2 DEF IInv, CopiesAreExplained
    <3> QED
      BY <3>1, <3>2, <3>3, <3>4
  <2> QED
    BY <2>1, <2>2 DEF OthersWork
<1>3. TypeOK'
  BY <1>1, <1>2 DEF IInv, TypeOK
<1>4. IdsAreKnown' /\ (reopening.state = "served" => Known(reopening.rows)')
  <2>1. /\ page.id \in Nat /\ push.id \in Nat
        /\ \A m \in shown.rows : m.id \in Nat
    BY MatterConstants DEF IInv, TypeOK, Pages, NoPage, Views, MatterSummaries, Ids, MatterConstants
  <2>2. fetch.state = "served" => \A m \in fetch.rows : m.id \in Nat
    BY MatterConstants DEF IInv, TypeOK, Fetches, None, MatterSummaries, Ids, MatterConstants
  <2>3. reopening.state = "served" => \A m \in reopening.rows : m.id \in Nat
    BY MatterConstants DEF IInv, TypeOK, Reopenings, None, MatterSummaries, Ids, MatterConstants
  <2>4. \A v \in Visits : create[v].state = "served" => create[v].id \in Nat
    BY MatterConstants
       DEF IInv, TypeOK, Creations, Calls, Answers, None, Ids, MatterConstants
  <2> QED
    BY <1>1, <1>2, <2>1, <2>2, <2>3, <2>4 DEF IInv, IdsAreKnown, ReopeningFits, Known
<1>5. PageFits' /\ ReopeningFits' /\ ReopeningIsTold'
  BY <1>1, <1>4 DEF IInv, PageFits, AllOf, ReopeningFits, ReopeningIsTold
<1>6. VisitsFit'
  BY <1>1, <1>2 DEF IInv, VisitsFit, Accounted
<1> QED
  BY <1>2, <1>3, <1>4, <1>5, <1>6 DEF IInv

-----------------------------------------------------------------------------
LEMMA StepPreserves == IInv /\ [Next]_vars => IInv'
<1> SUFFICES ASSUME IInv, [Next]_vars PROVE IInv'
  OBVIOUS
<1>1. CASE PageStep
  BY <1>1, BrowseStep, ArriveStep, ServeFetchStep, LoseFetchStep, ShowFetchStep, FetchFailedStep
     DEF PageStep
<1>2. CASE FormStep
  BY <1>2, SubmitStep, ClickAgainStep, ServeCreateStep, RefuseCreateStep, CreateDoneStep,
     CreateFailedStep DEF FormStep
<1>3. CASE ReopenStep
  BY <1>3, ReopenStepInv, CheckReopenStep, ServeReopenStep, RefuseReopenStep,
     ReopenDoneStep, ReopenFailedStep DEF ReopenStep
<1>4. CASE OthersWork
  BY <1>4, OthersWorkStep
<1>5. CASE UNCHANGED vars
  <2> USE <1>5 DEF vars, serviceVars, pageVars, formVars, IInv
  <2>1. TypeOK' /\ IdsAreKnown' /\ PageFits'
    BY DEF TypeOK, IdsAreKnown, Known, PageFits, AllOf
  <2>2. ReopeningFits' /\ VisitsFit' /\ ReopeningIsTold' /\ CopiesAreExplained'
    BY DEF ReopeningFits, Known, AllOf, VisitsFit, Done, Accounted, ReopeningIsTold, CopiesAreExplained
  <2> QED
    BY <2>1, <2>2
<1> QED
  BY <1>1, <1>2, <1>3, <1>4, <1>5 DEF Next

\* The inductive invariant holds of every behaviour.
THEOREM Invariance == Spec => []IInv
BY InitEstablishes, StepPreserves, PTL DEF Spec

\* Every variable has its type.
THEOREM TypeCorrect == Spec => []TypeOK
<1>1. IInv => TypeOK
  BY DEF IInv
<1> QED
  BY <1>1, Invariance, PTL

\* A record, or a summary, shows the matter its address names, and no other,
\* however many calls of pages since left were under way.
THEOREM RecordsAreOfTheirPage == Spec => []RecordIsOfThePage
<1>1. IInv => RecordIsOfThePage
  BY DEF IInv, PageFits, AllOf, RecordIsOfThePage
<1> QED
  BY <1>1, Invariance, PTL

\* A reopening that the service carried out is shown, or reported as failed.
THEOREM ReopeningsAreTold == Spec => []ReopeningIsTold
<1>1. IInv => ReopeningIsTold
  BY DEF IInv
<1> QED
  BY <1>1, Invariance, PTL

\* A form creates a second case only after a lost answer, while the router is about to
\* leave it, or, the analysts' form alone, for a click during the call before.
THEOREM CopiesHaveReasons == Spec => []CopiesAreExplained
<1>1. IInv => CopiesAreExplained
  BY DEF IInv
<1> QED
  BY <1>1, Invariance, PTL
-----------------------------------------------------------------------------
(***************************************************************************)
(* The widgets count the same summaries in different ways.                 *)
(***************************************************************************)
LEMMA DisjointUnion ==
    ASSUME NEW A, NEW B, IsFiniteSet(A), IsFiniteSet(B), A \cap B = {}
    PROVE  /\ IsFiniteSet(A \cup B)
           /\ Cardinality(A \cup B) = Cardinality(A) + Cardinality(B)
           /\ Cardinality(A) \in Nat /\ Cardinality(B) \in Nat
<1>1. Cardinality(A \cup B) = Cardinality(A) + Cardinality(B) - Cardinality(A \cap B)
  BY FS_Union
<1>2. Cardinality(A \cap B) = 0
  BY FS_EmptySet
<1>3. Cardinality(A) \in Nat /\ Cardinality(B) \in Nat
  BY FS_CardinalityType
<1> QED
  BY <1>1, <1>2, <1>3, FS_Union

\* There are finitely many summaries a list could hold.
LEMMA SummariesAreFinite == IsFiniteSet(MatterSummaries)
<1> DEFINE Keys == (Ids \X CustomerStatuses) \X ((Decisions \X ReadinessStates) \X Times)
           f == [k \in Keys |-> [id |-> k[1][1], status |-> k[1][2], decision |-> k[2][1][1],
                                 readiness |-> k[2][1][2], updated |-> k[2][2]]]
<1>1. IsFiniteSet(Ids) /\ IsFiniteSet(Times)
  BY FS_Interval, MatterConstants DEF Ids, Times, MatterConstants
<1>2. IsFiniteSet(CustomerStatuses) /\ IsFiniteSet(Decisions) /\ IsFiniteSet(ReadinessStates)
  <2>1. \A x, y : IsFiniteSet({x, y})
    <3> TAKE x, y
    <3>1. IsFiniteSet({x}) /\ IsFiniteSet({y})
      BY FS_Singleton
    <3>2. {x, y} = {x} \cup {y}
      OBVIOUS
    <3> QED
      BY <3>1, <3>2, FS_Union
  <2>2. /\ CustomerStatuses = {"submitted", "in_review"} \cup {"resolved", "reopened"}
        /\ Decisions = {"clear", "review"} \cup {"stop", "none"}
        /\ ReadinessStates = ({"unknown", "needs_source_match"} \cup {"needs_evidence", "has_conflict"})
                             \cup {"ready_for_decision", "exception_approved"}
    BY DEF CustomerStatuses, Decisions, ReadinessStates
  <2> QED
    BY <2>1, <2>2, FS_Union
<1>3. IsFiniteSet(Keys)
  <2>1. IsFiniteSet(Ids \X CustomerStatuses) /\ IsFiniteSet(Decisions \X ReadinessStates)
    BY <1>1, <1>2, FS_Product
  <2>2. IsFiniteSet((Decisions \X ReadinessStates) \X Times)
    BY <1>1, <2>1, FS_Product
  <2> QED
    BY <2>1, <2>2, FS_Product
<1>4. f \in [Keys -> MatterSummaries]
  BY DEF MatterSummaries
<1>5. \A m \in MatterSummaries : \E k \in Keys : f[k] = m
  <2> TAKE m \in MatterSummaries
  <2> DEFINE key == <<<<m.id, m.status>>, <<<<m.decision, m.readiness>>, m.updated>>>>
  <2>1. key \in Keys
    BY DEF MatterSummaries
  <2>2. f[key] = m
    BY <2>1 DEF MatterSummaries
  <2> QED
    BY <2>1, <2>2
<1>6. f \in Surjection(Keys, MatterSummaries)
  BY <1>4, <1>5, Fun_IsSurj
<1> QED
  BY <1>3, <1>6, FS_Surjection

\* Every matter has one status and one decision.
LEMMA StatusesPartition ==
    ASSUME NEW ms \in SUBSET MatterSummaries
    PROVE  BuildMatterMetrics(ms).total = ActiveQueue(ms) + BuildMatterMetrics(ms).resolved
<1> DEFINE A == WithStatus(ms, "submitted")
           B == WithStatus(ms, "in_review")
           C == WithStatus(ms, "reopened")
           D == WithStatus(ms, "resolved")
<1>1. IsFiniteSet(A) /\ IsFiniteSet(B) /\ IsFiniteSet(C) /\ IsFiniteSet(D)
  BY SummariesAreFinite, FS_Subset DEF WithStatus
<1>2. /\ ms = ((A \cup B) \cup C) \cup D
      /\ A \cap B = {} /\ (A \cup B) \cap C = {} /\ ((A \cup B) \cup C) \cap D = {}
  BY DEF WithStatus, MatterSummaries, CustomerStatuses
<1>3. /\ BuildMatterMetrics(ms).total = Cardinality(ms)
      /\ BuildMatterMetrics(ms).resolved = Cardinality(D)
      /\ ActiveQueue(ms) = Cardinality(A) + Cardinality(B) + Cardinality(C)
  BY DEF BuildMatterMetrics, ActiveQueue
<1> HIDE DEF A, B, C, D
<1>4. Cardinality(ms) = Cardinality(A) + Cardinality(B) + Cardinality(C) + Cardinality(D)
  <2>1. IsFiniteSet(A \cup B) /\ Cardinality(A \cup B) = Cardinality(A) + Cardinality(B)
    BY <1>1, <1>2, DisjointUnion
  <2>2. /\ IsFiniteSet((A \cup B) \cup C)
        /\ Cardinality((A \cup B) \cup C) = Cardinality(A \cup B) + Cardinality(C)
    BY <1>1, <1>2, <2>1, DisjointUnion
  <2>3. Cardinality(((A \cup B) \cup C) \cup D) = Cardinality((A \cup B) \cup C) + Cardinality(D)
    BY <1>1, <1>2, <2>2, DisjointUnion
  <2> QED
    BY <1>2, <2>1, <2>2, <2>3
<1> QED
  BY <1>3, <1>4

LEMMA DecisionsPartition ==
    ASSUME NEW ms \in SUBSET MatterSummaries
    PROVE  LET metrics == BuildMatterMetrics(ms)
           IN  metrics.total = metrics.clear + metrics.pendingDecision
                                 + Cardinality(DecisionExceptions(ms))
<1> DEFINE A == WithDecision(ms, "clear")
           B == WithDecision(ms, "none")
           C == DecisionExceptions(ms)
<1>1. IsFiniteSet(A) /\ IsFiniteSet(B) /\ IsFiniteSet(C)
  BY SummariesAreFinite, FS_Subset DEF WithDecision, DecisionExceptions
<1>2. ms = (A \cup B) \cup C /\ A \cap B = {} /\ (A \cup B) \cap C = {}
  BY DEF WithDecision, DecisionExceptions, MatterSummaries, Decisions
<1>3. /\ BuildMatterMetrics(ms).total = Cardinality(ms)
      /\ BuildMatterMetrics(ms).clear = Cardinality(A)
      /\ BuildMatterMetrics(ms).pendingDecision = Cardinality(B)
  BY DEF BuildMatterMetrics
<1> HIDE DEF A, B
<1>4. Cardinality(ms) = Cardinality(A) + Cardinality(B) + Cardinality(C)
  <2> HIDE DEF C
  <2>1. IsFiniteSet(A \cup B) /\ Cardinality(A \cup B) = Cardinality(A) + Cardinality(B)
    BY <1>1, <1>2, DisjointUnion
  <2>2. Cardinality((A \cup B) \cup C) = Cardinality(A \cup B) + Cardinality(C)
    BY <1>1, <1>2, <2>1, DisjointUnion
  <2> QED
    BY <1>2, <2>1, <2>2
<1> QED
  BY <1>3, <1>4

\* A longer list of the latest holds the shorter one.
LEMMA LatestGrows ==
    ASSUME NEW ms \in SUBSET MatterSummaries, NEW n \in Nat, NEW k \in Nat, n <= k
    PROVE  Latest(n, ms) \subseteq Latest(k, ms)
<1> SUFFICES ASSUME NEW m \in Latest(n, ms) PROVE m \in Latest(k, ms)
  OBVIOUS
<1> DEFINE later == {l \in ms : l.updated > m.updated}
<1>1. IsFiniteSet(later)
  BY SummariesAreFinite, FS_Subset
<1>2. Cardinality(later) \in Nat
  BY <1>1, FS_CardinalityType
<1>3. m \in ms /\ Cardinality(later) < n
  BY DEF Latest
<1>4. Cardinality(later) < k
  BY <1>2, <1>3
<1> QED
  BY <1>3, <1>4 DEF Latest

\* A matter that waits for evidence, or rests on an exception, is counted in a queue.
LEMMA QueuedIsCounted ==
    ASSUME NEW ms \in SUBSET MatterSummaries, NEW m \in ms
    PROVE  LET queues == EvidenceWorkQueues(ms)
               queued == m.readiness \in DOMAIN queues
           IN  /\ queued => queues[m.readiness] > 0
               /\ queued <=> EvidenceReadinessTone(m.readiness) \in {"info", "warning"}
               /\ queued <=> EvidenceReadinessAction(m.readiness)
                                \in {"waited for", "relied on with an exception"}
<1>1. DOMAIN EvidenceWorkQueues(ms) = {"needs_source_match", "needs_evidence", "exception_approved"}
  BY DEF EvidenceWorkQueues
<1>2. m.readiness \in ReadinessStates
  BY DEF MatterSummaries
<1>3. ASSUME m.readiness \in DOMAIN EvidenceWorkQueues(ms)
      PROVE  EvidenceWorkQueues(ms)[m.readiness] > 0
  <2> DEFINE same == {l \in ms : l.readiness = m.readiness}
  <2>1. IsFiniteSet(same)
    BY SummariesAreFinite, FS_Subset
  <2>2. same # {}
    OBVIOUS
  <2>3. Cardinality(same) \in Nat /\ Cardinality(same) # 0
    BY <2>1, <2>2, FS_EmptySet, FS_CardinalityType
  <2>4. EvidenceWorkQueues(ms)[m.readiness] = Cardinality(same)
    BY <1>1, <1>3 DEF EvidenceWorkQueues
  <2> QED
    BY <2>3, <2>4
<1> QED
  BY <1>1, <1>2, <1>3 DEF ReadinessStates, EvidenceReadinessTone, EvidenceReadinessAction

\* Whatever a list holds, the widgets of the dashboard agree on it with one another,
\* with the badges and with the words of the record.
THEOREM WidgetsAlwaysAgree == Spec => []WidgetsAgree
<1>1. TypeOK => WidgetsAgree
  <2> SUFFICES ASSUME TypeOK PROVE WidgetsAgree
    OBVIOUS
  <2> DEFINE ms == shown.rows
             metrics == BuildMatterMetrics(ms)
  <2>1. ms \in SUBSET MatterSummaries
    BY DEF TypeOK, Views
  <2>2. metrics.total = ActiveQueue(ms) + metrics.resolved
    BY <2>1, StatusesPartition
  <2>3. metrics.total = metrics.clear + metrics.pendingDecision
                          + Cardinality(DecisionExceptions(ms))
    BY <2>1, DecisionsPartition
  <2>4. DecisionExceptions(ms) = {m \in ms : DecisionTone(m.decision) \in {"warning", "danger"}}
    BY <2>1 DEF DecisionExceptions, WithDecision, DecisionTone, MatterSummaries, Decisions
  <2>5. RecentActivity(ms) \subseteq MatterReadiness(ms)
    BY <2>1, LatestGrows, ViewConstants DEF RecentActivity, MatterReadiness, ViewConstants
  <2>6. \A m \in ms :
            LET queues == EvidenceWorkQueues(ms)
                queued == m.readiness \in DOMAIN queues
            IN  /\ queued => queues[m.readiness] > 0
                /\ queued <=> EvidenceReadinessTone(m.readiness) \in {"info", "warning"}
                /\ queued <=> EvidenceReadinessAction(m.readiness)
                                 \in {"waited for", "relied on with an exception"}
    BY <2>1, QueuedIsCounted
  <2> QED
    BY <2>2, <2>3, <2>4, <2>5, <2>6 DEF WidgetsAgree
<1> QED
  BY <1>1, TypeCorrect, PTL
-----------------------------------------------------------------------------
(***************************************************************************)
(* The lists. The service answers with the matters that fewer than the     *)
(* limit come after; when it leaves one out, these are as many as the      *)
(* limit, for every rank below it is some matter's.                        *)
(***************************************************************************)
After(S, j) == {later \in S : later > j}
TopOf(S, n) == {j \in S : Cardinality(After(S, j)) < n}

LEMMA RankFalls ==
    ASSUME NEW S \in SUBSET Nat, IsFiniteSet(S), NEW a \in S, NEW b \in S, a < b
    PROVE  Cardinality(After(S, b)) < Cardinality(After(S, a))
<1>1. IsFiniteSet(After(S, a)) /\ IsFiniteSet(After(S, b)) /\ After(S, b) \in SUBSET After(S, a)
  <2>1. After(S, a) \in SUBSET S /\ After(S, b) \in SUBSET S /\ After(S, b) \in SUBSET After(S, a)
    <3>1. a \in Nat /\ b \in Nat /\ \A l \in S : l \in Nat
      OBVIOUS
    <3>2. \A l \in S : l > b => l > a
      BY <3>1
    <3> QED
      BY <3>2 DEF After
  <2>2. IsFiniteSet(After(S, a))
    BY <2>1, FS_Subset
  <2>3. IsFiniteSet(After(S, b))
    BY <2>1, FS_Subset
  <2> QED
    BY <2>1, <2>2, <2>3
<1>2. b \in After(S, a) /\ b \notin After(S, b)
  BY DEF After
<1>3. /\ Cardinality(After(S, b)) <= Cardinality(After(S, a))
      /\ Cardinality(After(S, a)) # Cardinality(After(S, b))
  BY <1>1, <1>2, FS_Subset
<1>4. Cardinality(After(S, b)) \in Nat /\ Cardinality(After(S, a)) \in Nat
  BY <1>1, FS_CardinalityType
<1> QED
  BY <1>3, <1>4

LEMMA CountBelow ==
    ASSUME NEW n \in Nat
    PROVE  IsFiniteSet(0..(n - 1)) /\ Cardinality(0..(n - 1)) = n
<1>1. n - 1 \in Int
  OBVIOUS
<1>2. /\ IsFiniteSet(0..(n - 1))
      /\ Cardinality(0..(n - 1)) = IF 0 > n - 1 THEN 0 ELSE (n - 1) - 0 + 1
  BY <1>1, FS_Interval
<1> QED
  BY <1>2

\* The ranks are the numbers below the size of the set, each once.
LEMMA EveryRankIsTaken ==
    ASSUME NEW S \in SUBSET Nat, IsFiniteSet(S)
    PROVE  LET rank == [j \in S |-> Cardinality(After(S, j))]
               ranks == 0..(Cardinality(S) - 1)
           IN  rank \in Injection(S, ranks) /\ rank \in Surjection(S, ranks)
<1> DEFINE rank == [j \in S |-> Cardinality(After(S, j))]
           ranks == 0..(Cardinality(S) - 1)
<1>1. Cardinality(S) \in Nat
  BY FS_CardinalityType
<1>2. rank \in [S -> ranks]
  <2> SUFFICES ASSUME NEW j \in S PROVE Cardinality(After(S, j)) \in ranks
    OBVIOUS
  <2>1. After(S, j) \in SUBSET S /\ j \notin After(S, j)
    BY DEF After
  <2>2. IsFiniteSet(After(S, j)) /\ Cardinality(After(S, j)) <= Cardinality(S)
        /\ Cardinality(S) # Cardinality(After(S, j))
    BY <2>1, FS_Subset
  <2>3. Cardinality(After(S, j)) \in Nat
    BY <2>2, FS_CardinalityType
  <2> QED
    BY <1>1, <2>2, <2>3
<1>3. \A a, b \in S : rank[a] = rank[b] => a = b
  <2> SUFFICES ASSUME NEW a \in S, NEW b \in S, a # b PROVE rank[a] # rank[b]
    OBVIOUS
  <2>1. \A j \in S : Cardinality(After(S, j)) \in Nat
    BY <1>2, <1>1
  <2>2. a < b \/ b < a
    OBVIOUS
  <2> QED
    BY <2>1, <2>2, RankFalls
<1>4. rank \in Injection(S, ranks)
  BY <1>2, <1>3, Fun_IsInj
<1>5. IsFiniteSet(ranks) /\ Cardinality(ranks) = Cardinality(S)
  BY <1>1, CountBelow
<1>6. rank \in Surjection(S, ranks)
  BY <1>4, <1>5, FS_Injection
<1> QED
  BY <1>4, <1>6

LEMMA TopIsFull ==
    ASSUME NEW S \in SUBSET Nat, IsFiniteSet(S), NEW n \in Nat, NEW i \in S, i \notin TopOf(S, n)
    PROVE  /\ \A j \in TopOf(S, n) : i < j
           /\ IsFiniteSet(TopOf(S, n)) /\ Cardinality(TopOf(S, n)) = n
<1> DEFINE rank == [j \in S |-> Cardinality(After(S, j))]
           ranks == 0..(Cardinality(S) - 1)
           top == [j \in TopOf(S, n) |-> rank[j]]
<1>1. /\ rank \in [S -> ranks] /\ \A a, b \in S : rank[a] = rank[b] => a = b
      /\ \A r \in ranks : \E j \in S : rank[j] = r
  <2>1. rank \in Injection(S, ranks) /\ rank \in Surjection(S, ranks)
    BY EveryRankIsTaken
  <2> HIDE DEF rank, ranks, top
  <2>2. rank \in [S -> ranks]
    BY <2>1, Fun_InjectionProperties
  <2>3. \A a, b \in S : rank[a] = rank[b] => a = b
    BY ONLY <2>1, Fun_InjectionProperties
  <2>4. \A r \in ranks : \E j \in S : rank[j] = r
    BY ONLY <2>1, Fun_SurjectionProperties
  <2> QED
    BY <2>2, <2>3, <2>4
<1>2. Cardinality(S) \in Nat
  BY FS_CardinalityType
<1>3. TopOf(S, n) = {j \in S : rank[j] < n} /\ rank[i] >= n /\ n <= Cardinality(S) - 1
  BY <1>1, <1>2 DEF TopOf
<1>4. \A j \in TopOf(S, n) : i < j
  <2> SUFFICES ASSUME NEW j \in TopOf(S, n), ~(i < j) PROVE FALSE
    OBVIOUS
  <2>1. j \in S /\ rank[j] < n
    BY <1>3
  <2>2. j < i
    BY <2>1, <1>3
  <2>3. rank[i] < rank[j]
    BY <2>1, <2>2, RankFalls
  <2> QED
    BY <1>1, <1>2, <1>3, <2>1, <2>3
<1> HIDE DEF rank
<1>5. top \in [TopOf(S, n) -> 0..(n - 1)]
  <2> SUFFICES ASSUME NEW j \in TopOf(S, n) PROVE rank[j] \in 0..(n - 1)
    OBVIOUS
  <2>1. j \in S /\ rank[j] < n
    BY <1>3
  <2>2. rank[j] \in Nat
    BY <1>1, <1>2, <2>1
  <2> QED
    BY <2>1, <2>2
<1>6. \A a, b \in TopOf(S, n) : top[a] = top[b] => a = b
  BY <1>1, <1>3
<1>7. \A r \in 0..(n - 1) : \E j \in TopOf(S, n) : top[j] = r
  BY <1>1, <1>2, <1>3
<1>8. top \in Bijection(TopOf(S, n), 0..(n - 1))
  BY <1>5, <1>6, <1>7, Fun_IsBij
<1>9. IsFiniteSet(TopOf(S, n))
  BY <1>3, FS_Subset
<1>10. Cardinality(0..(n - 1)) = Cardinality(TopOf(S, n))
  BY <1>8, <1>9, FS_Bijection, Fun_ExistsBij
<1>11. Cardinality(0..(n - 1)) = n
  BY CountBelow
<1> QED
  BY <1>4, <1>9, <1>10, <1>11

\* Of the matters in S, rows misses only those submitted after all it holds, and, when it is
\* full, those submitted before.
MissesOnlyOld(rows, S) ==
    \A i \in S : \/ \E m \in rows : m.id = i
                 \/ \A m \in rows : m.id < i
                 \/ /\ \A m \in rows : i < m.id
                    /\ Cardinality(rows) = ListLimit

LEMMA ListMattersComplete ==
    ASSUME TypeOK
    PROVE  MissesOnlyOld(ListMatters, Submitted)
<1> DEFINE Top == TopOf(Submitted, ListLimit)
           row == [j \in Top |-> Summary(j)]
<1>1. matters \in Seq(Cases) /\ Len(matters) \in Nat /\ Len(matters) <= MaxMatters /\ ListLimit \in Nat
  BY LenProperties, MatterConstants DEF TypeOK, MatterConstants
<1>2. Submitted \in SUBSET Nat /\ IsFiniteSet(Submitted) /\ Submitted \subseteq 1..Len(matters)
  <2>1. Submitted \in SUBSET (1..Len(matters))
    BY DEF Submitted
  <2>2. IsFiniteSet(1..Len(matters))
    BY <1>1, FS_Interval
  <2>3. IsFiniteSet(Submitted)
    BY <2>1, <2>2, FS_Subset
  <2> QED
    BY <1>1, <2>1, <2>3
<1>3. ListMatters = {Summary(j) : j \in Top}
  BY DEF ListMatters, TopOf, After
<1>4. \A j \in Top : Summary(j).id = j
  BY DEF Summary, SummaryIn
<1> SUFFICES ASSUME NEW i \in Submitted, i \notin Top
             PROVE  /\ \A m \in ListMatters : i < m.id
                    /\ Cardinality(ListMatters) = ListLimit
  BY <1>3, <1>4 DEF MissesOnlyOld
<1>5. (\A j \in Top : i < j) /\ IsFiniteSet(Top) /\ Cardinality(Top) = ListLimit
  BY <1>1, <1>2, TopIsFull
<1> HIDE DEF Top
<1>6. row \in Bijection(Top, ListMatters)
  <2>1. row \in [Top -> ListMatters]
    BY <1>3
  <2>2. \A a, b \in Top : row[a] = row[b] => a = b
    BY <1>4
  <2>3. \A m \in ListMatters : \E j \in Top : row[j] = m
    BY <1>3
  <2> QED
    BY <2>1, <2>2, <2>3, Fun_IsBij
<1>7. Cardinality(ListMatters) = Cardinality(Top)
  BY <1>5, <1>6, FS_Bijection, Fun_ExistsBij
<1> QED
  BY <1>3, <1>4, <1>5, <1>7

\* Matters submitted since then come after all that were known.
LEMMA StillMissesOnlyOld ==
    ASSUME NEW S, NEW T \in SUBSET Nat, NEW n \in Nat, NEW rows \in SUBSET MatterSummaries,
           \A m \in rows : m.id <= n, \A i \in T : i \in S \/ i > n, MissesOnlyOld(rows, S)
    PROVE  MissesOnlyOld(rows, T)
<1>1. \A m \in rows : m.id \in Nat
  BY MatterConstants DEF MatterSummaries, Ids, MatterConstants
<1> QED
  BY <1>1 DEF MissesOnlyOld
-----------------------------------------------------------------------------
\* No step makes a matter of one form that of another.
LEMMA FormsAreKept ==
    ASSUME TypeOK, NEW i, NEW row, i \in 1..Len(matters) => row.form = matters[i].form,
           matters' = [matters EXCEPT ![i] = row]
    PROVE  Submitted' = Submitted
<1>1. matters \in Seq(Cases)
  BY DEF TypeOK
<1>2. CASE i \in 1..Len(matters)
  <2>1. matters \in Seq(Cases \cup {row})
    BY <1>1, SeqMonotonic
  <2>2. /\ Len(matters') = Len(matters)
        /\ \A j \in 1..Len(matters) : matters'[j] = IF j = i THEN row ELSE matters[j]
    BY <1>2, <2>1, ExceptSeq
  <2> QED
    BY <1>2, <2>2 DEF Submitted
<1>3. CASE i \notin 1..Len(matters)
  <2>1. matters' = matters
    BY <1>1, <1>3, LenProperties
  <2> QED
    BY <2>1 DEF Submitted
<1> QED
  BY <1>2, <1>3

LEMMA ChangedForms ==
    ASSUME TypeOK, NEW i \in 1..Len(matters), NEW row, row.form = matters[i].form,
           [row EXCEPT !.updated = clock + 1].form = row.form, Changed(i, row)
    PROVE  Submitted' = Submitted
BY FormsAreKept DEF Changed

LEMMA ViewedForms ==
    ASSUME TypeOK, NEW i, matters' = Viewed(i)
    PROVE  Submitted' = Submitted
<1> DEFINE row == [matters[i] EXCEPT !.updated = clock + 1]
<1>1. i \in 1..Len(matters) => row.form = matters[i].form
  BY RowType DEF Cases
<1>2. matters' = [matters EXCEPT ![i] = row]
  BY DEF Viewed
<1> HIDE DEF row
<1> QED
  BY <1>1, <1>2, FormsAreKept

LEMMA CreatedForms ==
    ASSUME TypeOK, NEW form, NEW v, NEW cause, Created(form, v, cause)
    PROVE  \A i \in Submitted' : i \in Submitted \/ i > Len(matters)
<1>1. PICK readiness \in {"needs_source_match", "ready_for_decision"} :
          matters' = Append(matters, NewCase(form, v, cause, readiness))
  BY DEF Created
<1> DEFINE row == NewCase(form, v, cause, readiness)
<1>2. matters \in Seq(Cases \cup {row}) /\ Len(matters) \in Nat
  BY SeqMonotonic, LenProperties DEF TypeOK
<1> HIDE DEF row
<1>3. /\ Len(Append(matters, row)) = Len(matters) + 1
      /\ \A i \in 1..Len(matters) : Append(matters, row)[i] = matters[i]
  BY <1>2, AppendProperties
<1>4. matters' = Append(matters, row)
  BY <1>1 DEF row
<1> QED
  BY <1>2, <1>3, <1>4 DEF Submitted

\* Matters are submitted at the end, and stay submitted.
LEMMA SubmittedGrows ==
    ASSUME IInv, [Next]_vars
    PROVE  \A i \in Submitted' : i \in Submitted \/ i > Len(matters)
<1>1. TypeOK
  BY DEF IInv
<1>2. CASE matters' = matters
  BY <1>2 DEF Submitted
<1>3. CASE ServeFetch
  <2>1. matters' = matters \/ matters' = Viewed(page.id)
    BY <1>3 DEF ServeFetch, serviceVars
  <2> QED
    BY <1>1, <1>2, <2>1, ViewedForms
<1>4. ASSUME NEW v \in Visits, ServeCreate(v)
      PROVE  \A i \in Submitted' : i \in Submitted \/ i > Len(matters)
  BY <1>1, <1>4, CreatedForms DEF ServeCreate
<1>5. CASE ServeReopen
  <2>1. reopening # None /\ page.name = "record"
    BY <1>5 DEF ServeReopen, IInv, ReopeningFits, None
  <2>2. page.id \in 1..Len(matters)
    BY <2>1, LenProperties, MatterConstants
       DEF IInv, TypeOK, Pages, Sections, Forms, Ids, IdsAreKnown, MatterConstants
  <2> DEFINE row == [matters[page.id] EXCEPT !.status = "reopened"]
  <2>3. row.form = matters[page.id].form /\ [row EXCEPT !.updated = clock + 1].form = row.form
    BY <1>1, <2>2, RowType DEF Cases
  <2>4. Changed(page.id, row)
    BY <1>5 DEF ServeReopen
  <2> HIDE DEF row
  <2> QED
    BY <1>1, <2>2, <2>3, <2>4, ChangedForms
<1>6. CASE OthersWork
  <2>1. CASE StaffWork
    <3>1. PICK i \in Submitted, o \in Outcomes :
              Changed(i, [matters[i] EXCEPT !.status = o.status, !.decision = o.decision,
                                            !.readiness = o.readiness])
      BY <2>1 DEF StaffWork
    <3> DEFINE row == [matters[i] EXCEPT !.status = o.status, !.decision = o.decision,
                                         !.readiness = o.readiness]
    <3>2. i \in 1..Len(matters)
      BY DEF Submitted
    <3>3. row.form = matters[i].form /\ [row EXCEPT !.updated = clock + 1].form = row.form
      BY <1>1, <3>2, RowType DEF Cases
    <3> HIDE DEF row
    <3>4. Changed(i, row)
      BY <3>1 DEF row
    <3> QED
      BY <1>1, <3>2, <3>3, <3>4, ChangedForms
  <2>2. CASE OthersReopen
    <3>1. PICK i \in Submitted : Changed(i, [matters[i] EXCEPT !.status = "reopened"])
      BY <2>2 DEF OthersReopen
    <3> DEFINE row == [matters[i] EXCEPT !.status = "reopened"]
    <3>2. i \in 1..Len(matters)
      BY DEF Submitted
    <3>3. row.form = matters[i].form /\ [row EXCEPT !.updated = clock + 1].form = row.form
      BY <1>1, <3>2, RowType DEF Cases
    <3> HIDE DEF row
    <3>4. Changed(i, row)
      BY <3>1 DEF row
    <3> QED
      BY <1>1, <3>2, <3>3, <3>4, ChangedForms
  <2>3. CASE OthersView
    BY <1>1, <2>3, ViewedForms DEF OthersView
  <2>4. CASE Created("new", 0, "first")
    BY <1>1, <2>4, CreatedForms
  <2>5. CASE FileWork
    <3>1. PICK i \in Submitted, o \in Outcomes :
              matters' = [matters EXCEPT ![i] = [matters[i] EXCEPT !.readiness = o.readiness]]
      BY <2>5 DEF FileWork
    <3> DEFINE row == [matters[i] EXCEPT !.readiness = o.readiness]
    <3>2. row.form = matters[i].form
      BY <1>1, RowType DEF Cases, Submitted
    <3>3. matters' = [matters EXCEPT ![i] = row]
      BY <3>1
    <3> HIDE DEF row
    <3> QED
      BY <1>1, <3>2, <3>3, FormsAreKept
  <2> QED
    BY <1>6, <2>1, <2>2, <2>3, <2>4, <2>5 DEF OthersWork
<1>7. \/ matters' = matters \/ ServeFetch \/ ServeReopen \/ OthersWork
      \/ \E v \in Visits : ServeCreate(v)
  BY DEF Next, PageStep, FormStep, ReopenStep, Browse, Arrive, LoseFetch, ShowFetch, FetchFailed,
         Submit, ClickAgain, RefuseCreate, CreateDone, CreateFailed, Reopen, CheckReopen,
         RefuseReopen, ReopenDone, ReopenFailed, vars, serviceVars
<1> QED
  BY <1>2, <1>3, <1>4, <1>5, <1>6, <1>7

\* What a list shows, or is about to, was complete when it was read.
ListPages == {"queue", "dashboard"}

ListsAreComplete ==
    page.name \in ListPages =>
        /\ MissesOnlyOld(shown.rows, Submitted)
        /\ fetch.state = "served" => MissesOnlyOld(fetch.rows, Submitted)

LEMMA WhatIsShown ==
    ASSUME IInv, [Next]_vars, page'.name \in ListPages
    PROVE  \/ shown'.rows = {}
           \/ page' = page /\ shown'.rows = shown.rows
           \/ page' = page /\ shown'.rows = fetch.rows /\ fetch.state = "served"
<1>1. ASSUME NEW p, Mount(p) PROVE shown'.rows = {}
  BY <1>1 DEF Mount, Loading
<1>2. CASE Browse \/ Arrive
  BY <1>1, <1>2 DEF Browse, Arrive, pageVars
<1>3. CASE ServeFetch \/ LoseFetch \/ ShowFetch
  BY <1>3 DEF ServeFetch, LoseFetch, ShowFetch
<1>4. CASE FetchFailed
  BY <1>4 DEF FetchFailed, Loading
<1>5. CASE FormStep
  BY <1>5 DEF FormStep, Submit, ClickAgain, ServeCreate, RefuseCreate, CreateDone,
     CreateFailed, pageVars
<1>6. CASE ReopenStep
  <2>1. ASSUME ReopenDone PROVE FALSE
    BY <2>1 DEF ReopenDone, IInv, ReopeningFits, None, ListPages
  <2> QED
    BY <1>6, <2>1 DEF ReopenStep, Reopen, CheckReopen, ServeReopen, RefuseReopen, ReopenFailed
<1>7. CASE OthersWork
  BY <1>7 DEF OthersWork, pageVars
<1>8. CASE UNCHANGED vars
  BY <1>8 DEF vars, pageVars
<1> QED
  BY <1>2, <1>3, <1>4, <1>5, <1>6, <1>7, <1>8 DEF Next, PageStep

LEMMA WhatIsAnswered ==
    ASSUME IInv, [Next]_vars, page'.name \in ListPages, fetch'.state = "served"
    PROVE  \/ page' = page /\ fetch' = fetch
           \/ page' = page /\ matters' = matters /\ fetch'.rows = ListMatters
<1>1. ASSUME NEW p, Mount(p) PROVE fetch'.state # "served"
  BY <1>1 DEF Mount, None
<1>2. CASE Browse \/ Arrive
  BY <1>1, <1>2 DEF Browse, Arrive, pageVars
<1>3. CASE ServeFetch
  <2>1. page' = page /\ fetch.state = "sent"
    BY <1>3 DEF ServeFetch
  <2>2. fetch.call = "list"
    BY <2>1 DEF IInv, PageFits, CallOf, ListPages
  <2> QED
    BY <1>3, <2>1, <2>2 DEF ServeFetch, serviceVars
<1>4. CASE LoseFetch \/ ShowFetch \/ FetchFailed
  BY <1>4 DEF LoseFetch, ShowFetch, FetchFailed, None
<1>5. CASE FormStep
  BY <1>5 DEF FormStep, Submit, ClickAgain, ServeCreate, RefuseCreate, CreateDone,
     CreateFailed, pageVars
<1>6. CASE ReopenStep
  BY <1>6 DEF ReopenStep, Reopen, CheckReopen, ServeReopen, RefuseReopen, ReopenDone, ReopenFailed
<1>7. CASE OthersWork
  BY <1>7 DEF OthersWork, pageVars
<1>8. CASE UNCHANGED vars
  BY <1>8 DEF vars, pageVars
<1> QED
  BY <1>2, <1>3, <1>4, <1>5, <1>6, <1>7, <1>8 DEF Next, PageStep

LEMMA ListsStayComplete ==
    ASSUME IInv, ListsAreComplete, [Next]_vars
    PROVE  ListsAreComplete'
<1> SUFFICES ASSUME page'.name \in ListPages
             PROVE  /\ MissesOnlyOld(shown'.rows, Submitted')
                    /\ fetch'.state = "served" => MissesOnlyOld(fetch'.rows, Submitted')
  BY DEF ListsAreComplete
<1>1. /\ TypeOK /\ TypeOK' /\ Len(matters) \in Nat /\ Len(matters') \in Nat
      /\ Submitted' \in SUBSET Nat
  BY StepPreserves, LenProperties DEF IInv, TypeOK, Submitted
<1>2. ASSUME NEW rows \in SUBSET MatterSummaries, \A m \in rows : m.id <= Len(matters),
             MissesOnlyOld(rows, Submitted)
      PROVE  MissesOnlyOld(rows, Submitted')
  BY <1>1, <1>2, SubmittedGrows, StillMissesOnlyOld
<1>3. /\ shown.rows \in SUBSET MatterSummaries /\ \A m \in shown.rows : m.id <= Len(matters)
      /\ fetch.state = "served" =>
             fetch.rows \in SUBSET MatterSummaries /\ \A m \in fetch.rows : m.id <= Len(matters)
  BY DEF IInv, TypeOK, Views, Fetches, None, IdsAreKnown, Known
<1>4. MissesOnlyOld(shown'.rows, Submitted')
  <2>1. CASE shown'.rows = {}
    BY <2>1 DEF MissesOnlyOld
  <2>2. CASE page' = page /\ shown'.rows = shown.rows
    BY <1>2, <1>3, <2>2 DEF ListsAreComplete
  <2>3. CASE page' = page /\ shown'.rows = fetch.rows /\ fetch.state = "served"
    BY <1>2, <1>3, <2>3 DEF ListsAreComplete
  <2> QED
    BY <2>1, <2>2, <2>3, WhatIsShown
<1>5. ASSUME fetch'.state = "served" PROVE MissesOnlyOld(fetch'.rows, Submitted')
  <2>1. CASE page' = page /\ fetch' = fetch
    BY <1>2, <1>3, <1>5, <2>1 DEF ListsAreComplete
  <2>2. CASE page' = page /\ matters' = matters /\ fetch'.rows = ListMatters
    <3>1. Submitted' = Submitted
      BY <2>2 DEF Submitted
    <3> QED
      BY <1>1, <2>2, <3>1, ListMattersComplete
  <2> QED
    BY <1>5, <2>1, <2>2, WhatIsAnswered
<1> QED
  BY <1>4, <1>5

\* The queue and the dashboard miss no matter but those submitted after they were read and,
\* when as many as the service lists are shown, those submitted before all of these.
THEOREM ListsMissNothingElse == Spec => []ListsMissOnlyOldMatters
<1>1. Init => ListsAreComplete
  BY DEF Init, ListsAreComplete, MissesOnlyOld, Loading
<1>2. ListsAreComplete => ListsMissOnlyOldMatters
  BY DEF ListsAreComplete, MissesOnlyOld, ListsMissOnlyOldMatters, ListPages
<1> QED
  BY <1>1, <1>2, Invariance, ListsStayComplete, PTL DEF Spec
=============================================================================
