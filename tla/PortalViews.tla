---------------------------- MODULE PortalViews ----------------------------
(***************************************************************************)
(* What the customer's pages make of a list of matters: the metrics, the   *)
(* filters of the queue and the widgets of the dashboard, as functions of  *)
(* the summaries the service answered with, and the tones of the badges.   *)
(*                                                                         *)
(* A summary is a record with an id, the customer status, the decision     *)
(* ("none" for the empty one), the state of its evidence readiness, and    *)
(* its updated_at, a number. Ids grow in the order of submission.          *)
(***************************************************************************)
EXTENDS Naturals, FiniteSets

CONSTANTS ReadinessShown,  \* how many matters MatterReadiness lists, 6 in the code
          ActivityShown    \* how many RecentActivity does, 5 in the code

ASSUME ViewConstants ==
    ReadinessShown \in Nat /\ ActivityShown \in Nat /\ ActivityShown <= ReadinessShown

CustomerStatuses == {"submitted", "in_review", "resolved", "reopened"}
Decisions == {"clear", "review", "stop", "none"}
ReadinessStates == {"unknown", "needs_source_match", "needs_evidence", "has_conflict",
                    "ready_for_decision", "exception_approved"}

-----------------------------------------------------------------------------
WithStatus(ms, status) == {m \in ms : m.status = status}
WithDecision(ms, decision) == {m \in ms : m.decision = decision}

BuildMatterMetrics(ms) ==
    [total |-> Cardinality(ms),
     submitted |-> Cardinality(WithStatus(ms, "submitted")),
     inReview |-> Cardinality(WithStatus(ms, "in_review")),
     resolved |-> Cardinality(WithStatus(ms, "resolved")),
     reopened |-> Cardinality(WithStatus(ms, "reopened")),
     clear |-> Cardinality(WithDecision(ms, "clear")),
     review |-> Cardinality(WithDecision(ms, "review")),
     stop |-> Cardinality(WithDecision(ms, "stop")),
     pendingDecision |-> Cardinality(WithDecision(ms, "none"))]

\* The filters of the queue. The search field is left empty here.
FilterOptions == [status : CustomerStatuses \cup {"all"}, decision : Decisions \cup {"all"}]

FilterMatters(ms, filters) ==
    {m \in ms : /\ filters.status \in {"all", m.status}
                /\ filters.decision \in {"all", m.decision}}

\* Variant of ActiveQueue: reopened matters are forgotten.
ActiveQueueOfNew(ms) ==
    LET metrics == BuildMatterMetrics(ms)
    IN  metrics.submitted + metrics.inReview

\* QueueHealth: how many matters are being worked on.
ActiveQueue(ms) ==
    LET metrics == BuildMatterMetrics(ms)
    IN  metrics.submitted + metrics.inReview + metrics.reopened

\* A conflict has no queue of its own.
EvidenceWorkQueues(ms) ==
    [state \in {"needs_source_match", "needs_evidence", "exception_approved"} |->
        Cardinality({m \in ms : m.readiness = state})]

DecisionExceptions(ms) == WithDecision(ms, "stop") \cup WithDecision(ms, "review")

\* The n summaries updated last.
Latest(n, ms) ==
    {m \in ms : Cardinality({later \in ms : later.updated > m.updated}) < n}

MatterReadiness(ms) == Latest(ReadinessShown, ms)
RecentActivity(ms) == Latest(ActivityShown, ms)

-----------------------------------------------------------------------------
\* The tones of the badges: muted, info, success, warning, danger.
EvidenceReadinessTone(state) ==
    CASE state = "ready_for_decision" -> "success"
      [] state = "has_conflict"       -> "danger"
      [] state = "exception_approved" -> "warning"
      [] state \in {"needs_source_match", "needs_evidence"} -> "info"
      [] OTHER -> "muted"

\* What the record says of the file a decision rests on.
EvidenceReadinessAction(state) ==
    CASE state = "ready_for_decision" -> "relied on"
      [] state = "exception_approved" -> "relied on with an exception"
      [] state = "has_conflict" -> "to be reviewed"
      [] state \in {"needs_source_match", "needs_evidence"} -> "waited for"
      [] OTHER -> "not available"

DecisionTone(decision) ==
    CASE decision = "clear" -> "success"
      [] decision = "review" -> "warning"
      [] decision = "stop" -> "danger"
      [] OTHER -> "muted"
=============================================================================
