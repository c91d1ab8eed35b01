-------------------------- MODULE MCPortalMatters --------------------------
(***************************************************************************)
(* Small instance of PortalMatters: the staff stop a matter, by way of an  *)
(* exception, or find a conflict in its file; a list holds but two.        *)
(***************************************************************************)
EXTENDS PortalMatters

MCEarlier ==
    <<[form |-> "new", by |-> 0, cause |-> "first", status |-> "resolved", decision |-> "review",
       readiness |-> "ready_for_decision", updated |-> 2],
      [form |-> "new", by |-> 0, cause |-> "first", status |-> "submitted", decision |-> "none",
       readiness |-> "needs_source_match", updated |-> 1]>>
MCOutcomes ==
    {[status |-> "in_review", decision |-> "none", readiness |-> "has_conflict"],
     [status |-> "resolved", decision |-> "stop", readiness |-> "exception_approved"]}
=============================================================================
