-------------------------- MODULE MCCaseEvaluation --------------------------
(***************************************************************************)
(* CaseEvaluation over every case with at most two evidence items and at   *)
(* most three owner rows, and every property, as the other components can  *)
(* produce them:                                                           *)
(*  - canonical evidence cannot be attached to a case whose property has   *)
(*    no source link, so the property of a linked case is sourced;         *)
(*  - a source record is either staged, and then linked, or quarantined,   *)
(*    so no linked record is quarantined.                                  *)
(***************************************************************************)
EXTENDS CaseEvaluation, FiniteSetsExt, SequencesExt

CONSTANTS r1, r2, ann, ben

MCRefs == {r1, r2}
MCOwners == {ann, ben}

\* One item of each kind the engine tells apart.
Items ==
    {[type |-> "ordinary", flagged |-> FALSE, status |-> "confirmed"],
     [type |-> "ordinary", flagged |-> FALSE, status |-> "conflicting"],
     [type |-> "ordinary", flagged |-> TRUE, status |-> "superseded"],
     [type |-> "source_conflict", flagged |-> FALSE, status |-> "superseded"],
     [type |-> "fraud_report", flagged |-> FALSE, status |-> "captured"]}

MCCaseInputs ==
    [linked : BOOLEAN,
     title : [ref : {r1}, spelling : Spellings] \cup {NoTitle},
     evidence : {{}} \cup UNION {kSubset(k, Items) : k \in 1..2},
     parties : BoundedSeq(MCOwners, 3)]

\* r1 and r2 only differ by name: the case has r1, the property either.
MCPropertyInputs ==
    [title : [ref : MCRefs, spelling : {"as_registered"}],
     titleStatus : TitleStatuses, encumbered : BOOLEAN, sourced : {TRUE},
     quarantined : {FALSE}, owners : SUBSET MCOwners]
=============================================================================
