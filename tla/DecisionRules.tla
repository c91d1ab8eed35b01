--------------------------- MODULE DecisionRules ---------------------------
(***************************************************************************)
(* The rules the cases service applies before a decision is written: the   *)
(* catalogue of reason codes, the evidence readiness of a case, the rules  *)
(* on the reason codes of a manual decision, and the rule on the evidence  *)
(* exception note.                                                         *)
(*                                                                         *)
(* A note is abstracted to whether it is blank after trimming: TRUE stands *)
(* for a note with text.                                                   *)
(***************************************************************************)
EXTENDS Naturals, FiniteSets

\* ops.reason_codes, by category, as the migrations fill it.
ClearSupport ==
    {"TITLE_SEARCH_CLEAN", "ENCUMBRANCE_CHECK_CLEAN", "OWNERSHIP_CHAIN_CONFIRMED"}
HardBlock ==
    {"ACTIVE_INTERDICT", "TITLE_DEED_MISMATCH", "REGISTERED_BOND_CONFLICT"}
ReviewTrigger ==
    {"OWNERSHIP_CONFLICT", "PARTY_NAME_VARIANCE", "SOURCE_CONFLICT",
     "FRAUD_SIGNAL_PRESENT", "SOURCE_RECORD_QUARANTINED"}
UnresolvedInformation ==
    {"MISSING_TITLE_REFERENCE", "INSUFFICIENT_SOURCE_COVERAGE"}

ReasonCodes == ClearSupport \cup HardBlock \cup ReviewTrigger \cup UnresolvedInformation

DecisionOutcomes == {"clear", "review", "stop"}

EvidenceStatuses == {"captured", "confirmed", "conflicting", "superseded"}

-----------------------------------------------------------------------------
(***************************************************************************)
(* Evidence readiness. A file has the fields                               *)
(*   status     the case status,                                           *)
(*   linked     whether a property or a seed property is linked or a match *)
(*              is confirmed,                                              *)
(*   evidence   the set of statuses of its evidence items,                 *)
(*   exception  whether its current decision carries an exception.         *)
(***************************************************************************)

EvaluateEvidenceReadiness(file) ==
    IF file.status = "resolved" /\ file.exception THEN "exception_approved"
    ELSE IF "conflicting" \in file.evidence THEN "has_conflict"
    ELSE IF ~file.linked THEN "needs_source_match"
    ELSE IF "confirmed" \notin file.evidence THEN "needs_evidence"
    ELSE "ready_for_decision"

-----------------------------------------------------------------------------
\* RecordDecision: the categories a manual decision may and must cite. A
\* review_trigger code is compatible with every outcome.
DecisionCodesAllowed(decision, codes) ==
    /\ codes # {}
    /\ codes \subseteq ReasonCodes
    /\ decision = "clear" =>
         /\ codes \cap HardBlock = {}
         /\ codes \cap UnresolvedInformation = {}
         /\ codes \cap ClearSupport # {}
    /\ decision = "review" =>
         /\ codes \cap HardBlock = {}
         /\ codes \cap ClearSupport = {}
    /\ decision = "stop" => codes \cap HardBlock # {}

\* CloseUnresolved: the codes an unresolved closure must cite.
ClosureCodesAllowed(codes) ==
    /\ codes # {}
    /\ codes \subseteq ReasonCodes
    /\ codes \cap UnresolvedInformation # {}

\* Variant of ExceptionAllowed: a note lets a clear through as well.
ExceptionAllowedForClear(readiness, decision, note) ==
    readiness = "ready_for_decision" \/ note

(***************************************************************************)
(* normalizeDecisionExceptionForDetail: the error, or the note to store.   *)
(* With a ready file the note is dropped; otherwise a clear is refused and *)
(* any other decision needs a note.                                        *)
(***************************************************************************)
ExceptionAllowed(readiness, decision, note) ==
    \/ readiness = "ready_for_decision"
    \/ decision # "clear" /\ note

StoredNote(readiness, note) ==
    readiness # "ready_for_decision" /\ note
=============================================================================
