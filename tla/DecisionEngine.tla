--------------------------- MODULE DecisionEngine ---------------------------
(***************************************************************************)
(* The deterministic decision engine: the rows of a case and of its linked *)
(* canonical property are loaded into a snapshot, the snapshot is turned   *)
(* into facts, and the facts into a proposal. Everything here is a         *)
(* function of its arguments; the case workflows evaluate Propose in every *)
(* transaction that re-evaluates a case.                                   *)
(*                                                                         *)
(* Data. A title is a record of the reference proper and of the spelling   *)
(* it was typed in (case and blanks), or NoTitle when blank. An evidence   *)
(* item is its type, its status and whether its extracted facts carry a    *)
(* fraud or anomaly flag; a party is the normalized name of an owner or    *)
(* seller, the only roles the engine reads.                                *)
(***************************************************************************)
EXTENDS DecisionRules, Sequences

CONSTANTS Refs,        \* title references, up to case and blanks
          Owners       \* normalized names of owners and sellers

ASSUME EngineConstants == IsFiniteSet(Owners)

NoTitle == [ref |-> "", spelling |-> "blank"]
Spellings == {"as_registered", "respaced"}
Titles == [ref : Refs, spelling : Spellings]

\* The status of the one registration a property has; none before it is stored.
TitleStatuses == {"none", "registered", "active_interdict"}

EvidenceTypes == {"ordinary", "source_conflict", "fraud_report"}
EvidenceItems == [type : EvidenceTypes, flagged : BOOLEAN, status : EvidenceStatuses]

\* The canonical rows of a property: its title, the status of its registration,
\* whether it has an active encumbrance, source links and quarantined source
\* records, and the names of its owners.
PropertyRows ==
    [title : Titles, titleStatus : TitleStatuses, encumbered : BOOLEAN,
     sourced : BOOLEAN, quarantined : BOOLEAN, owners : SUBSET Owners]

\* The rows of a case that the engine reads. parties has one name per row of an
\* owner or seller: nothing keeps a name from occurring twice.
CaseRows ==
    [linked : BOOLEAN, title : Titles \cup {NoTitle},
     evidence : SUBSET EvidenceItems, parties : Seq(Owners)]

-----------------------------------------------------------------------------
\* A conflict is an item marked conflicting, or any item (even a superseded
\* one) of type source_conflict.
HasConflictingEvidence(evidence) ==
    \E item \in evidence : item.status = "conflicting" \/ item.type = "source_conflict"

HasFraudSignal(evidence) ==
    \E item \in evidence : item.type = "fraud_report" \/ item.flagged

\* Variant of PartyAlignment: an owner the case does not name goes unnoticed.
PartyAlignmentOneWay(parties, coreOwners) ==
    LET matches == Cardinality({i \in DOMAIN parties : parties[i] \in coreOwners})
    IN  IF parties = <<>> \/ coreOwners = {}
        THEN [aligned |-> TRUE, variance |-> FALSE]
        ELSE [aligned |-> matches > 0, variance |-> matches # Len(parties)]

\* evaluatePartyAlignment. matches counts the case rows whose name the
\* property knows; the outcomes compare it with the number of case rows and
\* with the number of names the property knows.
PartyAlignment(parties, coreOwners) ==
    LET matches == Cardinality({i \in DOMAIN parties : parties[i] \in coreOwners})
    IN  IF parties = <<>> \/ coreOwners = {}
        THEN [aligned |-> TRUE, variance |-> FALSE]
        ELSE [aligned |-> matches > 0,
              variance |-> \/ matches # Len(parties)
                           \/ matches # Cardinality(coreOwners)]

\* LoadNormalizedSnapshot: an unlinked case has no canonical title, no source
\* coverage, and its ownership counts as aligned.
LoadNormalizedSnapshot(case, property) ==
    LET p == PartyAlignment(case.parties, property.owners)
        here == case.linked
    IN  [linked        |-> here,
         canonicalTitle |-> IF here THEN property.title ELSE NoTitle,
         caseTitle     |-> case.title,
         titleStatus   |-> IF here THEN property.titleStatus ELSE "none",
         encumbered    |-> here /\ property.encumbered,
         \* the quarantine is joined through the source links
         quarantined   |-> here /\ property.quarantined /\ property.sourced,
         coverage      |-> here /\ property.title # NoTitle /\ property.sourced,
         aligned       |-> here => p.aligned,
         variance      |-> here /\ p.variance,
         conflict      |-> HasConflictingEvidence(case.evidence),
         fraud         |-> HasFraudSignal(case.evidence)]

\* Case and blanks are dropped before two references are compared.
NormalizeTitleReference(title) == title.ref

CaseFacts ==
    [hasLinkedProperty : BOOLEAN, hasCanonicalTitle : BOOLEAN, hasTitleReference : BOOLEAN,
     titleMismatch : BOOLEAN, activeInterdict : BOOLEAN, activeEncumbrance : BOOLEAN,
     quarantinedRows : BOOLEAN, ownershipAligned : BOOLEAN, coverageSufficient : BOOLEAN,
     partyVariance : BOOLEAN, conflictingEvidence : BOOLEAN, fraudSignal : BOOLEAN]

BuildFacts(s) ==
    [hasLinkedProperty   |-> s.linked,
     hasCanonicalTitle   |-> s.canonicalTitle # NoTitle,
     hasTitleReference   |-> s.caseTitle # NoTitle,
     titleMismatch       |-> /\ s.canonicalTitle # NoTitle
                             /\ s.caseTitle # NoTitle
                             /\ NormalizeTitleReference(s.caseTitle)
                                  # NormalizeTitleReference(s.canonicalTitle),
     activeInterdict     |-> s.titleStatus = "active_interdict",
     activeEncumbrance   |-> s.encumbered,
     quarantinedRows     |-> s.quarantined,
     ownershipAligned    |-> s.aligned,
     coverageSufficient  |-> s.coverage,
     partyVariance       |-> s.variance,
     conflictingEvidence |-> s.conflict,
     fraudSignal         |-> s.fraud]

-----------------------------------------------------------------------------
(***************************************************************************)
(* Evaluate: stop reasons first, then review reasons, then clear.          *)
(***************************************************************************)
When(condition, code) == IF condition THEN {code} ELSE {}

\* Variant of StopReasons: a missing title reference blocks.
StopReasonsWithMissingTitle(f) ==
    When(f.activeInterdict, "ACTIVE_INTERDICT")
        \cup When(f.titleMismatch, "TITLE_DEED_MISMATCH")
        \cup When(f.activeEncumbrance, "REGISTERED_BOND_CONFLICT")
        \cup When(~f.hasTitleReference, "MISSING_TITLE_REFERENCE")

StopReasons(f) ==
    When(f.activeInterdict, "ACTIVE_INTERDICT")
        \cup When(f.titleMismatch, "TITLE_DEED_MISMATCH")
        \cup When(f.activeEncumbrance, "REGISTERED_BOND_CONFLICT")

\* Variant of ReviewReasons: thin source coverage is not reviewed.
ReviewReasonsWithoutCoverage(f) ==
    When(~f.ownershipAligned, "OWNERSHIP_CONFLICT")
        \cup When(f.partyVariance, "PARTY_NAME_VARIANCE")
        \cup When(f.conflictingEvidence, "SOURCE_CONFLICT")
        \cup When(f.fraudSignal, "FRAUD_SIGNAL_PRESENT")
        \cup When(~f.hasTitleReference, "MISSING_TITLE_REFERENCE")
        \cup When(f.quarantinedRows, "SOURCE_RECORD_QUARANTINED")

ReviewReasons(f) ==
    When(~f.ownershipAligned, "OWNERSHIP_CONFLICT")
        \cup When(f.partyVariance, "PARTY_NAME_VARIANCE")
        \cup When(f.conflictingEvidence, "SOURCE_CONFLICT")
        \cup When(f.fraudSignal, "FRAUD_SIGNAL_PRESENT")
        \cup When(~f.hasTitleReference, "MISSING_TITLE_REFERENCE")
        \cup When(~f.coverageSufficient, "INSUFFICIENT_SOURCE_COVERAGE")
        \cup When(f.quarantinedRows, "SOURCE_RECORD_QUARANTINED")

ClearReasons(f) ==
    When(f.hasCanonicalTitle /\ f.hasTitleReference /\ ~f.titleMismatch, "TITLE_SEARCH_CLEAN")
        \cup When(~f.activeEncumbrance, "ENCUMBRANCE_CHECK_CLEAN")
        \cup When(f.ownershipAligned, "OWNERSHIP_CHAIN_CONFIRMED")

\* Variant of Evaluate: review reasons are looked at before stop reasons.
EvaluateReviewFirst(f) ==
    IF ReviewReasons(f) # {} THEN [decision |-> "review", codes |-> ReviewReasons(f)]
    ELSE IF StopReasons(f) # {} THEN [decision |-> "stop", codes |-> StopReasons(f)]
    ELSE [decision |-> "clear", codes |-> ClearReasons(f)]

Evaluate(f) ==
    IF StopReasons(f) # {} THEN [decision |-> "stop", codes |-> StopReasons(f)]
    ELSE IF ReviewReasons(f) # {} THEN [decision |-> "review", codes |-> ReviewReasons(f)]
    ELSE IF ClearReasons(f) = {}
         THEN [decision |-> "review", codes |-> {"INSUFFICIENT_SOURCE_COVERAGE"}]
    ELSE [decision |-> "clear", codes |-> ClearReasons(f)]

FactsOf(case, property) == BuildFacts(LoadNormalizedSnapshot(case, property))

\* What a re-evaluation of the case writes as its current proposal.
Propose(case, property) == Evaluate(FactsOf(case, property))
=============================================================================
