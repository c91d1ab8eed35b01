------------------------ MODULE DecisionEngineProofs ------------------------
(***************************************************************************)
(* What the engine's proposals are like, whatever the facts.               *)
(***************************************************************************)
EXTENDS DecisionEngine, TLAPS

\* Stop reasons are hard blocks.
LEMMA StopReasonsAreHardBlocks ==
    ASSUME NEW f
    PROVE  StopReasons(f) \subseteq HardBlock
BY DEF StopReasons, When, HardBlock

\* Review reasons are neither hard blocks nor clear support.
LEMMA ReviewReasonsAreOpen ==
    ASSUME NEW f
    PROVE  ReviewReasons(f) \subseteq ReviewTrigger \cup UnresolvedInformation
BY DEF ReviewReasons, When, ReviewTrigger, UnresolvedInformation

LEMMA ClearReasonsAreClearSupport ==
    ASSUME NEW f
    PROVE  ClearReasons(f) \subseteq ClearSupport
BY DEF ClearReasons, When, ClearSupport

\* The categories of the catalogue have no code in common.
LEMMA CategoriesAreDisjoint ==
    /\ ClearSupport \cap HardBlock = {}
    /\ ClearSupport \cap UnresolvedInformation = {}
    /\ HardBlock \cap (ReviewTrigger \cup UnresolvedInformation) = {}
    /\ ClearSupport \cap (ReviewTrigger \cup UnresolvedInformation) = {}
BY DEF ClearSupport, HardBlock, ReviewTrigger, UnresolvedInformation

\* Every proposal has an outcome, codes of the catalogue, and is one that
\* RecordDecision would take from an analyst.
LEMMA ProposalsAreRecordable ==
    ASSUME NEW f
    PROVE  /\ Evaluate(f) \in [decision : DecisionOutcomes, codes : SUBSET ReasonCodes]
           /\ DecisionCodesAllowed(Evaluate(f).decision, Evaluate(f).codes)
<1>1. CASE StopReasons(f) # {}
  <2>1. Evaluate(f) = [decision |-> "stop", codes |-> StopReasons(f)]
    BY <1>1 DEF Evaluate
  <2>2. StopReasons(f) \subseteq ReasonCodes /\ StopReasons(f) \cap HardBlock # {}
    BY <1>1, StopReasonsAreHardBlocks DEF ReasonCodes
  <2> QED
    BY <1>1, <2>1, <2>2 DEF DecisionCodesAllowed, DecisionOutcomes
<1>2. CASE StopReasons(f) = {} /\ ReviewReasons(f) # {}
  <2>1. Evaluate(f) = [decision |-> "review", codes |-> ReviewReasons(f)]
    BY <1>2 DEF Evaluate
  <2>2. /\ ReviewReasons(f) \subseteq ReasonCodes
        /\ ReviewReasons(f) \cap HardBlock = {}
        /\ ReviewReasons(f) \cap ClearSupport = {}
    BY ReviewReasonsAreOpen, CategoriesAreDisjoint DEF ReasonCodes
  <2> QED
    BY <1>2, <2>1, <2>2 DEF DecisionCodesAllowed, DecisionOutcomes
<1>3. CASE StopReasons(f) = {} /\ ReviewReasons(f) = {} /\ ClearReasons(f) = {}
  <2>1. Evaluate(f) = [decision |-> "review", codes |-> {"INSUFFICIENT_SOURCE_COVERAGE"}]
    BY <1>3 DEF Evaluate
  <2>2. {"INSUFFICIENT_SOURCE_COVERAGE"} \subseteq UnresolvedInformation
    BY DEF UnresolvedInformation
  <2> QED
    BY <2>1, <2>2, CategoriesAreDisjoint
       DEF DecisionCodesAllowed, DecisionOutcomes, ReasonCodes
<1>4. CASE StopReasons(f) = {} /\ ReviewReasons(f) = {} /\ ClearReasons(f) # {}
  <2>1. Evaluate(f) = [decision |-> "clear", codes |-> ClearReasons(f)]
    BY <1>4 DEF Evaluate
  <2>2. /\ ClearReasons(f) \subseteq ReasonCodes
        /\ ClearReasons(f) \cap HardBlock = {}
        /\ ClearReasons(f) \cap UnresolvedInformation = {}
        /\ ClearReasons(f) \cap ClearSupport # {}
    BY <1>4, ClearReasonsAreClearSupport, CategoriesAreDisjoint DEF ReasonCodes
  <2> QED
    BY <1>4, <2>1, <2>2 DEF DecisionCodesAllowed, DecisionOutcomes
<1> QED
  BY <1>1, <1>2, <1>3, <1>4

\* A clear proposal comes of facts that give no reason to stop or to review.
LEMMA ClearHasNoReasonAgainst ==
    ASSUME NEW f, Evaluate(f).decision = "clear"
    PROVE  StopReasons(f) = {} /\ ReviewReasons(f) = {}
BY DEF Evaluate

\* The facts behind a clear proposal, one by one.
LEMMA FactsOfAClear ==
    ASSUME NEW f, Evaluate(f).decision = "clear"
    PROVE  /\ ~f.activeInterdict /\ ~f.titleMismatch /\ ~f.activeEncumbrance
           /\ f.ownershipAligned /\ ~f.partyVariance
           /\ ~f.conflictingEvidence /\ ~f.fraudSignal
           /\ f.hasTitleReference /\ f.coverageSufficient /\ ~f.quarantinedRows
<1>1. StopReasons(f) = {} /\ ReviewReasons(f) = {}
  BY ClearHasNoReasonAgainst
<1>2. ~f.activeInterdict /\ ~f.titleMismatch /\ ~f.activeEncumbrance
  BY <1>1 DEF StopReasons, When
<1>3. /\ f.ownershipAligned /\ ~f.partyVariance
      /\ ~f.conflictingEvidence /\ ~f.fraudSignal
      /\ f.hasTitleReference /\ f.coverageSufficient /\ ~f.quarantinedRows
  BY <1>1 DEF ReviewReasons, When
<1> QED
  BY <1>2, <1>3

\* A clear proposal is backed by the rows it was computed from.
LEMMA RowsOfAClear ==
    ASSUME NEW case, NEW property, Propose(case, property).decision = "clear"
    PROVE  /\ case.linked /\ property.sourced
           /\ case.title # NoTitle /\ case.title.ref = property.title.ref
           /\ property.titleStatus # "active_interdict" /\ ~property.encumbered
           /\ \A item \in case.evidence :
                 /\ item.status # "conflicting"
                 /\ item.type \notin {"source_conflict", "fraud_report"}
                 /\ ~item.flagged
<1> DEFINE s == LoadNormalizedSnapshot(case, property)
           f == FactsOf(case, property)
<1>1. /\ ~f.activeInterdict /\ ~f.titleMismatch /\ ~f.activeEncumbrance
      /\ ~f.conflictingEvidence /\ ~f.fraudSignal
      /\ f.hasTitleReference /\ f.coverageSufficient
  BY FactsOfAClear DEF Propose
<1>2. /\ s.titleStatus # "active_interdict" /\ ~s.encumbered
      /\ ~s.conflict /\ ~s.fraud /\ s.coverage
      /\ s.caseTitle # NoTitle
      /\ s.canonicalTitle # NoTitle => s.caseTitle.ref = s.canonicalTitle.ref
  BY <1>1 DEF FactsOf, BuildFacts, NormalizeTitleReference
<1>3. case.linked /\ property.sourced /\ property.title # NoTitle
  BY <1>2 DEF LoadNormalizedSnapshot
<1>4. /\ s.canonicalTitle = property.title /\ s.caseTitle = case.title
      /\ s.titleStatus = property.titleStatus
      /\ s.encumbered <=> property.encumbered
  BY <1>3 DEF LoadNormalizedSnapshot
<1>5. ~HasConflictingEvidence(case.evidence) /\ ~HasFraudSignal(case.evidence)
  BY <1>2 DEF LoadNormalizedSnapshot
<1> QED
  BY <1>2, <1>3, <1>4, <1>5 DEF HasConflictingEvidence, HasFraudSignal
=============================================================================
