------------------------ MODULE CaseEvaluationProofs ------------------------
(***************************************************************************)
(* The properties of CaseEvaluation, for every case and every property.    *)
(***************************************************************************)
EXTENDS CaseEvaluation, DecisionEngineProofs, FiniteSetTheorems

\* The current proposal, once there is one, is the engine's answer to the rows.
IInv ==
    /\ TypeOK
    /\ proposal = NoProposal \/ proposal = Propose(case, property)

LEMMA ProposeType ==
    ASSUME NEW c, NEW p
    PROVE  Propose(c, p) \in [decision : DecisionOutcomes, codes : SUBSET ReasonCodes]
BY ProposalsAreRecordable DEF Propose

LEMMA InitIInv == Init => IInv
BY InputConstants DEF Init, IInv, TypeOK, NoProposal

LEMMA NextIInv == IInv /\ [Next]_vars => IInv'
<1> SUFFICES ASSUME IInv, [Next]_vars PROVE IInv'
  OBVIOUS
<1>1. CASE Reevaluate
  <2>1. proposal' = Propose(case', property')
    BY <1>1 DEF Reevaluate
  <2>2. proposal' \in [decision : DecisionOutcomes \cup {"none"}, codes : SUBSET ReasonCodes]
    BY <2>1, ProposeType
  <2> QED
    BY <1>1, <2>1, <2>2 DEF Reevaluate, IInv, TypeOK
<1>2. CASE UNCHANGED vars
  BY <1>2 DEF vars, IInv, TypeOK
<1> QED
  BY <1>1, <1>2 DEF Next

\* Every state of every behaviour satisfies the inductive invariant.
THEOREM Invariance == Spec => []IInv
BY InitIInv, NextIInv, PTL DEF Spec

\* The variables keep their types.
THEOREM TypeCorrect == Spec => []TypeOK
<1>1. IInv => TypeOK
  BY DEF IInv
<1> QED
  BY <1>1, Invariance, PTL

\* Accepting a proposal never writes codes RecordDecision would refuse.
THEOREM EngineIsRecordable == Spec => []ProposalIsRecordable
<1>1. IInv => ProposalIsRecordable
  BY ProposalsAreRecordable DEF IInv, ProposalIsRecordable, Propose
<1> QED
  BY <1>1, Invariance, PTL

\* A clear proposal is backed by the rows of the case and of its property.
THEOREM ClearIsAlwaysSupported == Spec => []ClearIsSupported
<1>1. ASSUME IInv, proposal.decision = "clear"
      PROVE  Propose(case, property).decision = "clear"
  BY <1>1 DEF IInv, NoProposal
<1>2. IInv => ClearIsSupported
  BY <1>1, RowsOfAClear DEF ClearIsSupported
<1> QED
  BY <1>2, Invariance, PTL

-----------------------------------------------------------------------------
LEMMA FactsType ==
    ASSUME NEW c \in CaseRows, NEW p \in PropertyRows
    PROVE  FactsOf(c, p) \in CaseFacts
<1> DEFINE s == LoadNormalizedSnapshot(c, p)
<1>1. /\ c.linked \in BOOLEAN /\ p.encumbered \in BOOLEAN
      /\ p.sourced \in BOOLEAN /\ p.quarantined \in BOOLEAN
  BY DEF CaseRows, PropertyRows
<1>2. /\ s.linked \in BOOLEAN /\ s.encumbered \in BOOLEAN /\ s.quarantined \in BOOLEAN
      /\ s.coverage \in BOOLEAN /\ s.variance \in BOOLEAN
      /\ s.aligned \in BOOLEAN
  BY <1>1 DEF LoadNormalizedSnapshot
<1>3. s.conflict \in BOOLEAN /\ s.fraud \in BOOLEAN
  BY DEF LoadNormalizedSnapshot, HasConflictingEvidence, HasFraudSignal
<1> QED
  BY <1>2, <1>3 DEF FactsOf, BuildFacts, CaseFacts

\* Turning one fact against the transfer keeps every reason there was.
LEMMA WorseFactsKeepReasons ==
    ASSUME NEW f \in CaseFacts, NEW g \in WorseFacts(f)
    PROVE  /\ StopReasons(f) \subseteq StopReasons(g)
           /\ ReviewReasons(f) \subseteq ReviewReasons(g)
<1>1. PICK k \in DOMAIN f : g = [f EXCEPT ![k] = k \notin GoodFacts]
  BY DEF WorseFacts
<1>2. /\ f.activeInterdict => g.activeInterdict
      /\ f.titleMismatch => g.titleMismatch
      /\ f.activeEncumbrance => g.activeEncumbrance
      /\ f.quarantinedRows => g.quarantinedRows
      /\ f.partyVariance => g.partyVariance
      /\ f.conflictingEvidence => g.conflictingEvidence
      /\ f.fraudSignal => g.fraudSignal
  BY <1>1 DEF CaseFacts, GoodFacts
<1>3. /\ g.ownershipAligned => f.ownershipAligned
      /\ g.hasTitleReference => f.hasTitleReference
      /\ g.coverageSufficient => f.coverageSufficient
  BY <1>1 DEF CaseFacts, GoodFacts
<1>4. StopReasons(f) \subseteq StopReasons(g)
  BY <1>2 DEF StopReasons, When
<1>5. ReviewReasons(f) \subseteq ReviewReasons(g)
  BY <1>2, <1>3 DEF ReviewReasons, When
<1> QED
  BY <1>4, <1>5

\* Without a reason to stop there is a reason to clear.
LEMMA ClearReasonsRemain ==
    ASSUME NEW f, StopReasons(f) = {}
    PROVE  ClearReasons(f) # {}
BY DEF StopReasons, ClearReasons, When

LEMMA WorseFactsKeepSeverity ==
    ASSUME NEW f \in CaseFacts, NEW g \in WorseFacts(f)
    PROVE  Severity[Evaluate(g).decision] >= Severity[Evaluate(f).decision]
<1>1. /\ StopReasons(f) \subseteq StopReasons(g)
      /\ ReviewReasons(f) \subseteq ReviewReasons(g)
  BY WorseFactsKeepReasons
<1>2. Severity["clear"] = 0 /\ Severity["review"] = 1 /\ Severity["stop"] = 2
  BY DEF Severity
<1>3. Evaluate(g).decision \in {"clear", "review", "stop"}
  BY ProposalsAreRecordable DEF DecisionOutcomes
<1>4. CASE StopReasons(f) # {}
  <2>1. Evaluate(f).decision = "stop" /\ Evaluate(g).decision = "stop"
    BY <1>1, <1>4 DEF Evaluate
  <2> QED
    BY <1>2, <2>1
<1>5. CASE StopReasons(f) = {} /\ ReviewReasons(f) # {}
  <2>1. Evaluate(f).decision = "review" /\ Evaluate(g).decision \in {"review", "stop"}
    BY <1>1, <1>5 DEF Evaluate
  <2> QED
    BY <1>2, <2>1
<1>6. CASE StopReasons(f) = {} /\ ReviewReasons(f) = {}
  <2>1. Evaluate(f).decision = "clear"
    BY <1>6, ClearReasonsRemain DEF Evaluate
  <2> QED
    BY <1>2, <1>3, <2>1
<1> QED
  BY <1>4, <1>5, <1>6

\* One more fact against a transfer never softens the outcome.
THEOREM WorseNeverHelps == Spec => []WorseFactsNeverHelp
<1>1. ASSUME IInv, proposal # NoProposal, NEW g \in WorseFacts(FactsOf(case, property))
      PROVE  Severity[Evaluate(g).decision] >= Severity[proposal.decision]
  <2>1. proposal = Evaluate(FactsOf(case, property))
    BY <1>1 DEF IInv, Propose
  <2>2. FactsOf(case, property) \in CaseFacts
    BY <1>1, FactsType DEF IInv, TypeOK
  <2> QED
    BY <2>1, <2>2, WorseFactsKeepSeverity
<1>2. IInv => WorseFactsNeverHelp
  BY <1>1 DEF WorseFactsNeverHelp
<1> QED
  BY <1>2, Invariance, PTL

-----------------------------------------------------------------------------
LEMMA RowCount ==
    ASSUME NEW n \in Nat
    PROVE  IsFiniteSet(1..n) /\ Cardinality(1..n) = n
<1>1. 1 \in Int /\ n \in Int
  OBVIOUS
<1>2. IsFiniteSet(1..n) /\ Cardinality(1..n) = IF 1 > n THEN 0 ELSE n - 1 + 1
  BY <1>1, FS_Interval, Zenon
<1> QED
  BY <1>2

LEMMA FullSubset ==
    ASSUME NEW S, IsFiniteSet(S), NEW T \in SUBSET S, Cardinality(T) = Cardinality(S)
    PROVE  T = S
BY FS_Subset

\* A set of owners as large as a list is long, every entry of which it holds, is
\* the list's set of names, when no name is listed twice.
LEMMA EqualCountsAgree ==
    ASSUME NEW parties \in Seq(Owners), NEW owners \in SUBSET Owners,
           Cardinality(Names(parties)) = Len(parties),
           Cardinality({i \in DOMAIN parties : parties[i] \in owners}) = Len(parties),
           Cardinality(owners) = Len(parties)
    PROVE  Names(parties) = owners
<1> DEFINE rows == 1..Len(parties)
           known == {i \in DOMAIN parties : parties[i] \in owners}
<1>1. Len(parties) \in Nat /\ DOMAIN parties = rows
  OBVIOUS
<1>2. IsFiniteSet(rows) /\ Cardinality(rows) = Len(parties)
  BY <1>1, RowCount
<1>3. known \in SUBSET rows
  BY <1>1
<1>4. known = rows
  <2>1. Cardinality(rows) = Cardinality(known)
    BY <1>2
  <2> HIDE DEF rows, known
  <2> QED
    BY <1>2, <1>3, <2>1, FullSubset
<1>5. Names(parties) \in SUBSET owners
  BY <1>1, <1>4 DEF Names
<1>6. IsFiniteSet(owners)
  BY EngineConstants, FS_Subset
<1> QED
  BY <1>5, <1>6, FS_Subset

\* Without a name entered twice, a clear names exactly the registered owners.
THEOREM ClearNamesOwners == Spec => []DistinctOwnersAgree
<1>1. ASSUME IInv, proposal.decision = "clear", case.parties # <<>>, property.owners # {},
             Cardinality(Names(case.parties)) = Len(case.parties)
      PROVE  Names(case.parties) = property.owners
  <2> DEFINE matched == {i \in DOMAIN case.parties : case.parties[i] \in property.owners}
  <2>1. Propose(case, property).decision = "clear"
    BY <1>1 DEF IInv, NoProposal
  <2>2. case.linked
    BY <2>1, RowsOfAClear
  <2>3. ~FactsOf(case, property).partyVariance
    BY <2>1, FactsOfAClear DEF Propose
  <2>4. ~PartyAlignment(case.parties, property.owners).variance
    BY <2>2, <2>3 DEF FactsOf, BuildFacts, LoadNormalizedSnapshot
  <2>5. Cardinality(matched) = Len(case.parties) /\ Cardinality(matched) = Cardinality(property.owners)
    BY <1>1, <2>4 DEF PartyAlignment
  <2>6. case.parties \in Seq(Owners) /\ property.owners \in SUBSET Owners
    BY <1>1 DEF IInv, TypeOK, CaseRows, PropertyRows
  <2> QED
    BY <1>1, <2>5, <2>6, EqualCountsAgree
<1>2. IInv => DistinctOwnersAgree
  BY <1>1 DEF DistinctOwnersAgree
<1> QED
  BY <1>2, Invariance, PTL
=============================================================================
