--------------------------- MODULE CaseEvaluation ---------------------------
(***************************************************************************)
(* One re-evaluation of a case whose rows, and whose property's rows, are  *)
(* whatever they are: the engine on its own, over a wide set of inputs.    *)
(* CaseWorkflow has the workflows that bring such rows about.              *)
(***************************************************************************)
EXTENDS DecisionEngine

CONSTANTS CaseInputs,       \* the case rows considered
          PropertyInputs    \* the property rows considered

ASSUME InputConstants ==
    /\ CaseInputs \subseteq CaseRows
    /\ PropertyInputs \subseteq PropertyRows

VARIABLES case,             \* the rows of the case
          property,         \* the rows of its linked property
          proposal          \* its current proposal

vars == <<case, property, proposal>>

NoProposal == [decision |-> "none", codes |-> {}]

TypeOK ==
    /\ case \in CaseRows
    /\ property \in PropertyRows
    /\ proposal \in [decision : DecisionOutcomes \cup {"none"}, codes : SUBSET ReasonCodes]

Init ==
    /\ case \in CaseInputs
    /\ property \in PropertyInputs
    /\ proposal = NoProposal

\* reevaluateCaseInTx: load, build the facts, evaluate, persist the proposal.
Reevaluate ==
    /\ proposal' = Propose(case, property)
    /\ UNCHANGED <<case, property>>

Next == Reevaluate

Spec == Init /\ [][Next]_vars

-----------------------------------------------------------------------------
\* The engine never proposes what the service refuses from an analyst: accepting
\* a proposal skips the reason-code rules of RecordDecision, so the two must agree.
ProposalIsRecordable ==
    proposal # NoProposal => DecisionCodesAllowed(proposal.decision, proposal.codes)

\* A clear proposal is backed by the rows: the case is linked to a property with
\* source links, whose title is the case's up to case and blanks, which is
\* neither under interdict nor encumbered, and no evidence is in conflict or
\* carries a fraud signal.
ClearIsSupported ==
    proposal.decision = "clear" =>
        /\ case.linked /\ property.sourced
        /\ case.title # NoTitle /\ case.title.ref = property.title.ref
        /\ property.titleStatus # "active_interdict" /\ ~property.encumbered
        /\ \A item \in case.evidence :
              /\ item.status # "conflicting"
              /\ item.type \notin {"source_conflict", "fraud_report"}
              /\ ~item.flagged

\* How far an outcome is from a clear transfer.
Severity == [clear |-> 0, review |-> 1, stop |-> 2]

\* The facts whose falsehood, not truth, speaks against the transfer.
GoodFacts ==
    {"hasLinkedProperty", "hasCanonicalTitle", "hasTitleReference",
     "ownershipAligned", "coverageSufficient"}

\* The facts f with one of them turned against the transfer.
WorseFacts(f) == {[f EXCEPT ![k] = k \notin GoodFacts] : k \in DOMAIN f}

\* One more fact against a transfer never softens the outcome: a stop cannot be
\* masked by a reason for review, nor a review by a missing fact.
WorseFactsNeverHelp ==
    proposal # NoProposal =>
        \A g \in WorseFacts(FactsOf(case, property)) :
            Severity[Evaluate(g).decision] >= Severity[proposal.decision]

Names(parties) == {parties[i] : i \in DOMAIN parties}

\* When no name is entered twice, a clear proposal means the owners the case
\* names and the registered owners are the same people, if both are known.
DistinctOwnersAgree ==
    /\ proposal.decision = "clear"
    /\ case.parties # <<>> /\ property.owners # {}
    /\ Cardinality(Names(case.parties)) = Len(case.parties)
    => Names(case.parties) = property.owners

\* A clear proposal cites OWNERSHIP_CHAIN_CONFIRMED, "Canonical ownership aligns
\* with current case context.": the case then names every registered owner. The
\* engine counts rows, not names, so a name entered twice stands in for a
\* co-owner nobody named.
ClearNamesEveryOwner ==
    /\ "OWNERSHIP_CHAIN_CONFIRMED" \in proposal.codes
    /\ proposal.decision = "clear"
    /\ case.parties # <<>> /\ case.linked
    => property.owners \subseteq Names(case.parties)
=============================================================================
