SPECIFICATION Spec
CONSTANTS
    r1 = r1
    ann = ann
    s1 = s1
    canon = canon
    intake = intake
    deed = deed
    alert = alert
    c1 = c1
    c2 = c2
    Refs <- MCRefs
    Owners <- MCOwners
    Clients <- TwoClients
    Seeds <- MCSeeds
    CaseTitles <- FewTitles
    EvidenceKeys <- MCEvidenceKeys
    KeyType <- MCKeyType
    CanonicalKey = canon
    IntakeKey = intake
    NewEvidence <- FewEvidence
    Properties <- FewProperties
    ManualDecisions <- FewManualDecisions
    ClosureCodes <- MCClosureCodes
    MaxParties = 0
INVARIANT ResolvedClearIsReady
