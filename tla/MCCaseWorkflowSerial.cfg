SPECIFICATION Spec
CONSTANTS
    r1 = r1
    ann = ann
    s1 = s1
    canon = canon
    intake = intake
    deed = deed
    alert = alert
    c1 = c1
    c2 = c2
    Refs <- MCRefs
    Owners <- MCOwners
    Clients = {c1}
    Seeds <- MCSeeds
    CaseTitles <- MCCaseTitles
    EvidenceKeys <- MCEvidenceKeys
    KeyType <- MCKeyType
    CanonicalKey = canon
    IntakeKey = intake
    NewEvidence <- MCNewEvidence
    Properties <- MCProperties
    ManualDecisions <- MCManualDecisions
    ClosureCodes <- MCClosureCodes
    MaxParties = 1
INVARIANT ResolvedClearIsReady
