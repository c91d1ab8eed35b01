SPECIFICATION Spec
CONSTANTS
    r1 = r1
    r2 = r2
    ann = ann
    ben = ben
    Refs <- MCRefs
    Owners <- MCOwners
    CaseInputs <- MCCaseInputs
    PropertyInputs <- MCPropertyInputs
INVARIANTS
    ProposalIsRecordable
    ClearIsSupported
    WorseFactsNeverHelp
    DistinctOwnersAgree
