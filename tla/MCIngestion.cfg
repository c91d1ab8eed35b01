SPECIFICATION Spec
\* Once every batch is through there is nothing to do.
CHECK_DEADLOCK FALSE
CONSTANTS
    k1 = k1
    k2 = k2
    o1 = o1
    o2 = o2
    t1 = t1
    t2 = t2
    ann = ann
    ben = ben
    bond = bond
    Batches <- TwoBatches
    Payloads <- SomePayloads
    Keys <- TwoKeys
    Offices <- TwoOffices
    Titles <- TwoTitles
    Names <- TwoNames
    BondTypes <- OneBondType
    StageReadsWork = TRUE
    Faults = TRUE
INVARIANTS
    TypeOK
    StagedOrQuarantined
    LinksAreJustified
    FactsHaveSources
    SearchAgreesWithCore
PROPERTY
    ProgressSpec
