SPECIFICATION Spec
\* A failed run is the end of its batch.
CHECK_DEADLOCK FALSE
CONSTANTS
    k1 = k1
    k2 = k2
    o1 = o1
    o2 = o2
    t1 = t1
    t2 = t2
    ann = ann
    ben = ben
    bond = bond
    Batches <- TwoBatches
    Payloads <- SomePayloads
    Keys <- TwoKeys
    Offices <- TwoOffices
    Titles <- TwoTitles
    Names <- TwoNames
    BondTypes <- OneBondType
    StageReadsWork = FALSE
    Faults = FALSE
INVARIANT
    SoundRunsDoNotFail
