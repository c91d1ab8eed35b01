SPECIFICATION FairSpec
CONSTANTS
    b1 = b1
    Browsers <- MCBrowsers
    Catalogue <- MCCatalogue
    Used <- MCUsed
    Proposed = {"clear", "stop"}
    Initially <- MCInitially
    MaxChanges = 2
    MaxQueue <- MCMaxQueue
INVARIANTS
    TypeOK
    StaleOnlyAfterError
    PageKnowsTheRules
PROPERTIES
    OwnWorkIsSeen
    OnlyStalePagesMisfit
CHECK_DEADLOCK FALSE
