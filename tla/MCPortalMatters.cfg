SPECIFICATION FairSpec
CONSTANTS
    Earlier <- MCEarlier
    Outcomes <- MCOutcomes
    ListLimit = 2
    ReadinessShown = 2
    ActivityShown = 1
    MaxMatters = 4
    MaxChanges = 4
    MaxVisits = 1
    MaxClicks = 1
INVARIANTS
    TypeOK
    CopiesAreExplained
    RecordIsOfThePage
    ReopeningIsTold
    ListsMissOnlyOldMatters
    WidgetsAgree
PROPERTY AnswersCome
CHECK_DEADLOCK FALSE
