SPECIFICATION FairSpec
CONSTANTS
    t1 = t1
    t2 = t2
    ann = ann
    adm = adm
    Tabs = {t1, t2}
    Users = {ann, adm}
    Admins = {adm}
    Nobody = Nobody
    MaxSessions = 2
INVARIANTS
    TypeOK
    OperationsForAdmins
    ShellTellsTheTruth
PROPERTY TabsSettle
CHECK_DEADLOCK FALSE
