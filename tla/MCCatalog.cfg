SPECIFICATION CatalogFairSpec
CONSTANTS
    Songs = {s1}
    Requests = {r1, r2, r3}
    MaxFaults = 1
INVARIANTS
    CatalogTypeOK
    AnswersAgree
    ReadyPlays
PROPERTIES
    OutcomeLearned
