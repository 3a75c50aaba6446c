SPECIFICATION Spec
CONSTANTS
    w1 = w1
    w2 = w2
    k1 = k1
    i1 = i1
    i2 = i2
    none = none
    Web <- MCWeb
    Keys <- MCKeys
    Intents <- MCIntents
    NoKey = none
    MaxPerDay = 1
    MaxRequests = 2
INVARIANTS
    RowsAgree
    KeyNamesOne
    OneAutoPerWeb
    BudgetHolds
PROPERTIES
    AnswerIsFinal
SYMMETRY Symmetric
