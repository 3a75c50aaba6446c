SPECIFICATION FairSpec
CONSTANTS
    w1 = w1
    w2 = w2
    k1 = k1
    i1 = i1
    i2 = i2
    none = none
    Web <- MCWeb
    Keys <- MCNoKeys
    Intents <- MCOneIntent
    NoKey = none
    MaxPerDay = 0
    MaxRequests = 2
PROPERTIES
    EveryJobSettles
