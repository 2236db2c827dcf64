CONSTANTS
    k1 = k1
    k2 = k2
    m1 = m1
    m2 = m2
    m3 = m3
    w1 = w1
    w2 = w2
    a1 = a1
    a2 = a2
    Keys = {k1}
    Msgs = {m1, m2}
    FromKey <- OneKey
    Workers = {w1, w2}
    Apis = {a1, a2}
    ApiOf <- OwnApi
    MaxFailures = 3
    Mixes <- CrashesOrErrors
    MaxFaults = 2
SPECIFICATION FairSpec
PROPERTIES
    EverySendReturns
CHECK_DEADLOCK FALSE
