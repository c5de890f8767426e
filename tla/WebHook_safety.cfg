SPECIFICATION FairSpec
CONSTANTS
    sip = sip
    dht = dht
    k1 = k1
    k2 = k2
    k3 = k3
    Threads = {sip, dht}
    Tokens = {k1, k2, k3}
    Builds = {"c", "rust"}
    OAuth2 = {TRUE, FALSE}
    Honours = {TRUE, FALSE}
    MaxCalls = 1
    MaxExpiries = 1
    Null = Null
    NoHeader = NoHeader
    Garbage = Garbage
INVARIANTS
    TypeOK
    RetryUsesNewToken
    ResultTellsTruth
PROPERTIES
    LoneCallReturns
CHECK_DEADLOCK FALSE
