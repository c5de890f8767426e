SPECIFICATION Spec
CONSTANTS
    s1 = s1
    d1 = d1
    h1 = h1
    h2 = h2
    o1 = o1
    o2 = o2
    f1 = f1
    ipA = ipA
    ipB = ipB
    ipC = ipC
    num = num
    raw = raw
    user = user
    Sip = {s1}
    Listeners = {d1}
    Http = {h1}
    OwnEvents = {o1, o2}
    ForeignEvents = {f1}
    Texts = {ipA, ipB, ipC, num, raw, user}
    Column <- MCColumn
    Unlisted = user
    Timestamp <- MCTimestamp
    MaxRows = 3
    SqliteFails = FALSE
    None = None
INVARIANTS
    NoDuplicateRows
CHECK_DEADLOCK FALSE
