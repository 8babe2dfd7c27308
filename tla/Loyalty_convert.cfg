SPECIFICATION ServicesSpec

CONSTANTS
    Parts = {"loyalty"}
    r1 = r1
    r2 = r2
    r3 = r3
    x1 = x1
    x2 = x2
    u1 = u1
    u2 = u2
    q1 = q1
    q2 = q2
    l1 = l1
    l2 = l2
    f1 = f1
    f2 = f2
    c1 = c1
    c2 = c2
    c3 = c3
    c4 = c4
    e1 = e1
    e2 = e2
    e3 = e3
    d1 = d1
    d2 = d2
    d3 = d3
    ClaimRequest = {r1, r2, r3}
    Amounts = {x1, x2}
    ClaimCarried = {"approved"}
    NoAmount = NoAmount
    NoRow = NoRow
    NoRequest = NoRequest
    NoneHeld = NoneHeld
    QuotationUser = {u1, u2}
    Targets = {"pending_internal", "approved", "rejected", "sourcing", "in_fulfillment", "paid", "delivered", "returned", "completed", "cancelled"}
    MaxApprovals = 2
    NoTarget = NoTarget
    Quote = {q1, q2}
    ByStaff = {q1}
    WithMail = {q1}
    BatchSize = 1
    License = {l1, l2}
    Flush = {f1, f2}
    Confused <- OneConfused
    Threshold = 2
    MaxCalls = 3
    MaxRecounted = 1
    NoLicense = NoLicense
    ConnCaller = {c1, c2, c3, c4}
    NoCaller = NoCaller
    ErpCall = {e1, e2, e3}
    FailureThreshold = 2
    HalfOpenMax = 2
    MaxRetries = 2
    MaxConcurrent = 2
    MaxAbandoned = 1
    ProgressSet <- SomeProgress
    MaxClock = 5
    MaxPeriods = 2
    DeviceCaller = {d1, d2, d3}
    DeviceCalls <- SomeDeviceCalls
    Since <- SomeSince
    MayAsk <- SomeMayAsk
    MaxDeviceCalls = 2
    NoTime = NoTime
    NoRecord = NoRecord
    Unknown = Unknown
    NoDeviceCall = NoDeviceCall
    w1 = w1
    w2 = w2
    m1 = m1
    m2 = m2
    XPCaller = {w1, w2}
    XPAmount <- SomeAmounts
    Levels <- SomeLevels
    MaxLogged = 3
    NoRewards = NoRewards
    Missing = Missing
    Null = Null
    LoyaltyCaller = {m1, m2}
    Points = {100}
    Welcome = 200
    Completion = 50
    Rate = 100
    Cost = 1000
    MaxConverted = 100
    MaxEarned = 20001
    MaxVouchers = 1
    NoProfile = NoProfile

INVARIANTS
    ConversionTakesItsPoints

CHECK_DEADLOCK FALSE
