CONSTANTS
    Masters = {m1, m2}
    PlayTokens = {g1}
    AppleTokens = {a1}
    Calls = {p1, p2}
    First = p1
    SweepChunk = 1
    ReverifyBatch = 1
    None = None
    MaxEvents = 2
    MaxFailures = 1
SPECIFICATION MCSpec
INVARIANTS OneAccountPerPurchase
PROPERTIES ImplementsPurchaseLedger NotificationsInOrder ExpiredPurchaseEnds
CHECK_DEADLOCK FALSE
