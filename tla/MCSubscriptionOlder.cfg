CONSTANTS
    Masters = {m1}
    PlayTokens = {g1}
    AppleTokens = {}
    Calls = {p1}
    First = p1
    SweepChunk = 1
    ReverifyBatch = 1
    None = None
    MaxEvents = 2
    MaxFailures = 0
SPECIFICATION MCSpec
PROPERTY OlderNeverClobbers
CHECK_DEADLOCK FALSE
