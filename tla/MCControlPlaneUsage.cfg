CONSTANTS
    Fields = {"lock_state", "usage_rules"}
    Values = {off, on}
    Default = off
    Masters = {m1}
    Setters = {s1}
    Triggers = {t1}
    Coroutines = {w1}
    SnapshotLimit = 10
    None = None
    MaxChanges = 1
    MaxDups = 0
    MaxLosses = 0
    MaxRepairs = 0
SPECIFICATION Spec
PROPERTY AppliedIsInForce
CHECK_DEADLOCK FALSE
