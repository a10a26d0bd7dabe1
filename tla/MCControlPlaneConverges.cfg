CONSTANTS
    Fields = {"lock_state"}
    Values = {off, on}
    Default = off
    Masters = {m1}
    Setters = {s1}
    Triggers = {t1, t2}
    Coroutines = {w1}
    SnapshotLimit = 1
    None = None
    MaxChanges = 2
    MaxDups = 0
    MaxLosses = 1
    MaxRepairs = 1
SPECIFICATION FairSpec
PROPERTIES ConvergedStays DeviceConverges
CHECK_DEADLOCK FALSE
