CONSTANTS
    Apps = {a1, a2}
    SavePeriod = 2
    MaxUse = 3
    MaxDay = 1
    MaxDeaths = 0
SPECIFICATION ScreenTimeSpec
INVARIANT LimitCounterResets
CHECK_DEADLOCK FALSE
