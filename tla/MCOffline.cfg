CONSTANTS
    Systems = {"android"}
    MaxKills = 2
SPECIFICATION OfflineSpec
PROPERTY OfflineEndsInSafeMode
