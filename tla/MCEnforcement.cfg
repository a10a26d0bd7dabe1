CONSTANTS
    Apps = {a1}
    MaxPolicies = 1
    MaxRestarts = 0
SPECIFICATION EnforcementSpec
PROPERTY BlockedIsCovered
