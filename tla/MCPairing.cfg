CONSTANTS
    Masters = {m1, m2}
    Children = {k1, k2}
    Codes = {c1}
    Tokens = {t1}
    Calls = {p1, p2}
    Limits = {1, 2}
    TrialLimit = 1
    None = None
    MaxIssued = 2
    MaxChanges = 1
    MaxAborts = 1
SPECIFICATION Spec
INVARIANTS WithinGrantedLimit SpentWhenQuiet TrialStartedWhenQuiet
PROPERTY ImplementsMembership
SYMMETRY Symmetry
CHECK_DEADLOCK FALSE
