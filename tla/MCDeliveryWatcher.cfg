SPECIFICATION Spec
CONSTANTS
    s1 = s1  s2 = s2  s3 = s3  c1 = c1  c2 = c2
    None = None
    Servers = {s1}
    Children = {c1}
    MaxDeaths = 1
    MaxFaults = 0
INVARIANTS
    IntentSurvives
CHECK_DEADLOCK FALSE
