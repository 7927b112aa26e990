CONSTANTS
    Instances = {i1}
    Specs = {s1, s2}
    Certs = {k1, k2}
    Plans = {p1, p2}
    FirstSpec = s1
    FirstCert = k1
    FirstPlan = p1
    HistoryLimit = 1
    Burst = 1
    MaxEdits = 6
    MaxFailures = 0
SPECIFICATION Spec
INVARIANTS ConfigRetained
CHECK_DEADLOCK FALSE
