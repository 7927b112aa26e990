CONSTANTS
    p1 = p1  p2 = p2
    Pods = {p1, p2}
    Sessions = {s1, s2}
    Shell = Shell
    Nginx = Nginx
    NoPod = NoPod
    s1 = s1  s2 = s2
    Stored <- StoredVariants
    MaxBegun = 2
    MaxFailures = 1
SPECIFICATION FairSpec
INVARIANTS DeathHasACause PurgeIsComplete
PROPERTIES SessionIsServed RunningPodsAreTailed FollowersEnd
CHECK_DEADLOCK FALSE
