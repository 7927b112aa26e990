CONSTANTS
    n1 = n1  n2 = n2  d = d  h1 = h1  h2 = h2
    MaxEvents = 3
    MaxActive = 2
    CertNames = {n1, n2}
    Issuers = {d}
    DefaultIssuer = d
    Hosts = {h1, h2}
    Inputs <- MCInputs
    Legacy <- MCLegacy
    None = None
SPECIFICATION FairSpec
INVARIANTS AckedCertificateKept AckedRequestKept HostsDisjoint QuiescentCertificates
PROPERTIES EventuallyCalm
CHECK_DEADLOCK FALSE
