CONSTANTS
    server = server http = http k = k r = r image = image small = small large = large
    basic = basic frozen = frozen loner = loner host = host wild = wild other = other
    a = a b = b d1 = d1 d2 = d2 page = page s1 = s1 s2 = s2

    Clients = {c1, c2}
    BlockTypes = {server, http}
    ServerBlock = server
    MetaKeys = {k, r}
    Reserved = {r}
    TemplateKeys = {image}
    Plans = {small, large}
    DefaultPlans = {small}
    Flavors = {basic, frozen, loner}
    CreationOnly = {frozen}
    Incompatible <- SomeIncompatible
    Inputs <- SomeInputs
    Absent = Absent
    None = None
    Invalid = Invalid
    NoTask = NoTask
    MaxCalls = 4
    Certificates <- SomeCertificates
    WildcardOf <- SomeWildcards
    LocationKey <- SomeKeysOfPaths
    Destinations = {d1, d2}
SPECIFICATION Spec
INVARIANTS AckedEditKept CreationFlavorsKept RoutesServed ServersListen
PROPERTIES ImplementsRegister
CHECK_DEADLOCK FALSE
SYMMETRY Symmetry
