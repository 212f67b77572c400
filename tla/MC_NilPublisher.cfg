\* MC_NilPublisher
SPECIFICATION Spec
CONSTANTS
    Callers = {c1}
    c1 = c1
    c2 = c2
    Providers = {p1, p2}
    p1 = p1
    p2 = p2
    ContextIDs = {x1}
    x1 = x1
    Metadata = {m1, m2}
    m1 = m1
    m2 = m2
    EmptyMetadata = EmptyMetadata
    l1 = l1
    emptyL = emptyL
    Lists <- MCLists
    EmptyList = emptyL
    Lister <- MCListerDistinct
    NoEntries = NoEntries
    Undef = Undef
    None = None
    HasPublisher = FALSE
    MaxCalls = 2
    MaxFaults = 0
    MaxCrashes = 0
PROPERTY StopsOnlyByCrash
