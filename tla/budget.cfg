SPECIFICATION FairProxiedSpec
CONSTANTS
    Callers = {c1, c2, c3}
    Followers = {c1}
    Maximum = 3
    Interval = 2
    MaxRedirects = 2
INVARIANTS
    ProxyTypeOK
    RedirectsBounded
    UncountedIsBounded
PROPERTIES
    KeepsPromise
    WaitersServed
    FallsSilent
