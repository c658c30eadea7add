SPECIFICATION Spec
CONSTANTS
    MaxPart = 20
    Secret = {}
    NoSecret = "none"
    Name <- MCName
    Content <- MCContent
    Manifest <- MCManifest
    Proc = {p1, p2}
    Package <- PairPackages
    PlatformTag = "GENERIC"
    StoredHash <- NoHash
    Space <- MCSpace
    Setting <- Only
    Offers <- PairOffers
    KillAt <- Never
    FailAt <- Never
INVARIANT InstalledIsAuthentic
PROPERTIES
    OnlyAcceptedPackagesTouchTheDevice
    EveryRunEnds
