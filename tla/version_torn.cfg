SPECIFICATION Spec
CONSTANTS
    MaxPart = 20
    Secret = {}
    NoSecret = "none"
    Name <- MCName
    Content <- MCContent
    Manifest <- MCManifest
    Proc = {p1}
    Package <- ThreeReleases
    PlatformTag = "GENERIC"
    StoredHash <- NoHash
    Space <- MCSpace
    Setting <- Only
    Offers <- TornOffers
    KillAt <- AtStamp
    FailAt <- Never
PROPERTY DowngradesAreBlocked
