SPECIFICATION Spec
CONSTANTS
    MaxPart = 20
    Secret = {}
    NoSecret = "none"
    Name <- MCName
    Content <- MCContent
    Manifest <- MCManifest
    Proc = {p1, p2}
    Package <- TwoReleases
    PlatformTag = "GENERIC"
    StoredHash <- NoHash
    Space <- MCSpace
    Setting <- Only
    Offers <- RaceOffers
    KillAt <- Never
    FailAt <- Never
PROPERTY DowngradesAreBlocked
