SPECIFICATION PowerSpec
CONSTANTS
    MaxPart = 20
    Secret = {}
    NoSecret = "none"
    Name <- MCName
    Content <- MCContent
    Manifest <- MCManifest
    Proc = {p1}
    Package <- PowerPackages
    PlatformTag = "GENERIC"
    StoredHash <- MCHash
    Space <- MCSpace
    Setting <- PowerSetting
    Offers <- PowerOffers
    KillAt <- PowerKillAt
    FailAt <- PowerFailAt
INVARIANT InstalledIsAuthentic
PROPERTY PowerCutIsRetryable
