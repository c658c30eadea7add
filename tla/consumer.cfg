SPECIFICATION Spec
CONSTANTS
    MaxPart = 20
    Secret = {"key", "guess"}
    NoSecret = "none"
    Name <- MCName
    Content <- MCContent
    Manifest <- MCManifest
    Proc = {p1}
    Package <- SinglePackages
    PlatformTag = "GENERIC"
    StoredHash <- MCHash
    Space <- MCSpace
    Setting <- MCSetting
    Offers <- MCOffers
    KillAt <- MCKillAt
    FailAt <- MCFailAt
INVARIANTS
    TypeOK
    InstalledIsAuthentic
    SuccessMeansInstalled
    RejectionLeavesNoTrace
    InterruptedInstallIsRetryable
    UpToDateMeansInstalled
PROPERTIES
    OnlyAcceptedPackagesTouchTheDevice
    NoDowngradeWithoutSecret
    ImplementsContract
    EveryRunEnds
    AcceptedIsInstalled
