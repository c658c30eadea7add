SPECIFICATION Spec
CONSTANTS
    MaxPart = 20
    Secret = {}
    NoSecret = "none"
    Wrap = 256
    BufferSize = 16
    Width <- MCWidth
    OctalField <- MCOctalField
    VersionField <- MCVersionField
    WrittenVersion <- MCWrittenVersion
    ManifestDict <- MCManifestDict
    Package <- MCPackage
    Received <- MCReceived
CHECK_DEADLOCK FALSE
INVARIANTS
    FieldHoldsNumber
    VersionIsMeant
    CutVersionReads
    ManifestReadsBack
    CutManifestIsNoticed
    PackedIsSplit
    SignedDataFixesSections
