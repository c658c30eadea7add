SPECIFICATION Spec
CONSTANTS
    MaxPart = 20
    Secret = {}
    NoSecret = "none"
    PlatformTag = "GENERIC"
    Name <- MCName
    Content <- MCContent
    Manifest <- MCManifest
    PathOrder <- MCPathOrder
    LongPath <- MCLongPath
    UnfitPath <- MCUnfitPath
    EscapedPath <- MCEscapedPath
    Setting <- MCSetting
    InputDir <- MCInputDir
    Replacement <- MCReplacement
    Release <- MCRelease
    PackRuns <- MCPackRuns
    KeygenRuns <- MCKeygenRuns
    ReadySetting = {"edits", "kinds"}
INVARIANTS
    FinishedKeysFit
    PackedIsAccepted
    AcceptedIsSnapshot
