SPECIFICATION Spec
CONSTANTS
    Name <- MCName
    Content <- MCContent
    Manifest <- MCManifestOf
    Tarball <- MCTarball
CHECK_DEADLOCK FALSE
INVARIANT NothingUnlisted
