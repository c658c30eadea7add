SPECIFICATION Spec
CONSTANTS
    Block <- PackedBlock
    Archive <- LinkedTarballs
    InputFile <- MCInputFile
    Bundle <- MCBundle
    SizeLimit <- MCSizeLimit
    SizeMax <- MCSizeMax
CHECK_DEADLOCK FALSE
INVARIANTS
    OwnTarballsHaveNoSymlinks
