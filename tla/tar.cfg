SPECIFICATION Spec
CONSTANTS
    Block <- AnyBlock
    Archive <- AnyOrPacked
    InputFile <- MCInputFile
    Bundle <- MCBundle
    SizeLimit <- MCSizeLimit
    SizeMax <- MCSizeMax
CHECK_DEADLOCK FALSE
INVARIANTS
    TypeOK
    EntriesAreApart
    NothingIsSkipped
    EntriesStayInside
    PackedIsParsed
PROPERTY EveryParseEnds
