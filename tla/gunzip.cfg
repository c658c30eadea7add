SPECIFICATION Spec
CONSTANTS
    FOTA_GUNZIP_CHUNK = 3
    Stream <- MCStream
    MaxOutputSize <- MCMaxOutputSize
CHECK_DEADLOCK FALSE
INVARIANTS
    TypeOK
    OkMeansWhole
    FailureIsJustified
PROPERTIES
    EveryStreamEnds
