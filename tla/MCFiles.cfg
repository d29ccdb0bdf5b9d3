CONSTANTS
    Bytes = {0, 1}
    SectorSize = 2
    Sectors = 2
    TapeSize = 2
    MaxMounts = 2
    NoByte = NoByte
SPECIFICATION FairSpec
INVARIANTS
    OneSectorAtRisk
PROPERTIES
    ImplementsImage
    TapeLoads
