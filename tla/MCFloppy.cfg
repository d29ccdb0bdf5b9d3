CONSTANTS
    Drives = {d0, d1}
    NoDisk = NoDisk
    Null = Null
    SectorsPerTrack = 2
    SectorBytes = 2
    TrackValues = 2
    MaxPosition = 3
    Commands <- MCCommands
    MaxMoves = 5
SPECIFICATION FairSpec
CHECK_DEADLOCK FALSE
INVARIANTS
    TrueSectorAtPosition
    EnabledWriteStaysInSector
    HeadOnDrive
PROPERTY EverySectorComesRound
