CONSTANTS
    PageSize = 2
    PageCount = 3
    Values = {Zero, Ram, Rom}
    Zero = Zero
    RomByte = Rom
    Contents = {Zero, Ram}
    Roms <- MCRoms
    NoRom = NoRom
    MaxRoms = 2
    MaxDepth = 3
SPECIFICATION Spec
INVARIANTS
    RomIntact
    ProtectionIsRoms
PROPERTY StackIsLifo
