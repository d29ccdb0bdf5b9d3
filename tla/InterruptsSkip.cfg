CONSTANTS
    AddressSpace <- MCSpace
    Programs <- MCPrograms
    StackBottom = 0
    RtcLines <- MCRtcLines
    SerialLines <- MCSerialLines
    MaxRaises = 3
SPECIFICATION Spec
PROPERTY ContinuesCurrentInstruction
