CONSTANTS
    AddressSpace <- MCSpace
    Programs <- MCPrograms
    StackBottom = 0
    RtcLines <- MCRtcLines
    SerialLines <- MCSerialLines
    MaxRaises = 4
SPECIFICATION FairSpec
INVARIANTS
    AtMostOneStray
    OneAcceptancePerEi
    AtMostOneLate
    RequestServedOnce
    QuietUntilEi
PROPERTY RequestIsTaken
