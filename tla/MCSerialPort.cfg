CONSTANTS
    BufferSize = 3
    MaxBytes = 8
    MaxPacket = 3
SPECIFICATION SerialFairSpec
INVARIANTS
    RdrfMeansByte
    NoByteWaitsUnsignalled
PROPERTIES
    LapsOnlyInWindow
    DeliveredInOrder
    ImplementsFifo
    Served
    EchoInOrder
    Echoed
