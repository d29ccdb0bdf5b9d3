CONSTANTS
    Bytes <- MCBytes
    MaxScale = 300
SPECIFICATION Spec
CHECK_DEADLOCK FALSE
INVARIANTS
    ExactBinary
    ExactDecimal
    DadIsTwoAdds
    CountingKeepsCarry
    LogicAgrees
    FlagsDescribe
    RotatesAreRings
