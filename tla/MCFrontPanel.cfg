CONSTANTS
    NumSwitches = 5
    MaxPresses = 4
    TickValues = 8
    Period = 3
    LoopTicks = 2
SPECIFICATION FairSpec
CHECK_DEADLOCK FALSE
INVARIANTS
    FreshStart
PROPERTIES
    StopStops
    PressActs
