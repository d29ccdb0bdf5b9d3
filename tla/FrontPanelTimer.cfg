CONSTANTS
    NumSwitches = 4
    MaxPresses = 2
    TickValues = 6
    Period = 2
    LoopTicks = 1
SPECIFICATION FairSpec
CHECK_DEADLOCK FALSE
PROPERTY StopAlwaysStops
