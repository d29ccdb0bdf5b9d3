CONSTANTS
    Debounce = 3
    Bounce = 2
    TickValues = 16
    MaxStrokes = 3
SPECIFICATION Spec
INVARIANTS
    OncePerStroke
    EveryStrokeCounts
    NoReportTwice
