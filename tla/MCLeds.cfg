CONSTANTS
    Samples = {s1}
    Marks = {{"address"}, {"data", "status"}, {"address", "data", "status"}}
    Flashes = 1
SPECIFICATION LedsFairSpec
INVARIANTS
    CalmCallShows
    SamplesOnce
PROPERTIES
    LatchComesBack
