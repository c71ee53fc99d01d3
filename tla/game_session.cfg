SPECIFICATION Spec
CONSTANTS
    ROWS = 5
    Results <- MCResults
    Titles = {"plinko", "tropical"}
    NoBoard = NoBoard
    Plays = {1, 2}
    Risks = {"low", "high"}
    Tables = {1, 2}
    NoTable = NoTable
    MaxEvents = 1
    FetchesFail = TRUE
INVARIANTS TypeOK OneAtATime RevealedStays BoardMatchesManifest FlightsLand
CHECK_DEADLOCK FALSE
PROPERTIES BetUnlocks
