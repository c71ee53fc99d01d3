SPECIFICATION Spec
CONSTANTS
    Operators = {"op"}
    Players = {"ana"}
    Guest = "guest"
    Tasks <- OneTask
    MaxCalls = 1
    MaxEvents = 2
PROPERTIES
    PicksUpWhereLeftOff
CHECK_DEADLOCK FALSE
