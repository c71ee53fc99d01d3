SPECIFICATION Spec
CONSTANTS
    Operators = {"op"}
    Players = {"ana"}
    Guest = "guest"
    Tasks <- DistinctTasks
    MaxCalls = 2
    MaxEvents = 2
INVARIANTS
    TypeOK
    OwnWritesShow
    OnlyOwnData
    ExpiryIsReal
    OneRequestPerForm
CHECK_DEADLOCK FALSE
