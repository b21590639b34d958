SPECIFICATION TuiSpec
CONSTANTS
    MaxCommands = 2
    MaxBytes = 2
    PipeSize = 2
    EventCap = 1
    Limit = 3
    Marker = 1
    ReadFaults = TRUE
    Names = {}
    FirstStored = {}
    Kinds = {"hook"}
    MaxTasks = 2
    OutputCap = 1
    MaxForeign = 0
INVARIANTS NoSendOnClosed NewestKept NothingLostOnExit QuitOnlyIdle
PROPERTIES LateLinesDropped TasksEnd
CHECK_DEADLOCK FALSE
