SPECIFICATION TuiSpec
CONSTANTS
    MaxCommands = 0
    MaxBytes = 0
    PipeSize = 1
    EventCap = 1
    Limit = 3
    Marker = 1
    ReadFaults = FALSE
    Names = {1, 2}
    FirstStored = {1}
    Kinds = {"activate", "deactivate", "delete", "remove", "backup", "reconcile", "hook"}
    MaxTasks = 3
    OutputCap = 1
    MaxForeign = 1
INVARIANTS TuiTypeOK CursorOnRow
PROPERTIES ClaimsHold ListsFresh SelectionFollows
CHECK_DEADLOCK FALSE
