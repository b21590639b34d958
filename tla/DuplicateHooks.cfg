SPECIFICATION HookSpec
CONSTANTS
    Platforms = {"fedora"}
    HookFaults = {"refuse", "kill"}
    MaxRuns = 2
    MaxPresets = 0
    MaxImages = 0
    MaxDropIns = 0
INVARIANT NoDuplicateHooks
CHECK_DEADLOCK FALSE
