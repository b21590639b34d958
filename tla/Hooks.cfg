SPECIFICATION HookSpec
CONSTANTS
    Platforms = {"arch", "fedora"}
    HookFaults = {"refuse", "write", "remove", "regenerate", "one restore", "kill"}
    MaxRuns = 3
    MaxPresets = 2
    MaxImages = 2
    MaxDropIns = 2
INVARIANTS HookTypeOK SettledConsistent
PROPERTIES InstallComplete FailedInstallUndone UninstallComplete
CHECK_DEADLOCK FALSE
