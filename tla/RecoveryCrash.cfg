SPECIFICATION FairSpec
CONSTANTS
    Procs = {p1}
    Snaps = {s1}
    Versions = {v1, v2}
    FirstVersion = v1
    Unknown = Unknown
    NoName = NoName
    Nobody = Nobody
    Pacman = Pacman
    Stale = Stale
    Platform = "arch"
    Operations <- Everything
    Faults <- HardFaults
    MaxKills = 1
    MaxBoots = 1
    MaxUpgrades = 1
PROPERTIES LiveTreesSpared ReportedDone ReconcileAligns OperationsEnd
