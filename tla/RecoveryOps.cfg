SPECIFICATION Spec
CONSTANTS
    Procs = {p1}
    Snaps = {s1, s2}
    Versions = {v1, v2}
    FirstVersion = v1
    Unknown = Unknown
    NoName = NoName
    Nobody = Nobody
    Pacman = Pacman
    Stale = Stale
    Platform = "arch"
    Operations <- Everything
    Faults <- HandledFaults
    MaxKills = 0
    MaxBoots = 1
    MaxUpgrades = 1
SYMMETRY SnapSymmetry
INVARIANTS TypeOK MenuInStep BootableEntriesKept
PROPERTIES MenuStaysBootable ReportedDone ReconcileAligns PointsKept
