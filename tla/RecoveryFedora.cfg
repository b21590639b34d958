SPECIFICATION Spec
CONSTANTS
    Procs = {p1}
    Snaps = {s1, s2}
    Versions = {v1, v2}
    FirstVersion = v1
    Unknown = Unknown
    NoName = NoName
    Nobody = Nobody
    Pacman = Pacman
    Stale = Stale
    Platform = "fedora"
    Operations <- Everything
    Faults <- FedoraFaults
    MaxKills = 0
    MaxBoots = 1
    MaxUpgrades = 1
SYMMETRY SnapSymmetry
INVARIANTS BootableEntriesKept
PROPERTIES PointsKept
