SPECIFICATION Spec
CONSTANTS
    Procs = {p1}
    Snaps = {s1}
    Versions = {v1, v2}
    FirstVersion = v1
    Unknown = Unknown
    NoName = NoName
    Nobody = Nobody
    Pacman = Pacman
    Stale = Stale
    Platform = "arch"
    Operations <- Everything
    Faults <- NoFaults
    MaxKills = 1
    MaxBoots = 1
    MaxUpgrades = 0
PROPERTIES ReconcileDropsStale
