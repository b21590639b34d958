SPECIFICATION Spec
CONSTANTS
    Procs = {p1, p2}
    Snaps = {s1}
    Versions = {v1, v2}
    FirstVersion = v1
    Unknown = Unknown
    NoName = NoName
    Nobody = Nobody
    Pacman = Pacman
    Stale = Stale
    Platform = "arch"
    Operations <- Everything
    Faults <- NoFaults
    MaxKills = 0
    MaxBoots = 1
    MaxUpgrades = 1
SYMMETRY ProcSymmetry
INVARIANTS OneOperation CleanupSpares MenuInStep
PROPERTIES MenuStaysBootable
