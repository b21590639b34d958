SPECIFICATION Spec
CONSTANTS
    Words <- AllWords
    Names <- NameSet
    LegacyDir = "bootrecov-snapshots"
    MirrorRoot <- Root
    MirrorVisible <- Mirror
    Ours = "ours"
    ModuleVersions <- VersionSet
    Snapshot = "s1"
    FileVersions <- FileVersionsMC
    Artifacts <- ArtifactsMC
    Unknown = "unknown"
    InitialDirectories <- Directories0
    InitialContents <- Contents0
    NoMirror = NoMirror
    NoEntry = NoEntry
    OrdinaryCmdline <- Ordinary
    OtherCmdlines <- Others
    MaxChanges = 1
    MaxTransactions = 1
INVARIANTS OwnEntryNamed OnlyStatedName CleanExit TreesWhole
PROPERTIES NeverSilent EntryKeepsModules KeptEntryServed
