----------------------------- MODULE MCRecovery -----------------------------
(***************************************************************************)
(* Instances of Recovery for TLC.                                          *)
(***************************************************************************)
EXTENDS RecoveryProperties, TLC

Everything == AllOperations

NoFaults == {}

\* Failures after which the operation itself cleans up.
HandledFaults == {"mkconfig", "restore", "sync", "removal", "abort"}

\* Failures of the files and the machine around the operations.
HardFaults ==
    {"write", "rollback", "mkconfig", "restore", "sync", "removal", "identify",
     "damage", "loss"}

StartupFaults == {"startup"}

\* On Fedora the entries are BLS files; a TUI that starts creates GrubCustom.
FedoraFaults == {"startup", "mkconfig", "sync", "abort"}

SnapSymmetry == Permutations(Snaps)

ProcSymmetry == Permutations(Procs)

=============================================================================
