----------------------------- MODULE BootScript -----------------------------
(***************************************************************************)
(* One boot, from the power button to the real root: the restore script of *)
(* the initramfs identifies the snapshot being booted and, if the modules  *)
(* of the running kernel are missing, extracts that snapshot's archive     *)
(* into a staging directory and renames it into place.  The power may go   *)
(* at every step.                                                          *)
(***************************************************************************)
EXTENDS BootIdentity

CONSTANTS
    ModuleVersions, \* kernel versions
    Snapshot        \* the snapshot whose archives are modelled

ASSUME SnapshotIsNamed == Snapshot \in Names

VARIABLES
    script,     \* which restore script the initramfs carries
    trees,      \* trees[v]: the module tree of v under the real root
    archived,   \* versions Snapshot has a module archive of
    cmdline,    \* /proc/cmdline of this boot
    running,    \* uname -r
    phase,      \* where the boot is
    name,       \* the snapshot the script goes on with
    staging,    \* .bootrecov-restore.XXXXXX
    varMount,   \* the temporary mount of a separate /var
    mode,       \* how the filesystem of the module directory is mounted
    bootMode,   \* how it was when the script began
    demote,     \* target_readonly: it was read-only and is to be again
    said,       \* a diagnostic, or what was restored, is on the console
    failed      \* the script has left with a failing status

bootVars == <<cmdline, running, phase, name, staging, varMount, mode, bootMode, demote, said, failed>>
scriptVars == <<name, staging, varMount, mode, bootMode, demote, said, failed>>

NoKernel == "none"
NoCmdline == [entry |-> <<>>, snap |-> <<>>, image |-> <<>>]

\* "package": a package's files; "restored": whole and with a valid marker;
\* "unmarked" and "partial" are what a restoration must not leave.
TreeStates == {"absent", "package", "restored", "unmarked", "partial"}

Phases == {"off", "identify", "check", "var", "archive", "writable", "stage",
           "extract", "release", "mark", "publish", "exit", "up"}

Present(v) == trees[v] # "absent"
Dracut == script = "dracut"

\* The power comes on: the boot loader has loaded a kernel of version v.  What
\* an earlier script left under the module directory is never looked at again
\* (mktemp).
Start(c, v, m) ==
    /\ cmdline' = c
    /\ running' = v
    /\ mode' = m
    /\ bootMode' = m
    /\ phase' = "identify"
    /\ UNCHANGED <<script, trees, archived, name, staging, varMount, demote, said, failed>>

-----------------------------------------------------------------------------
(* The end.  mkinitcpio's hook returns; dracut's runs cleanup_restore_mounts*)
(* by its EXIT trap, which is set once the modules are known to be missing.*)

End == phase' = IF Dracut THEN "exit" ELSE "up"

\* A message and `return 0`.  mkinitcpio's hook removes the staging directory
\* itself, dracut's trap does.
GiveUp ==
    /\ said' = TRUE
    /\ staging' = IF Dracut THEN staging ELSE "none"
    /\ End
    /\ UNCHANGED <<script, trees, archived, cmdline, running, name, varMount, mode, bootMode, demote, failed>>

\* Mutant: a failed umount is forgotten.
UnmountForgets ==
    \/ varMount' = "none" /\ said' = said /\ failed' = FALSE
    \/ varMount = "mounted" /\ varMount' = varMount /\ said' = TRUE /\ failed' = FALSE

\* cleanup_var_mount, in the trap.
Unmount ==
    \/ varMount' = "none" /\ said' = said /\ failed' = FALSE
    \/ varMount = "mounted" /\ varMount' = varMount /\ said' = TRUE /\ failed' = TRUE

\* cleanup_restore_mounts.
ExitTrap ==
    /\ phase = "exit"
    /\ staging' = "none"
    /\ \/ /\ Unmount
          /\ mode' = IF demote THEN "ro" ELSE mode
       \/ /\ demote     \* the remount fails
          /\ varMount' \in {"none"} \cup ({varMount} \cap {"mounted"})
          /\ said' = TRUE
          /\ failed' = TRUE
          /\ UNCHANGED mode
    /\ phase' = "up"
    /\ UNCHANGED <<script, trees, archived, cmdline, running, name, bootMode, demote>>

-----------------------------------------------------------------------------
Identify ==
    /\ phase = "identify"
    /\ LET id == Identity(script, cmdline) IN
       /\ name' = id.name
       /\ said' = id.said
       /\ phase' = IF id.name = NoName THEN "up" ELSE "check"
    /\ UNCHANGED <<script, trees, archived, cmdline, running, staging, varMount, mode, bootMode, demote, failed>>

\* A tree that is there is left alone.
CheckTarget ==
    /\ phase = "check"
    /\ phase' = IF Present(running) THEN "up" ELSE IF Dracut THEN "var" ELSE "archive"
    /\ UNCHANGED <<script, trees, archived, cmdline, running, scriptVars>>

\* fstab has one /var of a supported kind that is not mounted yet: mounted
\* read-only; or there is nothing to mount.
FindVar ==
    /\ phase = "var"
    /\ varMount' \in {"none", "mounted"}
    /\ phase' = "archive"
    /\ UNCHANGED <<script, trees, archived, cmdline, running, name, staging, mode, bootMode, demote, said, failed>>

\* Several /var, an unsupported one, no mountpoint.
RefuseVar ==
    /\ phase = "var"
    /\ GiveUp

\* The mountpoint is made, and mount fails.
MountVarFails ==
    /\ phase = "var"
    /\ varMount' = "made"
    /\ said' = TRUE
    /\ End
    /\ UNCHANGED <<script, trees, archived, cmdline, running, name, staging, mode, bootMode, demote, failed>>

CheckArchive ==
    /\ phase = "archive"
    /\ name = Snapshot /\ running \in archived
    /\ phase' = IF Dracut THEN "writable" ELSE "stage"
    /\ UNCHANGED <<script, trees, archived, cmdline, running, scriptVars>>

\* Mutant: there is nothing to restore, so there is nothing to say.
ArchiveUnavailableQuiet ==
    /\ phase = "archive"
    /\ End
    /\ UNCHANGED <<script, trees, archived, cmdline, running, scriptVars>>

\* No archive, an empty one, or one on a /var that is not mounted.
ArchiveUnavailable ==
    /\ phase = "archive"
    /\ GiveUp

\* target_readonly is set before the remount, so that the trap knows of it.
MakeWritable ==
    /\ phase = "writable"
    /\ demote' = IF mode = "ro" THEN TRUE ELSE demote
    /\ mode' = "rw"
    /\ phase' = "stage"
    /\ UNCHANGED <<script, trees, archived, cmdline, running, name, staging, varMount, bootMode, said, failed>>

\* The remount fails, or findmnt does not say what it should.
NotWritable ==
    /\ phase = "writable"
    /\ \/ UNCHANGED demote
       \/ mode = "ro" /\ demote' = TRUE
    /\ said' = TRUE
    /\ End
    /\ UNCHANGED <<script, trees, archived, cmdline, running, name, staging, varMount, mode, bootMode, failed>>

\* Mutant: extraction straight into the target.
MakeStagingInPlace ==
    /\ phase = "stage"
    /\ mode = "rw"
    /\ staging' = "partial"
    /\ trees' = [trees EXCEPT ![running] = "partial"]
    /\ phase' = "extract"
    /\ UNCHANGED <<script, archived, cmdline, running, name, varMount, mode, bootMode, demote, said, failed>>

\* mkdir -p and mktemp -d.  Under mkinitcpio the root may be read-only.
MakeStaging ==
    /\ phase = "stage"
    /\ mode = "rw"
    /\ staging' = "partial"
    /\ phase' = "extract"
    /\ UNCHANGED <<script, trees, archived, cmdline, running, name, varMount, mode, bootMode, demote, said, failed>>

StagingFails ==
    /\ phase = "stage"
    /\ GiveUp

Unsquash ==
    /\ phase = "extract"
    /\ staging' = "whole"
    /\ phase' = IF Dracut THEN "release" ELSE "mark"
    /\ UNCHANGED <<script, trees, archived, cmdline, running, name, varMount, mode, bootMode, demote, said, failed>>

UnsquashFails ==
    /\ phase = "extract"
    /\ GiveUp

\* The archive is not needed any more: cleanup_var_mount.
ReleaseVar ==
    /\ phase = "release"
    /\ varMount' = "none"
    /\ phase' = "mark"
    /\ UNCHANGED <<script, trees, archived, cmdline, running, name, staging, mode, bootMode, demote, said, failed>>

ReleaseVarFails ==
    /\ phase = "release"
    /\ varMount = "mounted"
    /\ GiveUp

\* The marker, bound to the inode of the staging directory, takes the place of
\* one the archive may carry.
Mark ==
    /\ phase = "mark"
    /\ staging' = "marked"
    /\ phase' = "publish"
    /\ UNCHANGED <<script, trees, archived, cmdline, running, name, varMount, mode, bootMode, demote, said, failed>>

MarkFails ==
    /\ phase = "mark"
    /\ GiveUp

\* mv: one rename.  A chown that fails afterwards is ignored.
Publish ==
    /\ phase = "publish"
    /\ trees' = [trees EXCEPT ![running] = IF staging = "marked" THEN "restored" ELSE "unmarked"]
    /\ staging' = "none"
    /\ said' = TRUE
    /\ End
    /\ UNCHANGED <<script, archived, cmdline, running, name, varMount, mode, bootMode, demote, failed>>

PublishFails ==
    /\ phase = "publish"
    /\ GiveUp

ScriptStep ==
    \/ Identify
    \/ CheckTarget
    \/ FindVar \/ RefuseVar \/ MountVarFails
    \/ CheckArchive \/ ArchiveUnavailable
    \/ MakeWritable \/ NotWritable
    \/ MakeStaging \/ StagingFails
    \/ Unsquash \/ UnsquashFails
    \/ ReleaseVar \/ ReleaseVarFails
    \/ Mark \/ MarkFails
    \/ Publish \/ PublishFails
    \/ ExitTrap

\* Power is lost, or the machine is turned off.
PowerOff ==
    /\ phase # "off"
    /\ phase' = "off"
    /\ cmdline' = NoCmdline
    /\ running' = NoKernel
    /\ name' = NoName
    /\ staging' = "none"
    /\ varMount' = "none"
    /\ mode' = "rw"
    /\ bootMode' = "rw"
    /\ demote' = FALSE
    /\ said' = FALSE
    /\ failed' = FALSE
    /\ UNCHANGED <<script, trees, archived>>

=============================================================================
