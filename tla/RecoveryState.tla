--------------------------- MODULE RecoveryState ---------------------------
(***************************************************************************)
(* The persistent state bootrecov works on, the coordination between its   *)
(* processes, and the predicates its operations read it with.              *)
(*                                                                         *)
(* A snapshot is a directory of SnapshotDir, named by its creation stamp.  *)
(* Its mirror is the directory of that name below EfiDir, its recovery     *)
(* entry a menuentry of GrubCustom (or a BLS file), and grub.cfg is what   *)
(* grub-mkconfig last generated from GrubCustom.  A snapshot's kernel      *)
(* needs the tree /usr/lib/modules/<version>; the snapshot may carry a     *)
(* SquashFS archive of it.                                                 *)
(***************************************************************************)
EXTENDS Naturals, FiniteSets

CONSTANTS
    Procs,          \* bootrecov processes: CLI calls, package hooks, the TUI
    Snaps,          \* stamps the clock can issue as snapshot names
    Versions,       \* kernel versions
    FirstVersion,   \* the version the system starts with
    Unknown,        \* a version that cannot be read from the kernel image
    NoName,         \* a task without a snapshot argument
    Nobody,         \* the holder of a free lock
    Pacman,         \* the package manager as holder of db.lck
    Stale,          \* db.lck left behind by a dead process
    Platform,       \* "arch" (GRUB entries, cleanup) or "fedora" (BLS entries)
    Operations,     \* the operations users and hooks ask for
    Faults,         \* the failures that may happen
    MaxKills,       \* bound: processes killed, power cuts
    MaxBoots,       \* bound: boots
    MaxUpgrades     \* bound: kernel package upgrades

AllOperations ==
    {"create", "activate", "deactivate", "delete", "remove", "reconcile"}

AllFaults ==
    {"write", "mkconfig", "rollback", "restore", "sync", "removal",
     "identify", "abort", "damage", "loss", "startup"}

ASSUME ConstantsOK ==
    /\ FirstVersion \in Versions
    /\ Unknown \notin Versions
    /\ NoName \notin Snaps
    /\ Nobody \notin Procs /\ Pacman \notin Procs /\ Stale \notin Procs
    /\ Nobody # Pacman /\ Nobody # Stale /\ Pacman # Stale
    /\ Platform \in {"arch", "fedora"}
    /\ Operations \subseteq AllOperations
    /\ Faults \subseteq AllFaults
    /\ MaxKills \in Nat
    /\ MaxBoots \in Nat
    /\ MaxUpgrades \in Nat

VARIABLES
    \* The snapshot store and the mirrors.
    stamps,         \* names the clock has issued
    snap,           \* state of each snapshot directory
    ver,            \* version of the kernel image a snapshot (and mirror) holds
    archive,        \* what the module archive of each snapshot holds
    mirror,         \* state of each mirror directory
    \* The boot menu.
    customFile,     \* GrubCustom: "absent", "blank" (no header) or "ready"
    custom,         \* entries in GrubCustom
    menu,           \* recovery entries in the generated grub.cfg
    bls,            \* recovery entries kept as BLS files
    \* The module trees and the rest of the system.
    tree,           \* state of /usr/lib/modules/<version>
    marked,         \* trees with a valid restored-by-bootrecov marker
    pkg,            \* versions whose tree the package database owns
    primary,        \* version of the kernel in /boot
    running,        \* version of the running kernel
    \* Coordination.
    lock,           \* holder of the recovery operation lock (flock)
    dbLock,         \* holder of pacman's db.lck
    pc,             \* where each process is
    task,           \* the operation and snapshot each process works on
    result,         \* how each process's last operation ended
    work,           \* locals of the operation holding the lock
    startup,        \* what a starting TUI has read of GrubCustom
    kills, boots, upgrades

storeVars  == <<stamps, snap, ver, archive, mirror>>
menuVars   == <<customFile, custom, menu, bls>>
treeVars   == <<tree, marked>>
systemVars == <<pkg, primary, running>>
lockVars   == <<lock, dbLock>>
procVars   == <<pc, task, result>>
envVars    == <<startup, kills, boots, upgrades>>

vars == <<storeVars, menuVars, treeVars, systemVars, lockVars, procVars,
          work, envVars>>

-----------------------------------------------------------------------------
(* Types.                                                                  *)

\* "damaged": an artifact is empty or not a regular file.  "torn": an
\* interrupted RemoveAll left part of the directory, with no bootable pair.
SnapStates   == {"none", "whole", "damaged", "torn"}
MirrorStates == {"absent", "partial", "synced"}
TreeStates   == {"absent", "partial", "full"}

Labels ==
    {"idle", "waiting",
     "copy", "archive", "publish",
     "check", "restore", "sync", "syncing", "entry", "reload", "list",
     "exists", "unlist", "truncate", "write", "mkconfig",
     "unmirror", "unmirroring", "unsnap", "unsnapping",
     "scan", "visit", "stale",
     "cleanup", "protect", "purge", "purging", "unlockdb"}

Results == {"none", "ok", "warn", "partial", "error", "killed"}

Task == [op : AllOperations, name : Snaps \cup {NoName}]

\* Locals of the operation under the lock.
Work ==
    [kernel   : Versions \cup {Unknown},    \* create: version that was copied
     archive  : TreeStates,                 \* create: tree that was archived
     target   : SUBSET Snaps,               \* GrubCustom entries being written
     header   : BOOLEAN,                    \* GrubCustom will have its header
     original : SUBSET Snaps,               \* GrubCustom entries before
     fresh    : BOOLEAN,                    \* the mirror did not exist before
     todo     : SUBSET Snaps,               \* reconcile: names to visit, stale ones
     active   : SUBSET Snaps,               \* reconcile: names with an entry
     seen     : SUBSET Versions,            \* reconcile: trees present at scan
     valid    : SUBSET Snaps,               \* reconcile: entries to keep
     issues   : BOOLEAN,                    \* reconcile: something failed
     doomed   : SUBSET Versions,            \* cleanup: trees to remove
     victim   : Versions \cup {Unknown},    \* cleanup: tree being removed
     warning  : BOOLEAN]                    \* cleanup: something failed

NoWork ==
    [kernel |-> Unknown, archive |-> "absent", target |-> {}, header |-> FALSE,
     original |-> {}, fresh |-> FALSE, todo |-> {}, active |-> {}, seen |-> {},
     valid |-> {}, issues |-> FALSE, doomed |-> {}, victim |-> Unknown,
     warning |-> FALSE]

\* The read of GrubCustom NewModel is about to act on, if any.
Startup == {"none", "missing", "headerless"}

-----------------------------------------------------------------------------
(* What the operations read.                                               *)

\* ListGrubEntries: the BLS files and the menuentries of GrubCustom.
Listed == custom \cup bls

\* detectArchivedModuleTree: an archive for the identified version.
HasArchive(s) == archive[s] # "absent" /\ ver[s] # Unknown

\* detectRootModuleTree looks at the directory only, not at what it holds.
TreePresent(v) == v # Unknown /\ tree[v] # "absent"

\* Mutant: only SnapshotDir is listed, so that no orphan mirror is found.
DiscoveredSnapshots == {s \in Snaps : snap[s] # "none"}

\* The names listBackupNames finds below SnapshotDir and EfiDir.
Discovered == {s \in Snaps : snap[s] # "none" \/ mirror[s] # "absent"}

-----------------------------------------------------------------------------
(* withRecoveryOperation: one operation at a time holds the flock.         *)

Op(p)   == task[p].op
Name(p) == task[p].name

Goto(p, label) ==
    /\ pc' = [pc EXCEPT ![p] = label]
    /\ UNCHANGED <<lock, task, result>>

\* The operation returns and the deferred LOCK_UN runs.
Finish(p, r) ==
    /\ pc' = [pc EXCEPT ![p] = "idle"]
    /\ result' = [result EXCEPT ![p] = r]
    /\ lock' = Nobody
    /\ work' = NoWork
    /\ UNCHANGED task

\* A process asks for an operation on a snapshot it chose earlier.
Request(p) ==
    /\ pc[p] = "idle"
    /\ \E op \in Operations, s \in Snaps \cup {NoName} :
        /\ (s = NoName) = (op \in {"create", "reconcile"})
        /\ s \in stamps \cup {NoName}
        /\ task' = [task EXCEPT ![p] = [op |-> op, name |-> s]]
    /\ pc' = [pc EXCEPT ![p] = "waiting"]
    /\ result' = [result EXCEPT ![p] = "none"]
    /\ UNCHANGED <<storeVars, menuVars, treeVars, systemVars, lockVars, work,
                   envVars>>

\* Mutant: deactivation removes the mirror and leaves the entry.
FirstStepMirrorFirst(op) ==
    CASE op = "create"     -> "copy"
      [] op = "activate"   -> "check"
      [] op = "deactivate" -> "unmirror"
      [] op = "delete"     -> "exists"
      [] op = "remove"     -> "unlist"
      [] op = "reconcile"  -> "scan"

\* Where each operation starts once flock(LOCK_EX) returns.
FirstStep(op) ==
    CASE op = "create"     -> "copy"
      [] op = "activate"   -> "check"
      [] op = "deactivate" -> "unlist"
      [] op = "delete"     -> "exists"
      [] op = "remove"     -> "unlist"
      [] op = "reconcile"  -> "scan"

\* Mutant: the flock is not waited for.
AcquireUnlocked(p) ==
    /\ pc[p] = "waiting"
    /\ lock' = p
    /\ pc' = [pc EXCEPT ![p] = FirstStep(Op(p))]
    /\ UNCHANGED <<storeVars, menuVars, treeVars, systemVars, dbLock, task,
                   result, work, envVars>>

Acquire(p) ==
    /\ pc[p] = "waiting"
    /\ lock = Nobody
    /\ lock' = p
    /\ pc' = [pc EXCEPT ![p] = FirstStep(Op(p))]
    /\ UNCHANGED <<storeVars, menuVars, treeVars, systemVars, dbLock, task,
                   result, work, envVars>>

=============================================================================
