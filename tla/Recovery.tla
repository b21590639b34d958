------------------------------ MODULE Recovery ------------------------------
(***************************************************************************)
(* The recovery operations of bootrecov, each a sequence of steps under    *)
(* the operation lock, composed with what happens around them: the package *)
(* manager, starting TUIs, killed processes, reboots and damaged files.    *)
(***************************************************************************)
EXTENDS BootEntries, ModuleTrees

Init ==
    /\ stamps = {}
    /\ snap = [s \in Snaps |-> "none"]
    /\ ver = [s \in Snaps |-> Unknown]
    /\ archive = [s \in Snaps |-> "absent"]
    /\ mirror = [s \in Snaps |-> "absent"]
    /\ customFile = "absent"
    /\ custom = {}
    /\ menu = {}
    /\ bls = {}
    /\ tree = [v \in Versions |-> IF v = FirstVersion THEN "full" ELSE "absent"]
    /\ marked = {}
    /\ pkg = {FirstVersion}
    /\ primary = FirstVersion
    /\ running = FirstVersion
    /\ lock = Nobody
    /\ dbLock = Nobody
    /\ pc = [p \in Procs |-> "idle"]
    /\ task = [p \in Procs |-> [op |-> "reconcile", name |-> NoName]]
    /\ result = [p \in Procs |-> "none"]
    /\ work = NoWork
    /\ startup = "none"
    /\ kills = 0
    /\ boots = 0
    /\ upgrades = 0

-----------------------------------------------------------------------------
(* createBootBackupNow.  Staging directories are never listed, so only the *)
(* published snapshot is state.                                            *)

\* /boot is copied; `file` identifies the kernel image, or does not.
CopyBoot(p) ==
    /\ pc[p] = "copy"
    /\ \E s \in Snaps \ stamps :
        /\ stamps' = stamps \cup {s}
        /\ task' = [task EXCEPT ![p].name = s]
    /\ \E v \in {primary} \cup (IF "identify" \in Faults THEN {Unknown} ELSE {}) :
        work' = [work EXCEPT !.kernel = v]
    /\ pc' = [pc EXCEPT ![p] = "archive"]
    /\ UNCHANGED <<snap, ver, archive, mirror, menuVars, treeVars, systemVars,
                   lockVars, result, envVars>>

\* archiveRootModulesForSnapshot: nothing to archive without a live tree.
ArchiveModules(p) ==
    /\ pc[p] = "archive"
    /\ work' = [work EXCEPT !.archive =
                    IF TreePresent(work.kernel) THEN tree[work.kernel] ELSE "absent"]
    /\ Goto(p, "publish")
    /\ UNCHANGED <<storeVars, menuVars, treeVars, systemVars, dbLock, envVars>>

\* os.Rename makes the complete snapshot appear at once.
PublishSnapshot(p) ==
    /\ pc[p] = "publish"
    /\ snap' = [snap EXCEPT ![Name(p)] = "whole"]
    /\ ver' = [ver EXCEPT ![Name(p)] = work.kernel]
    /\ archive' = [archive EXCEPT ![Name(p)] = work.archive]
    /\ Finish(p, "ok")
    /\ UNCHANGED <<stamps, mirror, menuVars, treeVars, systemVars, dbLock,
                   envVars>>

-----------------------------------------------------------------------------
(* activateBackup, and the mirror refresh it shares with reconcile.        *)

\* Only a complete snapshot of an identified kernel is activated.
CheckActivation(p) ==
    /\ pc[p] = "check"
    /\ snap[Name(p)] = "whole"
    /\ ver[Name(p)] # Unknown
    /\ Goto(p, IF TreePresent(ver[Name(p)]) THEN "sync" ELSE "restore")
    /\ UNCHANGED <<storeVars, menuVars, treeVars, systemVars, dbLock, work,
                   envVars>>

\* Activation leaves a mirror alone that matches the snapshot by content.
MirrorInSync(p) ==
    /\ pc[p] = "sync"
    /\ Op(p) = "activate"
    /\ mirror[Name(p)] = "synced"
    /\ snap[Name(p)] = "whole"
    /\ Goto(p, "entry")
    /\ UNCHANGED <<storeVars, menuVars, treeVars, systemVars, dbLock, work,
                   envVars>>

\* rclone copies what differs: a mirror in sync stays in sync meanwhile.
StartSync(p) ==
    /\ pc[p] = "sync"
    /\ Op(p) = "reconcile" \/ mirror[Name(p)] # "synced"
    /\ snap[Name(p)] = "whole"
    /\ work' = [work EXCEPT !.fresh = (mirror[Name(p)] = "absent")]
    /\ mirror' = [mirror EXCEPT ![Name(p)] =
                     IF @ = "synced" THEN "synced" ELSE "partial"]
    /\ Goto(p, "syncing")
    /\ UNCHANGED <<stamps, snap, ver, archive, menuVars, treeVars, systemVars,
                   dbLock, envVars>>

EndSync(p) ==
    /\ pc[p] = "syncing"
    /\ mirror' = [mirror EXCEPT ![Name(p)] = "synced"]
    /\ IF Op(p) = "activate"
       THEN /\ Goto(p, "entry")
            /\ UNCHANGED work
       ELSE /\ Goto(p, "visit")
            /\ work' = [work EXCEPT !.valid = @ \cup {Name(p)}]
    /\ UNCHANGED <<stamps, snap, ver, archive, menuVars, treeVars, systemVars,
                   dbLock, envVars>>

\* Mutant: the flags are read after the failed copy has reset them.
WasBootableAfterwards(s) == FALSE

\* IsBootReady as reconcile saw it before it touched the snapshot.
WasBootable(s) == mirror[s] = "synced" /\ ver[s] \in work.seen

\* A failed copy removes only a mirror it created.  Reconcile keeps the entry
\* of a snapshot that was bootable, and goes on with the next one.
SyncFails(p) ==
    /\ pc[p] = "syncing"
    /\ "sync" \in Faults
    /\ mirror' = [mirror EXCEPT ![Name(p)] = IF work.fresh THEN "absent" ELSE @]
    /\ IF Op(p) = "reconcile"
       THEN /\ work' = [work EXCEPT
                  !.issues = TRUE,
                  !.valid = @ \cup {s \in {Name(p)} : WasBootable(s)}]
            /\ Goto(p, "visit")
       ELSE Finish(p, "error")
    /\ UNCHANGED <<stamps, snap, ver, archive, menuVars, treeVars, systemVars,
                   dbLock, envVars>>

-----------------------------------------------------------------------------
(* deactivateBackup, deleteBackup, removeGrubEntryAndCleanup.              *)

\* Mutant: the listed entry is not looked for.
FindNoEntry(p) ==
    /\ pc[p] = "exists"
    /\ Goto(p, "unmirror")
    /\ UNCHANGED <<storeVars, menuVars, treeVars, systemVars, dbLock, work,
                   envVars>>

\* Delete touches the bootloader only when the entry is listed.
FindEntry(p) ==
    /\ pc[p] = "exists"
    /\ Goto(p, IF Name(p) \in Listed THEN "unlist" ELSE "unmirror")
    /\ UNCHANGED <<storeVars, menuVars, treeVars, systemVars, dbLock, work,
                   envVars>>

AfterUnmirror(op) ==
    CASE op = "delete"    -> "unsnap"
      [] op = "reconcile" -> "visit"
      [] OTHER            -> "cleanup"

NoMirror(p) ==
    /\ pc[p] = "unmirror"
    /\ mirror[Name(p)] = "absent"
    /\ Goto(p, AfterUnmirror(Op(p)))
    /\ UNCHANGED <<storeVars, menuVars, treeVars, systemVars, dbLock, work,
                   envVars>>

StartUnmirror(p) ==
    /\ pc[p] = "unmirror"
    /\ mirror[Name(p)] # "absent"
    /\ mirror' = [mirror EXCEPT ![Name(p)] = "partial"]
    /\ Goto(p, "unmirroring")
    /\ UNCHANGED <<stamps, snap, ver, archive, menuVars, treeVars, systemVars,
                   dbLock, work, envVars>>

EndUnmirror(p) ==
    /\ pc[p] = "unmirroring"
    /\ mirror' = [mirror EXCEPT ![Name(p)] = "absent"]
    /\ Goto(p, AfterUnmirror(Op(p)))
    /\ UNCHANGED <<stamps, snap, ver, archive, menuVars, treeVars, systemVars,
                   dbLock, work, envVars>>

\* Mutant: the error of RemoveAll is dropped.
UnmirrorFailureIgnored(p) ==
    /\ pc[p] \in {"unmirror", "unmirroring"}
    /\ mirror[Name(p)] # "absent"
    /\ "removal" \in Faults
    /\ Goto(p, AfterUnmirror(Op(p)))
    /\ UNCHANGED <<storeVars, menuVars, treeVars, systemVars, dbLock, work,
                   envVars>>

\* A failed removal is an issue of one snapshot to reconcile, the end of any
\* other operation.
UnmirrorFails(p) ==
    /\ pc[p] \in {"unmirror", "unmirroring"}
    /\ mirror[Name(p)] # "absent"
    /\ "removal" \in Faults
    /\ IF Op(p) = "reconcile"
       THEN /\ work' = [work EXCEPT !.issues = TRUE]
            /\ Goto(p, "visit")
       ELSE Finish(p, "error")
    /\ UNCHANGED <<storeVars, menuVars, treeVars, systemVars, dbLock, envVars>>

\* RemoveAll may already have taken the kernel image or the archive.
StartUnsnap(p) ==
    /\ pc[p] = "unsnap"
    /\ IF snap[Name(p)] = "none"
       THEN UNCHANGED <<snap, ver, archive>>
       ELSE /\ snap' = [snap EXCEPT ![Name(p)] = "torn"]
            /\ \E v \in {ver[Name(p)], Unknown} :
                   ver' = [ver EXCEPT ![Name(p)] = v]
            /\ \E a \in {archive[Name(p)], "absent"} :
                   archive' = [archive EXCEPT ![Name(p)] = a]
    /\ Goto(p, "unsnapping")
    /\ UNCHANGED <<stamps, mirror, menuVars, treeVars, systemVars, dbLock,
                   work, envVars>>

EndUnsnap(p) ==
    /\ pc[p] = "unsnapping"
    /\ snap' = [snap EXCEPT ![Name(p)] = "none"]
    /\ archive' = [archive EXCEPT ![Name(p)] = "absent"]
    /\ Goto(p, "cleanup")
    /\ UNCHANGED <<stamps, ver, mirror, menuVars, treeVars, systemVars, dbLock,
                   work, envVars>>

-----------------------------------------------------------------------------
(* syncBackupsAndGrub: reconcile.                                          *)

VisitAs(p, s, label) ==
    /\ pc' = [pc EXCEPT ![p] = label]
    /\ task' = [task EXCEPT ![p].name = s]
    /\ UNCHANGED <<lock, result>>

\* DiscoverBackups and ListGrubEntries; later steps trust what they found.
Scan(p) ==
    /\ pc[p] = "scan"
    /\ work' = [work EXCEPT !.todo = Discovered, !.active = Listed,
                            !.seen = {v \in Versions : TreePresent(v)}]
    /\ Goto(p, "visit")
    /\ UNCHANGED <<storeVars, menuVars, treeVars, systemVars, dbLock, envVars>>

\* A mirror without its snapshot, or without an entry, goes.
VisitMirrorToDrop(p) ==
    /\ pc[p] = "visit"
    /\ \E s \in work.todo :
        /\ mirror[s] # "absent"
        /\ snap[s] = "none" \/ s \notin work.active
        /\ work' = [work EXCEPT !.todo = @ \ {s}]
        /\ VisitAs(p, s, "unmirror")
    /\ UNCHANGED <<storeVars, menuVars, treeVars, systemVars, dbLock, envVars>>

\* Mutant: an inactive mirror is passed over.
VisitInactivePasses(p) ==
    /\ pc[p] = "visit"
    /\ \E s \in work.todo :
        /\ snap[s] = "none" \/ s \notin work.active
        /\ work' = [work EXCEPT !.todo = @ \ {s}]
    /\ Goto(p, "visit")
    /\ UNCHANGED <<storeVars, menuVars, treeVars, systemVars, dbLock, envVars>>

VisitInactive(p) ==
    /\ pc[p] = "visit"
    /\ \E s \in work.todo :
        /\ mirror[s] = "absent"
        /\ snap[s] = "none" \/ s \notin work.active
        /\ work' = [work EXCEPT !.todo = @ \ {s}]
    /\ Goto(p, "visit")
    /\ UNCHANGED <<storeVars, menuVars, treeVars, systemVars, dbLock, envVars>>

\* The artifacts an entry boots are in the mirror; half a mirror may have them.
MirrorPlausible(s) ==
    CASE mirror[s] = "synced"  -> {TRUE}
      [] mirror[s] = "partial" -> {TRUE, FALSE}
      [] OTHER                 -> {FALSE}

\* Whether `file` identifies the kernel image of a snapshot.
Identified(s) ==
    {ver[s] # Unknown} \cup (IF "identify" \in Faults THEN {FALSE} ELSE {})

\* The source of an active mirror cannot be trusted.  The entry stays while
\* its mirror is plausible and its modules are not known to be missing.
VisitUntrusted(p) ==
    /\ pc[p] = "visit"
    /\ \E s \in work.todo \cap work.active :
       \E known \in Identified(s), plausible \in MirrorPlausible(s) :
        /\ snap[s] # "none"
        /\ snap[s] # "whole" \/ ~known
        /\ LET missing == known /\ ver[s] \notin work.seen
               keep    == {t \in {s} : plausible /\ ~missing}
           IN  work' = [work EXCEPT !.todo = @ \ {s}, !.valid = @ \cup keep]
    /\ Goto(p, "visit")
    /\ UNCHANGED <<storeVars, menuVars, treeVars, systemVars, dbLock, envVars>>

\* Modules that were present at the scan are not looked for again.
VisitActive(p) ==
    /\ pc[p] = "visit"
    /\ \E s \in work.todo \cap work.active :
        /\ snap[s] = "whole"
        /\ ver[s] # Unknown
        /\ work' = [work EXCEPT !.todo = @ \ {s}]
        /\ VisitAs(p, s, IF ver[s] \in work.seen THEN "sync" ELSE "restore")
    /\ UNCHANGED <<storeVars, menuVars, treeVars, systemVars, dbLock, envVars>>

\* removeStaleGrubEntries lists the entries once: those that are neither boot
\* ready nor kept are stale.
VisitsDone(p) ==
    /\ pc[p] = "visit"
    /\ work.todo = {}
    /\ work' = [work EXCEPT !.todo = Listed \ work.valid]
    /\ Goto(p, "stale")
    /\ UNCHANGED <<storeVars, menuVars, treeVars, systemVars, dbLock, envVars>>

RemoveStale(p) ==
    /\ pc[p] = "stale"
    /\ \E s \in work.todo :
        /\ work' = [work EXCEPT !.todo = @ \ {s}]
        /\ VisitAs(p, s, "unlist")
    /\ UNCHANGED <<storeVars, menuVars, treeVars, systemVars, dbLock, envVars>>

StaleDone(p) ==
    /\ pc[p] = "stale"
    /\ work.todo = {}
    /\ Goto(p, "cleanup")
    /\ UNCHANGED <<storeVars, menuVars, treeVars, systemVars, dbLock, work,
                   envVars>>

-----------------------------------------------------------------------------
(* Error returns that leave the disk as it is.                             *)

\* What the step needs is not there: no free name, an incomplete snapshot, a
\* mirror that is not in sync.
Refused(p) ==
    \/ pc[p] = "copy" /\ stamps = Snaps
    \/ pc[p] = "check" /\ (snap[Name(p)] # "whole" \/ ver[Name(p)] = Unknown)
    \/ pc[p] = "entry" /\ ~EntryPublishable(Name(p))

\* A tool, a mount or a file a step reads first is not available.
MayAbort ==
    {"copy", "archive", "publish", "check", "entry", "exists", "unlist",
     "unsnap", "unsnapping", "scan", "visit", "stale", "cleanup"}

\* Reconcile has completed actions to report from the stale entries on; a
\* cleanup that gives up is reported as a warning.
AbortResult(p) ==
    IF pc[p] = "cleanup"
    THEN IF Op(p) = "reconcile" /\ work.issues THEN "partial" ELSE "warn"
    ELSE IF Op(p) = "reconcile" /\ pc[p] \in {"stale", "unlist"} THEN "partial"
    ELSE "error"

GiveUp(p) ==
    /\ \/ Refused(p)
       \/ "abort" \in Faults /\ pc[p] \in MayAbort
    /\ Finish(p, AbortResult(p))
    /\ UNCHANGED <<storeVars, menuVars, treeVars, systemVars, dbLock, envVars>>

-----------------------------------------------------------------------------
(* What happens to the processes and to the files.                         *)

\* The kernel releases the flock of a killed process; db.lck stays.
StaleDbLock(dead) == IF dbLock \in dead THEN Stale ELSE dbLock

Kill(p) ==
    /\ kills < MaxKills
    /\ pc[p] # "idle"
    /\ pc' = [pc EXCEPT ![p] = "idle"]
    /\ result' = [result EXCEPT ![p] = "killed"]
    /\ dbLock' = StaleDbLock({p})
    /\ IF lock = p
       THEN lock' = Nobody /\ work' = NoWork
       ELSE UNCHANGED <<lock, work>>
    /\ kills' = kills + 1
    /\ UNCHANGED <<storeVars, menuVars, treeVars, systemVars, task, startup,
                   boots, upgrades>>

\* A boot after a shutdown, or after a power cut in the middle of something.
Orderly == (\A p \in Procs : pc[p] = "idle") /\ dbLock # Pacman /\ startup = "none"

PowerCycle ==
    /\ boots < MaxBoots
    /\ boots' = boots + 1
    /\ \/ Orderly /\ UNCHANGED kills
       \/ kills < MaxKills /\ kills' = kills + 1
    /\ pc' = [p \in Procs |-> "idle"]
    /\ result' = [p \in Procs |->
                     IF pc[p] = "idle" THEN result[p] ELSE "killed"]
    /\ lock' = Nobody
    /\ dbLock' = StaleDbLock(Procs \cup {Pacman})
    /\ work' = NoWork
    /\ startup' = "none"
    /\ UNCHANGED <<storeVars, menuVars, pkg, primary, task, upgrades>>

Reboot ==
    /\ PowerCycle
    /\ running' = primary
    /\ UNCHANGED treeVars

\* The user boots a recovery entry.  The hook in its initramfs restores the
\* modules before the root is switched to.
BootRecovery ==
    /\ PowerCycle
    /\ \E s \in menu \cup bls :
        /\ mirror[s] = "synced"
        /\ ver[s] # Unknown
        /\ running' = ver[s]
        /\ \/ TreePresent(ver[s]) /\ UNCHANGED treeVars
           \/ ~TreePresent(ver[s]) /\ HasArchive(s) /\ Extract(s)

\* Somebody removes the db.lck of a process that is gone.
ClearDbLock ==
    /\ dbLock = Stale
    /\ dbLock' = Nobody
    /\ UNCHANGED <<storeVars, menuVars, treeVars, systemVars, lock, procVars,
                   work, envVars>>

\* An artifact of a snapshot is emptied; it may be the kernel image.  Like the
\* loss below, it is modelled between operations only.
DamageSnapshot ==
    /\ "damage" \in Faults
    /\ lock = Nobody
    /\ \E s \in Snaps :
        /\ snap[s] = "whole"
        /\ snap' = [snap EXCEPT ![s] = "damaged"]
        /\ \E v \in {ver[s], Unknown} : ver' = [ver EXCEPT ![s] = v]
    /\ UNCHANGED <<stamps, archive, mirror, menuVars, treeVars, systemVars,
                   lockVars, procVars, work, envVars>>

\* A snapshot directory is removed by other means; its mirror is orphaned.
LoseSnapshot ==
    /\ "loss" \in Faults
    /\ lock = Nobody
    /\ \E s \in Snaps :
        /\ snap[s] # "none"
        /\ snap' = [snap EXCEPT ![s] = "none"]
        /\ archive' = [archive EXCEPT ![s] = "absent"]
    /\ UNCHANGED <<stamps, ver, mirror, menuVars, treeVars, systemVars,
                   lockVars, procVars, work, envVars>>

-----------------------------------------------------------------------------
CreateSteps(p) == CopyBoot(p) \/ ArchiveModules(p) \/ PublishSnapshot(p)

MirrorSteps(p) ==
    \/ CheckActivation(p)
    \/ MirrorInSync(p)
    \/ StartSync(p)
    \/ EndSync(p)
    \/ SyncFails(p)
    \/ FindEntry(p)
    \/ NoMirror(p)
    \/ StartUnmirror(p)
    \/ EndUnmirror(p)
    \/ UnmirrorFails(p)
    \/ StartUnsnap(p)
    \/ EndUnsnap(p)

ReconcileSteps(p) ==
    \/ Scan(p)
    \/ VisitMirrorToDrop(p)
    \/ VisitInactive(p)
    \/ VisitUntrusted(p)
    \/ VisitActive(p)
    \/ VisitsDone(p)
    \/ RemoveStale(p)
    \/ StaleDone(p)

\* The steps an operation takes on its own once it holds the lock.
OperationSteps(p) ==
    \/ CreateSteps(p)
    \/ MirrorSteps(p)
    \/ ReconcileSteps(p)
    \/ BootEntrySteps(p)
    \/ ModuleSteps(p)
    \/ GiveUp(p)

ProcSteps(p) == Request(p) \/ Acquire(p) \/ OperationSteps(p) \/ Kill(p)

Surroundings ==
    \/ PackageSteps
    \/ StartupSteps
    \/ Reboot
    \/ BootRecovery
    \/ ClearDbLock
    \/ DamageSnapshot
    \/ LoseSnapshot

Next == (\E p \in Procs : ProcSteps(p)) \/ Surroundings

Spec == Init /\ [][Next]_vars

\* A running operation goes on: nothing else is assumed of the scheduler.
FairSpec == Spec /\ \A p \in Procs : WF_vars(OperationSteps(p))

=============================================================================
