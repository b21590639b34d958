---------------------------- MODULE ModuleTrees ----------------------------
(***************************************************************************)
(* The kernel module trees: their restoration from a snapshot's archive,   *)
(* the cleanup of restored trees no recovery needs any more, and the       *)
(* package manager that owns, adds and removes trees meanwhile.            *)
(***************************************************************************)
EXTENDS RecoveryState

-----------------------------------------------------------------------------
(* restoreSquashFSModuleTree, for activate and reconcile.  The archive is  *)
(* extracted into a staging directory that one rename publishes.           *)

\* The archive is all there is of the tree: one taken of a tree that a package
\* or an interrupted removal had left partial brings back a partial tree.
Extract(s) ==
    /\ tree' = [tree EXCEPT ![ver[s]] = archive[s]]
    /\ marked' = marked \cup {ver[s]}

\* The tree came back (a package, another snapshot) or the archive restores it.
RestoreModules(p) ==
    /\ pc[p] \in {"restore", "reload"}
    /\ HasArchive(Name(p))
    /\ IF TreePresent(ver[Name(p)])
       THEN UNCHANGED treeVars
       ELSE Extract(Name(p))
    /\ Goto(p, IF pc[p] = "restore" THEN "sync" ELSE "list")
    /\ UNCHANGED <<storeVars, menuVars, systemVars, dbLock, work, envVars>>

\* No archive, or a failure.  One failure (chown) comes after the rename, so
\* that the tree is in place and the restoration is reported failed.
RestoreFails(p) ==
    /\ pc[p] \in {"restore", "reload"}
    /\ \/ /\ ~HasArchive(Name(p)) \/ "restore" \in Faults
          /\ UNCHANGED treeVars
       \/ /\ "restore" \in Faults
          /\ HasArchive(Name(p))
          /\ ~TreePresent(ver[Name(p)])
          /\ Extract(Name(p))
    /\ IF Op(p) = "reconcile"
       THEN /\ work' = [work EXCEPT !.issues = TRUE]
            /\ Goto(p, "visit")
       ELSE Finish(p, "error")
    /\ UNCHANGED <<storeVars, menuVars, systemVars, dbLock, envVars>>

-----------------------------------------------------------------------------
(* cleanupRestoredModuleTrees.                                             *)

\* Directories with a valid ownership marker.
Candidates == {v \in marked : tree[v] # "absent"}

\* Versions restoredModuleProtectedVersions and the package database keep.
Protected ==
    {running, primary}
    \cup pkg
    \cup {ver[s] : s \in Listed \cup menu}
    \cup {ver[s] : s \in {t \in Snaps : snap[t] # "none" /\ ~HasArchive(t)}}

\* Every listed recovery must have a version, and every recovery in grub.cfg
\* must be a listed one whose menuentry its snapshot and mirror still explain.
\* Otherwise its file search cannot be proved and nothing may be removed.
MenuExplained ==
    /\ \A s \in Listed : ver[s] # Unknown
    /\ \A s \in menu : s \in custom /\ snap[s] # "none" /\ mirror[s] # "absent"

\* A kernel image that is not all there may be one `file` cannot identify.
MenuDoubtful ==
    \E s \in Listed \cup menu : snap[s] # "whole" \/ mirror[s] # "synced"

\* How the operation reports a cleanup that could not complete.
CleanupResult(p) ==
    IF Op(p) = "reconcile" /\ work.issues THEN "partial"
    ELSE IF work.warning THEN "warn" ELSE "ok"

\* No candidates, a platform without cleanup, or a package transaction.
CleanupNotDue(p) ==
    /\ pc[p] = "cleanup"
    /\ Candidates = {} \/ Platform # "arch" \/ dbLock # Nobody
    /\ Finish(p, CleanupResult(p))
    /\ UNCHANGED <<storeVars, menuVars, treeVars, systemVars, dbLock, envVars>>

\* db.lck is created with O_EXCL.
HoldPackageLock(p) ==
    /\ pc[p] = "cleanup"
    /\ Candidates # {}
    /\ Platform = "arch"
    /\ dbLock = Nobody
    /\ dbLock' = p
    /\ Goto(p, "protect")
    /\ UNCHANGED <<storeVars, menuVars, treeVars, systemVars, work, envVars>>

\* Mutant: snapshots that carry no archive are forgotten.
ChooseDoomedListedOnly(p) ==
    /\ pc[p] = "protect"
    /\ MenuExplained
    /\ work' = [work EXCEPT !.doomed =
                    Candidates \ ({running, primary} \cup pkg
                                  \cup {ver[s] : s \in Listed \cup menu})]
    /\ Goto(p, "purge")
    /\ UNCHANGED <<storeVars, menuVars, treeVars, systemVars, dbLock, envVars>>

\* Mutant: the running kernel is not asked for.
ChooseDoomedNoUname(p) ==
    /\ pc[p] = "protect"
    /\ MenuExplained
    /\ work' = [work EXCEPT !.doomed =
                    Candidates \ ({primary} \cup pkg
                                  \cup {ver[s] : s \in Listed \cup menu})]
    /\ Goto(p, "purge")
    /\ UNCHANGED <<storeVars, menuVars, treeVars, systemVars, dbLock, envVars>>

\* All global protection checks finish before any removal.
ChooseDoomed(p) ==
    /\ pc[p] = "protect"
    /\ MenuExplained
    /\ work' = [work EXCEPT !.doomed = Candidates \ Protected, !.victim = Unknown]
    /\ Goto(p, "purge")
    /\ UNCHANGED <<storeVars, menuVars, treeVars, systemVars, dbLock, envVars>>

\* Something cannot be proved, or uname, file or pacman fails.
ProtectionUnproved(p) ==
    /\ pc[p] = "protect"
    /\ ~MenuExplained \/ MenuDoubtful \/ "identify" \in Faults
    /\ work' = [work EXCEPT !.warning = TRUE]
    /\ Goto(p, "unlockdb")
    /\ UNCHANGED <<storeVars, menuVars, treeVars, systemVars, dbLock, envVars>>

\* removeRestoredModuleTree: RemoveAll deletes the tree file by file, and the
\* marker is one of the files.
StartPurge(p) ==
    /\ pc[p] = "purge"
    /\ \E v \in work.doomed :
        /\ tree' = [tree EXCEPT ![v] = "partial"]
        /\ marked' \in {marked, marked \ {v}}
        /\ work' = [work EXCEPT !.doomed = @ \ {v}, !.victim = v]
    /\ Goto(p, "purging")
    /\ UNCHANGED <<storeVars, menuVars, systemVars, dbLock, envVars>>

EndPurge(p) ==
    /\ pc[p] = "purging"
    /\ work.victim \in Versions
    /\ tree' = [tree EXCEPT ![work.victim] = "absent"]
    /\ marked' = marked \ {work.victim}
    /\ work' = [work EXCEPT !.victim = Unknown]
    /\ Goto(p, "purge")
    /\ UNCHANGED <<storeVars, menuVars, systemVars, dbLock, envVars>>

\* Mutant: a tree that cannot be removed is tried again.
PurgeRetries(p) ==
    /\ pc[p] = "purging"
    /\ "removal" \in Faults
    /\ work' = [work EXCEPT !.doomed = @ \cup {work.victim}, !.victim = Unknown]
    /\ Goto(p, "purge")
    /\ UNCHANGED <<storeVars, menuVars, treeVars, systemVars, dbLock, envVars>>

\* A mount below the tree or a failing dkms keeps it; a failing RemoveAll
\* leaves what it has not removed yet.  The remaining trees are still tried.
PurgeFails(p) ==
    /\ "removal" \in Faults
    /\ \/ /\ pc[p] = "purge"
          /\ \E v \in work.doomed :
                work' = [work EXCEPT !.doomed = @ \ {v}, !.warning = TRUE]
       \/ /\ pc[p] = "purging"
          /\ work' = [work EXCEPT !.victim = Unknown, !.warning = TRUE]
    /\ Goto(p, "purge")
    /\ UNCHANGED <<storeVars, menuVars, treeVars, systemVars, dbLock, envVars>>

PurgeDone(p) ==
    /\ pc[p] = "purge"
    /\ work.doomed = {}
    /\ Goto(p, "unlockdb")
    /\ UNCHANGED <<storeVars, menuVars, treeVars, systemVars, dbLock, work,
                   envVars>>

\* Mutant: db.lck is not released.
KeepPackageLock(p) ==
    /\ pc[p] = "unlockdb"
    /\ Finish(p, CleanupResult(p))
    /\ UNCHANGED <<storeVars, menuVars, treeVars, systemVars, dbLock, envVars>>

\* The deferred release removes db.lck, and the operation returns.
ReleasePackageLock(p) ==
    /\ pc[p] = "unlockdb"
    /\ dbLock' = Nobody
    /\ Finish(p, CleanupResult(p))
    /\ UNCHANGED <<storeVars, menuVars, treeVars, systemVars, envVars>>

ModuleSteps(p) ==
    \/ RestoreModules(p)
    \/ RestoreFails(p)
    \/ CleanupNotDue(p)
    \/ HoldPackageLock(p)
    \/ ChooseDoomed(p)
    \/ ProtectionUnproved(p)
    \/ StartPurge(p)
    \/ EndPurge(p)
    \/ PurgeFails(p)
    \/ PurgeDone(p)
    \/ ReleasePackageLock(p)

-----------------------------------------------------------------------------
(* The package manager, external to the repository.  A transaction holds   *)
(* db.lck; a kernel upgrade replaces the package's module tree first and   *)
(* the image in /boot later.                                               *)

PackageBegins ==
    /\ dbLock = Nobody
    /\ dbLock' = Pacman
    /\ UNCHANGED <<storeVars, menuVars, treeVars, systemVars, lock, procVars,
                   work, envVars>>

\* Files of the new package must not exist yet: what is left of a partial tree
\* may be others.  Of the old tree, files outside the package (DKMS builds) may
\* stay behind.
PackageReplacesTree ==
    /\ dbLock = Pacman
    /\ primary \in pkg
    /\ upgrades < MaxUpgrades
    /\ upgrades' = upgrades + 1
    /\ \E v \in Versions, rest \in {"absent", "partial"} :
        /\ tree[v] # "full"
        /\ tree' = [w \in Versions |->
                       IF w = v THEN "full"
                       ELSE IF w \in pkg THEN rest
                       ELSE tree[w]]
        /\ pkg' = {v}
    /\ UNCHANGED <<storeVars, menuVars, marked, primary, running, lockVars,
                   procVars, work, startup, kills, boots>>

PackageReplacesImage ==
    /\ dbLock = Pacman
    /\ primary \notin pkg
    /\ primary' \in pkg
    /\ UNCHANGED <<storeVars, menuVars, treeVars, pkg, running, lockVars,
                   procVars, work, envVars>>

PackageEnds ==
    /\ dbLock = Pacman
    /\ primary \in pkg
    /\ dbLock' = Nobody
    /\ UNCHANGED <<storeVars, menuVars, treeVars, systemVars, lock, procVars,
                   work, envVars>>

PackageSteps ==
    \/ PackageBegins
    \/ PackageReplacesTree
    \/ PackageReplacesImage
    \/ PackageEnds

=============================================================================
