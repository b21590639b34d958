------------------------- MODULE RecoveryProperties -------------------------
(***************************************************************************)
(* What the recovery operations promise, as invariants, action properties  *)
(* and a liveness property of Recovery.  The runs say under which failures *)
(* each of them holds; RecoveryProofs proves some of them in general.      *)
(***************************************************************************)
EXTENDS Recovery

StoreTypeOK ==
    /\ stamps \subseteq Snaps
    /\ snap \in [Snaps -> SnapStates]
    /\ ver \in [Snaps -> Versions \cup {Unknown}]
    /\ archive \in [Snaps -> TreeStates]
    /\ mirror \in [Snaps -> MirrorStates]

MenuTypeOK ==
    /\ customFile \in {"absent", "blank", "ready"}
    /\ custom \subseteq Snaps
    /\ menu \subseteq Snaps
    /\ bls \subseteq Snaps

TreeTypeOK ==
    /\ tree \in [Versions -> TreeStates]
    /\ marked \subseteq Versions

SystemTypeOK ==
    /\ pkg \subseteq Versions
    /\ primary \in Versions
    /\ running \in Versions

CleaningLabels == {"protect", "purge", "purging", "unlockdb"}

\* Where an operation acts on the snapshot its task names.
TargetLabels ==
    {"archive", "publish", "check", "restore", "sync", "syncing", "entry",
     "reload", "list", "exists", "unlist", "truncate", "write", "mkconfig",
     "unmirror", "unmirroring", "unsnap", "unsnapping"}

ProcTypeOK ==
    /\ lock \in Procs \cup {Nobody}
    /\ dbLock \in Procs \cup {Nobody, Pacman, Stale}
    /\ pc \in [Procs -> Labels]
    /\ task \in [Procs -> Task]
    /\ result \in [Procs -> Results]
    /\ \A p \in Procs :
        /\ Name(p) = NoName => Op(p) \in {"create", "reconcile"}
        /\ pc[p] \in TargetLabels => Name(p) \in Snaps

EnvTypeOK ==
    /\ startup \in Startup
    /\ kills \in Nat
    /\ boots \in Nat
    /\ upgrades \in Nat

\* Type correctness of the composed system, part by part.
TypeOK ==
    /\ StoreTypeOK
    /\ MenuTypeOK
    /\ TreeTypeOK
    /\ SystemTypeOK
    /\ ProcTypeOK
    /\ work \in Work
    /\ EnvTypeOK

-----------------------------------------------------------------------------
(* Coordination.                                                           *)

\* withRecoveryOperation: only the holder of the flock is past waiting for it,
\* whatever error return, kill or reboot ended the operation before; and
\* holdCleanupPackageLock: who prepares or performs removals of module trees
\* is the holder of db.lck.
OneOperation ==
    \A p \in Procs :
        /\ pc[p] \notin {"idle", "waiting"} <=> lock = p
        /\ pc[p] \in CleaningLabels <=> dbLock = p

\* cleanupRestoredModuleTrees checks all protections before the first removal
\* and removes trees one by one.  No tree it has chosen, or is removing, comes
\* to be needed meanwhile: by the running or the primary kernel, by a package,
\* by an entry of the boot menu, or by a snapshot without an archive.
CleanupSpares ==
    \A p \in Procs :
        pc[p] \in {"purge", "purging"} =>
            (work.doomed \cup ({work.victim} \ {Unknown})) \cap Protected = {}

\* Whatever bootrecov does, it damages no module tree of the running kernel, of
\* the kernel in /boot or of an installed package.  (Package transactions do.)
LiveTreesSpared ==
    [][pkg' = pkg =>
          \A v \in {running, primary} \cup pkg :
              tree[v] = "full" => tree'[v] = "full"]_vars

-----------------------------------------------------------------------------
(* The boot menu.                                                          *)

\* An entry whose recovery works: the mirror GRUB loads the pair from is
\* complete, and so are the modules the kernel will look for.
Boots(s) ==
    /\ snap[s] # "none"
    /\ mirror[s] = "synced"
    /\ ver[s] # Unknown
    /\ tree[ver[s]] = "full"

InMenu == menu \cup bls

\* As long as an entry is in the generated menu, no step of an operation, of
\* whichever process and however it fails, breaks what the entry boots.
MenuStaysBootable ==
    [][(lock # Nobody /\ pkg' = pkg) =>
          \A s \in InMenu \cap InMenu' : Boots(s) => Boots(s)']_vars

\* README "Regenerate /boot/grub/grub.cfg after GRUB entry changes": between
\* operations the menu holds exactly the entries of GrubCustom.
MenuInStep == lock = Nobody => menu = custom

\* SAFETY.md "preserves an already bootable active GRUB entry if refreshing its
\* boot mirror fails transiently": reconcile never removes the entry of a
\* snapshot that was bootable when it began.
BootableEntriesKept ==
    \A p \in Procs :
        (Op(p) = "reconcile" /\ pc[p] \in {"unlist", "truncate", "write", "mkconfig"})
        => ~ /\ Name(p) \in work.active
             /\ snap[Name(p)] = "whole"
             /\ mirror[Name(p)] = "synced"
             /\ ver[Name(p)] \in work.seen

\* The recovery points the files stand for.  A snapshot is one until its removal
\* begins, a mirror from the end of the copy to the beginning of its removal.
Saved    == {s \in Snaps : snap[s] \in {"whole", "damaged"}}
Mirrored == {s \in Snaps : mirror[s] = "synced"}

Points == INSTANCE RecoveryPoints WITH
    Names    <- Snaps,
    saved    <- Saved,
    mirrored <- Mirrored,
    offered  <- InMenu

\* README "Active boot mirrors are created only when a snapshot is activated for
\* booting": under failures that operations clean up after, the operations with
\* all their steps implement RecoveryPoints.  The menu never offers a snapshot that is not
\* both saved and mirrored, and nothing that is still offered is taken apart.
PointsKept == Points!Spec

-----------------------------------------------------------------------------
(* What a returned result promises.                                        *)

Returns(p, results) == pc[p] # "idle" /\ pc'[p] = "idle" /\ result'[p] \in results

\* What the caller of a successful activation, deactivation, removal or
\* deletion was told is the case when the operation returns, also when only
\* the cleanup that follows it left a warning.
ReportedDone ==
    [][\A p \in Procs :
          LET s == Name(p) IN
          Returns(p, {"ok", "warn"}) =>
              CASE Op(p) = "activate" ->
                       /\ s \in Listed'
                       /\ snap'[s] = "whole" /\ mirror'[s] = "synced"
                [] Op(p) = "remove"     -> s \notin Listed'
                [] Op(p) = "deactivate" -> s \notin Listed' /\ mirror'[s] = "absent"
                [] Op(p) = "delete" ->
                       /\ s \notin Listed'
                       /\ mirror'[s] = "absent" /\ snap'[s] = "none"
                [] OTHER -> TRUE]_vars

\* The entry of a snapshot that is there but cannot be trusted may be dropped;
\* its mirror is then left for the next reconcile to find inactive.
MayLoseEntry(s) == snap[s] # "none" /\ (snap[s] # "whole" \/ FALSE \in Identified(s))

\* README "Reconcile ...: Inactive boot mirrors are removed. Stale bootloader
\* entries are removed.": a complete reconcile leaves no entry without a mirror,
\* and no mirror without an entry but those of entries it has just dropped,
\* whatever an earlier crash, failed removal or lost snapshot had left behind.
ReconcileAligns ==
    [][\A p \in Procs :
          (Op(p) = "reconcile" /\ Returns(p, {"ok", "warn"})) =>
              LET mirrored == {s \in Snaps : mirror'[s] # "absent"}
                  dropped  == {s \in work.active : MayLoseEntry(s)}
              IN  Listed' \subseteq mirrored /\ mirrored \subseteq Listed' \cup dropped]_vars

\* README "Activation performs these steps ... 8. Regenerate GRUB config when
\* the selected entry backend requires it": after a successful activation the
\* entry is in the menu.
ActivationPublishes ==
    [][\A p \in Procs :
          (Op(p) = "activate" /\ Returns(p, {"ok"})) => Name(p) \in InMenu']_vars

\* README "Reconcile ...: Stale bootloader entries are removed": after a complete
\* reconcile no entry of the menu lacks its mirror.
ReconcileDropsStale ==
    [][\A p \in Procs :
          (Op(p) = "reconcile" /\ Returns(p, {"ok"})) =>
              \A s \in InMenu' : mirror'[s] # "absent"]_vars

-----------------------------------------------------------------------------
(* Progress.                                                               *)

\* Every operation ends and releases the flock, and with it db.lck, whatever
\* fails: no error path returns to a step it came from for ever.
OperationsEnd == \A p \in Procs : (lock = p) ~> (lock # p)

=============================================================================
