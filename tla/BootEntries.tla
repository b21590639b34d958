---------------------------- MODULE BootEntries ----------------------------
(***************************************************************************)
(* Recovery entries in the boot menu: the entry block appended to or cut   *)
(* out of GrubCustom, the regeneration of grub.cfg, the BLS files, and the *)
(* header a starting TUI makes sure of.  Every step belongs to the         *)
(* operation that holds the lock, except those of the starting TUI.        *)
(***************************************************************************)
EXTENDS RecoveryState

\* Where an operation continues when removeGrubEntry returns nil.
AfterUnlist(op) ==
    CASE op = "reconcile" -> "stale"
      [] op = "remove"    -> "cleanup"
      [] OTHER            -> "unmirror"

\* Mutant: an outcome no caller of reconcile distinguishes.
EntryFailureUntyped(op) == IF op = "reconcile" THEN "cancelled" ELSE "error"

\* How the operation ends when adding or removing its entry fails.
EntryFailure(op) == IF op = "reconcile" THEN "partial" ELSE "error"

\* os.WriteFile(GrubCustom, ...) is a truncation followed by the write.
RewriteCustom(p, entries, header) ==
    /\ work' = [work EXCEPT !.target = entries, !.header = header,
                            !.original = custom]
    /\ Goto(p, "truncate")

-----------------------------------------------------------------------------
(* addGrubEntry.                                                           *)

\* The final checks of addGrubEntry before it looks for the entry.
EntryPublishable(s) ==
    snap[s] = "whole" /\ mirror[s] = "synced" /\ ver[s] # Unknown

\* The modules are restored again if they vanished since activateBackup
\* restored them.
CheckEntry(p) ==
    /\ pc[p] = "entry"
    /\ EntryPublishable(Name(p))
    /\ Goto(p, IF TreePresent(ver[Name(p)]) THEN "list" ELSE "reload")
    /\ UNCHANGED <<storeVars, menuVars, treeVars, systemVars, dbLock, work,
                   envVars>>

\* An entry that is already listed is left alone, and so is grub.cfg.
EntryAlreadyListed(p) ==
    /\ pc[p] = "list"
    /\ Name(p) \in Listed
    /\ Finish(p, "ok")
    /\ UNCHANGED <<storeVars, menuVars, treeVars, systemVars, dbLock, envVars>>

\* addBLSEntry writes one file; no menu is generated.
EntryAsBLS(p) ==
    /\ pc[p] = "list"
    /\ Platform = "fedora"
    /\ Name(p) \notin Listed
    /\ bls' = bls \cup {Name(p)}
    /\ Finish(p, "ok")
    /\ UNCHANGED <<storeVars, customFile, custom, menu, treeVars, systemVars,
                   dbLock, envVars>>

\* ensureGrubFile writes the header if it is missing, then the entry is added.
EntryAsMenuentry(p) ==
    /\ pc[p] = "list"
    /\ Platform = "arch"
    /\ Name(p) \notin Listed
    /\ customFile' = "ready"
    /\ RewriteCustom(p, custom \cup {Name(p)}, TRUE)
    /\ UNCHANGED <<storeVars, custom, menu, bls, treeVars, systemVars, dbLock,
                   envVars>>

-----------------------------------------------------------------------------
(* removeGrubEntry.                                                        *)

\* Mutant: without GrubCustom the removal returns before the BLS file goes.
UnlistForgetsBLS(p) ==
    /\ pc[p] = "unlist"
    /\ customFile = "absent"
    /\ Goto(p, AfterUnlist(Op(p)))
    /\ UNCHANGED <<storeVars, menuVars, treeVars, systemVars, dbLock, work,
                   envVars>>

\* The BLS file goes first; without GrubCustom there is nothing else to do.
UnlistWithoutCustom(p) ==
    /\ pc[p] = "unlist"
    /\ customFile = "absent"
    /\ bls' = bls \ {Name(p)}
    /\ Goto(p, AfterUnlist(Op(p)))
    /\ UNCHANGED <<storeVars, customFile, custom, menu, treeVars, systemVars,
                   dbLock, work, envVars>>

\* GrubCustom is rewritten even when it does not hold the entry.
UnlistFromCustom(p) ==
    /\ pc[p] = "unlist"
    /\ customFile # "absent"
    /\ bls' = bls \ {Name(p)}
    /\ RewriteCustom(p, custom \ {Name(p)}, customFile = "ready")
    /\ UNCHANGED <<storeVars, customFile, custom, menu, treeVars, systemVars,
                   dbLock, envVars>>

-----------------------------------------------------------------------------
(* Writing GrubCustom and regenerating grub.cfg.                           *)

TruncateCustom(p) ==
    /\ pc[p] = "truncate"
    /\ customFile' = "blank"
    /\ custom' = {}
    /\ Goto(p, "write")
    /\ UNCHANGED <<storeVars, menu, bls, treeVars, systemVars, dbLock, work,
                   envVars>>

WriteCustom(p) ==
    /\ pc[p] = "write"
    /\ customFile' = IF work.header THEN "ready" ELSE "blank"
    /\ custom' = work.target
    /\ Goto(p, "mkconfig")
    /\ UNCHANGED <<storeVars, menu, bls, treeVars, systemVars, dbLock, work,
                   envVars>>

\* The write fails after the truncation; the old contents are not put back.
WriteCustomFails(p) ==
    /\ pc[p] = "write"
    /\ "write" \in Faults
    /\ Finish(p, EntryFailure(Op(p)))
    /\ UNCHANGED <<storeVars, menuVars, treeVars, systemVars, dbLock, envVars>>

\* updateGrubConfig: grub-mkconfig replaces grub.cfg as a whole.
UpdateGrubConfig(p) ==
    /\ pc[p] = "mkconfig"
    /\ menu' = custom
    /\ IF Op(p) = "activate"
       THEN Finish(p, "ok")
       ELSE /\ Goto(p, AfterUnlist(Op(p)))
            /\ UNCHANGED work
    /\ UNCHANGED <<storeVars, customFile, custom, bls, treeVars, systemVars,
                   dbLock, envVars>>

\* Mutant: the previous GrubCustom is not written back.
MkconfigFailsNoRollback(p) ==
    /\ pc[p] = "mkconfig"
    /\ "mkconfig" \in Faults
    /\ Finish(p, EntryFailure(Op(p)))
    /\ UNCHANGED <<storeVars, menuVars, treeVars, systemVars, dbLock, envVars>>

\* grub-mkconfig fails, and the previous GrubCustom is written back.  The BLS
\* file removeGrubEntry deleted is not.
UpdateGrubConfigFails(p) ==
    /\ pc[p] = "mkconfig"
    /\ "mkconfig" \in Faults
    /\ custom' = work.original
    /\ Finish(p, EntryFailure(Op(p)))
    /\ UNCHANGED <<storeVars, customFile, menu, bls, treeVars, systemVars,
                   dbLock, envVars>>

\* The error of that second write is ignored: the file stays truncated.
RollbackFails(p) ==
    /\ pc[p] = "mkconfig"
    /\ "rollback" \in Faults
    /\ customFile' = "blank"
    /\ custom' = {}
    /\ Finish(p, EntryFailure(Op(p)))
    /\ UNCHANGED <<storeVars, menu, bls, treeVars, systemVars, dbLock, envVars>>

-----------------------------------------------------------------------------
(* NewModel calls ensureGrubFile without taking the operation lock.        *)

StartupReads ==
    /\ "startup" \in Faults
    /\ startup = "none"
    /\ customFile # "ready"
    /\ startup' = IF customFile = "absent" THEN "missing" ELSE "headerless"
    /\ UNCHANGED <<storeVars, menuVars, treeVars, systemVars, lockVars,
                   procVars, work, kills, boots, upgrades>>

\* It writes the header followed by the (empty) contents it read.
StartupWrites ==
    /\ startup # "none"
    /\ startup' = "none"
    /\ customFile' = "ready"
    /\ custom' = {}
    /\ UNCHANGED <<storeVars, menu, bls, treeVars, systemVars, lockVars,
                   procVars, work, kills, boots, upgrades>>

BootEntrySteps(p) ==
    \/ CheckEntry(p)
    \/ EntryAlreadyListed(p)
    \/ EntryAsBLS(p)
    \/ EntryAsMenuentry(p)
    \/ UnlistWithoutCustom(p)
    \/ UnlistFromCustom(p)
    \/ TruncateCustom(p)
    \/ WriteCustom(p)
    \/ WriteCustomFails(p)
    \/ UpdateGrubConfig(p)
    \/ UpdateGrubConfigFails(p)
    \/ RollbackFails(p)

StartupSteps == StartupReads \/ StartupWrites

=============================================================================
