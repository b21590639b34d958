---------------------------- MODULE ResultProofs ----------------------------
(***************************************************************************)
(* What a caller is told is the case when the operation returns.           *)
(*                                                                         *)
(* DeliverInv says for each label what the operation there has established *)
(* already: the mirror before the entry, the removed entry before the      *)
(* mirror goes, and so on to the return.  It needs to know that the file   *)
(* an entry is in exists (FileInv) and that between operations nothing is  *)
(* left over in the locals of the last one (IdleInv).                      *)
(***************************************************************************)
EXTENDS OperationProofs

\* No TUI starts meanwhile: NewModel writes GrubCustom without the operation lock,
\* and the entry a successful activation has just written can be lost to it (the
\* run startup_race).
NoStartup == "startup" \notin Faults

\* The operations that take an entry out of the menu.
Removals == {"deactivate", "delete", "remove"}

\* The mirror goes, then the snapshot.
Unpublishing == {"unmirror", "unmirroring", "unsnap", "unsnapping"}

\* What follows when the operation has done what it was asked for.
Closing == {"cleanup"} \cup CleaningLabels

\* What the operation of p has established when it is at its label.
Delivers(p) ==
    /\ pc[p] \in {"copy", "archive", "publish"} => Op(p) = "create"
    /\ Op(p) = "activate" =>
           /\ pc[p] \notin Unpublishing \cup Closing
           /\ pc[p] \in {"reload", "list", "truncate", "write", "mkconfig"} =>
                  snap[Name(p)] = "whole" /\ mirror[Name(p)] = "synced"
           /\ pc[p] \in {"truncate", "write"} => Name(p) \in work.target
           /\ pc[p] = "mkconfig" => Name(p) \in custom
    /\ Op(p) \in Removals =>
           /\ pc[p] \in {"truncate", "write"} => Name(p) \notin work.target \cup bls
           /\ pc[p] \in {"mkconfig"} \cup Unpublishing \cup Closing =>
                  Name(p) \notin Listed
           /\ pc[p] \in {"unsnap", "unsnapping"} => mirror[Name(p)] = "absent"
           /\ pc[p] \in Closing /\ Op(p) # "remove" => mirror[Name(p)] = "absent"
           /\ pc[p] \in Closing /\ Op(p) = "delete" => snap[Name(p)] = "none"

\* Every running operation has established what its label stands for.
DeliverInv == \A p \in Procs : Delivers(p)

\* Between operations nothing is left of the locals of the last one.
IdleInv == startup = "none" /\ (lock = Nobody => work = NoWork)

-----------------------------------------------------------------------------
(* Where the steps of each kind lead.                                      *)

\* Where the steps that copy and remove mirrors lead.
LEMMA MirrorLeads ==
  ASSUME TypeOK, NEW p \in Procs, MirrorSteps(p)
  PROVE  pc'[p] \in {"sync", "restore", "entry", "syncing", "visit", "unlist", "unmirror",
                     "unmirroring", "unsnap", "unsnapping", "cleanup", "idle"}
<1>1. \/ \E label \in {"sync", "restore", "entry", "syncing", "visit", "unlist", "unmirror",
                      "unmirroring", "unsnap", "unsnapping", "cleanup"} : Goto(p, label)
      \/ Finish(p, "error")
  BY DEF MirrorSteps, CheckActivation, MirrorInSync, StartSync, EndSync, SyncFails,
      FindEntry, NoMirror, StartUnmirror, EndUnmirror, UnmirrorFails, StartUnsnap,
      EndUnsnap, AfterUnmirror
<1> QED  BY <1>1, GotoLeads, FinishLeads

\* Where the steps of syncBackupsAndGrub itself lead.
LEMMA ReconcileLeads ==
  ASSUME TypeOK, NEW p \in Procs, ReconcileSteps(p)
  PROVE  pc'[p] \in {"visit", "unmirror", "sync", "restore", "stale", "unlist", "cleanup"}
<1>1. ASSUME VisitMirrorToDrop(p) \/ VisitActive(p) \/ RemoveStale(p)
      PROVE  pc'[p] \in {"unmirror", "sync", "restore", "unlist"}
  <2>1. PICK s \in Snaps, label \in {"unmirror", "sync", "restore", "unlist"} :
            VisitAs(p, s, label)
    BY <1>1 DEF VisitMirrorToDrop, VisitActive, RemoveStale, TypeOK, Work
  <2> QED  BY <2>1, VisitLeads
<1>2. ASSUME \/ Scan(p) \/ VisitInactive(p) \/ VisitUntrusted(p) \/ VisitsDone(p)
             \/ StaleDone(p)
      PROVE  pc'[p] \in {"visit", "stale", "cleanup"}
  BY <1>2, GotoLeads DEF Scan, VisitInactive, VisitUntrusted, VisitsDone, StaleDone
<1> QED  BY <1>1, <1>2 DEF ReconcileSteps

\* Where the steps on module trees, and giving up, lead.
LEMMA ModuleLeads ==
  ASSUME TypeOK, NEW p \in Procs, ModuleSteps(p) \/ GiveUp(p)
  PROVE  pc'[p] \in {"sync", "list", "visit", "idle"} \cup CleaningLabels
<1>1. \/ \E label \in {"sync", "list", "visit"} \cup CleaningLabels : Goto(p, label)
      \/ \E r : Finish(p, r)
      \/ HoldPackageLock(p)
  BY DEF ModuleSteps, RestoreModules, RestoreFails, CleanupNotDue, ChooseDoomed,
      ProtectionUnproved, StartPurge, EndPurge, PurgeFails, PurgeDone,
      ReleasePackageLock, GiveUp, CleaningLabels
<1>2. HoldPackageLock(p) => pc'[p] = "protect"
  BY GotoLeads DEF HoldPackageLock
<1> QED  BY <1>1, <1>2, GotoLeads, FinishLeads DEF CleaningLabels

-----------------------------------------------------------------------------
(* Between operations.                                                     *)

\* An operation that releases the flock has dropped its locals.
LEMMA WorkDropped ==
  ASSUME TypeOK, NEW p \in Procs, OperationSteps(p)
  PROVE  lock' = lock \/ (lock' = Nobody /\ work' = NoWork)
<1> USE DEF Goto, Finish, VisitAs
<1>1. ASSUME CreateSteps(p) PROVE lock' = lock \/ (lock' = Nobody /\ work' = NoWork)
  BY <1>1 DEF CreateSteps, CopyBoot, ArchiveModules, PublishSnapshot, lockVars
<1>2. ASSUME MirrorSteps(p) PROVE lock' = lock \/ (lock' = Nobody /\ work' = NoWork)
  BY <1>2
  DEF MirrorSteps, CheckActivation, MirrorInSync, StartSync, EndSync, SyncFails,
      FindEntry, NoMirror, StartUnmirror, EndUnmirror, UnmirrorFails, StartUnsnap,
      EndUnsnap
<1>3. ASSUME ReconcileSteps(p) PROVE lock' = lock
  BY <1>3
  DEF ReconcileSteps, Scan, VisitMirrorToDrop, VisitInactive, VisitUntrusted,
      VisitActive, VisitsDone, RemoveStale, StaleDone
<1>4. ASSUME BootEntrySteps(p) PROVE lock' = lock \/ (lock' = Nobody /\ work' = NoWork)
  BY <1>4
  DEF BootEntrySteps, CheckEntry, EntryAlreadyListed, EntryAsBLS, EntryAsMenuentry,
      UnlistWithoutCustom, UnlistFromCustom, RewriteCustom, TruncateCustom,
      WriteCustom, WriteCustomFails, UpdateGrubConfig, UpdateGrubConfigFails,
      RollbackFails
<1>5. ASSUME ModuleSteps(p) \/ GiveUp(p)
      PROVE  lock' = lock \/ (lock' = Nobody /\ work' = NoWork)
  BY <1>5
  DEF ModuleSteps, RestoreModules, RestoreFails, CleanupNotDue, HoldPackageLock,
      ChooseDoomed, ProtectionUnproved, StartPurge, EndPurge, PurgeFails, PurgeDone,
      ReleasePackageLock, GiveUp
<1> QED  BY <1>1, <1>2, <1>3, <1>4, <1>5 DEF OperationSteps

\* Without starting TUIs only operations change the boot menu's files.
LEMMA MenuStays ==
  ASSUME NoStartup, IdleInv,
         \/ \E p \in Procs : Request(p) \/ Kill(p)
         \/ Surroundings
         \/ UNCHANGED vars
  PROVE  UNCHANGED menuVars /\ startup' = "none"
BY DEF NoStartup, IdleInv, Request, Kill, Surroundings, PackageSteps, PackageBegins,
       PackageReplacesTree, PackageReplacesImage, PackageEnds, StartupSteps,
       StartupReads, StartupWrites, Reboot, BootRecovery, PowerCycle, ClearDbLock,
       DamageSnapshot, LoseSnapshot, vars, envVars

\* The environment variables are no business of an operation.
LEMMA OperationEnv ==
  ASSUME NEW p \in Procs, OperationSteps(p)
  PROVE  UNCHANGED envVars
<1>1. ASSUME CreateSteps(p) \/ MirrorSteps(p) PROVE UNCHANGED envVars
  BY <1>1
  DEF CreateSteps, CopyBoot, ArchiveModules, PublishSnapshot,
      MirrorSteps, CheckActivation, MirrorInSync, StartSync, EndSync, SyncFails,
      FindEntry, NoMirror, StartUnmirror, EndUnmirror, UnmirrorFails, StartUnsnap,
      EndUnsnap
<1>2. ASSUME ReconcileSteps(p) \/ BootEntrySteps(p) PROVE UNCHANGED envVars
  BY <1>2
  DEF ReconcileSteps, Scan, VisitMirrorToDrop, VisitInactive, VisitUntrusted,
      VisitActive, VisitsDone, RemoveStale, StaleDone,
      BootEntrySteps, CheckEntry, EntryAlreadyListed, EntryAsBLS, EntryAsMenuentry,
      UnlistWithoutCustom, UnlistFromCustom, TruncateCustom, WriteCustom,
      WriteCustomFails, UpdateGrubConfig, UpdateGrubConfigFails, RollbackFails
<1>3. ASSUME ModuleSteps(p) \/ GiveUp(p) PROVE UNCHANGED envVars
  BY <1>3
  DEF ModuleSteps, RestoreModules, RestoreFails, CleanupNotDue, HoldPackageLock,
      ChooseDoomed, ProtectionUnproved, StartPurge, EndPurge, PurgeFails, PurgeDone,
      ReleasePackageLock, GiveUp
<1> QED  BY <1>1, <1>2, <1>3 DEF OperationSteps

\* Every step leaves nothing of an operation that has ended.
LEMMA NextIdle ==
  ASSUME TypeOK, OneOperation, NoStartup, IdleInv, [Next]_vars
  PROVE  IdleInv'
<1>1. ASSUME NEW p \in Procs, OperationSteps(p) PROVE IdleInv'
  <2>1. lock = p
    BY <1>1, OperationStepsShape DEF OneOperation, StepShape
  <2> QED  BY <1>1, <2>1, WorkDropped, OperationEnv, ConstantsOK DEF IdleInv, envVars
<1>2. ASSUME NEW p \in Procs, Acquire(p) PROVE IdleInv'
  BY <1>2, ConstantsOK DEF Acquire, IdleInv, envVars
<1>3. ASSUME NEW p \in Procs, Kill(p) PROVE IdleInv'
  BY <1>3, MenuStays DEF Kill, IdleInv
<1>4. ASSUME NEW p \in Procs, Request(p) PROVE IdleInv'
  BY <1>4, MenuStays DEF Request, lockVars, IdleInv
<1>5. ASSUME Surroundings PROVE lock' = Nobody => work' = NoWork
  BY <1>5
  DEF Surroundings, PackageSteps, PackageBegins, PackageReplacesTree,
      PackageReplacesImage, PackageEnds, StartupSteps, StartupReads, StartupWrites,
      Reboot, BootRecovery, PowerCycle, ClearDbLock, DamageSnapshot, LoseSnapshot,
      lockVars, IdleInv
<1>6. ASSUME UNCHANGED vars PROVE IdleInv'
  BY <1>6 DEF vars, lockVars, envVars, IdleInv
<1> QED
  BY <1>1, <1>2, <1>3, <1>4, <1>5, <1>6, MenuStays DEF Next, ProcSteps, IdleInv

\* Only the steps of BootEntrySteps rewrite GrubCustom or lead to its rewriting.
LEMMA ElsewhereNoRewrite ==
  ASSUME TypeOK, NEW p \in Procs, OperationSteps(p), ~BootEntrySteps(p)
  PROVE  /\ UNCHANGED menuVars
         /\ pc'[p] \notin {"truncate", "write", "mkconfig"}
<1>1. ASSUME CreateSteps(p)
      PROVE  UNCHANGED menuVars /\ pc'[p] \notin {"truncate", "write", "mkconfig"}
  BY <1>1, GotoLeads, FinishLeads
  DEF CreateSteps, CopyBoot, ArchiveModules, PublishSnapshot, TypeOK, ProcTypeOK
<1>2. ASSUME MirrorSteps(p) PROVE UNCHANGED menuVars
  BY <1>2
  DEF MirrorSteps, CheckActivation, MirrorInSync, StartSync, EndSync, SyncFails,
      FindEntry, NoMirror, StartUnmirror, EndUnmirror, UnmirrorFails, StartUnsnap,
      EndUnsnap
<1>3. ASSUME ReconcileSteps(p) PROVE UNCHANGED menuVars
  BY <1>3
  DEF ReconcileSteps, Scan, VisitMirrorToDrop, VisitInactive, VisitUntrusted,
      VisitActive, VisitsDone, RemoveStale, StaleDone
<1>4. ASSUME ModuleSteps(p) \/ GiveUp(p) PROVE UNCHANGED menuVars
  BY <1>4
  DEF ModuleSteps, RestoreModules, RestoreFails, CleanupNotDue, HoldPackageLock,
      ChooseDoomed, ProtectionUnproved, StartPurge, EndPurge, PurgeFails, PurgeDone,
      ReleasePackageLock, GiveUp
<1> QED
  BY <1>1, <1>2, <1>3, <1>4, MirrorLeads, ReconcileLeads, ModuleLeads
  DEF OperationSteps, CleaningLabels

\* What GrubCustom holds is in a file.
FileInv ==
    /\ customFile = "absent" => custom = {}
    /\ \A p \in Procs : pc[p] \in {"write", "mkconfig"} => customFile # "absent"

\* Every step leaves the entries of GrubCustom in a file.
LEMMA NextFile ==
  ASSUME TypeOK, OneOperation, FileInv, [Next]_vars
  PROVE  FileInv'
<1>1. ASSUME NEW p \in Procs, OperationSteps(p) PROVE FileInv'
  <2>1. \A q \in Procs \ {p} : pc'[q] \notin {"write", "mkconfig"}
    BY <1>1, OthersRest DEF Resting
  <2>2. ASSUME UNCHANGED <<customFile, custom>>, pc'[p] \notin {"write", "mkconfig"}
        PROVE  FileInv'
    BY <2>1, <2>2 DEF FileInv
  <2>3. ASSUME \/ EntryAsMenuentry(p) \/ TruncateCustom(p) \/ WriteCustom(p)
               \/ UpdateGrubConfigFails(p) \/ RollbackFails(p)
        PROVE  FileInv'
    BY <2>1, <2>3
    DEF EntryAsMenuentry, TruncateCustom, WriteCustom, UpdateGrubConfigFails,
        RollbackFails, FileInv
  <2>4. ASSUME BootEntrySteps(p) PROVE FileInv'
    <3>1. ASSUME \/ CheckEntry(p) \/ EntryAlreadyListed(p) \/ EntryAsBLS(p)
                 \/ UnlistWithoutCustom(p) \/ UnlistFromCustom(p)
                 \/ WriteCustomFails(p) \/ UpdateGrubConfig(p)
          PROVE  UNCHANGED <<customFile, custom>> /\ pc'[p] \notin {"write", "mkconfig"}
      BY <3>1, GotoLeads, FinishLeads
      DEF CheckEntry, EntryAlreadyListed, EntryAsBLS, UnlistWithoutCustom,
          UnlistFromCustom, RewriteCustom, AfterUnlist, WriteCustomFails,
          UpdateGrubConfig, menuVars
    <3> QED  BY <2>2, <2>3, <2>4, <3>1 DEF BootEntrySteps
  <2>5. ASSUME ~BootEntrySteps(p)
        PROVE  UNCHANGED <<customFile, custom>> /\ pc'[p] \notin {"write", "mkconfig"}
    BY <1>1, <2>5, ElsewhereNoRewrite DEF menuVars
  <2> QED  BY <2>2, <2>4, <2>5
<1>2. ASSUME NEW p \in Procs, Acquire(p) PROVE FileInv'
  <2>1. FirstStep(Op(p)) \notin {"write", "mkconfig"}
    BY DEF FirstStep, Op, TypeOK, ProcTypeOK, Task, AllOperations
  <2> QED  BY <1>2, <2>1 DEF Acquire, menuVars, FileInv, TypeOK, ProcTypeOK
<1>3. ASSUME \/ \E p \in Procs : Request(p) \/ Kill(p)
             \/ Surroundings
             \/ UNCHANGED vars
      PROVE  FileInv'
  <2>1. \/ UNCHANGED <<customFile, custom>>
        \/ customFile' = "ready" /\ custom' = {}
    BY <1>3
    DEF Request, Kill, Surroundings, PackageSteps, PackageBegins, PackageReplacesTree,
        PackageReplacesImage, PackageEnds, StartupSteps, StartupReads, StartupWrites,
        Reboot, BootRecovery, PowerCycle, ClearDbLock, DamageSnapshot, LoseSnapshot,
        vars, menuVars
  <2>2. \A q \in Procs : pc'[q] \in {"write", "mkconfig"} => pc[q] \in {"write", "mkconfig"}
    BY <1>3, OutsideSteps DEF Resting
  <2> QED  BY <2>1, <2>2 DEF FileInv
<1> QED  BY <1>1, <1>2, <1>3 DEF Next, ProcSteps

\* The entries of GrubCustom are in a file.
LEMMA EntriesInFile == Spec => []FileInv
<1>1. Init => FileInv
  BY DEF Init, FileInv
<1>2. TypeOK /\ OneOperation /\ FileInv /\ [Next]_vars => FileInv'
  BY NextFile
<1> QED  BY <1>1, <1>2, TypeCorrect, MutualExclusion, PTL DEF Spec

-----------------------------------------------------------------------------
(* Activation and the removals.                                            *)

\* Copying and removing mirrors, for operations other than reconcile.
LEMMA MirrorDelivers ==
  ASSUME TypeOK, NEW p \in Procs, RightOperation(p), Delivers(p), MirrorSteps(p),
         Op(p) # "reconcile"
  PROVE  Delivers(p)'
<1>1. /\ UNCHANGED menuVars /\ Listed' = Listed /\ Name(p) \in Snaps
      /\ Op(p)' = Op(p)
  BY SameOperation
  DEF MirrorSteps, CheckActivation, MirrorInSync, StartSync, EndSync, SyncFails,
      FindEntry, NoMirror, StartUnmirror, EndUnmirror, UnmirrorFails, StartUnsnap,
      EndUnsnap, OperationSteps, menuVars, Listed, TypeOK, ProcTypeOK, TargetLabels
<1>2. ASSUME \/ CheckActivation(p) \/ MirrorInSync(p) \/ StartSync(p) \/ EndSync(p)
             \/ SyncFails(p)
      PROVE  Delivers(p)'
  <2>1. pc'[p] \in {"sync", "restore", "entry", "syncing", "idle"}
    BY <1>2, GotoLeads, FinishLeads
    DEF CheckActivation, MirrorInSync, StartSync, EndSync, SyncFails, RightOperation
  <2> QED  BY <2>1 DEF Delivers, Unpublishing, Closing, CleaningLabels
<1>3. ASSUME FindEntry(p) PROVE Delivers(p)'
  <2>1. /\ pc'[p] = IF Name(p) \in Listed THEN "unlist" ELSE "unmirror"
        /\ Name(p)' = Name(p) /\ Op(p) = "delete"
    BY <1>3, GotoLeads DEF FindEntry, RightOperation
  <2> QED  BY <1>1, <2>1 DEF Delivers, Unpublishing, Closing, CleaningLabels
<1>4. ASSUME NoMirror(p) \/ StartUnmirror(p) \/ EndUnmirror(p) \/ UnmirrorFails(p)
      PROVE  Delivers(p)'
  <2>1. /\ pc[p] \in {"unmirror", "unmirroring"}
        /\ \/ pc'[p] = "idle"
           \/ pc'[p] = "unmirroring" /\ Name(p)' = Name(p)
           \/ /\ pc'[p] = AfterUnmirror(Op(p)) /\ Name(p)' = Name(p)
              /\ mirror'[Name(p)] = "absent"
    BY <1>1, <1>4, GotoLeads, FinishLeads
    DEF NoMirror, StartUnmirror, EndUnmirror, UnmirrorFails, TypeOK, StoreTypeOK, storeVars
  <2> QED
    BY <1>1, <2>1 DEF Delivers, Unpublishing, Closing, CleaningLabels, AfterUnmirror
<1>5. ASSUME StartUnsnap(p) \/ EndUnsnap(p) PROVE Delivers(p)'
  <2>1. /\ pc[p] \in {"unsnap", "unsnapping"} /\ Name(p)' = Name(p) /\ mirror' = mirror
        /\ \/ pc'[p] = "unsnapping"
           \/ pc'[p] = "cleanup" /\ snap'[Name(p)] = "none"
    BY <1>1, <1>5, GotoLeads DEF StartUnsnap, EndUnsnap, TypeOK, StoreTypeOK
  <2> QED
    BY <1>1, <2>1 DEF Delivers, Unpublishing, Closing, CleaningLabels
<1> QED  BY <1>2, <1>3, <1>4, <1>5 DEF MirrorSteps

\* Adding and removing an entry, for operations other than reconcile.
LEMMA EntryDelivers ==
  ASSUME TypeOK, FileInv, NEW p \in Procs, RightOperation(p), Delivers(p), BootEntrySteps(p),
         Op(p) # "reconcile"
  PROVE  Delivers(p)'
<1>1. UNCHANGED <<snap, mirror>> /\ Op(p)' = Op(p)
  BY SameOperation
  DEF BootEntrySteps, CheckEntry, EntryAlreadyListed, EntryAsBLS, EntryAsMenuentry,
      UnlistWithoutCustom, UnlistFromCustom, TruncateCustom, WriteCustom,
      WriteCustomFails, UpdateGrubConfig, UpdateGrubConfigFails, RollbackFails,
      OperationSteps, storeVars
<1>2. ASSUME \/ EntryAlreadyListed(p) \/ EntryAsBLS(p) \/ WriteCustomFails(p)
             \/ UpdateGrubConfigFails(p) \/ RollbackFails(p)
      PROVE  Delivers(p)'
  <2>1. pc'[p] = "idle"
    BY <1>2, FinishLeads
    DEF EntryAlreadyListed, EntryAsBLS, WriteCustomFails, UpdateGrubConfigFails,
        RollbackFails
  <2> QED  BY <2>1 DEF Delivers, Unpublishing, Closing, CleaningLabels
<1>3. ASSUME CheckEntry(p) PROVE Delivers(p)'
  <2>1. /\ pc'[p] \in {"list", "reload"} /\ Name(p)' = Name(p) /\ Op(p) = "activate"
        /\ snap[Name(p)] = "whole" /\ mirror[Name(p)] = "synced"
    BY <1>3, GotoLeads DEF CheckEntry, RightOperation, EntryPublishable
  <2> QED  BY <1>1, <2>1 DEF Delivers, Removals, Unpublishing, Closing, CleaningLabels
<1>4. ASSUME EntryAsMenuentry(p) PROVE Delivers(p)'
  <2>1. /\ pc[p] = "list" /\ pc'[p] = "truncate" /\ Name(p)' = Name(p)
        /\ Op(p) = "activate"
    BY <1>4, GotoLeads DEF EntryAsMenuentry, RewriteCustom, RightOperation
  <2>2. work'.target = custom \cup {Name(p)}
    BY <1>4 DEF EntryAsMenuentry, RewriteCustom, TypeOK, Work
  <2> QED  BY <1>1, <2>1, <2>2 DEF Delivers, Removals, Unpublishing, Closing, CleaningLabels
<1>5. ASSUME UnlistWithoutCustom(p) PROVE Delivers(p)'
  <2>1. /\ pc[p] = "unlist" /\ pc'[p] = AfterUnlist(Op(p)) /\ Name(p)' = Name(p)
        /\ Op(p) # "activate" /\ custom' = custom /\ bls' = bls \ {Name(p)}
        /\ customFile = "absent"
    BY <1>5, GotoLeads DEF UnlistWithoutCustom, RightOperation
  <2>2. Name(p) \notin Listed'
    BY <2>1 DEF FileInv, Listed
  <2> QED
    BY <1>1, <2>1, <2>2 DEF Delivers, Unpublishing, Closing, CleaningLabels, AfterUnlist
<1>6. ASSUME UnlistFromCustom(p) PROVE Delivers(p)'
  <2>1. /\ pc[p] = "unlist" /\ pc'[p] = "truncate" /\ Name(p)' = Name(p)
        /\ Op(p) # "activate" /\ bls' = bls \ {Name(p)}
    BY <1>6, GotoLeads DEF UnlistFromCustom, RewriteCustom, RightOperation
  <2>2. work'.target = custom \ {Name(p)}
    BY <1>6 DEF UnlistFromCustom, RewriteCustom, TypeOK, Work
  <2> QED  BY <1>1, <2>1, <2>2 DEF Delivers, Unpublishing, Closing, CleaningLabels
<1>7. ASSUME TruncateCustom(p) \/ WriteCustom(p) PROVE Delivers(p)'
  <2>1. /\ \/ pc[p] = "truncate" /\ pc'[p] = "write"
           \/ pc[p] = "write" /\ pc'[p] = "mkconfig" /\ custom' = work.target
        /\ Name(p)' = Name(p) /\ UNCHANGED <<bls, work>>
    BY <1>7, GotoLeads DEF TruncateCustom, WriteCustom
  <2> QED  BY <1>1, <2>1 DEF Delivers, Unpublishing, Closing, CleaningLabels, Listed
<1>8. ASSUME UpdateGrubConfig(p) PROVE Delivers(p)'
  <2>1. /\ pc[p] = "mkconfig" /\ UNCHANGED <<custom, bls>>
        /\ \/ pc'[p] = "idle"
           \/ /\ Op(p) # "activate" /\ pc'[p] = AfterUnlist(Op(p)) /\ Name(p)' = Name(p)
    BY <1>8, GotoLeads, FinishLeads DEF UpdateGrubConfig
  <2> QED
    BY <1>1, <2>1
    DEF Delivers, Unpublishing, Closing, CleaningLabels, Listed, AfterUnlist
<1> QED  BY <1>2, <1>3, <1>4, <1>5, <1>6, <1>7, <1>8 DEF BootEntrySteps

\* The module trees, and giving up, for operations other than reconcile.
LEMMA ModuleDelivers ==
  ASSUME TypeOK, NEW p \in Procs, RightOperation(p), Delivers(p),
         ModuleSteps(p) \/ GiveUp(p), Op(p) # "reconcile"
  PROVE  Delivers(p)'
<1>1. UNCHANGED <<snap, mirror, menuVars>> /\ Listed' = Listed /\ Op(p)' = Op(p)
  BY SameOperation
  DEF ModuleSteps, RestoreModules, RestoreFails, CleanupNotDue, HoldPackageLock,
      ChooseDoomed, ProtectionUnproved, StartPurge, EndPurge, PurgeFails, PurgeDone,
      ReleasePackageLock, GiveUp, OperationSteps, storeVars, menuVars, Listed
<1>2. ASSUME RestoreModules(p) \/ RestoreFails(p) PROVE Delivers(p)'
  <2>1. \/ pc'[p] \in {"sync", "idle"}
        \/ pc[p] = "reload" /\ pc'[p] = "list" /\ Name(p)' = Name(p) /\ Op(p) = "activate"
    BY <1>2, GotoLeads, FinishLeads DEF RestoreModules, RestoreFails, RightOperation
  <2> QED  BY <1>1, <2>1 DEF Delivers, Removals, Unpublishing, Closing, CleaningLabels
<1>3. ASSUME \/ CleanupNotDue(p) \/ HoldPackageLock(p) \/ ChooseDoomed(p)
             \/ ProtectionUnproved(p) \/ StartPurge(p) \/ EndPurge(p) \/ PurgeFails(p)
             \/ PurgeDone(p) \/ ReleasePackageLock(p) \/ GiveUp(p)
      PROVE  Delivers(p)'
  <2>1. \/ pc'[p] = "idle"
        \/ pc[p] \in Closing /\ pc'[p] \in CleaningLabels /\ Name(p)' = Name(p)
    BY <1>3, GotoLeads, FinishLeads
    DEF CleanupNotDue, HoldPackageLock, ChooseDoomed, ProtectionUnproved, StartPurge,
        EndPurge, PurgeFails, PurgeDone, ReleasePackageLock, GiveUp, Closing,
        CleaningLabels
  <2> QED  BY <1>1, <2>1 DEF Delivers, Unpublishing, Closing, CleaningLabels
<1> QED  BY <1>2, <1>3 DEF ModuleSteps

\* Only a creation is where snapshots are created.
LEMMA OutsideCreate ==
  ASSUME TypeOK, NEW p \in Procs, OperationSteps(p), ~CreateSteps(p)
  PROVE  pc'[p] \notin {"copy", "archive", "publish"}
<1>1. ASSUME BootEntrySteps(p) PROVE pc'[p] \notin {"copy", "archive", "publish"}
  BY <1>1, GotoLeads, FinishLeads
  DEF BootEntrySteps, CheckEntry, EntryAlreadyListed, EntryAsBLS, EntryAsMenuentry,
      UnlistWithoutCustom, UnlistFromCustom, RewriteCustom, TruncateCustom,
      WriteCustom, WriteCustomFails, UpdateGrubConfig, UpdateGrubConfigFails,
      RollbackFails, AfterUnlist
<1> QED
  BY <1>1, MirrorLeads, ReconcileLeads, ModuleLeads DEF OperationSteps, CleaningLabels

\* Every step of an operation establishes what its next label stands for.
LEMMA OperationDelivers ==
  ASSUME TypeOK, FileInv, NEW p \in Procs, RightOperation(p), Delivers(p), OperationSteps(p)
  PROVE  Delivers(p)'
<1>1. ASSUME pc'[p] = "idle" PROVE Delivers(p)'
  BY <1>1 DEF Delivers, Unpublishing, Closing, CleaningLabels
<1>2. ASSUME CreateSteps(p) PROVE Delivers(p)'
  <2>1. pc'[p] \in {"archive", "publish", "idle"}
    BY <1>2, GotoLeads, FinishLeads
    DEF CreateSteps, CopyBoot, ArchiveModules, PublishSnapshot, TypeOK, ProcTypeOK
  <2>2. Op(p) = "create" /\ Op(p)' = "create"
    BY <1>2, SameOperation
    DEF CreateSteps, CopyBoot, ArchiveModules, PublishSnapshot, Delivers, OperationSteps
  <2> QED  BY <2>1, <2>2 DEF Delivers, Removals
<1>3. ASSUME ReconcileSteps(p) PROVE Op(p) = "reconcile"
  BY <1>3
  DEF ReconcileSteps, Scan, VisitMirrorToDrop, VisitInactive, VisitUntrusted,
      VisitActive, VisitsDone, RemoveStale, StaleDone, RightOperation
<1>4. ASSUME Op(p) = "reconcile", ~CreateSteps(p) PROVE Delivers(p)'
  <2>1. Op(p)' = "reconcile"
    BY <1>4, SameOperation
  <2>2. pc'[p] \notin {"copy", "archive", "publish"}
    BY <1>4, OutsideCreate
  <2> QED  BY <2>1, <2>2 DEF Delivers, Removals
<1>5. ASSUME MirrorSteps(p), Op(p) # "reconcile" PROVE Delivers(p)'
  BY <1>5, MirrorDelivers
<1>6. ASSUME BootEntrySteps(p), Op(p) # "reconcile" PROVE Delivers(p)'
  BY <1>6, EntryDelivers
<1>7. ASSUME ModuleSteps(p) \/ GiveUp(p), Op(p) # "reconcile" PROVE Delivers(p)'
  BY <1>7, ModuleDelivers
<1> QED  BY <1>2, <1>3, <1>4, <1>5, <1>6, <1>7 DEF OperationSteps

\* Nothing that happens meanwhile takes it away again.
LEMMA NextDelivers ==
  ASSUME TypeOK, OneOperation, OpInv, FileInv, NoStartup, IdleInv, DeliverInv, [Next]_vars
  PROVE  DeliverInv'
<1> SUFFICES ASSUME NEW q \in Procs, ~Resting(q)' PROVE Delivers(q)'
  BY DEF DeliverInv, Delivers, Resting, Unpublishing, Closing, CleaningLabels
<1>1. ASSUME NEW p \in Procs, OperationSteps(p) PROVE Delivers(q)'
  <2>1. q = p
    BY <1>1, OthersRest
  <2> QED  BY <1>1, <2>1, OperationDelivers DEF OpInv, DeliverInv
<1>2. ASSUME NEW p \in Procs, Acquire(p) PROVE Delivers(q)'
  <2>1. CASE q = p
    <3>1. /\ pc'[p] = FirstStep(Op(p)) /\ Op(p)' = Op(p) /\ Name(p)' = Name(p)
          /\ Op(p) \in AllOperations
      BY <1>2 DEF Acquire, TypeOK, ProcTypeOK, Op, Name, Task
    <3> QED
      BY <2>1, <3>1
      DEF FirstStep, AllOperations, Delivers, Removals, Unpublishing, Closing,
          CleaningLabels
  <2>2. CASE q # p
    <3>1. FALSE
      BY <1>2, <2>2, ConstantsOK DEF Acquire, TypeOK, ProcTypeOK, OneOperation, Resting
    <3> QED  BY <3>1
  <2> QED  BY <2>1, <2>2
<1>3. ASSUME \/ \E p \in Procs : Request(p) \/ Kill(p)
             \/ Surroundings
             \/ UNCHANGED vars
      PROVE  Delivers(q)'
  <2>1. pc'[q] = pc[q] /\ Op(q)' = Op(q) /\ Name(q)' = Name(q) /\ work' = work
    BY <1>3, OutsideSteps
  <2>2. UNCHANGED <<storeVars, menuVars>>
    BY <1>3, StoreStays, MenuStays
  <2>3. Delivers(q)
    BY DEF DeliverInv
  <2> QED  BY <2>1, <2>2, <2>3 DEF Delivers, storeVars, menuVars, Listed
<1> QED  BY <1>1, <1>2, <1>3 DEF Next, ProcSteps

\* What has to be the case when an operation reports success.
Reported(p) ==
    CASE Op(p) = "activate" ->
             /\ Name(p) \in Listed'
             /\ snap'[Name(p)] = "whole" /\ mirror'[Name(p)] = "synced"
      [] Op(p) = "remove"     -> Name(p) \notin Listed'
      [] Op(p) = "deactivate" -> Name(p) \notin Listed' /\ mirror'[Name(p)] = "absent"
      [] Op(p) = "delete" ->
             /\ Name(p) \notin Listed'
             /\ mirror'[Name(p)] = "absent" /\ snap'[Name(p)] = "none"
      [] OTHER -> TRUE

\* The steps with which an operation reports success.
LEMMA SuccessfulSteps ==
  ASSUME TypeOK, NEW p \in Procs, OperationSteps(p), Returns(p, {"ok", "warn"})
  PROVE  \/ PublishSnapshot(p) \/ EntryAlreadyListed(p) \/ EntryAsBLS(p)
         \/ UpdateGrubConfig(p) /\ Op(p) = "activate"
         \/ CleanupNotDue(p) \/ ReleasePackageLock(p)
         \/ GiveUp(p) /\ pc[p] = "cleanup"
<1>1. pc'[p] = "idle" /\ result'[p] \in {"ok", "warn"}
  BY DEF Returns
<1>2. ASSUME NEW r \in {"error", "partial"}, Finish(p, r) PROVE FALSE
  BY <1>1, <1>2 DEF Finish, TypeOK, ProcTypeOK
<1>3. ASSUME NEW label, Goto(p, label) PROVE label = "idle"
  BY <1>1, <1>3, GotoLeads
<1>4. ASSUME CreateSteps(p) PROVE PublishSnapshot(p)
  BY <1>1, <1>3, <1>4 DEF CreateSteps, CopyBoot, ArchiveModules, TypeOK, ProcTypeOK
<1>5. ASSUME MirrorSteps(p) PROVE FALSE
  <2>1. \/ \E label \in {"sync", "restore", "entry", "syncing", "visit", "unlist", "unmirror",
                        "unmirroring", "unsnap", "unsnapping", "cleanup"} : Goto(p, label)
        \/ Finish(p, "error")
    BY <1>5
    DEF MirrorSteps, CheckActivation, MirrorInSync, StartSync, EndSync, SyncFails,
        FindEntry, NoMirror, StartUnmirror, EndUnmirror, UnmirrorFails, StartUnsnap,
        EndUnsnap, AfterUnmirror
  <2> QED  BY <1>2, <1>3, <2>1
<1>6. ~ReconcileSteps(p)
  BY <1>1, ReconcileLeads
<1>7. ASSUME BootEntrySteps(p)
      PROVE  \/ EntryAlreadyListed(p) \/ EntryAsBLS(p)
             \/ UpdateGrubConfig(p) /\ Op(p) = "activate"
  <2>1. ~(WriteCustomFails(p) \/ UpdateGrubConfigFails(p) \/ RollbackFails(p))
    BY <1>2 DEF WriteCustomFails, UpdateGrubConfigFails, RollbackFails, EntryFailure
  <2>2. ~(CheckEntry(p) \/ EntryAsMenuentry(p) \/ UnlistWithoutCustom(p)
          \/ UnlistFromCustom(p) \/ TruncateCustom(p) \/ WriteCustom(p))
    BY <1>3
    DEF CheckEntry, EntryAsMenuentry, UnlistWithoutCustom, UnlistFromCustom,
        RewriteCustom, TruncateCustom, WriteCustom, AfterUnlist
  <2>3. UpdateGrubConfig(p) => Op(p) = "activate"
    BY <1>3 DEF UpdateGrubConfig, AfterUnlist
  <2> QED  BY <1>7, <2>1, <2>2, <2>3 DEF BootEntrySteps
<1>8. ASSUME ModuleSteps(p) PROVE CleanupNotDue(p) \/ ReleasePackageLock(p)
  <2>1. ~(RestoreModules(p) \/ RestoreFails(p))
    BY <1>2, <1>3 DEF RestoreModules, RestoreFails
  <2>2. ~(ChooseDoomed(p) \/ ProtectionUnproved(p) \/ StartPurge(p) \/ EndPurge(p)
          \/ PurgeFails(p) \/ PurgeDone(p) \/ HoldPackageLock(p))
    BY <1>3
    DEF ChooseDoomed, ProtectionUnproved, StartPurge, EndPurge, PurgeFails, PurgeDone,
        HoldPackageLock
  <2> QED  BY <1>8, <2>1, <2>2 DEF ModuleSteps
<1>9. ASSUME GiveUp(p) PROVE pc[p] = "cleanup"
  BY <1>2, <1>9 DEF GiveUp, AbortResult
<1> QED  BY <1>4, <1>5, <1>6, <1>7, <1>8, <1>9 DEF OperationSteps

\* An operation that reports success has nothing of what it touched to itself.
LEMMA SuccessOutside ==
  ASSUME TypeOK, NEW q \in Procs, [Next]_vars, Returns(q, {"ok", "warn"})
  PROVE  OperationSteps(q)
<1> USE DEF Returns, TypeOK, ProcTypeOK
<1>1. ASSUME NEW p \in Procs, OperationSteps(p) PROVE p = q
  BY <1>1, OperationStepsShape DEF StepShape
<1>2. ASSUME NEW p \in Procs, Request(p) \/ Acquire(p) \/ Kill(p) PROVE FALSE
  <2>1. FirstStep(Op(p)) # "idle"
    BY DEF FirstStep, Op, Task, AllOperations
  <2> QED  BY <1>2, <2>1 DEF Request, Acquire, Kill
<1>3. ASSUME Surroundings PROVE FALSE
  BY <1>3
  DEF Surroundings, PackageSteps, PackageBegins, PackageReplacesTree,
      PackageReplacesImage, PackageEnds, StartupSteps, StartupReads, StartupWrites,
      Reboot, BootRecovery, PowerCycle, ClearDbLock, DamageSnapshot, LoseSnapshot,
      procVars
<1>4. ~UNCHANGED vars
  BY DEF vars, procVars
<1> QED  BY <1>1, <1>2, <1>3, <1>4 DEF Next, ProcSteps

\* Where success is reported, what it stands for is the case.
LEMMA SuccessReported ==
  ASSUME TypeOK, OpInv, DeliverInv, [Next]_vars, NEW p \in Procs,
         Returns(p, {"ok", "warn"})
  PROVE  Reported(p)
<1>1. OperationSteps(p)
  BY SuccessOutside
<1>2. Delivers(p) /\ RightOperation(p)
  BY DEF DeliverInv, OpInv
<1>3. CASE PublishSnapshot(p)
  BY <1>2, <1>3 DEF PublishSnapshot, Delivers, Reported
<1>4. CASE EntryAlreadyListed(p)
  BY <1>2, <1>4
  DEF EntryAlreadyListed, Delivers, RightOperation, Reported, storeVars, menuVars, Listed
<1>5. CASE EntryAsBLS(p)
  BY <1>2, <1>5 DEF EntryAsBLS, Delivers, RightOperation, Reported, storeVars, Listed
<1>6. CASE UpdateGrubConfig(p) /\ Op(p) = "activate"
  BY <1>2, <1>6 DEF UpdateGrubConfig, Delivers, Reported, storeVars, Listed
<1>7. CASE CleanupNotDue(p) \/ ReleasePackageLock(p) \/ (GiveUp(p) /\ pc[p] = "cleanup")
  <2>1. pc[p] \in Closing /\ UNCHANGED <<snap, mirror, Listed>>
    BY <1>7
    DEF CleanupNotDue, ReleasePackageLock, GiveUp, Closing, CleaningLabels, storeVars,
        menuVars, Listed
  <2> QED  BY <1>2, <2>1 DEF Delivers, Removals, Reported
<1> QED  BY <1>1, <1>3, <1>4, <1>5, <1>6, <1>7, SuccessfulSteps

\* Without starting TUIs nothing is left over between operations.
LEMMA AlwaysIdle ==
  ASSUME NoStartup
  PROVE  Spec => []IdleInv
<1>1. Init => IdleInv
  BY DEF Init, IdleInv
<1>2. TypeOK /\ OneOperation /\ IdleInv /\ [Next]_vars => IdleInv'
  BY NoStartup, NextIdle
<1> QED  BY <1>1, <1>2, TypeCorrect, MutualExclusion, PTL DEF Spec

\* Without starting TUIs every label stands for what it should.
LEMMA OperationsDeliver ==
  ASSUME NoStartup
  PROVE  Spec => []DeliverInv
<1>1. Init => DeliverInv
  BY DEF Init, DeliverInv, Delivers, Removals, Unpublishing, Closing, CleaningLabels
<1>2. TypeOK /\ OneOperation /\ OpInv /\ FileInv /\ IdleInv /\ DeliverInv /\ [Next]_vars
      => DeliverInv'
  BY NoStartup, NextDelivers
<1> QED
  BY <1>1, <1>2, TypeCorrect, MutualExclusion, OperationsRight, EntriesInFile,
     AlwaysIdle, NoStartup, PTL
  DEF Spec

\* What the caller of a successful activation, deactivation, removal or deletion is
\* told is the case when the operation returns, also when the cleanup after it only
\* left a warning, and whatever crashes and failures came before.
THEOREM SuccessIsReal ==
  ASSUME NoStartup
  PROVE  Spec => ReportedDone
<1>1. TypeOK /\ OpInv /\ DeliverInv /\ [Next]_vars
      => [\A p \in Procs :
            LET s == Name(p) IN
            Returns(p, {"ok", "warn"}) =>
              CASE Op(p) = "activate" ->
                       /\ s \in Listed'
                       /\ snap'[s] = "whole" /\ mirror'[s] = "synced"
                [] Op(p) = "remove"     -> s \notin Listed'
                [] Op(p) = "deactivate" -> s \notin Listed' /\ mirror'[s] = "absent"
                [] Op(p) = "delete" ->
                       /\ s \notin Listed'
                       /\ mirror'[s] = "absent" /\ snap'[s] = "none"
                [] OTHER -> TRUE]_vars
  BY SuccessReported DEF Reported
<1> QED
  BY <1>1, TypeCorrect, OperationsRight, OperationsDeliver, NoStartup, PTL
  DEF Spec, ReportedDone

=============================================================================
