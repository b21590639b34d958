-------------------------- MODULE OperationProofs --------------------------
(***************************************************************************)
(* What the labels of a running operation say; a proof that reconcile      *)
(* keeps the entries it has to keep, whatever fails; and a bound on the    *)
(* steps any operation can take.                                           *)
(*                                                                         *)
(* OpInv ties every label to the operations that have it.  KeepInv follows *)
(* an entry that could boot when reconcile began: until the visits are     *)
(* over it is still to be visited, being visited or kept; after them it is *)
(* not among the stale ones.  Ahead counts the steps an operation has      *)
(* ahead of it at most.                                                    *)
(***************************************************************************)
EXTENDS RecoveryProofs, FiniteSetTheorems

\* What a label says about the operation that is there.
RightOperation(p) ==
    /\ pc[p] \in {"check", "entry", "reload", "list"} => Op(p) = "activate"
    /\ pc[p] \in {"restore", "sync", "syncing"} => Op(p) \in {"activate", "reconcile"}
    /\ pc[p] \in {"scan", "visit", "stale"} => Op(p) = "reconcile"
    /\ pc[p] \in {"exists", "unsnap", "unsnapping"} => Op(p) = "delete"
    /\ pc[p] = "unlist" => Op(p) # "activate"

\* Every process is where its operation can be.
OpInv == \A p \in Procs : RightOperation(p)

\* reconcile's copy of IsBootReady for an entry it found: the snapshot is
\* complete, the mirror is in sync and the modules were there at the scan.
Trusted(s) ==
    /\ s \in work.active
    /\ snap[s] = "whole"
    /\ mirror[s] = "synced"
    /\ ver[s] \in work.seen

\* What reconcile will still visit, or has decided to keep.
Pending == work.todo \cup work.valid

\* Where a trusted entry is on its way through syncBackupsAndGrub.
KeepsTrusted(p) ==
    \A s \in Snaps :
      Trusted(s) =>
        /\ pc[p] \in {"visit", "unmirror", "unmirroring"} => s \in Pending
        /\ pc[p] = "restore" => s \in Pending
        /\ pc[p] \in {"sync", "syncing"} => s \in Pending \cup {Name(p)}
        /\ pc[p] = "stale" => s \notin work.todo
        /\ pc[p] \in {"unlist", "truncate", "write", "mkconfig"} =>
               s \notin work.todo \cup {Name(p)}

\* The strengthening of BootableEntriesKept that every step preserves.
KeepInv == \A p \in Procs : Op(p) = "reconcile" => KeepsTrusted(p)

-----------------------------------------------------------------------------
(* Where a step leads.                                                     *)

\* Outside withRecoveryOperation's critical section.
Resting(p) == pc[p] \in {"idle", "waiting"}

\* A step within an operation moves its label and nothing else of the process.
LEMMA GotoLeads ==
  ASSUME TypeOK, NEW p \in Procs, NEW label, Goto(p, label)
  PROVE  pc'[p] = label /\ Op(p)' = Op(p) /\ Name(p)' = Name(p)
BY DEF Goto, TypeOK, ProcTypeOK, Op, Name

\* A return leads out of the operation.
LEMMA FinishLeads ==
  ASSUME TypeOK, NEW p \in Procs, NEW r, Finish(p, r)
  PROVE  pc'[p] = "idle"
BY DEF Finish, TypeOK, ProcTypeOK

\* reconcile turns to a snapshot and the label that treats it.
LEMMA VisitLeads ==
  ASSUME TypeOK, NEW p \in Procs, NEW s \in Snaps, NEW label, VisitAs(p, s, label)
  PROVE  pc'[p] = label /\ Op(p)' = Op(p) /\ Name(p)' = s
BY DEF VisitAs, TypeOK, ProcTypeOK, Op, Name, Task

\* Only the process that takes a step of its operation is past waiting after it.
LEMMA OthersRest ==
  ASSUME TypeOK, OneOperation, NEW p \in Procs, OperationSteps(p)
  PROVE  \A q \in Procs \ {p} : Resting(q)'
<1>1. StepShape(p)
  BY OperationStepsShape
<1> QED  BY <1>1 DEF StepShape, OneOperation, Resting

\* A step between or around operations leads no process into one, or past
\* where it is in one.
LEMMA OutsideSteps ==
  ASSUME TypeOK, OneOperation, NEW q \in Procs, ~Resting(q)',
         \/ \E p \in Procs : Request(p) \/ Kill(p)
         \/ Surroundings
         \/ UNCHANGED vars
  PROVE  pc'[q] = pc[q] /\ Op(q)' = Op(q) /\ Name(q)' = Name(q) /\ work' = work
<1> USE DEF TypeOK, ProcTypeOK, Resting, Op, Name
<1>1. ASSUME NEW p \in Procs, Request(p)
      PROVE  pc'[q] = pc[q] /\ task'[q] = task[q] /\ work' = work
  <2>1. p # q
    BY <1>1 DEF Request
  <2> QED  BY <1>1, <2>1 DEF Request
<1>2. ASSUME NEW p \in Procs, Kill(p)
      PROVE  pc'[q] = pc[q] /\ task'[q] = task[q] /\ work' = work
  <2>1. p # q
    BY <1>2 DEF Kill
  <2>2. lock # p
    BY <1>2, <2>1 DEF Kill, OneOperation
  <2> QED  BY <1>2, <2>1, <2>2 DEF Kill
<1>3. ASSUME Surroundings PROVE pc'[q] = pc[q] /\ task'[q] = task[q] /\ work' = work
  <2>1. ~Reboot /\ ~BootRecovery
    BY DEF Reboot, BootRecovery, PowerCycle
  <2> QED
    BY <1>3, <2>1
    DEF Surroundings, PackageSteps, PackageBegins, PackageReplacesTree,
        PackageReplacesImage, PackageEnds, StartupSteps, StartupReads, StartupWrites,
        ClearDbLock, DamageSnapshot, LoseSnapshot, procVars
<1>4. ASSUME UNCHANGED vars PROVE pc'[q] = pc[q] /\ task'[q] = task[q] /\ work' = work
  BY <1>4 DEF vars, procVars
<1> QED  BY <1>1, <1>2, <1>3, <1>4

-----------------------------------------------------------------------------
(* The operation a label belongs to.                                       *)

\* No step of an operation leads to a label of another one.
LEMMA OperationKeepsRight ==
  ASSUME TypeOK, NEW p \in Procs, RightOperation(p), OperationSteps(p)
  PROVE  RightOperation(p)'
<1> USE GotoLeads, FinishLeads DEF RightOperation
<1>1. ASSUME CreateSteps(p) PROVE RightOperation(p)'
  <2>1. pc'[p] \in {"archive", "publish", "idle"}
    BY <1>1 DEF CreateSteps, CopyBoot, ArchiveModules, PublishSnapshot, TypeOK, ProcTypeOK
  <2> QED  BY <2>1
<1>2. ASSUME MirrorSteps(p) PROVE RightOperation(p)'
  <2>1. ASSUME SyncFails(p) \/ UnmirrorFails(p) PROVE RightOperation(p)'
    <3>1. \/ Goto(p, "visit") /\ Op(p) = "reconcile"
          \/ Finish(p, "error")
      BY <2>1 DEF SyncFails, UnmirrorFails
    <3> QED  BY <3>1
  <2>2. ASSUME EndSync(p) \/ StartSync(p) PROVE RightOperation(p)'
    <3>1. Op(p) \in {"activate", "reconcile"}
      BY <2>2 DEF EndSync, StartSync
    <3>2. \/ Goto(p, "entry") /\ Op(p) = "activate"
          \/ Goto(p, "visit") /\ Op(p) = "reconcile"
          \/ Goto(p, "syncing")
      BY <2>2, <3>1 DEF EndSync, StartSync
    <3> QED  BY <3>1, <3>2
  <2> QED
    BY <1>2, <2>1, <2>2
    DEF MirrorSteps, CheckActivation, MirrorInSync, FindEntry, NoMirror, StartUnmirror,
        EndUnmirror, StartUnsnap, EndUnsnap, AfterUnmirror
<1>3. ASSUME ReconcileSteps(p) PROVE RightOperation(p)'
  <2>1. ASSUME VisitMirrorToDrop(p) \/ VisitActive(p) \/ RemoveStale(p)
        PROVE  RightOperation(p)'
    <3>1. Op(p) = "reconcile"
      BY <2>1 DEF VisitMirrorToDrop, VisitActive, RemoveStale
    <3>2. PICK s \in Snaps, label \in {"unmirror", "sync", "restore", "unlist"} :
              VisitAs(p, s, label)
      BY <2>1 DEF VisitMirrorToDrop, VisitActive, RemoveStale, TypeOK, Work
    <3> QED  BY <3>1, <3>2, VisitLeads
  <2>2. ASSUME \/ Scan(p) \/ VisitInactive(p) \/ VisitUntrusted(p)
               \/ VisitsDone(p) \/ StaleDone(p)
        PROVE  RightOperation(p)'
    <3>1. Op(p) = "reconcile"
      BY <2>2 DEF Scan, VisitInactive, VisitUntrusted, VisitsDone, StaleDone
    <3>2. \E label \in {"visit", "stale", "cleanup"} : Goto(p, label)
      BY <2>2 DEF Scan, VisitInactive, VisitUntrusted, VisitsDone, StaleDone
    <3> QED  BY <3>1, <3>2
  <2> QED  BY <1>3, <2>1, <2>2 DEF ReconcileSteps
<1>4. ASSUME BootEntrySteps(p) PROVE RightOperation(p)'
  BY <1>4
  DEF BootEntrySteps, CheckEntry, EntryAlreadyListed, EntryAsBLS, EntryAsMenuentry,
      UnlistWithoutCustom, UnlistFromCustom, TruncateCustom, WriteCustom,
      WriteCustomFails, UpdateGrubConfig, UpdateGrubConfigFails, RollbackFails,
      RewriteCustom, AfterUnlist
<1>5. ASSUME ModuleSteps(p) PROVE RightOperation(p)'
  <2>1. ASSUME HoldPackageLock(p) PROVE RightOperation(p)'
    BY <2>1 DEF HoldPackageLock
  <2>2. ASSUME RestoreModules(p) \/ RestoreFails(p) PROVE RightOperation(p)'
    <3>1. \/ Goto(p, "sync") /\ pc[p] = "restore"
          \/ Goto(p, "list") /\ pc[p] = "reload"
          \/ Goto(p, "visit") /\ Op(p) = "reconcile"
          \/ Finish(p, "error")
      BY <2>2 DEF RestoreModules, RestoreFails
    <3> QED  BY <3>1
  <2>3. ASSUME \/ CleanupNotDue(p) \/ ChooseDoomed(p) \/ ProtectionUnproved(p)
               \/ StartPurge(p) \/ EndPurge(p) \/ PurgeFails(p) \/ PurgeDone(p)
               \/ ReleasePackageLock(p)
        PROVE  RightOperation(p)'
    <3>1. \/ \E label \in CleaningLabels : Goto(p, label)
          \/ Finish(p, CleanupResult(p))
      BY <2>3
      DEF CleanupNotDue, ChooseDoomed, ProtectionUnproved, StartPurge, EndPurge,
          PurgeFails, PurgeDone, ReleasePackageLock, CleaningLabels
    <3> QED  BY <3>1 DEF CleaningLabels
  <2> QED  BY <1>5, <2>1, <2>2, <2>3 DEF ModuleSteps
<1>6. ASSUME GiveUp(p) PROVE RightOperation(p)'
  BY <1>6 DEF GiveUp
<1> QED  BY <1>1, <1>2, <1>3, <1>4, <1>5, <1>6 DEF OperationSteps

\* No step at all leads to a label of another operation.
LEMMA NextRight ==
  ASSUME TypeOK, OneOperation, OpInv, [Next]_vars
  PROVE  OpInv'
<1> SUFFICES ASSUME NEW q \in Procs, ~Resting(q)' PROVE RightOperation(q)'
  BY DEF OpInv, RightOperation, Resting
<1>1. ASSUME NEW p \in Procs, OperationSteps(p) PROVE RightOperation(q)'
  <2>1. q = p
    BY <1>1, OthersRest
  <2> QED  BY <1>1, <2>1, OperationKeepsRight DEF OpInv
<1>2. ASSUME NEW p \in Procs, Acquire(p) PROVE RightOperation(q)'
  <2>1. CASE q = p
    <3>1. pc'[p] = FirstStep(Op(p)) /\ Op(p)' = Op(p) /\ Op(p) \in AllOperations
      BY <1>2 DEF Acquire, TypeOK, ProcTypeOK, Op, Task
    <3> QED  BY <2>1, <3>1 DEF FirstStep, RightOperation, AllOperations
  <2>2. CASE q # p
    BY <1>2, <2>2 DEF Acquire, TypeOK, ProcTypeOK, Op, OpInv, RightOperation
  <2> QED  BY <2>1, <2>2
<1>3. ASSUME \/ \E p \in Procs : Request(p) \/ Kill(p)
             \/ Surroundings
             \/ UNCHANGED vars
      PROVE  RightOperation(q)'
  BY <1>3, OutsideSteps DEF OpInv, RightOperation
<1> QED  BY <1>1, <1>2, <1>3 DEF Next, ProcSteps

\* Every label belongs to the operation that is running.
LEMMA OperationsRight == Spec => []OpInv
<1>1. Init => OpInv
  BY DEF Init, OpInv, RightOperation
<1>2. TypeOK /\ OneOperation /\ OpInv /\ [Next]_vars => OpInv'
  BY NextRight
<1> QED  BY <1>1, <1>2, TypeCorrect, MutualExclusion, PTL DEF Spec

\* An operation stays the one that was asked for.
LEMMA SameOperation ==
  ASSUME TypeOK, NEW p \in Procs, OperationSteps(p)
  PROVE  Op(p)' = Op(p)
<1> USE DEF Goto, Finish, VisitAs, Op, TypeOK, ProcTypeOK
<1>1. ASSUME task' = task PROVE Op(p)' = Op(p)
  BY <1>1
<1>2. ASSUME CreateSteps(p) PROVE Op(p)' = Op(p)
  BY <1>2 DEF CreateSteps, CopyBoot, ArchiveModules, PublishSnapshot, Task
<1>3. ASSUME MirrorSteps(p) PROVE task' = task
  BY <1>3
  DEF MirrorSteps, CheckActivation, MirrorInSync, StartSync, EndSync, SyncFails,
      FindEntry, NoMirror, StartUnmirror, EndUnmirror, UnmirrorFails, StartUnsnap,
      EndUnsnap
<1>4. ASSUME ReconcileSteps(p) PROVE Op(p)' = Op(p)
  <2>1. \/ task' = task
        \/ \E s \in Snaps : task' = [task EXCEPT ![p].name = s]
    BY <1>4
    DEF ReconcileSteps, Scan, VisitMirrorToDrop, VisitInactive, VisitUntrusted,
        VisitActive, VisitsDone, RemoveStale, StaleDone, Work
  <2> QED  BY <2>1 DEF Task
<1>5. ASSUME BootEntrySteps(p) PROVE task' = task
  BY <1>5
  DEF BootEntrySteps, CheckEntry, EntryAlreadyListed, EntryAsBLS, EntryAsMenuentry,
      UnlistWithoutCustom, UnlistFromCustom, RewriteCustom, TruncateCustom,
      WriteCustom, WriteCustomFails, UpdateGrubConfig, UpdateGrubConfigFails,
      RollbackFails
<1>6. ASSUME ModuleSteps(p) \/ GiveUp(p) PROVE task' = task
  BY <1>6
  DEF ModuleSteps, RestoreModules, RestoreFails, CleanupNotDue, HoldPackageLock,
      ChooseDoomed, ProtectionUnproved, StartPurge, EndPurge, PurgeFails, PurgeDone,
      ReleasePackageLock, GiveUp
<1> QED  BY <1>1, <1>2, <1>3, <1>4, <1>5, <1>6 DEF OperationSteps

-----------------------------------------------------------------------------
(* What reconcile keeps.                                                   *)

\* A step that makes no entry trusted and loses none of those kept.
LEMMA StillKept ==
  ASSUME NEW p \in Procs, KeepsTrusted(p), Name(p)' = Name(p),
         \A s \in Snaps : Trusted(s)' => Trusted(s),
         Pending \subseteq Pending', work'.todo = work.todo,
         \/ pc'[p] = pc[p]
         \/ pc[p] = "visit" /\ pc'[p] = "visit"
         \/ pc[p] = "restore" /\ pc'[p] \in {"sync", "visit"}
         \/ pc[p] = "sync" /\ pc'[p] = "syncing"
         \/ pc[p] = "unmirror" /\ pc'[p] \in {"unmirroring", "visit"}
         \/ pc[p] = "unmirroring" /\ pc'[p] = "visit"
         \/ pc[p] = "unlist" /\ pc'[p] \in {"truncate", "stale"}
         \/ pc[p] = "truncate" /\ pc'[p] = "write"
         \/ pc[p] = "write" /\ pc'[p] = "mkconfig"
         \/ pc[p] = "mkconfig" /\ pc'[p] = "stale"
  PROVE  KeepsTrusted(p)'
BY DEF KeepsTrusted

\* The labels KeepsTrusted says something about.
KeepingLabels ==
    {"visit", "unmirror", "unmirroring", "restore", "sync", "syncing", "stale",
     "unlist", "truncate", "write", "mkconfig"}

\* Copying to and removing mirrors loses no trusted entry: a failed copy keeps
\* the entry of a snapshot that was bootable.
LEMMA MirrorKeeps ==
  ASSUME TypeOK, NEW p \in Procs, RightOperation(p), Op(p) = "reconcile",
         KeepsTrusted(p), MirrorSteps(p)
  PROVE  KeepsTrusted(p)'
<1> USE GotoLeads, FinishLeads
<1>1. ASSUME pc'[p] \notin KeepingLabels PROVE KeepsTrusted(p)'
  BY <1>1 DEF KeepingLabels, KeepsTrusted
<1>2. ASSUME CheckActivation(p) \/ MirrorInSync(p) \/ FindEntry(p) PROVE FALSE
  BY <1>2 DEF CheckActivation, MirrorInSync, FindEntry, RightOperation
<1>3. ASSUME StartSync(p) PROVE KeepsTrusted(p)'
  <2>1. pc[p] = "sync" /\ pc'[p] = "syncing" /\ Name(p)' = Name(p)
    BY <1>3 DEF StartSync
  <2>2. /\ UNCHANGED <<snap, ver>>
        /\ \A s \in Snaps : mirror'[s] = "synced" => mirror[s] = "synced"
    BY <1>3 DEF StartSync, TypeOK, StoreTypeOK
  <2>3. /\ work'.active = work.active /\ work'.seen = work.seen
        /\ work'.todo = work.todo /\ work'.valid = work.valid
    BY <1>3 DEF StartSync, TypeOK, Work
  <2> QED  BY <2>1, <2>2, <2>3, StillKept DEF Trusted, Pending
<1>4. ASSUME EndSync(p) PROVE KeepsTrusted(p)'
  <2>1. pc[p] = "syncing" /\ pc'[p] = "visit"
    BY <1>4 DEF EndSync
  <2>2. UNCHANGED <<snap, ver>> /\ \A s \in Snaps \ {Name(p)} : mirror'[s] = mirror[s]
    BY <1>4 DEF EndSync, TypeOK, StoreTypeOK
  <2>3. /\ work'.active = work.active /\ work'.seen = work.seen
        /\ work'.todo = work.todo /\ work'.valid = work.valid \cup {Name(p)}
    BY <1>4 DEF EndSync, TypeOK, Work
  <2> QED  BY <2>1, <2>2, <2>3 DEF KeepsTrusted, Trusted, Pending
<1>5. ASSUME SyncFails(p) PROVE KeepsTrusted(p)'
  <2>1. pc[p] = "syncing" /\ pc'[p] = "visit"
    BY <1>5 DEF SyncFails
  <2>2. /\ UNCHANGED <<snap, ver>>
        /\ \A s \in Snaps : mirror'[s] = "synced" => mirror[s] = "synced"
    BY <1>5 DEF SyncFails, TypeOK, StoreTypeOK
  <2>3. /\ work'.active = work.active /\ work'.seen = work.seen
        /\ work'.todo = work.todo
        /\ work'.valid = work.valid \cup {s \in {Name(p)} : WasBootable(s)}
    BY <1>5 DEF SyncFails, TypeOK, Work
  <2>4. \A s \in Snaps : Trusted(s)' => Trusted(s) /\ WasBootable(s)
    BY <2>2, <2>3 DEF Trusted, WasBootable
  <2> QED  BY <2>1, <2>3, <2>4 DEF KeepsTrusted, Pending
<1>6. ASSUME NoMirror(p) \/ StartUnmirror(p) \/ EndUnmirror(p) \/ UnmirrorFails(p)
      PROVE  KeepsTrusted(p)'
  <2>1. /\ pc[p] \in {"unmirror", "unmirroring"} /\ Name(p)' = Name(p)
        /\ \/ pc[p] = "unmirror" /\ pc'[p] = "unmirroring"
           \/ pc'[p] = "visit"
    BY <1>6 DEF NoMirror, StartUnmirror, EndUnmirror, UnmirrorFails, AfterUnmirror
  <2>2. /\ UNCHANGED <<snap, ver>>
        /\ \A s \in Snaps : mirror'[s] = "synced" => mirror[s] = "synced"
    BY <1>6 DEF NoMirror, StartUnmirror, EndUnmirror, UnmirrorFails, TypeOK,
        StoreTypeOK, storeVars
  <2>3. /\ work'.active = work.active /\ work'.seen = work.seen
        /\ work'.todo = work.todo /\ work'.valid = work.valid
    BY <1>6 DEF NoMirror, StartUnmirror, EndUnmirror, UnmirrorFails, TypeOK, Work
  <2> QED  BY <2>1, <2>2, <2>3, StillKept DEF Trusted, Pending
<1>7. ASSUME StartUnsnap(p) \/ EndUnsnap(p) PROVE KeepsTrusted(p)'
  <2>1. pc'[p] \in {"unsnapping", "cleanup"}
    BY <1>7 DEF StartUnsnap, EndUnsnap
  <2> QED  BY <1>1, <2>1 DEF KeepingLabels
<1> QED  BY <1>2, <1>3, <1>4, <1>5, <1>6, <1>7 DEF MirrorSteps

\* The scan and the visits lose no trusted entry: one is never dropped as
\* inactive, and an untrusted one is not trusted in this sense.
LEMMA ReconcileKeeps ==
  ASSUME TypeOK, NEW p \in Procs, Op(p) = "reconcile", KeepsTrusted(p),
         ReconcileSteps(p)
  PROVE  KeepsTrusted(p)'
<1>1. UNCHANGED storeVars
  BY DEF ReconcileSteps, Scan, VisitMirrorToDrop, VisitInactive, VisitUntrusted,
         VisitActive, VisitsDone, RemoveStale, StaleDone
<1>2. ASSUME work'.active = work.active, work'.seen = work.seen, NEW s \in Snaps, Trusted(s)'
      PROVE  Trusted(s)
  BY <1>1, <1>2 DEF Trusted, storeVars
<1>3. ASSUME Scan(p) PROVE KeepsTrusted(p)'
  <2>1. pc'[p] = "visit" /\ work'.todo = Discovered
    BY <1>3, GotoLeads DEF Scan, TypeOK, Work
  <2> QED  BY <1>1, <2>1 DEF KeepsTrusted, Trusted, Pending, Discovered, storeVars
<1>4. ASSUME VisitMirrorToDrop(p) \/ VisitInactive(p) PROVE KeepsTrusted(p)'
  <2>1. PICK s \in work.todo :
            /\ snap[s] = "none" \/ s \notin work.active
            /\ work' = [work EXCEPT !.todo = @ \ {s}]
            /\ VisitAs(p, s, "unmirror") \/ Goto(p, "visit")
    BY <1>4 DEF VisitMirrorToDrop, VisitInactive
  <2>2. /\ work'.active = work.active /\ work'.seen = work.seen
        /\ work'.todo = work.todo \ {s} /\ work'.valid = work.valid
        /\ s \in Snaps
    BY <2>1 DEF TypeOK, Work
  <2>3. pc[p] = "visit" /\ pc'[p] \in {"visit", "unmirror"}
    BY <1>4, <2>1, <2>2, GotoLeads, VisitLeads DEF VisitMirrorToDrop, VisitInactive
  <2>4. ~Trusted(s)
    BY <2>1 DEF Trusted
  <2> QED  BY <1>2, <2>2, <2>3, <2>4 DEF KeepsTrusted, Pending
<1>5. ASSUME VisitUntrusted(p) PROVE KeepsTrusted(p)'
  <2>0. PICK s \in work.todo \cap work.active :
            \E known \in Identified(s), plausible \in MirrorPlausible(s) :
              work' = [work EXCEPT !.todo = @ \ {s},
                           !.valid = @ \cup {t \in {s} : plausible
                                              /\ ~(known /\ ver[s] \notin work.seen)}]
    BY <1>5 DEF VisitUntrusted
  <2>1. PICK known \in Identified(s), plausible \in MirrorPlausible(s) :
            work' = [work EXCEPT !.todo = @ \ {s},
                         !.valid = @ \cup {t \in {s} : plausible
                                            /\ ~(known /\ ver[s] \notin work.seen)}]
    BY <2>0
  <2>2. /\ work'.active = work.active /\ work'.seen = work.seen
        /\ work'.todo = work.todo \ {s}
        /\ work'.valid = work.valid
               \cup {t \in {s} : plausible /\ ~(known /\ ver[s] \notin work.seen)}
    BY <2>1 DEF TypeOK, Work
  <2>3. pc[p] = "visit" /\ pc'[p] = "visit"
    BY <1>5, GotoLeads DEF VisitUntrusted
  <2>4. Trusted(s) => plausible /\ ver[s] \in work.seen
    BY <2>1 DEF Trusted, MirrorPlausible
  <2>5. Trusted(s) => s \in work'.valid
    BY <2>2, <2>4
  <2>6. work.valid \subseteq work'.valid
    BY <2>2
  <2>7. ASSUME NEW t \in Snaps, Trusted(t)' PROVE t \in Pending'
    <3>1. Trusted(t) /\ t \in Pending
      BY <1>2, <2>2, <2>3, <2>7 DEF KeepsTrusted
    <3> QED  BY <2>2, <2>5, <2>6, <3>1 DEF Pending
  <2> QED  BY <2>3, <2>7 DEF KeepsTrusted
<1>6. ASSUME VisitActive(p) PROVE KeepsTrusted(p)'
  <2>1. PICK s \in work.todo :
            /\ work' = [work EXCEPT !.todo = @ \ {s}]
            /\ VisitAs(p, s, IF ver[s] \in work.seen THEN "sync" ELSE "restore")
    BY <1>6 DEF VisitActive
  <2>2. /\ work'.active = work.active /\ work'.seen = work.seen
        /\ work'.todo = work.todo \ {s} /\ work'.valid = work.valid
        /\ s \in Snaps
    BY <2>1 DEF TypeOK, Work
  <2>3. /\ pc[p] = "visit" /\ Name(p)' = s
        /\ pc'[p] = IF ver[s] \in work.seen THEN "sync" ELSE "restore"
    BY <1>6, <2>1, <2>2, VisitLeads DEF VisitActive
  <2>4. ver[s] \notin work.seen => ~Trusted(s)
    BY DEF Trusted
  <2> QED  BY <1>2, <2>2, <2>3, <2>4 DEF KeepsTrusted, Pending
<1>7. ASSUME VisitsDone(p) PROVE KeepsTrusted(p)'
  <2>1. /\ pc[p] = "visit" /\ pc'[p] = "stale" /\ work.todo = {}
        /\ work'.todo = Listed \ work.valid
        /\ work'.active = work.active /\ work'.seen = work.seen
    BY <1>7, GotoLeads DEF VisitsDone, TypeOK, Work
  <2> QED  BY <1>2, <2>1 DEF KeepsTrusted, Pending
<1>8. ASSUME RemoveStale(p) PROVE KeepsTrusted(p)'
  <2>1. PICK s \in work.todo : /\ work' = [work EXCEPT !.todo = @ \ {s}]
                              /\ VisitAs(p, s, "unlist")
    BY <1>8 DEF RemoveStale
  <2>2. /\ work'.active = work.active /\ work'.seen = work.seen
        /\ work'.todo = work.todo \ {s} /\ s \in Snaps
    BY <2>1 DEF TypeOK, Work
  <2>3. pc[p] = "stale" /\ Name(p)' = s /\ pc'[p] = "unlist"
    BY <1>8, <2>1, <2>2, VisitLeads DEF RemoveStale
  <2> QED  BY <1>2, <2>1, <2>2, <2>3 DEF KeepsTrusted
<1>9. ASSUME StaleDone(p) PROVE KeepsTrusted(p)'
  BY <1>9, GotoLeads DEF StaleDone, KeepsTrusted
<1> QED
  BY <1>3, <1>4, <1>5, <1>6, <1>7, <1>8, <1>9 DEF ReconcileSteps

\* Removing a stale entry does not turn to another one.
LEMMA EntryKeeps ==
  ASSUME TypeOK, NEW p \in Procs, RightOperation(p), Op(p) = "reconcile",
         KeepsTrusted(p), BootEntrySteps(p)
  PROVE  KeepsTrusted(p)'
<1> USE GotoLeads, FinishLeads
<1>1. UNCHANGED storeVars
  BY DEF BootEntrySteps, CheckEntry, EntryAlreadyListed, EntryAsBLS, EntryAsMenuentry,
      UnlistWithoutCustom, UnlistFromCustom, TruncateCustom, WriteCustom,
      WriteCustomFails, UpdateGrubConfig, UpdateGrubConfigFails, RollbackFails
<1>2. ~(CheckEntry(p) \/ EntryAlreadyListed(p) \/ EntryAsBLS(p) \/ EntryAsMenuentry(p))
  BY DEF CheckEntry, EntryAlreadyListed, EntryAsBLS, EntryAsMenuentry, RightOperation
<1>3. ASSUME WriteCustomFails(p) \/ UpdateGrubConfigFails(p) \/ RollbackFails(p)
      PROVE  KeepsTrusted(p)'
  <2>1. pc'[p] = "idle"
    BY <1>3 DEF WriteCustomFails, UpdateGrubConfigFails, RollbackFails
  <2> QED  BY <2>1 DEF KeepsTrusted
<1>4. ASSUME \/ UnlistWithoutCustom(p) \/ UnlistFromCustom(p) \/ TruncateCustom(p)
             \/ WriteCustom(p) \/ UpdateGrubConfig(p)
      PROVE  KeepsTrusted(p)'
  <2>1. /\ work'.active = work.active /\ work'.seen = work.seen
        /\ work'.todo = work.todo /\ work'.valid = work.valid
    <3>1. CASE UnlistFromCustom(p)
      BY <3>1 DEF UnlistFromCustom, RewriteCustom, TypeOK, Work
    <3>2. CASE ~UnlistFromCustom(p)
      BY <1>4, <3>2 DEF UnlistWithoutCustom, TruncateCustom, WriteCustom, UpdateGrubConfig
    <3> QED  BY <3>1, <3>2
  <2>2. /\ Name(p)' = Name(p)
        /\ \/ pc[p] = "unlist" /\ pc'[p] \in {"truncate", "stale"}
           \/ pc[p] = "truncate" /\ pc'[p] = "write"
           \/ pc[p] = "write" /\ pc'[p] = "mkconfig"
           \/ pc[p] = "mkconfig" /\ pc'[p] = "stale"
    BY <1>4 DEF UnlistWithoutCustom, UnlistFromCustom, RewriteCustom, TruncateCustom,
        WriteCustom, UpdateGrubConfig, AfterUnlist
  <2> QED  BY <1>1, <2>1, <2>2, StillKept DEF Trusted, Pending, storeVars
<1> QED  BY <1>2, <1>3, <1>4 DEF BootEntrySteps

\* No step of a reconcile loses a trusted entry.
LEMMA OperationKeeps ==
  ASSUME TypeOK, NEW p \in Procs, RightOperation(p), Op(p) = "reconcile",
         KeepsTrusted(p), OperationSteps(p)
  PROVE  KeepsTrusted(p)'
<1> USE GotoLeads, FinishLeads
<1>1. ASSUME CreateSteps(p) PROVE KeepsTrusted(p)'
  <2>1. pc'[p] \in {"archive", "publish", "idle"}
    BY <1>1 DEF CreateSteps, CopyBoot, ArchiveModules, PublishSnapshot, TypeOK, ProcTypeOK
  <2> QED  BY <2>1 DEF KeepsTrusted
<1>2. ASSUME RestoreModules(p) \/ RestoreFails(p) PROVE KeepsTrusted(p)'
  <2>1. pc[p] = "restore"
    BY <1>2 DEF RestoreModules, RestoreFails, RightOperation
  <2>2. Name(p)' = Name(p) /\ pc'[p] \in {"sync", "visit"}
    BY <1>2, <2>1 DEF RestoreModules, RestoreFails
  <2>3. /\ UNCHANGED storeVars
        /\ work'.active = work.active /\ work'.seen = work.seen
        /\ work'.todo = work.todo /\ work'.valid = work.valid
    BY <1>2 DEF RestoreModules, RestoreFails, TypeOK, Work
  <2> QED  BY <2>1, <2>2, <2>3, StillKept DEF Trusted, Pending, storeVars
<1>3. ASSUME \/ CleanupNotDue(p) \/ HoldPackageLock(p) \/ ChooseDoomed(p)
             \/ ProtectionUnproved(p) \/ StartPurge(p) \/ EndPurge(p) \/ PurgeFails(p)
             \/ PurgeDone(p) \/ ReleasePackageLock(p) \/ GiveUp(p)
      PROVE  KeepsTrusted(p)'
  <2>1. pc'[p] \in CleaningLabels \cup {"idle"}
    BY <1>3
    DEF CleanupNotDue, HoldPackageLock, ChooseDoomed, ProtectionUnproved, StartPurge,
        EndPurge, PurgeFails, PurgeDone, ReleasePackageLock, GiveUp, CleaningLabels
  <2> QED  BY <2>1 DEF KeepsTrusted, CleaningLabels
<1> QED
  BY <1>1, <1>2, <1>3, MirrorKeeps, ReconcileKeeps, EntryKeeps
  DEF OperationSteps, ModuleSteps

\* Nothing that goes on around a reconcile makes another snapshot trusted.
LEMMA StoreStays ==
  ASSUME TypeOK, OneOperation, NEW q \in Procs, ~Resting(q)',
         \/ \E p \in Procs : Request(p) \/ Kill(p)
         \/ Surroundings
         \/ UNCHANGED vars
  PROVE  UNCHANGED storeVars
<1>1. ~DamageSnapshot /\ ~LoseSnapshot
  <2>1. pc'[q] = pc[q]
    BY OutsideSteps
  <2>2. lock = q
    BY <2>1 DEF OneOperation, Resting
  <2> QED  BY <2>2, ConstantsOK DEF DamageSnapshot, LoseSnapshot
<1> QED
  BY <1>1
  DEF Request, Kill, Surroundings, PackageSteps, PackageBegins, PackageReplacesTree,
      PackageReplacesImage, PackageEnds, StartupSteps, StartupReads, StartupWrites,
      Reboot, BootRecovery, PowerCycle, ClearDbLock, vars

\* Neither does what happens around it: the operation lock keeps other
\* operations away, and none of the rest makes a snapshot trusted.
LEMMA NextKeeps ==
  ASSUME TypeOK, OneOperation, OpInv, KeepInv, [Next]_vars
  PROVE  KeepInv'
<1> SUFFICES ASSUME NEW q \in Procs, ~Resting(q)', Op(q)' = "reconcile"
             PROVE  KeepsTrusted(q)'
  BY DEF KeepInv, KeepsTrusted, Resting
<1>1. ASSUME NEW p \in Procs, OperationSteps(p) PROVE KeepsTrusted(q)'
  <2>1. q = p
    BY <1>1, OthersRest
  <2>2. Op(p) = "reconcile"
    BY <1>1, <2>1, SameOperation
  <2> QED  BY <1>1, <2>1, <2>2, OperationKeeps DEF OpInv, KeepInv
<1>2. ASSUME NEW p \in Procs, Acquire(p) PROVE KeepsTrusted(q)'
  <2>1. CASE q = p
    <3>1. pc'[p] = "scan"
      BY <1>2, <2>1 DEF Acquire, TypeOK, ProcTypeOK, Op, FirstStep
    <3> QED  BY <2>1, <3>1 DEF KeepsTrusted
  <2>2. CASE q # p
    <3>1. FALSE
      BY <1>2, <2>2, ConstantsOK DEF Acquire, TypeOK, ProcTypeOK, OneOperation, Resting
    <3> QED  BY <3>1
  <2> QED  BY <2>1, <2>2
<1>3. ASSUME \/ \E p \in Procs : Request(p) \/ Kill(p)
             \/ Surroundings
             \/ UNCHANGED vars
      PROVE  KeepsTrusted(q)'
  <2>1. pc'[q] = pc[q] /\ Op(q)' = Op(q) /\ Name(q)' = Name(q) /\ work' = work
    BY <1>3, OutsideSteps
  <2>2. UNCHANGED storeVars
    BY <1>3, StoreStays
  <2> QED  BY <2>1, <2>2, StillKept DEF KeepInv, Trusted, Pending, storeVars
<1> QED  BY <1>1, <1>2, <1>3 DEF Next, ProcSteps

\* SAFETY.md "preserves an already bootable active GRUB entry if refreshing its
\* boot mirror fails transiently": reconcile never removes the entry of a snapshot
\* that was bootable when it began, under every failure and crash of the model.
THEOREM TrustedEntriesKept == Spec => []BootableEntriesKept
<1>1. Init => KeepInv
  BY DEF Init, KeepInv, KeepsTrusted
<1>2. TypeOK /\ OneOperation /\ OpInv /\ KeepInv /\ [Next]_vars => KeepInv'
  BY NextKeeps
<1>3. TypeOK /\ KeepInv => BootableEntriesKept
  <2> SUFFICES ASSUME TypeOK, KeepInv, NEW p \in Procs, Op(p) = "reconcile",
                      pc[p] \in {"unlist", "truncate", "write", "mkconfig"},
                      Trusted(Name(p))
               PROVE  FALSE
    BY DEF BootableEntriesKept, Trusted
  <2>1. Name(p) \in Snaps
    BY DEF TypeOK, ProcTypeOK, TargetLabels
  <2> QED  BY <2>1 DEF KeepInv, KeepsTrusted
<1> QED
  BY <1>1, <1>2, <1>3, TypeCorrect, MutualExclusion, OperationsRight, PTL DEF Spec

-----------------------------------------------------------------------------
(* How long an operation can last.                                         *)

\* The labels of the visits, of the cleanup at the end, and of all that is before it.
VisitLabels == {"visit", "restore", "sync", "syncing", "unmirror", "unmirroring"}
EndLabels   == {"cleanup", "protect", "purge", "purging", "unlockdb"}
BodyLabels  == Labels \ (EndLabels \cup {"idle", "waiting"})

\* What is ahead of a label within one round of a loop, or without a loop.
Position(label) ==
    CASE label \in {"scan", "visit", "stale"} -> 0
      [] label \in {"publish", "unsnapping"}  -> 1
      [] label \in {"archive", "unsnap"}      -> 2
      [] label \in {"copy", "unmirroring"}    -> 3
      [] label = "unmirror"                   -> 4
      [] label = "mkconfig"                   -> 5
      [] label = "write"                      -> 6
      [] label = "truncate"                   -> 7
      [] label \in {"unlist", "list"}         -> 8
      [] label \in {"exists", "reload"}       -> 9
      [] label = "entry"                      -> 10
      [] label = "syncing"                    -> 11
      [] label = "sync"                       -> 12
      [] label = "restore"                    -> 13
      [] label = "check"                      -> 14

\* The rounds reconcile has ahead at a label, of at most 14 steps each: a loop over
\* the names it found and one over the entries there are then.
Rounds(label, todo) ==
    IF label = "scan" THEN 28 * Cardinality(Snaps) + 2
    ELSE IF label \in VisitLabels THEN 14 * Cardinality(Snaps) + 14 * todo + 1
    ELSE 14 * todo

\* The cleanup, with a loop over the trees it has chosen.
CleanupAhead(label, doomed) ==
    CASE label = "unlockdb" -> 1
      [] label = "purge"    -> 2 * doomed + 2
      [] label = "purging"  -> 2 * doomed + 3
      [] label = "protect"  -> 2 * Cardinality(Versions) + 4
      [] label = "cleanup"  -> 2 * Cardinality(Versions) + 5

StepsFrom(label, op, todo, doomed) ==
    IF label \in {"idle", "waiting"} THEN 0
    ELSE IF label \in EndLabels THEN CleanupAhead(label, doomed)
    ELSE (IF op = "reconcile" THEN Rounds(label, todo) ELSE 0)
         + Position(label) + 2 * Cardinality(Versions) + 6

\* How many steps the operation of p has ahead of it at most.
Ahead(p) == StepsFrom(pc[p], Op(p), Cardinality(work.todo), Cardinality(work.doomed))

MaxSteps == 28 * Cardinality(Snaps) + 2 * Cardinality(Versions) + 22

\* No operation ever has more than MaxSteps ahead.
AheadBounded == \A p \in Procs : Ahead(p) \in 0 .. MaxSteps

\* Each of its own steps brings an operation nearer to its end, and no other
\* step, of whoever, takes it back.
OperationsAdvance ==
    [][\A p \in Procs :
          /\ OperationSteps(p) => Ahead(p)' < Ahead(p)
          /\ lock = p /\ lock' = p => Ahead(p)' <= Ahead(p)]_vars

\* There are finitely many names and versions.
FinitelyMany == IsFiniteSet(Snaps) /\ IsFiniteSet(Versions)

\* The sizes of what the loops go through.
LEMMA Sizes ==
  ASSUME FinitelyMany, NEW w \in Work
  PROVE  /\ Cardinality(Snaps) \in Nat /\ Cardinality(Versions) \in Nat
         /\ IsFiniteSet(w.todo) /\ IsFiniteSet(w.doomed)
         /\ Cardinality(w.todo) \in 0 .. Cardinality(Snaps)
         /\ Cardinality(w.doomed) \in 0 .. Cardinality(Versions)
<1>1. w.todo \in SUBSET Snaps /\ w.doomed \in SUBSET Versions
  BY DEF Work
<1>2. Cardinality(Snaps) \in Nat /\ Cardinality(Versions) \in Nat
  BY FS_CardinalityType DEF FinitelyMany
<1>3. IsFiniteSet(w.todo) /\ Cardinality(w.todo) <= Cardinality(Snaps)
  BY <1>1, FS_Subset DEF FinitelyMany
<1>4. IsFiniteSet(w.doomed) /\ Cardinality(w.doomed) <= Cardinality(Versions)
  BY <1>1, FS_Subset DEF FinitelyMany
<1>5. Cardinality(w.todo) \in Nat /\ Cardinality(w.doomed) \in Nat
  BY <1>3, <1>4, FS_CardinalityType
<1> QED  BY <1>2, <1>3, <1>4, <1>5

\* The count at a label outside the cleanup.
LEMMA InBody ==
  ASSUME NEW label \in BodyLabels, NEW op, NEW todo, NEW doomed
  PROVE  /\ StepsFrom(label, op, todo, doomed)
               = (IF op = "reconcile" THEN Rounds(label, todo) ELSE 0)
                 + Position(label) + 2 * Cardinality(Versions) + 6
         /\ Position(label) \in 0 .. 14
<1>1. label \notin EndLabels \cup {"idle", "waiting"}
  BY DEF BodyLabels
<1>2. Position(label) \in 0 .. 14
  BY DEF BodyLabels, Labels, EndLabels, Position
<1> QED  BY <1>1, <1>2 DEF StepsFrom

\* What the labels of an operation have ahead.
LEMMA StepsBounded ==
  ASSUME FinitelyMany, NEW label \in Labels, NEW op \in AllOperations,
         NEW todo \in 0 .. Cardinality(Snaps), NEW doomed \in 0 .. Cardinality(Versions)
  PROVE  /\ StepsFrom(label, op, todo, doomed) \in 0 .. MaxSteps
         /\ label \notin {"idle", "waiting"} => StepsFrom(label, op, todo, doomed) # 0
<1> DEFINE n == Cardinality(Snaps)
           v == Cardinality(Versions)
<1>1. n \in Nat /\ v \in Nat
  BY FS_CardinalityType DEF FinitelyMany
<1>2. todo \in 0 .. n /\ doomed \in 0 .. v
  OBVIOUS
<1>3. MaxSteps = 28 * n + 2 * v + 22
  BY DEF MaxSteps
<1>4. CASE label \in EndLabels
  <2>1. StepsFrom(label, op, todo, doomed) \in 1 .. 2 * v + 5
    <3>1. StepsFrom(label, op, todo, doomed) = CleanupAhead(label, doomed)
      BY <1>4 DEF StepsFrom, EndLabels
    <3>2. CleanupAhead(label, doomed) \in {1, 2 * doomed + 2, 2 * doomed + 3, 2 * v + 4, 2 * v + 5}
      BY <1>4 DEF CleanupAhead, EndLabels
    <3> HIDE DEF n, v
    <3> QED  BY <1>1, <1>2, <3>1, <3>2
  <2> HIDE DEF n, v
  <2> QED  BY <1>1, <1>3, <2>1
<1>5. CASE label \notin EndLabels \cup {"idle", "waiting"}
  <2>1. Position(label) \in 0 .. 14
    BY <1>5 DEF Position, EndLabels, Labels
  <2>2. Rounds(label, todo) \in {28 * n + 2, 14 * n + 14 * todo + 1, 14 * todo}
    BY DEF Rounds
  <2>3. StepsFrom(label, op, todo, doomed)
          = (IF op = "reconcile" THEN Rounds(label, todo) ELSE 0) + Position(label) + 2 * v + 6
    BY <1>5 DEF StepsFrom
  <2> HIDE DEF n, v
  <2>4. Rounds(label, todo) \in 0 .. 28 * n + 2
    BY <1>1, <1>2, <2>2
  <2>5. (IF op = "reconcile" THEN Rounds(label, todo) ELSE 0) \in 0 .. 28 * n + 2
    BY <1>1, <2>4
  <2> QED  BY <1>1, <1>3, <2>1, <2>3, <2>5
<1>6. CASE label \in {"idle", "waiting"}
  <2>1. StepsFrom(label, op, todo, doomed) = 0
    BY <1>6 DEF StepsFrom
  <2> HIDE DEF n, v
  <2> QED  BY <1>1, <1>3, <1>6, <2>1
<1> QED  BY <1>4, <1>5, <1>6

-----------------------------------------------------------------------------
(* The steps.                                                              *)

\* The kinds of steps an operation is made of: it returns; it goes on within a
\* round, or in an operation without loops; it begins a loop, a round or what
\* comes after a loop; it goes through the cleanup.
Returning(p) == pc'[p] = "idle"

Onwards(p) ==
    /\ pc[p] \in BodyLabels /\ pc'[p] \in BodyLabels
    /\ Position(pc'[p]) < Position(pc[p])
    /\ work'.todo = work.todo
    /\ \/ Op(p) # "reconcile"
       \/ pc[p] \in VisitLabels /\ pc'[p] \in VisitLabels
       \/ {pc[p], pc'[p]} \cap (VisitLabels \cup {"scan"}) = {}

\* One of a set is taken.
Takes(old, new) == \E x \in old : new = old \ {x}

Looping(p) ==
    /\ Op(p) = "reconcile"
    /\ \/ pc[p] = "scan" /\ pc'[p] = "visit"
       \/ pc[p] = "visit" /\ pc'[p] \in VisitLabels /\ Takes(work.todo, work'.todo)
       \/ pc[p] = "visit" /\ work.todo = {} /\ pc'[p] = "stale"
       \/ pc[p] = "stale" /\ pc'[p] = "unlist" /\ Takes(work.todo, work'.todo)

Finishing(p) ==
    \/ pc[p] \in BodyLabels /\ pc'[p] = "cleanup"
    \/ pc[p] = "cleanup" /\ pc'[p] = "protect"
    \/ pc[p] = "protect" /\ pc'[p] \in {"purge", "unlockdb"}
    \/ pc[p] = "purge" /\ pc'[p] \in {"purging", "purge"} /\ Takes(work.doomed, work'.doomed)
    \/ pc[p] = "purging" /\ pc'[p] = "purge" /\ work'.doomed = work.doomed
    \/ pc[p] = "purge" /\ pc'[p] = "unlockdb"

Advances(p) == Returning(p) \/ Onwards(p) \/ Looping(p) \/ Finishing(p)

\* A set that loses an element is smaller.
LEMMA TakesOne ==
  ASSUME NEW old, NEW new, IsFiniteSet(old), Takes(old, new)
  PROVE  Cardinality(new) = Cardinality(old) - 1
BY FS_RemoveElement DEF Takes

\* Each kind of step lowers the count.
LEMMA AdvanceLowers ==
  ASSUME FinitelyMany, TypeOK, TypeOK', NEW p \in Procs, ~Resting(p), Op(p)' = Op(p),
         Advances(p)
  PROVE  Ahead(p)' < Ahead(p)
<1> DEFINE n == Cardinality(Snaps)
           v == Cardinality(Versions)
           t == Cardinality(work.todo)
           u == Cardinality(work'.todo)
           d == Cardinality(work.doomed)
           e == Cardinality(work'.doomed)
           op == Op(p)
<1>1. /\ n \in Nat /\ v \in Nat /\ t \in 0 .. n /\ d \in 0 .. v
      /\ IsFiniteSet(work.todo) /\ IsFiniteSet(work.doomed)
  BY Sizes DEF TypeOK
<1>2. u \in 0 .. n /\ e \in 0 .. v
  BY Sizes DEF TypeOK
<1>3. pc[p] \in Labels \ {"idle", "waiting"} /\ pc'[p] \in Labels /\ op \in AllOperations
  BY DEF TypeOK, ProcTypeOK, Resting, Op, Task
<1>4. /\ Ahead(p) = StepsFrom(pc[p], op, t, d)
      /\ Ahead(p)' = StepsFrom(pc'[p], op, u, e)
  BY DEF Ahead
<1>5. Ahead(p) \in Nat /\ Ahead(p) # 0
  BY <1>1, <1>3, <1>4, StepsBounded
<1>6. CASE Returning(p)
  <2>1. Ahead(p)' = 0
    BY <1>4, <1>6 DEF Returning, StepsFrom
  <2> QED  BY <1>5, <2>1
<1>7. CASE Onwards(p)
  <2>1. /\ Ahead(p) = (IF op = "reconcile" THEN Rounds(pc[p], t) ELSE 0)
                        + Position(pc[p]) + 2 * v + 6
        /\ Ahead(p)' = (IF op = "reconcile" THEN Rounds(pc'[p], u) ELSE 0)
                         + Position(pc'[p]) + 2 * v + 6
    BY <1>4, <1>7, InBody DEF Onwards
  <2>2. /\ Position(pc[p]) \in Nat /\ Position(pc'[p]) \in Nat
        /\ Position(pc'[p]) < Position(pc[p])
    BY <1>7, InBody DEF Onwards
  <2>3. u = t
    BY <1>7 DEF Onwards
  <2>4. op = "reconcile" => Rounds(pc'[p], u) = Rounds(pc[p], t)
    BY <1>7, <2>3 DEF Onwards, Rounds, VisitLabels
  <2>5. Rounds(pc[p], t) \in Nat
    <3>1. Rounds(pc[p], t) \in {28 * n + 2, 14 * n + 14 * t + 1, 14 * t}
      BY DEF Rounds
    <3> HIDE DEF n, t
    <3> QED  BY <1>1, <3>1
  <2> HIDE DEF n, v, t, u, op
  <2> QED  BY <1>1, <2>1, <2>2, <2>4, <2>5
<1>8. CASE Looping(p)
  <2>0. op = "reconcile"
    BY <1>8 DEF Looping
  <2>1. CASE pc[p] = "scan" /\ pc'[p] = "visit"
    <3>1. /\ Ahead(p) = 28 * n + 2 + 0 + 2 * v + 6
          /\ Ahead(p)' = 14 * n + 14 * u + 1 + 0 + 2 * v + 6
      BY <1>4, <2>0, <2>1 DEF StepsFrom, EndLabels, Rounds, VisitLabels, Position
    <3> HIDE DEF n, v, t, u, op
    <3> QED  BY <1>1, <1>2, <3>1
  <2>2. CASE pc[p] = "visit" /\ pc'[p] \in VisitLabels /\ Takes(work.todo, work'.todo)
    <3>1. u = t - 1
      BY <1>1, <2>2, TakesOne
    <3>2. Position(pc'[p]) \in 0 .. 13
      BY <2>2 DEF Position, VisitLabels
    <3>3. /\ Ahead(p) = 14 * n + 14 * t + 1 + 0 + 2 * v + 6
          /\ Ahead(p)' = 14 * n + 14 * u + 1 + Position(pc'[p]) + 2 * v + 6
      <4>1. Position(pc[p]) = 0
        BY <2>2 DEF Position
      <4> QED
        BY <1>4, <2>0, <2>2, <4>1 DEF StepsFrom, EndLabels, Rounds, VisitLabels
    <3> HIDE DEF n, v, t, u, op
    <3> QED  BY <1>1, <1>2, <3>1, <3>2, <3>3
  <2>3. CASE pc[p] = "visit" /\ work.todo = {} /\ pc'[p] = "stale"
    <3>1. t = 0
      BY <2>3, FS_EmptySet
    <3>2. /\ Ahead(p) = 14 * n + 14 * t + 1 + 0 + 2 * v + 6
          /\ Ahead(p)' = 14 * u + 0 + 2 * v + 6
      BY <1>4, <2>0, <2>3 DEF StepsFrom, EndLabels, Rounds, VisitLabels, Position
    <3> HIDE DEF n, v, t, u, op
    <3> QED  BY <1>1, <1>2, <3>1, <3>2
  <2>4. CASE pc[p] = "stale" /\ pc'[p] = "unlist" /\ Takes(work.todo, work'.todo)
    <3>1. u = t - 1
      BY <1>1, <2>4, TakesOne
    <3>2. /\ Ahead(p) = 14 * t + 0 + 2 * v + 6
          /\ Ahead(p)' = 14 * u + 8 + 2 * v + 6
      BY <1>4, <2>0, <2>4 DEF StepsFrom, EndLabels, Rounds, VisitLabels, Position
    <3> HIDE DEF n, v, t, u, op
    <3> QED  BY <1>1, <1>2, <3>1, <3>2
  <2> QED  BY <1>8, <2>1, <2>2, <2>3, <2>4 DEF Looping
<1>9. CASE Finishing(p)
  <2> USE DEF StepsFrom, EndLabels, CleanupAhead
  <2>1. CASE pc[p] \in BodyLabels /\ pc'[p] = "cleanup"
    <3>1. Ahead(p)' = 2 * v + 5
      BY <1>4, <2>1
    <3>2. /\ Ahead(p) = (IF op = "reconcile" THEN Rounds(pc[p], t) ELSE 0)
                          + Position(pc[p]) + 2 * v + 6
          /\ Position(pc[p]) \in 0 .. 14
      <4>1. Position(pc[p]) \in 0 .. 14
        BY ONLY <2>1, InBody
      <4>2. StepsFrom(pc[p], op, t, d)
              = (IF op = "reconcile" THEN Rounds(pc[p], t) ELSE 0)
                + Position(pc[p]) + 2 * v + 6
        BY ONLY <2>1, InBody
      <4> QED  BY <1>4, <4>1, <4>2
    <3>3. Rounds(pc[p], t) \in Nat
      <4>1. Rounds(pc[p], t) \in {28 * n + 2, 14 * n + 14 * t + 1, 14 * t}
        BY DEF Rounds
      <4> HIDE DEF n, t
      <4> QED  BY <1>1, <4>1
    <3> HIDE DEF n, v, t, u, op
    <3> QED  BY <1>1, <3>1, <3>2, <3>3
  <2>2. CASE pc[p] = "cleanup" /\ pc'[p] = "protect"
    <3>1. Ahead(p) = 2 * v + 5 /\ Ahead(p)' = 2 * v + 4
      BY <1>4, <2>2
    <3> HIDE DEF v
    <3> QED  BY <1>1, <3>1
  <2>3. CASE pc[p] = "protect" /\ pc'[p] \in {"purge", "unlockdb"}
    <3>1. Ahead(p) = 2 * v + 4 /\ Ahead(p)' \in {1, 2 * e + 2}
      BY <1>4, <2>3
    <3> HIDE DEF v, e
    <3> QED  BY <1>1, <1>2, <3>1
  <2>4. CASE /\ pc[p] = "purge" /\ pc'[p] \in {"purging", "purge"}
             /\ Takes(work.doomed, work'.doomed)
    <3>1. Ahead(p) = 2 * d + 2 /\ Ahead(p)' \in {2 * e + 3, 2 * e + 2}
      BY <1>4, <2>4
    <3>2. e = d - 1
      BY <1>1, <2>4, TakesOne
    <3> HIDE DEF d, e
    <3> QED  BY <1>1, <1>2, <3>1, <3>2
  <2>5. CASE pc[p] = "purging" /\ pc'[p] = "purge" /\ work'.doomed = work.doomed
    <3>1. Ahead(p) = 2 * d + 3 /\ Ahead(p)' = 2 * d + 2
      BY <1>4, <2>5
    <3> HIDE DEF d
    <3> QED  BY <1>1, <3>1
  <2>6. CASE pc[p] = "purge" /\ pc'[p] = "unlockdb"
    <3>1. Ahead(p) = 2 * d + 2 /\ Ahead(p)' = 1
      BY <1>4, <2>6
    <3> HIDE DEF d
    <3> QED  BY <1>1, <3>1
  <2> QED  BY <1>9, <2>1, <2>2, <2>3, <2>4, <2>5, <2>6 DEF Finishing
<1> QED  BY <1>6, <1>7, <1>8, <1>9 DEF Advances

\* A step to a label with less ahead of it, without a loop.
LEMMA GoesOn ==
  ASSUME TypeOK, NEW p \in Procs, NEW m, Goto(p, m),
         pc[p] \in BodyLabels, m \in BodyLabels, Position(m) < Position(pc[p]),
         work'.todo = work.todo,
         \/ Op(p) # "reconcile"
         \/ {pc[p], m} \subseteq VisitLabels
         \/ {pc[p], m} \cap (VisitLabels \cup {"scan"}) = {}
  PROVE  Advances(p)
BY GotoLeads DEF Advances, Onwards

\* Creating a snapshot goes on or returns.
LEMMA CreateAdvances ==
  ASSUME TypeOK, NEW p \in Procs, CreateSteps(p)
  PROVE  Advances(p)
<1> USE DEF BodyLabels, Labels, EndLabels, VisitLabels, Position
<1>1. ASSUME CopyBoot(p) PROVE Advances(p)
  <2>1. pc[p] = "copy" /\ pc'[p] = "archive" /\ work'.todo = work.todo
    BY <1>1 DEF CopyBoot, TypeOK, ProcTypeOK, Work
  <2> QED  BY <2>1 DEF Advances, Onwards
<1>2. ASSUME ArchiveModules(p) PROVE Advances(p)
  <2>1. pc[p] = "archive" /\ Goto(p, "publish") /\ work'.todo = work.todo
    BY <1>2 DEF ArchiveModules, TypeOK, Work
  <2> QED  BY <2>1, GoesOn
<1>3. ASSUME PublishSnapshot(p) PROVE Advances(p)
  BY <1>3, FinishLeads DEF PublishSnapshot, Advances, Returning
<1> QED  BY <1>1, <1>2, <1>3 DEF CreateSteps

\* Copying to and removing mirrors goes on, returns, or comes to the cleanup.
LEMMA MirrorAdvances ==
  ASSUME TypeOK, NEW p \in Procs, RightOperation(p), MirrorSteps(p)
  PROVE  Advances(p)
<1> USE DEF BodyLabels, Labels, EndLabels, VisitLabels, Position
<1>1. ASSUME CheckActivation(p) PROVE Advances(p)
  <2>1. /\ pc[p] = "check" /\ work'.todo = work.todo
        /\ Goto(p, "sync") \/ Goto(p, "restore")
    BY <1>1 DEF CheckActivation
  <2>2. Op(p) # "reconcile"
    BY <2>1 DEF RightOperation
  <2> QED  BY <2>1, <2>2, GoesOn
<1>2. ASSUME MirrorInSync(p) PROVE Advances(p)
  <2>1. /\ pc[p] = "sync" /\ work'.todo = work.todo /\ Op(p) = "activate"
        /\ Goto(p, "entry")
    BY <1>2 DEF MirrorInSync
  <2> QED  BY <2>1, GoesOn
<1>3. ASSUME StartSync(p) PROVE Advances(p)
  <2>1. pc[p] = "sync" /\ Goto(p, "syncing") /\ work'.todo = work.todo
    BY <1>3 DEF StartSync, TypeOK, Work
  <2> QED  BY <2>1, GoesOn
<1>4. ASSUME EndSync(p) PROVE Advances(p)
  <2>1. /\ pc[p] = "syncing" /\ work'.todo = work.todo
        /\ (Op(p) = "activate" /\ Goto(p, "entry")) \/ Goto(p, "visit")
    BY <1>4 DEF EndSync, TypeOK, Work
  <2> QED  BY <2>1, GoesOn
<1>5. ASSUME SyncFails(p) PROVE Advances(p)
  <2>1. \/ pc[p] = "syncing" /\ work'.todo = work.todo /\ Goto(p, "visit")
        \/ Finish(p, "error")
    BY <1>5 DEF SyncFails, TypeOK, Work
  <2> QED  BY <2>1, GoesOn, FinishLeads DEF Advances, Returning
<1>6. ASSUME FindEntry(p) PROVE Advances(p)
  <2>1. /\ pc[p] = "exists" /\ work'.todo = work.todo
        /\ Goto(p, "unlist") \/ Goto(p, "unmirror")
    BY <1>6 DEF FindEntry
  <2>2. Op(p) # "reconcile"
    BY <2>1 DEF RightOperation
  <2> QED  BY <2>1, <2>2, GoesOn
<1>7. ASSUME NoMirror(p) \/ EndUnmirror(p) PROVE Advances(p)
  <2>1. /\ pc[p] \in {"unmirror", "unmirroring"} /\ work'.todo = work.todo
        /\ \/ Goto(p, "visit")
           \/ Op(p) = "delete" /\ Goto(p, "unsnap")
           \/ Goto(p, "cleanup")
    BY <1>7 DEF NoMirror, EndUnmirror, AfterUnmirror
  <2> QED  BY <2>1, GoesOn, GotoLeads DEF Advances, Finishing
<1>8. ASSUME StartUnmirror(p) PROVE Advances(p)
  <2>1. pc[p] = "unmirror" /\ Goto(p, "unmirroring") /\ work'.todo = work.todo
    BY <1>8 DEF StartUnmirror
  <2> QED  BY <2>1, GoesOn
<1>9. ASSUME UnmirrorFails(p) PROVE Advances(p)
  <2>1. \/ /\ pc[p] \in {"unmirror", "unmirroring"} /\ work'.todo = work.todo
           /\ Goto(p, "visit")
        \/ Finish(p, "error")
    BY <1>9 DEF UnmirrorFails, TypeOK, Work
  <2> QED  BY <2>1, GoesOn, FinishLeads DEF Advances, Returning
<1>10. ASSUME StartUnsnap(p) PROVE Advances(p)
  <2>1. pc[p] = "unsnap" /\ Goto(p, "unsnapping") /\ work'.todo = work.todo
    BY <1>10 DEF StartUnsnap
  <2> QED  BY <2>1, GoesOn
<1>11. ASSUME EndUnsnap(p) PROVE Advances(p)
  BY <1>11, GotoLeads DEF EndUnsnap, Advances, Finishing
<1> QED
  BY <1>1, <1>2, <1>3, <1>4, <1>5, <1>6, <1>7, <1>8, <1>9, <1>10, <1>11 DEF MirrorSteps

\* Reconcile's loops take one name at a time, from a list made once.
LEMMA ReconcileAdvances ==
  ASSUME TypeOK, NEW p \in Procs, RightOperation(p), ReconcileSteps(p)
  PROVE  Advances(p)
<1> USE DEF BodyLabels, Labels, EndLabels, VisitLabels, Position, TypeOK, Work
<1>0. Op(p) = "reconcile"
  BY DEF ReconcileSteps, Scan, VisitMirrorToDrop, VisitInactive, VisitUntrusted,
         VisitActive, VisitsDone, RemoveStale, StaleDone, RightOperation
<1>1. ASSUME Scan(p) PROVE Advances(p)
  BY <1>0, <1>1, GotoLeads DEF Scan, Advances, Looping
<1>2. ASSUME VisitMirrorToDrop(p) \/ VisitActive(p) PROVE Advances(p)
  <2>1. pc[p] = "visit" /\ Takes(work.todo, work'.todo)
    BY <1>2 DEF VisitMirrorToDrop, VisitActive, Takes
  <2>2. PICK s \in Snaps, label \in {"unmirror", "sync", "restore"} : VisitAs(p, s, label)
    BY <1>2 DEF VisitMirrorToDrop, VisitActive
  <2> QED  BY <1>0, <2>1, <2>2, VisitLeads DEF Advances, Looping
<1>3. ASSUME VisitInactive(p) \/ VisitUntrusted(p) PROVE Advances(p)
  <2>1. pc[p] = "visit" /\ Takes(work.todo, work'.todo) /\ Goto(p, "visit")
    BY <1>3 DEF VisitInactive, VisitUntrusted, Takes
  <2> QED  BY <1>0, <2>1, GotoLeads DEF Advances, Looping
<1>4. ASSUME VisitsDone(p) PROVE Advances(p)
  BY <1>0, <1>4, GotoLeads DEF VisitsDone, Advances, Looping
<1>5. ASSUME RemoveStale(p) PROVE Advances(p)
  <2>1. pc[p] = "stale" /\ Takes(work.todo, work'.todo)
    BY <1>5 DEF RemoveStale, Takes
  <2>2. PICK s \in Snaps : VisitAs(p, s, "unlist")
    BY <1>5 DEF RemoveStale
  <2> QED  BY <1>0, <2>1, <2>2, VisitLeads DEF Advances, Looping
<1>6. ASSUME StaleDone(p) PROVE Advances(p)
  BY <1>6, GotoLeads DEF StaleDone, Advances, Finishing
<1> QED  BY <1>1, <1>2, <1>3, <1>4, <1>5, <1>6 DEF ReconcileSteps

\* Entries are written and rolled back without a retry.
LEMMA EntryAdvances ==
  ASSUME TypeOK, NEW p \in Procs, RightOperation(p), BootEntrySteps(p)
  PROVE  Advances(p)
<1> USE DEF BodyLabels, Labels, EndLabels, VisitLabels, Position
<1>1. ASSUME CheckEntry(p) PROVE Advances(p)
  <2>1. /\ pc[p] = "entry" /\ work'.todo = work.todo
        /\ Goto(p, "list") \/ Goto(p, "reload")
    BY <1>1 DEF CheckEntry
  <2> QED  BY <2>1, GoesOn
<1>2. ASSUME \/ EntryAlreadyListed(p) \/ EntryAsBLS(p) \/ WriteCustomFails(p)
             \/ UpdateGrubConfigFails(p) \/ RollbackFails(p)
      PROVE  Advances(p)
  BY <1>2, FinishLeads
  DEF EntryAlreadyListed, EntryAsBLS, WriteCustomFails, UpdateGrubConfigFails,
      RollbackFails, Advances, Returning
<1>3. ASSUME EntryAsMenuentry(p) \/ UnlistFromCustom(p) PROVE Advances(p)
  <2>1. /\ pc[p] \in {"list", "unlist"} /\ work'.todo = work.todo
        /\ Goto(p, "truncate")
    BY <1>3 DEF EntryAsMenuentry, UnlistFromCustom, RewriteCustom, TypeOK, Work
  <2> QED  BY <2>1, GoesOn
<1>4. ASSUME UnlistWithoutCustom(p) PROVE Advances(p)
  <2>1. /\ pc[p] = "unlist" /\ work'.todo = work.todo
        /\ \/ Op(p) = "reconcile" /\ Goto(p, "stale")
           \/ Op(p) # "reconcile" /\ Goto(p, "unmirror")
           \/ Goto(p, "cleanup")
    BY <1>4 DEF UnlistWithoutCustom, AfterUnlist
  <2> QED  BY <2>1, GoesOn, GotoLeads DEF Advances, Finishing
<1>5. ASSUME TruncateCustom(p) \/ WriteCustom(p) PROVE Advances(p)
  <2>1. /\ work'.todo = work.todo
        /\ \/ pc[p] = "truncate" /\ Goto(p, "write")
           \/ pc[p] = "write" /\ Goto(p, "mkconfig")
    BY <1>5 DEF TruncateCustom, WriteCustom
  <2> QED  BY <2>1, GoesOn
<1>6. ASSUME UpdateGrubConfig(p) PROVE Advances(p)
  <2>1. \/ Finish(p, "ok")
        \/ /\ pc[p] = "mkconfig" /\ work'.todo = work.todo
           /\ \/ Op(p) = "reconcile" /\ Goto(p, "stale")
              \/ Op(p) # "reconcile" /\ Goto(p, "unmirror")
              \/ Goto(p, "cleanup")
    BY <1>6 DEF UpdateGrubConfig, AfterUnlist
  <2> QED  BY <2>1, GoesOn, GotoLeads, FinishLeads DEF Advances, Finishing, Returning
<1> QED  BY <1>1, <1>2, <1>3, <1>4, <1>5, <1>6 DEF BootEntrySteps

\* A tree that cannot be removed is not tried again.
LEMMA ModuleAdvances ==
  ASSUME TypeOK, NEW p \in Procs, RightOperation(p), ModuleSteps(p)
  PROVE  Advances(p)
<1> USE DEF BodyLabels, Labels, EndLabels, VisitLabels, Position, TypeOK, Work
<1>1. ASSUME RestoreModules(p) \/ RestoreFails(p) PROVE Advances(p)
  <2>1. \/ Finish(p, "error")
        \/ /\ work'.todo = work.todo
           /\ \/ pc[p] = "restore" /\ Goto(p, "sync")
              \/ pc[p] = "reload" /\ Goto(p, "list")
              \/ pc[p] \in {"restore", "reload"} /\ Op(p) = "reconcile" /\ Goto(p, "visit")
    BY <1>1 DEF RestoreModules, RestoreFails
  <2>2. pc[p] = "reload" => Op(p) # "reconcile"
    BY DEF RightOperation
  <2> QED  BY <2>1, <2>2, GoesOn, FinishLeads DEF Advances, Returning
<1>2. ASSUME CleanupNotDue(p) \/ ReleasePackageLock(p) PROVE Advances(p)
  BY <1>2, FinishLeads DEF CleanupNotDue, ReleasePackageLock, Advances, Returning
<1>3. ASSUME HoldPackageLock(p) PROVE Advances(p)
  BY <1>3, GotoLeads DEF HoldPackageLock, Advances, Finishing
<1>4. ASSUME ChooseDoomed(p) \/ ProtectionUnproved(p) PROVE Advances(p)
  BY <1>4, GotoLeads DEF ChooseDoomed, ProtectionUnproved, Advances, Finishing
<1>5. ASSUME StartPurge(p) \/ EndPurge(p) \/ PurgeFails(p) PROVE Advances(p)
  <2>1. \/ /\ pc[p] = "purge" /\ Takes(work.doomed, work'.doomed)
           /\ Goto(p, "purging") \/ Goto(p, "purge")
        \/ pc[p] = "purging" /\ work'.doomed = work.doomed /\ Goto(p, "purge")
    BY <1>5 DEF StartPurge, EndPurge, PurgeFails, Takes
  <2> QED  BY <2>1, GotoLeads DEF Advances, Finishing
<1>6. ASSUME PurgeDone(p) PROVE Advances(p)
  BY <1>6, GotoLeads DEF PurgeDone, Advances, Finishing
<1> QED  BY <1>1, <1>2, <1>3, <1>4, <1>5, <1>6 DEF ModuleSteps

\* So every step of an operation is of one of the kinds.
LEMMA OperationAdvances ==
  ASSUME TypeOK, NEW p \in Procs, RightOperation(p), OperationSteps(p)
  PROVE  Advances(p)
<1>1. ASSUME GiveUp(p) PROVE Advances(p)
  BY <1>1, FinishLeads DEF GiveUp, Advances, Returning
<1> QED
  BY <1>1, CreateAdvances, MirrorAdvances, ReconcileAdvances, EntryAdvances, ModuleAdvances
  DEF OperationSteps

\* A step of anything else, or of another process, is none of an operation.
LEMMA OutsideAdvance ==
  ASSUME TypeOK, OneOperation, [Next]_vars, NEW p \in Procs, ~OperationSteps(p),
         lock = p, lock' = p
  PROVE  Ahead(p)' = Ahead(p)
<1>1. pc[p] \notin {"idle", "waiting"}
  BY DEF OneOperation
<1>2. ASSUME NEW q \in Procs, OperationSteps(q) PROVE FALSE
  <2>1. StepShape(q)
    BY <1>2, OperationStepsShape
  <2>2. lock = q
    BY <2>1 DEF StepShape, OneOperation
  <2> QED  BY <1>2, <2>2
<1>3. ASSUME NEW q \in Procs, Acquire(q) PROVE FALSE
  BY <1>3, ConstantsOK DEF Acquire
<1>4. ASSUME NEW q \in Procs, Request(q) \/ Kill(q)
      PROVE  pc'[p] = pc[p] /\ task'[p] = task[p] /\ work' = work
  <2>1. q # p
    BY <1>1, <1>4, ConstantsOK DEF Request, Kill
  <2> QED  BY <1>4, <2>1 DEF Request, Kill, TypeOK, ProcTypeOK
<1>5. ASSUME Surroundings \/ UNCHANGED vars
      PROVE  pc'[p] = pc[p] /\ task'[p] = task[p] /\ work' = work
  <2>1. ~Reboot /\ ~BootRecovery
    BY ConstantsOK DEF Reboot, BootRecovery, PowerCycle
  <2> QED
    BY <1>5, <2>1
    DEF Surroundings, PackageSteps, PackageBegins, PackageReplacesTree,
        PackageReplacesImage, PackageEnds, StartupSteps, StartupReads, StartupWrites,
        ClearDbLock, DamageSnapshot, LoseSnapshot, procVars, vars
<1>6. pc'[p] = pc[p] /\ task'[p] = task[p] /\ work' = work
  BY <1>2, <1>3, <1>4, <1>5 DEF Next, ProcSteps
<1> QED  BY <1>6 DEF Ahead, Op

\* What an operation has ahead is bounded, whatever it has met.
LEMMA AlwaysBounded ==
  ASSUME FinitelyMany, TypeOK
  PROVE  AheadBounded
<1> SUFFICES ASSUME NEW p \in Procs PROVE Ahead(p) \in 0 .. MaxSteps
  BY DEF AheadBounded
<1>1. pc[p] \in Labels /\ Op(p) \in AllOperations /\ work \in Work
  BY DEF TypeOK, ProcTypeOK, Op, Task
<1> QED  BY <1>1, Sizes, StepsBounded DEF Ahead

\* An operation takes at most MaxSteps steps, whatever fails in it and whoever runs
\* beside it: no error path leads back, and every loop has a list made once.  With
\* the scheduling FairSpec assumes, this is why it ends and releases its lock
\* (OperationsEnd).
THEOREM OperationsTerminate ==
  ASSUME FinitelyMany
  PROVE  Spec => []AheadBounded /\ OperationsAdvance
<1>1. TypeOK => AheadBounded
  BY FinitelyMany, AlwaysBounded
<1>2. TypeOK /\ TypeOK' /\ OneOperation /\ OpInv /\ [Next]_vars
      => [\A p \in Procs :
             /\ OperationSteps(p) => Ahead(p)' < Ahead(p)
             /\ lock = p /\ lock' = p => Ahead(p)' <= Ahead(p)]_vars
  <2> SUFFICES ASSUME TypeOK, TypeOK', OneOperation, OpInv, [Next]_vars, NEW p \in Procs
               PROVE  /\ OperationSteps(p) => Ahead(p)' < Ahead(p)
                      /\ lock = p /\ lock' = p => Ahead(p)' <= Ahead(p)
    OBVIOUS
  <2>1. Ahead(p) \in Nat /\ Ahead(p)' \in Nat
    <3>1. AheadBounded /\ AheadBounded'
      BY FinitelyMany, <1>1, AlwaysBounded, PTL
    <3> QED  BY <3>1 DEF AheadBounded
  <2>2. ASSUME OperationSteps(p) PROVE Ahead(p)' < Ahead(p)
    <3>1. ~Resting(p)
      BY <2>2, OperationStepsShape DEF StepShape, Resting
    <3> QED
      BY FinitelyMany, <2>2, <3>1, OperationAdvances, SameOperation, AdvanceLowers DEF OpInv
  <2>3. ASSUME ~OperationSteps(p), lock = p, lock' = p PROVE Ahead(p)' = Ahead(p)
    BY <2>3, OutsideAdvance
  <2> QED  BY <2>1, <2>2, <2>3
<1> QED
  BY <1>1, <1>2, TypeCorrect, MutualExclusion, OperationsRight, PTL
  DEF Spec, OperationsAdvance
=============================================================================
