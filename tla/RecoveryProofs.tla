--------------------------- MODULE RecoveryProofs ---------------------------
(***************************************************************************)
(* Proofs, for every value of the constants, of the safety properties of   *)
(* Recovery that hold whatever fails: type correctness, one operation at a *)
(* time, and the module trees cleanup spares.                              *)
(*                                                                         *)
(* The steps fall into those of an operation (OperationSteps), all taken   *)
(* by the process that holds the flock, and the rest.  StepShape says what *)
(* the former do to the coordination state; each action is shown to have   *)
(* this shape together with its type correctness, and OneOperation follows *)
(* from the shape alone.                                                   *)
(***************************************************************************)
EXTENDS RecoveryProperties, TLAPS

\* What a step of the operation of p does to pc, lock and dbLock.
StepShape(p) ==
    /\ \A q \in Procs \ {p} : pc'[q] = pc[q]
    /\ pc[p] \notin {"idle", "waiting"}
    /\ \/ lock' = lock /\ pc'[p] \notin {"idle", "waiting"}
       \/ lock' = Nobody /\ pc'[p] = "idle"
    /\ \/ dbLock' = dbLock /\ (pc[p] \in CleaningLabels <=> pc'[p] \in CleaningLabels)
       \/ dbLock = Nobody /\ dbLock' = p /\ pc'[p] = "protect"
       \/ pc[p] \in CleaningLabels /\ dbLock' = Nobody /\ pc'[p] \notin CleaningLabels

-----------------------------------------------------------------------------
(* Lemmas about the operators the actions are built from.                  *)

\* What is left unchanged keeps its type.
LEMMA Frames ==
    /\ storeVars' = storeVars /\ StoreTypeOK => StoreTypeOK'
    /\ menuVars' = menuVars /\ MenuTypeOK => MenuTypeOK'
    /\ treeVars' = treeVars /\ TreeTypeOK => TreeTypeOK'
    /\ systemVars' = systemVars /\ SystemTypeOK => SystemTypeOK'
    /\ procVars' = procVars /\ lockVars' = lockVars /\ ProcTypeOK => ProcTypeOK'
    /\ envVars' = envVars /\ EnvTypeOK => EnvTypeOK'
<1>1. storeVars' = storeVars /\ StoreTypeOK => StoreTypeOK'
  BY DEF storeVars, StoreTypeOK
<1>2. menuVars' = menuVars /\ MenuTypeOK => MenuTypeOK'
  BY DEF menuVars, MenuTypeOK
<1>3. treeVars' = treeVars /\ TreeTypeOK => TreeTypeOK'
  BY DEF treeVars, TreeTypeOK
<1>4. systemVars' = systemVars /\ SystemTypeOK => SystemTypeOK'
  BY DEF systemVars, SystemTypeOK
<1>5. procVars' = procVars /\ lockVars' = lockVars /\ ProcTypeOK => ProcTypeOK'
  BY DEF procVars, lockVars, ProcTypeOK, Name, Op
<1>6. envVars' = envVars /\ EnvTypeOK => EnvTypeOK'
  BY DEF envVars, EnvTypeOK
<1> QED  BY <1>1, <1>2, <1>3, <1>4, <1>5, <1>6

\* The label a Goto may lead to from where p is.
Follows(p, label) ==
    /\ pc[p] \in Labels \ {"idle", "waiting"}
    /\ label \in Labels \ {"idle", "waiting"}
    /\ label \in TargetLabels => pc[p] \in TargetLabels
    /\ label \in CleaningLabels <=> pc[p] \in CleaningLabels

\* A move to a label of the same kind.
LEMMA GotoShape ==
  ASSUME ProcTypeOK, NEW p \in Procs, NEW label, Follows(p, label),
         Goto(p, label), dbLock' = dbLock
  PROVE  ProcTypeOK' /\ StepShape(p)
BY DEF ProcTypeOK, Goto, Follows, StepShape, Name, Op

\* The end of an operation that does not hold db.lck.
LEMMA FinishShape ==
  ASSUME ProcTypeOK, NEW p \in Procs, NEW r \in Results, Finish(p, r),
         pc[p] \notin {"idle", "waiting"} \cup CleaningLabels, dbLock' = dbLock
  PROVE  ProcTypeOK' /\ StepShape(p) /\ work' \in Work
<1>1. ProcTypeOK'
  BY DEF ProcTypeOK, Finish, Labels, TargetLabels, Name, Op
<1>2. StepShape(p)
  BY DEF ProcTypeOK, Finish, StepShape, CleaningLabels
<1>3. work' \in Work
  BY DEF Finish, NoWork, Work, TreeStates
<1> QED  BY <1>1, <1>2, <1>3

\* Reconcile turns to another snapshot.
LEMMA VisitShape ==
  ASSUME ProcTypeOK, NEW p \in Procs, NEW s \in Snaps, NEW label \in TargetLabels,
         VisitAs(p, s, label), pc[p] \in {"visit", "stale"}, dbLock' = dbLock
  PROVE  ProcTypeOK' /\ StepShape(p)
<1>1. label \in Labels /\ label \notin {"idle", "waiting"} \cup CleaningLabels
  BY DEF Labels, TargetLabels, CleaningLabels
<1>2. ProcTypeOK'
  BY <1>1, ConstantsOK DEF ProcTypeOK, VisitAs, Task, Name, Op
<1>3. StepShape(p)
  BY <1>1 DEF ProcTypeOK, VisitAs, StepShape, CleaningLabels
<1> QED  BY <1>2, <1>3

-----------------------------------------------------------------------------
(* Creating a snapshot.                                                    *)

\* Every step of CreateSteps is typed and has the shape of an operation step.
LEMMA CreateStepsShape ==
  ASSUME TypeOK, NEW p \in Procs, CreateSteps(p)
  PROVE  TypeOK' /\ StepShape(p)
<1>1. ASSUME CopyBoot(p) PROVE TypeOK' /\ StepShape(p)
  <2>1. PICK s \in Snaps : /\ stamps' = stamps \cup {s}
                          /\ task' = [task EXCEPT ![p].name = s]
    BY <1>1 DEF CopyBoot
  <2>2. /\ pc[p] = "copy" /\ pc' = [pc EXCEPT ![p] = "archive"]
        /\ UNCHANGED <<lock, dbLock, result>>
    BY <1>1 DEF CopyBoot, lockVars
  <2>3. task' \in [Procs -> Task] /\ s # NoName
    BY <2>1, ConstantsOK DEF TypeOK, ProcTypeOK, Task
  <2>4. ProcTypeOK'
    BY <2>1, <2>2, <2>3 DEF TypeOK, ProcTypeOK, Labels, TargetLabels, Name, Op, Task
  <2>5. StepShape(p)
    BY <2>2 DEF TypeOK, ProcTypeOK, StepShape, CleaningLabels
  <2>6. StoreTypeOK'
    BY <1>1 DEF CopyBoot, TypeOK, StoreTypeOK
  <2>7. work' \in Work
    BY <1>1 DEF CopyBoot, TypeOK, Work, SystemTypeOK
  <2> QED  BY <1>1, <2>4, <2>5, <2>6, <2>7, Frames DEF CopyBoot, TypeOK
<1>2. ASSUME ArchiveModules(p) PROVE TypeOK' /\ StepShape(p)
  <2>1. ProcTypeOK' /\ StepShape(p)
    BY <1>2, GotoShape
    DEF ArchiveModules, TypeOK, Follows, Labels, TargetLabels, CleaningLabels
  <2>2. work' \in Work
    BY <1>2 DEF ArchiveModules, TypeOK, Work, TreeTypeOK, TreePresent, TreeStates
  <2> QED  BY <1>2, <2>1, <2>2, Frames DEF ArchiveModules, TypeOK
<1>3. ASSUME PublishSnapshot(p) PROVE TypeOK' /\ StepShape(p)
  <2>1. ProcTypeOK' /\ StepShape(p) /\ work' \in Work
    BY <1>3, FinishShape
    DEF PublishSnapshot, TypeOK, Results, CleaningLabels
  <2>2. StoreTypeOK'
    BY <1>3 DEF PublishSnapshot, TypeOK, StoreTypeOK, ProcTypeOK, Name,
        SnapStates, MirrorStates, TargetLabels, Work
  <2> QED  BY <1>3, <2>1, <2>2, Frames DEF PublishSnapshot, TypeOK
<1> QED  BY <1>1, <1>2, <1>3 DEF CreateSteps

-----------------------------------------------------------------------------
(* Activation, the mirror refresh, and the removals.                       *)

\* Every step of MirrorSteps is typed and has the shape of an operation step.
LEMMA MirrorStepsShape ==
  ASSUME TypeOK, NEW p \in Procs, MirrorSteps(p)
  PROVE  TypeOK' /\ StepShape(p)
<1>1. ASSUME CheckActivation(p) PROVE TypeOK' /\ StepShape(p)
  <2>1. ProcTypeOK' /\ StepShape(p)
    BY <1>1, GotoShape
    DEF CheckActivation, TypeOK, Follows, Labels, TargetLabels, CleaningLabels
  <2> QED  BY <1>1, <2>1, Frames DEF CheckActivation, TypeOK
<1>2. ASSUME MirrorInSync(p) PROVE TypeOK' /\ StepShape(p)
  <2>1. ProcTypeOK' /\ StepShape(p)
    BY <1>2, GotoShape
    DEF MirrorInSync, TypeOK, Follows, Labels, TargetLabels, CleaningLabels
  <2> QED  BY <1>2, <2>1, Frames DEF MirrorInSync, TypeOK
<1>3. ASSUME StartSync(p) PROVE TypeOK' /\ StepShape(p)
  <2>1. ProcTypeOK' /\ StepShape(p)
    BY <1>3, GotoShape
    DEF StartSync, TypeOK, Follows, Labels, TargetLabels, CleaningLabels
  <2>2. StoreTypeOK'
    BY <1>3 DEF StartSync, TypeOK, StoreTypeOK, ProcTypeOK, Name, SnapStates,
        MirrorStates, TargetLabels
  <2>3. work' \in Work
    BY <1>3 DEF StartSync, TypeOK, Work
  <2> QED  BY <1>3, <2>1, <2>2, <2>3, Frames DEF StartSync, TypeOK
<1>4. ASSUME EndSync(p) PROVE TypeOK' /\ StepShape(p)
  <2>1. ProcTypeOK' /\ StepShape(p)
    BY <1>4, GotoShape
    DEF EndSync, TypeOK, Follows, Labels, TargetLabels, CleaningLabels
  <2>2. StoreTypeOK'
    BY <1>4 DEF EndSync, TypeOK, StoreTypeOK, ProcTypeOK, Name, SnapStates,
        MirrorStates, TargetLabels
  <2>3. work' \in Work
    BY <1>4 DEF EndSync, TypeOK, Work, ProcTypeOK, Name, TargetLabels
  <2> QED  BY <1>4, <2>1, <2>2, <2>3, Frames DEF EndSync, TypeOK
<1>5. ASSUME SyncFails(p) PROVE TypeOK' /\ StepShape(p)
  <2>1. ProcTypeOK' /\ StepShape(p) /\ work' \in Work
    <3>1. CASE Op(p) = "reconcile"
      <4>1. ProcTypeOK' /\ StepShape(p)
        BY <1>5, <3>1, GotoShape
        DEF SyncFails, TypeOK, Follows, Labels, TargetLabels, CleaningLabels
      <4>2. {s \in {Name(p)} : WasBootable(s)} \in SUBSET Snaps
        BY <1>5 DEF SyncFails, TypeOK, ProcTypeOK, TargetLabels
      <4>3. PICK kept \in SUBSET Snaps :
                work' = [work EXCEPT !.issues = TRUE, !.valid = @ \cup kept]
        BY <1>5, <3>1, <4>2 DEF SyncFails
      <4>4. work' \in Work
        BY <4>3 DEF TypeOK, Work
      <4> QED  BY <4>1, <4>4
    <3>2. CASE Op(p) # "reconcile"
      BY <1>5, <3>2, FinishShape DEF SyncFails, TypeOK, Results, CleaningLabels
    <3> QED  BY <3>1, <3>2
  <2>2. StoreTypeOK'
    BY <1>5 DEF SyncFails, TypeOK, StoreTypeOK, MirrorStates
  <2> QED  BY <1>5, <2>1, <2>2, Frames DEF SyncFails, TypeOK
<1>6. ASSUME FindEntry(p) PROVE TypeOK' /\ StepShape(p)
  <2>1. ProcTypeOK' /\ StepShape(p)
    BY <1>6, GotoShape
    DEF FindEntry, TypeOK, Follows, Labels, TargetLabels, CleaningLabels
  <2> QED  BY <1>6, <2>1, Frames DEF FindEntry, TypeOK
<1>7. ASSUME NoMirror(p) PROVE TypeOK' /\ StepShape(p)
  <2>1. ProcTypeOK' /\ StepShape(p)
    BY <1>7, GotoShape
    DEF NoMirror, AfterUnmirror, TypeOK, Follows, Labels, TargetLabels, CleaningLabels
  <2> QED  BY <1>7, <2>1, Frames DEF NoMirror, TypeOK
<1>8. ASSUME StartUnmirror(p) PROVE TypeOK' /\ StepShape(p)
  <2>1. ProcTypeOK' /\ StepShape(p)
    BY <1>8, GotoShape
    DEF StartUnmirror, TypeOK, Follows, Labels, TargetLabels, CleaningLabels
  <2>2. StoreTypeOK'
    BY <1>8 DEF StartUnmirror, TypeOK, StoreTypeOK, ProcTypeOK, Name, SnapStates,
        MirrorStates, TargetLabels
  <2> QED  BY <1>8, <2>1, <2>2, Frames DEF StartUnmirror, TypeOK
<1>9. ASSUME EndUnmirror(p) PROVE TypeOK' /\ StepShape(p)
  <2>1. ProcTypeOK' /\ StepShape(p)
    BY <1>9, GotoShape
    DEF EndUnmirror, AfterUnmirror, TypeOK, Follows, Labels, TargetLabels,
        CleaningLabels
  <2>2. StoreTypeOK'
    BY <1>9 DEF EndUnmirror, TypeOK, StoreTypeOK, ProcTypeOK, Name, SnapStates,
        MirrorStates, TargetLabels
  <2> QED  BY <1>9, <2>1, <2>2, Frames DEF EndUnmirror, TypeOK
<1>10. ASSUME UnmirrorFails(p) PROVE TypeOK' /\ StepShape(p)
  <2>1. ProcTypeOK' /\ StepShape(p) /\ work' \in Work
    <3>1. CASE Op(p) = "reconcile"
      <4>1. ProcTypeOK' /\ StepShape(p)
        BY <1>10, <3>1, GotoShape
        DEF UnmirrorFails, TypeOK, Follows, Labels, TargetLabels, CleaningLabels
      <4>2. work' \in Work
        BY <1>10, <3>1 DEF UnmirrorFails, TypeOK, Work
      <4> QED  BY <4>1, <4>2
    <3>2. CASE Op(p) # "reconcile"
      BY <1>10, <3>2, FinishShape DEF UnmirrorFails, TypeOK, Results, CleaningLabels
    <3> QED  BY <3>1, <3>2
  <2> QED  BY <1>10, <2>1, Frames DEF UnmirrorFails, TypeOK
<1>11. ASSUME StartUnsnap(p) PROVE TypeOK' /\ StepShape(p)
  <2>1. ProcTypeOK' /\ StepShape(p)
    BY <1>11, GotoShape
    DEF StartUnsnap, TypeOK, Follows, Labels, TargetLabels, CleaningLabels
  <2>2. StoreTypeOK'
    BY <1>11 DEF StartUnsnap, TypeOK, StoreTypeOK, ProcTypeOK, Name, SnapStates,
        MirrorStates, TargetLabels, TreeStates
  <2> QED  BY <1>11, <2>1, <2>2, Frames DEF StartUnsnap, TypeOK
<1>12. ASSUME EndUnsnap(p) PROVE TypeOK' /\ StepShape(p)
  <2>1. ProcTypeOK' /\ StepShape(p)
    BY <1>12, GotoShape
    DEF EndUnsnap, TypeOK, Follows, Labels, TargetLabels, CleaningLabels
  <2>2. StoreTypeOK'
    BY <1>12 DEF EndUnsnap, TypeOK, StoreTypeOK, ProcTypeOK, Name, SnapStates,
        MirrorStates, TargetLabels, TreeStates
  <2> QED  BY <1>12, <2>1, <2>2, Frames DEF EndUnsnap, TypeOK
<1> QED
  BY <1>1, <1>2, <1>3, <1>4, <1>5, <1>6, <1>7, <1>8, <1>9, <1>10, <1>11, <1>12 DEF
      MirrorSteps

-----------------------------------------------------------------------------
(* Reconcile.                                                              *)

\* Every step of ReconcileSteps is typed and has the shape of an operation step.
LEMMA ReconcileStepsShape ==
  ASSUME TypeOK, NEW p \in Procs, ReconcileSteps(p)
  PROVE  TypeOK' /\ StepShape(p)
<1>1. ASSUME Scan(p) PROVE TypeOK' /\ StepShape(p)
  <2>1. ProcTypeOK' /\ StepShape(p)
    BY <1>1, GotoShape
    DEF Scan, TypeOK, Follows, Labels, TargetLabels, CleaningLabels
  <2>2. work' \in Work
    <3>1. Discovered \in SUBSET Snaps
      BY DEF Discovered
    <3>2. Listed \in SUBSET Snaps
      BY DEF Listed, TypeOK, MenuTypeOK
    <3>3. {v \in Versions : TreePresent(v)} \in SUBSET Versions
      OBVIOUS
    <3> QED  BY <1>1, <3>1, <3>2, <3>3 DEF Scan, Work, TypeOK
  <2> QED  BY <1>1, <2>1, <2>2, Frames DEF Scan, TypeOK
<1>2. ASSUME VisitMirrorToDrop(p) PROVE TypeOK' /\ StepShape(p)
  <2>1. ProcTypeOK' /\ StepShape(p)
    BY <1>2, VisitShape DEF VisitMirrorToDrop, TypeOK, Work, TargetLabels
  <2>2. work' \in Work
    BY <1>2 DEF VisitMirrorToDrop, TypeOK, Work
  <2> QED  BY <1>2, <2>1, <2>2, Frames DEF VisitMirrorToDrop, TypeOK
<1>3. ASSUME VisitInactive(p) PROVE TypeOK' /\ StepShape(p)
  <2>1. ProcTypeOK' /\ StepShape(p)
    BY <1>3, GotoShape
    DEF VisitInactive, TypeOK, Follows, Labels, TargetLabels, CleaningLabels
  <2>2. work' \in Work
    BY <1>3 DEF VisitInactive, TypeOK, Work
  <2> QED  BY <1>3, <2>1, <2>2, Frames DEF VisitInactive, TypeOK
<1>4. ASSUME VisitUntrusted(p) PROVE TypeOK' /\ StepShape(p)
  <2>1. ProcTypeOK' /\ StepShape(p)
    BY <1>4, GotoShape
    DEF VisitUntrusted, TypeOK, Follows, Labels, TargetLabels, CleaningLabels
  <2>2. PICK s \in work.todo \cap work.active, keep \in SUBSET work.active :
            work' = [work EXCEPT !.todo = @ \ {s}, !.valid = @ \cup keep]
    <3>1. PICK s \in work.todo \cap work.active :
            \E known \in Identified(s), plausible \in MirrorPlausible(s) :
              work' = [work EXCEPT !.todo = @ \ {s},
                           !.valid = @ \cup {t \in {s} : plausible
                                             /\ ~(known /\ ver[s] \notin work.seen)}]
      BY <1>4 DEF VisitUntrusted
    <3> QED  BY <3>1
  <2>3. work' \in Work
    BY <2>2 DEF TypeOK, Work
  <2> QED  BY <1>4, <2>1, <2>3, Frames DEF VisitUntrusted, TypeOK
<1>5. ASSUME VisitActive(p) PROVE TypeOK' /\ StepShape(p)
  <2>1. ProcTypeOK' /\ StepShape(p)
    BY <1>5, VisitShape DEF VisitActive, TypeOK, Work, TargetLabels
  <2>2. work' \in Work
    BY <1>5 DEF VisitActive, TypeOK, Work
  <2> QED  BY <1>5, <2>1, <2>2, Frames DEF VisitActive, TypeOK
<1>6. ASSUME VisitsDone(p) PROVE TypeOK' /\ StepShape(p)
  <2>1. ProcTypeOK' /\ StepShape(p)
    BY <1>6, GotoShape
    DEF VisitsDone, TypeOK, Follows, Labels, TargetLabels, CleaningLabels
  <2>2. work' \in Work
    BY <1>6 DEF VisitsDone, Listed, MenuTypeOK, TypeOK, Work
  <2> QED  BY <1>6, <2>1, <2>2, Frames DEF VisitsDone, TypeOK
<1>7. ASSUME RemoveStale(p) PROVE TypeOK' /\ StepShape(p)
  <2>1. ProcTypeOK' /\ StepShape(p)
    BY <1>7, VisitShape DEF RemoveStale, TypeOK, Work, TargetLabels
  <2>2. work' \in Work
    BY <1>7 DEF RemoveStale, TypeOK, Work
  <2> QED  BY <1>7, <2>1, <2>2, Frames DEF RemoveStale, TypeOK
<1>8. ASSUME StaleDone(p) PROVE TypeOK' /\ StepShape(p)
  <2>1. ProcTypeOK' /\ StepShape(p)
    BY <1>8, GotoShape
    DEF StaleDone, TypeOK, Follows, Labels, TargetLabels, CleaningLabels
  <2> QED  BY <1>8, <2>1, Frames DEF StaleDone, TypeOK
<1> QED  BY <1>1, <1>2, <1>3, <1>4, <1>5, <1>6, <1>7, <1>8 DEF ReconcileSteps

-----------------------------------------------------------------------------
(* The entries of the boot menu.                                           *)

\* Every step of BootEntrySteps is typed and has the shape of an operation step.
LEMMA BootEntryStepsShape ==
  ASSUME TypeOK, NEW p \in Procs, BootEntrySteps(p)
  PROVE  TypeOK' /\ StepShape(p)
<1>1. ASSUME CheckEntry(p) PROVE TypeOK' /\ StepShape(p)
  <2>1. ProcTypeOK' /\ StepShape(p)
    BY <1>1, GotoShape
    DEF CheckEntry, TypeOK, Follows, Labels, TargetLabels, CleaningLabels
  <2> QED  BY <1>1, <2>1, Frames DEF CheckEntry, TypeOK
<1>2. ASSUME EntryAlreadyListed(p) PROVE TypeOK' /\ StepShape(p)
  <2>1. ProcTypeOK' /\ StepShape(p) /\ work' \in Work
    BY <1>2, FinishShape
    DEF EntryAlreadyListed, TypeOK, Results, CleaningLabels
  <2> QED  BY <1>2, <2>1, Frames DEF EntryAlreadyListed, TypeOK
<1>3. ASSUME EntryAsBLS(p) PROVE TypeOK' /\ StepShape(p)
  <2>1. ProcTypeOK' /\ StepShape(p) /\ work' \in Work
    BY <1>3, FinishShape
    DEF EntryAsBLS, TypeOK, Results, CleaningLabels
  <2>2. MenuTypeOK'
    BY <1>3 DEF EntryAsBLS, TypeOK, MenuTypeOK, ProcTypeOK, Name, TargetLabels
  <2> QED  BY <1>3, <2>1, <2>2, Frames DEF EntryAsBLS, TypeOK
<1>4. ASSUME EntryAsMenuentry(p) PROVE TypeOK' /\ StepShape(p)
  <2>1. ProcTypeOK' /\ StepShape(p)
    BY <1>4, GotoShape
    DEF EntryAsMenuentry, RewriteCustom, TypeOK, Follows, Labels, TargetLabels,
        CleaningLabels
  <2>2. work' \in Work
    BY <1>4 DEF EntryAsMenuentry, TypeOK, Work, RewriteCustom, MenuTypeOK,
        ProcTypeOK, Name, TargetLabels
  <2>3. MenuTypeOK'
    BY <1>4 DEF EntryAsMenuentry, TypeOK, MenuTypeOK, ProcTypeOK, Name, TargetLabels
  <2> QED  BY <1>4, <2>1, <2>2, <2>3, Frames DEF EntryAsMenuentry, TypeOK
<1>5. ASSUME UnlistWithoutCustom(p) PROVE TypeOK' /\ StepShape(p)
  <2>1. ProcTypeOK' /\ StepShape(p)
    BY <1>5, GotoShape
    DEF UnlistWithoutCustom, AfterUnlist, TypeOK, Follows, Labels, TargetLabels,
        CleaningLabels
  <2>2. MenuTypeOK'
    BY <1>5 DEF UnlistWithoutCustom, TypeOK, MenuTypeOK, ProcTypeOK, Name,
        TargetLabels
  <2> QED  BY <1>5, <2>1, <2>2, Frames DEF UnlistWithoutCustom, TypeOK
<1>6. ASSUME UnlistFromCustom(p) PROVE TypeOK' /\ StepShape(p)
  <2>1. ProcTypeOK' /\ StepShape(p)
    BY <1>6, GotoShape
    DEF UnlistFromCustom, RewriteCustom, TypeOK, Follows, Labels, TargetLabels,
        CleaningLabels
  <2>2. work' \in Work
    BY <1>6 DEF UnlistFromCustom, TypeOK, Work, RewriteCustom, MenuTypeOK
  <2>3. MenuTypeOK'
    BY <1>6 DEF UnlistFromCustom, TypeOK, MenuTypeOK, ProcTypeOK, Name, TargetLabels
  <2> QED  BY <1>6, <2>1, <2>2, <2>3, Frames DEF UnlistFromCustom, TypeOK
<1>7. ASSUME TruncateCustom(p) PROVE TypeOK' /\ StepShape(p)
  <2>1. ProcTypeOK' /\ StepShape(p)
    BY <1>7, GotoShape
    DEF TruncateCustom, TypeOK, Follows, Labels, TargetLabels, CleaningLabels
  <2>2. MenuTypeOK'
    BY <1>7 DEF TruncateCustom, TypeOK, MenuTypeOK, ProcTypeOK, Name, TargetLabels
  <2> QED  BY <1>7, <2>1, <2>2, Frames DEF TruncateCustom, TypeOK
<1>8. ASSUME WriteCustom(p) PROVE TypeOK' /\ StepShape(p)
  <2>1. ProcTypeOK' /\ StepShape(p)
    BY <1>8, GotoShape
    DEF WriteCustom, TypeOK, Follows, Labels, TargetLabels, CleaningLabels
  <2>2. MenuTypeOK'
    BY <1>8 DEF WriteCustom, TypeOK, MenuTypeOK, ProcTypeOK, Name, TargetLabels, Work
  <2> QED  BY <1>8, <2>1, <2>2, Frames DEF WriteCustom, TypeOK
<1>9. ASSUME WriteCustomFails(p) PROVE TypeOK' /\ StepShape(p)
  <2>1. ProcTypeOK' /\ StepShape(p) /\ work' \in Work
    BY <1>9, FinishShape
    DEF WriteCustomFails, EntryFailure, TypeOK, Results, CleaningLabels
  <2> QED  BY <1>9, <2>1, Frames DEF WriteCustomFails, TypeOK
<1>10. ASSUME UpdateGrubConfig(p) PROVE TypeOK' /\ StepShape(p)
  <2>1. ProcTypeOK' /\ StepShape(p) /\ work' \in Work
    <3>1. CASE Op(p) = "activate"
      BY <1>10, <3>1, FinishShape DEF UpdateGrubConfig, TypeOK, Results,
          CleaningLabels
    <3>2. CASE Op(p) # "activate"
      BY <1>10, <3>2, GotoShape
      DEF UpdateGrubConfig, AfterUnlist, TypeOK, Follows, Labels, TargetLabels,
          CleaningLabels
    <3> QED  BY <3>1, <3>2
  <2>2. MenuTypeOK'
    BY <1>10 DEF UpdateGrubConfig, TypeOK, MenuTypeOK
  <2> QED  BY <1>10, <2>1, <2>2, Frames DEF UpdateGrubConfig, TypeOK
<1>11. ASSUME UpdateGrubConfigFails(p) PROVE TypeOK' /\ StepShape(p)
  <2>1. ProcTypeOK' /\ StepShape(p) /\ work' \in Work
    BY <1>11, FinishShape
    DEF UpdateGrubConfigFails, EntryFailure, TypeOK, Results, CleaningLabels
  <2>2. MenuTypeOK'
    BY <1>11 DEF UpdateGrubConfigFails, TypeOK, MenuTypeOK, ProcTypeOK, Name,
        TargetLabels, Work
  <2> QED  BY <1>11, <2>1, <2>2, Frames DEF UpdateGrubConfigFails, TypeOK
<1>12. ASSUME RollbackFails(p) PROVE TypeOK' /\ StepShape(p)
  <2>1. ProcTypeOK' /\ StepShape(p) /\ work' \in Work
    BY <1>12, FinishShape
    DEF RollbackFails, EntryFailure, TypeOK, Results, CleaningLabels
  <2>2. MenuTypeOK'
    BY <1>12 DEF RollbackFails, TypeOK, MenuTypeOK, ProcTypeOK, Name, TargetLabels
  <2> QED  BY <1>12, <2>1, <2>2, Frames DEF RollbackFails, TypeOK
<1> QED
  BY <1>1, <1>2, <1>3, <1>4, <1>5, <1>6, <1>7, <1>8, <1>9, <1>10, <1>11, <1>12 DEF
      BootEntrySteps

-----------------------------------------------------------------------------
(* The module trees.                                                       *)

\* Every step of ModuleSteps is typed and has the shape of an operation step.
LEMMA ModuleStepsShape ==
  ASSUME TypeOK, NEW p \in Procs, ModuleSteps(p)
  PROVE  TypeOK' /\ StepShape(p)
<1>1. ASSUME RestoreModules(p) PROVE TypeOK' /\ StepShape(p)
  <2>1. ProcTypeOK' /\ StepShape(p)
    BY <1>1, GotoShape
    DEF RestoreModules, TypeOK, Follows, Labels, TargetLabels, CleaningLabels
  <2>2. TreeTypeOK'
    BY <1>1 DEF RestoreModules, TypeOK, TreeTypeOK, StoreTypeOK, ProcTypeOK, Name,
        TargetLabels, Extract, HasArchive, treeVars
  <2> QED  BY <1>1, <2>1, <2>2, Frames DEF RestoreModules, TypeOK
<1>2. ASSUME RestoreFails(p) PROVE TypeOK' /\ StepShape(p)
  <2>1. ProcTypeOK' /\ StepShape(p) /\ work' \in Work
    <3>1. CASE Op(p) = "reconcile"
      <4>1. ProcTypeOK' /\ StepShape(p)
        BY <1>2, <3>1, GotoShape
        DEF RestoreFails, TypeOK, Follows, Labels, TargetLabels, CleaningLabels
      <4>2. work' \in Work
        BY <1>2, <3>1 DEF RestoreFails, TypeOK, Work
      <4> QED  BY <4>1, <4>2
    <3>2. CASE Op(p) # "reconcile"
      BY <1>2, <3>2, FinishShape DEF RestoreFails, TypeOK, Results, CleaningLabels
    <3> QED  BY <3>1, <3>2
  <2>2. TreeTypeOK'
    BY <1>2 DEF RestoreFails, TypeOK, TreeTypeOK, StoreTypeOK, ProcTypeOK, Name,
        TargetLabels,
                Extract, HasArchive, treeVars
  <2> QED  BY <1>2, <2>1, <2>2, Frames DEF RestoreFails, TypeOK
<1>3. ASSUME CleanupNotDue(p) PROVE TypeOK' /\ StepShape(p)
  <2>1. ProcTypeOK' /\ StepShape(p) /\ work' \in Work
    BY <1>3, FinishShape
    DEF CleanupNotDue, CleanupResult, TypeOK, Results, CleaningLabels
  <2> QED  BY <1>3, <2>1, Frames DEF CleanupNotDue, TypeOK
<1>4. ASSUME HoldPackageLock(p) PROVE TypeOK' /\ StepShape(p)
  <2>1. ProcTypeOK' /\ StepShape(p)
    BY <1>4 DEF HoldPackageLock, Goto, TypeOK, ProcTypeOK, StepShape, Labels,
        TargetLabels, CleaningLabels, Name, Op
  <2> QED  BY <1>4, <2>1, Frames DEF HoldPackageLock, TypeOK
<1>5. ASSUME ChooseDoomed(p) PROVE TypeOK' /\ StepShape(p)
  <2>1. ProcTypeOK' /\ StepShape(p)
    BY <1>5, GotoShape
    DEF ChooseDoomed, TypeOK, Follows, Labels, TargetLabels, CleaningLabels
  <2>2. work' \in Work
    BY <1>5 DEF ChooseDoomed, TypeOK, Work, TreeTypeOK, Candidates
  <2> QED  BY <1>5, <2>1, <2>2, Frames DEF ChooseDoomed, TypeOK
<1>6. ASSUME ProtectionUnproved(p) PROVE TypeOK' /\ StepShape(p)
  <2>1. ProcTypeOK' /\ StepShape(p)
    BY <1>6, GotoShape
    DEF ProtectionUnproved, TypeOK, Follows, Labels, TargetLabels, CleaningLabels
  <2>2. work' \in Work
    BY <1>6 DEF ProtectionUnproved, TypeOK, Work
  <2> QED  BY <1>6, <2>1, <2>2, Frames DEF ProtectionUnproved, TypeOK
<1>7. ASSUME StartPurge(p) PROVE TypeOK' /\ StepShape(p)
  <2>1. ProcTypeOK' /\ StepShape(p)
    BY <1>7, GotoShape
    DEF StartPurge, TypeOK, Follows, Labels, TargetLabels, CleaningLabels
  <2>2. TreeTypeOK'
    BY <1>7 DEF StartPurge, TypeOK, TreeTypeOK, Work, TreeStates
  <2>3. work' \in Work
    BY <1>7 DEF StartPurge, TypeOK, Work
  <2> QED  BY <1>7, <2>1, <2>2, <2>3, Frames DEF StartPurge, TypeOK
<1>8. ASSUME EndPurge(p) PROVE TypeOK' /\ StepShape(p)
  <2>1. ProcTypeOK' /\ StepShape(p)
    BY <1>8, GotoShape
    DEF EndPurge, TypeOK, Follows, Labels, TargetLabels, CleaningLabels
  <2>2. TreeTypeOK'
    BY <1>8 DEF EndPurge, TypeOK, TreeTypeOK, Work, TreeStates
  <2>3. work' \in Work
    BY <1>8 DEF EndPurge, TypeOK, Work
  <2> QED  BY <1>8, <2>1, <2>2, <2>3, Frames DEF EndPurge, TypeOK
<1>9. ASSUME PurgeFails(p) PROVE TypeOK' /\ StepShape(p)
  <2>1. ProcTypeOK' /\ StepShape(p)
    BY <1>9, GotoShape
    DEF PurgeFails, TypeOK, Follows, Labels, TargetLabels, CleaningLabels
  <2>2. work' \in Work
    BY <1>9 DEF PurgeFails, TypeOK, Work
  <2> QED  BY <1>9, <2>1, <2>2, Frames DEF PurgeFails, TypeOK
<1>10. ASSUME PurgeDone(p) PROVE TypeOK' /\ StepShape(p)
  <2>1. ProcTypeOK' /\ StepShape(p)
    BY <1>10, GotoShape
    DEF PurgeDone, TypeOK, Follows, Labels, TargetLabels, CleaningLabels
  <2> QED  BY <1>10, <2>1, Frames DEF PurgeDone, TypeOK
<1>11. ASSUME ReleasePackageLock(p) PROVE TypeOK' /\ StepShape(p)
  <2>1. ProcTypeOK' /\ StepShape(p)
    BY <1>11 DEF ReleasePackageLock, Finish, CleanupResult, Results, TypeOK,
        ProcTypeOK, StepShape, Labels, TargetLabels, CleaningLabels, Name, Op
  <2>2. work' \in Work
    BY <1>11 DEF ReleasePackageLock, Finish, NoWork, Work, TreeStates
  <2> QED  BY <1>11, <2>1, <2>2, Frames DEF ReleasePackageLock, TypeOK
<1> QED
  BY <1>1, <1>2, <1>3, <1>4, <1>5, <1>6, <1>7, <1>8, <1>9, <1>10, <1>11 DEF
      ModuleSteps

-----------------------------------------------------------------------------
(* All steps of an operation.                                              *)

\* An error return has the shape of an operation step too.
LEMMA GiveUpShape ==
  ASSUME TypeOK, NEW p \in Procs, GiveUp(p)
  PROVE  TypeOK' /\ StepShape(p)
<1>1. AbortResult(p) \in Results
  BY DEF AbortResult, Results
<1>2. pc[p] \notin {"idle", "waiting"} \cup CleaningLabels
  BY DEF GiveUp, Refused, MayAbort, CleaningLabels
<1>3. ProcTypeOK' /\ StepShape(p) /\ work' \in Work
  BY <1>1, <1>2, FinishShape DEF GiveUp, TypeOK
<1> QED  BY <1>3, Frames DEF GiveUp, TypeOK

\* So has every step of an operation.
LEMMA OperationStepsShape ==
  ASSUME TypeOK, NEW p \in Procs, OperationSteps(p)
  PROVE  TypeOK' /\ StepShape(p)
BY CreateStepsShape, MirrorStepsShape, ReconcileStepsShape, BootEntryStepsShape,
   ModuleStepsShape, GiveUpShape DEF OperationSteps

-----------------------------------------------------------------------------
(* The steps between operations and around them.                           *)

\* The type of what a boot or a kill changes.
LEMMA ProcessesType ==
  ASSUME TypeOK, NEW p \in Procs
  PROVE  /\ Request(p) => TypeOK'
         /\ Acquire(p) => TypeOK'
         /\ Kill(p) => TypeOK'
<1>1. ASSUME Request(p) PROVE TypeOK'
  <2>1. PICK op \in Operations, s \in Snaps \cup {NoName} :
            /\ (s = NoName) = (op \in {"create", "reconcile"})
            /\ task' = [task EXCEPT ![p] = [op |-> op, name |-> s]]
    BY <1>1 DEF Request
  <2>2. task' \in [Procs -> Task]
    BY <2>1, ConstantsOK DEF TypeOK, ProcTypeOK, Task
  <2>3. \A q \in Procs : Name(q)' = NoName => Op(q)' \in {"create", "reconcile"}
    BY <2>1 DEF TypeOK, ProcTypeOK, Name, Op, Task
  <2>4. /\ pc' = [pc EXCEPT ![p] = "waiting"]
        /\ result' = [result EXCEPT ![p] = "none"]
        /\ UNCHANGED <<lock, dbLock>>
    BY <1>1 DEF Request, lockVars
  <2>5. \A q \in Procs : pc'[q] \in TargetLabels => Name(q)' \in Snaps
    BY <2>1, <2>4 DEF TypeOK, ProcTypeOK, TargetLabels, Name
  <2>6. ProcTypeOK'
    BY <2>2, <2>3, <2>4, <2>5 DEF TypeOK, ProcTypeOK, Labels, Results
  <2> QED  BY <1>1, <2>6, Frames DEF Request, TypeOK
<1>2. ASSUME Acquire(p) PROVE TypeOK'
  <2>1. FirstStep(Op(p)) \in Labels
    BY DEF FirstStep, Labels, Op, TypeOK, ProcTypeOK, Task, AllOperations
  <2>2. FirstStep(Op(p)) \in TargetLabels => Name(p) \in Snaps
    BY DEF FirstStep, TargetLabels, Op, Name, TypeOK, ProcTypeOK, Task, AllOperations
  <2>3. ProcTypeOK'
    BY <1>2, <2>1, <2>2 DEF Acquire, TypeOK, ProcTypeOK, Name, Op
  <2> QED  BY <1>2, <2>3, Frames DEF Acquire, TypeOK
<1>3. ASSUME Kill(p) PROVE TypeOK'
  <2>1. ProcTypeOK'
    BY <1>3 DEF Kill, StaleDbLock, TypeOK, ProcTypeOK, Labels, Results,
        TargetLabels, Name, Op
  <2>2. work' \in Work
    <3>1. NoWork \in Work
      BY DEF NoWork, Work, TreeStates
    <3> QED  BY <1>3, <3>1 DEF Kill, TypeOK
  <2>3. EnvTypeOK'
    BY <1>3 DEF Kill, TypeOK, EnvTypeOK
  <2> QED  BY <1>3, <2>1, <2>2, <2>3, Frames DEF Kill, TypeOK
<1> QED  BY <1>1, <1>2, <1>3

\* The type of what goes on around the operations.
LEMMA SurroundingsType ==
  ASSUME TypeOK, Surroundings
  PROVE  TypeOK'
<1>1. ASSUME PackageSteps PROVE TypeOK'
  <2>1. CASE PackageBegins \/ PackageEnds
    <3>1. ProcTypeOK'
      BY <2>1 DEF PackageBegins, PackageEnds, TypeOK, ProcTypeOK, procVars, Name, Op
    <3> QED  BY <2>1, <3>1, Frames DEF PackageBegins, PackageEnds, TypeOK
  <2>2. CASE PackageReplacesTree
    <3>1. TreeTypeOK' /\ SystemTypeOK'
      BY <2>2 DEF PackageReplacesTree, TypeOK, TreeTypeOK, SystemTypeOK, TreeStates
    <3>2. EnvTypeOK'
      BY <2>2 DEF PackageReplacesTree, TypeOK, EnvTypeOK
    <3> QED  BY <2>2, <3>1, <3>2, Frames DEF PackageReplacesTree, TypeOK
  <2>3. CASE PackageReplacesImage
    <3>1. SystemTypeOK'
      BY <2>3 DEF PackageReplacesImage, TypeOK, SystemTypeOK
    <3> QED  BY <2>3, <3>1, Frames DEF PackageReplacesImage, TypeOK
  <2> QED  BY <1>1, <2>1, <2>2, <2>3 DEF PackageSteps
<1>2. ASSUME StartupSteps PROVE TypeOK'
  <2>1. MenuTypeOK'
    BY <1>2 DEF StartupSteps, StartupReads, StartupWrites, TypeOK, MenuTypeOK,
        menuVars
  <2>2. EnvTypeOK'
    BY <1>2 DEF StartupSteps, StartupReads, StartupWrites, TypeOK, EnvTypeOK, Startup
  <2> QED
    BY <1>2, <2>1, <2>2, Frames DEF StartupSteps, StartupReads, StartupWrites, TypeOK
<1>3. ASSUME PowerCycle PROVE ProcTypeOK' /\ work' \in Work /\ EnvTypeOK'
  <2>1. ProcTypeOK'
    BY <1>3 DEF PowerCycle, StaleDbLock, TypeOK, ProcTypeOK, Labels, Results,
                TargetLabels, Name, Op
  <2>2. work' \in Work
    BY <1>3 DEF PowerCycle, NoWork, Work, TreeStates
  <2>3. EnvTypeOK'
    BY <1>3 DEF PowerCycle, TypeOK, EnvTypeOK, Startup
  <2> QED  BY <2>1, <2>2, <2>3
<1>4. ASSUME Reboot PROVE TypeOK'
  <2>1. SystemTypeOK'
    BY <1>4 DEF Reboot, PowerCycle, TypeOK, SystemTypeOK
  <2> QED  BY <1>4, <1>3, <2>1, Frames DEF Reboot, PowerCycle, TypeOK
<1>5. ASSUME BootRecovery PROVE TypeOK'
  <2>1. SystemTypeOK'
    BY <1>5 DEF BootRecovery, PowerCycle, TypeOK, SystemTypeOK, StoreTypeOK,
        MenuTypeOK
  <2>2. TreeTypeOK'
    BY <1>5 DEF BootRecovery, TypeOK, TreeTypeOK, StoreTypeOK, MenuTypeOK,
        Extract, treeVars
  <2> QED  BY <1>5, <1>3, <2>1, <2>2, Frames DEF BootRecovery, PowerCycle, TypeOK
<1>6. ASSUME ClearDbLock PROVE TypeOK'
  <2>1. ProcTypeOK'
    BY <1>6 DEF ClearDbLock, TypeOK, ProcTypeOK, procVars, Name, Op
  <2> QED  BY <1>6, <2>1, Frames DEF ClearDbLock, TypeOK
<1>7. ASSUME DamageSnapshot \/ LoseSnapshot PROVE TypeOK'
  <2>1. StoreTypeOK'
    BY <1>7 DEF DamageSnapshot, LoseSnapshot, TypeOK, StoreTypeOK, SnapStates,
        TreeStates
  <2> QED  BY <1>7, <2>1, Frames DEF DamageSnapshot, LoseSnapshot, TypeOK
<1> QED  BY <1>1, <1>2, <1>4, <1>5, <1>6, <1>7 DEF Surroundings

\* A stuttering step.
LEMMA StutterType ==
  ASSUME TypeOK, UNCHANGED vars
  PROVE  TypeOK'
<1>1. UNCHANGED <<storeVars, menuVars, treeVars, systemVars, lockVars, procVars, work, envVars>>
  BY DEF vars
<1> QED  BY <1>1, Frames DEF TypeOK

\* The base case of TypeOK.
LEMMA InitType == Init => TypeOK
<1> SUFFICES ASSUME Init PROVE TypeOK
  OBVIOUS
<1>1. StoreTypeOK /\ MenuTypeOK
  BY DEF Init, StoreTypeOK, MenuTypeOK, SnapStates, MirrorStates, TreeStates
<1>2. TreeTypeOK /\ SystemTypeOK /\ EnvTypeOK
  BY ConstantsOK DEF Init, TreeTypeOK, SystemTypeOK, EnvTypeOK, TreeStates, Startup
<1>3. ProcTypeOK
  BY DEF Init, ProcTypeOK, Labels, TargetLabels, Results, Task, AllOperations,
      Name, Op
<1>4. work \in Work
  BY DEF Init, NoWork, Work, TreeStates
<1> QED  BY <1>1, <1>2, <1>3, <1>4 DEF TypeOK

\* TypeOK is inductive.
LEMMA NextType ==
  ASSUME TypeOK, [Next]_vars
  PROVE  TypeOK'
<1>1. ASSUME NEW p \in Procs, ProcSteps(p) PROVE TypeOK'
  BY <1>1, OperationStepsShape, ProcessesType DEF ProcSteps
<1> QED  BY <1>1, SurroundingsType, StutterType DEF Next

\* TypeOK is an invariant: in particular a process that acts on a snapshot has
\* one to act on, in every state the operations reach.
THEOREM TypeCorrect == Spec => []TypeOK
<1>1. Init => TypeOK
  BY InitType
<1>2. TypeOK /\ [Next]_vars => TypeOK'
  BY NextType
<1> QED  BY <1>1, <1>2, PTL DEF Spec

-----------------------------------------------------------------------------
(* One operation at a time.                                                *)

\* Steps of that shape keep both locks with their holders.
LEMMA ShapeOneOperation ==
  ASSUME TypeOK, OneOperation, NEW p \in Procs, StepShape(p)
  PROVE  OneOperation'
<1>1. lock = p
  BY DEF OneOperation, StepShape
<1>2. \A q \in Procs \ {p} : pc[q] \in {"idle", "waiting"} /\ pc'[q] = pc[q]
  BY <1>1 DEF OneOperation, StepShape
<1>3. \A q \in Procs \ {p} : dbLock # q /\ dbLock' # q
  BY <1>2, ConstantsOK DEF OneOperation, StepShape, CleaningLabels
<1>4. \A q \in Procs \ {p} : /\ pc'[q] \notin {"idle", "waiting"} <=> lock' = q
                             /\ pc'[q] \in CleaningLabels <=> dbLock' = q
  BY <1>1, <1>2, <1>3, ConstantsOK DEF StepShape, CleaningLabels
<1>5. pc'[p] \notin {"idle", "waiting"} <=> lock' = p
  BY <1>1, ConstantsOK DEF StepShape
<1>6. pc'[p] \in CleaningLabels <=> dbLock' = p
  BY ConstantsOK DEF OneOperation, StepShape, CleaningLabels
<1> QED  BY <1>4, <1>5, <1>6 DEF OneOperation

\* OneOperation is inductive, given the types.
LEMMA NextOneOperation ==
  ASSUME TypeOK, OneOperation, [Next]_vars
  PROVE  OneOperation'
<1> USE ConstantsOK DEF TypeOK, ProcTypeOK
<1>1. ASSUME NEW p \in Procs, OperationSteps(p) PROVE OneOperation'
  BY <1>1, OperationStepsShape, ShapeOneOperation
<1>2. ASSUME NEW p \in Procs, Request(p) PROVE OneOperation'
  BY <1>2 DEF Request, OneOperation, lockVars, CleaningLabels
<1>3. ASSUME NEW p \in Procs, Acquire(p) PROVE OneOperation'
  <2>1. FirstStep(Op(p)) \notin {"idle", "waiting"} \cup CleaningLabels
    BY DEF FirstStep, CleaningLabels, Op, Task, AllOperations
  <2> QED  BY <1>3, <2>1 DEF Acquire, OneOperation, CleaningLabels
<1>4. ASSUME NEW p \in Procs, Kill(p) PROVE OneOperation'
  BY <1>4 DEF Kill, StaleDbLock, OneOperation, CleaningLabels
<1>5. ASSUME PackageSteps PROVE OneOperation'
  BY <1>5 DEF PackageSteps, PackageBegins, PackageReplacesTree, PackageReplacesImage,
              PackageEnds, OneOperation, lockVars, procVars
<1>6. ASSUME Reboot \/ BootRecovery PROVE OneOperation'
  BY <1>6 DEF Reboot, BootRecovery, PowerCycle, StaleDbLock, OneOperation,
      CleaningLabels
<1>7. ASSUME ClearDbLock \/ StartupSteps \/ DamageSnapshot \/ LoseSnapshot PROVE OneOperation'
  BY <1>7 DEF ClearDbLock, StartupSteps, StartupReads, StartupWrites, DamageSnapshot,
              LoseSnapshot, OneOperation, lockVars, procVars
<1>8. ASSUME UNCHANGED vars PROVE OneOperation'
  BY <1>8 DEF vars, OneOperation, lockVars, procVars
<1> QED
  BY <1>1, <1>2, <1>3, <1>4, <1>5, <1>6, <1>7, <1>8 DEF Next, ProcSteps, Surroundings

\* The flock and db.lck are always held by exactly the process whose operation
\* is past taking them, whatever fails, dies or is interrupted.
THEOREM MutualExclusion == Spec => []OneOperation
<1>1. Init => OneOperation
  BY ConstantsOK DEF Init, OneOperation, CleaningLabels
<1>2. TypeOK /\ OneOperation /\ [Next]_vars => OneOperation'
  BY NextOneOperation
<1> QED  BY <1>1, <1>2, TypeCorrect, PTL DEF Spec

-----------------------------------------------------------------------------
(* The trees cleanup spares.                                               *)

\* The trees the running cleanup may still remove.
Doomed == work.doomed \cup ({work.victim} \ {Unknown})

\* What Protected is made of.
protectionVars == <<snap, ver, archive, custom, menu, bls, pkg, primary, running>>

\* A step that leaves all of this alone leaves Protected alone.
LEMMA ProtectedUnchanged == UNCHANGED protectionVars => Protected' = Protected
BY DEF protectionVars, Protected, Listed, HasArchive

\* A cleanup under way keeps sparing what it spared while nothing is added to
\* the doomed trees nor to the protected ones.
LEMMA StillSpared ==
  ASSUME CleanupSpares, Doomed' \subseteq Doomed, Protected' \subseteq Protected,
         \A q \in Procs : pc'[q] \in {"purge", "purging"} => pc[q] \in {"purge", "purging"}
  PROVE  CleanupSpares'
BY DEF CleanupSpares, Doomed

\* Nobody is cleaning after the step.
LEMMA NobodyCleans ==
  ASSUME OneOperation', dbLock' \notin Procs
  PROVE  CleanupSpares'
BY DEF OneOperation, CleanupSpares, CleaningLabels

\* A step of an operation that does not end among the removals.
LEMMA OutsidePurge ==
  ASSUME OneOperation, NEW p \in Procs, StepShape(p), pc'[p] \notin {"purge", "purging"}
  PROVE  CleanupSpares'
<1>1. \A q \in Procs \ {p} : pc'[q] \in {"idle", "waiting"}
  BY DEF OneOperation, StepShape
<1> QED  BY <1>1 DEF CleanupSpares

\* The steps of the cleanup from db.lck to its release.
RemovalSteps(p) ==
    \/ ChooseDoomed(p) \/ ProtectionUnproved(p) \/ StartPurge(p) \/ EndPurge(p)
    \/ PurgeFails(p) \/ PurgeDone(p) \/ ReleasePackageLock(p)

\* Holding db.lck, an operation takes no other steps.
LEMMA RemovalStepsOnly ==
  ASSUME NEW p \in Procs, OperationSteps(p), pc[p] \in CleaningLabels
  PROVE  RemovalSteps(p)
<1> USE DEF CleaningLabels
<1>1. ~CreateSteps(p)
  BY DEF CreateSteps, CopyBoot, ArchiveModules, PublishSnapshot
<1>2. ~MirrorSteps(p)
  BY DEF MirrorSteps, CheckActivation, MirrorInSync, StartSync, EndSync, SyncFails,
         FindEntry, NoMirror, StartUnmirror, EndUnmirror, UnmirrorFails, StartUnsnap,
         EndUnsnap
<1>3. ~ReconcileSteps(p)
  BY DEF ReconcileSteps, Scan, VisitMirrorToDrop, VisitInactive, VisitUntrusted,
         VisitActive, VisitsDone, RemoveStale, StaleDone
<1>4. ~BootEntrySteps(p)
  BY DEF BootEntrySteps, CheckEntry, EntryAlreadyListed, EntryAsBLS, EntryAsMenuentry,
         UnlistWithoutCustom, UnlistFromCustom, TruncateCustom, WriteCustom,
         WriteCustomFails, UpdateGrubConfig, UpdateGrubConfigFails, RollbackFails
<1>5. ~GiveUp(p)
  BY DEF GiveUp, Refused, MayAbort
<1>6. ModuleSteps(p)
  BY <1>1, <1>2, <1>3, <1>4, <1>5 DEF OperationSteps
<1> QED
  BY <1>6 DEF ModuleSteps, RestoreModules, RestoreFails, CleanupNotDue,
      HoldPackageLock,
              RemovalSteps

\* No step of the operation that is cleaning brings a doomed tree under
\* protection, and ChooseDoomed dooms no protected one.
LEMMA OperationSpares ==
  ASSUME TypeOK, OneOperation, CleanupSpares, NEW p \in Procs, OperationSteps(p)
  PROVE  CleanupSpares'
<1>1. StepShape(p) /\ TypeOK'
  BY OperationStepsShape
<1>2. CASE pc'[p] \notin {"purge", "purging"}
  BY <1>1, <1>2, OutsidePurge
<1>3. CASE pc'[p] \in {"purge", "purging"}
  <2>1. RemovalSteps(p)
    BY <1>1, <1>3, RemovalStepsOnly DEF StepShape, CleaningLabels
  <2>2. \A q \in Procs \ {p} : pc'[q] \in {"idle", "waiting"}
    BY <1>1 DEF OneOperation, StepShape
  <2>3. ASSUME UNCHANGED <<storeVars, menuVars, systemVars>> PROVE Protected' = Protected
    BY <2>3, ProtectedUnchanged
    DEF protectionVars, storeVars, menuVars, systemVars
  <2>4. ASSUME ChooseDoomed(p) PROVE CleanupSpares'
    <3>1. work'.doomed = Candidates \ Protected /\ work'.victim = Unknown
      BY <2>4 DEF ChooseDoomed, TypeOK, Work
    <3>2. Protected' = Protected
      BY <2>3, <2>4 DEF ChooseDoomed
    <3> QED  BY <2>2, <3>1, <3>2 DEF CleanupSpares
  <2>5. ASSUME StartPurge(p) PROVE CleanupSpares'
    <3>1. pc[p] \in {"purge", "purging"} /\ Protected' = Protected
      BY <2>3, <2>5 DEF StartPurge
    <3>2. Doomed' \subseteq Doomed
      BY <2>5 DEF StartPurge, Doomed, TypeOK, Work
    <3> QED  BY <2>2, <3>1, <3>2, StillSpared
  <2>6. ASSUME EndPurge(p) PROVE CleanupSpares'
    <3>1. pc[p] \in {"purge", "purging"} /\ Protected' = Protected
      BY <2>3, <2>6 DEF EndPurge
    <3>2. Doomed' \subseteq Doomed
      BY <2>6 DEF EndPurge, Doomed, TypeOK, Work
    <3> QED  BY <2>2, <3>1, <3>2, StillSpared
  <2>7. ASSUME PurgeFails(p) PROVE CleanupSpares'
    <3>1. pc[p] \in {"purge", "purging"} /\ Protected' = Protected
      BY <2>3, <2>7 DEF PurgeFails
    <3>2. Doomed' \subseteq Doomed
      <4>1. \/ work' = [work EXCEPT !.victim = Unknown, !.warning = TRUE]
            \/ \E v \in work.doomed :
                   work' = [work EXCEPT !.doomed = @ \ {v}, !.warning = TRUE]
        BY <2>7 DEF PurgeFails
      <4> QED  BY <4>1 DEF Doomed, TypeOK, Work
    <3> QED  BY <2>2, <3>1, <3>2, StillSpared
  <2>8. ~(ProtectionUnproved(p) \/ PurgeDone(p) \/ ReleasePackageLock(p))
    BY <1>3 DEF ProtectionUnproved, PurgeDone, ReleasePackageLock, Goto, Finish,
        TypeOK,
                ProcTypeOK
  <2> QED  BY <2>1, <2>4, <2>5, <2>6, <2>7, <2>8 DEF RemovalSteps
<1> QED  BY <1>2, <1>3

\* CleanupSpares is inductive, given the types and both locks.
LEMMA NextSpares ==
  ASSUME TypeOK, OneOperation, CleanupSpares, [Next]_vars
  PROVE  CleanupSpares'
<1> USE DEF protectionVars
<1>1. OneOperation' /\ TypeOK'
  BY NextOneOperation, NextType
<1>2. ASSUME NEW p \in Procs, OperationSteps(p) PROVE CleanupSpares'
  BY <1>2, OperationSpares
<1>3. ASSUME NEW p \in Procs, Request(p) \/ Acquire(p) PROVE CleanupSpares'
  <2>1. UNCHANGED <<storeVars, menuVars, systemVars, work>>
    BY <1>3 DEF Request, Acquire
  <2>2. Protected' = Protected /\ Doomed' = Doomed
    BY <2>1, ProtectedUnchanged DEF storeVars, menuVars, systemVars, Doomed
  <2>3. \A q \in Procs : pc'[q] \in {"purge", "purging"} => pc[q] \in {"purge", "purging"}
    <3>1. FirstStep(Op(p)) \notin {"purge", "purging"}
      BY DEF FirstStep, Op, TypeOK, ProcTypeOK, Task, AllOperations
    <3> QED  BY <1>3, <3>1 DEF Request, Acquire, TypeOK, ProcTypeOK
  <2> QED  BY <2>2, <2>3, StillSpared
<1>4. ASSUME NEW p \in Procs, Kill(p) PROVE CleanupSpares'
  <2>1. UNCHANGED <<storeVars, menuVars, systemVars>>
    BY <1>4 DEF Kill
  <2>2. Protected' = Protected
    BY <2>1, ProtectedUnchanged DEF storeVars, menuVars, systemVars
  <2>3. pc' = [pc EXCEPT ![p] = "idle"]
    BY <1>4 DEF Kill
  <2>4. CASE lock = p
    BY <2>3, <2>4 DEF OneOperation, CleanupSpares, TypeOK, ProcTypeOK
  <2>5. CASE lock # p
    <3>1. Doomed' = Doomed
      BY <1>4, <2>5 DEF Kill, Doomed
    <3> QED  BY <2>2, <2>3, <3>1, StillSpared DEF TypeOK, ProcTypeOK
  <2> QED  BY <2>4, <2>5
<1>5. ASSUME PackageSteps PROVE CleanupSpares'
  <2>1. CASE PackageBegins
    BY <1>1, <2>1, ConstantsOK, NobodyCleans DEF PackageBegins
  <2>2. CASE PackageReplacesTree \/ PackageReplacesImage
    BY <1>1, <2>2, ConstantsOK, NobodyCleans
    DEF PackageReplacesTree, PackageReplacesImage, lockVars
  <2>3. CASE PackageEnds
    BY <1>1, <2>3, ConstantsOK, NobodyCleans DEF PackageEnds
  <2> QED  BY <1>5, <2>1, <2>2, <2>3 DEF PackageSteps
<1>6. ASSUME Reboot \/ BootRecovery PROVE CleanupSpares'
  BY <1>6 DEF Reboot, BootRecovery, PowerCycle, CleanupSpares
<1>7. ASSUME ClearDbLock PROVE CleanupSpares'
  BY <1>1, <1>7, ConstantsOK, NobodyCleans DEF ClearDbLock
<1>8. ASSUME DamageSnapshot \/ LoseSnapshot PROVE CleanupSpares'
  <2>1. \A q \in Procs : pc'[q] \in {"idle", "waiting"}
    BY <1>8, ConstantsOK DEF DamageSnapshot, LoseSnapshot, OneOperation, procVars
  <2> QED  BY <2>1 DEF CleanupSpares
<1>9. ASSUME StartupSteps PROVE CleanupSpares'
  <2>1. Doomed' = Doomed /\ pc' = pc
    BY <1>9 DEF StartupSteps, StartupReads, StartupWrites, Doomed, procVars
  <2>2. Protected' \subseteq Protected
    <3>1. UNCHANGED <<storeVars, systemVars, menu, bls>> /\ custom' \subseteq custom
      BY <1>9 DEF StartupSteps, StartupReads, StartupWrites, menuVars
    <3> QED  BY <3>1 DEF Protected, Listed, HasArchive, storeVars, systemVars
  <2> QED  BY <2>1, <2>2, StillSpared
<1>10. ASSUME UNCHANGED vars PROVE CleanupSpares'
  <2>1. UNCHANGED <<storeVars, menuVars, systemVars, procVars, work>>
    BY <1>10 DEF vars
  <2>2. Protected' = Protected /\ Doomed' = Doomed /\ pc' = pc
    BY <2>1, ProtectedUnchanged DEF storeVars, menuVars, systemVars, procVars, Doomed
  <2> QED  BY <2>2, StillSpared
<1> QED
  BY <1>2, <1>3, <1>4, <1>5, <1>6, <1>7, <1>8, <1>9, <1>10 DEF Next, ProcSteps,
      Surroundings

\* No tree that cleanup has chosen comes to be needed before it is removed: not
\* through another operation, a package transaction, a boot, a starting TUI or
\* a damaged snapshot, and not after a crash with a db.lck left behind.
THEOREM CleanupSafe == Spec => []CleanupSpares
<1>1. Init => CleanupSpares
  BY DEF Init, CleanupSpares
<1>2. TypeOK /\ OneOperation /\ CleanupSpares /\ [Next]_vars => CleanupSpares'
  BY NextSpares
<1> QED  BY <1>1, <1>2, TypeCorrect, MutualExclusion, PTL DEF Spec

-----------------------------------------------------------------------------
(* The trees that are in use.                                              *)

\* No whole tree that cleanup protects is damaged.
WholeTreesKept ==
    \A v \in Protected \cap Versions : tree[v] = "full" => tree'[v] = "full"

\* Of an operation, only a restoration or a removal changes a module tree.
LEMMA TreeSteps ==
  ASSUME NEW p \in Procs, OperationSteps(p)
  PROVE  \/ tree' = tree
         \/ RestoreModules(p) \/ RestoreFails(p) \/ StartPurge(p) \/ EndPurge(p)
<1> USE DEF treeVars
<1>1. ASSUME CreateSteps(p) PROVE tree' = tree
  BY <1>1 DEF CreateSteps, CopyBoot, ArchiveModules, PublishSnapshot
<1>2. ASSUME MirrorSteps(p) PROVE tree' = tree
  BY <1>2
  DEF MirrorSteps, CheckActivation, MirrorInSync, StartSync, EndSync, SyncFails,
      FindEntry, NoMirror, StartUnmirror, EndUnmirror, UnmirrorFails, StartUnsnap,
      EndUnsnap
<1>3. ASSUME ReconcileSteps(p) PROVE tree' = tree
  BY <1>3
  DEF ReconcileSteps, Scan, VisitMirrorToDrop, VisitInactive, VisitUntrusted,
      VisitActive, VisitsDone, RemoveStale, StaleDone
<1>4. ASSUME BootEntrySteps(p) PROVE tree' = tree
  BY <1>4
  DEF BootEntrySteps, CheckEntry, EntryAlreadyListed, EntryAsBLS, EntryAsMenuentry,
      UnlistWithoutCustom, UnlistFromCustom, TruncateCustom, WriteCustom,
      WriteCustomFails, UpdateGrubConfig, UpdateGrubConfigFails, RollbackFails
<1>5. ASSUME GiveUp(p) PROVE tree' = tree
  BY <1>5 DEF GiveUp
<1>6. ASSUME ModuleSteps(p)
      PROVE  \/ tree' = tree
             \/ RestoreModules(p) \/ RestoreFails(p) \/ StartPurge(p) \/ EndPurge(p)
  BY <1>6
  DEF ModuleSteps, CleanupNotDue, HoldPackageLock, ChooseDoomed, ProtectionUnproved,
      PurgeFails, PurgeDone, ReleasePackageLock
<1> QED  BY <1>1, <1>2, <1>3, <1>4, <1>5, <1>6 DEF OperationSteps

\* Extraction only ever fills the place of a tree that is absent.
LEMMA ExtractKeeps ==
  ASSUME TypeOK, NEW s \in Snaps, ~TreePresent(ver[s]), ver[s] # Unknown, Extract(s)
  PROVE  WholeTreesKept
<1>1. ver[s] \in Versions /\ tree[ver[s]] = "absent"
  BY DEF TypeOK, StoreTypeOK, TreePresent
<1>2. \A v \in Versions : tree[v] = "full" => tree'[v] = "full"
  BY <1>1 DEF Extract, TypeOK, TreeTypeOK
<1> QED  BY <1>2 DEF WholeTreesKept

\* Every step of the system keeps the trees in use.
LEMMA NextKeepsTrees ==
  ASSUME TypeOK, OneOperation, CleanupSpares, [Next]_vars, pkg' = pkg
  PROVE  WholeTreesKept
<1>1. ASSUME tree' = tree PROVE WholeTreesKept
  BY <1>1 DEF WholeTreesKept
<1>2. ASSUME NEW p \in Procs, OperationSteps(p) PROVE WholeTreesKept
  <2>1. CASE RestoreModules(p) \/ RestoreFails(p)
    <3>1. Name(p) \in Snaps
      BY <2>1 DEF RestoreModules, RestoreFails, TypeOK, ProcTypeOK, TargetLabels
    <3>2. \/ tree' = tree
          \/ /\ ~TreePresent(ver[Name(p)]) /\ HasArchive(Name(p))
             /\ Extract(Name(p))
      BY <2>1 DEF RestoreModules, RestoreFails, treeVars
    <3> QED  BY <1>1, <3>1, <3>2, ExtractKeeps DEF HasArchive
  <2>2. CASE StartPurge(p)
    <3>1. PICK v \in work.doomed : tree' = [tree EXCEPT ![v] = "partial"]
      BY <2>2 DEF StartPurge
    <3>2. v \notin Protected
      BY <2>2, <3>1 DEF StartPurge, CleanupSpares
    <3> QED  BY <3>1, <3>2 DEF WholeTreesKept, TypeOK, TreeTypeOK
  <2>3. CASE EndPurge(p)
    <3>1. /\ work.victim \in Versions
          /\ tree' = [tree EXCEPT ![work.victim] = "absent"]
      BY <2>3 DEF EndPurge
    <3>2. work.victim \notin Protected
      BY <2>3, <3>1, ConstantsOK DEF EndPurge, CleanupSpares
    <3> QED  BY <3>1, <3>2 DEF WholeTreesKept, TypeOK, TreeTypeOK
  <2> QED  BY <1>1, <1>2, <2>1, <2>2, <2>3, TreeSteps
<1>3. ASSUME NEW p \in Procs, Request(p) \/ Acquire(p) \/ Kill(p) PROVE WholeTreesKept
  BY <1>1, <1>3 DEF Request, Acquire, Kill, treeVars
<1>4. ASSUME PackageSteps PROVE WholeTreesKept
  <2>1. CASE PackageReplacesTree
    <3>1. PICK v \in Versions, rest \in {"absent", "partial"} :
              /\ tree' = [w \in Versions |->
                             IF w = v THEN "full" ELSE IF w \in pkg THEN rest ELSE tree[w]]
              /\ pkg' = {v}
      BY <2>1 DEF PackageReplacesTree
    <3>2. \A w \in Versions : tree[w] = "full" => tree'[w] = "full"
      BY <3>1
    <3> QED  BY <3>2 DEF WholeTreesKept
  <2>2. CASE ~PackageReplacesTree
    BY <1>1, <1>4, <2>2
    DEF PackageSteps, PackageBegins, PackageReplacesImage, PackageEnds, treeVars
  <2> QED  BY <2>1, <2>2
<1>5. ASSUME BootRecovery PROVE WholeTreesKept
  <2>1. PICK s \in menu \cup bls :
            /\ ver[s] # Unknown
            /\ \/ UNCHANGED treeVars
               \/ ~TreePresent(ver[s]) /\ Extract(s)
    BY <1>5 DEF BootRecovery
  <2> QED  BY <1>1, <2>1, ExtractKeeps DEF treeVars, TypeOK, MenuTypeOK
<1>6. ASSUME \/ StartupSteps \/ Reboot \/ ClearDbLock \/ DamageSnapshot
             \/ LoseSnapshot
      PROVE  WholeTreesKept
  BY <1>1, <1>6
  DEF StartupSteps, StartupReads, StartupWrites, Reboot, ClearDbLock, DamageSnapshot,
      LoseSnapshot, treeVars
<1>7. ASSUME UNCHANGED vars PROVE WholeTreesKept
  BY <1>1, <1>7 DEF vars, treeVars
<1> QED  BY <1>2, <1>3, <1>4, <1>5, <1>6, <1>7 DEF Next, ProcSteps, Surroundings

\* No step but a package transaction takes a whole tree from the running kernel,
\* from the kernel in /boot or from an installed package: cleanup removes none
\* of these, and restoration overwrites nothing.
THEOREM LiveTreesSafe == Spec => LiveTreesSpared
<1>1. TypeOK /\ OneOperation /\ CleanupSpares /\ [Next]_vars
      => [pkg' = pkg =>
             \A v \in {running, primary} \cup pkg :
                 tree[v] = "full" => tree'[v] = "full"]_vars
  <2>1. TypeOK => {running, primary} \cup pkg \subseteq Protected \cap Versions
    BY DEF TypeOK, SystemTypeOK, Protected
  <2> QED  BY <2>1, NextKeepsTrees DEF WholeTreesKept
<1> QED
  BY <1>1, TypeCorrect, MutualExclusion, CleanupSafe, PTL DEF Spec, LiveTreesSpared

=============================================================================
