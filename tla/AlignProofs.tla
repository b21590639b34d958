----------------------------- MODULE AlignProofs -----------------------------
(***************************************************************************)
(* A complete reconcile leaves mirrors and entries that match.             *)
(*                                                                         *)
(* AlignInv follows syncBackupsAndGrub as long as it has met no failure:   *)
(* during the visits every mirror is still to be visited, being visited,   *)
(* kept or of an entry about to be dropped (VisitsAlign); afterwards the   *)
(* entries without a mirror to keep are the stale ones still to be removed *)
(* (RemovalsAlign).                                                        *)
(***************************************************************************)
EXTENDS ResultProofs

\* The labels of the visits.
Visiting == {"visit", "restore", "sync", "syncing", "unmirror", "unmirroring"}

\* The snapshots with a mirror, complete or not.
MirrorThere == {s \in Snaps : mirror[s] # "absent"}

\* The entries reconcile found that it may drop for their snapshot.
Dropped == {s \in work.active : MayLoseEntry(s)}

\* The snapshot reconcile is at, if any.
Current(p) == IF pc[p] = "visit" THEN {} ELSE {Name(p)}

\* During the visits.
VisitsAlign(p) ==
    /\ Listed = work.active
    /\ work.valid \subseteq work.active \cap MirrorThere
    /\ work.valid \cap (work.todo \cup Current(p)) = {}
    /\ MirrorThere \subseteq work.todo \cup Current(p) \cup work.valid \cup Dropped
    /\ Name(p) \notin work.todo \/ pc[p] = "visit"
    /\ pc[p] \in {"restore", "sync", "syncing"} => Name(p) \in work.active

\* The entries there will be once GrubCustom is written.
Upcoming(p) == IF pc[p] \in {"truncate", "write"} THEN work.target \cup bls ELSE Listed

\* During the removal of stale entries, and after it.
RemovalsAlign(p) ==
    /\ work.valid \subseteq Upcoming(p) \cap MirrorThere
    /\ MirrorThere \subseteq work.valid \cup Dropped
    /\ work.valid \cap work.todo = {}
    /\ Upcoming(p) \subseteq work.valid \cup work.todo
                     \cup (IF pc[p] = "unlist" THEN {Name(p)} ELSE {})
    /\ pc[p] \in {"unlist", "truncate", "write", "mkconfig"} => Name(p) \notin work.valid
    /\ pc[p] \in Closing => work.todo = {}

\* Where a reconcile without failures is.
Aligns(p) ==
    /\ pc[p] = "scan" => work = NoWork
    /\ pc[p] \in Visiting /\ ~work.issues => VisitsAlign(p)
    /\ pc[p] \in {"stale", "unlist", "truncate", "write", "mkconfig"} \cup Closing
       /\ ~work.issues => RemovalsAlign(p)

\* The strengthening of ReconcileAligns that every step preserves.
AlignInv == \A p \in Procs : Op(p) = "reconcile" => Aligns(p)


-----------------------------------------------------------------------------
(* One step of reconcile.                                                  *)

\* A completed copy makes its mirror one to keep, a completed removal takes the
\* mirror away, and a failure of either is an issue that is reported.
LEMMA MirrorAligns ==
  ASSUME TypeOK, NEW p \in Procs, RightOperation(p), Op(p) = "reconcile", Aligns(p),
         MirrorSteps(p)
  PROVE  Aligns(p)'
<1> USE GotoLeads, FinishLeads
<1>1. ASSUME \/ CheckActivation(p) \/ MirrorInSync(p) \/ FindEntry(p)
             \/ StartUnsnap(p) \/ EndUnsnap(p)
      PROVE  FALSE
  BY <1>1
  DEF CheckActivation, MirrorInSync, FindEntry, StartUnsnap, EndUnsnap, RightOperation
<1>2. UNCHANGED <<ver, menuVars>> /\ Listed' = Listed
  BY <1>1
  DEF MirrorSteps, StartSync, EndSync, SyncFails, NoMirror, StartUnmirror, EndUnmirror,
      UnmirrorFails, storeVars, menuVars, Listed
<1>3. ASSUME pc'[p] = "visit", work'.issues PROVE Aligns(p)'
  BY <1>3 DEF Aligns, Visiting, Closing, CleaningLabels
<1>4. ASSUME SyncFails(p) \/ UnmirrorFails(p) PROVE Aligns(p)'
  <2>1. pc'[p] = "visit" /\ work'.issues
    BY <1>4 DEF SyncFails, UnmirrorFails, TypeOK, Work
  <2> QED  BY <1>3, <2>1
<1>5. ASSUME StartSync(p) PROVE Aligns(p)'
  <2>1. /\ pc[p] = "sync" /\ pc'[p] = "syncing" /\ Name(p)' = Name(p) /\ snap' = snap
        /\ \A s \in Snaps \ {Name(p)} : mirror'[s] = mirror[s]
        /\ mirror'[Name(p)] # "absent" /\ Name(p) \in Snaps
    BY <1>5 DEF StartSync, TypeOK, StoreTypeOK, ProcTypeOK, TargetLabels
  <2>2. /\ work'.active = work.active /\ work'.todo = work.todo
        /\ work'.valid = work.valid /\ work'.issues = work.issues
    BY <1>5 DEF StartSync, TypeOK, Work
  <2>3. MirrorThere' = MirrorThere \cup {Name(p)}
    BY <2>1 DEF MirrorThere
  <2>4. Dropped' = Dropped
    BY <1>2, <2>1, <2>2 DEF Dropped, MayLoseEntry, Identified
  <2>5. ~work.issues => VisitsAlign(p)'
    BY <1>2, <2>1, <2>2, <2>3, <2>4 DEF Aligns, VisitsAlign, Visiting, Current
  <2> QED  BY <2>1, <2>2, <2>5 DEF Aligns, Visiting, Closing, CleaningLabels
<1>6. ASSUME EndSync(p) PROVE Aligns(p)'
  <2>1. /\ pc[p] = "syncing" /\ pc'[p] = "visit" /\ Name(p)' = Name(p) /\ snap' = snap
        /\ \A s \in Snaps \ {Name(p)} : mirror'[s] = mirror[s]
        /\ mirror'[Name(p)] # "absent" /\ Name(p) \in Snaps
    BY <1>6 DEF EndSync, TypeOK, StoreTypeOK, ProcTypeOK, TargetLabels
  <2>2. /\ work'.active = work.active /\ work'.todo = work.todo
        /\ work'.valid = work.valid \cup {Name(p)} /\ work'.issues = work.issues
    BY <1>6 DEF EndSync, TypeOK, Work
  <2>3. MirrorThere' = MirrorThere \cup {Name(p)}
    BY <2>1 DEF MirrorThere
  <2>4. Dropped' = Dropped
    BY <1>2, <2>1, <2>2 DEF Dropped, MayLoseEntry, Identified
  <2>5. ~work.issues => VisitsAlign(p)'
    BY <1>2, <2>1, <2>2, <2>3, <2>4 DEF Aligns, VisitsAlign, Visiting, Current
  <2> QED  BY <2>1, <2>2, <2>5 DEF Aligns, Visiting, Closing, CleaningLabels
<1>7. ASSUME NoMirror(p) \/ StartUnmirror(p) \/ EndUnmirror(p) PROVE Aligns(p)'
  <2>1. /\ pc[p] \in {"unmirror", "unmirroring"} /\ Name(p)' = Name(p) /\ snap' = snap
        /\ Name(p) \in Snaps /\ \A s \in Snaps \ {Name(p)} : mirror'[s] = mirror[s]
        /\ \/ pc'[p] = "unmirroring" /\ mirror[Name(p)] # "absent"
              /\ mirror'[Name(p)] # "absent"
           \/ pc'[p] = "visit" /\ mirror'[Name(p)] = "absent"
    BY <1>7
    DEF NoMirror, StartUnmirror, EndUnmirror, AfterUnmirror, TypeOK, StoreTypeOK,
        ProcTypeOK, TargetLabels, storeVars
  <2>2. work' = work
    BY <1>7 DEF NoMirror, StartUnmirror, EndUnmirror
  <2>3. /\ MirrorThere' \cup {Name(p)} = MirrorThere \cup {Name(p)}
        /\ pc'[p] = "visit" => MirrorThere' = MirrorThere \ {Name(p)}
        /\ pc'[p] = "unmirroring" => MirrorThere' = MirrorThere
    BY <2>1 DEF MirrorThere
  <2>4. Dropped' = Dropped
    BY <1>2, <2>1, <2>2 DEF Dropped, MayLoseEntry, Identified
  <2>5. ~work.issues => VisitsAlign(p)'
    BY <1>2, <2>1, <2>2, <2>3, <2>4 DEF Aligns, VisitsAlign, Visiting, Current
  <2> QED  BY <2>1, <2>2, <2>5 DEF Aligns, Visiting, Closing, CleaningLabels
<1> QED  BY <1>1, <1>4, <1>5, <1>6, <1>7 DEF MirrorSteps

\* The scan finds every mirror, and each visit accounts for one.
LEMMA ReconcileStepAligns ==
  ASSUME TypeOK, NEW p \in Procs, Op(p) = "reconcile", Aligns(p), ReconcileSteps(p)
  PROVE  Aligns(p)'
<1>1. UNCHANGED <<storeVars, menuVars>> /\ Listed' = Listed /\ MirrorThere' = MirrorThere
  BY DEF ReconcileSteps, Scan, VisitMirrorToDrop, VisitInactive, VisitUntrusted,
         VisitActive, VisitsDone, RemoveStale, StaleDone, storeVars, menuVars, Listed,
         MirrorThere
<1>2. ASSUME work'.active = work.active PROVE Dropped' = Dropped
  BY <1>1, <1>2 DEF Dropped, MayLoseEntry, Identified, storeVars
<1>3. ASSUME Scan(p) PROVE Aligns(p)'
  <2>1. /\ pc[p] = "scan" /\ pc'[p] = "visit"
        /\ work'.todo = Discovered /\ work'.active = Listed
        /\ work'.valid = work.valid
    BY <1>3, GotoLeads DEF Scan, TypeOK, Work
  <2>2. work.valid = {}
    BY <2>1 DEF Aligns, NoWork
  <2>3. VisitsAlign(p)'
    BY <1>1, <2>1, <2>2 DEF VisitsAlign, Current, MirrorThere, Discovered
  <2> QED  BY <2>1, <2>3 DEF Aligns, Visiting, Closing, CleaningLabels
<1>4. ASSUME VisitMirrorToDrop(p) PROVE Aligns(p)'
  <2>1. PICK s \in work.todo : /\ work' = [work EXCEPT !.todo = @ \ {s}]
                              /\ VisitAs(p, s, "unmirror")
    BY <1>4 DEF VisitMirrorToDrop
  <2>2. /\ work'.active = work.active /\ work'.todo = work.todo \ {s}
        /\ work'.valid = work.valid /\ work'.issues = work.issues /\ s \in Snaps
    BY <2>1 DEF TypeOK, Work
  <2>3. pc[p] = "visit" /\ pc'[p] = "unmirror" /\ Name(p)' = s
    BY <1>4, <2>1, <2>2, VisitLeads DEF VisitMirrorToDrop
  <2>4. ~work.issues => VisitsAlign(p)'
    BY <1>1, <1>2, <2>2, <2>3 DEF Aligns, Visiting, VisitsAlign, Current
  <2> QED  BY <2>2, <2>3, <2>4 DEF Aligns, Visiting, Closing, CleaningLabels
<1>5. ASSUME VisitInactive(p) PROVE Aligns(p)'
  <2>1. PICK s \in work.todo : /\ mirror[s] = "absent"
                              /\ work' = [work EXCEPT !.todo = @ \ {s}]
    BY <1>5 DEF VisitInactive
  <2>2. /\ work'.active = work.active /\ work'.todo = work.todo \ {s}
        /\ work'.valid = work.valid /\ work'.issues = work.issues
    BY <2>1 DEF TypeOK, Work
  <2>3. pc[p] = "visit" /\ pc'[p] = "visit"
    BY <1>5, GotoLeads DEF VisitInactive
  <2>4. s \notin MirrorThere
    BY <2>1 DEF MirrorThere
  <2>5. ~work.issues => VisitsAlign(p)'
    BY <1>1, <1>2, <2>2, <2>3, <2>4 DEF Aligns, Visiting, VisitsAlign, Current
  <2> QED  BY <2>2, <2>3, <2>5 DEF Aligns, Visiting, Closing, CleaningLabels
<1>6. ASSUME VisitUntrusted(p) PROVE Aligns(p)'
  <2>0. PICK s \in work.todo \cap work.active :
            \E known \in Identified(s), plausible \in MirrorPlausible(s) :
              /\ snap[s] # "none"
              /\ snap[s] # "whole" \/ ~known
              /\ work' = [work EXCEPT !.todo = @ \ {s},
                           !.valid = @ \cup {t \in {s} : plausible
                                              /\ ~(known /\ ver[s] \notin work.seen)}]
    BY <1>6 DEF VisitUntrusted
  <2>1. PICK known \in Identified(s), plausible \in MirrorPlausible(s) :
            /\ snap[s] # "none"
            /\ snap[s] # "whole" \/ ~known
            /\ work' = [work EXCEPT !.todo = @ \ {s},
                         !.valid = @ \cup {t \in {s} : plausible
                                            /\ ~(known /\ ver[s] \notin work.seen)}]
    BY <2>0
  <2>2. /\ work'.active = work.active /\ work'.issues = work.issues
        /\ work'.todo = work.todo \ {s} /\ s \in Snaps
        /\ work'.valid = work.valid
               \cup {t \in {s} : plausible /\ ~(known /\ ver[s] \notin work.seen)}
    BY <2>1 DEF TypeOK, Work
  <2>3. pc[p] = "visit" /\ pc'[p] = "visit"
    BY <1>6, GotoLeads DEF VisitUntrusted
  <2>4. snap[s] # "whole" \/ FALSE \in Identified(s)
    <3>1. CASE snap[s] # "whole"
      BY <3>1
    <3>2. CASE ~known
      BY <3>2 DEF Identified
    <3> QED  BY <2>1, <3>1, <3>2
  <2>5. s \in Dropped
    BY <2>1, <2>4 DEF Dropped, MayLoseEntry
  <2>6. plausible => s \in MirrorThere
    BY <2>2 DEF MirrorPlausible, MirrorThere
  <2>7. ~work.issues => VisitsAlign(p)'
    BY <1>1, <1>2, <2>2, <2>3, <2>5, <2>6 DEF Aligns, Visiting, VisitsAlign, Current
  <2> QED  BY <2>2, <2>3, <2>7 DEF Aligns, Visiting, Closing, CleaningLabels
<1>7. ASSUME VisitActive(p) PROVE Aligns(p)'
  <2>1. PICK s \in work.todo \cap work.active :
            /\ work' = [work EXCEPT !.todo = @ \ {s}]
            /\ VisitAs(p, s, IF ver[s] \in work.seen THEN "sync" ELSE "restore")
    BY <1>7 DEF VisitActive
  <2>2. /\ work'.active = work.active /\ work'.todo = work.todo \ {s}
        /\ work'.valid = work.valid /\ work'.issues = work.issues /\ s \in Snaps
    BY <2>1 DEF TypeOK, Work
  <2>3. pc[p] = "visit" /\ pc'[p] \in {"sync", "restore"} /\ Name(p)' = s
    BY <1>7, <2>1, <2>2, VisitLeads DEF VisitActive
  <2>4. ~work.issues => VisitsAlign(p)'
    BY <1>1, <1>2, <2>2, <2>3 DEF Aligns, Visiting, VisitsAlign, Current
  <2> QED  BY <2>2, <2>3, <2>4 DEF Aligns, Visiting, Closing, CleaningLabels
<1>8. ASSUME VisitsDone(p) PROVE Aligns(p)'
  <2>1. /\ pc[p] = "visit" /\ pc'[p] = "stale" /\ work.todo = {}
        /\ work'.todo = Listed \ work.valid /\ work'.active = work.active
        /\ work'.valid = work.valid /\ work'.issues = work.issues
    BY <1>8, GotoLeads DEF VisitsDone, TypeOK, Work
  <2>2. ~work.issues => RemovalsAlign(p)'
    BY <1>1, <1>2, <2>1
    DEF Aligns, Visiting, VisitsAlign, Current, RemovalsAlign, Upcoming, Closing,
        CleaningLabels
  <2> QED  BY <2>1, <2>2 DEF Aligns, Visiting, Closing, CleaningLabels
<1>9. ASSUME RemoveStale(p) PROVE Aligns(p)'
  <2>1. PICK s \in work.todo : /\ work' = [work EXCEPT !.todo = @ \ {s}]
                              /\ VisitAs(p, s, "unlist")
    BY <1>9 DEF RemoveStale
  <2>2. /\ work'.active = work.active /\ work'.todo = work.todo \ {s}
        /\ work'.valid = work.valid /\ work'.issues = work.issues /\ s \in Snaps
    BY <2>1 DEF TypeOK, Work
  <2>3. pc[p] = "stale" /\ pc'[p] = "unlist" /\ Name(p)' = s
    BY <1>9, <2>1, <2>2, VisitLeads DEF RemoveStale
  <2>4. ~work.issues => RemovalsAlign(p)'
    BY <1>1, <1>2, <2>2, <2>3
    DEF Aligns, RemovalsAlign, Upcoming, Closing, CleaningLabels
  <2> QED  BY <2>2, <2>3, <2>4 DEF Aligns, Visiting, Closing, CleaningLabels
<1>10. ASSUME StaleDone(p) PROVE Aligns(p)'
  <2>1. pc[p] = "stale" /\ pc'[p] = "cleanup" /\ work.todo = {} /\ work' = work
    BY <1>10, GotoLeads DEF StaleDone
  <2>2. ~work.issues => RemovalsAlign(p)'
    BY <1>1, <1>2, <2>1 DEF Aligns, RemovalsAlign, Upcoming, Closing, CleaningLabels
  <2> QED  BY <2>1, <2>2 DEF Aligns, Visiting, Closing, CleaningLabels
<1> QED
  BY <1>3, <1>4, <1>5, <1>6, <1>7, <1>8, <1>9, <1>10 DEF ReconcileSteps
\* removeGrubEntry takes one stale entry out of the menu and no other.
LEMMA EntryAligns ==
  ASSUME TypeOK, FileInv, NEW p \in Procs, RightOperation(p), Op(p) = "reconcile",
         Aligns(p), BootEntrySteps(p)
  PROVE  Aligns(p)'
<1> USE GotoLeads, FinishLeads
<1>1. UNCHANGED storeVars /\ MirrorThere' = MirrorThere
  BY DEF BootEntrySteps, CheckEntry, EntryAlreadyListed, EntryAsBLS, EntryAsMenuentry,
      UnlistWithoutCustom, UnlistFromCustom, TruncateCustom, WriteCustom,
      WriteCustomFails, UpdateGrubConfig, UpdateGrubConfigFails, RollbackFails,
      storeVars, MirrorThere
<1>2. ASSUME work'.active = work.active PROVE Dropped' = Dropped
  BY <1>1, <1>2 DEF Dropped, MayLoseEntry, Identified, storeVars
<1>3. ~(CheckEntry(p) \/ EntryAlreadyListed(p) \/ EntryAsBLS(p) \/ EntryAsMenuentry(p))
  BY DEF CheckEntry, EntryAlreadyListed, EntryAsBLS, EntryAsMenuentry, RightOperation
<1>4. ASSUME WriteCustomFails(p) \/ UpdateGrubConfigFails(p) \/ RollbackFails(p)
      PROVE  Aligns(p)'
  <2>1. pc'[p] = "idle"
    BY <1>4 DEF WriteCustomFails, UpdateGrubConfigFails, RollbackFails
  <2> QED  BY <2>1 DEF Aligns, Visiting, Closing, CleaningLabels
<1>5. ASSUME \/ UnlistWithoutCustom(p) \/ UnlistFromCustom(p) \/ TruncateCustom(p)
             \/ WriteCustom(p) \/ UpdateGrubConfig(p)
      PROVE  Aligns(p)'
  <2>1. /\ work'.active = work.active /\ work'.issues = work.issues
        /\ work'.todo = work.todo /\ work'.valid = work.valid
        /\ UnlistFromCustom(p) => work'.target = custom \ {Name(p)}
        /\ ~UnlistFromCustom(p) => work'.target = work.target
    <3>1. CASE UnlistFromCustom(p)
      BY <3>1 DEF UnlistFromCustom, RewriteCustom, TypeOK, Work
    <3>2. CASE ~UnlistFromCustom(p)
      BY <1>5, <3>2 DEF UnlistWithoutCustom, TruncateCustom, WriteCustom, UpdateGrubConfig
    <3> QED  BY <3>1, <3>2
  <2>2. /\ Name(p)' = Name(p)
        /\ \/ /\ pc[p] = "unlist" /\ pc'[p] \in {"truncate", "stale"}
              /\ Upcoming(p)' = Upcoming(p) \ {Name(p)}
           \/ /\ pc[p] = "truncate" /\ pc'[p] = "write"
              /\ Upcoming(p)' = Upcoming(p)
           \/ /\ pc[p] = "write" /\ pc'[p] = "mkconfig"
              /\ Upcoming(p)' = Upcoming(p)
           \/ /\ pc[p] = "mkconfig" /\ pc'[p] = "stale"
              /\ Upcoming(p)' = Upcoming(p)
    <3>1. CASE UnlistWithoutCustom(p)
      <4>1. pc[p] = "unlist" /\ pc'[p] = "stale" /\ Name(p)' = Name(p) /\ custom = {}
            /\ custom' = {} /\ bls' = bls \ {Name(p)}
        BY <3>1 DEF UnlistWithoutCustom, AfterUnlist, FileInv
      <4> QED  BY <4>1 DEF Upcoming, Listed
    <3>2. CASE UnlistFromCustom(p)
      <4>1. pc[p] = "unlist" /\ pc'[p] = "truncate" /\ Name(p)' = Name(p)
            /\ bls' = bls \ {Name(p)}
        BY <3>2 DEF UnlistFromCustom, RewriteCustom
      <4> QED  BY <2>1, <3>2, <4>1 DEF Upcoming, Listed
    <3>3. CASE TruncateCustom(p) \/ WriteCustom(p) \/ UpdateGrubConfig(p)
      <4>1. /\ Name(p)' = Name(p) /\ bls' = bls /\ work'.target = work.target
            /\ \/ pc[p] = "truncate" /\ pc'[p] = "write"
               \/ pc[p] = "write" /\ pc'[p] = "mkconfig" /\ custom' = work.target
               \/ pc[p] = "mkconfig" /\ pc'[p] = "stale" /\ custom' = custom
        BY <3>3 DEF TruncateCustom, WriteCustom, UpdateGrubConfig, AfterUnlist
      <4> QED  BY <4>1 DEF Upcoming, Listed
    <3> QED  BY <1>5, <3>1, <3>2, <3>3
  <2>3. ~work.issues => RemovalsAlign(p)'
    BY <1>1, <1>2, <2>1, <2>2 DEF Aligns, RemovalsAlign, Closing, CleaningLabels
  <2> QED  BY <2>1, <2>2, <2>3 DEF Aligns, Visiting, Closing, CleaningLabels
<1> QED  BY <1>3, <1>4, <1>5 DEF BootEntrySteps

\* Restoring modules and the final cleanup leave entries and mirrors alone.
LEMMA ModuleAligns ==
  ASSUME TypeOK, NEW p \in Procs, RightOperation(p), Op(p) = "reconcile", Aligns(p),
         ModuleSteps(p) \/ GiveUp(p)
  PROVE  Aligns(p)'
<1> USE GotoLeads, FinishLeads
<1>1. UNCHANGED <<storeVars, menuVars>> /\ Listed' = Listed /\ MirrorThere' = MirrorThere
  BY DEF ModuleSteps, RestoreModules, RestoreFails, CleanupNotDue, HoldPackageLock,
      ChooseDoomed, ProtectionUnproved, StartPurge, EndPurge, PurgeFails, PurgeDone,
      ReleasePackageLock, GiveUp, storeVars, menuVars, Listed, MirrorThere
<1>2. ASSUME work'.active = work.active PROVE Dropped' = Dropped
  BY <1>1, <1>2 DEF Dropped, MayLoseEntry, Identified, storeVars
<1>3. ASSUME pc'[p] = "idle" PROVE Aligns(p)'
  BY <1>3 DEF Aligns, Visiting, Closing, CleaningLabels
<1>4. ASSUME RestoreModules(p) PROVE Aligns(p)'
  <2>1. /\ pc[p] = "restore" /\ pc'[p] = "sync" /\ Name(p)' = Name(p) /\ work' = work
    BY <1>4 DEF RestoreModules, RightOperation
  <2>2. ~work.issues => VisitsAlign(p)'
    BY <1>1, <1>2, <2>1 DEF Aligns, VisitsAlign, Visiting, Current
  <2> QED  BY <2>1, <2>2 DEF Aligns, Visiting, Closing, CleaningLabels
<1>5. ASSUME RestoreFails(p) PROVE Aligns(p)'
  <2>1. pc'[p] = "visit" /\ work'.issues
    BY <1>5 DEF RestoreFails, TypeOK, Work
  <2> QED  BY <2>1 DEF Aligns, Visiting, Closing, CleaningLabels
<1>6. ASSUME CleanupNotDue(p) \/ ReleasePackageLock(p) \/ GiveUp(p) PROVE Aligns(p)'
  BY <1>3, <1>6 DEF CleanupNotDue, ReleasePackageLock, GiveUp
<1>7. ASSUME \/ HoldPackageLock(p) \/ ChooseDoomed(p) \/ ProtectionUnproved(p)
             \/ StartPurge(p) \/ EndPurge(p) \/ PurgeFails(p) \/ PurgeDone(p)
      PROVE  Aligns(p)'
  <2>1. pc[p] \in Closing /\ pc'[p] \in CleaningLabels /\ Name(p)' = Name(p)
    BY <1>7
    DEF HoldPackageLock, ChooseDoomed, ProtectionUnproved, StartPurge, EndPurge,
        PurgeFails, PurgeDone, Closing, CleaningLabels
  <2>2. /\ work'.active = work.active /\ work'.issues = work.issues
        /\ work'.todo = work.todo /\ work'.valid = work.valid
    <3>1. CASE HoldPackageLock(p) \/ PurgeDone(p)
      BY <3>1 DEF HoldPackageLock, PurgeDone
    <3>2. CASE ChooseDoomed(p) \/ ProtectionUnproved(p)
      BY <3>2 DEF ChooseDoomed, ProtectionUnproved, TypeOK, Work
    <3>3. CASE StartPurge(p) \/ EndPurge(p)
      BY <3>3 DEF StartPurge, EndPurge, TypeOK, Work
    <3>4. CASE PurgeFails(p)
      <4>1. \/ \E v \in work.doomed :
                  work' = [work EXCEPT !.doomed = @ \ {v}, !.warning = TRUE]
            \/ work' = [work EXCEPT !.victim = Unknown, !.warning = TRUE]
        BY <3>4 DEF PurgeFails
      <4> QED  BY <4>1 DEF TypeOK, Work
    <3> QED  BY <1>7, <3>1, <3>2, <3>3, <3>4
  <2>3. ~work.issues => RemovalsAlign(p)'
    BY <1>1, <1>2, <2>1, <2>2 DEF Aligns, RemovalsAlign, Upcoming, Closing, CleaningLabels
  <2> QED  BY <2>1, <2>2, <2>3 DEF Aligns, Visiting, Closing, CleaningLabels
<1> QED  BY <1>4, <1>5, <1>6, <1>7 DEF ModuleSteps

\* Every step of a reconcile.
LEMMA OperationAligns ==
  ASSUME TypeOK, FileInv, NEW p \in Procs, RightOperation(p), Delivers(p),
         Op(p) = "reconcile", Aligns(p), OperationSteps(p)
  PROVE  Aligns(p)'
<1>1. ~CreateSteps(p)
  BY DEF CreateSteps, CopyBoot, ArchiveModules, PublishSnapshot, Delivers
<1> QED
  BY <1>1, MirrorAligns, ReconcileStepAligns, EntryAligns, ModuleAligns DEF OperationSteps

\* Every step of the system.
LEMMA NextAligns ==
  ASSUME TypeOK, OneOperation, OpInv, FileInv, NoStartup, IdleInv, DeliverInv, AlignInv,
         [Next]_vars
  PROVE  AlignInv'
<1> SUFFICES ASSUME NEW q \in Procs, ~Resting(q)', Op(q)' = "reconcile"
             PROVE  Aligns(q)'
  BY DEF AlignInv, Aligns, Resting, Visiting, Closing, CleaningLabels
<1>1. ASSUME NEW p \in Procs, OperationSteps(p) PROVE Aligns(q)'
  <2>1. q = p
    BY <1>1, OthersRest
  <2>2. Op(p) = "reconcile"
    BY <1>1, <2>1, SameOperation
  <2> QED  BY <1>1, <2>1, <2>2, OperationAligns DEF OpInv, DeliverInv, AlignInv
<1>2. ASSUME NEW p \in Procs, Acquire(p) PROVE Aligns(q)'
  <2>1. CASE q = p
    <3>1. pc'[p] = "scan" /\ work' = NoWork
      BY <1>2, <2>1 DEF Acquire, TypeOK, ProcTypeOK, Op, FirstStep, IdleInv
    <3> QED  BY <2>1, <3>1 DEF Aligns, Visiting, Closing, CleaningLabels
  <2>2. CASE q # p
    <3>1. FALSE
      BY <1>2, <2>2, ConstantsOK DEF Acquire, TypeOK, ProcTypeOK, OneOperation, Resting
    <3> QED  BY <3>1
  <2> QED  BY <2>1, <2>2
<1>3. ASSUME \/ \E p \in Procs : Request(p) \/ Kill(p)
             \/ Surroundings
             \/ UNCHANGED vars
      PROVE  Aligns(q)'
  <2>1. pc'[q] = pc[q] /\ Op(q)' = Op(q) /\ Name(q)' = Name(q) /\ work' = work
    BY <1>3, OutsideSteps
  <2>2. UNCHANGED <<storeVars, menuVars>>
    BY <1>3, StoreStays, MenuStays
  <2>3. Listed' = Listed /\ MirrorThere' = MirrorThere /\ Dropped' = Dropped
        /\ Upcoming(q)' = Upcoming(q) /\ Current(q)' = Current(q)
    BY <2>1, <2>2
    DEF storeVars, menuVars, Listed, MirrorThere, Dropped, MayLoseEntry, Identified,
        Upcoming, Current
  <2>4. Aligns(q)
    BY <2>1 DEF AlignInv
  <2> QED  BY <2>1, <2>3, <2>4 DEF Aligns, VisitsAlign, RemovalsAlign
<1> QED  BY <1>1, <1>2, <1>3 DEF Next, ProcSteps

-----------------------------------------------------------------------------
(* What a reconcile that reports no trouble leaves behind.                 *)

\* What has to be the case when a reconcile reports success.
Realigned ==
    LET mirrored == {s \in Snaps : mirror'[s] # "absent"}
        dropped  == {s \in work.active : MayLoseEntry(s)}
    IN  Listed' \subseteq mirrored /\ mirrored \subseteq Listed' \cup dropped

\* Where a reconcile reports success, mirrors and entries match.
LEMMA ReconcileReturns ==
  ASSUME TypeOK, OpInv, DeliverInv, AlignInv, [Next]_vars, NEW p \in Procs,
         Op(p) = "reconcile", Returns(p, {"ok", "warn"})
  PROVE  Realigned
<1>1. OperationSteps(p)
  BY SuccessOutside
<1>2. Delivers(p) /\ RightOperation(p) /\ Aligns(p)
  BY DEF DeliverInv, OpInv, AlignInv
<1>3. CASE PublishSnapshot(p)
  BY <1>2, <1>3 DEF PublishSnapshot, Delivers
<1>4. CASE EntryAlreadyListed(p) \/ EntryAsBLS(p)
  BY <1>2, <1>4 DEF EntryAlreadyListed, EntryAsBLS, RightOperation
<1>5. CASE CleanupNotDue(p) \/ ReleasePackageLock(p) \/ (GiveUp(p) /\ pc[p] = "cleanup")
  <2>1. pc[p] \in Closing /\ mirror' = mirror /\ Listed' = Listed
    BY <1>5
    DEF CleanupNotDue, ReleasePackageLock, GiveUp, Closing, CleaningLabels, storeVars,
        menuVars, Listed
  <2>2. result'[p] # "partial"
    BY DEF Returns
  <2>3. ~work.issues
    BY <1>5, <2>2
    DEF CleanupNotDue, ReleasePackageLock, GiveUp, Finish, CleanupResult, AbortResult,
        TypeOK, ProcTypeOK
  <2>4. RemovalsAlign(p)
    BY <1>2, <2>1, <2>3 DEF Aligns
  <2>5. Listed \subseteq MirrorThere /\ MirrorThere \subseteq Listed \cup Dropped
    BY <2>1, <2>4 DEF RemovalsAlign, Upcoming, Closing, CleaningLabels
  <2> QED  BY <2>1, <2>5 DEF Realigned, MirrorThere, Dropped
<1> QED  BY <1>1, <1>3, <1>4, <1>5, SuccessfulSteps

\* AlignInv holds in every reachable state.
LEMMA AlwaysAligned ==
  ASSUME NoStartup
  PROVE  Spec => []AlignInv
<1>1. Init => AlignInv
  BY DEF Init, AlignInv, Aligns, Visiting, Closing, CleaningLabels
<1>2. TypeOK /\ OneOperation /\ OpInv /\ FileInv /\ IdleInv /\ DeliverInv /\ AlignInv
      /\ [Next]_vars => AlignInv'
  BY NoStartup, NextAligns
<1> QED
  BY <1>1, <1>2, TypeCorrect, MutualExclusion, OperationsRight, EntriesInFile,
     AlwaysIdle, OperationsDeliver, NoStartup, PTL
  DEF Spec

\* README "Reconcile ...: Inactive boot mirrors are removed. Stale bootloader
\* entries are removed.": a reconcile that reports no failure leaves no entry without
\* a mirror, and no mirror without an entry but those of entries it has just dropped,
\* whatever an earlier crash, failed removal or lost snapshot had left behind.
THEOREM ReconcileRealigns ==
  ASSUME NoStartup
  PROVE  Spec => ReconcileAligns
<1>1. TypeOK /\ OpInv /\ DeliverInv /\ AlignInv /\ [Next]_vars
      => [\A p \in Procs :
            (Op(p) = "reconcile" /\ Returns(p, {"ok", "warn"})) =>
              LET mirrored == {s \in Snaps : mirror'[s] # "absent"}
                  dropped  == {s \in work.active : MayLoseEntry(s)}
              IN  Listed' \subseteq mirrored /\ mirrored \subseteq Listed' \cup dropped]_vars
  BY ReconcileReturns DEF Realigned
<1> QED
  BY <1>1, TypeCorrect, OperationsRight, OperationsDeliver, AlwaysAligned, NoStartup, PTL
  DEF Spec, ReconcileAligns

=============================================================================
