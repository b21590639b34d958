---------------------------- MODULE PointsProofs ----------------------------
(***************************************************************************)
(* The operations implement RecoveryPoints, and what follows for the boot  *)
(* menu, under the failures the operations clean up after (Recoverable).   *)
(*                                                                         *)
(* The menu must never offer a snapshot without its mirror (OfferInv), so  *)
(* it must be known what grub-mkconfig will write: outside a rewriting     *)
(* GrubCustom and the menu agree (AgreeInv), and during one the locals of  *)
(* the operation say what comes (Retargeted in StandInv).  Each action is  *)
(* then a step of RecoveryPoints or leaves the recovery points as they are *)
(* (PointStep).                                                            *)
(*                                                                         *)
(* With what ResultProofs and AlignProofs say of a success, a menu in step *)
(* makes it a statement about the menu.                                    *)
(***************************************************************************)
EXTENDS AlignProofs

\* What the refinement needs.  On Fedora entries are files of their own, and only
\* a snapshot lost to something else is beyond an operation.  On Arch the entries
\* are parts of GrubCustom: a truncation that is not completed (a failed write or
\* rollback, a kill), or a TUI starting meanwhile, leaves the menu behind; the
\* violation runs show each of these happen.
Recoverable ==
    /\ "loss" \notin Faults
    /\ Platform = "arch" =>
           /\ Faults \cap {"write", "rollback", "startup"} = {}
           /\ MaxKills = 0

\* A name that was not given to a snapshot yet has no files.
FreshInv == \A s \in Snaps \ stamps : snap[s] = "none" /\ mirror[s] = "absent"

\* The menu offers what is saved and mirrored.
OfferInv == InMenu \subseteq Saved \cap Mirrored

\* Between the change of an entry in memory and the new grub.cfg.
Rewriting == {"truncate", "write", "mkconfig"}

\* Which kind of entry the platform has, and what did not happen to it.
MenuInv ==
    /\ customFile = "absent" => custom = {}
    /\ Platform = "fedora" => custom = {} /\ menu = {}
    /\ Platform = "arch" => bls = {} /\ startup = "none" /\ kills = 0

\* grub.cfg follows GrubCustom except while p rewrites it.
Agrees(p) == pc[p] \notin {"write", "mkconfig"} => menu = custom

\* grub.cfg follows GrubCustom except while some process rewrites it.
AgreeInv == (\A p \in Procs : pc[p] \notin {"write", "mkconfig"}) => menu = custom

\* What addGrubEntry or removeGrubEntry is about to write, and can put back.
Retargeted(p) ==
    /\ work.original = menu
    /\ work.target = IF Op(p) = "activate" THEN menu \cup {Name(p)} ELSE menu \ {Name(p)}
    /\ Op(p) = "activate" => Platform = "arch"
    /\ Op(p) # "activate" => Name(p) \notin bls
    /\ pc[p] \in {"write", "mkconfig"} => customFile # "absent"
    /\ pc[p] = "mkconfig" => custom = work.target

\* What the operation of p knows at its label.
Stands(p) ==
    /\ pc[p] \in {"archive", "publish"} =>
           Name(p) \in stamps /\ snap[Name(p)] = "none" /\ mirror[Name(p)] = "absent"
    /\ pc[p] = "syncing" =>
           /\ snap[Name(p)] = "whole"
           /\ work.fresh => mirror[Name(p)] # "synced"
    /\ pc[p] \in {"reload", "list"} \/ (pc[p] \in Rewriting /\ Op(p) = "activate") =>
           Name(p) \in Saved \cap Mirrored
    /\ pc[p] \in Rewriting => Retargeted(p)
    /\ pc[p] \in {"unmirror", "unmirroring", "unsnap", "unsnapping"} => Name(p) \notin InMenu
    /\ pc[p] \in {"unsnap", "unsnapping"} => mirror[Name(p)] = "absent"
    /\ pc[p] = "unsnapping" => snap[Name(p)] \in {"none", "torn"}
    /\ (/\ Op(p) = "reconcile"
        /\ pc[p] \in {"visit", "restore", "sync", "syncing", "unmirror", "unmirroring"}) =>
           InMenu \subseteq work.active

\* Every running operation is right about the snapshot it works on.
StandInv == \A p \in Procs : Stands(p)

-----------------------------------------------------------------------------
(* The recovery points.                                                    *)

\* What a step of the operations may look like from RecoveryPoints.
PointStep == Points!Next \/ UNCHANGED <<Saved, Mirrored, InMenu>>

\* What holds before and after a step of the operation of p.
Sound(p) == FreshInv /\ OfferInv /\ MenuInv /\ Agrees(p) /\ Stands(p)

\* A step that leaves the snapshots, the mirrors and the menu as they are.
LEMMA QuietStep ==
  ASSUME NEW p \in Procs, Sound(p), UNCHANGED <<storeVars, menuVars, envVars>>,
         Agrees(p)', Stands(p)'
  PROVE  Sound(p)' /\ PointStep
<1>1. UNCHANGED <<Saved, Mirrored, InMenu>>
  BY DEF storeVars, menuVars, Saved, Mirrored, InMenu
<1>2. FreshInv' /\ OfferInv' /\ MenuInv'
  BY <1>1 DEF Sound, FreshInv, OfferInv, MenuInv, storeVars, menuVars, envVars
<1> QED  BY <1>1, <1>2 DEF Sound, PointStep

\* A step that leaves the menu as it is, elsewhere than in its rewriting.
LEMMA StoreStep ==
  ASSUME NEW p \in Procs, Sound(p), UNCHANGED <<menuVars, envVars>>,
         pc[p] \notin Rewriting, FreshInv', OfferInv', Stands(p)', PointStep
  PROVE  Sound(p)' /\ PointStep
<1>1. MenuInv' /\ Agrees(p)'
  BY DEF Sound, MenuInv, Agrees, menuVars, envVars, Rewriting
<1> QED  BY <1>1 DEF Sound

\* createBootBackupNow saves a new point at its last rename.
LEMMA CreatePoints ==
  ASSUME TypeOK, NEW p \in Procs, Sound(p), CreateSteps(p)
  PROVE  Sound(p)' /\ PointStep
<1>1. ASSUME CopyBoot(p) PROVE Sound(p)' /\ PointStep
  <2>1. PICK s \in Snaps \ stamps : /\ stamps' = stamps \cup {s}
                                  /\ task' = [task EXCEPT ![p].name = s]
    BY <1>1 DEF CopyBoot
  <2>2. /\ pc[p] = "copy" /\ pc'[p] = "archive" /\ Name(p)' = s
        /\ UNCHANGED <<snap, mirror, menuVars, envVars>>
    BY <1>1, <2>1 DEF CopyBoot, TypeOK, ProcTypeOK, Name, Task
  <2>3. FreshInv' /\ Stands(p)'
    BY <2>1, <2>2 DEF Sound, FreshInv, Stands, Rewriting
  <2>4. UNCHANGED <<Saved, Mirrored, InMenu>>
    BY <2>2 DEF Saved, Mirrored, InMenu, menuVars
  <2>5. OfferInv' /\ PointStep
    BY <2>4 DEF Sound, OfferInv, PointStep
  <2> QED  BY <2>2, <2>3, <2>5, StoreStep DEF Rewriting
<1>2. ASSUME ArchiveModules(p) PROVE Sound(p)' /\ PointStep
  <2>1. /\ pc[p] = "archive" /\ pc'[p] = "publish" /\ Name(p)' = Name(p)
        /\ UNCHANGED <<storeVars, menuVars, envVars>>
    BY <1>2, GotoLeads DEF ArchiveModules
  <2>2. Agrees(p)' /\ Stands(p)'
    BY <2>1 DEF Sound, Agrees, Stands, Rewriting, storeVars, menuVars
  <2> QED  BY <2>1, <2>2, QuietStep
<1>3. ASSUME PublishSnapshot(p) PROVE Sound(p)' /\ PointStep
  <2>1. /\ pc[p] = "publish" /\ pc'[p] = "idle" /\ Name(p) \in Snaps
        /\ UNCHANGED <<stamps, mirror, menuVars, envVars>>
        /\ snap' = [snap EXCEPT ![Name(p)] = "whole"]
    BY <1>3, FinishLeads DEF PublishSnapshot, TypeOK, ProcTypeOK, TargetLabels
  <2>2. Name(p) \in stamps /\ snap[Name(p)] = "none" /\ mirror[Name(p)] = "absent"
    BY <2>1 DEF Sound, Stands
  <2>3. FreshInv' /\ Stands(p)'
    BY <2>1, <2>2 DEF Sound, FreshInv, Stands, Rewriting, TypeOK, StoreTypeOK
  <2>4. /\ Saved' = Saved \cup {Name(p)} /\ UNCHANGED <<Mirrored, InMenu>>
        /\ Name(p) \notin Saved \cup Mirrored
    BY <2>1, <2>2 DEF Saved, Mirrored, InMenu, menuVars, TypeOK, StoreTypeOK
  <2>5. OfferInv' /\ PointStep
    BY <2>1, <2>4 DEF Sound, OfferInv, PointStep, Points!Next, Points!Save
  <2> QED  BY <2>1, <2>3, <2>5, StoreStep DEF Rewriting
<1> QED  BY <1>1, <1>2, <1>3 DEF CreateSteps

\* Mirrors appear when a copy is complete; mirrors and snapshots are taken apart
\* only when they are not offered.
LEMMA MirrorPoints ==
  ASSUME TypeOK, NEW p \in Procs, RightOperation(p), Sound(p), MirrorSteps(p)
  PROVE  Sound(p)' /\ PointStep
<1>1. pc[p] \notin Rewriting /\ UNCHANGED <<menuVars, envVars, stamps>>
  BY DEF MirrorSteps, CheckActivation, MirrorInSync, StartSync, EndSync, SyncFails,
         FindEntry, NoMirror, StartUnmirror, EndUnmirror, UnmirrorFails, StartUnsnap,
         EndUnsnap, Rewriting, storeVars
<1>2. pc[p] \in TargetLabels /\ Name(p) \in Snaps
  BY DEF MirrorSteps, CheckActivation, MirrorInSync, StartSync, EndSync, SyncFails,
         FindEntry, NoMirror, StartUnmirror, EndUnmirror, UnmirrorFails, StartUnsnap,
         EndUnsnap, TargetLabels, TypeOK, ProcTypeOK
<1>3. InMenu' = InMenu /\ menu = custom /\ Listed = InMenu
  BY <1>1 DEF menuVars, InMenu, Listed, Sound, Agrees, Rewriting
<1>4. ASSUME \/ CheckActivation(p) \/ MirrorInSync(p) \/ FindEntry(p) \/ NoMirror(p)
             \/ UnmirrorFails(p)
      PROVE  Sound(p)' /\ PointStep
  <2>1. UNCHANGED storeVars /\ Agrees(p)'
    BY <1>1, <1>3, <1>4
    DEF CheckActivation, MirrorInSync, FindEntry, NoMirror, UnmirrorFails, Agrees, menuVars
  <2>2. CASE CheckActivation(p) \/ MirrorInSync(p)
    <3>1. pc'[p] \in {"sync", "restore", "entry"} /\ Op(p)' = "activate"
      BY <2>2, GotoLeads DEF CheckActivation, MirrorInSync, RightOperation
    <3>2. Stands(p)'
      BY <3>1 DEF Stands, Rewriting
    <3> QED  BY <1>1, <2>1, <3>2, QuietStep
  <2>3. CASE FindEntry(p)
    <3>1. /\ pc'[p] = IF Name(p) \in Listed THEN "unlist" ELSE "unmirror"
          /\ Name(p)' = Name(p) /\ Op(p)' = "delete"
      BY <2>3, GotoLeads DEF FindEntry, RightOperation
    <3>2. Stands(p)'
      BY <1>3, <3>1 DEF Stands, Rewriting
    <3> QED  BY <1>1, <2>1, <3>2, QuietStep
  <2>4. CASE NoMirror(p)
    <3>1. /\ pc[p] = "unmirror" /\ mirror[Name(p)] = "absent" /\ UNCHANGED <<mirror, work>>
          /\ Name(p)' = Name(p) /\ Op(p)' = Op(p) /\ pc'[p] = AfterUnmirror(Op(p))
      BY <2>4, GotoLeads DEF NoMirror, storeVars
    <3>2. Stands(p)'
      BY <1>3, <3>1 DEF Stands, Sound, Rewriting, AfterUnmirror
    <3> QED  BY <1>1, <2>1, <3>2, QuietStep
  <2>5. CASE UnmirrorFails(p)
    <3>1. /\ pc[p] \in {"unmirror", "unmirroring"}
          /\ \/ pc'[p] = "idle"
             \/ /\ pc'[p] = "visit" /\ Op(p) = "reconcile" /\ Op(p)' = Op(p)
                /\ work'.active = work.active
      BY <2>5, GotoLeads, FinishLeads DEF UnmirrorFails, TypeOK, Work
    <3>2. Stands(p)'
      BY <1>3, <3>1 DEF Stands, Sound, Rewriting
    <3> QED  BY <1>1, <2>1, <3>2, QuietStep
  <2> QED  BY <1>4, <2>2, <2>3, <2>4, <2>5
<1>5. ASSUME StartSync(p) \/ SyncFails(p) PROVE Sound(p)' /\ PointStep
  <2>1. snap' = snap /\ Mirrored' = Mirrored
    BY <1>2, <1>5
    DEF StartSync, SyncFails, Mirrored, TypeOK, StoreTypeOK, Sound, Stands
  <2>2. FreshInv'
    BY <1>1, <1>2, <1>5, <2>1
    DEF StartSync, SyncFails, Sound, FreshInv, Stands, TypeOK, StoreTypeOK
  <2>3. OfferInv' /\ PointStep
    BY <1>3, <2>1 DEF Sound, OfferInv, PointStep, Saved
  <2>4. CASE StartSync(p)
    <3>1. /\ pc[p] = "sync" /\ pc'[p] = "syncing" /\ Name(p)' = Name(p) /\ Op(p)' = Op(p)
          /\ snap[Name(p)] = "whole"
          /\ work'.fresh = (mirror[Name(p)] = "absent")
          /\ mirror' = [mirror EXCEPT ![Name(p)] =
                           IF @ = "synced" THEN "synced" ELSE "partial"]
          /\ work'.active = work.active
      BY <2>4, GotoLeads DEF StartSync, TypeOK, Work
    <3>2. work'.fresh => mirror'[Name(p)] # "synced"
      BY <1>2, <3>1 DEF TypeOK, StoreTypeOK
    <3>3. Stands(p)'
      BY <1>3, <2>1, <3>1, <3>2 DEF Stands, Sound, Rewriting
    <3> QED  BY <1>1, <2>2, <2>3, <3>3, StoreStep
  <2>5. CASE SyncFails(p)
    <3>1. /\ pc[p] = "syncing"
          /\ \/ pc'[p] = "idle"
             \/ /\ pc'[p] = "visit" /\ Op(p) = "reconcile" /\ Op(p)' = Op(p)
                /\ work'.active = work.active
      BY <2>5, GotoLeads, FinishLeads DEF SyncFails, TypeOK, Work
    <3>2. Stands(p)'
      BY <1>3, <3>1 DEF Stands, Sound, Rewriting
    <3> QED  BY <1>1, <2>2, <2>3, <3>2, StoreStep
  <2> QED  BY <1>5, <2>4, <2>5
<1>6. ASSUME EndSync(p) PROVE Sound(p)' /\ PointStep
  <2>1. /\ pc[p] = "syncing" /\ snap' = snap /\ snap[Name(p)] = "whole"
        /\ mirror' = [mirror EXCEPT ![Name(p)] = "synced"]
    BY <1>6 DEF EndSync, Sound, Stands
  <2>2. Saved' = Saved /\ Mirrored' = Mirrored \cup {Name(p)} /\ Name(p) \in Saved
    BY <1>2, <2>1 DEF Saved, Mirrored, TypeOK, StoreTypeOK
  <2>3. FreshInv'
    BY <1>1, <1>2, <2>1 DEF Sound, FreshInv, TypeOK, StoreTypeOK
  <2>4. OfferInv' /\ PointStep
    BY <1>2, <1>3, <2>2 DEF Sound, OfferInv, PointStep, Points!Next, Points!Mirror
  <2>5. \/ pc'[p] = "entry"
        \/ /\ pc'[p] = "visit" /\ Op(p) = "reconcile" /\ Op(p)' = Op(p)
           /\ work'.active = work.active
    BY <1>6, GotoLeads DEF EndSync, RightOperation, TypeOK, Work
  <2>6. Stands(p)'
    BY <1>3, <2>1, <2>5 DEF Stands, Sound, Rewriting
  <2> QED  BY <1>1, <2>3, <2>4, <2>6, StoreStep
<1>7. ASSUME StartUnmirror(p) \/ EndUnmirror(p) PROVE Sound(p)' /\ PointStep
  <2>1. PICK m \in {"partial", "absent"} : mirror' = [mirror EXCEPT ![Name(p)] = m]
    BY <1>7 DEF StartUnmirror, EndUnmirror
  <2>2. /\ pc[p] \in {"unmirror", "unmirroring"} /\ UNCHANGED <<snap, work>>
        /\ Name(p)' = Name(p) /\ Op(p)' = Op(p)
        /\ \/ pc'[p] = "unmirroring"
           \/ pc'[p] = AfterUnmirror(Op(p)) /\ mirror'[Name(p)] = "absent"
    BY <1>2, <1>7, GotoLeads DEF StartUnmirror, EndUnmirror, TypeOK, StoreTypeOK
  <2>3. Name(p) \notin InMenu
    BY <2>2 DEF Sound, Stands
  <2>4. Saved' = Saved /\ Mirrored' = Mirrored \ {Name(p)}
    BY <1>2, <2>1, <2>2 DEF Saved, Mirrored, TypeOK, StoreTypeOK
  <2>5. FreshInv'
    <3>1. Name(p) \in stamps \/ mirror'[Name(p)] = "absent"
      BY <1>2, <1>7, <2>1 DEF StartUnmirror, EndUnmirror, Sound, FreshInv, TypeOK, StoreTypeOK
    <3> QED  BY <1>1, <1>2, <2>1, <2>2, <3>1 DEF Sound, FreshInv, TypeOK, StoreTypeOK
  <2>6. OfferInv' /\ PointStep
    BY <1>2, <1>3, <2>3, <2>4 DEF Sound, OfferInv, PointStep, Points!Next, Points!Unmirror
  <2>7. Stands(p)'
    BY <1>3, <2>2, <2>3 DEF Stands, Sound, Rewriting, AfterUnmirror
  <2> QED  BY <1>1, <2>5, <2>6, <2>7, StoreStep
<1>8. ASSUME StartUnsnap(p) \/ EndUnsnap(p) PROVE Sound(p)' /\ PointStep
  <2>1. /\ pc[p] \in {"unsnap", "unsnapping"} /\ mirror' = mirror /\ Name(p)' = Name(p)
        /\ pc'[p] \in {"unsnapping", "cleanup"}
    BY <1>8, GotoLeads DEF StartUnsnap, EndUnsnap
  <2>2. /\ snap'[Name(p)] \in {"none", "torn"}
        /\ \A s \in Snaps \ {Name(p)} : snap'[s] = snap[s]
        /\ snap[Name(p)] = "none" => snap'[Name(p)] = "none"
    BY <1>2, <1>8 DEF StartUnsnap, EndUnsnap, TypeOK, StoreTypeOK
  <2>3. Name(p) \notin InMenu /\ mirror[Name(p)] = "absent"
    BY <2>1 DEF Sound, Stands
  <2>4. Mirrored' = Mirrored /\ Saved' = Saved \ {Name(p)} /\ Name(p) \notin Mirrored
    BY <1>2, <2>1, <2>2, <2>3 DEF Saved, Mirrored
  <2>5. FreshInv'
    BY <1>1, <2>1, <2>2 DEF Sound, FreshInv
  <2>6. OfferInv' /\ PointStep
    BY <1>2, <1>3, <2>3, <2>4 DEF Sound, OfferInv, PointStep, Points!Next, Points!Discard
  <2>7. Stands(p)'
    BY <1>3, <2>1, <2>2, <2>3 DEF Stands, Rewriting
  <2> QED  BY <1>1, <2>5, <2>6, <2>7, StoreStep
<1> QED  BY <1>4, <1>5, <1>6, <1>7, <1>8 DEF MirrorSteps

\* The scan and the visits of reconcile change no recovery point, and drop only
\* the mirrors of snapshots that are not offered.
LEMMA ReconcilePoints ==
  ASSUME TypeOK, NEW p \in Procs, RightOperation(p), Sound(p), ReconcileSteps(p)
  PROVE  Sound(p)' /\ PointStep
<1>1. UNCHANGED <<storeVars, menuVars, envVars>> /\ pc[p] \in {"scan", "visit", "stale"}
  BY DEF ReconcileSteps, Scan, VisitMirrorToDrop, VisitInactive, VisitUntrusted,
         VisitActive, VisitsDone, RemoveStale, StaleDone
<1>2. Op(p) = "reconcile" /\ Op(p)' = "reconcile"
  BY <1>1, SameOperation DEF RightOperation, OperationSteps
<1>3. InMenu' = InMenu /\ menu = custom /\ Listed = InMenu /\ Agrees(p)'
  BY <1>1 DEF menuVars, InMenu, Listed, Sound, Agrees
<1>4. pc[p] = "visit" => InMenu \subseteq work.active
  BY <1>2 DEF Sound, Stands
<1>5. ASSUME Scan(p) PROVE Stands(p)'
  <2>1. pc'[p] = "visit" /\ work'.active = Listed
    BY <1>5, GotoLeads DEF Scan, TypeOK, Work
  <2> QED  BY <1>3, <2>1 DEF Stands, Rewriting
<1>6. ASSUME VisitMirrorToDrop(p) PROVE Stands(p)'
  <2>1. PICK s \in work.todo :
            /\ snap[s] = "none" \/ s \notin work.active
            /\ work' = [work EXCEPT !.todo = @ \ {s}]
            /\ VisitAs(p, s, "unmirror")
    BY <1>6 DEF VisitMirrorToDrop
  <2>2. s \in Snaps /\ work'.active = work.active /\ pc[p] = "visit"
    BY <1>6, <2>1 DEF VisitMirrorToDrop, TypeOK, Work
  <2>3. pc'[p] = "unmirror" /\ Name(p)' = s
    BY <2>1, <2>2, VisitLeads
  <2>4. s \notin InMenu
    BY <1>4, <2>1, <2>2 DEF Sound, OfferInv, Saved
  <2> QED  BY <1>3, <1>4, <2>2, <2>3, <2>4 DEF Stands, Rewriting
<1>7. ASSUME VisitInactive(p) \/ VisitUntrusted(p) PROVE Stands(p)'
  <2>1. pc[p] = "visit" /\ pc'[p] = "visit" /\ work'.active = work.active
    BY <1>7, GotoLeads DEF VisitInactive, VisitUntrusted, TypeOK, Work
  <2> QED  BY <1>3, <1>4, <2>1 DEF Stands, Rewriting
<1>8. ASSUME VisitActive(p) PROVE Stands(p)'
  <2>1. PICK s \in work.todo :
            /\ work' = [work EXCEPT !.todo = @ \ {s}]
            /\ VisitAs(p, s, IF ver[s] \in work.seen THEN "sync" ELSE "restore")
    BY <1>8 DEF VisitActive
  <2>2. s \in Snaps /\ work'.active = work.active /\ pc[p] = "visit"
    BY <1>8, <2>1 DEF VisitActive, TypeOK, Work
  <2>3. pc'[p] \in {"sync", "restore"}
    BY <2>1, <2>2, VisitLeads
  <2> QED  BY <1>3, <1>4, <2>2, <2>3 DEF Stands, Rewriting
<1>9. ASSUME VisitsDone(p) \/ RemoveStale(p) \/ StaleDone(p) PROVE Stands(p)'
  <2>1. pc'[p] \in {"stale", "unlist", "cleanup"}
    BY <1>9, GotoLeads, VisitLeads DEF VisitsDone, RemoveStale, StaleDone, TypeOK, Work
  <2> QED  BY <2>1 DEF Stands, Rewriting
<1> QED
  BY <1>1, <1>3, <1>5, <1>6, <1>7, <1>8, <1>9, QuietStep DEF ReconcileSteps

\* The steps of addGrubEntry and removeGrubEntry: the menu changes with grub.cfg
\* or with a BLS file, and a failed grub-mkconfig is rolled back.
LEMMA EntryPoints ==
  ASSUME TypeOK, Recoverable, NEW p \in Procs, RightOperation(p), Sound(p),
         BootEntrySteps(p)
  PROVE  Sound(p)' /\ PointStep
<1>1. UNCHANGED <<storeVars, envVars>> /\ Saved' = Saved /\ Mirrored' = Mirrored
  BY DEF BootEntrySteps, CheckEntry, EntryAlreadyListed, EntryAsBLS, EntryAsMenuentry,
      UnlistWithoutCustom, UnlistFromCustom, TruncateCustom, WriteCustom,
      WriteCustomFails, UpdateGrubConfig, UpdateGrubConfigFails, RollbackFails,
      storeVars, Saved, Mirrored
<1>2. Name(p) \in Snaps
  BY DEF BootEntrySteps, CheckEntry, EntryAlreadyListed, EntryAsBLS, EntryAsMenuentry,
      UnlistWithoutCustom, UnlistFromCustom, TruncateCustom, WriteCustom,
      WriteCustomFails, UpdateGrubConfig, UpdateGrubConfigFails, RollbackFails,
      TypeOK, ProcTypeOK, TargetLabels
<1>3. FreshInv'
  BY <1>1 DEF Sound, FreshInv, storeVars
<1>4. Platform \in {"arch", "fedora"}
  BY ConstantsOK
<1>5. /\ FreshInv /\ OfferInv /\ MenuInv /\ Agrees(p) /\ Stands(p)
  BY DEF Sound
<1>6. ASSUME InMenu' = InMenu PROVE OfferInv' /\ PointStep
  BY <1>1, <1>5, <1>6 DEF OfferInv, PointStep
<1>7. ASSUME InMenu' = InMenu \ {Name(p)} PROVE OfferInv' /\ PointStep
  BY <1>1, <1>2, <1>5, <1>7 DEF OfferInv, PointStep, Points!Next, Points!Withdraw
<1>8. ASSUME InMenu' = InMenu \cup {Name(p)}, Name(p) \in Saved \cap Mirrored
      PROVE  OfferInv' /\ PointStep
  BY <1>1, <1>2, <1>5, <1>8 DEF OfferInv, PointStep, Points!Next, Points!Offer
<1>9. ASSUME CheckEntry(p) PROVE Sound(p)' /\ PointStep
  <2>1. /\ pc[p] = "entry" /\ pc'[p] \in {"list", "reload"} /\ Name(p)' = Name(p)
        /\ Op(p)' = "activate" /\ UNCHANGED menuVars
        /\ Name(p) \in Saved \cap Mirrored
    BY <1>2, <1>9, GotoLeads
    DEF CheckEntry, RightOperation, EntryPublishable, Saved, Mirrored
  <2>2. Agrees(p)' /\ Stands(p)'
    BY <1>1, <1>5, <2>1 DEF Agrees, Stands, Rewriting, menuVars
  <2> QED  BY <1>1, <2>1, <2>2, QuietStep
<1>10. ASSUME EntryAlreadyListed(p) PROVE Sound(p)' /\ PointStep
  <2>1. pc[p] = "list" /\ pc'[p] = "idle" /\ UNCHANGED menuVars
    BY <1>10, FinishLeads DEF EntryAlreadyListed
  <2>2. Agrees(p)' /\ Stands(p)'
    BY <1>5, <2>1 DEF Agrees, Stands, Rewriting, menuVars
  <2> QED  BY <1>1, <2>1, <2>2, QuietStep
<1>11. ASSUME EntryAsBLS(p) PROVE Sound(p)' /\ PointStep
  <2>1. /\ pc[p] = "list" /\ pc'[p] = "idle" /\ UNCHANGED <<customFile, custom, menu>>
        /\ bls' = bls \cup {Name(p)} /\ Platform = "fedora"
    BY <1>11, FinishLeads DEF EntryAsBLS
  <2>2. Name(p) \in Saved \cap Mirrored
    BY <1>5, <2>1 DEF Stands
  <2>3. OfferInv' /\ PointStep
    BY <1>8, <2>1, <2>2 DEF InMenu
  <2>4. MenuInv' /\ Agrees(p)' /\ Stands(p)'
    BY <1>5, <2>1 DEF MenuInv, Agrees, Stands, Rewriting
  <2> QED  BY <1>3, <2>3, <2>4 DEF Sound
<1>12. ASSUME EntryAsMenuentry(p) PROVE Sound(p)' /\ PointStep
  <2>1. /\ pc[p] = "list" /\ pc'[p] = "truncate" /\ Name(p)' = Name(p)
        /\ Op(p)' = "activate" /\ Platform = "arch" /\ customFile' = "ready"
        /\ UNCHANGED <<custom, menu, bls>>
    BY <1>12, GotoLeads DEF EntryAsMenuentry, RewriteCustom, RightOperation
  <2>2. work'.target = custom \cup {Name(p)} /\ work'.original = custom
    BY <1>12 DEF EntryAsMenuentry, RewriteCustom, TypeOK, Work
  <2>3. menu = custom /\ Name(p) \in Saved \cap Mirrored
    BY <1>5, <2>1 DEF Agrees, Stands
  <2>4. MenuInv' /\ Agrees(p)'
    BY <1>1, <1>5, <2>1 DEF MenuInv, Agrees, envVars
  <2>5. Retargeted(p)'
    BY <2>1, <2>2, <2>3 DEF Retargeted
  <2>6. Stands(p)'
    BY <1>1, <2>1, <2>3, <2>5 DEF Stands, Rewriting
  <2> QED  BY <1>3, <1>6, <2>1, <2>4, <2>6 DEF Sound, InMenu
<1>13. ASSUME UnlistWithoutCustom(p) PROVE Sound(p)' /\ PointStep
  <2>1. /\ pc[p] = "unlist" /\ pc'[p] = AfterUnlist(Op(p)) /\ Name(p)' = Name(p)
        /\ Op(p)' = Op(p) /\ customFile = "absent" /\ UNCHANGED <<customFile, custom, menu>>
        /\ bls' = bls \ {Name(p)}
    BY <1>13, GotoLeads DEF UnlistWithoutCustom
  <2>2. custom = {} /\ menu = {}
    BY <1>5, <2>1 DEF MenuInv, Agrees
  <2>3. OfferInv' /\ PointStep
    BY <1>7, <2>1, <2>2 DEF InMenu
  <2>4. Name(p) \notin InMenu'
    BY <2>1, <2>2 DEF InMenu
  <2>5. MenuInv' /\ Agrees(p)'
    BY <1>1, <1>5, <2>1, <2>2 DEF MenuInv, Agrees, envVars
  <2>6. Stands(p)'
    BY <2>1, <2>4 DEF Stands, Rewriting, AfterUnlist
  <2> QED  BY <1>3, <2>3, <2>5, <2>6 DEF Sound
<1>14. ASSUME UnlistFromCustom(p) PROVE Sound(p)' /\ PointStep
  <2>1. /\ pc[p] = "unlist" /\ pc'[p] = "truncate" /\ Name(p)' = Name(p)
        /\ Op(p)' = Op(p) /\ Op(p) # "activate" /\ UNCHANGED <<customFile, custom, menu>>
        /\ bls' = bls \ {Name(p)}
    BY <1>14, GotoLeads DEF UnlistFromCustom, RewriteCustom, RightOperation
  <2>2. work'.target = custom \ {Name(p)} /\ work'.original = custom
    BY <1>14 DEF UnlistFromCustom, RewriteCustom, TypeOK, Work
  <2>3. menu = custom
    BY <1>5, <2>1 DEF Agrees
  <2>4. OfferInv' /\ PointStep
    <3>1. CASE Platform = "arch"
      BY <1>5, <1>6, <2>1, <3>1 DEF MenuInv, InMenu
    <3>2. CASE Platform = "fedora"
      BY <1>5, <1>7, <2>1, <3>2 DEF MenuInv, InMenu
    <3> QED  BY <1>4, <3>1, <3>2
  <2>5. MenuInv' /\ Agrees(p)'
    BY <1>1, <1>5, <2>1, <2>3 DEF MenuInv, Agrees, envVars
  <2>6. Retargeted(p)'
    BY <2>1, <2>2, <2>3 DEF Retargeted
  <2>7. Stands(p)'
    BY <2>1, <2>6 DEF Stands, Rewriting
  <2> QED  BY <1>3, <2>4, <2>5, <2>7 DEF Sound
<1>15. ASSUME TruncateCustom(p) \/ WriteCustom(p) PROVE Sound(p)' /\ PointStep
  <2>1. /\ \/ pc[p] = "truncate" /\ pc'[p] = "write" /\ custom' = {}
           \/ pc[p] = "write" /\ pc'[p] = "mkconfig" /\ custom' = work.target
        /\ customFile' \in {"blank", "ready"}
        /\ Name(p)' = Name(p) /\ Op(p)' = Op(p) /\ UNCHANGED <<menu, bls, work>>
    BY <1>15, GotoLeads DEF TruncateCustom, WriteCustom
  <2>2. Retargeted(p)
    BY <1>5, <2>1 DEF Stands, Rewriting
  <2>3. OfferInv' /\ PointStep
    BY <1>6, <2>1 DEF InMenu
  <2>4. MenuInv' /\ Agrees(p)'
    BY <1>1, <1>5, <2>1, <2>2 DEF MenuInv, Agrees, Retargeted, envVars
  <2>5. Retargeted(p)'
    BY <2>1, <2>2 DEF Retargeted
  <2>6. Op(p) = "activate" => Name(p) \in Saved \cap Mirrored
    BY <1>5, <2>1 DEF Stands, Rewriting
  <2>7. Stands(p)'
    BY <1>1, <2>1, <2>5, <2>6 DEF Stands, Rewriting
  <2> QED  BY <1>3, <2>3, <2>4, <2>7 DEF Sound
<1>16. ASSUME WriteCustomFails(p) \/ UpdateGrubConfigFails(p) \/ RollbackFails(p)
       PROVE  Sound(p)' /\ PointStep
  <2>1. /\ pc[p] \in {"write", "mkconfig"} /\ pc'[p] = "idle" /\ UNCHANGED <<menu, bls>>
        /\ \/ Platform = "fedora" /\ custom' \in {custom, {}}
           \/ custom' = work.original
        /\ customFile' \in {"blank", customFile}
    BY <1>4, <1>16, FinishLeads
    DEF WriteCustomFails, UpdateGrubConfigFails, RollbackFails, Recoverable, menuVars
  <2>2. work.original = menu /\ customFile # "absent"
    BY <1>5, <2>1 DEF Stands, Rewriting, Retargeted
  <2>3. OfferInv' /\ PointStep
    BY <1>6, <2>1 DEF InMenu
  <2>4. MenuInv' /\ Agrees(p)'
    BY <1>1, <1>5, <2>1, <2>2 DEF MenuInv, Agrees, envVars
  <2>5. Stands(p)'
    BY <2>1 DEF Stands, Rewriting
  <2> QED  BY <1>3, <2>3, <2>4, <2>5 DEF Sound
<1>17. ASSUME UpdateGrubConfig(p) PROVE Sound(p)' /\ PointStep
  <2>1. /\ pc[p] = "mkconfig" /\ menu' = custom /\ UNCHANGED <<customFile, custom, bls>>
        /\ \/ Op(p) = "activate" /\ pc'[p] = "idle"
           \/ /\ Op(p) # "activate" /\ pc'[p] = AfterUnlist(Op(p))
              /\ Name(p)' = Name(p) /\ Op(p)' = Op(p)
    BY <1>17, GotoLeads, FinishLeads DEF UpdateGrubConfig
  <2>2. Retargeted(p) /\ custom = work.target
    BY <1>5, <2>1 DEF Stands, Rewriting, Retargeted
  <2>3. MenuInv' /\ Agrees(p)'
    BY <1>1, <1>5, <2>1 DEF MenuInv, Agrees, envVars
  <2>4. CASE Op(p) = "activate"
    <3>1. InMenu' = InMenu \cup {Name(p)}
      BY <2>1, <2>2, <2>4 DEF InMenu, Retargeted
    <3>2. Name(p) \in Saved \cap Mirrored
      BY <1>5, <2>1, <2>4 DEF Stands, Rewriting
    <3>3. Stands(p)'
      BY <2>1, <2>4 DEF Stands, Rewriting
    <3> QED  BY <1>3, <1>8, <2>3, <3>1, <3>2, <3>3 DEF Sound
  <2>5. CASE Op(p) # "activate"
    <3>1. InMenu' = InMenu \ {Name(p)}
      BY <2>1, <2>2, <2>5 DEF InMenu, Retargeted
    <3>2. Stands(p)'
      BY <2>1, <2>5, <3>1 DEF Stands, Rewriting, AfterUnlist
    <3> QED  BY <1>3, <1>7, <2>3, <3>1, <3>2 DEF Sound
  <2> QED  BY <2>4, <2>5
<1> QED
  BY <1>9, <1>10, <1>11, <1>12, <1>13, <1>14, <1>15, <1>16, <1>17 DEF BootEntrySteps

\* Restoring and cleaning up module trees leaves the recovery points alone.
LEMMA ModulePoints ==
  ASSUME TypeOK, NEW p \in Procs, RightOperation(p), Sound(p),
         ModuleSteps(p) \/ GiveUp(p)
  PROVE  Sound(p)' /\ PointStep
<1>1. /\ UNCHANGED <<storeVars, menuVars, envVars>>
      /\ pc[p] \notin Rewriting
  BY DEF ModuleSteps, RestoreModules, RestoreFails, CleanupNotDue, HoldPackageLock,
      ChooseDoomed, ProtectionUnproved, StartPurge, EndPurge, PurgeFails, PurgeDone,
      ReleasePackageLock, GiveUp, Refused, MayAbort, Rewriting
<1>2. InMenu' = InMenu /\ Agrees(p)'
  BY <1>1 DEF menuVars, InMenu, Sound, Agrees, Rewriting
<1>3. ASSUME RestoreModules(p) \/ RestoreFails(p) PROVE Stands(p)'
  <2>1. /\ pc[p] \in {"restore", "reload"}
        /\ work'.active = work.active \/ pc'[p] = "idle"
        /\ \/ pc'[p] = "idle"
           \/ /\ Op(p)' = Op(p) /\ Name(p)' = Name(p)
              /\ \/ pc[p] = "reload" /\ pc'[p] = "list" /\ Op(p) = "activate"
                 \/ pc[p] = "restore" /\ pc'[p] \in {"sync", "visit"}
    BY <1>3, GotoLeads, FinishLeads DEF RestoreModules, RestoreFails, RightOperation,
        TypeOK, Work
  <2>2. UNCHANGED <<Saved, Mirrored>>
    BY <1>1 DEF storeVars, Saved, Mirrored
  <2> QED  BY <1>2, <2>1, <2>2 DEF Sound, Stands, Rewriting
<1>4. ASSUME \/ CleanupNotDue(p) \/ HoldPackageLock(p) \/ ChooseDoomed(p)
             \/ ProtectionUnproved(p) \/ StartPurge(p) \/ EndPurge(p) \/ PurgeFails(p)
             \/ PurgeDone(p) \/ ReleasePackageLock(p) \/ GiveUp(p)
      PROVE  Stands(p)'
  <2>1. pc'[p] \in CleaningLabels \cup {"idle"}
    BY <1>4, GotoLeads, FinishLeads
    DEF CleanupNotDue, HoldPackageLock, ChooseDoomed, ProtectionUnproved, StartPurge,
        EndPurge, PurgeFails, PurgeDone, ReleasePackageLock, GiveUp, CleaningLabels
  <2> QED  BY <2>1 DEF Stands, CleaningLabels, Rewriting
<1> QED  BY <1>1, <1>2, <1>3, <1>4, QuietStep DEF ModuleSteps

\* The inductive invariant of the refinement.
PointInv == FreshInv /\ OfferInv /\ MenuInv /\ AgreeInv /\ StandInv

\* Every step of an operation.
LEMMA OperationPoints ==
  ASSUME TypeOK, OneOperation, OpInv, PointInv, Recoverable, NEW p \in Procs,
         OperationSteps(p)
  PROVE  PointInv' /\ PointStep
<1>1. \A q \in Procs \ {p} : Resting(q) /\ Resting(q)'
  BY OperationStepsShape, OthersRest DEF StepShape, OneOperation, Resting
<1>2. Sound(p)
  BY <1>1 DEF PointInv, Sound, AgreeInv, Agrees, StandInv, Resting
<1>3. Sound(p)' /\ PointStep
  BY <1>2, CreatePoints, MirrorPoints, ReconcilePoints, EntryPoints, ModulePoints
  DEF OperationSteps, OpInv
<1>4. AgreeInv'
  BY <1>3 DEF Sound, Agrees, AgreeInv
<1>5. StandInv'
  BY <1>1, <1>3 DEF Sound, StandInv, Stands, Rewriting, Resting
<1> QED  BY <1>3, <1>4, <1>5 DEF Sound, PointInv

\* Where Recoverable lets a process die or a TUI write GrubCustom, that file has
\* no entries to lose.
LEMMA OutsidePoints ==
  ASSUME TypeOK, OneOperation, PointInv, Recoverable,
         \/ \E p \in Procs : Request(p) \/ Kill(p)
         \/ Surroundings
         \/ UNCHANGED vars
  PROVE  PointInv' /\ PointStep
<1>1. /\ FreshInv /\ OfferInv /\ MenuInv /\ AgreeInv /\ StandInv
      /\ Platform \in {"arch", "fedora"} /\ ~LoseSnapshot
  BY ConstantsOK DEF PointInv, Recoverable, LoseSnapshot
<1>2. UNCHANGED <<custom, menu, bls>> /\ (customFile' = customFile \/ customFile' = "ready")
  <2>1. ASSUME StartupSteps PROVE UNCHANGED <<custom, menu, bls>>
                                  /\ (customFile' = customFile \/ customFile' = "ready")
    <3>1. CASE Platform = "arch"
      BY <1>1, <2>1, <3>1 DEF StartupSteps, StartupReads, StartupWrites, MenuInv, Recoverable
    <3>2. CASE Platform = "fedora"
      BY <1>1, <2>1, <3>2 DEF StartupSteps, StartupReads, StartupWrites, MenuInv, menuVars
    <3> QED  BY <1>1, <3>1, <3>2
  <2>2. CASE ~StartupSteps
    BY <2>2
    DEF Request, Kill, Surroundings, PackageSteps, PackageBegins, PackageReplacesTree,
        PackageReplacesImage, PackageEnds, Reboot, BootRecovery, PowerCycle,
        ClearDbLock, DamageSnapshot, LoseSnapshot, vars, menuVars
  <2> QED  BY <2>1, <2>2
<1>3. /\ UNCHANGED <<stamps, mirror>> /\ Saved' = Saved
      /\ \A s \in Snaps : snap[s] = "none" => snap'[s] = "none"
  <2>1. CASE DamageSnapshot
    BY <2>1 DEF DamageSnapshot, Saved, TypeOK, StoreTypeOK
  <2>2. CASE ~DamageSnapshot
    <3>1. UNCHANGED storeVars
      BY <1>1, <2>2
      DEF Request, Kill, Surroundings, PackageSteps, PackageBegins, PackageReplacesTree,
          PackageReplacesImage, PackageEnds, Reboot, BootRecovery, PowerCycle,
          StartupSteps, StartupReads, StartupWrites, ClearDbLock, vars
    <3> QED  BY <3>1 DEF storeVars, Saved
  <2> QED  BY <2>1, <2>2
<1>4. UNCHANGED <<Saved, Mirrored, InMenu>>
  BY <1>2, <1>3 DEF Mirrored, InMenu
<1>5. FreshInv' /\ OfferInv' /\ PointStep
  BY <1>1, <1>3, <1>4 DEF FreshInv, OfferInv, PointStep
<1>6. MenuInv'
  <2>1. Platform = "arch" => startup' = "none" /\ kills' = 0
    <3> SUFFICES ASSUME Platform = "arch" PROVE startup' = "none" /\ kills' = 0
      OBVIOUS
    <3>1. startup = "none" /\ kills = 0 /\ MaxKills = 0 /\ "startup" \notin Faults
      BY <1>1 DEF MenuInv, Recoverable
    <3>2. ASSUME PowerCycle PROVE startup' = "none" /\ kills' = 0
      BY <3>1, <3>2 DEF PowerCycle
    <3>3. ASSUME NEW p \in Procs, Kill(p) PROVE FALSE
      BY <3>1, <3>3 DEF Kill
    <3> QED
      BY <3>1, <3>2, <3>3
      DEF Request, Surroundings, PackageSteps, PackageBegins, PackageReplacesTree,
          PackageReplacesImage, PackageEnds, StartupSteps, StartupReads,
          StartupWrites, Reboot, BootRecovery, ClearDbLock, DamageSnapshot,
          LoseSnapshot, envVars, vars
  <2> QED  BY <1>1, <1>2, <2>1 DEF MenuInv
<1>7. AgreeInv'
  <2>1. CASE Platform = "fedora"
    BY <1>1, <1>2, <2>1 DEF MenuInv, AgreeInv
  <2>2. CASE Platform = "arch"
    <3>1. kills = 0 /\ MaxKills = 0
      BY <1>1, <2>2 DEF MenuInv, Recoverable
    <3>2. ASSUME NEW p \in Procs, Kill(p) PROVE FALSE
      BY <3>1, <3>2 DEF Kill
    <3>3. ASSUME NEW q \in Procs, pc[q] \in {"write", "mkconfig"}
          PROVE  pc'[q] \in {"write", "mkconfig"}
      <4>1. ~PowerCycle
        BY <3>1, <3>3 DEF PowerCycle, Orderly
      <4> QED
        BY <3>2, <3>3, <4>1
        DEF Request, Surroundings, PackageSteps, PackageBegins, PackageReplacesTree,
            PackageReplacesImage, PackageEnds, StartupSteps, StartupReads,
            StartupWrites, Reboot, BootRecovery, ClearDbLock, DamageSnapshot,
            LoseSnapshot, procVars, vars, TypeOK, ProcTypeOK
    <3> QED  BY <1>1, <1>2, <3>3 DEF AgreeInv
  <2> QED  BY <1>1, <2>1, <2>2
<1>8. StandInv'
  <2> SUFFICES ASSUME NEW q \in Procs, ~Resting(q)' PROVE Stands(q)'
    BY DEF StandInv, Stands, Resting, Rewriting
  <2>1. pc'[q] = pc[q] /\ Op(q)' = Op(q) /\ Name(q)' = Name(q) /\ work' = work
    BY OutsideSteps
  <2>2. UNCHANGED storeVars
    BY StoreStays
  <2>3. Stands(q)
    BY <1>1 DEF StandInv
  <2>4. Retargeted(q) => Retargeted(q)'
    BY <1>2, <2>1 DEF Retargeted
  <2> QED  BY <1>4, <2>1, <2>2, <2>3, <2>4 DEF Stands, Rewriting, storeVars
<1> QED  BY <1>5, <1>6, <1>7, <1>8 DEF PointInv

\* Every step of the system.
LEMMA NextPoints ==
  ASSUME TypeOK, OneOperation, OpInv, PointInv, Recoverable, [Next]_vars
  PROVE  PointInv' /\ PointStep
<1>1. ASSUME NEW p \in Procs, Acquire(p) PROVE PointInv' /\ PointStep
  <2>1. UNCHANGED <<storeVars, menuVars, envVars, work, task>> /\ lock = Nobody
    BY <1>1 DEF Acquire
  <2>2. UNCHANGED <<Saved, Mirrored, InMenu>>
    BY <2>1 DEF storeVars, menuVars, Saved, Mirrored, InMenu
  <2>3. FreshInv' /\ OfferInv' /\ MenuInv' /\ PointStep
    BY <2>1, <2>2 DEF PointInv, FreshInv, OfferInv, MenuInv, PointStep, storeVars,
        menuVars, envVars
  <2>4. \A q \in Procs : pc[q] \in {"idle", "waiting"}
    BY <2>1, ConstantsOK DEF OneOperation
  <2>5. \A q \in Procs : pc'[q] \in {"idle", "waiting", "copy", "check", "unlist",
                                     "exists", "scan"}
    <3>1. Op(p) \in AllOperations
      BY DEF TypeOK, ProcTypeOK, Op, Task
    <3> QED  BY <1>1, <2>4, <3>1 DEF Acquire, FirstStep, AllOperations, TypeOK, ProcTypeOK
  <2>6. AgreeInv'
    BY <2>1, <2>4 DEF PointInv, AgreeInv, menuVars
  <2>7. StandInv'
    BY <2>5 DEF StandInv, Stands, Rewriting
  <2> QED  BY <2>3, <2>6, <2>7 DEF PointInv
<1> QED  BY <1>1, OperationPoints, OutsidePoints DEF Next, ProcSteps

\* The initial states, where there is no recovery point.
LEMMA InitPoints == Init => PointInv /\ Points!Init
<1> SUFFICES ASSUME Init PROVE PointInv /\ Points!Init
  OBVIOUS
<1>1. Saved = {} /\ Mirrored = {} /\ InMenu = {}
  BY DEF Init, Saved, Mirrored, InMenu
<1>2. FreshInv /\ OfferInv /\ MenuInv /\ AgreeInv
  BY <1>1 DEF Init, FreshInv, OfferInv, MenuInv, AgreeInv
<1>3. StandInv
  BY DEF Init, StandInv, Stands, Rewriting
<1> QED  BY <1>1, <1>2, <1>3 DEF PointInv, Points!Init

\* README "Active boot mirrors are created only when a snapshot is activated for
\* booting": the operations, interleaved with everything around them, implement
\* RecoveryPoints.  The menu never offers a snapshot that is not saved and
\* mirrored, and nothing that is offered is taken apart.
THEOREM PointsImplemented ==
  ASSUME Recoverable
  PROVE  Spec => PointsKept
<1>1. Init => PointInv /\ Points!Init
  BY InitPoints
<1>2. TypeOK /\ OneOperation /\ OpInv /\ PointInv /\ [Next]_vars => PointInv'
  BY Recoverable, NextPoints
<1>3. TypeOK /\ OneOperation /\ OpInv /\ PointInv /\ [Next]_vars
      => [Points!Next]_(Points!vars)
  BY Recoverable, NextPoints DEF PointStep, Points!vars
<1> QED
  BY <1>1, <1>2, <1>3, TypeCorrect, MutualExclusion, OperationsRight, PTL
  DEF Spec, PointsKept, Points!Spec

\* README "Regenerate /boot/grub/grub.cfg after GRUB entry changes": whenever no
\* operation is running, grub.cfg holds exactly the entries of GrubCustom.
THEOREM MenuFollowsCustom ==
  ASSUME Recoverable
  PROVE  Spec => []MenuInStep
<1>1. Init => PointInv
  BY InitPoints
<1>2. TypeOK /\ OneOperation /\ OpInv /\ PointInv /\ [Next]_vars => PointInv'
  BY Recoverable, NextPoints
<1>3. OneOperation /\ PointInv => MenuInStep
  BY ConstantsOK DEF OneOperation, PointInv, AgreeInv, MenuInStep
<1> QED
  BY <1>1, <1>2, <1>3, TypeCorrect, MutualExclusion, OperationsRight, PTL DEF Spec

-----------------------------------------------------------------------------
(* What an entry boots.                                                    *)

\* The version of a snapshot in the menu changes only between operations.
LEMMA VersionStays ==
  ASSUME TypeOK, OneOperation, PointInv, [Next]_vars, lock # Nobody, NEW s \in InMenu
  PROVE  ver'[s] = ver[s]
<1>1. s \in Snaps /\ snap[s] # "none"
  BY DEF PointInv, OfferInv, Saved
<1>2. ASSUME NEW p \in Procs, OperationSteps(p), ver' # ver
      PROVE  PublishSnapshot(p) \/ StartUnsnap(p)
  <2>1. ASSUME CreateSteps(p) PROVE PublishSnapshot(p)
    BY <1>2, <2>1 DEF CreateSteps, CopyBoot, ArchiveModules, storeVars
  <2>2. ASSUME MirrorSteps(p) PROVE StartUnsnap(p)
    BY <1>2, <2>2
    DEF MirrorSteps, CheckActivation, MirrorInSync, StartSync, EndSync, SyncFails,
        FindEntry, NoMirror, StartUnmirror, EndUnmirror, UnmirrorFails, EndUnsnap,
        storeVars
  <2>3. ASSUME ReconcileSteps(p) PROVE FALSE
    BY <1>2, <2>3
    DEF ReconcileSteps, Scan, VisitMirrorToDrop, VisitInactive, VisitUntrusted,
        VisitActive, VisitsDone, RemoveStale, StaleDone, storeVars
  <2>4. ASSUME BootEntrySteps(p) PROVE FALSE
    BY <1>2, <2>4
    DEF BootEntrySteps, CheckEntry, EntryAlreadyListed, EntryAsBLS, EntryAsMenuentry,
        UnlistWithoutCustom, UnlistFromCustom, TruncateCustom, WriteCustom,
        WriteCustomFails, UpdateGrubConfig, UpdateGrubConfigFails, RollbackFails,
        storeVars
  <2>5. ASSUME ModuleSteps(p) \/ GiveUp(p) PROVE FALSE
    BY <1>2, <2>5
    DEF ModuleSteps, RestoreModules, RestoreFails, CleanupNotDue, HoldPackageLock,
        ChooseDoomed, ProtectionUnproved, StartPurge, EndPurge, PurgeFails, PurgeDone,
        ReleasePackageLock, GiveUp, storeVars
  <2> QED  BY <1>2, <2>1, <2>2, <2>3, <2>4, <2>5 DEF OperationSteps
<1>3. ASSUME NEW p \in Procs, OperationSteps(p) PROVE ver'[s] = ver[s]
  <2>1. ASSUME PublishSnapshot(p) PROVE ver'[s] = ver[s]
    <3>1. s # Name(p) /\ ver' = [ver EXCEPT ![Name(p)] = work.kernel]
      BY <1>1, <2>1 DEF PublishSnapshot, PointInv, StandInv, Stands
    <3> QED  BY <1>1, <3>1 DEF TypeOK, StoreTypeOK
  <2>2. ASSUME StartUnsnap(p) PROVE ver'[s] = ver[s]
    <3>1. s # Name(p)
      BY <2>2 DEF StartUnsnap, PointInv, StandInv, Stands
    <3>2. ver' = ver \/ \E v \in {ver[Name(p)], Unknown} : ver' = [ver EXCEPT ![Name(p)] = v]
      BY <2>2 DEF StartUnsnap
    <3> QED  BY <1>1, <3>1, <3>2 DEF TypeOK, StoreTypeOK
  <2> QED  BY <1>2, <1>3, <2>1, <2>2
<1>4. ASSUME NEW p \in Procs, Request(p) \/ Acquire(p) \/ Kill(p) PROVE ver' = ver
  BY <1>4 DEF Request, Acquire, Kill, storeVars
<1>5. ASSUME Surroundings PROVE ver' = ver
  BY <1>5
  DEF Surroundings, PackageSteps, PackageBegins, PackageReplacesTree,
      PackageReplacesImage, PackageEnds, StartupSteps, StartupReads, StartupWrites,
      Reboot, BootRecovery, PowerCycle, ClearDbLock, DamageSnapshot, LoseSnapshot,
      storeVars
<1> QED  BY <1>3, <1>4, <1>5 DEF Next, ProcSteps, vars, storeVars

\* No step of an operation, of whichever process and however it fails, breaks what
\* an entry that stays in the menu boots: its snapshot, its mirror, its modules.
THEOREM MenuBootable ==
  ASSUME Recoverable
  PROVE  Spec => MenuStaysBootable
<1>1. Init => PointInv
  BY InitPoints
<1>2. TypeOK /\ OneOperation /\ OpInv /\ PointInv /\ [Next]_vars => PointInv'
  BY Recoverable, NextPoints
<1>3. TypeOK /\ OneOperation /\ CleanupSpares /\ OpInv /\ PointInv /\ [Next]_vars
      => [(lock # Nobody /\ pkg' = pkg) =>
             \A s \in InMenu \cap InMenu' : Boots(s) => Boots(s)']_vars
  <2> SUFFICES ASSUME TypeOK, OneOperation, CleanupSpares, OpInv, PointInv, [Next]_vars,
                      lock # Nobody, pkg' = pkg, NEW s \in InMenu, s \in InMenu', Boots(s)
               PROVE  Boots(s)'
    OBVIOUS
  <2>1. snap'[s] # "none" /\ mirror'[s] = "synced"
    BY Recoverable, NextPoints DEF PointInv, OfferInv, Saved, Mirrored
  <2>2. ver'[s] = ver[s]
    BY VersionStays
  <2>3. ver[s] \in Protected \cap Versions
    <3>1. s \in Snaps /\ ver[s] \in Versions
      BY DEF Boots, PointInv, OfferInv, Saved, TypeOK, StoreTypeOK
    <3>2. s \in Listed \cup menu
      BY DEF InMenu, Listed
    <3> QED  BY <3>1, <3>2 DEF Protected
  <2>4. tree'[ver[s]] = "full"
    BY <2>3, NextKeepsTrees DEF WholeTreesKept, Boots
  <2> QED  BY <2>1, <2>2, <2>4 DEF Boots
<1> QED
  BY <1>1, <1>2, <1>3, TypeCorrect, MutualExclusion, CleanupSafe, OperationsRight, PTL
  DEF Spec, MenuStaysBootable

-----------------------------------------------------------------------------
(* What a returned result means for the menu.                              *)

\* An operation that reports success has released the flock.
LEMMA SuccessReleases ==
  ASSUME TypeOK, NEW p \in Procs, [Next]_vars, Returns(p, {"ok", "warn"})
  PROVE  lock' = Nobody
<1>1. StepShape(p)
  BY SuccessOutside, OperationStepsShape
<1> QED  BY <1>1 DEF StepShape, Returns

\* A step that reports an activation puts the entry where the next grub.cfg finds
\* it, so into the menu if that is in step.
LEMMA ActivationInStep ==
  ASSUME TypeOK, OpInv, DeliverInv, [Next]_vars, MenuInStep', NEW p \in Procs,
         Op(p) = "activate", Returns(p, {"ok"})
  PROVE  Name(p) \in InMenu'
<1>1. Returns(p, {"ok", "warn"})
  BY DEF Returns
<1>2. Name(p) \in Listed'
  BY <1>1, SuccessReported DEF Reported
<1>3. lock' = Nobody
  BY <1>1, SuccessReleases
<1>4. InMenu' = Listed'
  BY <1>3 DEF MenuInStep, InMenu, Listed
<1> QED  BY <1>2, <1>4

\* Likewise for a complete reconcile.
LEMMA ReconcileInStep ==
  ASSUME TypeOK, OpInv, DeliverInv, AlignInv, [Next]_vars, MenuInStep', NEW p \in Procs,
         Op(p) = "reconcile", Returns(p, {"ok"})
  PROVE  \A s \in InMenu' : mirror'[s] # "absent"
<1>1. Returns(p, {"ok", "warn"})
  BY DEF Returns
<1>2. \A s \in Listed' : mirror'[s] # "absent"
  BY <1>1, ReconcileReturns DEF Realigned
<1>3. lock' = Nobody
  BY <1>1, SuccessReleases
<1>4. InMenu' = Listed'
  BY <1>3 DEF MenuInStep, InMenu, Listed
<1> QED  BY <1>2, <1>4

\* README "Activation performs these steps ... 8. Regenerate GRUB config": the
\* entry of a successful activation is in the menu in every behaviour whose menu
\* never stays behind GrubCustom.
LEMMA PublishedInStep ==
  ASSUME NoStartup
  PROVE  Spec /\ []MenuInStep => ActivationPublishes
<1>1. TypeOK /\ OpInv /\ DeliverInv /\ [Next]_vars /\ MenuInStep'
      => [\A p \in Procs :
            (Op(p) = "activate" /\ Returns(p, {"ok"})) => Name(p) \in InMenu']_vars
  BY ActivationInStep
<1> QED
  BY <1>1, TypeCorrect, OperationsRight, OperationsDeliver, NoStartup, PTL
  DEF Spec, ActivationPublishes

\* README "Stale bootloader entries are removed": no entry is without its mirror
\* after a complete reconcile in every behaviour whose menu never stays behind.
LEMMA ReconciledInStep ==
  ASSUME NoStartup
  PROVE  Spec /\ []MenuInStep => ReconcileDropsStale
<1>1. TypeOK /\ OpInv /\ DeliverInv /\ AlignInv /\ [Next]_vars /\ MenuInStep'
      => [\A p \in Procs :
            (Op(p) = "reconcile" /\ Returns(p, {"ok"})) =>
                \A s \in InMenu' : mirror'[s] # "absent"]_vars
  BY ReconcileInStep
<1> QED
  BY <1>1, TypeCorrect, OperationsRight, OperationsDeliver, AlwaysAligned, NoStartup, PTL
  DEF Spec, ReconcileDropsStale

\* The two promises that a crash breaks hold where nothing is torn: a menu left
\* behind GrubCustom is the only way an activation that reports success is not
\* published, however often it is retried and whoever else operates.
THEOREM ActivationPublished ==
  ASSUME Recoverable, NoStartup
  PROVE  Spec => ActivationPublishes
BY PublishedInStep, MenuFollowsCustom, Recoverable, NoStartup, PTL

\* And the only way a complete reconcile leaves a stale entry in the menu.
THEOREM StaleDropped ==
  ASSUME Recoverable, NoStartup
  PROVE  Spec => ReconcileDropsStale
BY ReconciledInStep, MenuFollowsCustom, Recoverable, NoStartup, PTL

=============================================================================
