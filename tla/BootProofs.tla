----------------------------- MODULE BootProofs -----------------------------
(***************************************************************************)
(* What the restore script leaves behind, wherever its boot ends, what it  *)
(* takes for evidence of a recovery, what the entries in the menu boot and *)
(* what becomes of their files and modules, proved for any number of       *)
(* versions, artifacts, names and command lines.                           *)
(***************************************************************************)
EXTENDS BootProperties, SequenceTheorems, WellFoundedInduction, TLAPS

Modes == {"ro", "rw"}
WholeTrees == [Versions -> {"absent", "package", "restored"}]

\* Only a script at work has a staging directory, and publishes a marked one.
StagingInv ==
    /\ phase \in {"off", "identify", "check", "var", "archive", "writable", "stage", "up"}
           => staging = "none"
    /\ phase = "publish" => staging = "marked"

\* The mode is only ever changed from read-only to writable, by a script that
\* knows it has to change it back.
ModeInv ==
    /\ mode \in Modes
    /\ bootMode \in Modes
    /\ demote \in BOOLEAN
    /\ demote => bootMode = "ro"
    /\ phase # "off" /\ phase # "up" /\ ~demote => mode = bootMode
    /\ phase \in {"off", "identify", "check", "var", "archive", "writable"} => ~demote

\* There is no temporary mount before the script looks for /var, and none
\* under mkinitcpio.
MountInv ==
    /\ script \in Scripts
    /\ phase \in Phases
    /\ phase \in {"off", "identify", "check", "var"} => varMount = "none"
    /\ script = "mkinitcpio" =>
           /\ varMount = "none"
           /\ ~demote
           /\ phase \notin {"var", "writable", "release", "exit"}

ScriptInv ==
    /\ trees \in WholeTrees
    /\ StagingInv
    /\ ModeInv
    /\ MountInv
    /\ CleanExit

LEMMA ScriptInit == Init => ScriptInv
BY DEF Init, ScriptInv, WholeTrees, StagingInv, ModeInv, MountInv, CleanExit,
       Modes, Phases

\* Leaving by a message: mkinitcpio's hook is done, dracut's trap has to run.
LEMMA GiveUpInv ==
    ASSUME ScriptInv, GiveUp, phase \in Phases \ {"off", "up", "identify", "check"}
    PROVE  ScriptInv'
BY DEF ScriptInv, GiveUp, End, Dracut, WholeTrees, StagingInv, ModeInv,
       MountInv, CleanExit, Modes, Phases, Scripts

LEMMA IdentifyInv ==
    ASSUME ScriptInv, Identify \/ CheckTarget
    PROVE  ScriptInv'
BY DEF ScriptInv, Identify, CheckTarget, scriptVars, Dracut, WholeTrees,
       StagingInv, ModeInv, MountInv, CleanExit, Modes, Phases, Scripts

LEMMA VarInv ==
    ASSUME ScriptInv, FindVar \/ MountVarFails
    PROVE  ScriptInv'
BY DEF ScriptInv, FindVar, MountVarFails, End, Dracut, WholeTrees, StagingInv,
       ModeInv, MountInv, CleanExit, Modes, Phases, Scripts

LEMMA WritableInv ==
    ASSUME ScriptInv, CheckArchive \/ MakeWritable \/ NotWritable
    PROVE  ScriptInv'
<1>1. CASE CheckArchive
  BY <1>1 DEF CheckArchive, scriptVars, Dracut, ScriptInv, WholeTrees, StagingInv, ModeInv, MountInv, CleanExit, Modes, Phases, Scripts
<1>2. CASE MakeWritable
  <2>1. mode \in Modes /\ bootMode = mode /\ demote = FALSE
    BY <1>2 DEF MakeWritable, ScriptInv, WholeTrees, StagingInv, ModeInv, MountInv, CleanExit, Modes, Phases, Scripts
  <2>2. CASE mode = "ro"
    <3>1. demote' = TRUE
      BY <1>2, <2>2 DEF MakeWritable
    <3>2. QED
      BY <1>2, <2>1, <2>2, <3>1 DEF MakeWritable, ScriptInv, WholeTrees, StagingInv, ModeInv, MountInv, CleanExit, Modes, Phases, Scripts
  <2>3. CASE mode = "rw"
    <3>1. demote' = FALSE
      BY <1>2, <2>1, <2>3 DEF MakeWritable
    <3>2. QED
      BY <1>2, <2>1, <2>3, <3>1 DEF MakeWritable, ScriptInv, WholeTrees, StagingInv, ModeInv, MountInv, CleanExit, Modes, Phases, Scripts
  <2>4. QED
    BY <2>1, <2>2, <2>3 DEF Modes
<1>3. CASE NotWritable
  <2>1. mode \in Modes /\ bootMode = mode /\ demote = FALSE
    BY <1>3 DEF NotWritable, ScriptInv, WholeTrees, StagingInv, ModeInv, MountInv, CleanExit, Modes, Phases, Scripts
  <2>2. demote' = FALSE \/ (demote' = TRUE /\ mode = "ro")
    BY <1>3, <2>1 DEF NotWritable
  <2>3. QED
    BY <1>3, <2>1, <2>2 DEF NotWritable, End, Dracut, ScriptInv, WholeTrees, StagingInv, ModeInv, MountInv, CleanExit, Modes, Phases, Scripts
<1>4. QED
  BY <1>1, <1>2, <1>3

LEMMA StagingStepInv ==
    ASSUME ScriptInv, MakeStaging \/ Unsquash \/ ReleaseVar \/ Mark
    PROVE  ScriptInv'
BY DEF ScriptInv, MakeStaging, Unsquash, ReleaseVar, Mark, Dracut, WholeTrees,
       StagingInv, ModeInv, MountInv, CleanExit, Modes, Phases, Scripts

\* The one step that changes the trees renames a marked directory.
LEMMA PublishInv ==
    ASSUME ScriptInv, Publish
    PROVE  ScriptInv'
BY DEF ScriptInv, Publish, End, Dracut, WholeTrees, StagingInv, ModeInv,
       MountInv, CleanExit, Modes, Phases, Scripts

LEMMA ExitTrapInv ==
    ASSUME ScriptInv, ExitTrap
    PROVE  ScriptInv'
BY DEF ScriptInv, ExitTrap, Unmount, Dracut, WholeTrees, StagingInv, ModeInv,
       MountInv, CleanExit, Modes, Phases, Scripts

LEMMA PowerInv ==
    ASSUME ScriptInv, PowerOff
    PROVE  ScriptInv'
BY DEF ScriptInv, PowerOff, WholeTrees, StagingInv, ModeInv, MountInv,
       CleanExit, Modes, Phases, Scripts

LEMMA StartInv ==
    ASSUME ScriptInv, Boot
    PROVE  ScriptInv'
<1>1. PICK c, v, m : phase = "off" /\ m \in Modes /\ Start(c, v, m)
  BY DEF Boot, BootEntry, BootOrdinary, BootOther, Modes
<1>2. QED
  BY <1>1 DEF ScriptInv, Start, WholeTrees, StagingInv, ModeInv, MountInv,
              CleanExit, Modes, Phases, Scripts

\* A script's failing commands all end by a message.
LEMMA FailsInv ==
    ASSUME ScriptInv,
           \/ RefuseVar \/ ArchiveUnavailable \/ StagingFails \/ UnsquashFails
           \/ ReleaseVarFails \/ MarkFails \/ PublishFails
    PROVE  ScriptInv'
<1>1. GiveUp /\ phase \in Phases \ {"off", "up", "identify", "check"}
  BY DEF RefuseVar, ArchiveUnavailable, StagingFails, UnsquashFails,
         ReleaseVarFails, MarkFails, PublishFails, Phases
<1>2. QED
  BY <1>1, GiveUpInv

\* No operation touches the script, and what one leaves under a version's name
\* is a tree restored whole, one the cleanup spared, or none.
LEMMA UntouchedInv ==
    ASSUME ScriptInv, UNCHANGED <<script, bootVars>>, trees' \in WholeTrees
    PROVE  ScriptInv'
BY DEF ScriptInv, bootVars, StagingInv, ModeInv, MountInv, CleanExit

LEMMA RestoredWhole ==
    ASSUME trees \in WholeTrees, NEW v
    PROVE  Restored(v) \in WholeTrees
BY DEF Restored, WholeTrees

LEMMA CleanedWhole ==
    ASSUME NEW t \in WholeTrees, NEW e, NEW m
    PROVE  CleanedTrees(t, e, m) \subseteq WholeTrees
<1>1. [v \in Versions |-> IF t[v] = "restored" /\ v \notin Protected(e)
                          THEN "absent" ELSE t[v]] \in WholeTrees
  BY DEF WholeTrees
<1>2. QED
  BY <1>1 DEF CleanedTrees

LEMMA OperationInv ==
    ASSUME ScriptInv, BootrecovStep
    PROVE  ScriptInv'
<1>1. trees \in WholeTrees
  BY DEF ScriptInv
<1>2. UNCHANGED <<script, bootVars>>
  BY DEF BootrecovStep, Activate, Deactivate, CleanupElsewhere, Reconcile
<1>3. CASE Activate
  <2>1. \E v : trees' = trees \/ trees' = Restored(v)
    BY <1>3 DEF Activate
  <2>2. QED
    BY <1>1, <1>2, <2>1, RestoredWhole, UntouchedInv
<1>4. CASE Deactivate \/ CleanupElsewhere
  <2>1. trees' \in WholeTrees
    BY <1>1, <1>4, CleanedWhole DEF Deactivate, CleanupElsewhere
  <2>2. QED
    BY <1>2, <2>1, UntouchedInv
<1>5. CASE Reconcile
  <2>1. CASE ReconcileActive
    <3>1. PICK t \in {trees} \cup {Restored(v) : v \in Versions} :
              trees' \in CleanedTrees(t, entry', mirror')
      BY <2>1 DEF ReconcileActive
    <3>2. t \in WholeTrees
      BY <1>1, <3>1, RestoredWhole
    <3>3. QED
      BY <1>2, <3>1, <3>2, CleanedWhole, UntouchedInv
  <2>2. CASE ReconcileInactive
    <3>1. trees' \in WholeTrees
      BY <1>1, <2>2, CleanedWhole DEF ReconcileInactive
    <3>2. QED
      BY <1>2, <3>1, UntouchedInv
  <2>3. QED
    BY <1>5, <2>1, <2>2 DEF Reconcile
<1>6. QED
  BY <1>3, <1>4, <1>5 DEF BootrecovStep

LEMMA OutsideInv ==
    ASSUME ScriptInv, FileChanges \/ MirrorChanges \/ RemovePackage
    PROVE  ScriptInv'
<1>1. UNCHANGED <<script, bootVars>>
  BY DEF FileChanges, MirrorChanges, RemovePackage
<1>2. trees' \in WholeTrees
  BY DEF FileChanges, MirrorChanges, RemovePackage, ScriptInv, WholeTrees
<1>3. QED
  BY <1>1, <1>2, UntouchedInv

LEMMA ScriptStepInv ==
    ASSUME ScriptInv, ScriptStep \/ PowerOff
    PROVE  ScriptInv'
BY FailsInv, IdentifyInv, VarInv, WritableInv, StagingStepInv, PublishInv,
   ExitTrapInv, PowerInv DEF ScriptStep

LEMMA StepInv ==
    ASSUME ScriptInv, [Next]_vars
    PROVE  ScriptInv'
<1>1. CASE UNCHANGED vars
  BY <1>1, UntouchedInv DEF vars, ScriptInv
<1>2. QED
  BY <1>1, OperationInv, OutsideInv, StartInv, ScriptStepInv DEF Next, DuringBoot

LEMMA ScriptInvHolds == Spec => []ScriptInv
BY ScriptInit, StepInv, PTL DEF Spec

\* Whatever fails and wherever the power goes, only whole and marked trees, or
\* a package's, stand under a version's name: extraction goes by a staging
\* directory, and the rename is the last thing the script does.
THEOREM TreesAreWhole == Spec => []TreesWhole
<1>1. ScriptInv => TreesWhole
  BY DEF ScriptInv, WholeTrees, TreesWhole
<1>2. QED
  BY <1>1, ScriptInvHolds, PTL

\* A boot goes on with nothing of the script's left mounted, staged or
\* writable, or after a failing exit status.
THEOREM BootsCleanly == Spec => []CleanExit
<1>1. ScriptInv => CleanExit
  BY DEF ScriptInv
<1>2. QED
  BY <1>1, ScriptInvHolds, PTL

-----------------------------------------------------------------------------
(* What a boot is taken for.                                               *)

LEMMA NotEmpty ==
    ASSUME NEW S, NEW q \in Seq(S), q # <<>>
    PROVE  Len(q) >= 1
OBVIOUS

LEMMA OneElement ==
    ASSUME NEW S, NEW q \in Seq(S), q # <<>>, ~(Len(q) > 1)
    PROVE  Len(q) = 1
<1> DEFINE k == Len(q)
<1>1. k \in Nat \ {0} /\ ~(k > 1)
  BY EmptySeq
<1> HIDE DEF k
<1>2. k = 1
  BY <1>1
<1>3. QED
  BY <1>2 DEF k

LEMMA Single ==
    ASSUME NEW S, NEW e \in S
    PROVE  <<e>> \in Seq(S) /\ Len(<<e>>) = 1 /\ <<e>> # <<>>
OBVIOUS

LEMMA ImageIsPath ==
    ASSUME NEW c \in Cmdlines
    PROVE  Image(c) \in Paths /\ Len(Image(c)) >= 1
<1>1. CASE ~HasImage(c)
  <2>1. <<NoName>> \in Seq(Words) /\ Len(<<NoName>>) = 1 /\ <<NoName>> # <<>>
    BY IdentityConstants, Single
  <2>2. Image(c) = <<NoName>>
    BY <1>1 DEF Image
  <2>3. QED
    BY <2>1, <2>2 DEF Paths
<1>2. CASE HasImage(c)
  <2>1. c.image \in Seq(Paths) /\ Len(c.image) \in 1..Len(c.image)
    BY <1>2 DEF HasImage, Cmdlines
  <2>2. Image(c) \in Paths
    BY <1>2, <2>1 DEF Image
  <2>3. QED
    BY <2>2, NotEmpty DEF Paths
<1>3. QED
  BY <1>1, <1>2

\* A name below the mirror is the directory of the image, right in the mirror.
LEMMA MirrorEvidence ==
    ASSUME NEW path \in Paths, Len(path) >= 1, Len(BelowMirror(path)) = 2
    PROVE  /\ Len(path) >= 4
           /\ path[Len(path) - 1] = BelowMirror(path)[1]
           /\ path[Len(path) - 2] \in MirrorDirs
<1> DEFINE v == Visible(path)
           dir == IF Under(v, MirrorRoot) THEN MirrorRoot ELSE MirrorVisible
<1>1. path \in Seq(Words) /\ v \in Seq(Words) /\ dir \in Seq(Words)
  <2>1. path \in Seq(Words) /\ path # <<>>
    BY DEF Paths
  <2>2. v \in Seq(Words)
    BY <2>1, HeadTailProperties DEF Visible
  <2>3. QED
    BY <2>1, <2>2, IdentityConstants
<1>2. Under(v, dir) /\ BelowMirror(path) = SubSeq(v, Len(dir) + 1, Len(v))
  <2>1. BelowMirror(path) = IF Under(v, dir) THEN SubSeq(v, Len(dir) + 1, Len(v)) ELSE <<>>
    BY DEF BelowMirror
  <2>2. BelowMirror(path) # <<>>
    OBVIOUS
  <2>3. QED
    BY <2>1, <2>2
<1>3. Len(dir) >= 1 /\ Len(v) > Len(dir) /\ SubSeq(v, 1, Len(dir)) = dir
  BY <1>1, <1>2 DEF Under
<1>4. Len(v) = Len(dir) + 2
  <2>1. Len(dir) \in Nat /\ Len(v) \in Nat
    BY <1>1, LenProperties
  <2>2. Len(SubSeq(v, Len(dir) + 1, Len(v))) = Len(v) - Len(dir)
    <3> HIDE DEF v, dir
    <3>1. QED
      BY <1>1, <1>3, <2>1
  <2>3. QED
    BY <1>2, <2>1, <2>2
<1>5. BelowMirror(path)[1] = v[Len(v) - 1] /\ dir[Len(dir)] = v[Len(v) - 2]
  BY <1>1, <1>2, <1>3, <1>4
<1>6. v = Tail(path) /\ Len(path) = Len(v) + 1
  BY <1>1, <1>3, <1>4 DEF Visible
<1>7. path[Len(path) - 1] = v[Len(v) - 1] /\ path[Len(path) - 2] = v[Len(v) - 2]
  BY <1>1, <1>3, <1>4, <1>6
<1>8. dir[Len(dir)] \in MirrorDirs
  BY <1>3 DEF MirrorDirs
<1>9. QED
  BY <1>1, <1>3, <1>4, <1>5, <1>6, <1>7, <1>8

LEMMA LegacyEvidence ==
    ASSUME NEW path \in Paths, LegacyName(path) # NoName
    PROVE  /\ LegacyName(path) = DirName(path)
           /\ Len(path) >= 4
           /\ path[Len(path) - 1] = LegacyName(path)
           /\ path[Len(path) - 2] \in MirrorDirs
<1>1. PICK i \in 2..Len(path) - 1 : path[i] = LegacyDir /\ Len(path) = i + 2
  BY DEF LegacyName
<1>2. LegacyName(path) = DirName(path)
  BY DEF LegacyName
<1>3. path \in Seq(Words)
  BY DEF Paths
<1>4. Len(path) >= 4 /\ Len(path) - 2 = i
  BY <1>1, <1>3
<1>5. QED
  BY <1>1, <1>2, <1>3, <1>4 DEF DirName, MirrorDirs

LEMMA IdentityEvidence ==
    ASSUME NEW s, NEW c \in Cmdlines, Identity(s, c).name # NoName
    PROVE  Evidence(c, Identity(s, c).name)
<1> DEFINE n == NameIn(s, c)
           path == Image(c)
<1>1. Identity(s, c).name = n /\ ~Refused(s, c) /\ n \in Names /\ n # NoName
  BY IdentityConstants DEF Identity, NoName
<1>2. path \in Paths /\ Len(path) >= 1
  BY ImageIsPath
<1>3. c.entry \in Seq(Words) /\ c.snap \in Seq(Words) /\ c.image \in Seq(Paths)
  BY DEF Cmdlines
<1>4. Len(c.entry) <= 1 /\ Len(c.snap) <= 1 /\ Len(c.image) <= 1
  BY <1>1, <1>3 DEF Refused
<1>5. CASE c.snap # <<>>
  <2>1. Len(c.snap) = 1 /\ n = c.snap[1]
    <3>1. Len(c.snap) = 1
      BY <1>1, <1>3, <1>5, OneElement DEF Refused
    <3>2. QED
      BY <1>5, <3>1 DEF NameIn
  <2>2. HasEntry(c) /\ DirName(path) \in {NoName, n}
    BY <1>1, <2>1 DEF Refused
  <2>3. Range(c.snap) = {n}
    BY <1>3, <2>1 DEF Range
  <2>4. NamesOnly(c, n)
    BY <2>2, <2>3 DEF NamesOnly
  <2>5. QED
    BY <1>1, <1>4, <2>2, <2>4 DEF Evidence
<1>6. CASE c.snap = <<>>
  <2>1. Range(c.snap) = {}
    BY <1>6 DEF Range
  <2>2. DirName(path) = n => NamesOnly(c, n)
    BY <1>1, <2>1 DEF NamesOnly
  <2>3. CASE HasEntry(c) /\ DirName(path) # NoName
    <3>1. n = DirName(path)
      BY <1>6, <2>3 DEF NameIn
    <3>2. QED
      BY <1>1, <1>4, <2>2, <2>3, <3>1 DEF Evidence
  <2>4. CASE LegacyName(path) # NoName /\ ~(HasEntry(c) /\ DirName(path) # NoName)
    <3>1. n = LegacyName(path)
      BY <1>6, <2>4 DEF NameIn
    <3>2. QED
      BY <1>1, <1>2, <1>4, <2>2, <2>4, <3>1, LegacyEvidence DEF Evidence
  <2>5. CASE LegacyName(path) = NoName /\ ~(HasEntry(c) /\ DirName(path) # NoName)
    <3>1. ByMirror(s, c) /\ Len(BelowMirror(path)) = 2 /\ n = BelowMirror(path)[1]
      BY <1>1, <1>6, <2>5 DEF NameIn
    <3>2. /\ Len(path) >= 4
          /\ path[Len(path) - 1] = n
          /\ path[Len(path) - 2] \in MirrorDirs
      BY <1>2, <3>1, MirrorEvidence
    <3>3. DirName(path) = n
      BY <1>2, <3>2 DEF DirName, Paths
    <3>4. QED
      BY <1>1, <1>4, <2>2, <3>2, <3>3 DEF Evidence
  <2>6. QED
    BY <2>3, <2>4, <2>5
<1>7. QED
  BY <1>5, <1>6

EntryWords == [entry : Seq(Words), snap : Seq(Words)]

\* A name comes from the command line of this very boot.
NameInv ==
    /\ cmdline \in Cmdlines
    /\ Listed => entry.words \in EntryWords
    /\ phase \in {"off", "identify"} => name = NoName
    /\ OnlyStatedName

LEMMA NameInit == Init => NameInv
BY CmdlinesWellFormed DEF Init, NameInv, Listed, OnlyStatedName

LEMMA NewEntryWords == NewEntry.words \in EntryWords
<1>1. Ours \in Words /\ Snapshot \in Words
  BY IdentityConstants, SnapshotIsNamed
<1>2. Append(<<>>, Ours) = <<Ours>> /\ Append(<<>>, Snapshot) = <<Snapshot>>
  OBVIOUS
<1>3. <<Ours>> \in Seq(Words) /\ <<Snapshot>> \in Seq(Words)
  BY <1>1, Single
<1>4. QED
  BY <1>2, <1>3 DEF NewEntry, RecoveryWords, CurrentWords, EntryWords

\* The boot loader's own word on the image it loads is well formed.
LEMMA ImagePathWords ==
    ASSUME NEW k \in Artifacts
    PROVE  <<ImagePath(k)>> \in Seq(Paths)
<1>1. NoName \in Words /\ Snapshot \in Words /\ k[1] \in Words /\ MirrorVisible \in Seq(Words)
  BY IdentityConstants, SnapshotIsNamed, CmdlinesWellFormed
<1>2. <<NoName>> \in Seq(Words) /\ <<Snapshot, k[1]>> \in Seq(Words)
  BY <1>1
<1>3. ImagePath(k) \in Seq(Words) /\ Len(ImagePath(k)) = Len(MirrorVisible) + 3
  BY <1>1, <1>2, ConcatProperties DEF ImagePath
<1>4. ImagePath(k) # <<>>
  BY <1>1, <1>3, LenProperties, EmptySeq
<1>5. QED
  BY <1>3, <1>4, Single DEF Paths

LEMMA NoCmdlineInv == NoCmdline \in Cmdlines
BY EmptySeq DEF NoCmdline, Cmdlines

LEMMA EntryCmdlinesInv ==
    ASSUME NameInv, EntryLoads
    PROVE  EntryCmdlines \subseteq Cmdlines
<1>1. entry.words.entry \in Seq(Words) /\ entry.words.snap \in Seq(Words)
  BY DEF NameInv, EntryLoads, EntryWords
<1>2. <<ImagePath(entry.pair.kernel)>> \in Seq(Paths)
  BY ImagePathWords DEF EntryLoads, AllUsable, Usable
<1>3. <<>> \in Seq(Words)
  BY EmptySeq
<1> DEFINE whole == [entry |-> entry.words.entry, snap |-> entry.words.snap,
                     image |-> <<ImagePath(entry.pair.kernel)>>]
<1>4. whole \in Cmdlines
  BY <1>1, <1>2 DEF Cmdlines
<1> HIDE DEF whole
<1>5. [whole EXCEPT !.snap = <<>>] \in Cmdlines
  BY <1>3, <1>4 DEF Cmdlines
<1>6. [whole EXCEPT !.snap = <<>>, !.entry = <<>>] \in Cmdlines
  BY <1>3, <1>4 DEF Cmdlines
<1>7. QED
  BY <1>4, <1>5, <1>6 DEF EntryCmdlines, whole

\* The script settles on a name once, by the parameters of its boot.
LEMMA NameScriptInv ==
    ASSUME NameInv, ScriptStep, UNCHANGED menuVars
    PROVE  NameInv'
<1>1. CASE Identify
  <2>1. name' = Identity(script, cmdline).name /\ cmdline' = cmdline /\ phase' \in {"up", "check"}
    BY <1>1 DEF Identify
  <2>2. name' # NoName => Evidence(cmdline, name')
    BY <2>1, IdentityEvidence DEF NameInv
  <2>3. OnlyStatedName'
    BY <2>1, <2>2 DEF OnlyStatedName, Evidence, NamesOnly, HasEntry, Image, HasImage, DirName, MirrorDirs
  <2>4. QED
    BY <2>1, <2>3 DEF NameInv, menuVars, Listed
<1>2. CASE ~Identify
  <2>1. UNCHANGED <<name, cmdline>> /\ phase' \notin {"off", "identify"}
    BY <1>2 DEF ScriptStep, CheckTarget, FindVar, RefuseVar, MountVarFails,
       CheckArchive, ArchiveUnavailable, MakeWritable, NotWritable, MakeStaging,
       StagingFails, Unsquash, UnsquashFails, ReleaseVar, ReleaseVarFails, Mark,
       MarkFails, Publish, PublishFails, ExitTrap, GiveUp, End, scriptVars, Dracut
  <2>2. QED
    BY <2>1 DEF NameInv, OnlyStatedName, menuVars, Listed
<1>3. QED
  BY <1>1, <1>2

LEMMA NameStartInv ==
    ASSUME NameInv, Boot
    PROVE  NameInv'
<1>1. PICK c, v, m : phase = "off" /\ c \in Cmdlines /\ Start(c, v, m)
  BY EntryCmdlinesInv, CmdlinesWellFormed DEF Boot, BootEntry, BootOrdinary, BootOther
<1>2. name' = NoName /\ cmdline' \in Cmdlines /\ UNCHANGED entry
  BY <1>1 DEF Start, NameInv, Boot, menuVars
<1>3. QED
  BY <1>2 DEF NameInv, Listed, OnlyStatedName

LEMMA NamePowerInv ==
    ASSUME NameInv, PowerOff, UNCHANGED menuVars
    PROVE  NameInv'
<1>1. name' = NoName /\ cmdline' \in Cmdlines /\ UNCHANGED entry
  BY NoCmdlineInv DEF PowerOff, menuVars
<1>2. QED
  BY <1>1 DEF NameInv, Listed, OnlyStatedName

\* What is not a boot leaves the boot alone, and an entry is as it was, new or
\* gone.
LEMMA NameUntouchedInv ==
    ASSUME NameInv, UNCHANGED bootVars, entry' \in {entry, NewEntry, NoEntry}
    PROVE  NameInv'
<1>1. Listed' => entry'.words \in EntryWords
  BY NewEntryWords DEF NameInv, Listed
<1>2. QED
  BY <1>1 DEF NameInv, OnlyStatedName, bootVars

LEMMA NameStepInv ==
    ASSUME NameInv, [Next]_vars
    PROVE  NameInv'
<1>1. CASE UNCHANGED vars
  BY <1>1, NameUntouchedInv DEF vars, menuVars
<1>2. CASE BootrecovStep
  <2>1. UNCHANGED bootVars
    BY <1>2 DEF BootrecovStep, Activate, Deactivate, CleanupElsewhere, Reconcile
  <2>2. entry' \in {entry, NewEntry, NoEntry}
    BY <1>2 DEF BootrecovStep, Activate, Deactivate, CleanupElsewhere, Reconcile,
                ReconcileActive, ReconcileInactive, menuVars
  <2>3. QED
    BY <2>1, <2>2, NameUntouchedInv
<1>3. CASE FileChanges \/ MirrorChanges \/ RemovePackage
  <2>1. UNCHANGED bootVars /\ UNCHANGED entry
    BY <1>3 DEF FileChanges, MirrorChanges, RemovePackage, menuVars
  <2>2. QED
    BY <2>1, NameUntouchedInv
<1>4. CASE Boot
  BY <1>4, NameStartInv
<1>5. CASE DuringBoot
  BY <1>5, NameScriptInv, NamePowerInv DEF DuringBoot
<1>6. QED
  BY <1>1, <1>2, <1>3, <1>4, <1>5 DEF Next

\* Whatever the command line of a boot, the script restores modules of a
\* snapshot only if it says so without ambiguity and names no other one.
THEOREM NamesAreStated == Spec => []OnlyStatedName
<1>1. NameInv => OnlyStatedName
  BY DEF NameInv
<1>2. QED
  BY <1>1, NameInit, NameStepInv, PTL DEF Spec

-----------------------------------------------------------------------------
(* What findKernelAndInitramfs selects.                                    *)

Kernels == {Kernel(f) : f \in Families}
Pairs == UNION {{Kernel(f)} \X (InitKinds \X {f}) : f \in Families}

LEMMA MinOfSome ==
    ASSUME NEW S, S \subseteq Nat, S # {}
    PROVE  Min(S) \in S /\ \A i \in S : Min(S) <= i
<1>1. PICK x \in S : \A y \in S : ~(<<y, x>> \in OpToRel(<, Nat))
  BY WFMin, NatLessThanWellFounded, Zenon
<1>2. \A y \in S : x <= y
  <2> SUFFICES ASSUME NEW y \in S PROVE x <= y
    OBVIOUS
  <2>1. ~(y < x)
    BY <1>1 DEF OpToRel
  <2> QED  BY <2>1
<1>3. \E z \in S : \A y \in S : z <= y
  BY <1>2
<1> QED  BY <1>3 DEF Min

LEMMA GlobbedTyped == Globbed \in Seq(Families) /\ Len(Globbed) \in Nat
<1>1. FileVersions \in Seq(Families) /\ "linux" \in Families
  BY VersionsOK DEF Families
<1> QED  BY <1>1, AppendProperties, LenProperties DEF Globbed

LEMMA PairOrderTyped == PairOrder \in Seq(Pairs)
<1> DEFINE tail == [i \in 1..3 * Len(Globbed) |->
                       <<Kernel(Globbed[(i + 2) \div 3]),
                         <<InitOrder[((i - 1) % 3) + 1], Globbed[(i + 2) \div 3]>>>>]
           front == <<<<Kernel("linux"), <<"initramfs", "linux">>>>,
                      <<Kernel("plain"), <<"initrd", "plain">>>>>>
<1>1. front \in Seq(Pairs)
  <2>1. {"linux", "plain"} \subseteq Families /\ {"initramfs", "initrd"} \subseteq InitKinds
    BY DEF Families, InitKinds
  <2>2. <<Kernel("linux"), <<"initramfs", "linux">>>> \in Pairs
        /\ <<Kernel("plain"), <<"initrd", "plain">>>> \in Pairs
    BY <2>1 DEF Pairs, Kernels
  <2> QED  BY <2>2
<1>2. tail \in Seq(Pairs)
  <2>1. \A i \in 1..3 * Len(Globbed) : tail[i] \in Pairs
    <3> SUFFICES ASSUME NEW i \in 1..3 * Len(Globbed) PROVE tail[i] \in Pairs
      OBVIOUS
    <3>1. (i + 2) \div 3 \in 1..Len(Globbed)
      BY GlobbedTyped
    <3>2. Globbed[(i + 2) \div 3] \in Families
      BY <3>1, GlobbedTyped
    <3>3. ((i - 1) % 3) + 1 \in 1..3
      BY GlobbedTyped
    <3>4. InitOrder[((i - 1) % 3) + 1] \in InitKinds
      BY <3>3 DEF InitOrder, InitKinds
    <3> QED  BY <3>2, <3>4 DEF Pairs, Kernels
  <2>2. 3 * Len(Globbed) \in Nat
    BY GlobbedTyped
  <2> QED  BY <2>1, <2>2
<1>3. PairOrder = front \o tail
  BY DEF PairOrder
<1> QED  BY <1>1, <1>2, <1>3, ConcatProperties

LEMMA LoneKernelsTyped == LoneKernels \in Seq(Kernels)
<1>1. <<Kernel("linux"), Kernel("plain")>> \in Seq(Kernels)
  <2>1. Kernel("linux") \in Kernels /\ Kernel("plain") \in Kernels
    BY DEF Kernels, Families
  <2> QED  BY <2>1
<1>2. [i \in 1..Len(Globbed) |-> Kernel(Globbed[i])] \in Seq(Kernels)
  <2>1. \A i \in 1..Len(Globbed) : Kernel(Globbed[i]) \in Kernels
    BY GlobbedTyped DEF Kernels
  <2> QED  BY <2>1, GlobbedTyped
<1> QED  BY <1>1, <1>2, ConcatProperties DEF LoneKernels

\* An image an entry names is that of a kernel, if there is one.
KernelOrNone == Kernels \cup {NoFile}

LEMMA SelectedKernel ==
    ASSUME NEW d
    PROVE  Selected(d).kernel \in KernelOrNone
<1> DEFINE pairs == {i \in DOMAIN PairOrder : IsPair(d, PairOrder[i])}
           kernels == {i \in DOMAIN LoneKernels : There(d, LoneKernels[i])}
<1>1. Selected(d).kernel = IF pairs # {} THEN PairOrder[Min(pairs)][1]
                           ELSE IF kernels # {} THEN LoneKernels[Min(kernels)] ELSE NoFile
  BY DEF Selected
<1>2. pairs # {} => PairOrder[Min(pairs)] \in Pairs
  <2>1. pairs \subseteq Nat /\ DOMAIN PairOrder = 1..Len(PairOrder)
    BY PairOrderTyped
  <2>2. pairs # {} => Min(pairs) \in pairs
    BY <2>1, MinOfSome
  <2> QED  BY <2>1, <2>2, PairOrderTyped
<1>3. kernels # {} => LoneKernels[Min(kernels)] \in Kernels
  <2>1. kernels \subseteq Nat /\ DOMAIN LoneKernels = 1..Len(LoneKernels)
    BY LoneKernelsTyped
  <2>2. kernels # {} => Min(kernels) \in kernels
    BY <2>1, MinOfSome
  <2> QED  BY <2>1, <2>2, LoneKernelsTyped
<1>4. \A p \in Pairs : p[1] \in Kernels
  BY DEF Pairs, Kernels
<1> QED  BY <1>1, <1>2, <1>3, <1>4 DEF KernelOrNone

\* findKernelAndInitramfs gives an initramfs if there is one that belongs to a
\* kernel, and never one that belongs to another kernel (backups.go:1490).
THEOREM SelectionIsPair ==
    ASSUME NEW d
    PROVE  LET sel == Selected(d) IN
           /\ sel.init # NoFile =>
                  /\ IsPair(d, <<sel.kernel, sel.init>>)
                  /\ \E f \in Families : sel.kernel = Kernel(f) /\ sel.init \in InitKinds \X {f}
           /\ (\E i \in DOMAIN PairOrder : IsPair(d, PairOrder[i])) => sel.init # NoFile
<1> DEFINE pairs == {i \in DOMAIN PairOrder : IsPair(d, PairOrder[i])}
           sel == Selected(d)
<1>1. /\ pairs # {} => sel.kernel = PairOrder[Min(pairs)][1] /\ sel.init = PairOrder[Min(pairs)][2]
      /\ pairs = {} => sel.init = NoFile
  BY DEF Selected
<1>2. pairs # {} => Min(pairs) \in pairs
  <2>1. pairs \subseteq Nat
    BY PairOrderTyped
  <2> QED  BY <2>1, MinOfSome
<1>3. ASSUME pairs # {}
      PROVE  /\ IsPair(d, <<sel.kernel, sel.init>>)
             /\ \E f \in Families : sel.kernel = Kernel(f) /\ sel.init \in InitKinds \X {f}
             /\ sel.init # NoFile
  <2>1. PairOrder[Min(pairs)] \in Pairs /\ IsPair(d, PairOrder[Min(pairs)])
    BY <1>2, <1>3, PairOrderTyped
  <2>2. PICK f \in Families : PairOrder[Min(pairs)] \in {Kernel(f)} \X (InitKinds \X {f})
    BY <2>1 DEF Pairs
  <2>3. /\ PairOrder[Min(pairs)] = <<sel.kernel, sel.init>>
        /\ sel.kernel = Kernel(f) /\ sel.init \in InitKinds \X {f}
    BY <1>1, <1>3, <2>2
  <2> QED  BY <2>1, <2>2, <2>3 DEF NoFile, InitKinds
<1> QED  BY <1>1, <1>3

-----------------------------------------------------------------------------
(* What is stored, mirrored and listed.                                    *)

StoreInv ==
    /\ content \in Contents
    /\ files \in Directories
    /\ mirror \in Directories \cup {NoMirror}
    /\ Listed => entry.pair.kernel \in KernelOrNone

LEMMA StoreInit == Init => StoreInv
BY StoreOK DEF Init, StoreInv, Listed

LEMMA PartCopiesTyped ==
    ASSUME StoreInv
    PROVE  PartCopies \subseteq Directories \cup {NoMirror}
BY DEF StoreInv, PartCopies, HasMirror, Directories

LEMMA StoreOperationInv ==
    ASSUME StoreInv, BootrecovStep
    PROVE  StoreInv'
<1>1. UNCHANGED <<content, files>>
  BY DEF BootrecovStep, Activate, Deactivate, CleanupElsewhere, Reconcile, storeVars
<1>2. entry' \in {entry, NewEntry, NoEntry}
  BY DEF BootrecovStep, Activate, Deactivate, CleanupElsewhere, Reconcile,
         ReconcileActive, ReconcileInactive, menuVars
<1>3. mirror' \in {mirror, files, NoMirror} \cup PartCopies
  <2>1. CASE Activate
    BY <2>1 DEF Activate
  <2>2. CASE Deactivate \/ CleanupElsewhere \/ ReconcileInactive
    BY <2>2 DEF Deactivate, CleanupElsewhere, menuVars, ReconcileInactive
  <2>3. CASE ReconcileActive
    BY <2>3 DEF ReconcileActive, OldPair, Unidentified, InvalidSnapshot, ModulesUnavailable, Refresh
  <2> QED  BY <2>1, <2>2, <2>3 DEF BootrecovStep, Reconcile
<1>4. Listed' => entry'.pair.kernel \in KernelOrNone
  <2>1. NewEntry.pair.kernel \in KernelOrNone
    BY SelectedKernel DEF NewEntry
  <2> QED  BY <1>2, <2>1 DEF StoreInv, Listed
<1> QED  BY <1>1, <1>3, <1>4, PartCopiesTyped DEF StoreInv

LEMMA StoreStepInv ==
    ASSUME StoreInv, [Next]_vars
    PROVE  StoreInv'
<1>1. CASE BootrecovStep
  BY <1>1, StoreOperationInv
<1>2. CASE FileChanges
  BY <1>2 DEF FileChanges, StoreInv, Directories, menuVars, Listed
<1>3. CASE MirrorChanges
  BY <1>3 DEF MirrorChanges, StoreInv, Directories, Conditions, storeVars, HasMirror, Listed
<1>4. CASE RemovePackage \/ Boot \/ DuringBoot \/ UNCHANGED vars
  BY <1>4 DEF RemovePackage, Boot, DuringBoot, vars, StoreInv, storeVars, menuVars, Listed
<1> QED  BY <1>1, <1>2, <1>3, <1>4 DEF Next

LEMMA StoreAlways == Spec => []StoreInv
BY StoreInit, StoreStepInv, PTL DEF Spec

\* A kernel image that is there has its content.
LEMMA ContentTyped ==
    ASSUME StoreInv, NEW d, NEW k \in KernelOrNone, Usable(d, k)
    PROVE  k # NoFile /\ content[k[2]] \in [version : Versions, told : BOOLEAN]
<1>1. k \in Artifacts
  BY DEF Usable
<1>2. NoFile \notin Artifacts
  BY ArtifactsWellFormed DEF ArtifactsWellFormed, NoFile, Kernel, Microcode, InitKinds
<1>3. PICK f \in Families : k = Kernel(f)
  BY <1>1, <1>2 DEF KernelOrNone, Kernels
<1>4. f \in KernelFamilies /\ k[2] = f
  BY <1>1, <1>3 DEF KernelFamilies, Kernel
<1> QED  BY <1>1, <1>2, <1>4 DEF StoreInv, Contents

LEMMA VersionTyped ==
    ASSUME StoreInv, NEW d, NEW sel, sel.kernel \in KernelOrNone
    PROVE  Version(d, sel) \in Versions \cup {Unknown}
<1>1. Usable(d, sel.kernel) => content[sel.kernel[2]] \in [version : Versions, told : BOOLEAN]
  BY ContentTyped
<1> QED  BY <1>1 DEF Version, KernelVersion

-----------------------------------------------------------------------------
(* What an entry that stays boots.                                         *)

\* The cleanup removes something only if it knows which pair the entry loads,
\* and then not the modules of that pair.
LEMMA CleanupSparesPair ==
    ASSUME NEW e, e # NoEntry, NEW m, NEW t \in WholeTrees, NEW u \in CleanedTrees(t, e, m),
           NEW v \in Versions,
           v = Version(files, e.pair) \/ v = content[e.pair.kernel[2]].version
    PROVE  u[v] = t[v]
<1>1. CASE u = t
  BY <1>1
<1>2. CASE u # t
  <2>1. /\ EntryExplained(e, m)
        /\ u = [w \in Versions |-> IF t[w] = "restored" /\ w \notin Protected(e)
                                  THEN "absent" ELSE t[w]]
    BY <1>2 DEF CleanedTrees
  <2>2. e.pair = Selected(files)
    BY <2>1 DEF EntryExplained
  <2>3. v \in Protected(e)
    BY <2>2 DEF Protected
  <2> QED  BY <2>1, <2>3
<1> QED  BY <1>1, <1>2

LEMMA CleanupSparesOtherPair ==
    ASSUME NEW e, e # NoEntry, NEW m, NEW t, NEW u \in CleanedTrees(t, e, m),
           e.pair # Selected(files) \/ Version(files, e.pair) = Unknown
    PROVE  u = t
BY DEF CleanedTrees, EntryExplained

LEMMA RestoredPresent ==
    ASSUME trees \in WholeTrees, NEW v, NEW w \in Versions
    PROVE  /\ trees[w] # "absent" => Restored(v)[w] # "absent"
           /\ Restored(w)[w] # "absent"
BY DEF WholeTrees, Restored

\* What a refresh that fails leaves of two complete directories is complete.
LEMMA PartCopiesUsable ==
    ASSUME NEW m \in PartCopies, NEW sel, HasMirror, AllUsable(files, sel), AllUsable(mirror, sel)
    PROVE  AllUsable(m, sel)
<1>1. PICK copied : m = [a \in Artifacts |-> IF a \in copied THEN files[a] ELSE mirror[a]]
  BY DEF PartCopies
<1>2. \A a : Usable(files, a) /\ Usable(mirror, a) => Usable(m, a)
  BY <1>1 DEF Usable
<1> QED  BY <1>2 DEF AllUsable

LEMMA BootsTyped ==
    ASSUME StoreInv, EntryLoads
    PROVE  Boots \in Versions
<1>1. Usable(mirror, entry.pair.kernel) /\ entry.pair.kernel \in KernelOrNone
  BY DEF StoreInv, EntryLoads, AllUsable
<1> QED  BY <1>1, ContentTyped DEF Boots

\* In short: what boots with its modules does so still.
BootsWell == EntryLoads /\ Present(Boots)

LEMMA ReconcileKeeps ==
    ASSUME StoreInv, trees \in WholeTrees, BootsWell, entry' = entry, Reconcile
    PROVE  BootsWell'
<1>1. Listed /\ HasMirror /\ AllUsable(mirror, entry.pair) /\ UNCHANGED <<content, files>>
  BY DEF BootsWell, EntryLoads, Reconcile, storeVars
<1>2. PICK t \in {trees} \cup {Restored(v) : v \in Versions}, keep \in BOOLEAN :
          /\ \/ OldPair(t, keep)
             \/ Unidentified(t, keep)
             \/ InvalidSnapshot(t, keep)
             \/ ModulesUnavailable(t, keep)
             \/ Refresh(t, keep)
          /\ entry' = IF keep THEN entry ELSE NoEntry
          /\ trees' \in CleanedTrees(t, entry', mirror')
  BY <1>1 DEF Reconcile, ReconcileActive
<1>3. Boots \in Versions /\ trees[Boots] # "absent"
  BY BootsTyped DEF BootsWell, Present
<1>4. t \in WholeTrees /\ t[Boots] # "absent"
  BY <1>2, <1>3, RestoredWhole, RestoredPresent
<1>5. keep
  BY <1>1, <1>2 DEF Listed
<1>6. trees'[Boots] = t[Boots]
  BY <1>1, <1>2, <1>3, <1>4, CleanupSparesPair DEF Listed, Boots
<1>7. HasMirror' /\ AllUsable(mirror', entry.pair)
  <2>1. CASE UNCHANGED mirror
    BY <1>1, <2>1 DEF HasMirror
  <2>2. CASE Refresh(t, keep)
    <3>1. AllUsable(files, entry.pair) /\ mirror' \in {files} \cup PartCopies
      BY <2>2 DEF Refresh
    <3>2. mirror' \in Directories
      BY <1>1, <3>1 DEF StoreInv, PartCopies, HasMirror, Directories
    <3> QED  BY <1>1, <3>1, <3>2, PartCopiesUsable, StoreOK DEF HasMirror
  <2> QED  BY <1>2, <2>1, <2>2 DEF OldPair, Unidentified, InvalidSnapshot, ModulesUnavailable
<1> QED  BY <1>1, <1>3, <1>4, <1>6, <1>7 DEF BootsWell, EntryLoads, Listed, Boots, Present

LEMMA ActivateKeeps ==
    ASSUME StoreInv, trees \in WholeTrees, BootsWell, entry' = entry, Activate
    PROVE  BootsWell'
<1>1. Listed /\ HasMirror /\ AllUsable(mirror, entry.pair) /\ UNCHANGED <<content, files>>
  BY DEF BootsWell, EntryLoads, Activate, storeVars
<1>2. AllUsable(files, entry.pair) /\ mirror' \in {mirror, files} \cup PartCopies
  BY <1>1 DEF Activate
<1>3. mirror' \in Directories
  BY <1>1, <1>2 DEF StoreInv, PartCopies, HasMirror, Directories
<1>4. HasMirror' /\ AllUsable(mirror', entry.pair)
  BY <1>1, <1>2, <1>3, PartCopiesUsable, StoreOK DEF HasMirror
<1>5. PICK v : trees' = trees \/ trees' = Restored(v)
  BY DEF Activate
<1>6. Boots \in Versions /\ trees[Boots] # "absent"
  BY BootsTyped DEF BootsWell, Present
<1>7. trees'[Boots] # "absent"
  BY <1>5, <1>6, RestoredPresent
<1> QED  BY <1>1, <1>4, <1>7 DEF BootsWell, EntryLoads, Listed, Boots, Present

LEMMA CleanupKeeps ==
    ASSUME StoreInv, trees \in WholeTrees, BootsWell, CleanupElsewhere
    PROVE  BootsWell'
<1>1. Listed /\ UNCHANGED <<content, files, mirror, entry>> /\ trees' \in CleanedTrees(trees, entry, mirror)
  BY DEF BootsWell, EntryLoads, CleanupElsewhere, storeVars, menuVars
<1>2. Boots \in Versions
  BY BootsTyped DEF BootsWell
<1>3. trees'[Boots] = trees[Boots]
  BY <1>1, <1>2, CleanupSparesPair DEF Listed, Boots
<1> QED  BY <1>1, <1>3 DEF BootsWell, EntryLoads, Listed, HasMirror, Boots, Present

\* The script adds trees, and takes none away.
LEMMA BootKeeps ==
    ASSUME StoreInv, trees \in WholeTrees, BootsWell, Boot \/ DuringBoot
    PROVE  BootsWell'
<1>1. UNCHANGED <<content, mirror, entry>>
  BY DEF Boot, DuringBoot, storeVars, menuVars
<1>2. trees' = trees \/ Publish
  BY DEF Boot, BootEntry, BootOrdinary, BootOther, Start, DuringBoot, ScriptStep, PowerOff,
     Identify, CheckTarget, FindVar, RefuseVar, MountVarFails, CheckArchive, ArchiveUnavailable,
     MakeWritable, NotWritable, MakeStaging, StagingFails, Unsquash, UnsquashFails, ReleaseVar,
     ReleaseVarFails, Mark, MarkFails, PublishFails, ExitTrap, GiveUp
<1>3. Boots \in Versions /\ trees[Boots] # "absent"
  BY BootsTyped DEF BootsWell, Present
<1>4. trees'[Boots] # "absent"
  BY <1>2, <1>3 DEF Publish, WholeTrees
<1> QED  BY <1>1, <1>4 DEF BootsWell, EntryLoads, Listed, HasMirror, Boots, Present

\* No operation, cleanup or boot takes the files or the modules of an entry
\* that boots with its modules while the entry stays, whichever pair the
\* snapshot has come to select.
THEOREM EntriesKeepModules == Spec => EntryKeepsModules
<1>1. StoreInv /\ ScriptInv /\ [Next]_vars
        => [BootsWell /\ entry' = entry => BootsWell' \/ RemovePackage \/ MirrorChanges]_vars
  <2> SUFFICES ASSUME StoreInv, ScriptInv, Next, BootsWell, entry' = entry,
                      ~RemovePackage, ~MirrorChanges
               PROVE  BootsWell'
    OBVIOUS
  <2>1. trees \in WholeTrees
    BY DEF ScriptInv
  <2>2. ~Deactivate
    BY DEF Deactivate, BootsWell, EntryLoads, Listed
  <2>3. CASE FileChanges
    BY <2>3 DEF FileChanges, menuVars, BootsWell, EntryLoads, Listed, HasMirror, Boots, Present
  <2> QED
    BY <2>1, <2>2, <2>3, ActivateKeeps, ReconcileKeeps, CleanupKeeps, BootKeeps
       DEF Next, BootrecovStep
<1>2. EntryKeepsModules <=> [][BootsWell /\ entry' = entry => BootsWell' \/ RemovePackage \/ MirrorChanges]_vars
  BY PTL DEF EntryKeepsModules, BootsWell
<1> QED  BY <1>1, <1>2, StoreAlways, ScriptInvHolds, PTL DEF Spec

-----------------------------------------------------------------------------
(* What reconcile keeps.                                                   *)

\* The image in the mirror, when it is there, is of the version the snapshot's
\* is taken to have, or cannot be told.
LEMMA MirrorVersion ==
    ASSUME NEW d, NEW m, NEW pair, Usable(m, pair.kernel), Version(d, pair) # Unknown
    PROVE  Version(m, pair) \in {Unknown, Version(d, pair)}
BY DEF Version, KernelVersion

\* What is left to show once the mirror is whole: the modules.
LEMMA ServedBy ==
    ASSUME Listed', HasMirror', AllUsable(mirror', entry'.pair),
           \/ issue'
           \/ Version(files, Selected(files))' = Unknown
           \/ EntryVersion' = Unknown
           \/ Present(EntryVersion)'
    PROVE  Served'
BY DEF Served, EntryLoads

LEMMA OldPairServed ==
    ASSUME StoreInv, trees \in WholeTrees, Listed, NEW t, OldPair(t, TRUE), entry' = entry,
           trees' = t, UNCHANGED <<content, files>>
    PROVE  Served'
<1>1. HasMirror /\ AllUsable(mirror, entry.pair) /\ UNCHANGED mirror
  BY DEF OldPair, EntryFilesThere
<1>2. Listed' /\ HasMirror' /\ AllUsable(mirror', entry'.pair) /\ EntryVersion' = EntryVersion
  BY <1>1 DEF Listed, HasMirror, EntryVersion, Version
<1>3. EntryVersion \in Versions \cup {Unknown}
  BY VersionTyped DEF EntryVersion, StoreInv
<1>4. issue' \/ EntryVersion = Unknown \/ trees'[EntryVersion] # "absent"
  <2>1. EntryFilesThere
    BY <1>1 DEF EntryFilesThere
  <2>2. ASSUME EntryVersion # Unknown, t = Restored(EntryVersion)
        PROVE  t[EntryVersion] # "absent"
    BY <1>3, <2>2, RestoredPresent
  <2> QED  BY <2>1, <2>2 DEF OldPair
<1> QED  BY <1>2, <1>4, ServedBy DEF Present

LEMMA SamePairServed ==
    ASSUME StoreInv, trees \in WholeTrees, Listed, NEW t \in WholeTrees, entry' = entry,
           InvalidSnapshot(t, TRUE) \/ Refresh(t, TRUE),
           trees' \in CleanedTrees(t, entry', mirror'), UNCHANGED <<content, files>>
    PROVE  Served'
<1> DEFINE v == Version(files, entry.pair)
<1>1. SamePair /\ v # Unknown /\ v \in Versions
  BY VersionTyped DEF InvalidSnapshot, Refresh, SamePair, StoreInv
<1>2. trees'[v] = t[v]
  BY <1>1, CleanupSparesPair DEF Listed
<1>3. HasMirror' /\ AllUsable(mirror', entry.pair)
  <2>1. CASE InvalidSnapshot(t, TRUE)
    BY <2>1 DEF InvalidSnapshot, EntryFilesThere, HasMirror
  <2>2. CASE Refresh(t, TRUE)
    <3>1. AllUsable(files, entry.pair)
      BY <2>2 DEF Refresh
    <3>2. CASE mirror' = files
      BY <3>1, <3>2, StoreOK DEF StoreInv, HasMirror
    <3>3. CASE mirror' \in PartCopies /\ HasMirror /\ SameFiles(files, mirror, entry.pair)
      <4>1. AllUsable(mirror', entry.pair)
        BY <3>3, PartCopiesUsable DEF SameFiles
      <4>2. mirror' \in Directories
        BY <3>3 DEF StoreInv, PartCopies, HasMirror, Directories
      <4> QED  BY <4>1, <4>2, StoreOK DEF HasMirror
    <3> QED  BY <2>2, <3>2, <3>3 DEF Refresh
  <2> QED  BY <2>1, <2>2
<1>4. EntryVersion' \in {Unknown, v}
  <2>1. EntryVersion' = Version(mirror', entry.pair)
    BY <1>3 DEF EntryVersion, Version
  <2>2. Usable(mirror', entry.pair.kernel)
    BY <1>3 DEF AllUsable
  <2> QED  BY <1>1, <2>1, <2>2, MirrorVersion
<1>5. issue' \/ t[v] # "absent"
  <2>1. CASE InvalidSnapshot(t, TRUE)
    BY <2>1 DEF InvalidSnapshot, Present
  <2>2. CASE Refresh(t, TRUE)
    <3>1. trees[v] = "absent" => t = Restored(v)
      BY <2>2 DEF Refresh, Present
    <3>2. trees[v] # "absent" => t = trees
      BY <2>2 DEF Refresh, Present
    <3> QED  BY <1>1, <3>1, <3>2, RestoredPresent
  <2> QED  BY <2>1, <2>2
<1>6. Listed'
  BY DEF Listed
<1> QED  BY <1>2, <1>3, <1>4, <1>5, <1>6, ServedBy DEF Present

LEMMA ReconcileServes ==
    ASSUME StoreInv, trees \in WholeTrees, Reconcile, Listed'
    PROVE  Served'
<1>1. ReconcileActive /\ Listed /\ UNCHANGED <<content, files>>
  BY DEF Reconcile, ReconcileInactive, storeVars, Listed
<1>2. PICK t \in {trees} \cup {Restored(v) : v \in Versions}, keep \in BOOLEAN :
          /\ \/ OldPair(t, keep)
             \/ Unidentified(t, keep)
             \/ InvalidSnapshot(t, keep)
             \/ ModulesUnavailable(t, keep)
             \/ Refresh(t, keep)
          /\ entry' = IF keep THEN entry ELSE NoEntry
          /\ trees' \in CleanedTrees(t, entry', mirror')
  BY <1>1 DEF ReconcileActive
<1>3. keep = TRUE /\ entry' = entry
  BY <1>2 DEF Listed
<1>4. t \in WholeTrees
  BY <1>2, RestoredWhole
<1>5. CASE OldPair(t, keep)
  <2>1. trees' = t
    BY <1>1, <1>2, <1>3, <1>5, CleanupSparesOtherPair DEF OldPair, Listed
  <2> QED  BY <1>1, <1>3, <1>5, <2>1, OldPairServed
<1>6. CASE Unidentified(t, keep)
  <2>1. HasMirror /\ AllUsable(mirror, entry.pair) /\ UNCHANGED mirror
    BY <1>3, <1>6 DEF Unidentified, EntryFilesThere
  <2>2. Version(files, Selected(files))' = Unknown
    BY <1>1, <1>6 DEF Unidentified, Version
  <2> QED  BY <1>3, <2>1, <2>2, ServedBy DEF HasMirror
<1>7. CASE InvalidSnapshot(t, keep) \/ Refresh(t, keep)
  BY <1>1, <1>2, <1>3, <1>4, <1>7, SamePairServed
<1>8. ~ModulesUnavailable(t, keep)
  BY <1>3 DEF ModulesUnavailable
<1> QED  BY <1>2, <1>5, <1>6, <1>7, <1>8

\* An entry reconcile keeps has its files in the mirror and its modules under
\* the module directory, whatever pair it loads and whatever has changed, as far
\* as snapshot and mirror tell the version and no issue is reported.
THEOREM KeptEntriesServed == Spec => KeptEntryServed
<1>1. StoreInv /\ ScriptInv /\ [Next]_vars => [Listed' => Served' \/ ~Reconcile]_vars
  BY ReconcileServes DEF ScriptInv
<1> QED  BY <1>1, StoreAlways, ScriptInvHolds, PTL DEF Spec, KeptEntryServed

-----------------------------------------------------------------------------
(* What the boot of an entry bootrecov has written is taken for.           *)

\* The mirror's name tells it, or its path as GRUB sees it; so where a boot can
\* lose its markers.  (A mirror in the root of its partition has no such path.)
MirrorReadable ==
    \A k \in Artifacts :
        \/ LegacyName(ImagePath(k)) # NoName
        \/ /\ MirrorVisible # <<>>
           /\ Under(Tail(ImagePath(k)), MirrorRoot) => MirrorRoot = MirrorVisible

OwnWords == [entry |-> <<Ours>>, snap |-> <<Snapshot>>]

Marked(k) == [entry |-> <<Ours>>, snap |-> <<Snapshot>>, image |-> <<ImagePath(k)>>]
Unnamed(k) == [entry |-> <<Ours>>, snap |-> <<>>, image |-> <<ImagePath(k)>>]
Stripped(k) == [entry |-> <<>>, snap |-> <<>>, image |-> <<ImagePath(k)>>]

OwnCmdline(c) ==
    \E k \in Artifacts : c \in {Marked(k), Unnamed(k)} \/ (Dracut /\ c = Stripped(k))

\* The image is right in the snapshot's mirror.
LEMMA ImagePathShape ==
    ASSUME NEW k \in Artifacts
    PROVE  /\ ImagePath(k) \in Seq(Words) /\ Len(MirrorVisible) \in Nat
           /\ Len(ImagePath(k)) = Len(MirrorVisible) + 3
           /\ ImagePath(k)[Len(MirrorVisible) + 2] = Snapshot
           /\ ImagePath(k)[Len(MirrorVisible) + 3] = k[1]
           /\ \A i \in 1..Len(MirrorVisible) : ImagePath(k)[i + 1] = MirrorVisible[i]
<1>1. NoName \in Words /\ Snapshot \in Words /\ k[1] \in Words /\ MirrorVisible \in Seq(Words)
  BY IdentityConstants, SnapshotIsNamed, CmdlinesWellFormed
<1> DEFINE n == Len(MirrorVisible)
           front == <<NoName>> \o MirrorVisible
<1>2. n \in Nat
  BY <1>1, LenProperties
<1>3. /\ front \in Seq(Words) /\ Len(front) = n + 1
      /\ \A i \in 1..n : front[i + 1] = MirrorVisible[i]
  BY <1>1, <1>2
<1>4. ImagePath(k) = front \o <<Snapshot, k[1]>>
  BY DEF ImagePath
<1> HIDE DEF front, n
<1>5. /\ front \o <<Snapshot, k[1]>> \in Seq(Words)
      /\ Len(front \o <<Snapshot, k[1]>>) = n + 3
      /\ (front \o <<Snapshot, k[1]>>)[n + 2] = Snapshot
      /\ (front \o <<Snapshot, k[1]>>)[n + 3] = k[1]
      /\ \A i \in 1..n : (front \o <<Snapshot, k[1]>>)[i + 1] = front[i + 1]
  BY <1>1, <1>2, <1>3
<1> QED  BY <1>2, <1>3, <1>4, <1>5 DEF n

LEMMA ImagePathClean ==
    ASSUME NEW k \in Artifacts
    PROVE  ~Malformed(ImagePath(k))
<1> DEFINE p == ImagePath(k)
           n == Len(MirrorVisible)
<1>1. k[1] \notin {"", ".", ".."}
  <2>1. k \in {Kernel(f) : f \in Families} \cup {Microcode} \cup (InitKinds \X Families)
    BY ArtifactsWellFormed DEF ArtifactsWellFormed
  <2>2. k[1] \in {"kernel", "microcode"} \cup InitKinds
    BY <2>1 DEF Kernel, Microcode
  <2> QED  BY <2>2 DEF InitKinds
<1>2. Snapshot \notin {"", ".", ".."}
  BY SnapshotIsNamed, IdentityConstants, NamesAndPathsClean DEF NoName
<1>3. SUFFICES ASSUME NEW i \in 2..Len(p) PROVE p[i] \notin {"", ".", ".."}
  BY DEF Malformed
<1>4. n \in Nat /\ Len(p) = n + 3 /\ DOMAIN MirrorVisible = 1..n
  BY ImagePathShape, IdentityConstants
<1>5. CASE i = n + 2 \/ i = n + 3
  BY <1>1, <1>2, <1>5, ImagePathShape
<1>6. CASE i - 1 \in 1..n
  <2>1. p[(i - 1) + 1] = MirrorVisible[i - 1]
    BY <1>6, ImagePathShape
  <2>2. MirrorVisible[i - 1] \notin {"", ".", ".."}
    BY <1>4, <1>6, NamesAndPathsClean
  <2>3. i = (i - 1) + 1
    OBVIOUS
  <2> QED  BY <2>1, <2>2, <2>3
<1>7. i = n + 2 \/ i = n + 3 \/ i - 1 \in 1..n
  <2> HIDE DEF n, p
  <2> QED  BY <1>4
<1> QED  BY <1>5, <1>6, <1>7

LEMMA ImageDirName ==
    ASSUME NEW k \in Artifacts
    PROVE  /\ DirName(ImagePath(k)) = Snapshot
           /\ LegacyName(ImagePath(k)) \in {NoName, Snapshot}
<1>1. DirName(ImagePath(k)) = Snapshot
  <2> DEFINE n == Len(MirrorVisible)
  <2>1. n \in Nat /\ Len(ImagePath(k)) = n + 3 /\ ImagePath(k)[n + 2] = Snapshot
    BY ImagePathShape
  <2> HIDE DEF n
  <2> QED  BY <2>1 DEF DirName
<1> QED  BY <1>1 DEF LegacyName

LEMMA LastTwo ==
    ASSUME NEW S, NEW q \in Seq(S), NEW n \in Nat, Len(q) = n + 2
    PROVE  Len(SubSeq(q, n + 1, n + 2)) = 2 /\ SubSeq(q, n + 1, n + 2)[1] = q[n + 1]
<1>1. n + 1 \in 1..Len(q) /\ n + 2 \in 1..Len(q)
  OBVIOUS
<1>2. Len(SubSeq(q, n + 1, n + 2)) = 2
  BY <1>1
<1>3. SubSeq(q, n + 1, n + 2)[1] = q[n + 1]
  BY <1>1
<1> QED  BY <1>2, <1>3

\* Dracut's script, going by the image alone, finds it below the mirror.
LEMMA ImageBelowMirror ==
    ASSUME NEW k \in Artifacts, MirrorVisible # <<>>,
           Under(Tail(ImagePath(k)), MirrorRoot) => MirrorRoot = MirrorVisible
    PROVE  Len(BelowMirror(ImagePath(k))) = 2 /\ BelowMirror(ImagePath(k))[1] = Snapshot
<1> DEFINE p == ImagePath(k)
           n == Len(MirrorVisible)
           v == Tail(p)
<1>1. /\ p \in Seq(Words) /\ n \in Nat /\ Len(p) = n + 3 /\ p[n + 2] = Snapshot
      /\ \A i \in 1..n : p[i + 1] = MirrorVisible[i]
      /\ MirrorVisible \in Seq(Words) /\ n > 0
  BY ImagePathShape, IdentityConstants, NotEmpty
<1>2. Visible(p) = v
  BY <1>1 DEF Visible
<1>3. /\ v \in Seq(Words) /\ Len(v) = n + 2 /\ v[n + 1] = Snapshot
      /\ \A i \in 1..n : v[i] = MirrorVisible[i]
  <2> HIDE DEF n, p
  <2>1. /\ v \in Seq(Words) /\ Len(v) = n + 2
        /\ \A i \in 1..(n + 2) : v[i] = p[i + 1]
    BY <1>1
  <2> QED  BY <1>1, <2>1
<1>4. Under(v, MirrorVisible)
  <2>1. SubSeq(v, 1, n) = MirrorVisible
    <3> HIDE DEF n, v
    <3>1. /\ SubSeq(v, 1, n) \in Seq(Words) /\ Len(SubSeq(v, 1, n)) = n
          /\ \A i \in 1..n : SubSeq(v, 1, n)[i] = v[i]
      BY <1>1, <1>3
    <3>2. Len(MirrorVisible) = n
      BY DEF n
    <3> QED  BY <1>1, <1>3, <3>1, <3>2, SeqEqual
  <2> QED  BY <1>1, <1>3, <2>1 DEF Under
<1>5. BelowMirror(p) = SubSeq(v, n + 1, n + 2)
  BY <1>2, <1>3, <1>4 DEF BelowMirror
<1>6. Len(SubSeq(v, n + 1, n + 2)) = 2 /\ SubSeq(v, n + 1, n + 2)[1] = Snapshot
  <2>1. n \in Nat /\ v \in Seq(Words) /\ Len(v) = n + 2 /\ v[n + 1] = Snapshot
    BY <1>1, <1>3
  <2> HIDE DEF n, v
  <2> QED  BY <2>1, LastTwo
<1> QED  BY <1>5, <1>6

\* A name read from the boot's parameters is the snapshot's own, whichever of
\* them the boot loader has passed on.
LEMMA OwnIdentity ==
    ASSUME NEW c, OwnCmdline(c), Dracut => MirrorReadable
    PROVE  Identity(script, c).name = Snapshot
<1>1. PICK k \in Artifacts : c \in {Marked(k), Unnamed(k)} \/ (Dracut /\ c = Stripped(k))
  BY DEF OwnCmdline
<1> DEFINE p == ImagePath(k)
<1>2. Snapshot \in Names /\ Snapshot # NoName
  BY SnapshotIsNamed, IdentityConstants
<1>3. c.image = <<p>> /\ Image(c) = p
  BY <1>1 DEF Marked, Unnamed, Stripped, Image, HasImage
<1>4. ~Malformed(p) /\ DirName(p) = Snapshot /\ LegacyName(p) \in {NoName, Snapshot}
  BY ImagePathClean, ImageDirName
<1> HIDE DEF p
<1>5. CASE c = Marked(k)
  <2>1. ~Refused(script, c)
    BY <1>2, <1>3, <1>4, <1>5 DEF Refused, Marked, ByMirror, HasEntry
  <2>2. NameIn(script, c) = Snapshot
    BY <1>5 DEF NameIn, Marked
  <2> QED  BY <1>2, <2>1, <2>2 DEF Identity
<1>6. CASE c = Unnamed(k)
  <2>1. ~Refused(script, c)
    BY <1>3, <1>4, <1>6 DEF Refused, Unnamed, ByMirror, HasEntry
  <2>2. NameIn(script, c) = Snapshot
    BY <1>2, <1>3, <1>4, <1>6 DEF NameIn, Unnamed, HasEntry
  <2> QED  BY <1>2, <2>1, <2>2 DEF Identity
<1>7. CASE Dracut /\ c = Stripped(k)
  <2>1. ~HasEntry(c) /\ c.snap = <<>> /\ c.entry = <<>>
    BY <1>7 DEF Stripped, HasEntry
  <2>2. CASE LegacyName(p) # NoName
    <3>1. ~Refused(script, c)
      BY <1>3, <1>4, <2>1, <2>2 DEF Refused, ByMirror
    <3>2. NameIn(script, c) = Snapshot
      BY <1>3, <1>4, <2>1, <2>2 DEF NameIn
    <3> QED  BY <1>2, <3>1, <3>2 DEF Identity
  <2>3. CASE LegacyName(p) = NoName
    <3>1. Len(BelowMirror(p)) = 2 /\ BelowMirror(p)[1] = Snapshot
      BY <1>7, <2>3, ImageBelowMirror DEF MirrorReadable, p
    <3>2. ~Refused(script, c)
      BY <1>3, <1>4, <2>1, <3>1 DEF Refused
    <3>3. ByMirror(script, c)
      BY <1>3, <1>7, <2>1, <2>3 DEF ByMirror, HasImage, Dracut
    <3>4. NameIn(script, c) = Snapshot
      BY <1>3, <2>1, <2>3, <3>1, <3>3 DEF NameIn
    <3> QED  BY <1>2, <3>2, <3>4 DEF Identity
  <2> QED  BY <2>2, <2>3
<1> QED  BY <1>1, <1>5, <1>6, <1>7

\* A boot is of an entry bootrecov has written, or nobody's; once identified,
\* it is taken for the snapshot of that entry, and dracut's script has said
\* something when it comes to its end.
OwnInv ==
    /\ Dracut => MirrorReadable
    /\ Listed => entry.words = OwnWords
    /\ cmdline \in OtherCmdlines \cup {OrdinaryCmdline, NoCmdline} \/ OwnCmdline(cmdline)
    /\ OwnEntryNamed
    /\ phase = "exit" => said

LEMMA OwnInit == Init /\ (Dracut => MirrorReadable) => OwnInv
BY DEF Init, OwnInv, Listed, OwnEntryNamed, OwnBoot

LEMMA NewEntryOwn == NewEntry.words = OwnWords
BY DEF NewEntry, RecoveryWords, CurrentWords, OwnWords

\* What is not a boot leaves the boot alone.
LEMMA OwnUntouchedInv ==
    ASSUME OwnInv, UNCHANGED <<script, bootVars>>, entry' \in {entry, NewEntry, NoEntry}
    PROVE  OwnInv'
<1>1. Listed' => entry'.words = OwnWords
  BY NewEntryOwn DEF OwnInv, Listed
<1> QED  BY <1>1 DEF OwnInv, bootVars, Dracut, OwnCmdline, OwnEntryNamed, OwnBoot, Identified

LEMMA EntryCmdlinesOwn ==
    ASSUME OwnInv, EntryLoads, NEW c \in EntryCmdlines
    PROVE  OwnCmdline(c)
<1> DEFINE k == entry.pair.kernel
           whole == [entry |-> entry.words.entry, snap |-> entry.words.snap, image |-> <<ImagePath(k)>>]
<1>1. k \in Artifacts /\ entry.words = OwnWords
  BY DEF OwnInv, EntryLoads, AllUsable, Usable
<1>2. whole = Marked(k)
  BY <1>1 DEF Marked, OwnWords
<1>3. EntryCmdlines = {whole, [whole EXCEPT !.snap = <<>>]}
          \cup IF Dracut THEN {[whole EXCEPT !.snap = <<>>, !.entry = <<>>]} ELSE {}
  BY DEF EntryCmdlines
<1> HIDE DEF whole, k
<1>4. [whole EXCEPT !.snap = <<>>] = Unnamed(k)
  BY <1>2 DEF Marked, Unnamed
<1>5. [whole EXCEPT !.snap = <<>>, !.entry = <<>>] = Stripped(k)
  <2>1. [whole EXCEPT !.snap = <<>>, !.entry = <<>>] = [Unnamed(k) EXCEPT !.entry = <<>>]
    BY <1>4
  <2> QED  BY <2>1 DEF Unnamed, Stripped
<1> QED  BY <1>1, <1>2, <1>3, <1>4, <1>5 DEF OwnCmdline

LEMMA OwnStartInv ==
    ASSUME OwnInv, Boot
    PROVE  OwnInv'
<1>1. PICK c, v, m : /\ phase = "off" /\ Start(c, v, m)
                     /\ c \in OtherCmdlines \cup {OrdinaryCmdline} \/ OwnCmdline(c)
  BY EntryCmdlinesOwn DEF Boot, BootEntry, BootOrdinary, BootOther
<1>2. cmdline' = c /\ phase' = "identify" /\ UNCHANGED <<script, entry>>
  BY <1>1 DEF Start, Boot, menuVars
<1> QED  BY <1>1, <1>2 DEF OwnInv, Listed, Dracut, OwnCmdline, OwnEntryNamed, OwnBoot, Identified

LEMMA OwnScriptInv ==
    ASSUME OwnInv, ScriptStep, UNCHANGED entry
    PROVE  OwnInv'
<1>1. UNCHANGED <<script, cmdline>> /\ phase \notin {"off", "up"}
  BY DEF ScriptStep, Identify, CheckTarget, FindVar, RefuseVar, MountVarFails, CheckArchive,
     ArchiveUnavailable, MakeWritable, NotWritable, MakeStaging, StagingFails, Unsquash,
     UnsquashFails, ReleaseVar, ReleaseVarFails, Mark, MarkFails, Publish, PublishFails,
     ExitTrap, GiveUp
<1>2. OwnEntryNamed'
  <2>1. CASE Identify
    <3>1. name' = Identity(script, cmdline).name
      BY <2>1 DEF Identify
    <3>2. OwnBoot => OwnCmdline(cmdline)
      BY DEF OwnInv, OwnBoot
    <3> QED  BY <1>1, <3>1, <3>2, OwnIdentity DEF OwnInv, OwnEntryNamed, OwnBoot
  <2>2. CASE ~Identify
    <3>1. UNCHANGED name /\ Identified
      BY <2>2 DEF ScriptStep, CheckTarget, FindVar, RefuseVar, MountVarFails, CheckArchive,
         ArchiveUnavailable, MakeWritable, NotWritable, MakeStaging, StagingFails, Unsquash,
         UnsquashFails, ReleaseVar, ReleaseVarFails, Mark, MarkFails, Publish, PublishFails,
         ExitTrap, GiveUp, scriptVars, Identified
    <3> QED  BY <1>1, <3>1 DEF OwnInv, OwnEntryNamed, OwnBoot
  <2> QED  BY <2>1, <2>2
<1>3. phase' = "exit" => said'
  BY DEF ScriptStep, Identify, CheckTarget, FindVar, RefuseVar, MountVarFails, CheckArchive,
     ArchiveUnavailable, MakeWritable, NotWritable, MakeStaging, StagingFails, Unsquash,
     UnsquashFails, ReleaseVar, ReleaseVarFails, Mark, MarkFails, Publish, PublishFails,
     ExitTrap, GiveUp, End
<1> QED  BY <1>1, <1>2, <1>3 DEF OwnInv, Listed, Dracut, OwnCmdline

LEMMA OwnPowerInv ==
    ASSUME OwnInv, PowerOff, UNCHANGED entry
    PROVE  OwnInv'
BY DEF PowerOff, OwnInv, Listed, Dracut, OwnCmdline, OwnEntryNamed, OwnBoot, Identified

LEMMA OwnStepInv ==
    ASSUME OwnInv, [Next]_vars
    PROVE  OwnInv'
<1>1. CASE BootrecovStep
  <2>1. UNCHANGED <<script, bootVars>>
    BY <1>1 DEF BootrecovStep, Activate, Deactivate, CleanupElsewhere, Reconcile
  <2>2. entry' \in {entry, NewEntry, NoEntry}
    BY <1>1 DEF BootrecovStep, Activate, Deactivate, CleanupElsewhere, Reconcile,
                ReconcileActive, ReconcileInactive, menuVars
  <2> QED  BY <2>1, <2>2, OwnUntouchedInv
<1>2. CASE FileChanges \/ MirrorChanges \/ RemovePackage \/ UNCHANGED vars
  <2>1. UNCHANGED <<script, bootVars>> /\ UNCHANGED entry
    BY <1>2 DEF FileChanges, MirrorChanges, RemovePackage, menuVars, vars
  <2> QED  BY <2>1, OwnUntouchedInv
<1>3. CASE Boot
  BY <1>3, OwnStartInv
<1>4. CASE DuringBoot
  BY <1>4, OwnScriptInv, OwnPowerInv DEF DuringBoot, menuVars
<1> QED  BY <1>1, <1>2, <1>3, <1>4 DEF Next

LEMMA OwnAlways == Spec /\ (Dracut => MirrorReadable) => []OwnInv
BY OwnInit, OwnStepInv, PTL DEF Spec

\* Every boot of an entry bootrecov has written is taken for the snapshot it is
\* of: with the markers of the entry, without the snapshot's, and under dracut,
\* if the mirror can be told from its path, without any.
THEOREM OwnEntriesNamed == Spec /\ (Dracut => MirrorReadable) => []OwnEntryNamed
<1>1. OwnInv => OwnEntryNamed
  BY DEF OwnInv
<1> QED  BY <1>1, OwnAlways, PTL

\* A script at work on an own boot leaves only where the modules are, or with
\* something said.
LEMMA LeavesSaying ==
    ASSUME OwnInv, ScriptInv, Next, phase # "up", phase' = "up", OwnBoot
    PROVE  Present(running)' \/ said'
<1>1. ScriptStep
  BY DEF Next, BootrecovStep, Activate, Deactivate, CleanupElsewhere, Reconcile, FileChanges,
     MirrorChanges, RemovePackage, Operating, Boot, BootEntry, BootOrdinary, BootOther, Start,
     DuringBoot, PowerOff
<1>2. CASE Identify
  <2>1. OwnCmdline(cmdline)
    BY DEF OwnInv, OwnBoot
  <2>2. Identity(script, cmdline).name = Snapshot
    BY <2>1, OwnIdentity DEF OwnInv
  <2>3. phase' = "check"
    BY <1>2, <2>2, SnapshotIsNamed, IdentityConstants DEF Identify
  <2> QED  BY <2>3
<1>3. CASE CheckTarget
  BY <1>3 DEF CheckTarget, Present, Dracut
<1>4. CASE ExitTrap
  BY <1>4 DEF ExitTrap, Unmount, OwnInv
<1>5. CASE ~Identify /\ ~CheckTarget /\ ~ExitTrap
  BY <1>1, <1>5 DEF ScriptStep, FindVar, RefuseVar, MountVarFails, CheckArchive,
     ArchiveUnavailable, MakeWritable, NotWritable, MakeStaging, StagingFails, Unsquash,
     UnsquashFails, ReleaseVar, ReleaseVarFails, Mark, MarkFails, Publish, PublishFails,
     GiveUp, End, Dracut
<1> QED  BY <1>2, <1>3, <1>4, <1>5

\* No failure of the script is silent: a recovery boot goes on with the modules
\* of its kernel, or with something on the console.
THEOREM BootsSpeak == Spec /\ (Dracut => MirrorReadable) => NeverSilent
<1>1. OwnInv /\ ScriptInv /\ [Next]_vars
        => [phase # "up" /\ phase' = "up" /\ OwnBoot => Present(running)' \/ said']_vars
  BY LeavesSaying
<1> QED  BY <1>1, OwnAlways, ScriptInvHolds, PTL DEF Spec, NeverSilent

=============================================================================
