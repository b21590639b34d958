------------------------------ MODULE HookProofs ------------------------------
(***************************************************************************)
(* For any bounds and any failures: a setup that is found supported builds *)
(* every image with the hook; an install that succeeds is whole, and one   *)
(* that fails leaves everything as it was unless it says that it could     *)
(* not; an uninstall that succeeds leaves nothing but a hook that the edit *)
(* of HOOKS misses; between operations what is installed is in the images; *)
(* and only a plugin of DNF5 that appears after hooks were installed for   *)
(* DNF4 makes two generations of hooks.                                    *)
(***************************************************************************)
EXTENDS HookProperties, TLAPS

-----------------------------------------------------------------------------
(***************************************************************************)
(* The inspection.                                                         *)
(***************************************************************************)

\* A list of preset files that is not empty has a first one.
LEMMA PresetThere ==
    ASSUME NEW s \in Setups, s.presets # <<>>
    PROVE  /\ Files(s.presets) # {}
           /\ Files(s.presets) \subseteq Presets
<1>1. PICK n \in 0 .. MaxPresets : s.presets \in [1 .. n -> Presets]
  BY DEF Setups, SeqOf
<1>2. n # 0
  BY <1>1
<1>3. 1 \in DOMAIN s.presets
  BY <1>1, <1>2
<1> QED
  BY <1>1, <1>3 DEF Files

\* What Supported excludes.
LEMMA SupportedFacts ==
    ASSUME NEW s, Supported(s)
    PROVE  /\ s.conf = "busybox"
           /\ \A p \in Files(s.presets) : ~PresetRefused(p)
           /\ UsesDropIns(s) => ~Says(s, {"opaque"}) /\ ~Says(s, Literal)
  BY DEF Supported, Inspect, Literal

\* An image whose configuration the drop-ins may not touch, or do not.
LEMMA ImageRuns ==
    ASSUME NEW s \in Setups, Supported(s),
           NEW p \in Files(s.presets), NEW i \in p.images, p \in Presets
    PROVE  RunsHook(s, p, i) = {TRUE}
<1>1. ~p.all.options /\ ~i.options /\ SelectedConfig(p, i) # "another"
  BY SupportedFacts DEF PresetRefused
<1>2. RunsFromConf(s) = {TRUE}
  BY SupportedFacts DEF RunsFromConf
<1>3. ASSUME SelectedConfig(p, i) = "unset" PROVE RunsWithDropIns(s) = {TRUE}
  <2>1. UsesDropIns(s)
    BY <1>3 DEF UsesDropIns
  <2> QED
    BY <2>1, <1>2, SupportedFacts DEF RunsWithDropIns
<1>4. SelectedConfig(p, i) \in {"unset", "main", "another"}
  <2>1. p.literal
    BY SupportedFacts DEF PresetRefused
  <2>2. p \in [literal : {TRUE}, all : Settings, images : SUBSET Settings]
    <3>1. CASE p = [literal |-> FALSE, all |-> Default, images |-> {}]
      <4>1. p.literal = FALSE
        BY <3>1
      <4> QED
        BY <4>1, <2>1
    <3> QED
      BY <3>1 DEF Presets
  <2>3. p.all \in Settings /\ i \in Settings
    BY <2>2
  <2> QED
    BY <2>3 DEF SelectedConfig, Settings
<1> QED
  BY <1>1, <1>2, <1>3, <1>4 DEF RunsHook

\* Every image that is built runs the hook.
LEMMA EveryOutcome ==
    ASSUME NEW s \in Setups, Supported(s)
    PROVE  /\ \A o \in Outcomes(s) : o = {TRUE}
           /\ Outcomes(s) # {}
<1>1. CASE s.presets = <<>>
  <2>1. UsesDropIns(s)
    BY <1>1 DEF UsesDropIns
  <2>2. RunsWithDropIns(s) = {TRUE}
    BY <2>1, SupportedFacts DEF RunsWithDropIns, RunsFromConf
  <2> QED
    BY <1>1, <2>2 DEF Outcomes
<1>2. CASE s.presets # <<>>
  <2>1. \A p \in Files(s.presets) : p \in Presets /\ p.literal /\ p.images # {}
    BY <1>2, PresetThere, SupportedFacts DEF PresetRefused
  <2>2. \A p \in Files(s.presets) : \A i \in p.images : RunsHook(s, p, i) = {TRUE}
    BY <2>1, ImageRuns
  <2>3. Outcomes(s) = UNION {{RunsHook(s, p, i) : i \in p.images} : p \in Files(s.presets)}
    BY <1>2, <2>1 DEF Outcomes
  <2>4. \A o \in Outcomes(s) : o = {TRUE}
    BY <2>2, <2>3
  <2>5. PICK p \in Files(s.presets) : p.images # {}
    BY <1>2, <2>1, PresetThere
  <2>6. PICK i \in p.images : TRUE
    BY <2>5
  <2>7. RunsHook(s, p, i) \in Outcomes(s)
    BY <2>3
  <2> QED
    BY <2>4, <2>7
<1> QED
  BY <1>1, <1>2

\* inspectMkinitcpioMode finds "busybox" without a reason only where every
\* image that mkinitcpio builds runs the hooks of mkinitcpio.conf, for any
\* presets, drop-ins and assignments.
THEOREM InspectionSound ==
    ASSUME NEW s \in Setups, Supported(s)
    PROVE  Reaches(s) = {"all"}
<1>1. \A o \in Outcomes(s) : TRUE \in o /\ FALSE \notin o
  BY EveryOutcome
<1>2. Outcomes(s) # {}
  BY EveryOutcome
<1>3. "all" \in Reaches(s)
  BY <1>1 DEF Reaches
<1>4. "some" \notin Reaches(s) /\ "none" \notin Reaches(s)
  BY <1>1, <1>2 DEF Reaches
<1> QED
  BY <1>3, <1>4 DEF Reaches

-----------------------------------------------------------------------------
(***************************************************************************)
(* Types.                                                                  *)
(***************************************************************************)

FileStates == [Paths -> {"none", "old", "torn", "new"}]
ConfStates == Confs \cup {"torn"}
SetupTypes == [supported : BOOLEAN, reach : {"all", "some", "none"},
               form : {"unset", "plain", "crooked"}]

\* HookTypeOK and the types of what it leaves out: a snapshot of every path
\* while an operation runs, and which operation runs at which step.
TypeInv ==
    /\ HookTypeOK
    /\ saved \in [files : FileStates, conf : ConfStates]
    /\ op \in {"none", "install", "uninstall"}
    /\ step \in {"refused", "write", "enable", "rollback"} => op = "install"
    /\ step \in {"remove", "disable"} => op = "uninstall"
    /\ step = "regenerate" => op # "none"

\* Of every setup that the inspection supports every image has the hook; and
\* the hook is where the edit looks, unless HOOKS are written otherwise.
SetupInv ==
    /\ platform = "arch" /\ setup.supported => setup.reach = "all"
    /\ setup.form # "crooked" =>
          /\ conf \notin {"unseen", "remarked"}
          /\ op = "install" => saved.conf \notin {"unseen", "remarked"}

\* What a platform writes is its own; the configuration is no hook file.
LEMMA PathSets ==
    /\ OwnPaths \subseteq Paths /\ ToWrite \subseteq OwnPaths
    /\ DnfToWrite \subseteq DnfPaths
    /\ "conf" \notin Paths
  BY DEF OwnPaths, ToWrite, DnfToWrite, Paths, ArchPaths, FedoraPaths, DnfPaths, DracutPaths

\* The next path is one of those left.
LEMMA FirstIsLeft ==
    ASSUME NEW ps
    PROVE  First(ps) \subseteq ps /\ FirstToWrite(ps) \subseteq ps
  BY DEF First, FirstToWrite

\* Whatever is on disk, a build has one of these results.
LEMMA BuiltOK ==
    ASSUME TypeInv
    PROVE  Built \in {"without", "old", "new", "mixed", "broken"}
<1>1. files \in FileStates
  BY DEF TypeInv, HookTypeOK, FileStates
<1>2. files["runtime"] \in {"none", "old", "torn", "new"}
  BY <1>1 DEF FileStates, Paths, ArchPaths
<1> QED
  BY <1>2 DEF Built, BuiltForArch, Paths, DracutPaths

\* What InspectionSound says of the setups a run may meet.
LEMMA InspectionsOK ==
    \A i \in Inspections :
        /\ i \in SetupTypes
        /\ i.supported => i.reach = "all"
<1> TAKE i \in Inspections
<1>1. PICK s \in Setups :
         i \in {[supported |-> Supported(s), reach |-> r, form |-> Form(s)] : r \in Reaches(s)}
  BY DEF Inspections
<1>2. PICK r \in Reaches(s) : i = [supported |-> Supported(s), reach |-> r, form |-> Form(s)]
  BY <1>1
<1>3. r \in {"all", "some", "none"}
  BY <1>2 DEF Reaches
<1>4. Supported(s) \in BOOLEAN
  BY DEF Supported
<1>5. Supported(s) => r = "all"
  BY <1>2, InspectionSound
<1>6. Form(s) \in {"unset", "plain", "crooked"}
  <2>1. CASE s.conf = "unset"
    BY <2>1, Zenon DEF Form
  <2>2. CASE s.conf # "unset" /\ (s.conf = "opaque" \/ s.crooked)
    BY <2>2, Zenon DEF Form
  <2>3. CASE s.conf # "unset" /\ ~(s.conf = "opaque" \/ s.crooked)
    BY <2>3, Zenon DEF Form
  <2> QED
    BY <2>1, <2>2, <2>3
<1> QED
  BY <1>2, <1>3, <1>4, <1>5, <1>6 DEF SetupTypes

\* What an edit makes of the configuration: an enabled hook is among the words
\* that the edit goes by, a disabled one is not; and each is where the other
\* edit finds it, unless HOOKS are crooked.
LEMMA Edits ==
    /\ Enabled \subseteq {"on", "remarked"}
    /\ Disabled \subseteq {"off", "unseen"}
    /\ setup.form # "crooked" /\ conf # "remarked" => Enabled = {"on"}
    /\ setup.form # "crooked" => Disabled = {"off"}
  BY DEF Enabled, Disabled, Seen

LEMMA RewrittenOK ==
    ASSUME NEW form \in {"unset", "plain", "crooked"}
    PROVE  /\ Rewritten(form) \subseteq ConfStates
           /\ conf # "torn" => "torn" \notin Rewritten(form)
           /\ form # "crooked" => Rewritten(form) \subseteq {"off", "on", "torn"}
  BY DEF Rewritten, Named, ConfStates, Confs

\* Initially everything has its type, and the setup was told truly.
LEMMA TypeInit == HookInit => TypeInv /\ SetupInv
<1> SUFFICES ASSUME HookInit PROVE TypeInv /\ SetupInv
  OBVIOUS
<1>1. setup \in Inspections \/ setup = PlainSetup
  BY DEF HookInit
<1>2. /\ setup \in SetupTypes
      /\ setup.supported => setup.reach = "all"
  <2>1. CASE setup \in Inspections
    BY <2>1, InspectionsOK
  <2>2. CASE setup = [supported |-> TRUE, reach |-> "all", form |-> "plain"]
    BY <2>2 DEF SetupTypes
  <2> QED
    BY <1>1, <2>1, <2>2 DEF PlainSetup
<1>3. files \in FileStates /\ moduleDir \in BOOLEAN /\ conf \in ConfStates
      /\ images \in {"without", "old"}
  BY DEF HookInit, FileStates, ConfStates, Confs
<1>4. saved \in [files : FileStates, conf : ConfStates]
  BY DEF HookInit, NoSnapshots, FileStates, ConfStates, Confs
<1>5. platform \in Platforms /\ plugins \subseteq DnfPaths
  BY DEF HookInit, DnfPaths
<1>6. /\ op = "none" /\ step = "idle" /\ left = {} /\ result = "none" /\ stale = FALSE
      /\ removed = FALSE /\ unrestored = FALSE /\ spoiled = FALSE
  BY DEF HookInit
<1>7. conf \notin {"unseen", "remarked"}
  BY DEF HookInit
<1> QED
  BY <1>2, <1>3, <1>4, <1>5, <1>6, <1>7
     DEF TypeInv, HookTypeOK, SetupInv, FileStates, ConfStates, SetupTypes

\* TypeInv in three parts, which the steps preserve for different reasons.
Flags ==
    /\ moduleDir \in BOOLEAN /\ removed \in BOOLEAN
    /\ unrestored \in BOOLEAN /\ spoiled \in BOOLEAN
OnDisk ==
    /\ files \in FileStates /\ conf \in ConfStates
    /\ images \in {"without", "old", "new", "mixed", "broken"} /\ stale \in BOOLEAN
Progress ==
    /\ platform \in Platforms /\ plugins \subseteq DnfPaths
    /\ setup \in SetupTypes
    /\ step \in {"idle", "refused", "write", "enable", "regenerate", "rollback",
                 "remove", "disable"}
    /\ left \subseteq Paths \cup {"conf"}
    /\ result \in {"none", "ok", "refused", "error", "unrestored", "killed"}
    /\ saved \in [files : FileStates, conf : ConfStates]
    /\ op \in {"none", "install", "uninstall"}
    /\ step \in {"refused", "write", "enable", "rollback"} => op = "install"
    /\ step \in {"remove", "disable"} => op = "uninstall"
    /\ step = "regenerate" => op # "none"

\* What a process that dies leaves of the files.
LEMMA FilesCutShort ==
    ASSUME TypeInv, Die
    PROVE  /\ files' \in FileStates
           /\ \/ files' = files
              \/ \E p \in InWriting : files' = [files EXCEPT ![p] = "torn"]
              \/ step = "remove" /\ \A p \in Paths : files'[p] \in {files[p], "none"}
<1>1. files \in FileStates
  BY DEF TypeInv, HookTypeOK, FileStates
<1>2. \/ files' = files
      \/ \E p \in InWriting : files' = [files EXCEPT ![p] = "torn"]
      \/ step = "remove" /\ PartlyRemoved
  BY DEF Die
<1>3. ASSUME NEW p \in InWriting, files' = [files EXCEPT ![p] = "torn"]
      PROVE  files' \in FileStates
  BY <1>1, <1>3 DEF FileStates
<1>4. CASE step = "remove" /\ PartlyRemoved
  <2>1. PICK gone : files' = [p \in Paths |-> IF p \in gone THEN "none" ELSE files[p]]
    BY <1>4 DEF PartlyRemoved
  <2> QED
    BY <1>1, <1>4, <2>1 DEF FileStates
<1> QED
  BY <1>1, <1>2, <1>3, <1>4

\* Every step preserves the types.
LEMMA TypeStep == TypeInv /\ [HookNext]_hookVars => TypeInv'
<1> SUFFICES ASSUME TypeInv, [HookNext]_hookVars PROVE TypeInv'
  OBVIOUS
<1>0. Built \in {"without", "old", "new", "mixed", "broken"}
  BY BuiltOK
<1>a. "off" \in Confs
  BY DEF Confs
<1> USE <1>a DEF TypeInv, HookTypeOK, FileStates, ConfStates, SetupTypes, Flags, OnDisk, Progress,
            Return, Continue, Begin, RollBack, fileVars, setupVars, imageVars, NoSnapshots
<1>1. CASE RefuseInstall
  BY <1>1 DEF RefuseInstall
<1>2. CASE Refused
  BY <1>2 DEF Refused
<1>3. CASE BeginInstall
  BY <1>3, PathSets DEF BeginInstall
<1>4. CASE WriteHook
  <2>1. Flags'
    BY <1>4, FirstIsLeft DEF WriteHook, Content
  <2>2. OnDisk'
    <3>1. PICK p \in FirstToWrite(left) : files' = [files EXCEPT ![p] = "new"]
      BY <1>4 DEF WriteHook, Content
    <3>2. UNCHANGED <<conf, images, stale>>
      BY <1>4 DEF WriteHook
    <3> QED
      BY <3>1, <3>2
  <2>3. Progress'
    BY <1>4, FirstIsLeft DEF WriteHook, Content
  <2> QED
    BY <2>1, <2>2, <2>3
<1>5. CASE WriteHookFails
  <2>1. Flags'
    BY <1>5, PathSets DEF WriteHookFails
  <2>2. OnDisk'
    BY <1>5, PathSets DEF WriteHookFails
  <2>3. Progress'
    BY <1>5, PathSets DEF WriteHookFails
  <2> QED
    BY <2>1, <2>2, <2>3
<1>6. CASE EnableHook
  <2>1. Flags'
    BY <1>6 DEF EnableHook
  <2>2. OnDisk'
    BY <1>6, Edits DEF EnableHook, Confs
  <2>3. Progress'
    BY <1>6 DEF EnableHook
  <2> QED
    BY <2>1, <2>2, <2>3
<1>7. CASE EnableHookFails
  <2>1. Flags'
    BY <1>7 DEF EnableHookFails
  <2>2. OnDisk'
    BY <1>7 DEF EnableHookFails
  <2>3. Progress'
    BY <1>7, PathSets DEF EnableHookFails
  <2> QED
    BY <2>1, <2>2, <2>3
<1>8. CASE Regenerate
  BY <1>8, <1>0 DEF Regenerate
<1>9. CASE RegenerateFails
  <2>1. Flags'
    BY <1>9, PathSets DEF RegenerateFails
  <2>2. OnDisk'
    BY <1>9, PathSets DEF RegenerateFails
  <2>3. Progress'
    BY <1>9, PathSets DEF RegenerateFails
  <2> QED
    BY <2>1, <2>2, <2>3
<1>10. CASE Restore
  BY <1>10, FirstIsLeft DEF Restore
<1>11. CASE RestoreFails
  BY <1>11, FirstIsLeft DEF RestoreFails
<1>12. CASE RolledBack
  <2>1. Flags'
    BY <1>12 DEF RolledBack
  <2>2. OnDisk'
    BY <1>12 DEF RolledBack
  <2>3. Progress'
    BY <1>12 DEF RolledBack
  <2> QED
    BY <2>1, <2>2, <2>3
<1>13. CASE BeginUninstall
  BY <1>13, PathSets DEF BeginUninstall
<1>14. CASE RemoveHook
  <2>1. Flags'
    BY <1>14, FirstIsLeft DEF RemoveHook, AfterRemoval
  <2>2. OnDisk'
    BY <1>14, FirstIsLeft DEF RemoveHook, AfterRemoval
  <2>3. Progress'
    BY <1>14, FirstIsLeft DEF RemoveHook, AfterRemoval
  <2> QED
    BY <2>1, <2>2, <2>3
<1>15. CASE RemoveHookFails
  <2>1. Flags'
    BY <1>15 DEF RemoveHookFails
  <2>2. OnDisk'
    BY <1>15 DEF RemoveHookFails, PartlyRemoved
  <2>3. Progress'
    BY <1>15 DEF RemoveHookFails
  <2> QED
    BY <2>1, <2>2, <2>3
<1>16. CASE DisableHook
  <2>1. Flags'
    BY <1>16 DEF DisableHook
  <2>2. OnDisk'
    BY <1>16, Edits DEF DisableHook, Confs
  <2>3. Progress'
    BY <1>16 DEF DisableHook
  <2> QED
    BY <2>1, <2>2, <2>3
<1>17. CASE DisableHookFails
  BY <1>17 DEF DisableHookFails
<1>18. CASE Die
  <2>1. Flags'
    BY <1>18 DEF Die
  <2>2. OnDisk'
    BY <1>18, FilesCutShort DEF Die, ConfInWriting
  <2>3. Progress'
    BY <1>18 DEF Die
  <2> QED
    BY <2>1, <2>2, <2>3
<1>19. CASE KernelUpdate
  <2>1. Flags'
    BY <1>19, <1>0 DEF KernelUpdate
  <2>2. OnDisk'
    BY <1>19, <1>0 DEF KernelUpdate
  <2>3. Progress'
    BY <1>19, <1>0 DEF KernelUpdate
  <2> QED
    BY <2>1, <2>2, <2>3
<1>20. CASE PluginAdded
  BY <1>20 DEF PluginAdded, DnfPaths
<1>21. CASE Reconfigure
  <2>1. setup' \in SetupTypes
    BY <1>21, InspectionsOK DEF Reconfigure
  <2>2. conf' \in ConfStates
    BY <1>21, <2>1, RewrittenOK DEF Reconfigure, SetupTypes
  <2> QED
    BY <1>21, <2>1, <2>2 DEF Reconfigure
<1>22. CASE UNCHANGED hookVars
  BY <1>22 DEF hookVars
<1> QED
  BY <1>1, <1>2, <1>3, <1>4, <1>5, <1>6, <1>7, <1>8, <1>9, <1>10, <1>11, <1>12,
     <1>13, <1>14, <1>15, <1>16, <1>17, <1>18, <1>19, <1>20, <1>21, <1>22
     DEF HookNext

\* Every variable has its type in every reachable state.
THEOREM HookTypes == HookSpec => []HookTypeOK
<1>1. TypeInv => HookTypeOK
  BY DEF TypeInv
<1>2. HookInit => TypeInv
  BY TypeInit
<1> QED
  BY <1>1, <1>2, TypeStep, PTL DEF HookSpec

-----------------------------------------------------------------------------
(***************************************************************************)
(* An install that fails.                                                  *)
(***************************************************************************)

\* While an install runs, what is not its platform's is as it was saved;
\* nothing is written before a refusal; and a rollback without errors has put
\* back every path it is not still to restore.
UndoInv ==
    op = "install" =>
        /\ step \in {"refused", "write", "enable", "regenerate", "rollback"}
        /\ left \subseteq OwnPaths \cup (IF platform = "arch" THEN {"conf"} ELSE {})
        /\ step = "enable" => platform = "arch"
        /\ \A p \in Paths \ OwnPaths : files[p] = saved.files[p]
        /\ platform # "arch" => conf = saved.conf
        /\ step = "refused" => files = saved.files /\ conf = saved.conf
        /\ step = "rollback" /\ ~unrestored =>
              /\ \A p \in OwnPaths \ left : files[p] = saved.files[p]
              /\ platform = "arch" /\ "conf" \notin left => conf = saved.conf

\* The platform stays what it is.
LEMMA SamePlatform == [HookNext]_hookVars => platform' = platform
<1> SUFFICES ASSUME HookNext PROVE platform' = platform
  BY DEF hookVars, setupVars
<1> USE DEF Return, Continue, Begin, RollBack, setupVars
<1>1. CASE RefuseInstall \/ Refused \/ BeginInstall \/ WriteHook \/ WriteHookFails
  BY <1>1 DEF RefuseInstall, Refused, BeginInstall, WriteHook, WriteHookFails
<1>2. CASE EnableHook \/ EnableHookFails \/ Regenerate \/ RegenerateFails
  BY <1>2 DEF EnableHook, EnableHookFails, Regenerate, RegenerateFails
<1>3. CASE Restore \/ RestoreFails \/ RolledBack \/ BeginUninstall
  BY <1>3 DEF Restore, RestoreFails, RolledBack, BeginUninstall
<1>4. CASE RemoveHook \/ RemoveHookFails \/ DisableHook \/ DisableHookFails
  BY <1>4 DEF RemoveHook, AfterRemoval, RemoveHookFails, DisableHook, DisableHookFails
<1>5. CASE Die \/ KernelUpdate \/ PluginAdded \/ Reconfigure
  BY <1>5 DEF Die, KernelUpdate, PluginAdded, Reconfigure
<1> QED
  BY <1>1, <1>2, <1>3, <1>4, <1>5 DEF HookNext

\* The steps of an uninstall.
LEMMA Uninstalling ==
    ASSUME TypeInv, RemoveHook \/ RemoveHookFails \/ DisableHook \/ DisableHookFails
    PROVE  op = "uninstall" /\ op' # "install"
<1>1. op = "uninstall"
  BY DEF TypeInv, RemoveHook, RemoveHookFails, DisableHook, DisableHookFails
<1>2. op' \in {op, "none"}
  BY DEF RemoveHook, AfterRemoval, RemoveHookFails, DisableHook, DisableHookFails, Return, Continue
<1> QED
  BY <1>1, <1>2

\* Initially nothing is to be undone.
LEMMA UndoInit == HookInit => UndoInv
  BY DEF HookInit, UndoInv

\* Every step preserves what a rollback relies on.
LEMMA UndoStep == TypeInv /\ UndoInv /\ [HookNext]_hookVars => UndoInv'
<1> SUFFICES ASSUME TypeInv, UndoInv, [HookNext]_hookVars PROVE UndoInv'
  OBVIOUS
<1>0. platform' = platform /\ OwnPaths' = OwnPaths
  BY SamePlatform DEF OwnPaths
<1> USE DEF UndoInv, TypeInv, HookTypeOK, FileStates, Return, Continue, Begin, RollBack, fileVars,
            setupVars, imageVars
<1>1. CASE RefuseInstall
  BY <1>1, <1>0 DEF RefuseInstall
<1>2. CASE Refused
  BY <1>2, <1>0 DEF Refused
<1>3. CASE BeginInstall
  BY <1>3, <1>0, PathSets DEF BeginInstall
<1>4. CASE WriteHook
  BY <1>4, <1>0, PathSets, FirstIsLeft DEF WriteHook
<1>5. CASE WriteHookFails
  BY <1>5, <1>0, PathSets, FirstIsLeft DEF WriteHookFails
<1>6. CASE EnableHook
  BY <1>6, <1>0 DEF EnableHook
<1>7. CASE EnableHookFails
  BY <1>7, <1>0 DEF EnableHookFails
<1>8. CASE Regenerate
  BY <1>8, <1>0 DEF Regenerate
<1>9. CASE RegenerateFails
  BY <1>9, <1>0 DEF RegenerateFails
<1>10. CASE Restore
  BY <1>10, <1>0, PathSets, FirstIsLeft DEF Restore
<1>11. CASE RestoreFails
  BY <1>11, <1>0, PathSets, FirstIsLeft DEF RestoreFails
<1>12. CASE RolledBack
  BY <1>12, <1>0 DEF RolledBack
<1>13. CASE BeginUninstall
  BY <1>13, <1>0 DEF BeginUninstall
<1>14. CASE RemoveHook
  BY <1>14, Uninstalling
<1>15. CASE RemoveHookFails
  BY <1>15, Uninstalling
<1>16. CASE DisableHook
  BY <1>16, Uninstalling
<1>17. CASE DisableHookFails
  BY <1>17, Uninstalling
<1>18. CASE Die
  BY <1>18, <1>0 DEF Die
<1>19. CASE KernelUpdate
  BY <1>19, <1>0 DEF KernelUpdate
<1>20. CASE PluginAdded
  BY <1>20, <1>0 DEF PluginAdded
<1>21. CASE Reconfigure
  BY <1>21, <1>0 DEF Reconfigure
<1>22. CASE UNCHANGED hookVars
  BY <1>22, <1>0 DEF hookVars
<1> QED
  BY <1>1, <1>2, <1>3, <1>4, <1>5, <1>6, <1>7, <1>8, <1>9, <1>10, <1>11,
     <1>12, <1>13, <1>14, <1>15, <1>16, <1>17, <1>18, <1>19, <1>20, <1>21, <1>22
     DEF HookNext

-----------------------------------------------------------------------------
(***************************************************************************)
(* An install that succeeds.                                               *)
(***************************************************************************)

\* A path has been written, or will be.
InHand(p) == p \in left \/ files[p] = "new"

\* What an install has still to do is left, and what it has done is there.
WholeInv ==
    op = "install" /\ step \in {"write", "enable", "regenerate"} =>
        /\ \A p \in OwnPaths \ DnfPaths : InHand(p)
        /\ platform = "fedora" => InHand("dnf5") \/ (InHand("dnf4pre") /\ InHand("dnf4post"))
        /\ platform = "arch" => setup.supported
        /\ step # "write" => left = {}
        /\ step = "enable" => platform = "arch"
        /\ step = "regenerate" /\ platform = "arch" => Seen

\* Initially nothing is in hand.
LEMMA WholeInit == HookInit => WholeInv
  BY DEF HookInit, WholeInv

\* Every step preserves what an install has done and has left.
LEMMA WholeStep == TypeInv /\ UndoInv /\ WholeInv /\ [HookNext]_hookVars => WholeInv'
<1> SUFFICES ASSUME TypeInv, UndoInv, WholeInv, [HookNext]_hookVars PROVE WholeInv'
  OBVIOUS
<1>0. platform' = platform /\ OwnPaths' = OwnPaths
  BY SamePlatform DEF OwnPaths
<1> USE DEF WholeInv, InHand, Return, Continue, Begin, RollBack, fileVars, setupVars, imageVars
<1>1. CASE RefuseInstall
  BY <1>1, <1>0 DEF RefuseInstall
<1>2. CASE Refused
  BY <1>2, <1>0 DEF Refused
<1>3. CASE BeginInstall
  <2>1. step' = "write" =>
           /\ left' = ToWrite /\ SetupAllows
           /\ platform = "fedora" => DnfToWrite # {}
    BY <1>3 DEF BeginInstall
  <2>2. step' \in {"write", "rollback"} /\ UNCHANGED <<files, setup>>
    BY <1>3 DEF BeginInstall
  <2>3. OwnPaths \ DnfPaths \subseteq ToWrite
    BY DEF ToWrite, OwnPaths, ArchPaths, FedoraPaths, DnfPaths, DracutPaths
  <2>4. platform = "fedora" /\ DnfToWrite # {} =>
           "dnf5" \in ToWrite \/ {"dnf4pre", "dnf4post"} \subseteq ToWrite
    BY DEF ToWrite, DnfToWrite
  <2> QED
    <3>1. CASE step' = "write"
      <4>1. \A p \in (OwnPaths \ DnfPaths)' : InHand(p)'
        BY <1>0, <2>1, <2>3, <3>1
      <4>2. platform' = "fedora" =>
               InHand("dnf5")' \/ (InHand("dnf4pre")' /\ InHand("dnf4post")')
        BY <1>0, <2>1, <2>4, <3>1
      <4>3. platform' = "arch" => setup'.supported
        BY <1>0, <2>1, <2>2, <3>1 DEF SetupAllows
      <4> QED
        BY <3>1, <4>1, <4>2, <4>3
    <3> QED
      BY <2>2, <3>1
<1>4. CASE WriteHook
  <2>1. PICK p \in FirstToWrite(left) :
           /\ files' = [files EXCEPT ![p] = "new"]
           /\ left' = left \ {p}
           /\ step' = IF left # {p} THEN "write"
                      ELSE IF platform = "arch" THEN "enable" ELSE "regenerate"
    BY <1>4 DEF WriteHook, Content
  <2>2. UNCHANGED <<op, setup, conf>> /\ step = "write"
    BY <1>4 DEF WriteHook
  <2>3. \A q \in Paths : InHand(q) => InHand(q)'
    BY <2>1 DEF TypeInv, HookTypeOK
  <2>4. step' # "write" => left' = {}
    BY <2>1
  <2>5. DnfPaths \subseteq Paths
    BY DEF DnfPaths, Paths, FedoraPaths
  <2> QED
    BY <1>0, <2>1, <2>2, <2>3, <2>4, <2>5, PathSets DEF DnfPaths, SetupInv
<1>5. CASE WriteHookFails
  BY <1>5, <1>0 DEF WriteHookFails
<1>6. CASE EnableHook
  BY <1>6, <1>0, Edits DEF EnableHook, Seen
<1>7. CASE EnableHookFails
  BY <1>7, <1>0 DEF EnableHookFails
<1>8. CASE Regenerate
  BY <1>8, <1>0 DEF Regenerate
<1>9. CASE RegenerateFails
  BY <1>9, <1>0 DEF RegenerateFails
<1>10. CASE Restore
  BY <1>10, <1>0 DEF Restore
<1>11. CASE RestoreFails
  BY <1>11, <1>0 DEF RestoreFails
<1>12. CASE RolledBack
  BY <1>12, <1>0 DEF RolledBack
<1>13. CASE BeginUninstall
  BY <1>13, <1>0 DEF BeginUninstall
<1>14. CASE RemoveHook
  BY <1>14, Uninstalling
<1>15. CASE RemoveHookFails
  BY <1>15, Uninstalling
<1>16. CASE DisableHook
  BY <1>16, Uninstalling
<1>17. CASE DisableHookFails
  BY <1>17, Uninstalling
<1>18. CASE Die
  BY <1>18, <1>0 DEF Die
<1>19. CASE KernelUpdate
  BY <1>19, <1>0 DEF KernelUpdate, Seen
<1>20. CASE PluginAdded
  BY <1>20, <1>0 DEF PluginAdded, Seen
<1>21. CASE Reconfigure
  BY <1>21, <1>0 DEF Reconfigure
<1>22. CASE UNCHANGED hookVars
  BY <1>22, <1>0 DEF hookVars, Seen
<1> QED
  BY <1>1, <1>2, <1>3, <1>4, <1>5, <1>6, <1>7, <1>8, <1>9, <1>10, <1>11,
     <1>12, <1>13, <1>14, <1>15, <1>16, <1>17, <1>18, <1>19, <1>20, <1>21, <1>22
     DEF HookNext

-----------------------------------------------------------------------------
(***************************************************************************)
(* Both together.                                                          *)
(***************************************************************************)

\* The inductive invariant.
HookInv == TypeInv /\ SetupInv /\ UndoInv /\ WholeInv

\* A setup that the user edits is told truly, too.
LEMMA SetupStep == TypeInv /\ UndoInv /\ SetupInv /\ [HookNext]_hookVars => SetupInv'
<1> SUFFICES ASSUME TypeInv, UndoInv, SetupInv, [HookNext]_hookVars PROVE SetupInv'
  OBVIOUS
<1> DEFINE Straight(c) == c \notin {"unseen", "remarked"}
<1>1. ASSUME UNCHANGED <<platform, setup>>,
             setup.form # "crooked" /\ Straight(conf) /\ (op = "install" => Straight(saved.conf)) =>
                Straight(conf') /\ (op' = "install" => Straight(saved'.conf))
      PROVE  SetupInv'
  BY <1>1 DEF SetupInv
<1>2. CASE UNCHANGED <<platform, setup, conf, op, saved>>
  BY <1>1, <1>2
<1>3. CASE UNCHANGED <<platform, setup, conf>> /\ op' # "install"
  BY <1>1, <1>3
<1> USE DEF Return, Continue, Begin, RollBack, fileVars, setupVars, imageVars
<1>4. CASE RefuseInstall \/ BeginInstall \/ BeginUninstall
  <2>1. UNCHANGED <<platform, setup, conf>> /\ (op' = "install" => saved'.conf = conf)
    BY <1>4 DEF RefuseInstall, BeginInstall, BeginUninstall
  <2> QED
    BY <1>1, <2>1
<1>5. CASE Refused \/ Regenerate \/ RolledBack
  BY <1>3, <1>5 DEF Refused, Regenerate, RolledBack
<1>6. CASE WriteHook \/ WriteHookFails
  BY <1>2, <1>6 DEF WriteHook, WriteHookFails
<1>7. CASE RegenerateFails
  BY <1>2, <1>3, <1>7 DEF RegenerateFails
<1>8. CASE EnableHook
  <2>1. setup.form # "crooked" /\ Straight(conf) => Straight(conf')
    BY <1>8, Edits DEF EnableHook
  <2> QED
    BY <1>1, <1>8, <2>1 DEF EnableHook
<1>9. CASE EnableHookFails
  BY <1>1, <1>9 DEF EnableHookFails
<1>10. CASE Restore \/ RestoreFails
  <2>1. /\ UNCHANGED <<platform, setup, op, saved>> /\ conf' \in {conf, saved.conf, "torn"}
        /\ step = "rollback"
    BY <1>10 DEF Restore, RestoreFails
  <2>2. op = "install"
    BY <2>1 DEF TypeInv
  <2> QED
    BY <1>1, <2>1, <2>2
<1>11. CASE RemoveHook \/ RemoveHookFails
  <2>1. UNCHANGED <<platform, setup, conf>>
    BY <1>11 DEF RemoveHook, AfterRemoval, RemoveHookFails
  <2> QED
    BY <1>3, <1>11, <2>1, Uninstalling
<1>12. CASE DisableHook \/ DisableHookFails
  <2>1. /\ UNCHANGED <<platform, setup>>
        /\ conf' \in Disabled \cup {conf, "torn"}
    BY <1>12 DEF DisableHook, DisableHookFails
  <2> QED
    BY <1>1, <1>12, <2>1, Uninstalling, Edits
<1>13. CASE Die
  BY <1>1, <1>13 DEF Die
<1>14. CASE KernelUpdate \/ PluginAdded
  BY <1>2, <1>14 DEF KernelUpdate, PluginAdded
<1>15. CASE Reconfigure
  <2>1. /\ platform' = platform /\ op' = op /\ step = "idle"
        /\ setup' \in Inspections /\ conf' \in Rewritten(setup'.form)
    BY <1>15 DEF Reconfigure
  <2>2. op # "install"
    BY <2>1 DEF UndoInv
  <2>3. setup' \in SetupTypes /\ (setup'.supported => setup'.reach = "all")
    BY <2>1, InspectionsOK
  <2>4. setup'.form # "crooked" => conf' \in {"off", "on", "torn"}
    BY <2>1, <2>3, RewrittenOK DEF SetupTypes
  <2> QED
    BY <2>1, <2>2, <2>3, <2>4 DEF SetupInv
<1>16. CASE UNCHANGED hookVars
  BY <1>2, <1>16 DEF hookVars
<1> QED
  BY <1>4, <1>5, <1>6, <1>7, <1>8, <1>9, <1>10, <1>11, <1>12, <1>13, <1>14, <1>15, <1>16
     DEF HookNext

\* The invariant holds in every reachable state.
LEMMA Inductive == HookSpec => []HookInv
<1>1. HookInit => HookInv
  BY TypeInit, UndoInit, WholeInit DEF HookInv
<1>2. HookInv /\ [HookNext]_hookVars => HookInv'
  BY TypeStep, SetupStep, UndoStep, WholeStep DEF HookInv
<1> QED
  BY <1>1, <1>2, PTL DEF HookSpec

\* The steps that end an install.
LEMMA InstallEnds ==
    ASSUME TypeInv, HookNext, step # "idle", step' = "idle", op = "install"
    PROVE  \/ Refused /\ result' = "refused"
           \/ Regenerate
           \/ RolledBack /\ result' = IF unrestored THEN "unrestored" ELSE "error"
           \/ Die /\ result' = "killed"
<1> USE DEF Return, Continue, Begin, RollBack
<1>1. ~(\/ RefuseInstall \/ BeginInstall \/ WriteHook \/ WriteHookFails
        \/ EnableHook \/ EnableHookFails)
  BY DEF RefuseInstall, BeginInstall, WriteHook, WriteHookFails, EnableHook, EnableHookFails
<1>2. ~(RegenerateFails \/ Restore \/ RestoreFails \/ BeginUninstall)
  BY DEF RegenerateFails, Restore, RestoreFails, BeginUninstall
<1>3. ~(RemoveHook \/ RemoveHookFails \/ DisableHook \/ DisableHookFails)
  BY Uninstalling
<1>4. ~(KernelUpdate \/ PluginAdded \/ Reconfigure)
  BY DEF KernelUpdate, PluginAdded, Reconfigure
<1> QED
  BY <1>1, <1>2, <1>3, <1>4 DEF HookNext, Refused, RolledBack, Die

\* An install that is refused or fails has put back every file and the
\* configuration as it found them, unless it says that it could not, whatever
\* failed and whatever was there.
THEOREM InstallUndone == HookSpec => FailedInstallUndone
<1>1. HookInv /\ [HookNext]_hookVars =>
         [Ends("install", "error") \/ Ends("install", "refused") =>
             files' = saved.files /\ conf' = saved.conf]_hookVars
  <2> SUFFICES ASSUME HookInv, HookNext, op = "install", step # "idle", step' = "idle",
                      result' \in {"error", "refused"}
               PROVE  files' = saved.files /\ conf' = saved.conf
    BY DEF Ends
  <2> USE DEF HookInv
  <2>1. CASE Refused
    BY <2>1 DEF Refused, UndoInv, fileVars
  <2>2. CASE RolledBack /\ ~unrestored
    <3>1. \A p \in Paths : files[p] = saved.files[p]
      BY <2>2 DEF RolledBack, UndoInv
    <3>2. files \in FileStates /\ saved.files \in FileStates
      BY DEF TypeInv, HookTypeOK, FileStates
    <3>3. files = saved.files
      BY <3>1, <3>2 DEF FileStates
    <3>4. conf = saved.conf
      BY <2>2 DEF RolledBack, UndoInv
    <3> QED
      BY <2>2, <3>3, <3>4 DEF RolledBack, fileVars
  <2> QED
    BY <2>1, <2>2, InstallEnds DEF Regenerate, Return
<1> QED
  BY <1>1, Inductive, PTL DEF HookSpec, FailedInstallUndone

\* An install that succeeds leaves every hook of this release in place, whatever
\* an earlier operation left and however mkinitcpio is set up; the interface
\* says so unless the edit of HOOKS could miss them; and when it does, every
\* image has the hook.
THEOREM InstallIsWhole == HookSpec => InstallComplete
<1>1. HookInv /\ [HookNext]_hookVars =>
         [Ends("install", "ok") =>
             /\ setup.form = "plain" => HooksInstalled'
             /\ HooksInstalled' => images' = "new"
             /\ \A p \in ArchPaths \cup DracutPaths \cup {"dracutconf"} :
                   p \in OwnPaths => files'[p] = "new"
             /\ platform = "fedora" =>
                   files'["dnf5"] = "new" \/ {files'["dnf4pre"], files'["dnf4post"]} = {"new"}
            ]_hookVars
  <2> SUFFICES ASSUME HookInv, HookNext, op = "install", step # "idle", step' = "idle",
                      result' = "ok"
               PROVE  /\ setup.form = "plain" => HooksInstalled'
                      /\ HooksInstalled' => images' = "new"
                      /\ \A p \in ArchPaths \cup DracutPaths \cup {"dracutconf"} :
                            p \in OwnPaths => files'[p] = "new"
                      /\ platform = "fedora" =>
                            \/ files'["dnf5"] = "new"
                            \/ {files'["dnf4pre"], files'["dnf4post"]} = {"new"}
    BY DEF Ends
  <2> USE DEF HookInv
  <2>1. Regenerate
    BY InstallEnds
  <2>2. /\ step = "regenerate" /\ images' = Built
        /\ UNCHANGED <<files, conf, platform, setup>>
    BY <2>1 DEF Regenerate, Return, fileVars, setupVars
  <2>3. left = {}
    BY <2>2 DEF WholeInv
  <2>4. \A p \in OwnPaths \ DnfPaths : files[p] = "new"
    BY <2>2, <2>3 DEF WholeInv, InHand
  <2>5. platform = "fedora" =>
           files["dnf5"] = "new" \/ (files["dnf4pre"] = "new" /\ files["dnf4post"] = "new")
    BY <2>2, <2>3 DEF WholeInv, InHand
  <2>6. platform \in {"arch", "fedora"}
    BY HookConstantsOK DEF TypeInv, HookTypeOK
  <2>7. CASE platform = "arch"
    <3>1. /\ setup.supported /\ setup.reach = "all"
          /\ setup.form = "plain" => conf = "on"
      BY <2>2, <2>7 DEF WholeInv, SetupInv, Seen
    <3>2. \A p \in ArchPaths : files[p] = "new" /\ p \in OwnPaths
      BY <2>4, <2>7 DEF OwnPaths, ArchPaths, DnfPaths
    <3>3. conf = "on" => Built = "new"
      BY <2>7, <3>1, <3>2 DEF Built, BuiltForArch, ArchPaths, Named
    <3>4. HooksInstalled' <=> conf = "on"
      BY <2>2, <2>7, <3>1, <3>2 DEF HooksInstalled, Present
    <3> QED
      BY <2>2, <2>7, <3>1, <3>2, <3>3, <3>4 DEF OwnPaths
  <2>8. CASE platform = "fedora"
    <3>1. \A p \in DracutPaths \cup {"dracutconf"} : files[p] = "new"
      BY <2>4, <2>8 DEF OwnPaths, FedoraPaths, DracutPaths, DnfPaths
    <3>2. Built = "new"
      BY <2>8, <3>1 DEF Built, DracutPaths
    <3>3. HooksInstalled'
      BY <2>2, <2>5, <2>8, <3>1 DEF HooksInstalled, Present
    <3>4. \A p \in ArchPaths : p \notin OwnPaths
      BY <2>8 DEF OwnPaths, FedoraPaths, ArchPaths, DracutPaths, DnfPaths
    <3> QED
      BY <2>2, <2>5, <2>8, <3>1, <3>2, <3>3, <3>4
  <2> QED
    BY <2>6, <2>7, <2>8
<1> QED
  BY <1>1, Inductive, PTL DEF HookSpec, InstallComplete

-----------------------------------------------------------------------------
(***************************************************************************)
(* What lasts between operations.                                          *)
(***************************************************************************)

\* The configuration is Arch's and the module directory Fedora's; an install
\* that has nothing of the module left has made its directory.
PlaceInv ==
    /\ platform # "arch" => conf = "off" /\ saved.conf = "off"
    /\ platform = "arch" => ~moduleDir
    /\ step = "disable" => platform = "arch"
    /\ op = "install" /\ step \in {"write", "regenerate"} /\ platform = "fedora" =>
          moduleDir \/ DracutPaths \subseteq left

\* While an uninstall runs, every path that is not left is gone, and the
\* module's two go together with their directory.
RemoveInv ==
    op = "uninstall" =>
        /\ step \in {"remove", "disable", "regenerate"}
        /\ left \subseteq OwnPaths
        /\ \A p \in OwnPaths \ left : files[p] = "none"
        /\ step # "remove" => left = {}
        /\ DracutPaths \subseteq left \/ (DracutPaths \cap left = {} /\ ~moduleDir)
        /\ step = "regenerate" /\ platform = "arch" => conf \in {"off", "unseen"}

\* Every hook is there, and in the images unless the setup has changed or HOOKS
\* do not have it.
Whole ==
    /\ \A p \in OwnPaths \ DnfPaths : files[p] \in {"old", "new"}
    /\ platform = "arch" =>
          /\ conf # "torn"
          /\ ~stale /\ setup.supported /\ conf = "on" => images \in {"old", "new"}
          /\ ~stale /\ ~Named => images = "without"
    /\ platform = "fedora" =>
          /\ Present("dnf5") \/ (Present("dnf4pre") /\ Present("dnf4post"))
          /\ moduleDir
          /\ images \in {"old", "new"}

\* No hook is there, nor in the images unless the setup has changed.  An
\* uninstall may have missed it in HOOKS; no image can be built from these.
Bare ==
    /\ \A p \in OwnPaths : files[p] = "none"
    /\ conf # "torn" /\ ~moduleDir
    /\ ~stale /\ ~Named => images = "without"
    /\ ~stale /\ Named => setup.form = "crooked" \/ images \notin {"old", "new"}

\* As long as nothing has failed the hooks are whole or bare between
\* operations, and an uninstall that removes something builds the images.
CleanInv ==
    ~spoiled =>
        /\ step \in {"idle", "refused"} => Whole \/ Bare
        /\ op = "uninstall" /\ platform = "arch" /\ step \in {"remove", "disable"} =>
              conf # "torn" /\ (~stale /\ ~Named => images = "without")
        /\ op = "uninstall" /\ platform = "fedora" /\ step = "remove" =>
              Bare \/ removed \/ ("dracutconf" \in left /\ Present("dracutconf"))

SettledInv == HookInv /\ PlaceInv /\ RemoveInv /\ CleanInv

\* The platforms' paths.
LEMMA OwnPathSets ==
    /\ platform = "arch" => OwnPaths = {"pre", "post", "install", "runtime"}
    /\ platform = "fedora" =>
          OwnPaths = {"dnf5", "dnf4pre", "dnf4post", "setup", "restore", "dracutconf"}
    /\ DracutPaths = {"setup", "restore"} /\ DnfPaths = {"dnf5", "dnf4pre", "dnf4post"}
  BY DEF OwnPaths, ArchPaths, FedoraPaths, DracutPaths, DnfPaths

\* The two platforms are all there are.
LEMMA TwoPlatforms == TypeInv => platform \in {"arch", "fedora"}
  BY HookConstantsOK DEF TypeInv, HookTypeOK

\* What a build makes of the hooks when they are whole, and when they are not
\* there.
LEMMA BuiltWhole ==
    ASSUME TypeInv, SetupInv, Whole
    PROVE  /\ Built # "broken"
           /\ platform = "fedora" \/ (setup.supported /\ Named) => Built \in {"old", "new"}
           /\ platform = "arch" /\ ~Named => Built = "without"
<1>1. CASE platform = "arch"
  <2>1. /\ conf # "torn" /\ files["install"] \in {"old", "new"}
        /\ files["runtime"] \in {"old", "new"}
    BY <1>1, OwnPathSets DEF Whole
  <2>2. Built = IF Named THEN BuiltForArch ELSE "without"
    BY <1>1, <2>1 DEF Built
  <2>3. BuiltForArch \in {files["runtime"], "mixed", "without"}
    BY DEF BuiltForArch
  <2>4. setup.supported => BuiltForArch = files["runtime"]
    BY <1>1 DEF BuiltForArch, SetupInv
  <2> QED
    BY <1>1, <2>1, <2>2, <2>3, <2>4
<1>2. CASE platform = "fedora"
  <2>1. \A p \in DracutPaths : files[p] \in {"old", "new"}
    BY <1>2, OwnPathSets DEF Whole
  <2>2. Built = files["restore"]
    BY <1>2, <2>1 DEF Built
  <2> QED
    BY <1>2, <2>1, <2>2, OwnPathSets
<1> QED
  BY <1>1, <1>2, TwoPlatforms

LEMMA BuiltBare ==
    ASSUME TypeInv, PlaceInv, \A p \in OwnPaths : files[p] = "none", conf # "torn"
    PROVE  Built = IF Named THEN "broken" ELSE "without"
<1>1. CASE platform = "arch"
  <2>1. files["install"] = "none"
    BY <1>1, OwnPathSets
  <2> QED
    BY <1>1, <2>1 DEF Built
<1>2. CASE platform = "fedora"
  <2>1. \A p \in DracutPaths \cup {"dracutconf"} : files[p] = "none"
    BY <1>2, OwnPathSets
  <2>2. ~Named
    BY <1>2 DEF PlaceInv, Named
  <2> QED
    BY <1>2, <2>1, <2>2, OwnPathSets DEF Built, Present
<1> QED
  BY <1>1, <1>2, TwoPlatforms

\* The order of Fedora's paths.
LEMMA FedoraRanks ==
    /\ Rank["dnf5"] = 1 /\ Rank["dnf4pre"] = 2 /\ Rank["dnf4post"] = 3
    /\ Rank["setup"] = 4 /\ Rank["restore"] = 5 /\ Rank["dracutconf"] = 6
<1>1. {"dnf5", "dnf4pre", "dnf4post", "setup", "restore", "dracutconf"}
         \subseteq Paths \cup {"conf"}
  BY DEF Paths, ArchPaths, FedoraPaths, DnfPaths, DracutPaths
<1>2. Rank["dnf5"] = 1
  BY <1>1 DEF Rank
<1>3. Rank["dnf4pre"] = 2
  BY <1>1 DEF Rank
<1>4. Rank["dnf4post"] = 3
  BY <1>1 DEF Rank
<1>5. Rank["setup"] = 4
  BY <1>1 DEF Rank
<1>6. Rank["restore"] = 5
  BY <1>1 DEF Rank
<1>7. Rank["dracutconf"] = 6
  BY <1>1 DEF Rank
<1> QED
  BY <1>2, <1>3, <1>4, <1>5, <1>6, <1>7

\* An uninstall takes the module's files both or neither.
LEMMA RemovedTogether ==
    ASSUME TypeInv, RemoveInv, op = "uninstall"
    PROVE  /\ Removing \subseteq left
           /\ Removing = DracutPaths \/ Removing \cap DracutPaths = {}
<1>1. Removing \subseteq left
  BY FirstIsLeft DEF Removing
<1>2. CASE First(left) \subseteq DracutPaths
  BY <1>2 DEF Removing, FirstToWrite, RemoveInv
<1>3. CASE ~(First(left) \subseteq DracutPaths)
  <2>1. Removing = First(left)
    BY <1>3 DEF Removing, FirstToWrite
  <2>2. PICK q \in First(left) : q \notin DracutPaths
    BY <1>3
  <2>3. ASSUME NEW p \in First(left), p \in DracutPaths PROVE FALSE
    <3>1. p \in left /\ q \in left /\ left \subseteq OwnPaths
      BY <2>2, <2>3, FirstIsLeft DEF RemoveInv
    <3>2. platform = "fedora"
      BY <3>1, <2>3, OwnPathSets, TwoPlatforms
    <3>3. q \in {"dnf5", "dnf4pre", "dnf4post", "dracutconf"} /\ p \in {"setup", "restore"}
      BY <2>2, <2>3, <3>1, <3>2, OwnPathSets
    <3>4. Rank[p] <= Rank[q] /\ Rank[q] <= Rank[p]
      BY <2>2, <2>3, <3>1 DEF First
    <3>5. Rank[q] \in {1, 2, 3, 6}
      BY <3>3, FedoraRanks
    <3>6. Rank[p] \in {4, 5}
      BY <3>3, FedoraRanks
    <3> QED
      BY <3>4, <3>5, <3>6
  <2> QED
    BY <1>1, <2>1, <2>3
<1> QED
  BY <1>1, <1>2, <1>3

\* Initially all of it holds.
LEMMA SettledInit == HookInit => PlaceInv /\ RemoveInv /\ CleanInv
<1> SUFFICES ASSUME HookInit PROVE PlaceInv /\ RemoveInv /\ CleanInv
  OBVIOUS
<1>1. PlaceInv
  BY DEF HookInit, PlaceInv, NoSnapshots
<1>2. RemoveInv
  BY DEF HookInit, RemoveInv
<1>3. Whole \/ Bare
  <2>1. PICK installed \in BOOLEAN :
           /\ installed => platform = "arch" \/ DnfToWrite # {}
           /\ files = [p \in Paths |-> IF installed /\ p \in ToWrite THEN "old" ELSE "none"]
           /\ moduleDir = (installed /\ platform = "fedora")
           /\ conf = IF installed /\ platform = "arch" THEN "on" ELSE "off"
           /\ images = IF installed THEN "old" ELSE "without"
    BY DEF HookInit
  <2>2. CASE ~installed
    BY <2>1, <2>2, PathSets DEF Bare, Named
  <2>3. CASE installed
    <3>1. \A p \in ToWrite : files[p] = "old"
      BY <2>1, <2>3, PathSets
    <3>2. OwnPaths \ DnfPaths \subseteq ToWrite
      BY DEF ToWrite, OwnPaths, ArchPaths, FedoraPaths, DnfPaths, DracutPaths
    <3>3. platform = "fedora" =>
             "dnf5" \in ToWrite \/ {"dnf4pre", "dnf4post"} \subseteq ToWrite
      BY <2>1, <2>3 DEF ToWrite, DnfToWrite
    <3>4. conf = "on" \/ platform # "arch"
      BY <2>1, <2>3
    <3> QED
      BY <2>1, <2>3, <3>1, <3>2, <3>3, <3>4 DEF Whole, Present, Named
  <2> QED
    BY <2>2, <2>3
<1>4. CleanInv
  BY <1>3 DEF HookInit, CleanInv
<1> QED
  BY <1>1, <1>2, <1>4

\* Every step keeps to its platform's places.
LEMMA PlaceStep == HookInv /\ RemoveInv /\ PlaceInv /\ [HookNext]_hookVars => PlaceInv'
<1> SUFFICES ASSUME HookInv, RemoveInv, PlaceInv, [HookNext]_hookVars PROVE PlaceInv'
  OBVIOUS
<1>0. platform' = platform
  BY SamePlatform
<1> USE DEF HookInv, PlaceInv, UndoInv, TypeInv, Return, Continue, Begin, RollBack, NoSnapshots,
            fileVars, setupVars, imageVars
<1>1. CASE RefuseInstall
  BY <1>1, <1>0 DEF RefuseInstall
<1>2. CASE Refused
  BY <1>2, <1>0 DEF Refused
<1>3. CASE BeginInstall
  <2>1. step' = "write" => left' = ToWrite
    BY <1>3 DEF BeginInstall
  <2>2. platform = "fedora" => DracutPaths \subseteq ToWrite
    BY DEF ToWrite
  <2>3. /\ step' \in {"write", "rollback"} /\ UNCHANGED <<conf, moduleDir>>
        /\ saved'.conf = conf
    BY <1>3 DEF BeginInstall
  <2> QED
    BY <1>0, <2>1, <2>2, <2>3
<1>4. CASE WriteHook
  BY <1>4, <1>0, OwnPathSets, FirstIsLeft DEF WriteHook
<1>5. CASE WriteHookFails
  BY <1>5, <1>0, OwnPathSets, FirstIsLeft DEF WriteHookFails
<1>6. CASE EnableHook
  BY <1>6, <1>0 DEF EnableHook
<1>7. CASE EnableHookFails
  BY <1>7, <1>0 DEF EnableHookFails
<1>8. CASE Regenerate
  BY <1>8, <1>0 DEF Regenerate
<1>9. CASE RegenerateFails
  BY <1>9, <1>0 DEF RegenerateFails
<1>10. CASE Restore
  BY <1>10, <1>0 DEF Restore
<1>11. CASE RestoreFails
  BY <1>11, <1>0, FirstIsLeft, PathSets DEF RestoreFails
<1>12. CASE RolledBack
  BY <1>12, <1>0 DEF RolledBack
<1>13. CASE BeginUninstall
  BY <1>13, <1>0 DEF BeginUninstall
<1>14. CASE RemoveHook
  <2>1. step = "remove" /\ op = "uninstall" /\ op' # "install"
    BY <1>14, Uninstalling DEF RemoveHook
  <2>2. moduleDir' = (moduleDir /\ Removing # DracutPaths) /\ conf' = conf
    BY <1>14 DEF RemoveHook
  <2>3. /\ step' = "disable" => platform = "arch"
        /\ saved' = saved \/ saved'.conf = "off"
    BY <1>14 DEF RemoveHook, AfterRemoval
  <2> QED
    BY <1>0, <2>1, <2>2, <2>3
<1>15. CASE RemoveHookFails
  BY <1>15, <1>0 DEF RemoveHookFails
<1>16. CASE DisableHook
  BY <1>16, <1>0 DEF DisableHook
<1>17. CASE DisableHookFails
  BY <1>17, <1>0 DEF DisableHookFails
<1>18. CASE Die
  <2>1. step = "rollback" /\ First(left) = {"conf"} => platform = "arch"
    BY PathSets, FirstIsLeft, TwoPlatforms
  <2>2. step \in {"enable", "disable"} => platform = "arch"
    OBVIOUS
  <2>3. UNCHANGED <<platform, moduleDir>> /\ op' = "none" /\ step' = "idle"
    BY <1>18 DEF Die
  <2>4. saved'.conf = "off" /\ (conf' = conf \/ platform = "arch")
    BY <1>18, <2>1, <2>2 DEF Die, ConfInWriting
  <2> QED
    BY <2>3, <2>4
<1>19. CASE KernelUpdate
  BY <1>19, <1>0 DEF KernelUpdate
<1>20. CASE PluginAdded
  BY <1>20, <1>0 DEF PluginAdded
<1>21. CASE Reconfigure
  BY <1>21, <1>0 DEF Reconfigure
<1>22. CASE UNCHANGED hookVars
  BY <1>22, <1>0 DEF hookVars
<1> QED
  BY <1>1, <1>2, <1>3, <1>4, <1>5, <1>6, <1>7, <1>8, <1>9, <1>10, <1>11,
     <1>12, <1>13, <1>14, <1>15, <1>16, <1>17, <1>18, <1>19, <1>20, <1>21, <1>22
     DEF HookNext

\* Every step of an uninstall keeps what it has removed away.
LEMMA RemoveStep == HookInv /\ RemoveInv /\ PlaceInv /\ [HookNext]_hookVars => RemoveInv'
<1> SUFFICES ASSUME HookInv, RemoveInv, PlaceInv, [HookNext]_hookVars PROVE RemoveInv'
  OBVIOUS
<1>0. platform' = platform /\ OwnPaths' = OwnPaths
  BY SamePlatform DEF OwnPaths
<1> USE DEF HookInv, PlaceInv, RemoveInv, TypeInv, Return, Continue, Begin, RollBack,
            fileVars, setupVars, imageVars
<1>1. CASE RefuseInstall
  BY <1>1, <1>0 DEF RefuseInstall
<1>2. CASE Refused
  BY <1>2, <1>0 DEF Refused
<1>3. CASE BeginInstall
  BY <1>3, <1>0 DEF BeginInstall
<1>4. CASE WriteHook
  BY <1>4, <1>0 DEF WriteHook
<1>5. CASE WriteHookFails
  BY <1>5, <1>0 DEF WriteHookFails
<1>6. CASE EnableHook
  BY <1>6, <1>0 DEF EnableHook
<1>7. CASE EnableHookFails
  BY <1>7, <1>0 DEF EnableHookFails
<1>8. CASE Regenerate
  BY <1>8, <1>0 DEF Regenerate
<1>9. CASE RegenerateFails
  BY <1>9, <1>0 DEF RegenerateFails
<1>10. CASE Restore
  BY <1>10, <1>0 DEF Restore
<1>11. CASE RestoreFails
  BY <1>11, <1>0 DEF RestoreFails
<1>12. CASE RolledBack
  BY <1>12, <1>0 DEF RolledBack
<1>13. CASE BeginUninstall
  BY <1>13, <1>0, TwoPlatforms, OwnPathSets DEF BeginUninstall
<1>14. CASE RemoveHook
  <2>1. op = "uninstall" /\ step = "remove"
    BY <1>14 DEF RemoveHook
  <2>2. /\ files' = [p \in Paths |-> IF p \in Removing THEN "none" ELSE files[p]]
        /\ moduleDir' = (moduleDir /\ Removing # DracutPaths)
        /\ conf' = conf
    BY <1>14 DEF RemoveHook
  <2>3. \/ op' = "none"
        \/ /\ op' = op /\ left # Removing
           /\ step' = "remove" /\ left' = left \ Removing
        \/ /\ op' = op /\ left = Removing /\ left' = {}
           /\ step' = IF platform = "arch" THEN "disable" ELSE "regenerate"
    BY <1>14 DEF RemoveHook, AfterRemoval
  <2>4. left' = left \ Removing \/ op' = "none"
    BY <2>3
  <2>5. \A p \in OwnPaths \ (left \ Removing) : files'[p] = "none"
    BY <2>1, <2>2, PathSets
  <2>6. \/ DracutPaths \subseteq left \ Removing
        \/ DracutPaths \cap (left \ Removing) = {} /\ ~moduleDir'
    BY <2>1, <2>2, RemovedTogether
  <2>7. CASE op' = "none"
    BY <2>7
  <2>8. CASE op' = op
    <3>1. left' = left \ Removing
      BY <2>1, <2>4, <2>8
    <3>2. left' \subseteq OwnPaths' /\ \A p \in OwnPaths' \ left' : files'[p] = "none"
      BY <1>0, <2>1, <2>5, <3>1
    <3>3. DracutPaths \subseteq left' \/ (DracutPaths \cap left' = {} /\ ~moduleDir')
      BY <2>6, <3>1
    <3>4. /\ step' \in {"remove", "disable", "regenerate"}
          /\ step' # "remove" => left' = {}
          /\ step' = "regenerate" => platform # "arch"
      BY <2>1, <2>3, <2>8
    <3> QED
      BY <1>0, <3>2, <3>3, <3>4
  <2> QED
    BY <2>3, <2>7, <2>8
<1>15. CASE RemoveHookFails
  BY <1>15, <1>0 DEF RemoveHookFails
<1>16. CASE DisableHook
  BY <1>16, <1>0, Edits DEF DisableHook
<1>17. CASE DisableHookFails
  BY <1>17, <1>0 DEF DisableHookFails
<1>18. CASE Die
  BY <1>18, <1>0 DEF Die
<1>19. CASE KernelUpdate
  BY <1>19, <1>0 DEF KernelUpdate
<1>20. CASE PluginAdded
  BY <1>20, <1>0 DEF PluginAdded
<1>21. CASE Reconfigure
  BY <1>21, <1>0 DEF Reconfigure
<1>22. CASE UNCHANGED hookVars
  BY <1>22, <1>0 DEF hookVars
<1> QED
  BY <1>1, <1>2, <1>3, <1>4, <1>5, <1>6, <1>7, <1>8, <1>9, <1>10, <1>11,
     <1>12, <1>13, <1>14, <1>15, <1>16, <1>17, <1>18, <1>19, <1>20, <1>21, <1>22
     DEF HookNext

\* Nothing on disk changes.
Same == UNCHANGED <<platform, files, moduleDir, conf, setup, images, stale>>

LEMMA SameState == Same => (Whole => Whole') /\ (Bare => Bare')
<1> SUFFICES ASSUME Same PROVE (Whole => Whole') /\ (Bare => Bare')
  OBVIOUS
<1>1. OwnPaths' = OwnPaths
  BY DEF Same, OwnPaths
<1> QED
  BY <1>1 DEF Same, Whole, Bare, Present, Named

\* The rebuild that ends an install or an uninstall.
LEMMA InstalledWhole ==
    ASSUME HookInv, PlaceInv, Regenerate, op = "install"
    PROVE  Whole' /\ op' # "uninstall"
<1>1. /\ step = "regenerate" /\ op' = "none" /\ images' = Built /\ Built # "broken"
      /\ UNCHANGED <<platform, files, moduleDir, conf, setup>>
  BY DEF Regenerate, Return, fileVars, setupVars
<1>2. left = {} /\ OwnPaths' = OwnPaths
  BY <1>1 DEF HookInv, WholeInv, OwnPaths
<1>3. \A p \in OwnPaths \ DnfPaths : files[p] = "new"
  BY <1>1, <1>2 DEF HookInv, WholeInv, InHand
<1>4. platform = "fedora" =>
         files["dnf5"] = "new" \/ (files["dnf4pre"] = "new" /\ files["dnf4post"] = "new")
  BY <1>1, <1>2 DEF HookInv, WholeInv, InHand
<1>5. platform = "arch" => conf \in {"on", "remarked"} /\ setup.supported
  BY <1>1 DEF HookInv, WholeInv, Seen
<1>6. CASE platform = "arch"
  <2>1. Built = IF Named THEN "new" ELSE "without"
    <3>1. files["install"] = "new" /\ files["runtime"] = "new"
      BY <1>3, <1>6, OwnPathSets
    <3>2. BuiltForArch = "new"
      BY <1>5, <1>6, <3>1 DEF BuiltForArch, HookInv, SetupInv
    <3> QED
      BY <1>5, <1>6, <3>1, <3>2 DEF Built
  <2> QED
    BY <1>1, <1>2, <1>3, <1>5, <1>6, <2>1 DEF Whole, Named
<1>7. CASE platform = "fedora"
  <2>1. moduleDir
    BY <1>1, <1>2, <1>7, OwnPathSets DEF PlaceInv
  <2>2. Built = "new"
    BY <1>3, <1>7, OwnPathSets DEF Built
  <2> QED
    BY <1>1, <1>2, <1>3, <1>4, <1>7, <2>1, <2>2 DEF Whole, Present
<1> QED
  BY <1>1, <1>6, <1>7, TwoPlatforms DEF HookInv

LEMMA UninstalledBare ==
    ASSUME HookInv, PlaceInv, RemoveInv, Regenerate, op = "uninstall"
    PROVE  Bare' /\ conf' = "off" /\ images' = "without" /\ op' # "uninstall"
<1>1. /\ step = "regenerate" /\ op' = "none" /\ images' = Built /\ Built # "broken"
      /\ UNCHANGED <<platform, files, moduleDir, conf, setup>>
  BY DEF Regenerate, Return, fileVars, setupVars
<1>2. left = {} /\ OwnPaths' = OwnPaths
  BY <1>1 DEF RemoveInv, OwnPaths
<1>3. (\A p \in OwnPaths : files[p] = "none") /\ conf \in {"off", "unseen"}
  BY <1>1, <1>2, TwoPlatforms DEF RemoveInv, PlaceInv, HookInv
<1>4. ~moduleDir
  BY <1>2, OwnPathSets DEF RemoveInv
<1>5. Built = IF Named THEN "broken" ELSE "without"
  BY <1>3, BuiltBare DEF HookInv
<1>6. ~Named /\ Built = "without" /\ conf = "off"
  BY <1>1, <1>3, <1>5 DEF Named
<1> QED
  BY <1>1, <1>2, <1>3, <1>4, <1>6 DEF Bare, Named

\* A removal that ends the uninstall at once.
LEMMA LastRemoved ==
    ASSUME TypeInv, RemoveHook, step' = "idle"
    PROVE  /\ left = Removing /\ platform # "arch" /\ ~(removed \/ IsThere)
           /\ op' = "none" /\ result' = "ok" /\ (~spoiled' => ~spoiled)
<1>1. left = Removing /\ platform # "arch"
  BY DEF RemoveHook, AfterRemoval, Continue
<1>2. op = "uninstall"
  BY Uninstalling
<1>3. IF removed' THEN Continue("regenerate", {}) ELSE Return("ok")
  BY <1>1 DEF RemoveHook, AfterRemoval
<1>4. ~removed' /\ Return("ok")
  BY <1>3 DEF Continue
<1> QED
  BY <1>1, <1>2, <1>4 DEF RemoveHook, Return

\* Every step keeps the hooks whole or bare as long as nothing fails.
LEMMA CleanStep == SettledInv /\ [HookNext]_hookVars => CleanInv'
<1> SUFFICES ASSUME SettledInv, [HookNext]_hookVars PROVE CleanInv'
  OBVIOUS
<1>0. platform' = platform /\ OwnPaths' = OwnPaths
  BY SamePlatform DEF OwnPaths
<1> USE DEF SettledInv, HookInv, CleanInv, PlaceInv, RemoveInv, TypeInv, Return, Continue, Begin,
            RollBack, fileVars, setupVars, imageVars
<1>1. CASE RefuseInstall
  <2>1. Same /\ step = "idle" /\ spoiled' = spoiled /\ op' = "install"
    BY <1>1 DEF RefuseInstall, Same
  <2> QED
    BY <2>1, SameState
<1>2. CASE Refused
  <2>1. Same /\ step = "refused" /\ (~spoiled' => ~spoiled) /\ op' = "none"
    BY <1>2 DEF Refused, Same
  <2> QED
    BY <2>1, SameState
<1>3. CASE BeginInstall
  BY <1>3 DEF BeginInstall
<1>4. CASE WriteHook
  BY <1>4 DEF WriteHook
<1>5. CASE WriteHookFails
  BY <1>5 DEF WriteHookFails
<1>6. CASE EnableHook
  BY <1>6 DEF EnableHook
<1>7. CASE EnableHookFails
  BY <1>7 DEF EnableHookFails
<1>8. CASE Regenerate
  <2>1. op \in {"install", "uninstall"}
    BY <1>8 DEF Regenerate, TypeInv
  <2>2. CASE op = "install"
    BY <1>8, <2>2, InstalledWhole DEF Regenerate
  <2>3. CASE op = "uninstall"
    BY <1>8, <2>3, UninstalledBare DEF Regenerate
  <2> QED
    BY <2>1, <2>2, <2>3
<1>9. CASE RegenerateFails
  <2>1. spoiled' \/ (op' = "install" /\ step' = "rollback")
    BY <1>9 DEF RegenerateFails
  <2> QED
    BY <2>1
<1>10. CASE Restore
  BY <1>10 DEF Restore
<1>11. CASE RestoreFails
  BY <1>11 DEF RestoreFails
<1>12. CASE RolledBack
  <2>1. spoiled'
    BY <1>12 DEF RolledBack
  <2> QED
    BY <2>1
<1>13. CASE BeginUninstall
  <2>1. Same /\ step = "idle" /\ spoiled' = spoiled /\ left' = OwnPaths /\ step' = "remove"
    BY <1>13 DEF BeginUninstall, Same
  <2>2. CASE spoiled
    BY <2>1, <2>2
  <2>3. CASE ~spoiled /\ Whole
    <3>1. platform = "fedora" => Present("dracutconf")' /\ "dracutconf" \in left'
      BY <2>1, <2>3, OwnPathSets DEF Whole, Present, Same
    <3>2. platform = "arch" => conf' # "torn" /\ (~stale' /\ ~Named' => images' = "without")
      BY <2>1, <2>3 DEF Whole, Same, Named
    <3> QED
      BY <1>0, <2>1, <3>1, <3>2
  <2>4. CASE ~spoiled /\ Bare
    <3>1. Bare' /\ conf' # "torn" /\ (~stale' /\ ~Named' => images' = "without")
      BY <2>1, <2>4, SameState DEF Bare, Same, Named
    <3> QED
      BY <1>0, <2>1, <3>1
  <2> QED
    BY <2>1, <2>2, <2>3, <2>4
<1>14. CASE RemoveHook
  <2>1. op = "uninstall" /\ step = "remove" /\ UNCHANGED <<conf, images, stale, setup, Named>>
    BY <1>14 DEF RemoveHook, AfterRemoval, Named
  <2>2. /\ files' = [p \in Paths |-> IF p \in Removing THEN "none" ELSE files[p]]
        /\ moduleDir' = (moduleDir /\ Removing # DracutPaths)
        /\ removed' = (removed \/ IsThere) \/ op' = "none"
    BY <1>14 DEF RemoveHook
  <2>3. Bare => Bare'
    BY <1>0, <2>1, <2>2, PathSets DEF Bare
  <2>4. ~spoiled' => ~spoiled
    BY <1>14, <2>1 DEF RemoveHook, AfterRemoval
  <2>5. CASE step' = "remove"
    <3>1. left' = left \ Removing /\ removed' = (removed \/ IsThere)
      BY <1>14, <2>5 DEF RemoveHook, AfterRemoval
    <3>2. "dracutconf" \in left /\ Present("dracutconf") =>
             IsThere \/ ("dracutconf" \in left' /\ Present("dracutconf")')
      BY <2>2, <3>1, OwnPathSets DEF IsThere, Present, Paths, FedoraPaths
    <3> QED
      BY <1>0, <2>1, <2>3, <2>4, <2>5, <3>1, <3>2
  <2>6. CASE step' \in {"disable", "regenerate"}
    BY <1>0, <2>1, <2>4, <2>6
  <2>7. CASE step' = "idle"
    <3>1. /\ left = Removing /\ platform # "arch" /\ ~(removed \/ IsThere)
          /\ op' = "none" /\ (~spoiled' => ~spoiled)
      BY <1>14, <2>7, LastRemoved
    <3>2. ~("dracutconf" \in left /\ Present("dracutconf"))
      BY <3>1, OwnPathSets DEF IsThere, Present
    <3>3. ~spoiled' => Bare
      BY <2>1, <3>1, <3>2, TwoPlatforms
    <3> QED
      BY <2>3, <3>1, <3>3
  <2> QED
    BY <1>14, <2>5, <2>6, <2>7 DEF RemoveHook, AfterRemoval
<1>15. CASE RemoveHookFails
  <2>1. spoiled'
    BY <1>15 DEF RemoveHookFails
  <2> QED
    BY <2>1
<1>16. CASE DisableHook
  <2>1. /\ op = "uninstall" /\ step = "disable" /\ platform = "arch"
        /\ UNCHANGED <<files, moduleDir, images, stale, setup>>
    BY <1>16 DEF DisableHook
  <2>2. CASE Seen
    BY <1>16, <2>2 DEF DisableHook
  <2>3. CASE ~Seen
    <3>1. op' = "none" /\ step' = "idle" /\ conf' = conf /\ (~spoiled' => ~spoiled)
      BY <1>16, <2>1, <2>3 DEF DisableHook
    <3>2. \A p \in OwnPaths : files[p] = "none"
      BY <2>1
    <3>3. Named' = Named /\ (Named => setup.form = "crooked")
      BY <2>3, <3>1 DEF SetupInv, Named, Seen
    <3>4. ~spoiled => conf # "torn" /\ (~stale /\ ~Named => images = "without")
      BY <2>1
    <3>5. ~spoiled' => Bare'
      BY <1>0, <2>1, <3>1, <3>2, <3>3, <3>4 DEF Bare
    <3> QED
      BY <3>1, <3>5
  <2> QED
    BY <2>2, <2>3
<1>17. CASE DisableHookFails
  <2>1. spoiled'
    BY <1>17 DEF DisableHookFails
  <2> QED
    BY <2>1
<1>18. CASE Die
  <2>1. spoiled'
    BY <1>18 DEF Die
  <2> QED
    BY <2>1
<1>19. CASE KernelUpdate
  <2>1. /\ UNCHANGED <<platform, files, moduleDir, conf, setup, op, step, left, removed, spoiled>>
        /\ images' = Built /\ stale' = FALSE /\ Named' = Named
    BY <1>19 DEF KernelUpdate, Named
  <2>2. Whole => Whole'
    <3>1. conf = "on" => Named
      BY DEF Named
    <3> QED
      BY <1>0, <2>1, <3>1, BuiltWhole, TwoPlatforms DEF Whole, Present
  <2>3. Bare => Bare'
    BY <1>0, <2>1, BuiltBare DEF Bare
  <2>4. platform = "arch" /\ conf # "torn" /\ ~Named => images' = "without"
    BY <2>1 DEF Built
  <2> QED
    BY <1>0, <2>1, <2>2, <2>3, <2>4 DEF Present
<1>20. CASE PluginAdded
  <2>1. Same /\ UNCHANGED <<op, step, left, removed, spoiled>>
    BY <1>20 DEF PluginAdded, Same
  <2> QED
    BY <1>0, <2>1, SameState DEF Same, Present, Named
<1>21. CASE Reconfigure
  <2>1. /\ UNCHANGED <<platform, files, moduleDir, images, op, step, left, removed, spoiled>>
        /\ stale' = TRUE /\ platform = "arch" /\ step = "idle"
        /\ setup' \in Inspections /\ conf' \in Rewritten(setup'.form)
    BY <1>21 DEF Reconfigure
  <2>2. conf # "torn" => conf' # "torn"
    BY <2>1, InspectionsOK, RewrittenOK DEF SetupTypes
  <2>3. (Whole => Whole') /\ (Bare => Bare')
    BY <1>0, <2>1, <2>2 DEF Whole, Bare
  <2>4. op' # "uninstall"
    BY <2>1
  <2> QED
    BY <2>1, <2>3, <2>4
<1>22. CASE UNCHANGED hookVars
  <2>1. Same /\ UNCHANGED <<op, step, left, removed, spoiled>>
    BY <1>22 DEF hookVars, Same
  <2> QED
    BY <1>0, <2>1, SameState DEF Same, Present, Named
<1> QED
  BY <1>1, <1>2, <1>3, <1>4, <1>5, <1>6, <1>7, <1>8, <1>9, <1>10, <1>11,
     <1>12, <1>13, <1>14, <1>15, <1>16, <1>17, <1>18, <1>19, <1>20, <1>21, <1>22
     DEF HookNext

\* All of it holds in every reachable state.
LEMMA Settled == HookSpec => []SettledInv
<1>1. HookInit => PlaceInv /\ RemoveInv /\ CleanInv
  BY SettledInit
<1>2. HookInv /\ (PlaceInv /\ RemoveInv /\ CleanInv) /\ [HookNext]_hookVars =>
         (PlaceInv /\ RemoveInv /\ CleanInv)'
  BY PlaceStep, RemoveStep, CleanStep DEF SettledInv
<1>3. HookSpec => [](PlaceInv /\ RemoveInv /\ CleanInv)
  BY <1>1, <1>2, Inductive, PTL DEF HookSpec
<1>4. HookInv /\ (PlaceInv /\ RemoveInv /\ CleanInv) => SettledInv
  BY DEF SettledInv
<1> QED
  BY <1>3, <1>4, Inductive, PTL

\* As long as nothing has failed, images can be built between operations,
\* unless an uninstall has missed the hook in HOOKS, and a hook that the
\* interface says is installed is in them.
THEOREM SettledWell == HookSpec => []SettledConsistent
<1>1. SettledInv => SettledConsistent
  <2> SUFFICES ASSUME SettledInv, step = "idle", ~spoiled
               PROVE  /\ Built = "broken" => OnlyNamed
                      /\ HooksInstalled => Built \in {"old", "new"}
                      /\ ~stale /\ HooksInstalled => images \in {"old", "new"}
                      /\ ~stale /\ setup.supported /\ setup.form = "plain" =>
                            (images \in {"old", "new"} => HooksInstalled)
    BY DEF SettledConsistent
  <2> USE DEF SettledInv, HookInv
  <2>1. Whole \/ Bare
    BY DEF CleanInv
  <2>2. CASE Whole
    <3>1. Built # "broken"
      BY <2>2, BuiltWhole
    <3>2. CASE platform = "arch"
      <4>1. HooksInstalled <=> setup.supported /\ conf = "on"
        BY <2>2, <3>2, OwnPathSets DEF Whole, HooksInstalled, Present, ArchPaths
      <4>2. HooksInstalled => Built \in {"old", "new"}
        BY <2>2, <3>2, <4>1, BuiltWhole DEF Named
      <4>3. setup.form = "plain" /\ Named => conf = "on"
        BY DEF Named, SetupInv
      <4> QED
        BY <2>2, <3>1, <3>2, <4>1, <4>2, <4>3 DEF Whole
    <3>3. CASE platform = "fedora"
      <4>1. HooksInstalled
        BY <2>2, <3>3, OwnPathSets DEF Whole, HooksInstalled, Present
      <4> QED
        BY <2>2, <3>1, <3>3, <4>1, BuiltWhole DEF Whole
    <3> QED
      BY <3>2, <3>3, TwoPlatforms
  <2>3. CASE Bare
    <3>1. Built = IF Named THEN "broken" ELSE "without"
      BY <2>3, BuiltBare DEF Bare
    <3>2. Named => OnlyNamed
      <4>1. Named => platform = "arch"
        BY DEF PlaceInv, Named
      <4> QED
        BY <2>3, <4>1 DEF Bare, OnlyNamed, OwnPaths, Present
    <3>3. ~HooksInstalled
      <4>1. platform = "arch" => ~Present("pre") /\ "pre" \in ArchPaths
        BY <2>3, OwnPathSets DEF Bare, Present, ArchPaths
      <4>2. platform = "fedora" => ~Present("dracutconf")
        BY <2>3, OwnPathSets DEF Bare, Present
      <4> QED
        BY <4>1, <4>2, TwoPlatforms DEF HooksInstalled
    <3> QED
      BY <2>3, <3>1, <3>2, <3>3 DEF Bare
  <2> QED
    BY <2>1, <2>2, <2>3
<1> QED
  BY <1>1, Settled, PTL

\* The steps that end an uninstall well.
LEMMA UninstallEnds ==
    ASSUME TypeInv, HookNext, step # "idle", step' = "idle", op = "uninstall", result' = "ok"
    PROVE  Regenerate \/ RemoveHook \/ DisableHook
<1> USE DEF Return, Continue, Begin, RollBack
<1>1. ~(RefuseInstall \/ Refused \/ BeginInstall \/ WriteHook \/ WriteHookFails)
  BY DEF RefuseInstall, Refused, BeginInstall, WriteHook, WriteHookFails
<1>2. ~(EnableHook \/ EnableHookFails \/ RegenerateFails \/ Restore \/ RestoreFails)
  BY DEF EnableHook, EnableHookFails, RegenerateFails, Restore, RestoreFails
<1>3. ~(RolledBack \/ BeginUninstall \/ RemoveHookFails \/ DisableHookFails \/ Die)
  BY DEF RolledBack, BeginUninstall, RemoveHookFails, DisableHookFails, Die
<1>4. ~(KernelUpdate \/ PluginAdded \/ Reconfigure)
  BY DEF KernelUpdate, PluginAdded, Reconfigure
<1> QED
  BY <1>1, <1>2, <1>3, <1>4 DEF HookNext

\* An uninstall that succeeds has removed every hook file, whatever was there,
\* and the hook from HOOKS unless they are written such that the edit misses it;
\* and the images are without it then, if nothing has failed before and they
\* are built from the setup as it is.
THEOREM UninstallIsWhole == HookSpec => UninstallComplete
<1>1. SettledInv /\ [HookNext]_hookVars =>
         [Ends("uninstall", "ok") =>
             /\ \A p \in OwnPaths : files'[p] = "none"
             /\ ~moduleDir'
             /\ setup.form # "crooked" => ~Named'
             /\ ~spoiled /\ ~stale' /\ ~Named' => images' = "without"]_hookVars
  <2> SUFFICES ASSUME SettledInv, HookNext, op = "uninstall", step # "idle", step' = "idle",
                      result' = "ok"
               PROVE  /\ \A p \in OwnPaths : files'[p] = "none"
                      /\ ~moduleDir'
                      /\ setup.form # "crooked" => ~Named'
                      /\ ~spoiled /\ ~stale' /\ ~Named' => images' = "without"
    BY DEF Ends
  <2> USE DEF SettledInv, HookInv
  <2>0. platform' = platform /\ OwnPaths' = OwnPaths
    BY SamePlatform DEF OwnPaths
  <2>1. Regenerate \/ RemoveHook \/ DisableHook
    BY UninstallEnds
  <2>2. CASE Regenerate
    BY <2>0, <2>2, UninstalledBare DEF Bare, Named
  <2>3. CASE RemoveHook
    <3>1. left = Removing /\ platform # "arch" /\ ~(removed \/ IsThere)
      BY <2>3, LastRemoved
    <3>2. /\ files' = [p \in Paths |-> IF p \in Removing THEN "none" ELSE files[p]]
          /\ moduleDir' = (moduleDir /\ Removing # DracutPaths)
          /\ UNCHANGED <<conf, images, stale>> /\ step = "remove"
      BY <2>3 DEF RemoveHook, imageVars
    <3>3. \A p \in OwnPaths : files'[p] = "none"
      BY <3>1, <3>2, PathSets DEF RemoveInv
    <3>4. ~moduleDir'
      BY <3>1, <3>2, RemovedTogether, OwnPathSets DEF RemoveInv
    <3>5. ~Named /\ ~Named'
      BY <3>1, <3>2 DEF PlaceInv, Named
    <3>6. ~("dracutconf" \in left /\ Present("dracutconf"))
      BY <3>1, OwnPathSets DEF IsThere, Present
    <3>7. ~spoiled /\ ~stale' => images' = "without"
      BY <3>1, <3>2, <3>5, <3>6, TwoPlatforms DEF CleanInv, Bare
    <3> QED
      BY <3>3, <3>4, <3>5, <3>7
  <2>4. CASE DisableHook
    <3>1. step = "disable" /\ UNCHANGED <<files, moduleDir, images, stale>>
      BY <2>4 DEF DisableHook, imageVars
    <3>2. ~Seen /\ conf' = conf
      BY <2>4 DEF DisableHook, Continue
    <3>3. platform = "arch" /\ ~moduleDir
      BY <3>1 DEF PlaceInv
    <3>4. \A p \in OwnPaths : files[p] = "none"
      BY <3>1 DEF RemoveInv
    <3>5. Named' = Named /\ (setup.form # "crooked" => ~Named)
      BY <3>2 DEF SetupInv, Named, Seen
    <3>6. ~spoiled /\ ~stale /\ ~Named => images = "without"
      BY <3>1, <3>3 DEF CleanInv
    <3> QED
      BY <3>1, <3>3, <3>4, <3>5, <3>6
  <2> QED
    BY <2>1, <2>2, <2>3, <2>4
<1> QED
  BY <1>1, Settled, PTL DEF HookSpec, UninstallComplete

-----------------------------------------------------------------------------
(***************************************************************************)
(* Two generations of DNF.                                                 *)
(***************************************************************************)

\* What is there, or is put back, is what an install would write now.
DnfInv ==
    /\ \A p \in DnfPaths : Present(p) \/ saved.files[p] # "none" => p \in ToWrite
    /\ step = "write" => left \subseteq ToWrite
    /\ step = "idle" => saved = NoSnapshots

\* The plugin of DNF5 is installed where no hooks of DNF4 are.
PluginsBeforeHooks ==
    [][plugins' # plugins => \A p \in {"dnf4pre", "dnf4post"} : ~Present(p)]_hookVars

\* An install writes for one of the two generations.
LEMMA OneGeneration ==
    "dnf5" \in ToWrite => "dnf4pre" \notin ToWrite /\ "dnf4post" \notin ToWrite
  BY DEF ToWrite, DnfToWrite, ArchPaths, DracutPaths

LEMMA DnfInit == HookInit => DnfInv
<1> SUFFICES ASSUME HookInit PROVE DnfInv
  OBVIOUS
<1>1. \A p \in Paths : files[p] # "none" => p \in ToWrite
  BY DEF HookInit
<1>2. DnfPaths \subseteq Paths
  BY DEF DnfPaths, Paths, FedoraPaths
<1> QED
  BY <1>1, <1>2 DEF HookInit, NoSnapshots, DnfInv, Present

\* A step that leaves the plugins alone keeps it.
LEMMA DnfStep ==
    TypeInv /\ DnfInv /\ [HookNext]_hookVars /\ plugins' = plugins => DnfInv'
<1> SUFFICES ASSUME TypeInv, DnfInv, [HookNext]_hookVars, plugins' = plugins PROVE DnfInv'
  OBVIOUS
<1>0. platform' = platform /\ ToWrite' = ToWrite
  BY SamePlatform DEF ToWrite, DnfToWrite
<1>1. DnfPaths \subseteq Paths /\ "conf" \notin Paths
  BY PathSets DEF DnfPaths, Paths, FedoraPaths
<1>2. files \in FileStates
  BY DEF TypeInv, HookTypeOK, FileStates
<1> USE DEF DnfInv, Present, Return, Continue, Begin, RollBack, NoSnapshots, setupVars,
            fileVars, imageVars
<1>3. CASE RefuseInstall
  BY <1>0, <1>1, <1>3 DEF RefuseInstall
<1>4. CASE Refused
  BY <1>0, <1>1, <1>4 DEF Refused
<1>5. CASE BeginInstall
  BY <1>0, <1>1, <1>5 DEF BeginInstall
<1>6. CASE WriteHook
  <2>1. PICK p \in FirstToWrite(left) :
           files' = [files EXCEPT ![p] = "new"] /\ left' = left \ {p}
    BY <1>6 DEF WriteHook, Content
  <2>2. p \in ToWrite /\ left' \subseteq ToWrite /\ saved' = saved /\ step' # "idle"
    BY <1>6, <2>1, FirstIsLeft DEF WriteHook
  <2> QED
    BY <1>0, <1>1, <1>2, <2>1, <2>2 DEF FileStates
<1>7. CASE WriteHookFails
  <2>1. PICK p \in FirstToWrite(left) :
           files' = files \/ files' = [files EXCEPT ![p] = "torn"]
    BY <1>7 DEF WriteHookFails
  <2>2. p \in ToWrite /\ step' = "rollback" /\ saved' = saved
    BY <1>7, <2>1, FirstIsLeft DEF WriteHookFails
  <2> QED
    BY <1>0, <1>1, <1>2, <2>1, <2>2 DEF FileStates
<1>8. CASE EnableHook \/ EnableHookFails
  BY <1>0, <1>8 DEF EnableHook, EnableHookFails
<1>9. CASE Regenerate \/ RegenerateFails
  <2>1. files' = files /\ step' # "write" /\ saved' \in {saved, NoSnapshots}
    BY <1>9 DEF Regenerate, RegenerateFails
  <2>2. step' = "idle" => saved' = NoSnapshots
    BY <1>9 DEF Regenerate, RegenerateFails
  <2> QED
    BY <1>0, <1>1, <2>1, <2>2
<1>10. CASE Restore
  <2>1. PICK p \in First(left) :
           files' = files \/ files' = [files EXCEPT ![p] = saved.files[p]]
    BY <1>10 DEF Restore
  <2>2. step' = "rollback" /\ saved' = saved
    BY <1>10 DEF Restore
  <2> QED
    BY <1>0, <1>1, <1>2, <2>1, <2>2 DEF FileStates
<1>11. CASE RestoreFails
  <2>1. \/ files' = files
        \/ \E p \in First(left) :
              saved.files[p] # "none" /\ files' = [files EXCEPT ![p] = "torn"]
    BY <1>11 DEF RestoreFails
  <2>2. step' = "rollback" /\ saved' = saved
    BY <1>11 DEF RestoreFails
  <2> QED
    BY <1>0, <1>1, <1>2, <2>1, <2>2 DEF FileStates
<1>12. CASE RolledBack
  BY <1>0, <1>1, <1>12 DEF RolledBack
<1>13. CASE BeginUninstall
  BY <1>0, <1>1, <1>13 DEF BeginUninstall
<1>14. CASE RemoveHook
  <2>1. files' = [p \in Paths |-> IF p \in Removing THEN "none" ELSE files[p]]
    BY <1>14 DEF RemoveHook
  <2>2. /\ step' # "write" /\ saved' \in {saved, NoSnapshots}
        /\ step' = "idle" => saved' = NoSnapshots
    BY <1>14 DEF RemoveHook, AfterRemoval
  <2> QED
    BY <1>0, <1>1, <2>1, <2>2
<1>15. CASE RemoveHookFails
  <2>1. \A p \in Paths : files'[p] \in {files[p], "none"}
    BY <1>15 DEF RemoveHookFails, PartlyRemoved
  <2>2. step' # "write" /\ saved' = NoSnapshots
    BY <1>15 DEF RemoveHookFails
  <2> QED
    BY <1>0, <1>1, <2>1, <2>2
<1>16. CASE DisableHook \/ DisableHookFails
  <2>1. files' = files /\ step' # "write" /\ saved' \in {saved, NoSnapshots}
    BY <1>16 DEF DisableHook, DisableHookFails
  <2>2. step' = "idle" => saved' = NoSnapshots
    BY <1>16 DEF DisableHook, DisableHookFails
  <2> QED
    BY <1>0, <1>1, <2>1, <2>2
<1>17. CASE Die
  <2>1. \/ files' = files
        \/ \E p \in InWriting : files' = [files EXCEPT ![p] = "torn"]
        \/ \A p \in Paths : files'[p] \in {files[p], "none"}
    BY <1>17, FilesCutShort
  <2>2. step' = "idle" /\ saved' = NoSnapshots
    BY <1>17 DEF Die
  <2>3. \A p \in InWriting \cap DnfPaths : p \in ToWrite
    BY FirstIsLeft DEF InWriting
  <2> QED
    BY <1>0, <1>1, <1>2, <2>1, <2>2, <2>3 DEF FileStates
<1>18. CASE KernelUpdate \/ PluginAdded \/ Reconfigure \/ UNCHANGED hookVars
  BY <1>0, <1>18 DEF KernelUpdate, PluginAdded, Reconfigure, hookVars
<1> QED
  BY <1>3, <1>4, <1>5, <1>6, <1>7, <1>8, <1>9, <1>10, <1>11, <1>12, <1>13, <1>14, <1>15,
     <1>16, <1>17, <1>18 DEF HookNext

\* No other step changes the plugins.
LEMMA OnlyPluginAdded == HookNext /\ plugins' # plugins => PluginAdded
<1> SUFFICES ASSUME HookNext, ~PluginAdded PROVE plugins' = plugins
  OBVIOUS
<1> USE DEF Return, Continue, Begin, RollBack, setupVars
<1>1. CASE RefuseInstall \/ Refused \/ BeginInstall \/ WriteHook \/ WriteHookFails
  BY <1>1 DEF RefuseInstall, Refused, BeginInstall, WriteHook, WriteHookFails
<1>2. CASE EnableHook \/ EnableHookFails \/ Regenerate \/ RegenerateFails
  BY <1>2 DEF EnableHook, EnableHookFails, Regenerate, RegenerateFails
<1>3. CASE Restore \/ RestoreFails \/ RolledBack \/ BeginUninstall
  BY <1>3 DEF Restore, RestoreFails, RolledBack, BeginUninstall
<1>4. CASE RemoveHook \/ RemoveHookFails \/ DisableHook \/ DisableHookFails
  BY <1>4 DEF RemoveHook, AfterRemoval, RemoveHookFails, DisableHook, DisableHookFails
<1>5. CASE Die \/ KernelUpdate \/ Reconfigure
  BY <1>5 DEF Die, KernelUpdate, Reconfigure
<1> QED
  BY <1>1, <1>2, <1>3, <1>4, <1>5 DEF HookNext

\* So does a plugin that appears before there are hooks for the other
\* generation.
LEMMA DnfPlugin ==
    ASSUME DnfInv, PluginAdded,
           \A p \in {"dnf4pre", "dnf4post"} : ~Present(p)
    PROVE  DnfInv'
<1>1. /\ UNCHANGED <<files, left, saved, step>> /\ step = "idle"
      /\ "dnf5" \in plugins' /\ platform' = "fedora"
    BY DEF PluginAdded, fileVars
<1>2. \A p \in DnfPaths : saved.files[p] = "none"
  BY <1>1 DEF DnfInv, NoSnapshots, DnfPaths, Paths, FedoraPaths
<1>3. "dnf5" \in ToWrite'
  BY <1>1 DEF ToWrite, DnfToWrite
<1>4. \A p \in DnfPaths : p = "dnf5" \/ ~Present(p)'
  BY <1>1 DEF Present, DnfPaths
<1> QED
  BY <1>1, <1>2, <1>3, <1>4 DEF DnfInv

\* Only one of the two generations of DNF has hooks, at any time and whatever
\* fails, as long as the plugin of DNF5 does not appear after hooks were
\* installed for DNF4: this is the only way to a transaction that runs the
\* hooks twice.
THEOREM OneDnfGeneration == HookSpec /\ PluginsBeforeHooks => []NoDuplicateHooks
<1> DEFINE Before == plugins' # plugins => \A p \in {"dnf4pre", "dnf4post"} : ~Present(p)
<1>1. HookInit => DnfInv
  BY DnfInit
<1>2. HookInv /\ DnfInv /\ [HookNext]_hookVars /\ [Before]_hookVars => DnfInv'
  <2> SUFFICES ASSUME HookInv, DnfInv, [HookNext]_hookVars, [Before]_hookVars PROVE DnfInv'
    OBVIOUS
  <2>1. CASE plugins' = plugins
    BY <2>1, DnfStep DEF HookInv
  <2>2. CASE plugins' # plugins
    <3>1. HookNext /\ Before
      BY <2>2 DEF hookVars, setupVars
    <3>2. PluginAdded
      BY <2>2, <3>1, OnlyPluginAdded
    <3> QED
      BY <2>2, <3>1, <3>2, DnfPlugin DEF HookInv
  <2> QED
    BY <2>1, <2>2
<1>3. DnfInv => NoDuplicateHooks
  BY OneGeneration DEF DnfInv, NoDuplicateHooks, DnfPaths
<1>4. HookSpec /\ PluginsBeforeHooks => []DnfInv
  BY <1>1, <1>2, Inductive, PTL DEF HookSpec, PluginsBeforeHooks
<1> QED
  BY <1>3, <1>4, PTL

=============================================================================
