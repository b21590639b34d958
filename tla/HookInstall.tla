----------------------------- MODULE HookInstall -----------------------------
(***************************************************************************)
(* Installing and removing the package-manager and initramfs hooks         *)
(* (backups.go, fedora.go): InstallPlatformHooks and                       *)
(* UninstallPlatformHooks write and remove several files one by one, edit  *)
(* mkinitcpio.conf on Arch, and rebuild the initramfs images.  An install  *)
(* that fails puts the files back as it found them; an uninstall that      *)
(* fails stops where it is.  Neither takes the operation lock.             *)
(*                                                                         *)
(* A file is absent, torn, or holds what an earlier or this release wrote. *)
(* The images are what the configuration said when they were built.  Which *)
(* of them take HOOKS from mkinitcpio.conf is MkinitcpioMode's; the setup  *)
(* may change whenever no operation runs.  HOOKS can be written such that  *)
(* the edit of an install or uninstall misses the list: the hook may be    *)
(* among HOOKS, among the words the edit sees, both or neither.            *)
(***************************************************************************)
EXTENDS MkinitcpioMode

CONSTANTS
    Platforms,     \* those a run starts on
    HookFaults,    \* what may go wrong: refuse write remove regenerate rollback kill
    MaxRuns        \* operations started (bound)

\* Which steps may fail; "one restore" bounds what a rollback cannot put back
\* to one path.
AllHookFaults == {"refuse", "write", "remove", "regenerate", "rollback", "one restore", "kill"}

ASSUME HookConstantsOK ==
    /\ Platforms \subseteq {"arch", "fedora"}
    /\ HookFaults \subseteq AllHookFaults
    /\ MaxRuns \in Nat

VARIABLES
    platform,
    plugins,       \* DNF action plugins whose directories exist
    files,         \* hook files
    moduleDir,     \* DracutModuleDir exists
    conf,          \* where mkinitcpio.conf has the hook, or the file is torn
    setup,         \* mkinitcpio's: is it supported, what it reaches, its form
    stale,         \* the setup has changed since the images were built
    images,        \* what the initramfs images hold of the hook
    op,            \* the operation that runs, or ran last
    step,          \* where it is
    left,          \* paths it has still to write, remove or restore
    saved,         \* installPathSnapshots
    removed,       \* whether uninstall has removed anything
    unrestored,    \* the rollback has met errors of its own
    result,        \* how the last operation ended
    spoiled,       \* something failed since an install last succeeded
    runs

fileVars == <<files, moduleDir, conf>>
setupVars == <<platform, plugins, setup>>
imageVars == <<images, stale>>
hookVars == <<setupVars, fileVars, imageVars, op, step, left, saved,
              removed, unrestored, result, spoiled, runs>>

ArchPaths   == {"pre", "post", "install", "runtime"}
DnfPaths    == {"dnf5", "dnf4pre", "dnf4post"}
DracutPaths == {"setup", "restore"}
FedoraPaths == DnfPaths \cup DracutPaths \cup {"dracutconf"}
Paths == ArchPaths \cup FedoraPaths

OwnPaths == IF platform = "arch" THEN ArchPaths ELSE FedoraPaths

\* The order in which paths are saved and put back.
Rank == [p \in Paths \cup {"conf"} |->
            CASE p \in {"pre", "dnf5"}         -> 1
              [] p \in {"post", "dnf4pre"}     -> 2
              [] p \in {"install", "dnf4post"} -> 3
              [] p \in {"runtime", "setup"}    -> 4
              [] p = "restore"                 -> 5
              [] p \in {"dracutconf", "conf"}   -> 6]
First(ps) == {p \in ps : \A q \in ps : Rank[p] <= Rank[q]}

\* The two dracut files are written in the order of a Go map, any.
FirstToWrite(ps) == IF First(ps) \subseteq DracutPaths THEN ps \cap DracutPaths ELSE First(ps)

Present(p) == files[p] # "none"

\* The hook in mkinitcpio.conf: in HOOKS and among the words of their line that
\* updateMkinitcpioHooks goes by ("on"), among HOOKS only ("unseen"), among
\* those words only ("remarked"), or nowhere.
Confs == {"off", "on", "unseen", "remarked"}
Named == conf \in {"on", "unseen"}
Seen  == conf \in {"on", "remarked"}

\* updateMkinitcpioHooks adds the hook behind "filesystems" or at the end of
\* the words, which is in the remark if there is one, or removes it from them.
Enabled ==
    IF Seen THEN {conf}
    ELSE IF conf = "off" /\ setup.form = "crooked" THEN {"on", "remarked"} ELSE {"on"}
Disabled ==
    IF conf = "on" /\ setup.form = "crooked" THEN {"off", "unseen"} ELSE {"off"}

\* installFedoraDNFActions: DNF5 if it has its plugin, else both of DNF4.
DnfToWrite ==
    IF "dnf5" \in plugins THEN {"dnf5"}
    ELSE IF {"dnf4pre", "dnf4post"} \subseteq plugins THEN {"dnf4pre", "dnf4post"}
    ELSE {}

ToWrite == IF platform = "arch" THEN ArchPaths
           ELSE DnfToWrite \cup DracutPaths \cup {"dracutconf"}

\* Mutant: the images take whatever the hook file holds.
BuiltUnchecked ==
    IF platform = "arch" THEN IF Named THEN files["runtime"] ELSE "without"
    ELSE files["restore"]

\* What mkinitcpio -P puts into the images when HOOKS names the hook.
BuiltForArch ==
    CASE setup.reach = "all"  -> files["runtime"]
      [] setup.reach = "some" -> "mixed"
      [] OTHER                -> "without"

\* What mkinitcpio or dracut puts into an image now.  mkinitcpio fails on a
\* hook that HOOKS names and that is not there; dracut takes a module whose
\* check passes, and is expected to fail on one that it is told to add and
\* cannot find.
Built ==
    IF platform = "arch"
    THEN IF ~Named THEN IF conf = "torn" THEN "broken" ELSE "without"
         ELSE IF \E p \in {"install", "runtime"} : files[p] \in {"none", "torn"} THEN "broken"
         ELSE BuiltForArch
    ELSE IF \A p \in DracutPaths : files[p] \in {"old", "new"} THEN files["restore"]
         ELSE IF \A p \in DracutPaths \cup {"dracutconf"} : ~Present(p) THEN "without"
         ELSE "broken"

\* PlatformHooksInstalled: HookInstalled, fedoraHooksInstalled
HooksInstalled ==
    IF platform = "arch"
    THEN setup.supported /\ conf = "on" /\ \A p \in ArchPaths : Present(p)
    ELSE /\ Present("dnf5") \/ (Present("dnf4pre") /\ Present("dnf4post"))
         /\ \A p \in DracutPaths \cup {"dracutconf"} : Present(p)

PlainSetup == [supported |-> TRUE, reach |-> "all", form |-> "plain"]
NoSnapshots == [files |-> [p \in Paths |-> "none"], conf |-> "off"]

\* The hooks of an earlier release, which are in the images, or none.
HookInit ==
    /\ platform \in Platforms
    /\ plugins \in IF platform = "arch" THEN {{}}
                   ELSE {{}, {"dnf4pre"}, {"dnf4pre", "dnf4post"}, {"dnf5"}}
    /\ \E installed \in BOOLEAN :
          /\ installed => platform = "arch" \/ DnfToWrite # {}
          /\ files = [p \in Paths |-> IF installed /\ p \in ToWrite THEN "old" ELSE "none"]
          /\ moduleDir = (installed /\ platform = "fedora")
          /\ conf = IF installed /\ platform = "arch" THEN "on" ELSE "off"
          /\ images = IF installed THEN "old" ELSE "without"
          /\ setup \in IF platform = "arch" THEN Inspections ELSE {PlainSetup}
          /\ installed => setup = PlainSetup
    /\ stale = FALSE
    /\ op = "none" /\ step = "idle" /\ left = {}
    /\ saved = NoSnapshots
    /\ removed = FALSE /\ unrestored = FALSE /\ result = "none" /\ spoiled = FALSE
    /\ runs = 0

-----------------------------------------------------------------------------
\* The operation returns.
Return(r) ==
    /\ step' = "idle"
    /\ left' = {}
    /\ result' = r
    /\ spoiled' = IF r = "ok" /\ op = "install" THEN FALSE
                  ELSE spoiled \/ r \notin {"ok", "refused"}
    /\ saved' = NoSnapshots
    /\ unrestored' = FALSE
    /\ removed' = FALSE
    /\ op' = "none"
    /\ UNCHANGED <<setupVars, runs>>

Continue(s, ps) ==
    /\ step' = s
    /\ left' = ps
    /\ UNCHANGED <<setupVars, op, saved, unrestored, result, spoiled, runs>>

Begin(o) ==
    /\ step = "idle"
    /\ runs < MaxRuns
    /\ runs' = runs + 1
    /\ op' = o
    /\ result' = "none"
    /\ saved' = IF o = "install" THEN [files |-> files, conf |-> conf] ELSE NoSnapshots
    /\ UNCHANGED <<setupVars, fileVars, imageVars, removed, unrestored, spoiled>>

\* ensureInitramfsHookSupported; a torn mkinitcpio.conf has no HOOKS.
SetupAllows == platform = "arch" => setup.supported /\ conf # "torn"

\* The checks and snapshotInstallPaths refuse before anything is written.
RefuseInstall ==
    /\ "refuse" \in HookFaults \/ ~SetupAllows
    /\ Begin("install")
    /\ step' = "refused"
    /\ left' = {}

Refused ==
    /\ step = "refused"
    /\ Return("refused")
    /\ UNCHANGED <<fileVars, imageVars>>

\* On Fedora without a plugin directory nothing is written, and the deferred
\* rollback runs all the same.
BeginInstall ==
    /\ SetupAllows
    /\ Begin("install")
    /\ IF platform = "fedora" /\ DnfToWrite = {}
       THEN step' = "rollback" /\ left' = OwnPaths
       ELSE step' = "write" /\ left' = ToWrite

\* Mutant: what was there already is kept.
ContentKept(p) == IF Present(p) THEN files[p] ELSE "new"

\* What a hook file is given.
Content(p) == "new"

WriteHook ==
    /\ step = "write"
    /\ \E p \in FirstToWrite(left) :
          /\ files' = [files EXCEPT ![p] = Content(p)]
          /\ moduleDir' = (moduleDir \/ p \in DracutPaths)
          /\ Continue(IF left # {p} THEN "write"
                      ELSE IF platform = "arch" THEN "enable" ELSE "regenerate",
                      left \ {p})
    /\ UNCHANGED <<conf, imageVars, removed>>

\* Mutant: the configuration is not among the paths that are put back.
RollbackFilesOnly == Continue("rollback", OwnPaths)

\* The deferred restoreInstallPathSnapshots.
RollBack ==
    Continue("rollback", OwnPaths \cup (IF platform = "arch" THEN {"conf"} ELSE {}))

\* WriteFile truncates first.
WriteHookFails ==
    /\ step = "write" /\ "write" \in HookFaults
    /\ \E p \in FirstToWrite(left) :
          /\ files' \in {files, [files EXCEPT ![p] = "torn"]}
          /\ moduleDir' \in {moduleDir, moduleDir \/ p \in DracutPaths}
    /\ RollBack
    /\ UNCHANGED <<conf, imageVars, removed>>

\* enableMkinitcpioHook: conf is backed up, then written, unless the hook is
\* among the words.
EnableHook ==
    /\ step = "enable"
    /\ conf' \in Enabled
    /\ Continue("regenerate", {})
    /\ UNCHANGED <<files, moduleDir, imageVars, removed>>

EnableHookFails ==
    /\ step = "enable" /\ "write" \in HookFaults
    /\ conf' \in IF Seen THEN {conf} ELSE {conf, "torn"}
    /\ RollBack
    /\ UNCHANGED <<files, moduleDir, imageVars, removed>>

\* mkinitcpio -P or dracut --regenerate-all: the last step of an install,
\* and of an uninstall that has changed what the images are built from.
Regenerate ==
    /\ step = "regenerate"
    /\ Built # "broken"
    /\ images' = Built /\ stale' = FALSE
    /\ Return("ok")
    /\ UNCHANGED fileVars

\* Some images are built and some are not.
RegenerateFails ==
    /\ step = "regenerate"
    /\ "regenerate" \in HookFaults \/ Built = "broken"
    /\ images' \in {images, "mixed"}
    /\ IF op = "install" THEN RollBack /\ UNCHANGED removed ELSE Return("error")
    /\ UNCHANGED <<fileVars, stale>>

\* A path is put back, or removed if it was not there.
Restore ==
    /\ step = "rollback" /\ left # {}
    /\ \E p \in First(left) :
          /\ IF p = "conf" THEN conf' = saved.conf /\ UNCHANGED files
             ELSE files' = [files EXCEPT ![p] = saved.files[p]] /\ UNCHANGED conf
          /\ Continue("rollback", left \ {p})
    /\ UNCHANGED <<moduleDir, imageVars, removed>>

RestoreMayFail ==
    \/ "rollback" \in HookFaults
    \/ "one restore" \in HookFaults /\ ~unrestored

\* A path that cannot be put back is reported; the others are still restored.
RestoreFails ==
    /\ step = "rollback" /\ left # {} /\ RestoreMayFail
    /\ \E p \in First(left) :
          /\ IF p = "conf" THEN conf' \in {conf, "torn"} /\ UNCHANGED files
             ELSE /\ files' \in {files} \cup
                        (IF saved.files[p] = "none" THEN {}
                         ELSE {[files EXCEPT ![p] = "torn"]})
                  /\ UNCHANGED conf
          /\ left' = left \ {p}
    /\ unrestored' = TRUE
    /\ UNCHANGED <<setupVars, moduleDir, imageVars, op, step, saved, removed,
                   result, spoiled, runs>>

RolledBack ==
    /\ step = "rollback" /\ left = {}
    /\ Return(IF unrestored THEN "unrestored" ELSE "error")
    /\ UNCHANGED <<fileVars, imageVars>>

-----------------------------------------------------------------------------

BeginUninstall ==
    /\ Begin("uninstall")
    /\ step' = "remove"
    /\ left' = OwnPaths

\* The next path to remove; the dracut module goes as a directory.
Removing == FirstToWrite(left)
IsThere == IF Removing = DracutPaths THEN moduleDir ELSE \E p \in Removing : Present(p)

AfterRemoval ==
    IF left # Removing THEN Continue("remove", left \ Removing)
    ELSE IF platform = "arch" THEN Continue("disable", {})
    ELSE IF removed' THEN Continue("regenerate", {})
    ELSE Return("ok")

RemoveHook ==
    /\ step = "remove"
    /\ files' = [p \in Paths |-> IF p \in Removing THEN "none" ELSE files[p]]
    /\ moduleDir' = (moduleDir /\ Removing # DracutPaths)
    /\ removed' = (removed \/ IsThere)
    /\ AfterRemoval
    /\ UNCHANGED <<conf, imageVars>>

\* RemoveAll has removed some of the dracut module's files, in any order.
PartlyRemoved ==
    \E gone \in SUBSET (Removing \cap DracutPaths) :
        files' = [p \in Paths |-> IF p \in gone THEN "none" ELSE files[p]]

\* A missing path is no error; any other stops the uninstall.
RemoveHookFails ==
    /\ step = "remove" /\ "remove" \in HookFaults
    /\ IsThere
    /\ PartlyRemoved
    /\ Return("error")
    /\ UNCHANGED <<moduleDir, conf, imageVars>>

\* Mutant: the images are not built again.
DisableHookOnly ==
    /\ step = "disable"
    /\ conf' \in IF Seen THEN Disabled ELSE {conf}
    /\ Return("ok")
    /\ UNCHANGED <<files, moduleDir, imageVars>>

\* disableMkinitcpioHook; the images are built again if it changed conf.  If it
\* does not find the hook, wherever else HOOKS may have it, that is no error.
DisableHook ==
    /\ step = "disable"
    /\ IF Seen
       THEN conf' \in Disabled /\ removed' = TRUE /\ Continue("regenerate", {})
       ELSE Return("ok") /\ UNCHANGED conf
    /\ UNCHANGED <<files, moduleDir, imageVars>>

DisableHookFails ==
    /\ step = "disable" /\ "write" \in HookFaults
    /\ conf' \in IF Seen THEN {conf, "torn"} ELSE {conf}
    /\ Return("error")
    /\ UNCHANGED <<files, moduleDir, imageVars>>

-----------------------------------------------------------------------------

\* What is cut short if the process dies in the middle of a write: the file
\* it is writing, or putting back, or the configuration.  Putting back a file
\* that was not there removes it, which is not cut short.
InWriting ==
    IF step = "write" THEN FirstToWrite(left)
    ELSE {p \in First(left) \ {"conf"} : step = "rollback" /\ saved.files[p] # "none"}
ConfInWriting ==
    \/ step = "enable" /\ ~Seen
    \/ step = "disable" /\ Seen
    \/ step = "rollback" /\ First(left) = {"conf"}

\* The process dies, perhaps in the middle of a write, of the removal of the
\* dracut module or of a rebuild; there is no rollback.
Die ==
    /\ step # "idle" /\ "kill" \in HookFaults
    /\ \/ UNCHANGED <<files, conf, imageVars>>
       \/ /\ \E p \in InWriting : files' = [files EXCEPT ![p] = "torn"]
          /\ UNCHANGED <<conf, imageVars>>
       \/ step = "remove" /\ PartlyRemoved /\ UNCHANGED <<conf, imageVars>>
       \/ ConfInWriting /\ conf' = "torn" /\ UNCHANGED <<files, imageVars>>
       \/ step = "regenerate" /\ images' = "mixed" /\ UNCHANGED <<files, conf, stale>>
    /\ Return("killed")
    /\ UNCHANGED moduleDir

\* The package manager updates a kernel and builds its images.
KernelUpdate ==
    /\ images' = Built /\ stale' = FALSE
    /\ UNCHANGED <<setupVars, fileVars, op, step, left, saved, removed,
                   unrestored, result, spoiled, runs>>

\* A DNF plugin is installed.
PluginAdded ==
    /\ platform = "fedora" /\ step = "idle" /\ "dnf5" \notin plugins
    /\ plugins' = plugins \cup {"dnf5"}
    /\ UNCHANGED <<platform, setup, fileVars, imageVars, op, step, left, saved, removed,
                   unrestored, result, spoiled, runs>>

\* The hook stays in HOOKS as long as there are any, in whatever form.
Rewritten(form) ==
    IF conf = "torn" THEN {"torn"}
    ELSE IF Named /\ form # "unset" THEN IF form = "crooked" THEN {"on", "unseen"} ELSE {"on"}
    ELSE IF form = "crooked" THEN {"off", "remarked"} ELSE {"off"}

\* Presets, drop-ins or mkinitcpio.conf are edited.
Reconfigure ==
    /\ platform = "arch" /\ step = "idle"
    /\ setup' \in Inspections \ {setup}
    /\ conf' \in Rewritten(setup'.form)
    /\ stale' = TRUE
    /\ UNCHANGED <<platform, plugins, files, moduleDir, images, op, step, left, saved,
                   removed, unrestored, result, spoiled, runs>>

HookNext ==
    \/ RefuseInstall \/ Refused \/ BeginInstall \/ WriteHook \/ WriteHookFails
    \/ EnableHook \/ EnableHookFails \/ Regenerate \/ RegenerateFails
    \/ Restore \/ RestoreFails \/ RolledBack
    \/ BeginUninstall \/ RemoveHook \/ RemoveHookFails \/ DisableHook \/ DisableHookFails
    \/ Die \/ KernelUpdate \/ PluginAdded \/ Reconfigure

HookSpec == HookInit /\ [][HookNext]_hookVars
=============================================================================
