# Formal model of bootrecov

bootrecov keeps snapshots of `/boot`, mirrors chosen ones where GRUB can read
them, and publishes a recovery entry for each. It works on boot-critical files
from several processes (CLI calls, package-manager hooks, the TUI), any of which
may fail or die half way; and what it prepares is used much later, by a script in
the initramfs of a recovery boot. The TLA+ modules here model that behaviour, the
`.cfg` files check it with TLC, and the modules named `...Proofs` prove most of the
safety properties for all parameters with TLAPS.

Paths without a directory are below `src/internal/tui/`.

## Inventory

| component | state | operations | what makes it correct |
|---|---|---|---|
| operation lock (`recovery_lock.go`) | one `flock` for all processes | every exported operation runs inside `withRecoveryOperation` | one operation at a time; released however the operation ends |
| snapshot store (`backups.go`) | directories of `SnapshotDir`, named by their stamp; each may carry a SquashFS archive of a module tree | create, delete, discover | a snapshot appears whole or not at all; a reported deletion is complete |
| boot mirrors (`backups.go`) | directories of `EfiDir` with the same names | refresh, verify by content, remove | a mirror in use is never worse than before; no mirror is forgotten |
| recovery entries (`grub.go`, `fedora.go`) | `GrubCustom`, the generated `grub.cfg`, BLS files | add, remove, list, remove stale ones, header at TUI start | what is listed is what the menu boots |
| module trees (`backups.go`, `module_cleanup*.go`) | `/usr/lib/modules/<version>`, ownership markers | restore from an archive, clean up | nothing in use is removed or overwritten |
| reconcile (`backups.go`) | none of its own | brings mirrors, entries and trees in line with the snapshot store | a bootable entry survives a transient failure; a complete run leaves nothing dangling |
| kernel identity (`backups.go`) | none | select a kernel/initramfs pair, identify its version | a version is known or "unknown", never guessed |
| hook installation (`backups.go`, `fedora.go`) | hook files, `mkinitcpio.conf` or the dracut module, the initramfs | install with rollback, uninstall | all or nothing; the initramfs agrees with the files |
| mkinitcpio mode (`mkinitcpio_mode.go`) | none; reads `mkinitcpio.conf`, presets and drop-ins | inspect | what it supports runs the hook in every image |
| boot-time restoration (`backups.go`, `fedora.go`) | shell run in the initramfs | identify the booted snapshot, restore its modules | only an unambiguous identity restores anything |
| command output (`command_output.go`) | captured output, one delivery worker | run a tool, drain both pipes, show its lines | never blocks on the UI; keeps the end of the output |
| TUI (`model.go`) | lists, cursor, task in progress | keys, task messages | one task at a time; acts on the item shown |
| platform detection (`platform.go`, `mountinfo.go`) | none | choose paths and backends | refuses what it cannot prove |
| CLI (`cmd/bootrecov/main.go`) | none | arguments, prompts, exit codes | exit status tells the outcome |

The operations interact through files only: there is no daemon and no shared
memory between processes. What makes them hard is that each is a sequence of
writes to several places (mirror, `GrubCustom`, `grub.cfg`, BLS file, module
tree), that any write or external tool may fail and the process may die between
any two of them, that the next operation starts from whatever is left, and that
the package manager replaces kernels and module trees at the same time under a
lock of its own (`db.lck`). `PROJECT.json` lists the hazards with their lines.

## Modules

* `RecoveryState` declares the constants, the variables and the types, what an
  operation reads (`Listed`, `TreePresent`, `HasArchive`, `Discovered`), and how a
  process requests an operation, waits for the flock and returns.
* `BootEntries` has the steps that add, remove and publish entries: GrubCustom
  truncated and written, `grub-mkconfig`, the roll back, the BLS file; and the two
  steps of a starting TUI that writes the header without the lock.
* `ModuleTrees` has the restoration of module trees, the cleanup under `db.lck`,
  and the package manager.
* `Recovery` composes them: creation, activation, deactivation, deletion, removal
  of an entry and reconcile as sequences of steps, and around them kills, boots,
  damaged and lost snapshots. `Next`, `Spec` and `FairSpec` are here.
* `RecoveryPoints` is the abstract specification of all this: snapshots that are
  saved, mirrored and offered, one step at a time, without files, processes and
  failures. `PointsKept` in `RecoveryProperties` says that `Recovery` implements it,
  with `saved`, `mirrored` and `offered` mapped to the whole snapshot directories
  (`Saved`), the completed mirrors (`Mirrored`) and the entries the menu has (`InMenu`).
* `RecoveryProperties` states the properties, `MCRecovery` the instances. The proofs
  build on each other: `RecoveryProofs` (types, locks, cleanup), `OperationProofs`
  (what a label says of its operation, how long it lasts), `ResultProofs` (reported
  results), `AlignProofs` (reconcile), `PointsProofs` (refinement, menu).
* `KernelPair` selects the kernel/initramfs pair of a directory and identifies its
  version. `BootIdentity` is the decision of the two restore scripts (mkinitcpio's
  `run_latehook`, dracut's `bootrecov-restore.sh`) which snapshot a command line is of.
  `BootScript` is one boot with the rest of the script, step by step. `BootChain` puts
  them together with operations on the snapshot: what activation writes is what the
  script of a later boot reads. `BootProperties` states the properties, `MCBoot` the
  instance, `BootProofs` the theorems.
* `CommandOutput` is `runCommandCombinedOutput`: the child, its two pipes, a reader
  for each, the bounded output, the delivery worker.
* `TuiTasks` extends it with the TUI's `Update` loop: keys, the task that runs, the
  goroutine and channels that carry its lines, the lists and the selection.
  `TuiProperties` states the properties of both, `TuiProofs` proves them.
* `MkinitcpioMode` is the inspection of a mkinitcpio setup, and beside it what
  mkinitcpio builds from the same setup (`Reaches`, external).
* `HookInstall` extends it and installs and uninstalls the hooks, file by file, with
  the rollback of an install; `HookProperties` states its properties, `HookProofs` has
  the proofs.

`BootChain`, `TuiTasks` and `HookInstall` stand beside `Recovery` and not above it.
`BootChain` follows a single snapshot with operations that are atomic, since they
hold the flock and `Recovery` takes them apart; in return it has what `Recovery`
abstracts from, the pair and what the image really is. An operation
started by the TUI is one step there, with the outcomes that `Recovery` has for it
(done, done with a cleanup warning, failed and half way); the hooks share no file
with the operations.

How the state corresponds to the code:

| variable | stands for |
|---|---|
| `snap`, `ver`, `archive` | the snapshot directory, the version `detectKernelVersion` reads from its image, what its module archive holds |
| `mirror` | the mirror directory: absent, partly copied or removed, or equal to the snapshot by content |
| `customFile`, `custom` | GrubCustom: does it exist, does it begin with the header, which entries it has |
| `menu` | the recovery entries in grub.cfg, as the last `grub-mkconfig` wrote it |
| `bls` | the BLS files |
| `tree`, `marked` | module trees (absent, partial, full) and valid ownership markers |
| `pkg`, `primary`, `running` | the version owned by the package database, of the kernel in `/boot`, of the running kernel |
| `lock`, `dbLock` | holders of the flock and of `db.lck` (`Stale`: its process is dead) |
| `pc`, `task`, `result`, `work` | per process: the step, the request, the outcome; the locals of the operation that holds the flock |
| `startup` | what a starting TUI has read of GrubCustom |

State of the other components:

| variable | stands for |
|---|---|
| `reader`, `pipe`, `out` (`CommandOutput`) | each `drainCommandStream`: about to read, about to `emit`, returned; bytes written and not yet read; `boundedCommandOutput` |
| `feeding`, `events`, `eventsClosed`, `worker`, `sink` | whether this command got the delivery slot, its `events` channel, the worker that holds the slot and whose sink it calls |
| `mode`, `cursor`, `busy`, `detail`, `confirm`, `shown`, `claim` (`TuiTasks`) | the `Model` and what its status line claims of the last task |
| `job`, `stage`, `answer` | the task's goroutine: operation, the two reads of `refreshTaskState`, the deferred close, the `taskDoneMsg` |
| `output`, `closed`, `waiting`, `posted` | per task: its channel, the goroutines in `waitTaskOutput`, the `taskOutputMsg` on their way |
| `disk` | names with a snapshot, a mirror, an entry |
| `files`, `moduleDir`, `conf` (`HookInstall`) | hook files (absent, torn, of an earlier or of this release), the dracut directory, where the hook is in `mkinitcpio.conf`: in HOOKS and where the edit looks for it, in one of the two, in neither, or the file is torn |
| `images` | what the initramfs images hold of the hook |
| `setup`, `stale` | what mkinitcpio's configuration is told to support, which images it reaches, and whether the edit of HOOKS finds the list (`Form`); edited since the images were built |
| `step`, `left`, `saved` | how far the operation is, the paths it has still to treat, `installPathSnapshots` |
| `content`, `files`, `mirror`, `entry` (`BootChain`) | what each kernel image really is and whether `file` tells; the snapshot's directory; its mirror; the pair and markers of its boot entry |
| `issue` | the last reconcile reported the snapshot |
| `script`, `cmdline`, `running`, `phase` (`BootScript`) | the script the initramfs carries, `/proc/cmdline`, `uname -r`, how far the boot is |
| `trees`, `archived` | module trees under the real root, versions with an archive |
| `name`, `staging`, `varMount`, `demote`, `failed` | the script's locals and exit status (`target_readonly` is `demote`) |
| `mode`, `bootMode`, `said` | how the target filesystem is mounted, and was; whether anything was printed |

An action is one step between two points where another process, a failure or a
crash can be observed: a directory is removed in two steps (`StartUnmirror`,
`EndUnmirror`), GrubCustom is written in two (`TruncateCustom`, `WriteCustom`),
while a rename (`PublishSnapshot`, `Extract`) is one. The steps of one operation
follow the order of the Go code; `FirstStep`, `AfterUnlist` and `AfterUnmirror` say
how the operations share them. Every error return is a disjunct: a specific one
where the failure changes something (`SyncFails`, `UpdateGrubConfigFails`,
`PurgeFails`, ...), `GiveUp` where it changes nothing. The constant `Faults` says
which failures an instance has.

Abstractions. In `Recovery` a snapshot's kernel/initramfs/microcode set is one
artifact that is whole, damaged or torn (`BootChain` has the set); the text of
GrubCustom is a set of entries; what GRUB
configuration the cleanup can prove is `MenuExplained` and `MenuDoubtful`; on Fedora
every entry is a BLS file; an unmounted ESP is an error return; snapshots are
damaged or lost between operations only. In the boot modules a path is the sequence
of its components, so that the scripts' shell patterns are conditions on sequences;
the second check for the target just before it is marked is left out, as nothing but
the script runs then; what is left of a staging directory by a power cut is never
looked at again and forgotten. A line of a mkinitcpio file is literal, with one of
the values the inspection tells apart, or it is not. The text of HOOKS is abstracted to
where the hook is in it: `updateMkinitcpioHooks` takes the words of the first line with
`HOOKS=` up to its last parenthesis, mkinitcpio takes the list, and where the two
differ (several lines, `+=`, quotes, a parenthesis in a remark: `crooked`) an edit hits
the list, misses it, or hits the remark. Presets, drop-ins and HOOKS are edited between
hook operations only; whoever edits HOOKS keeps the hook in them as long as there are
any.

Bounds: `Snaps` (names the clock issues), `Versions`, `MaxKills`, `MaxBoots`,
`MaxUpgrades`; operations are not bounded. `MaxChanges` and `MaxTransactions` in
`BootChain`; boots are not bounded. `MaxPresets`, `MaxImages`, `MaxDropIns`, `MaxRuns`
for the hooks, and the fault `"one restore"`, which bounds what a rollback cannot put
back to one path, in place of `"rollback"`, which does not.

## Properties and runs

* `OneOperation`: flock and `db.lck` are held by exactly who is past taking them.
* `CleanupSpares`: no tree the cleanup has chosen comes to be needed before it is
  removed. `LiveTreesSpared`: bootrecov takes no tree from a kernel in use.
* `MenuInStep`: between operations grub.cfg has the entries of GrubCustom.
* `MenuStaysBootable`: no step of an operation breaks what an entry in the menu
  boots (mirror, modules) while the entry is still there.
* `BootableEntriesKept`: reconcile removes no entry that was bootable at its start
  and whose mirror is intact.
* `PointsKept`: the operations with all their steps implement `RecoveryPoints`: the
  menu offers only what is saved and mirrored, and what is offered is not taken apart.
* `ReportedDone`: what a successful operation reports is so when it returns.
* `ReconcileAligns`: a complete reconcile leaves no entry without a mirror, and no
  mirror without an entry except that of an untrusted snapshot it just dropped.
* `OperationsEnd`: every operation ends and releases its locks.

Of the chain from a snapshot to its boot:

* `OwnEntryNamed`: the boot of an entry bootrecov wrote is taken for its snapshot,
  also when it was written during a recovery, by a release without the snapshot
  marker, or when Fedora's boot dropped the parameters.
* `OnlyStatedName`: no command line is taken for a recovery unless all its evidence
  names the same snapshot, once.
* `TreesWhole`: wherever the power goes, a module tree is whole and bears its marker.
* `CleanExit`: mounts, mount modes and staging are as before, unless the script fails.
* `NeverSilent`: a recovery boot has its modules or a diagnostic.
* `EntryKeepsModules`: no operation takes files or modules from an entry that boots
  and stays.
* `KeptEntryServed`: reconcile keeps only entries that boot with their modules, or
  reports. An entry whose snapshot selects a kernel of unknown version is exempt: it
  is kept by its files alone, and README.md:58 says so where line 31 does not.

Of a command and the TUI:

* `NoSendOnClosed`, `NothingLostOnExit`, `NewestKept`: the readers are done before the
  channel is closed and the child is waited for; the output is the newest part of
  what was written, in order, within the limit, and marked if it is not all.
* `LateLinesDropped`: a worker that outlives its task adds no line to that task's
  closed channel or to another task's.
* `TasksEnd`: a task ends even if the sink never returns, except that a failed read
  may leave the child waiting for a reader.
* `QuitOnlyIdle`, `CursorOnRow`, `SelectionFollows`: the program is not left during an
  operation; the selection is always a row, and the row the task was about.
* `ClaimsHold`, `ListsFresh`: what the status line claims, and what the lists show
  after a task, is on disk unless another process changed it meanwhile.

Of the hooks:

* `InstallComplete`: a successful install leaves every hook file of this release in
  place, whatever was there before; the interface calls the hook installed then, unless
  the edit of HOOKS could miss the list; and when it does, every image has the hook.
* `FailedInstallUndone`: a failed one leaves files and configuration as it found them,
  unless it reports that the rollback failed too.
* `UninstallComplete`: a successful uninstall leaves no hook file, and HOOKS without the
  hook unless they are `crooked`; nor is it in the images then, if nothing had failed
  since the last install, and they were built since the configuration was edited.
* `SettledConsistent`: as long as nothing has failed, images can be built between
  operations, unless an uninstall has missed the hook in HOOKS (`OnlyNamed`); when the
  TUI shows the hook as installed, all images are built with it, whatever became of
  presets, drop-ins and HOOKS; and unless these were edited since, the images there
  have it then, and, where HOOKS can be told and edited, only then.

| run | instance | what it shows |
|---|---|---|
| `recovery_ops` | 1 process, 2 snapshots, 2 versions, failures the code handles, 1 upgrade, 1 boot | the files stay in step whatever fails and whatever operation follows; `RecoveryPoints` is implemented |
| `recovery_crash` | `FairSpec`, 1 process, 1 snapshot, hard failures, 1 kill or power cut | trees and reported results survive a crash; one reconcile repairs; no error path loops or keeps a lock |
| `recovery_race` | 2 processes, 1 snapshot, package manager | nothing depends on the order of the processes |
| `recovery_fedora` | BLS entries, 2 snapshots, a TUI starting at any time | the same promises with the other backend |
| `boot_restore` | both scripts, 2 versions, 3 boot directories, 3 sets of kernel images, 1 file that changes, 1 package transaction, 287 foreign command lines | from every snapshot to every boot: identified rightly or not at all, restored whole or with a diagnostic |
| `crash_then_activate` | 1 kill or power cut | **violates** `ActivationPublishes` |
| `crash_then_reconcile` | 1 kill or power cut | **violates** `ReconcileDropsStale` |
| `startup_race` | a starting TUI | **violates** `ReportedDone` |
| `tui` | all seven kinds of task, 3 tasks, 2 names, 1 change by another process; no commands | claims, lists and selection are right however a task ends |
| `command_output` | 2 tasks, 2 commands, failing reads, 2 bytes to each stream, pipes of 2, a limit of 3 of which 1 is the marker, channels of 1 | no interleaving of child, readers, worker and TUI loses, misplaces or waits for a line |
| `hooks` | both platforms, 3 operations, every mkinitcpio setup of at most 2 presets, 2 images and 2 drop-ins, every form of HOOKS, edits of it, all failures (one path of a rollback), kills, kernel updates, a new DNF plugin | installs are whole or undone, repair what crashes left, and reach every image; uninstalls leave nothing that their edit can find |
| `duplicate_hooks` | Fedora, 2 operations | **violates** `NoDuplicateHooks` |

Why the bounds are enough: two snapshots give one to act on and one that must not
be touched, and two snapshots of the same or of different kernels; two versions
give the running and the installed kernel, or a kernel before and after an upgrade.
The operations only relate snapshots through a common kernel version or through
GrubCustom as a whole, which two show. One crash is followed by any number of
operations. A second process matters for the flock, for which two suffice.

In `boot_restore` the two versions give a pair whose file name says its version, a
pair whose name does not, and a name that is wrong; one change makes the snapshot
select another pair than its entry. Foreign command lines are tried on an untouched
system only: what they are taken for does not depend on the rest, and operations
are followed through own and ordinary boots. Two images and two drop-ins give every
disagreement the inspection has to find: between presets, between the images of one,
and between a drop-in and the one after it.

For the TUI two tasks give a task and the late lines of the one before it, three also
a list that grows, is looked at and empties; two commands give one that finds the
delivery slot taken. Sizes are the smallest for which the pipes and channels are
full and the output overflows. Three hook
operations give one that fails or is killed, one after it, and one that repairs.
All bounds are constants (`MaxCommands`, `MaxBytes`, `MaxTasks`, `MaxForeign`,
`MaxRuns`).

Fairness: `FairSpec` assumes weak fairness of the steps of an operation that runs,
that is, that a process that holds the flock and is not killed goes on, and that
the tools it calls return. Nothing is assumed of requests, of the flock's queue, of
the package manager or of the user. A failure (`"removal"`, `"mkconfig"`, ...) may
happen each time.

`TuiSpec` assumes weak fairness of the child, the readers and the runner, of the task's
goroutine and of Bubble Tea's delivery of messages. It assumes nothing of keys, of
other processes and of the sink, whose return nothing bounds: `TasksEnd` is the claim
that none of it is needed. `HookSpec` has no fairness.

The TUI and hook runs do not check deadlock: the TUI may quit, and the number of
operations is bounded. `MenuInStep` and `MenuStaysBootable` are not claimed under `"write"`, `"rollback"` or
kills: a crash between the two writes is exactly what the violation runs show.

## Findings

1. `crash_then_activate`: `addGrubEntry` returns as soon as the entry is listed
   (`grub.go:96`). If a previous activation died between the write of GrubCustom and
   `grub-mkconfig`, activating again reports success and the entry never reaches the
   menu (README.md:396, step 8 of an activation).
2. `crash_then_reconcile`: stale entries are looked for in GrubCustom and BLS files
   only (`grub.go:402`). If a removal died between its write and `grub-mkconfig`,
   reconcile removes the mirror and leaves the menu entry (README.md:404).
3. `startup_race`: `NewModel` rewrites GrubCustom without the operation lock
   (`model.go:250`) and can overwrite an entry that was just added and reported
   (SAFETY.md:22).

4. `duplicate_hooks`: installing again after the DNF5 plugin appeared writes the DNF5
   action file and leaves the DNF4 ones (`fedora.go:252`), so that both generations
   have hooks (README.md:453: only the DNF5 file "to avoid duplicate transaction
   hooks").

Three things the code does that no text of the repository denies; the hook properties
name them as their conditions, and the model has all three:

* An uninstall with HOOKS in a form that the edit misses removes the hook files, changes
  nothing in `mkinitcpio.conf`, builds no images and reports success
  (`backups.go:279-290`, `551-567`, `628-656`). HOOKS name a hook that is gone, and every
  later mkinitcpio fails (`OnlyNamed`).
* An install with a parenthesis in a remark behind HOOKS can put the hook into the remark
  (`backups.go:636`; the inspection accepts such a line, `mkinitcpio_mode.go:130-136`). It
  reports success; the interface does not call the hook installed afterwards.
* An uninstall whose rebuild fails reports the error; run again it finds nothing to
  change and reports success, and the images keep the hook (`backups.go:283-289`).

## What is proved

All theorems hold for all constants that satisfy the assumptions of the modules, and
so for any number of processes, snapshots, versions, tasks, commands, images and any
bounds. Some need an assumption on the failures, which is named in the theorem; the
violation runs show that the code needs it as well.

`RecoveryProofs`, under `ConstantsOK` alone:

* `TypeCorrect`: `Spec => []TypeOK`
* `MutualExclusion`: `Spec => []OneOperation`
* `CleanupSafe`: `Spec => []CleanupSpares`
* `LiveTreesSafe`: `Spec => LiveTreesSpared`

The argument: `StepShape` says what a step of an operation may do to `pc`, `lock` and
`dbLock`; each action is shown typed and of that shape (one lemma per group of
steps). `OneOperation` is inductive with `TypeOK` alone, from the shape. From it,
whoever cleans holds both locks, so that no other operation, no package
transaction, no damage takes place meanwhile; what remains (requests, kills, boots,
a starting TUI, the cleanup's own steps) adds neither to the doomed trees nor to
`Protected` (`StillSpared`), which makes `CleanupSpares` inductive relative to the
former two. `LiveTreesSpared` follows from it step by step, since only restoration
(of an absent tree) and removal (of a doomed one) change trees.

`OperationProofs`, whatever fails:

* `TrustedEntriesKept`: `Spec => []BootableEntriesKept`. `OpInv` ties every label to
  the operations that have it. `KeepInv` follows an entry that was bootable when
  reconcile began: it is still to be visited, being visited, or kept.
* `OperationsTerminate`, for finitely many names and versions: every step of an
  operation lowers `Ahead(p)`, the steps it has ahead at most, and no step of another
  process, a crash of it or the system raises it while the operation keeps the lock;
  `Ahead(p)` is at most `MaxSteps`, linear in the numbers of names and versions. This
  is the part of `OperationsEnd` that needs no fairness: no loop goes round for ever,
  no error path goes back, and nobody else can give an operation more to do. What
  remains for TLC is that a running operation always has a step it can take.

`PointsProofs`, under `Recoverable` (no snapshot lost to something else; with
GrubCustom no failing write or rollback, no kill and no starting TUI, each of which
leaves the menu behind GrubCustom: `crash_then_activate`, `crash_then_reconcile`,
`startup_race`):

* `PointsImplemented`: `Recovery` implements `RecoveryPoints` (`PointsKept`)
* `MenuFollowsCustom`: `MenuInStep`, `MenuBootable`: `MenuStaysBootable`

That what is offered is mirrored (`OfferInv`) is not inductive: it must be known what
`grub-mkconfig` will write. Between rewritings GrubCustom and the menu agree
(`AgreeInv`); during one, the locals of the operation say what comes (`StandInv`).
Each action is then a step of the abstract specification or a stutter.

The promises that a crash breaks (findings 1 and 2) hold under `Recoverable` and
`NoStartup`:

* `ActivationPublished`: `ActivationPublishes`; `StaleDropped`: `ReconcileDropsStale`.
  Both are corollaries of a fact without `Recoverable` (`PublishedInStep`,
  `ReconciledInStep`): in every behaviour in which the menu agrees with GrubCustom
  between operations they hold, so that a menu left behind is the only way to break
  them.

`ResultProofs` and `AlignProofs`, under `NoStartup` (no TUI starts meanwhile, see
`startup_race`), with any crash and any failure:

* `SuccessIsReal`: `ReportedDone`. `DeliverInv` says for every label what the operation
  has established already.
* `ReconcileRealigns`: `ReconcileAligns`. `AlignInv` follows the visits and then the
  removals.

`BootProofs`, for any command lines, versions and directories that satisfy
`IdentityConstants`, `SnapshotIsNamed`, `CmdlinesWellFormed` and those below:

* `TreesAreWhole`: `TreesWhole`, `BootsCleanly`: `CleanExit`. The invariant says for
  every phase what staging, mounts and modes are; a tree is published by one rename
  of a directory that is whole and marked.
* `NamesAreStated`: `OnlyStatedName`, from the case analysis of `Identity`.
* `OwnEntriesNamed`: `OwnEntryNamed`, and `BootsSpeak`: `NeverSilent`. Both need, on
  Fedora only, `MirrorReadable`: a boot that has lost its markers is told by its image
  path, so the path must tell. It does if the mirrors are in bootrecov's own directory
  (`LegacyName`), or in a directory GRUB sees under a path that is not empty and that
  `MirrorRoot` is not a proper prefix of. A mirror in the root of its partition has
  the visible path `/` (`grub.go:22-51`), which the hook leaves empty
  (`fedora.go:344-356`), so that no image can be told by it. The instance of
  `boot_restore` satisfies the condition.
* `SelectionIsPair`: of every directory, an initramfs is selected if one belongs to a
  kernel that is there, and only with its own kernel.
* `EntriesKeepModules`: `EntryKeepsModules`, `KeptEntriesServed`: `KeptEntryServed`. The
  store is typed (`StoreOK`), so the pair an entry boots has a version; every operation
  either leaves the entry, its files and its tree, or writes an entry of a selected pair.

These rest on assumptions on the constants that the code justifies: `VersionsOK`
("unknown" is not a version), `NamesAndPathsClean` (`backupNamePattern` matches no
`.` or `..`; paths went through `filepath.Clean`), `StoreOK` (the initial directories
and images are ones there can be).

`TuiProofs`:

* `ChannelSafe`, `OutputWhole`: `NoSendOnClosed`, `NothingLostOnExit`. The runner goes on
  only when both readers are done, and a reader that came to the end left nothing.
* `OutputNewest`: `NewestKept`. Of each stream what was read is what was written and is
  no longer in the pipe, numbered in order (`RetainedInv`); writing to the bounded
  output keeps the newest of it, by lemmas about `SubSeq` of a sequence and its
  continuation. For any limit, any sizes, and any interleaving of the two readers.
* `TuiTypes`: `TuiTypeOK`. `LateLinesHarmless`: `LateLinesDropped`.
* `NoQuitInTask`, `ClaimsTrue`, `ListsTrueAfter`: `QuitOnlyIdle`, `ClaimsHold`,
  `ListsFresh`. From the operation's last step on the disk shows what the task will
  claim, unless another process changes it (`ClaimTrue`, `ListsTrue`).
* `CursorSafe`, `FocusFollowed`: `CursorOnRow`, `SelectionFollows`, from lemmas about rows
  as cardinalities: two names of a list have two rows.

`HookProofs`:

* `InspectionSound`: of every setup the inspection supports, of any size, all images
  run the hook that HOOKS names.
* `HookTypes`: `HookTypeOK`; `InstallUndone`: `FailedInstallUndone` (`UndoInv`: during an
  install or its rollback every path is still as saved, or is still to be put back);
  `InstallIsWhole`: `InstallComplete` (`WholeInv`, with `InspectionSound` for the images).
* `UninstallIsWhole`: `UninstallComplete`; `SettledWell`: `SettledConsistent`. As long as
  nothing has failed the hook files are `Whole` or `Bare` between operations
  (`CleanInv`), and the images are what HOOKS said of them when the setup was last the
  one it is; an uninstall leaves gone what it has passed (`RemoveInv`), and returns
  without a rebuild only if it began with nothing to remove or finds no hook to disable.
  For the module's directory and the configuration this needs that each belongs to one
  platform (`PlaceInv`), and for HOOKS that only in crooked ones the hook is where the
  edit or mkinitcpio does not look (`SetupInv`).
* `OneDnfGeneration`: `NoDuplicateHooks` in every behaviour in which no DNF plugin is
  installed while hooks of the older generation are there (`PluginsBeforeHooks`), with
  any failure, rollback and kill. So a plugin that comes later is the only way to
  finding 4 (`DnfInv`: what an install has still to write, and what a rollback has
  still to put back, is of one generation).

Model-checked only: liveness (`OperationsEnd`, `TasksEnd`), which needs fairness and is
out of the prover's reach. Of `OperationsEnd` the part that is safety is proved
(`OperationsTerminate`). Every other property of a passing run is a theorem; the
promises of the violation runs hold under the conditions of their theorems,
`ReportedDone` under `NoStartup`.

## Not modelled

* The text of things: menu entries and GRUB configuration, HOOKS lines, hook
  scripts, `file` output, status lines. What depends on it is a nondeterministic
  outcome (`MenuExplained`, `Identified`, `conf`) or a condition on components.
* `removeGrubEntry`'s match of an id as a substring: a set of entries has no
  prefixes. An entry whose artifacts cannot be read, which stops reconcile: in
  `Recovery` every entry can be attributed to its snapshot; `TuiTasks` has what the TUI
  makes of it (`ReconcileStops`).
* The wording of the report of a partial reconcile.
* Platform and bootloader detection (`platform.go`, `mountinfo.go`), environment
  overrides: decisions taken once, before an operation, over the text of mount tables
  and files; the operations get their result as a constant (`Platform`). A wrong ESP
  makes an operation fail or a second mirror elsewhere, which is no state of these
  modules.
* Command-line parsing, prompts, rendering, errors' wording, space estimates.
* Two hook installations at once, and an edit of the mkinitcpio setup during one. A kill
  tears the file being written and cuts the removal of the dracut module short; that
  writes reach the disk out of order in a power cut is not modelled.

## Plan

Snapshots, mirrors, entries and trees came first, then the TUI that starts the
operations, the hooks, the boot they prepare, and the abstract specification. What is
left, in order:

1. `GrubFile`: the text of GrubCustom as a sequence of blocks, with the removal of one by
   a substring of its id, and entries that belong to nobody.
2. Hook installations by two processes, with the snapshots of each.
3. `PlatformDetect`: the choice of backend and ESP as operators, and the ESP's mount as
   state in place of an error return.
