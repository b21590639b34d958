------------------------------ MODULE BootChain ------------------------------
(***************************************************************************)
(* The chain from a snapshot to a boot of its recovery entry: the pair of  *)
(* kernel and initramfs the snapshot selects, the mirror and the entry an  *)
(* activation makes of it, the modules that pair needs, what reconcile and *)
(* the cleanup do once the snapshot has come to select another pair, and   *)
(* the restore script of the next boot.  Operations are atomic here (they  *)
(* hold the operation lock; Recovery takes them apart) and fail only in    *)
(* what concerns the modules and the mirror.                               *)
(***************************************************************************)
EXTENDS BootScript, KernelPair

CONSTANTS
    InitialDirectories, \* boot directories a snapshot was made of
    InitialContents,    \* content functions of the kernel images
    NoMirror, NoEntry,
    OrdinaryCmdline,    \* a boot of the installed system
    OtherCmdlines,      \* command lines edited by hand or made by other tools
    MaxChanges,         \* files of the snapshot or the mirror that change
    MaxTransactions     \* package transactions

ASSUME VersionsAgree == ModuleVersions = Versions
ASSUME CmdlinesWellFormed ==
    /\ {OrdinaryCmdline} \cup OtherCmdlines \subseteq Cmdlines
    /\ \A a \in Artifacts : a[1] \in Words
ASSUME StoreOK ==
    /\ InitialDirectories \subseteq Directories
    /\ InitialContents \subseteq Contents
    /\ NoMirror \notin Directories

VARIABLES
    content,    \* content[f]: the version of the kernel image, and is it told
    files,      \* the directory of Snapshot
    mirror,     \* its mirror, or NoMirror
    entry,      \* its boot entry, or NoEntry
    issue,      \* the last reconcile reported an issue
    changes, transactions

storeVars == <<content, files>>
menuVars == <<mirror, entry>>
boundVars == <<changes, transactions>>
vars == <<script, trees, archived, bootVars, content, files, mirror, entry, issue, boundVars>>

HasMirror == mirror # NoMirror
Listed == entry # NoEntry

Version(d, sel) == KernelVersion(d, sel.kernel, content)

\* Everything of a fresh boot of the installed system.
Init ==
    /\ script \in Scripts
    /\ files \in InitialDirectories
    /\ content \in InitialContents
    /\ trees = [v \in Versions |-> "package"]
    \* A snapshot older than the archives has none.
    /\ archived \in {{}, {Version(files, Selected(files))} \cap Versions}
    /\ mirror = NoMirror
    /\ entry = NoEntry
    /\ issue = FALSE
    /\ cmdline = OrdinaryCmdline
    /\ running \in Versions
    /\ phase = "up"
    /\ name = NoName
    /\ staging = "none"
    /\ varMount = "none"
    /\ mode = "rw"
    /\ bootMode = "rw"
    /\ demote = FALSE
    /\ said = FALSE
    /\ failed = FALSE
    /\ changes = 0
    /\ transactions = 0

-----------------------------------------------------------------------------
(* Command lines.                                                          *)

\* Mutant: the markers of the running recovery are carried into a new entry.
CurrentWordsUnfiltered == [entry |-> cmdline.entry, snap |-> cmdline.snap]

\* currentKernelCmdline drops the image and every marker.
CurrentWords == [entry |-> <<>>, snap |-> <<>>]

\* recoveryKernelCmdline; a BLS entry has $kernelopts and the same markers.
RecoveryWords ==
    [entry |-> Append(CurrentWords.entry, Ours),
     snap |-> Append(CurrentWords.snap, Snapshot)]

ImagePath(kernel) == <<NoName>> \o MirrorVisible \o <<Snapshot, kernel[1]>>

\* GRUB passes the image it loads; an entry made by an earlier version has no
\* snapshot marker, and Fedora's boot can drop both.
EntryCmdlines ==
    LET whole == [entry |-> entry.words.entry, snap |-> entry.words.snap,
                  image |-> <<ImagePath(entry.pair.kernel)>>]
    IN {whole, [whole EXCEPT !.snap = <<>>]}
       \cup IF Dracut THEN {[whole EXCEPT !.snap = <<>>, !.entry = <<>>]} ELSE {}

-----------------------------------------------------------------------------
(* Cleanup of restored module trees (cleanupRestoredModuleTrees), as far   *)
(* as the pair matters.                                                    *)

\* Mutant: the snapshot's present selection is taken for the entry's.
EntryExplainedByName(e, m) ==
    e # NoEntry => m # NoMirror /\ Version(files, Selected(files)) # Unknown

\* The entry, if there is one, is what addGrubEntry would write now for the
\* snapshot, and `file` tells what its mirror's kernel is.
EntryExplained(e, m) ==
    e # NoEntry =>
        /\ m # NoMirror
        /\ e.pair = Selected(files)
        /\ Version(files, e.pair) # Unknown
        /\ Usable(m, e.pair.kernel)
        /\ content[e.pair.kernel[2]].told

Protected(e) ==
    LET sel == Selected(files)
        v == Version(files, sel)
    IN {running}
       \cup {w \in Versions : trees[w] = "package"}
       \cup ({v} \ archived)
       \cup IF e = NoEntry THEN {} ELSE {v, content[sel.kernel[2]].version}

\* What the cleanup may leave: nothing is removed when something cannot be
\* proved, during a package transaction, and on platforms without cleanup.
CleanedTrees(t, e, m) ==
    {t} \cup IF Dracut \/ ~EntryExplained(e, m) THEN {}
             ELSE {[v \in Versions |->
                       IF t[v] = "restored" /\ v \notin Protected(e)
                       THEN "absent" ELSE t[v]]}

-----------------------------------------------------------------------------
(* Operations on the snapshot's recovery.                                  *)

\* The system is up, by a boot whose command line is followed here.
Operating ==
    /\ phase = "up"
    /\ cmdline \notin OtherCmdlines

\* restoreSquashFSModuleTree.
Restored(v) == [trees EXCEPT ![v] = "restored"]

\* A sync that fails may have brought some files.
PartCopies ==
    IF HasMirror
    THEN {[a \in Artifacts |-> IF a \in copied THEN files[a] ELSE mirror[a]] :
             copied \in SUBSET {a \in Artifacts : files[a] # mirror[a]}}
    ELSE {NoMirror}

NewEntry == [pair |-> Selected(files), words |-> RecoveryWords]

\* activateBackup: refused unless the pair is complete, its version known,
\* and an entry that is there loads this very pair.
Activate ==
    /\ Operating
    /\ LET sel == Selected(files)
           v == Version(files, sel)
           synced == HasMirror /\ SameFiles(files, mirror, sel)
       IN /\ AllUsable(files, sel)
          /\ v # Unknown
          /\ Listed => entry.pair = sel
          /\ Present(v) \/ v \in archived
          /\ trees' = IF Present(v) THEN trees ELSE Restored(v)
          /\ \/ /\ mirror' = IF synced THEN mirror ELSE files
                /\ entry' = IF Listed THEN entry ELSE NewEntry
             \/ /\ ~synced \/ ~Present(v)    \* the sync fails, or chown before it
                /\ mirror' \in IF synced THEN {mirror} ELSE PartCopies
                /\ UNCHANGED entry
    /\ issue' = FALSE
    /\ UNCHANGED <<script, archived, bootVars, storeVars, boundVars>>

\* deactivateBackup.
Deactivate ==
    /\ Operating
    /\ Listed \/ HasMirror
    /\ entry' = NoEntry
    /\ mirror' = NoMirror
    /\ trees' \in CleanedTrees(trees, NoEntry, NoMirror)
    /\ issue' = FALSE
    /\ UNCHANGED <<script, archived, bootVars, storeVars, boundVars>>

\* An operation on another recovery ends in a cleanup.
CleanupElsewhere ==
    /\ Operating
    /\ trees' \in CleanedTrees(trees, entry, mirror)
    /\ issue' = FALSE
    /\ UNCHANGED <<script, archived, bootVars, storeVars, menuVars, boundVars>>

-----------------------------------------------------------------------------
(* syncBackupsAndGrub.  Each case says what it restores, what becomes of   *)
(* the mirror and whether the entry is kept; removeStaleGrubEntries and    *)
(* the cleanup follow in every one.                                        *)

\* ensureEntryKernelModulesAvailable goes by the image in the mirror.
EntryVersion == IF HasMirror THEN Version(mirror, entry.pair) ELSE Unknown

EntryFilesThere == HasMirror /\ AllUsable(mirror, entry.pair)

\* Mutant: the files are enough, whatever the modules.
OldPairFilesOnly(t, keep) ==
    /\ entry.pair # Selected(files)
    /\ Version(files, Selected(files)) # Unknown
    /\ t = trees
    /\ keep = EntryFilesThere
    /\ issue' = FALSE
    /\ UNCHANGED mirror

\* The snapshot selects another pair: the old one is kept while its files and
\* its modules are there or come back from the archive.
OldPair(t, keep) ==
    /\ entry.pair # Selected(files)
    /\ Version(files, Selected(files)) # Unknown
    /\ LET v == EntryVersion
           needed == EntryFilesThere /\ v # Unknown /\ trees[v] = "absent"
       IN \/ /\ ~needed
             /\ t = trees /\ keep = EntryFilesThere /\ issue' = FALSE
          \/ /\ needed /\ v \notin archived
             /\ t = trees /\ keep = FALSE /\ issue' = FALSE
          \/ /\ needed /\ v \in archived
             /\ t = Restored(v) /\ keep = TRUE /\ issue' = FALSE
          \/ /\ needed /\ v \in archived     \* the restoration fails
             /\ t \in {trees, Restored(v)} /\ keep = TRUE /\ issue' = TRUE
    /\ UNCHANGED mirror

\* The version of the selected kernel cannot be told: nothing is touched.
Unidentified(t, keep) ==
    /\ Version(files, Selected(files)) = Unknown
    /\ t = trees
    /\ keep = EntryFilesThere
    /\ issue' = FALSE
    /\ UNCHANGED mirror

SamePair ==
    /\ entry.pair = Selected(files)
    /\ Version(files, entry.pair) # Unknown

\* A file of the snapshot is empty: the mirror is left as it is.
InvalidSnapshot(t, keep) ==
    /\ SamePair
    /\ ~AllUsable(files, entry.pair)
    /\ t = trees
    /\ keep = (EntryFilesThere /\ Present(Version(files, entry.pair)))
    /\ issue' = FALSE
    /\ UNCHANGED mirror

\* No archive, or a restoration that fails, at last (chown) or before.
ModulesUnavailable(t, keep) ==
    /\ SamePair
    /\ AllUsable(files, entry.pair)
    /\ LET v == Version(files, entry.pair) IN
       /\ ~Present(v)
       /\ t \in {trees} \cup {Restored(w) : w \in archived \cap {v}}
    /\ keep = FALSE
    /\ issue' = TRUE
    /\ UNCHANGED mirror

\* The modules are there or restored, and the mirror is refreshed or not.
Refresh(t, keep) ==
    /\ SamePair
    /\ AllUsable(files, entry.pair)
    /\ LET v == Version(files, entry.pair) IN
       /\ Present(v) \/ v \in archived
       /\ t = IF Present(v) THEN trees ELSE Restored(v)
       /\ \/ mirror' = files /\ keep = TRUE /\ issue' = FALSE
          \/ /\ mirror' \in PartCopies
             /\ keep = (Present(v) /\ HasMirror /\ SameFiles(files, mirror, entry.pair))
             /\ issue' = TRUE

ReconcileActive ==
    \E t \in {trees} \cup {Restored(v) : v \in Versions}, keep \in BOOLEAN :
        /\ \/ OldPair(t, keep)
           \/ Unidentified(t, keep)
           \/ InvalidSnapshot(t, keep)
           \/ ModulesUnavailable(t, keep)
           \/ Refresh(t, keep)
        /\ entry' = IF keep THEN entry ELSE NoEntry
        /\ trees' \in CleanedTrees(t, entry', mirror')

ReconcileInactive ==
    /\ mirror' = NoMirror
    /\ entry' = NoEntry
    /\ issue' = FALSE
    /\ trees' \in CleanedTrees(trees, NoEntry, NoMirror)

Reconcile ==
    /\ Operating
    /\ IF Listed THEN ReconcileActive ELSE ReconcileInactive
    /\ UNCHANGED <<script, archived, bootVars, storeVars, boundVars>>

-----------------------------------------------------------------------------
(* What else happens.                                                      *)

\* A file of the snapshot is lost, truncated or put there.
FileChanges ==
    /\ Operating
    /\ changes < MaxChanges
    /\ changes' = changes + 1
    /\ \E a \in Artifacts : \E c \in Conditions \ {files[a]} :
           files' = [files EXCEPT ![a] = c]
    /\ UNCHANGED <<script, trees, archived, bootVars, content, menuVars, issue, transactions>>

\* The same in the mirror, on a filesystem others write to.
MirrorChanges ==
    /\ Operating
    /\ HasMirror
    /\ changes < MaxChanges
    /\ changes' = changes + 1
    /\ \E a \in Artifacts, c \in {"absent", "empty"} :
           /\ mirror[a] = "whole"
           /\ mirror' = [mirror EXCEPT ![a] = c]
    /\ UNCHANGED <<script, trees, archived, bootVars, storeVars, entry, issue, transactions>>

\* A package goes, and its module tree with it.
RemovePackage ==
    /\ Operating
    /\ transactions < MaxTransactions
    /\ transactions' = transactions + 1
    /\ \E v \in Versions :
           /\ trees[v] = "package"
           /\ trees' = [trees EXCEPT ![v] = "absent"]
    /\ UNCHANGED <<script, archived, bootVars, storeVars, menuVars, issue, changes>>

\* The boot loader can load the entry's files.
EntryLoads == Listed /\ HasMirror /\ AllUsable(mirror, entry.pair)

\* Under mkinitcpio the root comes up writable, or as the command line says.
BootEntry ==
    /\ EntryLoads
    /\ \E c \in EntryCmdlines, m \in {"rw", "ro"} :
           Start(c, content[entry.pair.kernel[2]].version, m)

BootOrdinary ==
    \E v \in Versions : trees[v] = "package" /\ Start(OrdinaryCmdline, v, "rw")

\* Other command lines are tried where there is no recovery yet: what they are
\* taken for does not depend on it.
BootOther ==
    /\ ~Listed /\ ~HasMirror /\ changes = 0 /\ transactions = 0
    /\ \E c \in OtherCmdlines, v \in Versions : Start(c, v, "rw")

Boot ==
    /\ phase = "off"
    /\ BootEntry \/ BootOrdinary \/ BootOther
    /\ UNCHANGED <<storeVars, menuVars, issue, boundVars>>

DuringBoot ==
    /\ ScriptStep \/ PowerOff
    /\ UNCHANGED <<storeVars, menuVars, issue, boundVars>>

BootrecovStep == Activate \/ Deactivate \/ CleanupElsewhere \/ Reconcile

Next ==
    \/ BootrecovStep
    \/ FileChanges
    \/ MirrorChanges
    \/ RemovePackage
    \/ Boot
    \/ DuringBoot

Spec == Init /\ [][Next]_vars

=============================================================================
