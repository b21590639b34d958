--------------------------- MODULE BootProperties ---------------------------
(***************************************************************************)
(* What makes the chain from a snapshot to a recovered boot correct.       *)
(***************************************************************************)
EXTENDS BootChain

OwnBoot ==
    /\ cmdline \notin OtherCmdlines
    /\ cmdline \notin {OrdinaryCmdline, NoCmdline}

Identified == phase \notin {"off", "identify"}

\* The boot of an entry bootrecov has written, in whatever system it was
\* written (a recovery that is itself running included), by whatever version,
\* and with the parameters Fedora drops, is taken for the snapshot it is of.
OwnEntryNamed == Identified /\ OwnBoot => name = Snapshot

\* The directories snapshots are mirrored in, by their last component.
MirrorDirs ==
    {LegacyDir} \cup {d[Len(d)] : d \in {MirrorRoot, MirrorVisible} \ {<<>>}}

\* The evidence that a boot is of snapshot n: the command line names no other
\* snapshot anywhere, nothing in it is there twice, and without an entry
\* marker the image is right in n's mirror.
NamesOnly(c, n) ==
    Range(c.snap) \cup ({DirName(Image(c))} \ {NoName}) = {n}

Evidence(c, n) ==
    /\ Len(c.entry) <= 1 /\ Len(c.snap) <= 1 /\ Len(c.image) <= 1
    /\ NamesOnly(c, n)
    /\ HasEntry(c) \/ LET path == Image(c) IN
                      /\ Len(path) >= 4
                      /\ path[Len(path) - 1] = n
                      /\ path[Len(path) - 2] \in MirrorDirs

\* No boot is taken for a recovery on doubtful evidence, whoever made up its
\* command line (README.md:440).
OnlyStatedName == name # NoName => Evidence(cmdline, name)

\* The boot of a recovery entry goes on with the modules of its kernel or with
\* a diagnostic on the console, whatever fails on the way.
NeverSilent ==
    [][phase # "up" /\ phase' = "up" /\ OwnBoot => Present(running)' \/ said']_vars

\* When the script has run, no staging directory, temporary /var mount or
\* writable root is left behind but by a script that exits with a failure
\* (README.md:453).
CleanExit ==
    phase = "up" =>
        /\ staging = "none"
        /\ failed \/ (varMount = "none" /\ mode = bootMode)

\* Wherever the power goes, what stands under a version's name is a whole tree
\* with its own marker, which the next boot may leave alone and the cleanup
\* may recognise.
TreesWhole == \A v \in Versions : trees[v] \in {"absent", "package", "restored"}

\* The version the kernel of the entry really has.
Boots == content[entry.pair.kernel[2]].version

\* While an entry that boots with its modules stays in the menu, only a package
\* transaction or a foreign write to the mirror takes its files or its module
\* tree away: no operation does, nor the cleanup that follows one, also when
\* the snapshot has come to select another pair (README.md:60).
EntryKeepsModules ==
    [][EntryLoads /\ Present(Boots) /\ entry' = entry
        => (EntryLoads /\ Present(Boots))' \/ RemovePackage \/ MirrorChanges]_vars

\* The boot loader finds the entry's files, and the modules of its kernel are
\* there, if snapshot and mirror tell which they are and restoring did not fail.
Served ==
    /\ EntryLoads
    /\ \/ issue
       \/ Version(files, Selected(files)) = Unknown
       \/ EntryVersion = Unknown
       \/ Present(EntryVersion)

\* Reconcile keeps no entry that is not served so (README.md:31).
KeptEntryServed == [][Listed' => Served' \/ ~Reconcile]_vars

=============================================================================
