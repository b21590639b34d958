---------------------------- MODULE BootIdentity ----------------------------
(***************************************************************************)
(* Which snapshot a boot is a recovery of, as the restore scripts in the   *)
(* initramfs (mkinitcpio's run_latehook, dracut's bootrecov-restore.sh)    *)
(* read it from the kernel command line.  A command line is its            *)
(* bootrecov_entry values, its bootrecov_snapshot values and its           *)
(* BOOT_IMAGE paths; a path is the sequence of its components, the first   *)
(* one what is before the first slash.                                     *)
(***************************************************************************)
EXTENDS Naturals, Sequences

CONSTANTS
    Words,          \* values of parameters, components of paths
    Names,          \* valid snapshot names
    LegacyDir,      \* the default name of the mirror directory
    MirrorRoot,     \* EfiDir when the hook was installed, as components
    MirrorVisible,  \* the same directory as GRUB sees it
    Ours            \* an entry marker of the form bootrecov- and 12 hex digits

Scripts == {"mkinitcpio", "dracut"}

NoName == ""

\* A path has at least what is before the first slash.
Paths == Seq(Words) \ {<<>>}
Cmdlines == [entry : Seq(Words), snap : Seq(Words), image : Seq(Paths)]

ASSUME IdentityConstants ==
    /\ Names \cup {NoName, LegacyDir, Ours} \subseteq Words
    /\ NoName \notin Names
    /\ MirrorRoot \in Seq(Words)
    /\ MirrorVisible \in Seq(Words)

\* backupNamePattern; filepath.Clean and filepath.Rel.
ASSUME NamesAndPathsClean ==
    /\ Names \cap {".", ".."} = {}
    /\ \A i \in DOMAIN MirrorVisible : MirrorVisible[i] \notin {"", ".", ".."}

HasEntry(c) == c.entry # <<>>
HasImage(c) == c.image # <<>>
Image(c) == IF HasImage(c) THEN c.image[Len(c.image)] ELSE <<NoName>>

\* An empty, "." or ".." component after the first slash.
Malformed(path) == \E i \in 2..Len(path) : path[i] \in {"", ".", ".."}

\* The directory of the image, once there are two slashes.
DirName(path) == IF Len(path) < 3 THEN NoName ELSE path[Len(path) - 1]

\* .../bootrecov-snapshots/NAME/FILE, after the first such directory.
LegacyName(path) ==
    LET places == {i \in 2..Len(path) - 1 : path[i] = LegacyDir}
    IN IF \E i \in places : Len(path) = i + 2 /\ \A j \in places : i <= j
       THEN DirName(path) ELSE NoName

-----------------------------------------------------------------------------
(* dracut only: an image under the mirror the hook was installed for.      *)

Visible(path) == IF Len(path) = 1 THEN path ELSE Tail(path)

Under(path, dir) ==
    /\ dir # <<>>
    /\ Len(path) > Len(dir)
    /\ SubSeq(path, 1, Len(dir)) = dir

\* The components below the first of the two directories that has the image.
BelowMirror(path) ==
    LET v == Visible(path)
        dir == IF Under(v, MirrorRoot) THEN MirrorRoot ELSE MirrorVisible
    IN IF Under(v, dir) THEN SubSeq(v, Len(dir) + 1, Len(v)) ELSE <<>>

\* Fedora's boot may drop the entry's parameters.
ByMirror(script, c) ==
    /\ script = "dracut"
    /\ ~HasEntry(c)
    /\ c.snap = <<>>
    /\ LegacyName(Image(c)) = NoName
    /\ HasImage(c)

-----------------------------------------------------------------------------
\* Mutant: the marker wins over the image.
RefusedMarkerWins(script, c) ==
    \/ Len(c.entry) > 1
    \/ HasEntry(c) /\ c.entry[1] # Ours
    \/ Len(c.image) > 1
    \/ Malformed(Image(c))
    \/ ByMirror(script, c) /\ Len(BelowMirror(Image(c))) > 2
    \/ Len(c.snap) > 1
    \/ Len(c.snap) = 1 /\ (c.snap[1] \notin Names \/ ~HasEntry(c))

\* Parameters that are ambiguous, malformed or contradict each other: the
\* script says so and restores nothing.
Refused(script, c) ==
    \/ Len(c.entry) > 1
    \/ HasEntry(c) /\ c.entry[1] # Ours
    \/ Len(c.image) > 1
    \/ Malformed(Image(c))
    \/ ByMirror(script, c) /\ Len(BelowMirror(Image(c))) > 2
    \/ Len(c.snap) > 1
    \/ /\ Len(c.snap) = 1
       /\ \/ c.snap[1] \notin Names
          \/ ~HasEntry(c)
          \/ DirName(Image(c)) \notin {NoName, c.snap[1]}

\* The name the parameters give, which may not be a valid one.
NameIn(script, c) ==
    LET path == Image(c)
        below == BelowMirror(path)
    IN IF c.snap # <<>> THEN c.snap[1]
       ELSE IF HasEntry(c) /\ DirName(path) # NoName THEN DirName(path)
       ELSE IF LegacyName(path) # NoName THEN LegacyName(path)
       ELSE IF ByMirror(script, c) /\ Len(below) = 2 THEN below[1]
       ELSE NoName

\* The name the script goes on with, and whether it has printed a diagnostic.
Identity(script, c) ==
    LET name == NameIn(script, c)
        valid == ~Refused(script, c) /\ name \in Names
    IN [name |-> IF valid THEN name ELSE NoName,
        said |-> \/ Refused(script, c)
                 \/ name \notin Names \cup {NoName}
                 \/ name = NoName /\ HasEntry(c)]

=============================================================================
