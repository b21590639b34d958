----------------------------- MODULE KernelPair -----------------------------
(***************************************************************************)
(* Which kernel and initramfs of a directory bootrecov pairs, and which    *)
(* version it takes the kernel to have.  A directory is a function from    *)
(* the artifacts it may hold to their condition; what a kernel image       *)
(* really is, and whether `file` tells, is its content.                    *)
(***************************************************************************)
EXTENDS Naturals, Sequences, SequencesExt

CONSTANTS
    FileVersions,   \* kernel versions file names can end in, sorted
    Artifacts,      \* <<kind, family>>: the files a boot directory may hold
    Unknown         \* a version that cannot be told

Versions == Range(FileVersions)

ASSUME VersionsOK == FileVersions \in Seq(Versions) /\ Unknown \notin Versions

\* vmlinuz-linux, vmlinuz, and vmlinuz-<version>.
Families == {"linux", "plain"} \cup Versions

Kernel(f) == <<"kernel", f>>
Microcode == <<"microcode", "intel">>
InitKinds == {"initrd", "initramfs", "fallback"}
NoFile == <<"none", "none">>

ArtifactsWellFormed ==
    Artifacts \subseteq {Kernel(f) : f \in Families} \cup {Microcode}
                        \cup (InitKinds \X Families)
ASSUME ArtifactsWellFormed

\* The kernel images there may be; each has its content.
KernelFamilies == {f \in Families : Kernel(f) \in Artifacts}
Contents == [KernelFamilies -> [version : Versions, told : BOOLEAN]]

Conditions == {"absent", "empty", "whole"}
Directories == [Artifacts -> Conditions]

There(d, a) == a \in Artifacts /\ d[a] # "absent"
Usable(d, a) == a \in Artifacts /\ d[a] = "whole"

-----------------------------------------------------------------------------
(* Selection.                                                              *)

\* vmlinuz-linux is found by the pattern vmlinuz-* too, after the versions.
Globbed == Append(FileVersions, "linux")

\* The names an initramfs of a kernel found so may have, in order.
InitOrder == <<"initrd", "initramfs", "fallback">>

\* The pairs in the order they are looked for.
PairOrder ==
    <<<<Kernel("linux"), <<"initramfs", "linux">>>>,
      <<Kernel("plain"), <<"initrd", "plain">>>>>>
    \o [i \in 1..3 * Len(Globbed) |->
           LET f == Globbed[(i + 2) \div 3] IN
           <<Kernel(f), <<InitOrder[((i - 1) % 3) + 1], f>>>>]

\* The kernels that stand for a directory with no pair, in order.
LoneKernels == <<Kernel("linux"), Kernel("plain")>> \o [i \in 1..Len(Globbed) |-> Kernel(Globbed[i])]

IsPair(d, pair) == There(d, pair[1]) /\ There(d, pair[2])

\* What an entry for the directory loads: the first pair that is there.
Selected(d) ==
    LET pairs == {i \in DOMAIN PairOrder : IsPair(d, PairOrder[i])}
        kernels == {i \in DOMAIN LoneKernels : There(d, LoneKernels[i])}
    IN [kernel |-> IF pairs # {} THEN PairOrder[Min(pairs)][1]
                   ELSE IF kernels # {} THEN LoneKernels[Min(kernels)] ELSE NoFile,
        init |-> IF pairs # {} THEN PairOrder[Min(pairs)][2] ELSE NoFile,
        micro |-> There(d, Microcode)]

\* All the files a selection names are there and not empty.
AllUsable(d, sel) ==
    /\ Usable(d, sel.kernel)
    /\ Usable(d, sel.init)
    /\ sel.micro => Usable(d, Microcode)

\* The mirror has the files of the selection as the snapshot has them.
SameFiles(d, e, sel) ==
    /\ AllUsable(d, sel)
    /\ AllUsable(e, sel)

-----------------------------------------------------------------------------
(* Identity.  content[f] is [version, told]: the version the image of the  *)
(* family really has, and whether `file` reads it.                         *)

\* An image `file` identifies must not contradict its name; a name is enough
\* where `file` does not.
KernelVersion(d, kernel, content) ==
    LET f == kernel[2]
        told == Usable(d, kernel) /\ content[f].told
    IN IF kernel = NoFile THEN Unknown
       ELSE IF told THEN IF f \in Versions \ {content[f].version}
                         THEN Unknown ELSE content[f].version
       ELSE IF f \in Versions THEN f
       ELSE Unknown

=============================================================================
