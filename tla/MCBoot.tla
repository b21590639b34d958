------------------------------- MODULE MCBoot -------------------------------
(***************************************************************************)
(* BootChain for TLC: two kernel versions, a snapshot with a pair that     *)
(* carries no version in its name and one that does, and command lines of  *)
(* every mixture of markers and images.                                    *)
(***************************************************************************)
EXTENDS BootProperties

FileVersionsMC == <<"6.1", "6.8">>
AllWords == STRING
VersionSet == {"6.1", "6.8"}
NameSet == {"s1", "s2"}

ArtifactsMC ==
    {<<"kernel", "linux">>, <<"initramfs", "linux">>,
     <<"kernel", "6.1">>, <<"initramfs", "6.1">>, <<"microcode", "intel">>}

Holding(held) == [a \in ArtifactsMC |-> IF a \in held THEN "whole" ELSE "absent"]

LinuxPair == {<<"kernel", "linux">>, <<"initramfs", "linux">>}
VersionPair == {<<"kernel", "6.1">>, <<"initramfs", "6.1">>}

\* One pair, both, or the versioned one beside a kernel without initramfs.
Directories0 ==
    {Holding(LinuxPair), Holding(LinuxPair \cup VersionPair),
     Holding(VersionPair \cup {<<"kernel", "linux">>})}

ContentsOf(linux, told, versioned, named) ==
    [f \in {"linux", "6.1"} |->
        IF f = "linux" THEN [version |-> linux, told |-> told]
                       ELSE [version |-> versioned, told |-> named]]

\* Two versions `file` tells; an image it does not tell; a name that is wrong.
Contents0 ==
    {ContentsOf("6.8", TRUE, "6.1", TRUE), ContentsOf("6.8", FALSE, "6.1", FALSE),
     ContentsOf("6.8", TRUE, "6.8", TRUE)}

Root == <<"boot", "efi", "recovery">>
Mirror == <<"recovery">>

Ordinary == [entry |-> <<>>, snap |-> <<>>, image |-> <<<<"", "boot", "vmlinuz">>>>]

ImagePaths ==
    {<<"", "vmlinuz">>,
     <<"", "boot", "vmlinuz">>,
     <<"", "recovery", "s1", "vmlinuz">>,
     <<"(hd0)", "boot", "efi", "recovery", "s2", "vmlinuz">>,
     <<"", "recovery", "s1", "deeper", "vmlinuz">>,
     <<"", "recovery", "vmlinuz">>,
     <<"", "bootrecov-snapshots", "s1", "vmlinuz">>,
     <<"(hd0)", "bootrecov-snapshots", "s2", "vmlinuz">>,
     <<"", "bootrecov-snapshots", "..", "s2", "vmlinuz">>,
     <<"", "bootrecov-snapshots", "s2", "deeper", "vmlinuz">>}

Others ==
    [entry : {<<>>, <<"ours">>, <<"bad">>, <<"ours", "ours">>},
     snap : {<<>>, <<"s1">>, <<"s2">>, <<"">>, <<"-x">>, <<"s1", "s2">>},
     image : {<<>>, <<<<"", "recovery", "s1", "vmlinuz">>, <<"", "recovery", "s2", "vmlinuz">>>>}
             \cup {<<p>> : p \in ImagePaths}]
    \ {Ordinary}

=============================================================================
