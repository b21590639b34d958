---------------------------- MODULE MkinitcpioMode ----------------------------
(***************************************************************************)
(* What mkinitcpio builds its images from, and what                        *)
(* inspectMkinitcpioMode (mkinitcpio_mode.go) makes of it without running  *)
(* any of those shell files: mkinitcpio.conf, its drop-ins and the presets *)
(* that select a configuration for each image.  The hook can be installed  *)
(* only where every image takes HOOKS from mkinitcpio.conf.                *)
(*                                                                         *)
(* A file says of HOOKS nothing, a literal list with or without systemd,   *)
(* or something that only a shell can tell.                                *)
(***************************************************************************)
EXTENDS Naturals, SequencesExt

CONSTANTS
    MaxPresets,    \* preset files (bound)
    MaxImages,     \* images of all presets together (bound)
    MaxDropIns     \* drop-ins of mkinitcpio.conf (bound)

ASSUME SetupBounds == {MaxPresets, MaxImages, MaxDropIns} \subseteq Nat

\* literalHooks: nothing found, the words found, or an error.
Literal == {"busybox", "systemd"}
Hooks   == Literal \cup {"unset", "opaque"}

\* <image>_config or ALL_config and whether <image>_options or ALL_options
\* has words.  A configuration that is not literally mkinitcpio.conf is
\* another.
Settings == [config : {"unset", "main", "another"}, options : BOOLEAN]
Default == [config |-> "unset", options |-> FALSE]

\* A preset: its PRESETS array and assignments, unless a line is no literal.
Presets == [literal : {TRUE}, all : Settings, images : SUBSET Settings]
               \cup {[literal |-> FALSE, all |-> Default, images |-> {}]}

ImagesOf(ps) == UNION {{n} \X ps[n].images : n \in DOMAIN ps}

\* crooked: the words up to the last parenthesis of the HOOKS line are not the
\* list: words in quotes, or a remark behind the list that has one.
Setups ==
    [conf    : Hooks,
     crooked : BOOLEAN,
     presets : {ps \in SeqOf(Presets, MaxPresets) : Cardinality(ImagesOf(ps)) <= MaxImages},
     dropIns : SeqOf(Hooks, MaxDropIns)]

Files(fs) == {fs[n] : n \in DOMAIN fs}

\* The configuration an image is built from.
SelectedConfig(p, i) == IF i.config # "unset" THEN i.config ELSE p.all.config

\* inspectMkinitcpioPreset gives a reason.
PresetRefused(p) ==
    \/ ~p.literal
    \/ p.images = {}
    \/ p.all.options
    \/ \E i \in p.images : i.options \/ SelectedConfig(p, i) = "another"

\* Drop-ins are read for an image that selects no configuration.
UsesDropIns(s) ==
    \/ s.presets = <<>>
    \/ \E p \in Files(s.presets) : \E i \in p.images : SelectedConfig(p, i) = "unset"

Says(s, what) == Files(s.dropIns) \cap what # {}

\* Mutant: drop-ins are left to the user.
InspectConfOnly(s) ==
    IF s.conf \notin Literal \/ \E p \in Files(s.presets) : PresetRefused(p) THEN "unreadable"
    ELSE s.conf

\* inspectMkinitcpioMode: the name, where there is no reason against it.
Inspect(s) ==
    IF s.conf \notin Literal \/ \E p \in Files(s.presets) : PresetRefused(p) THEN "unreadable"
    ELSE IF ~UsesDropIns(s) THEN s.conf
    ELSE IF Says(s, {"opaque"}) THEN "unreadable"
    ELSE IF Says(s, Literal) THEN "overridden"
    ELSE s.conf

\* ensureInitramfsHookSupported
Supported(s) == Inspect(s) = "busybox"

-----------------------------------------------------------------------------
\* What mkinitcpio does with it.  Whether an image runs the hook that HOOKS
\* of mkinitcpio.conf names: a BusyBox image built from that list.
RunsFromConf(s) ==
    IF s.conf = "opaque" THEN BOOLEAN ELSE {s.conf = "busybox"}

\* The last drop-in that sets HOOKS sets it.
RunsWithDropIns(s) ==
    IF Says(s, {"opaque"}) THEN BOOLEAN
    ELSE IF Says(s, Literal) THEN {FALSE}
    ELSE RunsFromConf(s)

RunsHook(s, p, i) ==
    IF p.all.options \/ i.options THEN BOOLEAN
    ELSE CASE SelectedConfig(p, i) = "another" -> {FALSE}
           [] SelectedConfig(p, i) = "main"    -> RunsFromConf(s)
           [] OTHER                            -> RunsWithDropIns(s)

\* For each image that is built; without presets, for the one of the kernel.
Outcomes(s) ==
    IF s.presets = <<>> THEN {RunsWithDropIns(s)}
    ELSE IF \E p \in Files(s.presets) : ~p.literal THEN {BOOLEAN, {TRUE}, {FALSE}}
    ELSE UNION {{RunsHook(s, p, i) : i \in p.images} : p \in Files(s.presets)}

\* Which images run the hook, as far as the files tell.
Reaches(s) ==
    {r \in {"all", "some", "none"} :
        CASE r = "all"  -> \A o \in Outcomes(s) : TRUE \in o
          [] r = "none" -> \A o \in Outcomes(s) : FALSE \in o
          [] r = "some" -> /\ \E o \in Outcomes(s) : TRUE \in o
                           /\ \E o \in Outcomes(s) : FALSE \in o}

\* Whether there are HOOKS in mkinitcpio.conf, and whether the words that
\* updateMkinitcpioHooks goes by are those that mkinitcpio takes.
Form(s) ==
    CASE s.conf = "unset"                -> "unset"
      [] s.conf = "opaque" \/ s.crooked -> "crooked"
      [] OTHER                           -> "plain"

\* What is told of these setups and what is so.
Inspections ==
    UNION {{[supported |-> Supported(s), reach |-> r, form |-> Form(s)] :
               r \in Reaches(s)} : s \in Setups}
=============================================================================
