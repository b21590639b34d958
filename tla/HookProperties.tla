--------------------------- MODULE HookProperties ---------------------------
(***************************************************************************)
(* What installing and removing the hooks promises.                        *)
(***************************************************************************)
EXTENDS HookInstall

\* Every variable has its type.
HookTypeOK ==
    /\ platform \in Platforms
    /\ plugins \subseteq DnfPaths
    /\ files \in [Paths -> {"none", "old", "torn", "new"}]
    /\ conf \in Confs \cup {"torn"}
    /\ setup \in [supported : BOOLEAN, reach : {"all", "some", "none"},
                  form : {"unset", "plain", "crooked"}]
    /\ stale \in BOOLEAN
    /\ images \in {"without", "old", "new", "mixed", "broken"}
    /\ moduleDir \in BOOLEAN /\ removed \in BOOLEAN
    /\ unrestored \in BOOLEAN /\ spoiled \in BOOLEAN
    /\ step \in {"idle", "refused", "write", "enable", "regenerate", "rollback",
                 "remove", "disable"}
    /\ left \subseteq Paths \cup {"conf"}
    /\ result \in {"none", "ok", "refused", "error", "unrestored", "killed"}

Ends(o, r) == step # "idle" /\ step' = "idle" /\ op = o /\ result' = r

\* An install that succeeds leaves every hook of this release in place,
\* whatever an earlier, failed or interrupted operation left.  All images have
\* the hook when the interface says then that it is installed, and it does
\* unless the edit of HOOKS has hit a remark.
InstallComplete ==
    [][Ends("install", "ok") =>
           /\ setup.form = "plain" => HooksInstalled'
           /\ HooksInstalled' => images' = "new"
           /\ \A p \in ArchPaths \cup DracutPaths \cup {"dracutconf"} :
                 p \in OwnPaths => files'[p] = "new"
           /\ platform = "fedora" =>
                 files'["dnf5"] = "new" \/ {files'["dnf4pre"], files'["dnf4post"]} = {"new"}
          ]_hookVars

\* An install that fails leaves the files and the configuration as it found
\* them, unless it says that it could not.
FailedInstallUndone ==
    [][Ends("install", "error") \/ Ends("install", "refused") =>
           files' = saved.files /\ conf' = saved.conf]_hookVars

\* An uninstall that succeeds leaves no hook file, and no hook in HOOKS unless
\* they are written such that the edit misses it.  Nor do the images have the
\* hook then, if nothing has failed before, unless the configuration was edited
\* and they have still to be built with it.
UninstallComplete ==
    [][Ends("uninstall", "ok") =>
           /\ \A p \in OwnPaths : files'[p] = "none"
           /\ ~moduleDir'
           /\ setup.form # "crooked" => ~Named'
           /\ ~spoiled /\ ~stale' /\ ~Named' => images' = "without"]_hookVars

\* What an uninstall that missed the hook in HOOKS leaves of it: mkinitcpio
\* fails until an install brings the files or somebody edits HOOKS.
OnlyNamed == platform = "arch" /\ Named /\ \A p \in ArchPaths : ~Present(p)

\* Between operations, as long as none has failed: images can be built, as
\* the package manager will, unless an uninstall has missed the hook in HOOKS;
\* when the interface says that the hook is installed, all of them are built
\* with it, whatever became of drop-ins, presets and HOOKS; and unless these
\* have changed since, the images there have it then, and then only as far as
\* the setup can be told.
SettledConsistent ==
    step = "idle" /\ ~spoiled =>
        /\ Built = "broken" => OnlyNamed
        /\ HooksInstalled => Built \in {"old", "new"}
        /\ ~stale /\ HooksInstalled => images \in {"old", "new"}
        /\ ~stale /\ setup.supported /\ setup.form = "plain" =>
              (images \in {"old", "new"} => HooksInstalled)

\* Only one of the two DNF generations has hooks, so that no transaction
\* runs them twice.
NoDuplicateHooks ==
    step = "idle" /\ result = "ok" =>
        ~(Present("dnf5") /\ (Present("dnf4pre") \/ Present("dnf4post")))
=============================================================================
