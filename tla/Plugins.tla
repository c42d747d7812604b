------------------------------ MODULE Plugins ------------------------------
(***************************************************************************)
(* PluginManager of plugins/src/lib.rs: the installed copies of plugins,   *)
(* the registry file that records them, the settings file that says which  *)
(* are enabled, and what a starting program loads.  Nothing is written     *)
(* atomically and nothing is locked: every step on the disk may be cut     *)
(* short, by an error or by the end of the program, and the operation ends *)
(* there.                                                                  *)
(*                                                                         *)
(* A copy is the set of files of a version that are there.  A plugin loads *)
(* when its manifest and the command the manifest names are.  The source   *)
(* of a plugin does not change while an operation runs.                    *)
(***************************************************************************)
EXTENDS Naturals

CONSTANTS External,    \* plugins the user installs from a directory
          Bundled,     \* plugins that come with the program
          DefaultOn,   \* plugins whose manifest says default_enabled
          MaxVersion,  \* bound: versions of a bundled source
          MaxCuts      \* bound: steps on the disk that are cut short

VARIABLES
    source,     \* per plugin, its source: a version, 0 when it is not there
    invalid,    \* external sources with a manifest that does not load
    dir,        \* per plugin, its installed copy
    registry,   \* the registry file: per plugin the version recorded
    settings,   \* the settings file: per plugin "on", "off" or "none"
    torn,       \* which of these two files cannot be read
    running,    \* plugins the program has loaded enabled
    pc,         \* step of the operation, "idle" between two
    op,         \* the operation: its kind and the plugin it is about
    at,         \* the plugin whose copy the step is about
    loaded,     \* the registry as the operation holds it
    todo,       \* bundled plugins the sync has not looked at
    changed,    \* the sync has to store the registry
    cuts        \* steps cut so far

\* History: plugins whose last request was answered with "disabled" or
\* "uninstalled"; a write of the settings was cut; plugins with a cut update and
\* no whole copy since.
VARIABLES off, settingsCut, halfUpdated

worldVars == <<source, invalid>>
diskVars == <<dir, registry, settings, torn>>
opVars == <<pc, op, at, loaded, todo, changed>>
historyVars == <<off, settingsCut, halfUpdated>>
vars == <<worldVars, diskVars, opVars, historyVars, running, cuts>>

Plugin == External \cup Bundled
File == {"manifest", "command", "data"}
NoCopy == [version |-> 0, files |-> {}]
Copy == [version : 0..MaxVersion, files : SUBSET File]
Nobody == "nobody"
Idle == [kind |-> "none", plugin |-> Nobody]
Kind == {"install", "update", "uninstall", "enable", "disable", "start"}

Init ==
    /\ source = [p \in Plugin |-> 1] /\ invalid = {}
    /\ dir = [p \in Plugin |-> NoCopy]
    /\ registry = [p \in Plugin |-> 0] /\ loaded = registry
    /\ settings = [p \in Plugin |-> "none"] /\ torn = {}
    /\ running = {} /\ pc = "idle" /\ op = Idle /\ at = Nobody
    /\ todo = {} /\ changed = FALSE /\ cuts = 0
    /\ off = {} /\ settingsCut = FALSE /\ halfUpdated = {}

TypeOK ==
    /\ source \in [Plugin -> 0..MaxVersion] /\ invalid \subseteq External
    /\ dir \in [Plugin -> Copy]
    /\ registry \in [Plugin -> 0..MaxVersion] /\ torn \subseteq {"registry", "settings"}
    /\ settings \in [Plugin -> {"on", "off", "none"}]
    /\ running \subseteq Plugin
    /\ pc \in {"idle", "remove", "copy", "store", "sync", "discover", "check", "settings"}
    /\ op \in [kind : Kind, plugin : Plugin \cup {Nobody}] \cup {Idle}
    /\ at \in Plugin \cup {Nobody} /\ loaded \in [Plugin -> 0..MaxVersion]
    /\ todo \subseteq Bundled /\ changed \in BOOLEAN /\ cuts \in 0..MaxCuts
    /\ off \subseteq Plugin /\ settingsCut \in BOOLEAN
    /\ halfUpdated \subseteq Plugin

----------------------------------------------------------------------------
HasManifest(p) == "manifest" \in dir[p].files
Loads(p) == {"manifest", "command"} \subseteq dir[p].files
Contents(p) == IF p \in invalid THEN File \ {"command"} ELSE File

\* load_plugin_from_directory on the source.
Intact(p) == source[p] # 0 /\ p \notin invalid

\* A directory that matches no record is an external plugin of that name.
Known(p) == Loads(p) /\ (p \in External \/ registry[p] # 0)

IsEnabled(p) ==
    settings[p] = "on" \/ (settings[p] = "none" /\ p \in Bundled \cap DefaultOn)

NoRecords == [p \in Plugin |-> 0]
EndOp ==
    /\ pc' = "idle" /\ op' = Idle /\ at' = Nobody /\ todo' = {} /\ changed' = FALSE
    /\ loaded' = NoRecords

\* What is known of the user's wish once a request about p has begun.
Asked(p) == off' = off \ {p}

\* install: the source is loaded before anything is touched.
BeginInstall(p) ==
    /\ pc = "idle" /\ p \in External /\ Intact(p)
    /\ op' = [kind |-> "install", plugin |-> p] /\ at' = p /\ pc' = "remove" /\ Asked(p)
    /\ UNCHANGED <<worldVars, diskVars, cuts, running, loaded, todo, changed,
                   settingsCut, halfUpdated>>

BeginUpdate(p) ==
    /\ pc = "idle" /\ "registry" \notin torn /\ registry[p] # 0 /\ Intact(p)
    /\ op' = [kind |-> "update", plugin |-> p] /\ at' = p /\ pc' = "remove"
    /\ loaded' = registry
    /\ UNCHANGED <<worldVars, diskVars, historyVars, cuts, running, todo, changed>>

BeginUninstall(p) ==
    /\ pc = "idle" /\ "registry" \notin torn /\ registry[p] # 0 /\ p \notin Bundled
    /\ op' = [kind |-> "uninstall", plugin |-> p] /\ at' = p /\ pc' = "remove"
    /\ loaded' = [registry EXCEPT ![p] = 0] /\ Asked(p)
    /\ UNCHANGED <<worldVars, diskVars, cuts, running, todo, changed, settingsCut,
                   halfUpdated>>

\* enable and disable look the plugin up in plugin_registry(), which syncs the
\* bundled plugins and discovers the installed ones first.
BeginSwitch(kind, p) ==
    /\ pc = "idle" /\ "registry" \notin torn
    /\ op' = [kind |-> kind, plugin |-> p] /\ pc' = "sync" /\ Asked(p)
    /\ loaded' = registry /\ todo' = Bundled /\ changed' = FALSE
    /\ UNCHANGED <<worldVars, diskVars, cuts, running, at, settingsCut,
                   halfUpdated>>

\* A program starts, or reloads its plugins: it reads the settings again.
BeginStart ==
    /\ pc = "idle" /\ torn = {}
    /\ op' = [kind |-> "start", plugin |-> Nobody] /\ pc' = "sync"
    /\ running' = {}
    /\ loaded' = registry /\ todo' = Bundled /\ changed' = FALSE
    /\ UNCHANGED <<worldVars, diskVars, historyVars, cuts, at>>

----------------------------------------------------------------------------
(* sync_bundled_plugins                                                     *)

\* Variant: any record and a copy that loads will do.
NeedsSync_AnyVersion(p) == loaded[p] = 0 \/ ~Loads(p)

NeedsSync(p) == loaded[p] # source[p] \/ ~Loads(p)

SyncNext == \E p \in todo :
    /\ pc = "sync" /\ todo' = todo \ {p}
    /\ IF source[p] # 0 /\ NeedsSync(p)
       THEN at' = p /\ pc' = "remove" /\ UNCHANGED <<loaded, changed>>
       ELSE IF source[p] = 0 /\ loaded[p] # 0
            THEN /\ at' = p /\ pc' = "remove" /\ changed' = TRUE
                 /\ loaded' = [loaded EXCEPT ![p] = 0]
            ELSE UNCHANGED <<at, pc, loaded, changed>>
    /\ UNCHANGED <<worldVars, diskVars, historyVars, cuts, running, op>>

SyncDone ==
    /\ pc = "sync" /\ todo = {}
    /\ pc' = IF changed THEN "store" ELSE "discover"
    /\ UNCHANGED <<worldVars, diskVars, historyVars, cuts, running, op, at, loaded,
                   todo, changed>>

\* remove_dir_all
RemoveCopy ==
    /\ pc = "remove"
    /\ dir' = [dir EXCEPT ![at] = NoCopy]
    /\ pc' = CASE op.kind = "uninstall" -> "store"
                [] source[at] = 0 -> "sync"
                [] OTHER -> "copy"
    /\ UNCHANGED <<worldVars, historyVars, cuts, torn, registry, settings, running,
                   op, at, loaded, todo, changed>>

\* copy_dir_all.  install loads the registry only now, and fails if it cannot.
CopySource ==
    /\ pc = "copy"
    /\ dir' = [dir EXCEPT ![at] = [version |-> source[at], files |-> Contents(at)]]
    /\ halfUpdated' = halfUpdated \ {at}
    /\ IF op.kind = "install" /\ "registry" \in torn THEN EndOp
       ELSE /\ loaded' = [(IF op.kind = "install" THEN registry ELSE loaded)
                             EXCEPT ![at] = source[at]]
            /\ pc' = IF op.kind \in {"install", "update"} THEN "store" ELSE "sync"
            /\ changed' = (op.kind \notin {"install", "update"})
            /\ UNCHANGED <<op, at, todo>>
    /\ UNCHANGED <<worldVars, cuts, torn, registry, settings, running, off,
                   settingsCut>>

\* store_registry, and what each operation does next.  update is done with it.
StoreRegistry ==
    /\ pc = "store"
    /\ registry' = loaded
    /\ IF op.kind = "update" THEN EndOp
       ELSE /\ pc' = IF op.kind \in {"install", "uninstall"} THEN "settings"
                     ELSE IF changed THEN "discover" ELSE "check"
            /\ changed' = FALSE /\ UNCHANGED <<op, at, todo, loaded>>
    /\ UNCHANGED <<worldVars, historyVars, cuts, torn, dir, settings, running>>

\* discover_installed_plugins_with_failures forgets a plugin without a manifest.
Discover ==
    LET gone == {p \in Plugin : registry[p] # 0 /\ ~HasManifest(p)} IN
    /\ pc = "discover"
    /\ loaded' = [p \in Plugin |-> IF p \in gone THEN 0 ELSE registry[p]]
    /\ pc' = IF gone = {} THEN "check" ELSE "store"
    /\ UNCHANGED <<worldVars, diskVars, historyVars, cuts, running, op, at, todo,
                   changed>>

Failures == {p \in Plugin : HasManifest(p) /\ ~Loads(p)}

\* into_registry: one plugin that does not load fails the operation, and the
\* start of the program.
Check ==
    /\ pc = "check"
    /\ IF Failures # {} THEN EndOp /\ UNCHANGED running
       ELSE IF op.kind = "start"
            THEN running' = {p \in Plugin : Known(p) /\ IsEnabled(p)} /\ EndOp
            ELSE IF Known(op.plugin)
                 THEN pc' = "settings" /\ UNCHANGED <<running, op, at, todo,
                                                      changed, loaded>>
                 ELSE EndOp /\ UNCHANGED running
    /\ UNCHANGED <<worldVars, diskVars, historyVars, cuts>>

\* Variant: disabling forgets the plugin instead of saying no.
Switch_DisableForgets(kind) == IF kind \in {"install", "enable"} THEN "on" ELSE "none"

Switch(kind) ==
    CASE kind \in {"install", "enable"} -> "on"
      [] kind = "disable" -> "off"
      [] OTHER -> "none"

\* write_enabled_state reads the whole settings file and writes it back.
WriteSettings ==
    /\ pc = "settings"
    /\ IF "settings" \in torn THEN UNCHANGED <<settings, off>>
       ELSE /\ settings' = [settings EXCEPT ![op.plugin] = Switch(op.kind)]
            /\ off' = off \cup (IF op.kind \in {"disable", "uninstall"}
                             THEN {op.plugin} ELSE {})
    /\ EndOp
    /\ UNCHANGED <<worldVars, cuts, torn, dir, registry, running, settingsCut,
                   halfUpdated>>

----------------------------------------------------------------------------
\* A step on the disk is cut: some of the files are there, a file that was
\* being written is as before, empty (which reads as no entries) or torn.
CutDirectory ==
    /\ pc \in {"remove", "copy"}
    /\ \E files \in SUBSET (IF pc = "remove" THEN dir[at].files ELSE Contents(at)) :
          dir' = [dir EXCEPT ![at] =
             [version |-> IF pc = "remove" THEN dir[at].version ELSE source[at],
              files |-> files]]
    /\ halfUpdated' = IF op.kind = "update" THEN halfUpdated \cup {at} ELSE halfUpdated
    /\ EndOp /\ cuts < MaxCuts /\ cuts' = cuts + 1
    /\ UNCHANGED <<worldVars, torn, registry, settings, running, off, settingsCut>>

CutRegistry ==
    /\ pc = "store"
    /\ \/ registry' \in {registry, NoRecords} /\ UNCHANGED torn
       \/ torn' = torn \cup {"registry"} /\ UNCHANGED registry
    /\ EndOp /\ cuts < MaxCuts /\ cuts' = cuts + 1
    /\ UNCHANGED <<worldVars, historyVars, dir, settings, running>>

CutSettings ==
    /\ pc = "settings"
    /\ \/ settings' \in {settings, [p \in Plugin |-> "none"]} /\ UNCHANGED torn
       \/ torn' = torn \cup {"settings"} /\ UNCHANGED settings
    /\ settingsCut' = TRUE
    /\ EndOp /\ cuts < MaxCuts /\ cuts' = cuts + 1
    /\ UNCHANGED <<worldVars, dir, registry, running, off, halfUpdated>>

\* The user repairs a file that cannot be read by deleting it.
DeleteTorn ==
    /\ pc = "idle" /\ torn # {} /\ torn' = {}
    /\ registry' = IF "registry" \in torn THEN NoRecords ELSE registry
    /\ settings' = IF "settings" \in torn THEN [p \in Plugin |-> "none"] ELSE settings
    /\ UNCHANGED <<worldVars, opVars, historyVars, cuts, dir, running>>

\* A new release bundles a newer version, or no longer bundles the plugin; the
\* author of an external plugin works on it.
SourceChanges ==
    /\ pc = "idle"
    /\ \/ \E p \in Bundled :
             /\ source[p] \in 1..(MaxVersion - 1)
             /\ source' = [source EXCEPT ![p] = @ + 1] /\ UNCHANGED invalid
       \/ \E p \in Bundled : source' = [source EXCEPT ![p] = 0] /\ UNCHANGED invalid
       \/ \E s \in SUBSET External : invalid' = s /\ UNCHANGED source
    /\ UNCHANGED <<diskVars, opVars, historyVars, cuts, running>>

Begin == \/ \E p \in Plugin : BeginInstall(p) \/ BeginUpdate(p) \/ BeginUninstall(p)
         \/ \E kind \in {"enable", "disable"}, p \in Plugin : BeginSwitch(kind, p)
         \/ BeginStart
Step == \/ SyncNext \/ SyncDone \/ RemoveCopy \/ CopySource \/ StoreRegistry
        \/ Discover \/ Check \/ WriteSettings
Cut == CutDirectory \/ CutRegistry \/ CutSettings

Next == Begin \/ Step \/ Cut \/ DeleteTorn \/ SourceChanges
Spec == Init /\ [][Next]_vars

----------------------------------------------------------------------------
\* Whatever was cut before, a sync that gets through leaves the whole of the
\* current version of every bundled plugin, and its record: a copy that was cut
\* never passes for a good one.  The exception is a cut update, which recopies
\* the version the record already names.  (Bundled versions only go up.)
BundledCopiesAreWhole ==
    pc = "check" => \A p \in Bundled \ halfUpdated : source[p] # 0 =>
        /\ dir[p] = [version |-> source[p], files |-> File]
        /\ registry[p] = source[p]

\* A plugin the user switched off or uninstalled, and was told so, is not loaded
\* by a later start, whatever is cut in between except a write of the settings.
SwitchedOffStaysOff ==
    [][pc = "check" /\ op.kind = "start" /\ ~settingsCut
         => \A p \in running' : p \notin off]_vars
=============================================================================
