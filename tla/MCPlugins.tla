----------------------------- MODULE MCPlugins ------------------------------
(***************************************************************************)
(* Two components that keep what the user chose in files, without locks    *)
(* and without atomic writes: plan mode beside the Config tool, and the    *)
(* plugins.  subject says which of them moves.                             *)
(***************************************************************************)
EXTENDS PlanMode

CONSTANTS External, Bundled, DefaultOn, MaxVersion   \* of Plugins

VARIABLES
    subject,                                   \* "plan mode" or "plugins"
    source, invalid, dir, registry, enabled, torn, running, step, op, at,
    loaded, todo, changed, cutSteps, off, settingsCut, halfUpdated   \* of Plugins

pluginVars == <<source, invalid, dir, registry, enabled, torn, running, step, op, at,
                loaded, todo, changed, cutSteps, off, settingsCut, halfUpdated>>
eachVars == <<subject, vars, pluginVars>>

Manager == INSTANCE Plugins
    WITH settings <- enabled, pc <- step, cuts <- cutSteps

ASSUME PluginsAreApart == External \cap Bundled = {} /\ Manager!Nobody \notin Manager!Plugin

EachInit == Init /\ Manager!Init /\ subject \in {"plugins", "plan mode"}

EachNext ==
    \/ subject = "plan mode" /\ Next /\ UNCHANGED <<subject, pluginVars>>
    \/ subject = "plugins" /\ Manager!Next /\ UNCHANGED <<subject, vars>>

EachSpec == EachInit /\ [][EachNext]_eachVars

\* Plugins: a sync that gets through leaves whole copies.
BundledCopiesAreWhole == Manager!BundledCopiesAreWhole

\* Plugins: what was switched off is not loaded.
SwitchedOffStaysOff == Manager!SwitchedOffStaysOff
=============================================================================
