------------------------ MODULE MCConversationTools -------------------------
(***************************************************************************)
(* What a tool call of the conversation loop goes through, in one run:     *)
(* the loop itself, where a hook run is one step; the hook run, where the  *)
(* steps are those of a process and its pipes; and the authorization alone *)
(* under every small set of rules.  subject says which of them moves; the  *)
(* others stay as they are.                                                *)
(***************************************************************************)
EXTENDS MCConversation

CONSTANTS MaxCommands, MaxRuns         \* bounds of Hooks

VARIABLES
    subject,                           \* "loop", "hooks" or "rules"
    hookPc, left, payload, script, child, helper, flow, hookAborted, runs,
    beganAborted, refused,             \* of Hooks
    mode, config, asked                \* of MCPermissionPolicy

hookVars == <<hookPc, left, payload, script, child, helper, flow, hookAborted, runs,
              beganAborted, refused>>
ruleVars == <<mode, config, asked>>
eachVars == <<subject, vars, hookVars, ruleVars>>

HookRun == INSTANCE Hooks WITH pc <- hookPc, aborted <- hookAborted
Rules == INSTANCE MCPermissionPolicy
    WITH Tool <- {"bash", "WebFetch"}, Input <- {"i1", "i2"}, call <- asked

EachInit ==
    /\ Init /\ HookRun!Init
    /\ \/ subject = "rules" /\ Rules!Init
       \/ subject \in {"loop", "hooks"} /\ Rules!NothingAsked

EachNext ==
    \/ subject = "loop" /\ Next /\ UNCHANGED <<subject, hookVars, ruleVars>>
    \/ subject = "hooks" /\ HookRun!Next /\ UNCHANGED <<subject, vars, ruleVars>>
    \/ subject = "rules" /\ Rules!Next /\ UNCHANGED <<subject, vars, hookVars>>

\* The fairness of each component, while it is the one that moves.
Moves(component, step) == subject = component /\ step

EachSpec ==
    /\ EachInit /\ [][EachNext]_eachVars
    /\ WF_vars(Moves("loop", TurnStep))
    /\ WF_hookVars(Moves("hooks", HookRun!Program))
    /\ WF_hookVars(Moves("hooks", HookRun!Child))

\* Hooks: the conversation loop may take a hook run for one step.
RunsLookAtomic == HookRun!RunsLookAtomic

\* Hooks: what ends by itself, or is aborted while it is polled, ends.
CommandsEnd == HookRun!CommandsEnd

\* MCPermissionPolicy: a looser configuration refuses no more than a stricter one.
LooserIsLooser == Rules!LooserIsLooser
=============================================================================
