-------------------------- MODULE PermissionPolicy --------------------------
(***************************************************************************)
(* PermissionPolicy::authorize_with_context of runtime/src/permissions.rs  *)
(* as operators.  A rule's matcher (Any, Exact, Prefix) is the set of      *)
(* inputs it accepts.                                                      *)
(***************************************************************************)
EXTENDS Tools

\* The derived Ord of the enum is the order of its variants.
ModeRank == [ReadOnly |-> 0, WorkspaceWrite |-> 1, DangerFullAccess |-> 2,
             Prompt |-> 3, Allow |-> 4]
Mode == DOMAIN ModeRank
AtLeast(mode, required) == ModeRank[mode] >= ModeRank[required]

\* PermissionContext: what a PreToolUse hook decided, "none" when it was silent.
Override == {"none", "allow", "deny", "ask"}

\* The prompter: absent, or the answer PermissionPrompter::decide would give.
Prompter == {"absent", "allow", "deny"}

RuleConfig == [tool : Tool, accepts : SUBSET Input]
Config == [allow : SUBSET RuleConfig, deny : SUBSET RuleConfig,
           ask : SUBSET RuleConfig, denied : SUBSET Tool]

\* PermissionRule::parse lowercases the tool name of a rule.
ParseRules(rules) == {[tool |-> Lower(r.tool), accepts |-> r.accepts] : r \in rules}

\* with_tool_requirement and with_permission_rules; a tool nobody registered
\* requires DangerFullAccess, which `required` says for it.
PolicyOf(mode, required, config) ==
    [mode |-> mode, required |-> required,
     allow |-> ParseRules(config.allow), deny |-> ParseRules(config.deny),
     ask |-> ParseRules(config.ask),
     denied |-> {Lower(t) : t \in config.denied}]

\* PermissionRule::matches compares the name as it comes, case and all.
Matches(rules, tool, input) ==
    \E r \in rules : r.tool = tool /\ input \in r.accepts

DeniedOutright(policy, tool, input) ==
    tool \in policy.denied \/ Matches(policy.deny, tool, input)

\* What the mode and the allow rules let through without a question.
Granted(policy, tool, input) ==
    \/ Matches(policy.allow, tool, input)
    \/ policy.mode = "Allow"
    \/ AtLeast(policy.mode, policy.required[tool])

\* Variant: the question is asked one mode too low.
MayEscalate_FromReadOnly(policy, tool) ==
    \/ policy.mode = "Prompt"
    \/ policy.mode = "ReadOnly" /\ policy.required[tool] = "DangerFullAccess"

MayEscalate(policy, tool) ==
    \/ policy.mode = "Prompt"
    \/ policy.mode = "WorkspaceWrite" /\ policy.required[tool] = "DangerFullAccess"

\* Variant: a hook's "allow" is final.
Evaluate_HookAllowIsFinal(policy, tool, input, override) ==
    IF DeniedOutright(policy, tool, input) \/ override = "deny" THEN "deny"
    ELSE IF override = "allow" THEN "allow"
    ELSE IF override = "ask" \/ Matches(policy.ask, tool, input) THEN "prompt"
    ELSE IF Granted(policy, tool, input) THEN "allow"
    ELSE IF MayEscalate(policy, tool) THEN "prompt" ELSE "deny"

\* The decision before anybody is asked.  The override "allow" only reaches
\* the ask rules and the grants one match arm earlier, in the same order.
Evaluate(policy, tool, input, override) ==
    IF DeniedOutright(policy, tool, input) \/ override = "deny" THEN "deny"
    ELSE IF override = "ask" \/ Matches(policy.ask, tool, input) THEN "prompt"
    ELSE IF Granted(policy, tool, input) THEN "allow"
    ELSE IF MayEscalate(policy, tool) THEN "prompt" ELSE "deny"

PromptOrDeny(prompter) == IF prompter = "allow" THEN "allow" ELSE "deny"

Authorize(policy, tool, input, override, prompter) ==
    LET decision == Evaluate(policy, tool, input, override) IN
    IF decision = "prompt" THEN PromptOrDeny(prompter) ELSE decision

=============================================================================
