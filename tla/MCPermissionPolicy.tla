------------------------- MODULE MCPermissionPolicy -------------------------
(***************************************************************************)
(* Every authorization a small set of configurations can be asked for, one *)
(* call after the other, and what must be true of the answers.             *)
(***************************************************************************)
EXTENDS PermissionPolicy

VARIABLES mode, config,   \* what the user configured
          call            \* the last call and its outcome

TwoTools == {"bash", "WebFetch"}
TwoInputs == {"i1", "i2"}
Lowercase(t) == IF t = "WebFetch" THEN "webfetch" ELSE t

Requirements == [bash |-> "DangerFullAccess", WebFetch |-> "ReadOnly"]
Configured == PolicyOf(mode, Requirements, config)

\* At most one rule of each kind, naming either tool, for one input or all.
SomeRules == {{}} \cup {{[tool |-> t, accepts |-> a]} : t \in Tool, a \in {{"i1"}, Input}}

NoCall == [tool |-> "none"]
NothingAsked ==
    /\ mode = "ReadOnly" /\ call = NoCall
    /\ config = [allow |-> {}, deny |-> {}, ask |-> {}, denied |-> {}]

Init ==
    /\ mode \in Mode
    /\ config \in [allow : SomeRules, deny : SomeRules, ask : SomeRules,
                   denied : {{}} \cup {{t} : t \in Tool}]
    /\ call = NoCall

Ask ==
    /\ \E tool \in Tool, input \in Input, override \in Override, prompter \in Prompter :
          call' = [tool |-> tool, input |-> input, override |-> override,
                   prompter |-> prompter,
                   outcome |-> Authorize(Configured, tool, input, override, prompter)]
    /\ UNCHANGED <<mode, config>>

Next == Ask
Spec == Init /\ [][Next]_<<mode, config, call>>

Made == call # NoCall
Again(policy) == Authorize(policy, call.tool, call.input, call.override, call.prompter)

\* A more permissive mode or one more allow rule never refuses what was let
\* through, and one more deny rule never lets a call through.
LooserIsLooser ==
    /\ \A looser \in {m \in Mode : AtLeast(m, mode)} :
          Made /\ call.outcome = "allow"
              => Again(PolicyOf(looser, Requirements, config)) = "allow"
    /\ \A r \in UNION SomeRules :
          Made =>
              /\ Again([Configured EXCEPT !.deny = @ \cup ParseRules({r})]) = "allow"
                   => call.outcome = "allow"
              /\ call.outcome = "allow"
                   => Again([Configured EXCEPT !.allow = @ \cup ParseRules({r})]) = "allow"

\* permissions.rs: "Tools listed in the denied_tools config are unconditionally
\* denied regardless of permission mode."
DeniedToolsAreDenied == Made /\ call.tool \in config.denied => call.outcome = "deny"

\* permission_enforcer.rs: in Prompt mode the enforcer defers to the caller's
\* interactive prompt flow, so with nobody to ask that flow must not grant.
PromptModeAsks ==
    /\ Made /\ mode = "Prompt" /\ call.outcome = "allow"
    /\ ~Matches(Configured.allow, call.tool, call.input)
    => call.prompter = "allow"

=============================================================================
