--------------------------- MODULE MCConversation ---------------------------
(* Constants for the runs of Conversation. *)
EXTENDS Conversation

Lowercase(t) == IF t = "WebFetch" THEN "webfetch" ELSE t

Rule(tool, accepts) == [tool |-> tool, accepts |-> accepts]
NoRules == [allow |-> {}, deny |-> {}, ask |-> {}, denied |-> {}]

\* Every tool is granted: the run is about the transcript.
OneTool == {"bash"}
OneInput == {"ls"}
OpenPolicy == PolicyOf("DangerFullAccess", [t \in OneTool |-> "DangerFullAccess"], NoRules)

\* bash needs an escalation, one of its inputs is denied, one is always asked
\* about; reading is granted.
TwoTools == {"bash", "read_file"}
ThreeInputs == {"ls", "rm", "curl"}
GuardedPolicy ==
    PolicyOf("WorkspaceWrite",
             [t \in TwoTools |-> IF t = "bash" THEN "DangerFullAccess" ELSE "ReadOnly"],
             [NoRules EXCEPT !.deny = {Rule("bash", {"rm"})},
                             !.ask = {Rule("read_file", {"curl"})},
                             !.allow = {Rule("bash", {"ls"})}])

=============================================================================
