------------------------------ MODULE Messages ------------------------------
(***************************************************************************)
(* The conversation transcript: ConversationMessage and its ContentBlocks  *)
(* (runtime/src/session.rs), reduced to what the program's decisions read. *)
(* Text is kept only as its estimated token count.  A tool_use keeps its   *)
(* id, the tool and the input; a tool_result keeps the id it answers and   *)
(* its is_error flag.                                                      *)
(***************************************************************************)
EXTENDS Tools, Sequences

Role == {"system", "user", "assistant", "tool"}

\* The id of a message that answers no tool_use; provider ids are positive.
NoId == 0
ToolUseId == Nat \ {NoId}

ToolUse == [id : ToolUseId, tool : Tool, input : Input]

\* `summary` marks the System message a compaction writes: its text starts
\* with COMPACT_CONTINUATION_PREAMBLE, which is how it is recognised later.
Message == [role : Role, summary : BOOLEAN, uses : Seq(ToolUse),
            result : Nat, error : BOOLEAN, tokens : Nat]

UserText(tokens) ==
    [role |-> "user", summary |-> FALSE, uses |-> << >>,
     result |-> NoId, error |-> FALSE, tokens |-> tokens]

AssistantMessage(uses, tokens) ==
    [role |-> "assistant", summary |-> FALSE, uses |-> uses,
     result |-> NoId, error |-> FALSE, tokens |-> tokens]

ToolResult(id, error, tokens) ==
    [role |-> "tool", summary |-> FALSE, uses |-> << >>,
     result |-> id, error |-> error, tokens |-> tokens]

SystemText(isSummary, tokens) ==
    [role |-> "system", summary |-> isSummary, uses |-> << >>,
     result |-> NoId, error |-> FALSE, tokens |-> tokens]

HasToolUse(message) == message.uses # << >>
StartsWithResult(message) == message.result # NoId

Requests(message, id) == \E u \in 1..Len(message.uses) : message.uses[u].id = id

(***************************************************************************)
(* What a provider demands of a request (and what                          *)
(* sanitize_tool_message_pairing of the OpenAI-compatible client drops     *)
(* messages for): walking back from a tool result over other tool results  *)
(* one meets the assistant message that asked for it.                      *)
(***************************************************************************)
PairedAt(messages, i) ==
    \E j \in 1..(i - 1) :
        /\ Requests(messages[j], messages[i].result)
        /\ \A k \in (j + 1)..(i - 1) : StartsWithResult(messages[k])

WellPaired(messages) ==
    \A i \in 1..Len(messages) :
        StartsWithResult(messages[i]) => PairedAt(messages, i)

=============================================================================
