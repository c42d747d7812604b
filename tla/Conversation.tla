---------------------------- MODULE Conversation ----------------------------
(***************************************************************************)
(* ConversationRuntime::run_turn of runtime/src/conversation.rs: the loop  *)
(* that sends the transcript to the provider, runs the tools it asks for   *)
(* under the permission policy and the hooks, and compacts the transcript  *)
(* when the provider has billed enough input tokens.  One thread runs the  *)
(* loop; a second one (the CLI's HookAbortMonitor) may set the abort       *)
(* signal at any moment of it.                                             *)
(*                                                                         *)
(* Every push of a message may fail, because it also appends to the        *)
(* session file; the message is then popped again and the turn ends.       *)
(***************************************************************************)
EXTENDS Compaction, PermissionPolicy, FiniteSets

CONSTANTS Policy,         \* the PermissionPolicy of the runtime
          HookEvents,     \* hook events with at least one command configured
          Answers,        \* what the prompter may answer: a subset of Prompter
          MaxIterations,  \* max_iterations: 32 of a subagent, usize::MAX of the CLI
          Threshold,      \* auto_compaction_input_tokens_threshold
          UsageTokens,    \* input tokens one provider call may report
          MaxUses,        \* bound: tool uses in one assistant message
          MaxTurns        \* bound: calls of run_turn on one runtime

ASSUME ConversationAssumption ==
    /\ Policy.mode \in Mode
    /\ Policy.required \in [Tool -> Mode]
    /\ HookEvents \subseteq {"pre", "post", "fail"}
    /\ Answers \subseteq Prompter
    /\ UsageTokens \subseteq Nat
    /\ MaxIterations \in Nat /\ Threshold \in Nat
    /\ MaxUses \in Nat /\ MaxTurns \in Nat

VARIABLES
    messages,     \* session.messages
    compaction,   \* session.compaction: how many there were, and the last removed count
    inputTokens,  \* usage_tracker's cumulative input tokens
    iterations,   \* local of run_turn
    pending,      \* tool uses of the last assistant message still to be handled
    call,         \* the one being handled: see CallType
    pc,           \* where run_turn stands, "idle" outside of it
    outcome,      \* what the last run_turn returned
    aborted,      \* the HookAbortSignal
    turns,        \* calls of run_turn so far
    nextId        \* the provider's next tool_use id (it never repeats one)

\* History: what the properties need to remember and the code does not.
VARIABLES
    transcript,   \* every message ever pushed, in order
    executed,     \* calls handed to the tool executor, with the input it got
    approved,     \* calls a prompter said yes to, with the input it was shown
    dropped,      \* ids of tool uses whose result a failed push left out
    late          \* executions begun after the abort signal was set

turnVars == <<iterations, pending, call, pc, outcome>>
historyVars == <<transcript, executed, approved, dropped, late>>
vars == <<messages, compaction, inputTokens, turnVars, aborted, turns, nextId,
          historyVars>>

\* CompactionConfig::default().preserve_recent_messages
PreserveRecent == 4

ToolPcs == {"pre_hook", "authorize", "execute", "post_hook", "push_result"}

Flow == {"go", "denied", "failed", "cancelled"}
CallType == [id : Nat, tool : Tool, input : Input, flow : Flow,
             override : Override, error : BOOLEAN]
NoCall == [id |-> NoId]

Init ==
    /\ messages = << >> /\ transcript = << >>
    /\ compaction = [count |-> 0, removed |-> 0]
    /\ inputTokens = 0 /\ iterations = 0 /\ turns = 0 /\ nextId = 1 /\ late = 0
    /\ pending = << >> /\ call = NoCall
    /\ pc = "idle" /\ outcome = "none" /\ aborted = FALSE
    /\ executed = {} /\ approved = {} /\ dropped = {}

----------------------------------------------------------------------------
EndTurn(result) ==
    /\ pc' = "idle" /\ outcome' = result
    /\ pending' = << >> /\ call' = NoCall

\* Session::push_message when the append to the session file succeeds.
Push(message) ==
    /\ messages' = Append(messages, message)
    /\ transcript' = Append(transcript, message)

\* run_session_health_probe refuses the turn after a compaction when the
\* glob_search tool does not answer.
ProbeFails ==
    /\ pc = "idle" /\ turns < MaxTurns
    /\ compaction.count > 0 /\ messages # << >>
    /\ turns' = turns + 1
    /\ EndTurn("error")
    /\ UNCHANGED <<messages, compaction, inputTokens, iterations, aborted, nextId,
                   historyVars>>

StartTurn ==
    /\ pc = "idle" /\ turns < MaxTurns
    /\ turns' = turns + 1
    /\ Push(UserText(1))
    /\ iterations' = 0 /\ pc' = "loop"
    /\ UNCHANGED <<compaction, inputTokens, pending, call, outcome, aborted, nextId,
                   executed, approved, dropped, late>>

UserPushFails ==
    /\ pc = "idle" /\ turns < MaxTurns
    /\ turns' = turns + 1
    /\ EndTurn("error")
    /\ UNCHANGED <<messages, compaction, inputTokens, iterations, aborted, nextId,
                   historyVars>>

IterationLimit ==
    /\ pc = "loop" /\ iterations >= MaxIterations
    /\ iterations' = iterations + 1
    /\ EndTurn("error")
    /\ UNCHANGED <<messages, compaction, inputTokens, aborted, turns, nextId, historyVars>>

\* api_client.stream fails, or build_assistant_message refuses the stream.
StreamFails ==
    /\ pc = "loop" /\ iterations < MaxIterations
    /\ iterations' = iterations + 1
    /\ EndTurn("error")
    /\ UNCHANGED <<messages, compaction, inputTokens, aborted, turns, nextId, historyVars>>

\* Variant: no compaction on the iteration that asks for no tool.
MaybeAutoCompact_NotWhenDone(msgs, tokens) ==
    IF tokens < Threshold \/ ~HasToolUse(msgs[Len(msgs)])
    THEN [messages |-> msgs, removed |-> 0]
    ELSE CompactSession(msgs, PreserveRecent, 0)

\* maybe_auto_compact on the transcript with the assistant message in it.
MaybeAutoCompact(msgs, tokens) ==
    IF tokens < Threshold THEN [messages |-> msgs, removed |-> 0]
    ELSE CompactSession(msgs, PreserveRecent, 0)

NewUses(wanted) ==
    [u \in DOMAIN wanted |->
        [id |-> nextId + u - 1, tool |-> wanted[u][1], input |-> wanted[u][2]]]

\* The provider answers.  Its usage is recorded before the push, so it counts
\* even when the push fails.
AnswerWith(tokens, uses) ==
    LET message == AssistantMessage(uses, 1)
        result  == MaybeAutoCompact(Append(messages, message), inputTokens + tokens)
    IN /\ inputTokens' = inputTokens + tokens
       /\ nextId' = nextId + Len(uses)
       /\ transcript' = Append(transcript, message)
       /\ messages' = result.messages
       /\ compaction' = IF result.removed = 0 THEN compaction
                        ELSE [count |-> compaction.count + 1, removed |-> result.removed]
       /\ IF uses = << >> THEN EndTurn("ok")
          ELSE /\ pending' = uses /\ pc' = "pre_hook"
               /\ UNCHANGED <<call, outcome>>

AssistantAnswers ==
    /\ pc = "loop" /\ iterations < MaxIterations
    /\ iterations' = iterations + 1
    /\ \E tokens \in UsageTokens, n \in 0..MaxUses :
       \E wanted \in [1..n -> Tool \X Input] : AnswerWith(tokens, NewUses(wanted))
    /\ UNCHANGED <<aborted, turns, executed, approved, dropped, late>>

AssistantPushFails ==
    /\ pc = "loop" /\ iterations < MaxIterations
    /\ iterations' = iterations + 1
    /\ \E tokens \in UsageTokens : inputTokens' = inputTokens + tokens
    /\ \E n \in 0..MaxUses : nextId' = nextId + n
    /\ EndTurn("error")
    /\ UNCHANGED <<messages, compaction, aborted, turns, historyVars>>

----------------------------------------------------------------------------
\* Variant: the signal is not checked before the commands run.
HookFlows_NoAbortCheck(event) ==
    IF event \notin HookEvents THEN {"go"} ELSE {"go", "denied", "failed"}

\* HookRunner: no commands, no opinion, and the abort signal is not looked at.
\* With commands, a signal that is already set cancels; otherwise the commands
\* decide, may rewrite the input and may override the permission decision.
HookFlows(event) ==
    IF event \notin HookEvents THEN {"go"}
    ELSE IF aborted THEN {"cancelled"}
    ELSE {"go", "denied", "failed"}

\* Only a hook that lets the call go on has its input and override read.
PreVerdicts(input) ==
    LET silent == [input : {input}, override : {"none"}, flow : HookFlows("pre")]
    IN IF "pre" \in HookEvents /\ ~aborted
       THEN silent \cup [input : Input, override : Override, flow : {"go"}]
       ELSE silent

\* Variant: the uses are handled from the back.
NextUse_FromTheBack == pending[Len(pending)]

NextUse == Head(pending)

\* The pre-hook, and the effective input every later step of the call uses.
PreToolUseHook ==
    /\ pc = "pre_hook"
    /\ \E v \in PreVerdicts(NextUse.input) :
          call' = [id |-> NextUse.id, tool |-> NextUse.tool, input |-> v.input,
                   flow |-> v.flow, override |-> v.override, error |-> FALSE]
    /\ pc' = "authorize"
    /\ UNCHANGED <<messages, compaction, inputTokens, iterations, pending, outcome,
                   aborted, turns, nextId, historyVars>>

Ran(c) == [id |-> c.id, tool |-> c.tool, input |-> c.input]

\* Variant: the refusal is not marked as an error.
Refused_NoErrorFlag(c) == c

Refused(c) == [c EXCEPT !.error = TRUE]

\* A hook that denied, failed or was cancelled decides; otherwise the policy
\* does, asking the prompter where it must.
AuthorizeCall ==
    /\ pc = "authorize"
    /\ \E answer \in Answers :
          LET decision == Evaluate(Policy, call.tool, call.input, call.override)
              asked    == call.flow = "go" /\ decision = "prompt"
              allowed  == /\ call.flow = "go"
                          /\ Authorize(Policy, call.tool, call.input, call.override, answer)
                                = "allow"
          IN /\ approved' = IF asked /\ answer = "allow" THEN approved \cup {Ran(call)}
                            ELSE approved
             /\ IF allowed THEN pc' = "execute" /\ UNCHANGED call
                ELSE pc' = "push_result" /\ call' = Refused(call)
    /\ UNCHANGED <<messages, compaction, inputTokens, iterations, pending, outcome,
                   aborted, turns, nextId, transcript, executed, dropped, late>>

\* tool_executor.execute gets the effective input; its error is only a flag.
ExecuteTool ==
    /\ pc = "execute"
    /\ executed' = executed \cup {Ran(call)}
    /\ late' = IF aborted THEN late + 1 ELSE late
    /\ \E error \in BOOLEAN : call' = [call EXCEPT !.error = error]
    /\ pc' = "post_hook"
    /\ UNCHANGED <<messages, compaction, inputTokens, iterations, pending, outcome,
                   aborted, turns, nextId, transcript, approved, dropped>>

PostToolUseHook ==
    /\ pc = "post_hook"
    /\ \E flow \in HookFlows(IF call.error THEN "fail" ELSE "post") :
          call' = [call EXCEPT !.error = call.error \/ flow # "go"]
    /\ pc' = "push_result"
    /\ UNCHANGED <<messages, compaction, inputTokens, iterations, pending, outcome,
                   aborted, turns, nextId, historyVars>>

PushToolResult ==
    /\ pc = "push_result"
    /\ Push(ToolResult(call.id, call.error, 1))
    /\ pending' = Tail(pending) /\ call' = NoCall
    /\ pc' = IF Len(pending) = 1 THEN "loop" ELSE "pre_hook"
    /\ UNCHANGED <<compaction, inputTokens, iterations, outcome, aborted, turns, nextId,
                   executed, approved, dropped, late>>

\* Variant: a result that cannot be saved has its call made again.
ResultPushFails_RunsAgain ==
    /\ pc = "push_result"
    /\ pc' = "pre_hook" /\ call' = NoCall
    /\ UNCHANGED <<messages, compaction, inputTokens, iterations, pending, outcome, aborted,
                   turns, nextId, historyVars>>

\* The tool has run, its result is lost, and so are the uses not handled yet.
ResultPushFails ==
    /\ pc = "push_result"
    /\ dropped' = dropped \cup {pending[u].id : u \in 1..Len(pending)}
    /\ EndTurn("error")
    /\ UNCHANGED <<messages, compaction, inputTokens, iterations, aborted, turns, nextId,
                   transcript, executed, approved, late>>

----------------------------------------------------------------------------
\* HookAbortMonitor's thread, on Ctrl-C.
Abort ==
    /\ pc # "idle" /\ ~aborted
    /\ aborted' = TRUE
    /\ UNCHANGED <<messages, compaction, inputTokens, turnVars, turns, nextId, historyVars>>

TurnStep ==
    \/ IterationLimit \/ StreamFails \/ AssistantAnswers \/ AssistantPushFails
    \/ PreToolUseHook \/ AuthorizeCall \/ ExecuteTool \/ PostToolUseHook
    \/ PushToolResult \/ ResultPushFails

Next == ProbeFails \/ StartTurn \/ UserPushFails \/ TurnStep \/ Abort

\* run_turn runs to its end by itself, provided that the provider, the tools,
\* the prompter and the hook commands return.
Spec == Init /\ [][Next]_vars /\ WF_vars(TurnStep)

----------------------------------------------------------------------------
(* Properties *)

\* The type invariant.
TypeOK ==
    /\ messages \in Seq(Message) /\ transcript \in Seq(Message)
    /\ compaction \in [count : Nat, removed : Nat]
    /\ inputTokens \in Nat /\ iterations \in Nat /\ late \in Nat
    /\ turns \in 0..MaxTurns /\ nextId \in ToolUseId
    /\ pending \in Seq(ToolUse)
    /\ pc \in {"idle", "loop"} \cup ToolPcs
    /\ call \in CallType \cup {NoCall}
    /\ outcome \in {"none", "ok", "error"} /\ aborted \in BOOLEAN
    /\ executed \in SUBSET [id : Nat, tool : Tool, input : Input]
    /\ approved \in SUBSET [id : Nat, tool : Tool, input : Input]
    /\ dropped \in SUBSET Nat

\* Whatever is compacted away, and whenever a push fails, no request the
\* provider is sent holds a tool result cut off from the assistant message
\* that asked for it (the 400 the boundary walk of compact_session is for).
ResultsStayPaired == WellPaired(messages)

\* A request answers every tool use it shows, in the order the assistant made
\* them, except those whose turn ended on a failed push.
Answered(i, u) ==
    i + u <= Len(messages) /\ messages[i + u].result = messages[i].uses[u].id

UsesAnsweredInOrder ==
    pc = "loop" =>
        \A i \in 1..Len(messages) : \A u \in 1..Len(messages[i].uses) :
            messages[i].uses[u].id \in dropped \/ Answered(i, u)

\* What ran was let through for the very input it ran with: not denied, and
\* either granted with no ask rule in the way or confirmed by a user who was
\* shown that input.  A hook that rewrites the input gains nothing by it.
OnlyPermittedRuns ==
    \A x \in executed :
        /\ ~DeniedOutright(Policy, x.tool, x.input)
        /\ \/ x \in approved
           \/ /\ Granted(Policy, x.tool, x.input)
              /\ ~Matches(Policy.ask, x.tool, x.input)

\* The transcript never tells the model that a call succeeded that no executor
\* has seen: refusals and cancellations come back as errors.
NoPhantomSuccess ==
    \A i \in 1..Len(transcript) :
        StartsWithResult(transcript[i]) /\ ~transcript[i].error
            => \E x \in executed : x.id = transcript[i].result

\* With a pre-hook configured, at most the one call already past its hook still
\* runs after the abort signal, however many the assistant asked for.
AbortStopsTools == "pre" \in HookEvents => late <= 1

\* #3106: once the threshold is passed, an assistant message leaves behind the
\* summary, the preserved tail and at most the results of one assistant
\* message, also on the iteration that ends the turn.
AnswerLeavesBoundedTranscript ==
    [][ /\ Len(transcript') > Len(transcript)
        /\ transcript'[Len(transcript')].role = "assistant"
        /\ inputTokens' >= Threshold
        => Len(messages') <= 1 + PreserveRecent + MaxUses ]_vars

\* The conversation implements the append-only log with a summarised prefix:
\* nothing is lost, duplicated or reordered between the pushes and the request.
summarised == Len(transcript) + PrefixLen(messages) - Len(messages)

Log == INSTANCE Transcript
         WITH Entry <- Message, IsResult <- StartsWithResult,
              Summary <- SystemText(TRUE, 1),
              log <- transcript, hidden <- summarised, view <- messages

ImplementsTranscript == Log!Spec

\* A turn that was started ends, with an answer or an error, whatever the hooks
\* decide, whichever push fails and whenever the abort comes.  The one thing that
\* can keep it going is an assistant that answers again and again: under the
\* limit of a subagent it cannot, in the CLI, which has none, it can.
TurnEnds == <>[](pc # "idle") => []<><<AssistantAnswers>>_vars

=============================================================================
