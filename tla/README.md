# A TLA+ verification project for antithropic

This directory holds TLA+ specifications of the agent runtime in `src/rust/`,
TLC configurations that model-check them on small instances, and proofs that
TLAPS checks. Paths below are relative to `src/rust/crates/` unless they start
with `src/`. `PROJECT.json` lists the components, the runs, the source lines
behind every definition, the hazards and the theorems.

Contents: 1 inventory, 2 plan, 3 modules, 4 runs, 5 bounds, 6 fairness,
7 proofs, 8 what is only model-checked, 9 disagreements, 10 what is not
modelled, 11 how to run it.

## 1. Inventory

The repository is a Rust workspace: a command line coding agent that keeps a
conversation with a language-model provider, runs the tools the model asks for
and keeps the conversation in a file.

| Component | State it keeps | Operations | Hard behaviour |
|---|---|---|---|
| Conversation loop, `runtime/src/conversation.rs` | the session's messages, cumulative usage, iteration count, the tool calls of the last answer | `run_turn`, `run_session_health_probe`, `maybe_auto_compact` | every step may fail half way; hooks rewrite the call between decision and execution; an abort arrives from another thread; compaction happens between two provider calls |
| Compaction, `runtime/src/compact.rs` | none (pure) | `should_compact`, `compact_session` | cutting a transcript so that no tool result loses its request; recognising its own earlier summary |
| Trident compaction, `runtime/src/trident.rs` | none (pure) | `trident_compact_session` in three stages | drops, merges and clusters messages before compacting |
| Permission policy, `runtime/src/permissions.rs`, `permission_enforcer.rs` | mode, requirements, rules | `authorize_with_context`, `check` | precedence of deny, ask and allow rules, hook overrides and the prompter |
| Hooks, `runtime/src/hooks.rs`, `plugins/src/hooks.rs` | abort signal | `run_pre_tool_use`, `run_post_tool_use`, `run_post_tool_use_failure` | external processes, cancellation |
| Session file, `runtime/src/session.rs` | messages, compaction record, prompt history; the JSONL file and its rotated copies | `push_message`, `push_prompt_entry`, `save_to_path`, `load_from_path`, `fork` | memory and disk are updated in several steps, each of which may fail or be the last one before a crash |
| Session store, `runtime/src/session_control.rs` | the sessions directory | create, resolve, list, fork, delete | references resolved against a directory other processes change |
| Interactive program, `rusty-claude-cli/src/main.rs`, `tui/` | the `LiveCli` with its runtime | REPL, compaction retry, persist, session commands | clone, run, replace, persist: which copy of the session survives an error |
| Worker boot, `runtime/src/worker_boot.rs`, `trust_resolver.rs` | one record per worker, its events, `worker-state.json` | create, observe, resolve trust, send prompt, restart, terminate, observe completion, startup timeout | the state is inferred from screen text, and every caller may act at any time |
| Tool servers, `runtime/src/mcp_stdio.rs`, `mcp_client.rs`, `mcp_lifecycle_hardened.rs`, `mcp_tool_bridge.rs`, `mcp_server.rs` | server processes, tool index, lifecycle phase | discover, call, reset, shutdown | timeouts that race answers, a restart between two calls |
| Provider clients, `api/src/` | retry count, SSE buffer, stream state, prompt-cache record | send, stream | retry, partial frames, interleaved tool calls |
| Streaming consumers, `rusty-claude-cli/src/main.rs` (`consume_stream`), `tools/src/lib.rs` (`stream_with_provider`) | pending text, reasoning and tool calls | read one event, ask again | a stream that stalls or ends early |
| Registries, `runtime/src/task_registry.rs`, `team_cron_registry.rs`, `lsp_client.rs` | maps behind a mutex | create, update, stop, delete | status changes without a guard |
| Lane machinery, `lane_events.rs`, `policy_engine.rs`, `green_contract.rs`, `stale_branch.rs`, `stale_base.rs`, `branch_lock.rs`, `recovery_recipes.rs`, `approval_tokens.rs` (in `runtime/src`), `tools/src/lane_completion.rs` | ledgers of attempts, tokens and events | evaluate, attempt, consume, verify | limits, retries, terminal events that arrive out of order |
| Plugins, `plugins/src/lib.rs`, `runtime/src/plugin_lifecycle.rs` | the installed registry and settings files | install, enable, disable, update, uninstall | several files updated one after the other |
| Tools and subagents, `tools/src/lib.rs`, `runtime/src/file_ops.rs`, `bash.rs` | the file system, processes, the life of a subagent | one function per tool | mostly I/O |
| Evil mode, `runtime/src/evil.rs`, `tools/src/evil_interceptor.rs` | log of changed tool results, backups | record, drain, revert | reverting several edits of one file |
| Browser, `tools/src/steel_browser.rs`, `src/browser/steel-driver.js` | the driver process in its slot, its pid, the page or cloud session it holds | start, use, status, stop, shutdown, abort | a turn, a thread of evil mode and Ctrl+C meet at one process, which sees requests, signals and the end of its input |
| Configuration, prompts, rendering, telemetry, minion | configuration trees, text | load, render | layout and I/O |

How they interact. The interactive program copies its session into a runtime
and calls `run_turn`; the loop sends the messages to a provider client and
reads the stream through one of the consumers; for each tool use of the answer
it runs the pre hook, asks the permission policy, executes the tool (a built-in
one, a subagent, or one of a tool server), runs the post hook and pushes the
result. Each push appends to the session file; a turn that succeeds is saved
as a whole and replaces the program's session; one that fails because it was
too long is tried again on a transcript that Trident compaction has shortened.
The worker registry stands beside that: it drives other agents through their
terminals and tells pollers about them through a file.

What makes each modelled component correct:

- *Conversation, compaction*: the provider never sees a tool result without
  its tool use; uses are answered in order; nothing is lost or repeated between
  the log and the request except the summarised prefix; only permitted calls
  run, with the input that was decided on; a call that never ran is never
  reported as done; an abort stops the tools; a turn ends unless the assistant
  asks for tools for ever.
- *Permission policy*: a looser mode or one more allow rule never refuses what
  was allowed; one more deny rule never allows what was refused.
- *Hooks*: a run of commands looks like one step to the loop, and leaves no process
  behind unless it failed; what an abort reaches ends.
- *Session file*: memory and file agree between operations; what was
  acknowledged survives failures and crashes, and can be read unless an append
  was cut off.
- *Session store*: what is open is one session in memory and on disk; no command
  that fails, and no exit, writes one session over another.
- *Trident*: order and the newest write of each file survive the stages.
- *Interactive program*: at the prompt the file holds the session and one
  runtime is up; until a turn has its answer the file is only appended to, except
  that the terminal interface saves the session on its way out of a turn that
  failed, after a retry the transcript that retry had compacted; the plugins of each
  runtime are shut down once; the prompt comes back, or the program ends, unless the
  assistant asks for tools for ever.
- *Plugins*: what is recorded is whole; what was switched off stays off.
- *Evil mode*: `/revert` gives back what its log says was there, through any
  sequence of changes of one file.
- *Plan mode*: the mode that was overridden can be given back.
- *Subagents*: the manifest says what happened.
- *Worker boot*: a blocked worker says what blocks it now; one prompt in flight;
  replay exactly from misdelivery to the next dispatch; a state file that is
  out of date is so in one known way.
- *Tool servers*: no late answer is taken for another; only a greeted process is
  asked; no process is forgotten; retries are bounded; a tool runs once per call; a
  call ends unless its server pages for ever.
- *Streaming*: blocks are well bracketed and every tool call arrives once with
  its own arguments; how the network cuts a body makes no difference to its events.
- *Browser*: no driver outlives the program, however the program ends.

## 2. Plan

The order is that of importance: the loop and what may damage its transcript,
then what keeps the transcript on disk, then the components that infer the
state of other processes, then those that keep the user's choices in files.

| Step | Modules | State |
|---|---|---|
| 1 | `Tools`, `Messages`, `Compaction`, `PermissionPolicy`, `Conversation` and the abstract `Transcript` it implements | checked, with proofs |
| 2 | `SessionLog` (file steps, crashes, two processes) | checked, with proofs |
| 3 | `WorkerBoot` | checked, with proofs |
| 4 | `Trident`, and `LiveCli` which composes it with the session and its file | checked, with proofs |
| 5 | `McpManager` | checked, with proofs |
| 6 | `OpenAiStream`, `AnthropicStream` | checked, with proofs |
| 7 | `Hooks`: the processes behind one hook step of `Conversation` | checked, with proofs |
| 8 | `Runtimes`: what `LiveCli`'s turns and commands build, replace and drop | checked, with proofs |
| 9 | `PlanMode` | checked, with proofs |
| 10 | `Plugins`, `Subagents` | checked, with proofs |
| 11 | `Interception` | checked, with proofs |
| 12 | `Sessions`: the files `LiveCli` and `SessionLog` take for granted | checked, with proofs |
| 13 | `Browser` | checked |
| later | the lifecycle validator and the bridge on top of `McpManager`; the ledgers of recovery attempts and approval grants; the other registries | planned |

Hazards of the planned components, so that they are not forgotten:

- lifecycle: after a failure only the last result decides whether Ready may be
  entered; a failure recorded after Shutdown or Cleanup moves back to
  ErrorSurfacing, which the transition table forbids;
- bridge: it discovers strictly before each call, so that one broken server
  keeps the tools of a healthy one from being called;
- `approval_tokens.rs`: inserting a grant again resets its uses;
- `recovery_recipes.rs`: attempts are counted for the life of the context;
- `lane_events.rs`: a transport death between two terminal events leaves the
  outcome marked uncertain;
- registries: only `stop` looks at a task's status; deleting a team leaves its
  id on its tasks.

## 3. Modules

One module per component. Its operations are its actions, its helpers are
operators, and for most of its properties it holds one *variant* of a
definition (`Retry_SavesFirst`, `KeepFrom_NoWalk`, ...): the definition as a
plausible bug would have it, with which the property fails. No action uses a
variant.

**Tools, Messages** — tool names and inputs as opaque values; a message is its
role, its tool uses, the id it answers, its error flag and its estimated token
count. `summary` marks what `compact_session` recognises by its preamble.

**Compaction** (`compact.rs`) — `CompactSession`, `ShouldCompact`, `KeepFrom`
(the boundary walk). The walk goes back one message at a time; the module says
where it ends, the nearest safe cut. **ConversationProofs** proves from that
definition what a cut may do to a transcript.

**PermissionPolicy** (`permissions.rs`) — `PolicyOf` (how a policy is built from
configuration, with its lowercasing), `Evaluate` for `authorize_with_context`,
`Authorize` for it together with the prompter. A rule's pattern is the set of
inputs it accepts. The enforcer's `check` is `Authorize` with nobody to ask.

**Transcript** — the abstract specification: an append-only log, of which the
reader is shown all, or a summary and an uncut suffix that does not begin with
a tool result.

**Conversation** (`conversation.rs`) — one action per step of `run_turn`:
`ProbeFails`/`StartTurn`/`UserPushFails`, `IterationLimit`, `StreamFails`,
`AssistantAnswers`/`AssistantPushFails` (with the automatic compaction inside,
as in the code), then for each tool use `PreToolUseHook`, `AuthorizeCall`,
`ExecuteTool`, `PostToolUseHook`, `PushToolResult`/`ResultPushFails`; `Abort` is
the other thread. `pc` is where `run_turn` stands. History variables
(`transcript`, `executed`, `approved`, `dropped`, `late`) record what the
properties compare. Token counts of messages are 1.
**ConversationProofs** holds its theorems.

**SessionLog** (`session.rs`) — files are inodes holding chunks (records,
newlines, what a cut-off write left), so that an append that opened its file
before a rename writes into the renamed one. `PushMessage`, `PushPromptEntry`,
`RecordCompaction`, `SaveToPath` and `LoadFromPath` start the operations;
`AppendBody`, `AppendNewline`, `Rotate`, `WriteAtomic`, `CleanupRotatedLogs` are
their file system steps; `IoFails` and `Crash` may take the place of any of
them. `WriteAtomic` is one step because the temporary file is never read: a
crash before its rename is a crash before the step.

**Trident** (`trident.rs`) — `Supersede`, `Collapse`, `Cluster` and
`TridentCompact`, which hands their result to `CompactSession`. The operations on
files, their paths and the similarity of messages are computed from the tool
uses. `MCTrident` writes every transcript the loop can write and compacts it any
number of times.

**LiveCli** (`main.rs`) — `Submit` clones the session; `UseTool`, `ToolAnswers`,
`Answer`, `Exit` and `Fails` are the steps of the turn on the clone, each push
also appended to the file; `TooLong` is the failure that is worth a retry,
`Retry` and `GiveUp` the loop around it; an error of a turn ends the program, in
the line editor at once and in the terminal interface after a save
(`ExitInError`); `Compact` is the command, `Leave`, `Resume` and
`ResumeAndCompact` end and restart the program. It EXTENDS
`Trident`, whose operators do the compaction; `SessionLog` has the writes that
are one step here, `Conversation` the steps of a turn that are left out here.

**WorkerBoot** (`worker_boot.rs`) — a worker is the record of the code, with its
event log; a screen is the set of cues the detectors find in it. Every operation
holds the registry's lock from its first read to its last write, so each is one
action: `Create`, `Observe` (with its branches in the order of the code),
`ResolveTrust`, `SendPrompt`, `Restart`, `Terminate`, `ObserveCompletion`,
`ObserveStartupTimeout`. `Emit` writes the state file for each event.

**McpManager** (`mcp_stdio.rs`) — `Begin` starts a call of the manager; `pc` walks
through ensure, connect, request and await; `Spawn`, `Greet`, `Request`,
`ReadGreeting`, `ReadPage`, `ReadFault`, `LinkBreaks`, `TimesOut`, `NoticeExit` are the manager's
steps, `Answers`, `Notifies` and `Exits` those of the server process, at any time.
`Fails` holds both retry loops and the reset of the server.

**OpenAiStream** (`openai_compat.rs`, `main.rs`, `tools/src/lib.rs`) — the
provider sends chunks (`ReceiveChunk`) until the body ends, breaks or stalls;
`IngestChunk` and `FinishStream` are `StreamState`; `NextEvent` hands one event to
the client, whose locals are `consumer`; `StreamEnds` decides what becomes of the
answer. `Client` selects the one-slot consumer of the program or the indexed one
of the subagents.

**AnthropicStream** (`anthropic.rs`, `sse.rs`) — `SendFails`, `Backoff` and
`SendSucceeds` are `send_with_retry`; then chunks of any size come
(`ReceiveChunk`), `TakeFrame` cuts frames off the buffer at the first separator,
`ChunkParsed` and `NextPending` hand their events on, `BodyEnds` and `Finish` treat
what is left. Events parsed before a bad frame of the same chunk are dropped, and
the event of a last frame without a separator is not reported to the prompt cache.
`Observe` tells the prompt cache of the answer at its first stop: a usage that comes
after that stop is never told.

**Hooks** (`hooks.rs`) — one run of the commands of an event, as processes with
pipes: `StartCommand`, `WriteInput`, `InputRefused`, `CheckAbort`, `TryWait`, `Collect`
and `Reap` are the program's steps, `ChildReads`, `ChildPrints` and `ChildExits` the
command's, `HelperEnds` those of a process it has left behind, `Abort` the signal.
In `Conversation` all of this is the one step `HookFlows`.

**Runtimes** (`main.rs`) — the `BuiltRuntime` values of `LiveCli`: building one runs
the Init commands of the plugins, `Replace` shuts the old one's plugins down and
only then puts the new one in its place, `Drop` does what is left. A runtime counts
how often the Shutdown command of each plugin has succeeded.

**PlanMode** (`tools/src/lib.rs`) — EnterPlanMode, ExitPlanMode and Config, each read
and each write of a file a step of its own, so that the loop, a subagent's Config
and the user's editor interleave; writes may be cut short.

**Plugins** (`plugins/src/lib.rs`) — install, update, uninstall, enable, disable, the
sync of the bundled plugins and the start of the program. A copy is the set of its
files that are there; the steps of an operation are `RemoveCopy`, `CopySource`,
`StoreRegistry`, `WriteSettings`, and each may be cut (`CutDirectory`, `CutRegistry`,
`CutSettings`). After a cut update, a half copy is registered and its failure keeps
every plugin from starting until it is installed again.

**Subagents** (`tools/src/lib.rs`) — the loop writes an agent's output file and manifest
and starts its thread (`BeginAgent` to `Spawn`); the thread appends to the output,
lists and disables cron entries, and reports (`WriteReport`, once more as a failure
with `ReportAgain`). Two agents interleave with CronCreate and CronDelete. An agent
whose second report cannot be written, or that is running when the program exits,
stays "running" for ever, and two agents may both claim to have disabled one entry.

**Interception** (`evil_interceptor.rs`, `evil.rs`) — a call of a turn is changed
before it runs (`CallsFileTool`, `CallsCommit`, `CallsOther`) and then runs or fails
(`Run`); the log keeps how to undo it. `EndTurn` empties the log with the footer of
a turn that got through at once, `Revert` and `Repent` are the commands, `UserEdits`
and `LoseBackups` happen in between.

**Sessions** (`session_control.rs`, `main.rs`) — the files of a workspace's sessions
directory, and what the program has open: the handle (id and path), the runtime's
session, and the file that session appends to. `Start`, `Exit`, `Killed`, `Turn`,
`TurnFails` and `Reload` are the life of an open session; `Clear`, `ResumeOrSwitch`,
`Fork` and `Delete` the commands, with `CommandFails`, `ClearFails`, `ResumeFails` and
`ForkFails` at the places where an error ends the program (a fork that fails late has
already been saved); `DeleteResumed` and `ClearResumed` are the same commands on a
session named by `--resume`. A turn is one step here.

**Browser** (`steel_browser.rs`, `steel-driver.js`, `tui/mod.rs`, `main.rs`) — a thread of
the program (the turn, or one that evil mode starts) walks through `Call`, `Send` or
`Spawn` and `NotePid`, `Receive`, and for a drop `DropAsks`, `DropKills` and `Reap`, under
the lock of the slot. `SwapPid`, `KillPid`, `TakeSlot` and `ExitsAtOnce` are the handler of
Ctrl+C, which does not take the lock. The driver's steps are those between two awaits:
`TakeRequest`, `JobReleases`, `AttachLocal`, `CreateSession`, `ConnectSession` and `Act` for
the request in progress, `HearsEnd`, `HearsSignal` and `ShutdownReleases` for its end,
which comes at any time. What a page does is the outcome of one request, "use".

**MC modules** with a variable `subject` check several components in one run: it says
which of them moves, and the others stay in their initial state.

## 4. Runs

Every passing run finishes the whole state space of its instance. For every
property there is a variant of a definition of the code with which TLC refutes
it under the same configuration (`PROJECT.json`, "mutants").

| Run | Distinct states | What it shows |
|---|---|---|
| `conversation_transcript` | 1059815 | over two turns with up to two tool uses per answer, pushes that fail and automatic compaction after each answer: results stay paired (`ResultsStayPaired`), uses are answered in order (`UsesAnsweredInOrder`), the transcript stays bounded even when the turn ends on the answer that compacts (`AnswerLeavesBoundedTranscript`), and the loop implements `Transcript` (`ImplementsTranscript`); Trident on every transcript of up to six messages, any number of times: `SurvivorsInOrder`, `NewestWritesSurvive`; every stream of three chunks with reasoning, text and two interleaved calls, ended, cut off or broken anywhere: `BlocksAreBracketed`, `ToolCallsSurvive`; every answer of three frames of Anthropic, cut into chunks in every way: `EventsSurviveChunking` |
| `conversation_tools` | 169290 | hooks that rewrite inputs, override decisions and fail, a prompter, the abort at any moment: `OnlyPermittedRuns`, `NoPhantomSuccess`, `AbortStopsTools`, `TurnEnds`; every call under every mode, override, prompter and at most one rule of a kind: `LooserIsLooser`; a hook run with its processes and pipes: `RunsLookAtomic`, `CommandsEnd` |
| `trident_keeps_pairs` | violated | stage 1 leaves a tool result without its tool use (section 9) |
| `state_files` | 1892821 | four writers of files that somebody else reads. Workers, any screens and any calls in any order: `BlockedWorkersSayWhy`, `OnePromptInFlight`, `ReplayFollowsMisdelivery`, `StaleFileMeansRunning`; two subagents with two cron entries, failing writes and an exit at any step: `ManifestTellsTheTruth`; one session's file, two processes, crashes and I/O errors in every step of every operation: `FileMirrorsSession`, `AcknowledgedSurvives`; the sessions directory, with every command of a session failing at every place: `OneSessionIsOpen`, `AnswersStay` |
| `live_cli` | 371516 | three prompts with failing turns and up to four retries each, `/compact`, kills and resumes, in both front ends: `FileHoldsTheSession`, `UnansweredTurnsOnlyAppend`, `TurnEnds`; the runtimes of two plugins whose Shutdown commands may fail: `PluginsStopOnce`, `OneRuntimeAtThePrompt`; evil mode on three files, with the user's own edits and lost backups: `RevertGivesBack` |
| `mcp_manager` | 1259149 | two calls on a server that answers late, wrongly, in any number of pages, unasked or not at all, or dies: `NoStaleAnswers`, `EveryProcessIsKnown`, `NestedRetriesAreBounded`, `CallsEnd`; with two servers, a best-effort discovery asks the second whatever the first does: `BestEffortAsksEveryServer`; the browser's driver, with Ctrl+C, crashes and a killed program at any moment: `DriversEnd` |
| `open_ai_stream_parallel_calls` | violated | the program's one-slot consumer loses one of two parallel calls (section 9) |
| `plugins` | 5718726 | a bundled and an external plugin with two versions and two cut steps: `BundledCopiesAreWhole`, `SwitchedOffStaysOff`; plan mode beside a subagent's Config, the user's edits and cut writes: `OverrideCanBeUndone` |
| `hooks_early_exit` | violated | a hook that exits 0 without reading its input is taken for a failed one (section 9) |
| `revert_undoes_the_session` | violated | after a turn that got through at once `/revert` undoes nothing of it (section 9) |
| `delete_refuses_the_open_session` | violated | `/session delete` can remove the file that is open (section 9) |
| `shutdown_releases_sessions` | violated | leaving the program ends the driver before its cloud session is released (section 9) |

Some properties are stated with an exception, which is part of what they show:

- `TurnEnds`, of `Conversation` and of `LiveCli`, excludes an assistant that asks for
  tools again and again. A subagent has a limit of 32 iterations; the command line
  program has none (`usize::MAX`, `runtime/src/conversation.rs:185`), so there such a
  turn does go on for ever.
- `CallsEnd` excludes a server that names another page in every answer to a listing:
  the loops that follow `next_cursor` count nothing (`runtime/src/mcp_stdio.rs:832-889`,
  `902-949`).
- `UnansweredTurnsOnlyAppend` excludes the session that the terminal interface saves
  when it leaves after a failed turn.
- `EventsSurviveChunking` asks for the report to the prompt cache only when the usage
  came before the first stop.
- `BundledCopiesAreWhole` excludes the copy that a cut update itself leaves. It is half
  until the plugin is installed again.
- `FileMirrorsSession` speaks of runs without a failing file system and with one
  process at a time. After a failed push the record may be on disk and not in
  memory; with two processes one overwrites the other. `AcknowledgedSurvives`
  allows failures and crashes but not two processes, because nothing in the code
  protects one from the other; a file can no longer be read after a cut-off append.
- `AnswersStay` excludes what the user cleared or deleted, and what was said to a
  session whose file `/session delete` removed under it.
- `RevertGivesBack` speaks of the changes that are in the log, with a backup that
  was taken and is still there.
- `NewestWritesSurvive` is about answers with one tool use: stage 1 drops an
  answer as a whole, and with it the newest write of another file.
- `BlocksAreBracketed` excludes reasoning that comes after what it is about, and
  `ToolCallsSurvive` reasoning that begins after a call: there the index of a
  call changes between its start and its stop.
- `DriversEnd` says that the driver's process ends, not that its session is released.
- `AbortStopsTools` needs a pre hook: without one the loop never looks at the
  signal before a tool.
- `CommandsEnd` is about commands that end by themselves or are aborted while the
  program polls them: one that does not read an input larger than a pipe, or whose
  helper holds the output open, is waited for without a look at the signal.
- `PluginsStopOnce` excludes runtimes with a Shutdown command that failed: dropping
  them shuts the other plugins down again.
- `OverrideCanBeUndone` speaks of settings that no subagent's Config or user has
  overwritten since: overlapping writes lose each other's change.

## 5. Bounds

All bounds are CONSTANTs whose comment begins with "bound:"; the rest of the
constants are parameters of the program.

- *Conversation*: `MaxUses` 2 gives the compaction a cut between the two results
  of one answer; `Threshold` 2 with one token of usage per call makes the second
  and every later answer compact, so that summaries of summaries and cuts at
  every place occur within two turns of two iterations; `PreserveRecent` is the
  code's 4. `MaxIterations` 2 is a small limit of the kind a subagent has: a turn with
  more answers, as the program allows, is outside of the run and inside of the
  theorems, which hold for any limit. In the other configuration a single use per answer is enough, because
  hooks, rules and prompter act on one call; three inputs keep "as asked",
  "as rewritten" and "denied" apart.
- *PermissionPolicy*: the decision looks at one tool and one input, so two of
  each (one that matches and one that does not) and one rule of each kind meet
  every branch.
- *SessionLog*: `RotateAfter` 3 records (the code's 256 KiB) and one rotated copy
  (the code's 3) let a rotation, and the removal of a copy, happen within three
  saves; two crashes let a restarted process die again. The two processes are
  symmetric.
- *Trident*: six messages hold a run of chatter that is collapsed with other
  messages around it, or a cluster with a message between its members; two files and three tools give
  reads and writes of the same and of different files. `ChattyTokens` and the
  thresholds are the code's, in tokens. The number of compactions is not bounded,
  `Again` says how many messages they preserve.
- *LiveCli*: three prompts put a failed turn between two that succeed; two tool
  uses in all give a retry an earlier edit to drop. They bound what the assistant asks
  for, not the turn: the program has no limit on iterations and the module states none.
- *WorkerBoot*: six events reach a misdelivery, its replay and a restart; two
  prompts tell the replayed one from the last one.
- *McpManager*: two operations let one meet what the one before left; two unread
  frames let a notification or a late answer come before the awaited one. With
  two servers one operation suffices. The counter of request ids saturates at `MaxId`,
  as it does in the code at `u64::MAX`; two calls without a second page use at most
  twelve ids. Pages are not bounded: a listing that goes on stays at the last id.
- *Hooks*: two commands and two runs, so that a command follows one that was left
  behind and a run one that was cut short; a pipe has two sizes, what fits and what
  does not.
- *Runtimes*: two plugins, one after the other in the registry, tell a Shutdown that
  fails first from one that fails last; `MaxRounds` is the code's 4.
- *Plugins*: one bundled and one external plugin, two versions, two cut steps: the
  second cut may hit the repair of the first.
- *PlanMode*: one subagent beside the loop, two settings, two cut writes.
- *Subagents*: two agents that settle the same two cron entries; two failing writes
  let the report and its repetition fail.
- *Sessions*: four names are two sessions and two rotated copies, or a fork; two
  prompts, so that one session is older than the other, or says less.
- *Interception*: the numbers are in `MCLiveCli`; a file is changed by evil mode and
  by the user in turn, and a call follows one that was undone.
- *AnthropicStream*: three frames and one retry; a chunk may end anywhere, also
  between the two line ends of a separator.
- *OpenAiStream*: a chunk carries any combination of reasoning, text and deltas
  for both calls, so three chunks start, continue and finish two calls in any interleaving.

- *Browser*: the numbers are in `MCMcpManager`. Two calls and two drivers let the thread
  of evil mode spawn one after the turn's was dropped or killed; one cloud session
  suffices, since each is released, or not, by itself.

## 6. Fairness

- `Conversation`: `WF_vars(TurnStep)`. `run_turn` is one thread that runs until it
  returns; the assumption is that provider, tools, prompter and hook commands
  return. `Abort` and new turns are not fair. Nothing keeps the assistant from asking
  for more tools, which is why `TurnEnds` names that exception.
- `LiveCli`: `WF_vars(Provider)`, because every request has a time limit of 300
  seconds (`api/src/http_client.rs:20-30,157-163`) and a tool is assumed to
  return; `WF_vars(Retry \/ GiveUp)`, which is straight-line code. Prompts,
  leaving and resuming are not fair. What the provider answers is not assumed.
- `Hooks`: `WF_vars(Program)`, the polling thread, and `WF_vars(Child)`: a command that
  can go on does; one that never ends is a script of its own. Helpers and the
  abort are not fair.
- `McpManager`: `WF_vars(Manager)`, the manager's own steps, among them the
  timeout each request has; nothing is assumed of the servers. One that pages for
  ever is in the model, and is the exception of `CallsEnd`.
- `Browser`: weak fairness of `TakeRequest`, `HearsEnd` and `ShutdownReleases`, each by
  itself: the event loop of Node goes on to the next line, sees the end of its input
  while a request waits, and the release of a session is assumed to return. A request in progress may take for ever, and nothing is assumed of the
  program, of Ctrl+C or of a kill.
- The other specifications state safety only and assume no fairness.

## 7. Proofs

Eight modules of theorems; TLAPS checks each proof to its last leaf. They hold
for every value of the constants that satisfies the named ASSUMEs
(`ConversationAssumption`, `WorkerBootAssumption`, `McpAssumption`,
`LowerAssumption`, `SettlesAssumption`, `PluginsAreApart`, `CallsAreNumbers`, `RoundsAreNumbers`, `TridentAssumption`,
`FramesAreNumbers`) or the hypotheses of the
theorem itself, which say that bounds are natural numbers and that configuration
has its type. No bound is needed by a proof, except that what the proof counts is finite.

| Module | Theorems about |
|---|---|
| `ConversationProofs` | `Compaction`, `Conversation` and its refinement of `Transcript`; `Hooks` and `PermissionPolicy`, as `MCConversationTools` composes them |
| `AnswerProofs` | `OpenAiStream`, `AnthropicStream` and `Trident`, as `MCTranscripts` composes them |
| `SessionLogProofs`, `SessionsProofs` | the file of one session, and the directory of all |
| `StateFilesProofs` | `WorkerBoot`, `Subagents`, and the two before among the other writers of `MCStateFiles` |
| `LiveCliProofs` | `Runtimes`, `LiveCli`, `Interception`, as `MCLiveCli` composes them |
| `McpManagerProofs` | `McpManager` |
| `ChoicesProofs` | `PlanMode` and `Plugins`, as `MCPlugins` composes them |

Where an MC module composes components, a theorem about the composition says that
each step of `EachNext` is a step of the component or leaves its variables alone.
Inductions (over the length of a transcript, the number of records that are undone,
the number of rotated copies) are over a set of naturals that holds 0 and with each
member its successor (`AllNaturals`); a fold of the library is the function chosen
by its definition, and the lemmas show which function that is.

The conversation:

- `ConversationProofs!CompactionKeepsPairs`: for every transcript, preserve count
  and token limit, `CompactSession` keeps a well-paired transcript well paired.
  By `LeastNatural` the boundary walk ends at a nearest safe cut
  (`NearestSafeCut`, `KeepFromIsSafe`), never keeps the old summary as a message
  (`KeepFromPastSummary`), and what is left is the summary and a tail
  (`CompactSessionIsTail`). A result whose tool use lay before the cut would, by
  pairing, have only results between it and its use, so the tail would begin with
  a result; a safe cut excludes that (`SafeTailIsPaired`).
- `ConversationProofs!TypeCorrect`: `[]TypeOK`, from `TypeInv`, which adds that in
  the tool steps `call` is the call of the first pending use.
- `ConversationProofs!PairsAreKept`: `[]ResultsStayPaired`. Pairing alone is not
  inductive: pushing a result keeps it only if the assistant message that asks for
  it stands at the end with its first results. `PairInv` adds that only assistant
  messages ask and that in the tool steps the pending uses are those of a message
  with nothing but results behind it (`AskedAtEnd`). `AutoCompactKeeps` shows that a
  compaction keeps all of it, since the last message is preserved.
- `ConversationProofs!RunsArePermitted`: `[]OnlyPermittedRuns`. `PermitInv` adds that
  what waits to be executed is permitted as it stands: the input that is run is the
  one that was decided on, after the hook's rewrite. `AllowedFor` gives the two
  reasons for which `authorize_with_context` lets a call through.
- `ConversationProofs!AbortIsObeyed`: `[]AbortStopsTools`. `AbortInv` adds that once a
  call ran after the signal, no call is on its way to its execution: what was still
  before its pre-hook is cancelled there. It says nothing, as the property does,
  when no pre-hook is configured.
- `ConversationProofs!SuccessesHappened`: `[]NoPhantomSuccess`. `GenuineInv` follows the
  error flag of a refused call from the refusal to its result.
- `ConversationProofs!AnswersAreInOrder`: `[]UsesAnsweredInOrder`, a property of requests.
  Between them a use may still be awaited; `OrderInv` says that each use is lost with
  a failed push, answered in its place, or one of the pending uses, which are the last
  ones of the message that asks and are answered next (`Settled`, `Awaited`).
  `AutoCompactSettles` shows that a compaction cuts no message off its answers.
- `ConversationProofs!ImplementsTheLog`: `Spec => ImplementsTranscript`. `ViewInv` says that
  what the model is sent is `View(transcript, summarised)`, and that no entry of the log
  looks like a summary. A push extends the view (`PushExtends`); a compaction drops an
  old summary and a prefix, so the view hides at least as much as before
  (`CompactionHidesMore`), and by `KeepFromIsSafe` it does not begin with a result.
- `ConversationProofs!AnswersLeaveLittle`: `AnswerLeavesBoundedTranscript`. `BoundInv` says
  that a run of results is at most as long as one answer has uses. The walk back
  from the preserved tail passes only results, so it passes at most one such run. The
  estimate of tokens is a fold, of which the proof needs that it is a natural number.
- `ConversationProofs!HooksLookAtomic`: `[]RunsLookAtomic`. `HookInv` says for each step of
  a run what the command may hold open there, and that the signal is never taken back.
- `ConversationProofs!LooserStaysLooser`: `[]LooserIsLooser`, by cases over what
  `authorize_with_context` looks at (`LooserModes`, `LooserRules`).
- `AnswerProofs!AnswersAreBracketed`: `[]BlocksAreBracketed`, for any set of calls, and
  chunks and fragments without a bound. `Shown` reads the blocks off the state of the
  stream, and `Runs(b, events, d)` says that events fit the blocks `b` one after the other
  and lead to `d`. Each operator of the stream tells what it does to the state
  (`BeginTells`, `TextTells`, ...: its events lead from what was shown to what is shown
  now); the loops over calls keep that (`FoldKeeps`), so a chunk does
  (`ChunkTells`) and the end of the body does (`FinishTells`). `AnswerInv` says that what
  is pending leads to what the state shows. It needs that reasoning finds nothing
  before it (`Fresh`), that no call is stopped before a finish reason, and that between
  two chunks a started call has no arguments left to tell (`UpToDate`): without the
  last, the stop of a call would come before its delta.
- `AnswerProofs!CallsArriveWhole`: `[]ToolCallsSurvive`, for any set of calls, and chunks
  and fragments without a bound. A reader of the calls knows of each nothing, that it is
  open with so many fragments, or that it is done; `CallFits` and `CallAfter` say which
  events it can take and what it knows then. Each operator of the stream leads that
  reader from what the state had told of the calls to what it tells now (`Reported`,
  `ReportsBegin`, `ReportsToolCall`, ..., `ReportsChunk`, `ReportsEnd`), and a client that
  takes an event that fits holds what the reader knows (`Holds`, `EventHolds`): an open
  call is pending in its place with its fragments so far, a call that is done is in the
  message once, with all of them. `CallsInv` joins the two over what is pending. It needs
  that a named call is started by the end of the chunk that names it (`CallCurrent`),
  that no call is named while reasoning goes on (`Reasoned`: the stop of the reasoning
  would complete the program's pending call), and that reasoning does not begin after a
  call, which would move the places of the calls (`MovedHolds` needs that none is open).
  The program has one place for what is pending, so for it one call is named at most.
- `AnswerProofs!EventsArriveWhole`: `[]EventsSurviveChunking`, for answers of any number
  of frames, either line end and chunks of any size. The text of an answer is its units
  (`TextIs`: a frame and the blank line that ends it, five pieces or seven), of which the
  last may lack its blank line. `CutIs`: the first blank line in the buffer is the one
  that ends the frame the buffer begins with, for both searches of `next_frame`, so
  what is taken is that frame, and `ParseIs` says what it parses to, whole or broken off
  by the end of the body. `OneMoreEvent` and `EventsBegin`: each frame adds at most one
  event, and the events of the first frames begin those of all. `MsgInv` joins how much
  of the text has come and how many frames are cut out of it (`Cut`) to what of their
  events is with the consumer, waiting, or in the chunk at hand (`Heard`). A bad frame
  takes with it the events of its chunk, so after it only the beginning of the events is
  promised (`MsgFails`); at the end of the body, all the frames that came
  (`FramesAreCounted`, `MsgFinishes`). The first stop among the frames that were cut out
  settles whether the prompt cache is told, by whether a usage came before it
  (`CountedIn`, `UsageIsCounted`).
- `AnswerProofs!StagesKeepTheOrder`: `[]SurvivorsInOrder`, for transcripts of any length.
  Each stage picks positions and writes markers at some of them; what it makes is taken
  from what it was given in the order it had there (`Takes`, `MarkedLeaves`), and that
  can be composed (`BothLeave`). `Ranks` and `PickTakes` show that counting positions
  puts them in order, `SurvivorsAreTaken` and `TakenIsMet` that going through the
  transcript once meets all that was taken from it. A summary is not dropped by any stage because it names no
  path, is not chatty and is no candidate for a cluster (`ClustersAre`). The stages
  could still move another summary to the front: `GivenInv` says that there is only one,
  since `compact_session` cuts behind it (`CutIsBehindSummary`).
- `AnswerProofs!NewestWritesOutlive`: `[]NewestWritesSurvive`, from the type of the
  messages alone.

The files:

- `SessionLogProofs!Survives`, `Mirrors`, `RotationsAreBounded`: `IInv` is about the one
  process that has the session open. What it remembers is what was acknowledged
  (`Mirrored`), and how far its operation has come with the file (`UnderWay`) tells what
  of that the file holds (`Safe`) and whether it can be read (`Legible`). The hypotheses
  are that the bounds are numbers and, for the last theorem, that there are finitely
  many processes, each of which may be between a rotation and its clean-up.
- `SessionsProofs!OneIsOpen`, `NoAnswerIsLost`: `[]OneSessionIsOpen` and
  `[]AnswersStay`. `AnswersStay` speaks of files or the open session; the invariant is
  stronger, since the program may be killed: every answer that was not given up is
  in a file (`Said`). That needs `NothingElseToLose`, an open session whose file is
  gone has said nothing but what was given up, and `FreeAbove`, a new name is not
  that of a file. `SaveKeeps` says what a save may take from the directory, namely
  what the old file held and the saved session does not; `OneSessionIsOpen` makes
  that nothing, and is the reason why each command must replace handle, runtime and
  file together.
- `StateFilesProofs!AcknowledgedSurvivesAmongAll`, `FileMirrorsAmongAll`, `OneIsOpenAmongAll`,
  `NoAnswerIsLostAmongAll`: the same, for the composition that `state_files` runs.
- `StateFilesProofs!TypeCorrect`, `BlockedSayWhy`, `OneInFlight`: from `IInv`, that
  each worker is typed and *sound*: its error is the one its status needs and
  a worker that is ready for a prompt has none in flight. Each branch of `Observe`
  and each other operation keeps a worker sound (`...IsSound`); `BecomeKeepsIInv`
  lifts that to the registry, with the file, for failing writes too.
- `StateFilesProofs!ReplaysAreArmed`, `StaleMeansRunning`: `ReplayIsLogged` reads off
  the worker's log whether a replay is armed, and `FilesTell` what the state file may
  say of a status it does not show. The second holds where writes do not fail
  (`~EmitMayFail`); a failed write leaves any status in the file.
- `StateFilesProofs!ManifestsAreTrue`: `[]ManifestTellsTheTruth`. `AgentInv` says at which
  step the manifest, the output and the thread of an agent may disagree
  (`Launching`, `Reporting`, `Ended`), for any agents and cron entries.
- `LiveCliProofs!FileIsTheSession`, `UnansweredOnlyAppend`: `[]FileHoldsTheSession` and
  `UnansweredTurnsOnlyAppend`, from `SessionInv`, which says of each phase which of the
  three copies (program, turn, file) agree. Of a compaction the proof uses that it
  makes a transcript of a transcript: neither property rests on what it keeps.
- `LiveCliProofs!RevertGivesAllBack`: `RevertGivesBack`. The fold of `/revert` is shown to
  be a closed form (`RevertUndoesTheRecords`): the first record of a file that can be
  undone has the last word. `EvilInv` says that this record keeps the promise made when
  it was written. That needs backups with numbers that are never used again
  (`LogIsSound`) and, for a backup that gets lost, the records of created files, which
  need none. An earlier form of the ghost variable `before` promised nothing for a
  created file after backups were lost, although `/revert` undoes its record; the
  invariant could not be proved of it, and TLC had not met it within the bounds of the run.
- `LiveCliProofs!TypeCorrect`, `ShutdownsRunOnce`, `OneIsUp`: a runtime that is alive
  has its flag set and, unless a Shutdown command failed, has stopped nothing; one
  that is not has stopped everything once. Each of `ShutdownPlugins`, `Drop` and
  `Replace` keeps that, which are lemmas; the invariant adds which of the three
  runtimes are alive at each `pc`.

Processes and choices:

- `McpManagerProofs!TypeCorrect`, `AnswersAreFresh`, `ProcessesAreKnown`,
  `RetriesAreBounded`: one inductive invariant `IInv`. `OneRequest`: while a
  request is awaited its server owes at most its answer, and otherwise
  no server owes anything but notifications, which holds because every fault
  after which an answer may still come resets the server. `Paid`: processes
  started and attempts used up balance, which bounds the product of the two
  retry loops. `OneCall`: a `tools/call` request is sent only while none has
  been. `InitializedWasGreeted` and `NoProcessIsLost` are part of it.
- `McpManagerProofs!BestEffortAsksAll`: `BestEffortAsksEveryServer`, for any number of
  servers and whatever becomes of each.
- `ChoicesProofs!TypeCorrect`, `StateFileIsTrue`, `ExitGivesBack`: `OverrideCanBeUndone`
  is strengthened with what each step of the loop's tool has read and may still
  rely on; the last theorem says that an ExitPlanMode nobody interfered with
  restores the settings as they were, and is not checked by a run.
- `ChoicesProofs!BundledStayWhole`, `OffStaysOff`: `PluginInv`. At every step a record of
  the current version vouches for the copy it is about (`Vouched`), but for what a cut
  update leaves; a plugin that was reported off reads off in the settings, unless a
  write of the settings was cut (`OffIsOff`).

## 8. What is only model-checked

- liveness (`TurnEnds` twice, `CommandsEnd`, `CallsEnd`, `DriversEnd`) and everything under
  fairness: the prover does not do ENABLED;
- `Browser`, and the runs of section 9: a counterexample needs no proof.

Every safety property of a passing run, invariants and action properties, is stated by a
theorem of section 7.

No module declares a RECURSIVE operator. `SelectSeq` of the standard module is opaque to
the provers, which is why `InOrder` of `Trident` counts positions.

## 9. Disagreements

Six runs show code that does not do what the repository says it should:

- `trident_keeps_pairs`: `stage1_supersede` drops the assistant message that
  reads or writes a file once the file is written later, and leaves the tool
  result that answers it; `compact_session` then keeps that result. The comment at
  the boundary walk in `compact.rs` says what it must not do.
- `open_ai_stream_parallel_calls`: `consume_stream` has one `pending_tool` and
  ignores block indexes, while `StreamState` starts every parallel call before it
  stops any. The first call is lost, later fragments go to the last one started. The
  test `pending_tools_preserve_multiple_streaming_tool_calls_by_index`
  of the subagents' client says what is expected.
- `hooks_early_exit`: a hook command that exits 0 without reading its input is
  taken for a failed one when the payload is written after it has gone, because
  `runtime/src/hooks.rs` treats the broken pipe as an error; `plugins/src/hooks.rs` has
  the same write and says that this is not a hook failure.
- `revert_undoes_the_session`: the footer after each turn drains the log `/revert`
  works from, so what the turn changed cannot be undone at the prompt after it; the
  summary of the command says "this session".
- `delete_refuses_the_open_session`: the command compares ids, the id in the open
  file and the one made of the name of the file to delete. They differ for a rotated
  copy that was resumed, and then the open file is removed. The same command on a
  resumed session compares the paths as well.

- `shutdown_releases_sessions`: `Drop for Sidecar` writes "stop" and closes the pipe. The
  driver forgets its session and begins to release it; then it sees the end of its
  input, finds no session to release and exits. `shutdown_browser` says "Release any
  live Steel session. Safe to call on CLI shutdown." BrowserStop waits for the answer
  first, and does release it.

The modules state more of what comments and messages say and the code does not
keep. They are kept under a heading of their own, TLC refutes each when it is
named in a configuration, and no run checks them:

| Property | Says | With |
|---|---|---|
| `MCPermissionPolicy!DeniedToolsAreDenied` | denied tools are denied; names are lowercased on one side only | `ConversationTools.cfg`, as `Rules!...` |
| `MCPermissionPolicy!PromptModeAsks` | Prompt mode asks; it is the largest mode | `ConversationTools.cfg`, as `Rules!...` |
| `WorkerBoot!FileShowsStatus` | the state file shows the status; the running cue writes no event | `StateFiles.cfg` |
| `WorkerBoot!FileIsWhole` | the file is replaced atomically; a failed write is renamed anyway | `EmitMayFail = TRUE` |
| `WorkerBoot!TerminalStatesStay` | finished and failed are terminal | `StateFiles.cfg` |
| `WorkerBoot!MisdeliveredWasNotAccepted` | a timeout blames delivery only of a prompt that was not accepted | `StateFiles.cfg` |
| `MCTrident!RecentMessagesAreVerbatim`, `SkippedIsUnchanged` | the summary's note; the report of `/compact` | `TridentKeepsPairs.cfg`, `Again` {4} and {1} |
| `LiveCli!AsksOnce`, `RetriesShrink`, `ThresholdIsKept`, `GivesUpAtTheEnd` | the comments around the retry loop | `LiveCli.cfg`, with `Windows` {10}, one file and two prompts in `MCLiveCli` |
| `Interception!RepentKeepsTheMessage` | HEAD is amended only if it is still the commit of the log; it may be another with the same suffix | `RevertUndoesTheSession.cfg` |
| `Browser!StopDisconnects` | BrowserStop disconnects the driver; it gives up at a dead one, which keeps its place in the slot, so that no other is started until Ctrl+C or the end | `ShutdownReleasesSessions.cfg`, with `MaxCalls` 2 |
| `Sessions!TheIdFindsTheSession` | the id shown when a session is left resumes it; it may name another file | `DeleteRefusesTheOpenSession.cfg` |

## 10. What is not modelled

- *Text*: summaries, prompts, the screens of workers, redaction and truncation of saved
  payloads, JSON itself. What a decision reads of a text is an input.
- *Processes behind an interface*: a tool is its result or error, a tool server its
  frames. The transports of tool servers other than stdio are left out.
- *The session file's* legacy format, heartbeats and workspace binding.
- *The session store's* search in other workspaces and legacy directories, the check
  that a session belongs to the workspace, `/export` and listing; two programs at
  once on one directory. Files touched at the same time are ordered by nothing.
- *Evil mode's* wording, the bash rewrites that leave no trace in the repository,
  and subagents, whose tools it does not reach.
- *The terminal interface*, but for what it does to sessions, when it saves, clears
  and leaves, and for its handler of Ctrl+C.
- *The browser's* pages, profiles and viewer, and the mock driver; evil mode may start
  two threads, of which there is one.
- *Numbers*: token counts are small naturals; saturating subtraction is modelled,
  the width of the `u32` usage counters (four thousand million tokens in one
  session) is not.
- Whole components, with the reason in `PROJECT.json`: planned ones (lifecycle and
  bridge, lanes and ledgers; the lifecycle validator, the ledgers of recovery attempts
  and approval grants and the reconciliation of terminal events have no caller but tests), and those that are I/O or layout (most tools,
  configuration, commands and rendering, minion, the
  mock provider, prompt cache).

## 11. How to run it

    tlc -workers 2 -config StateFiles.cfg MCStateFiles
    tlapm McpManagerProofs.tla

Each run names its module and configuration in `PROJECT.json`. A run takes from
seconds to about three minutes; the proofs about four minutes altogether.
