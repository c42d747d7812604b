------------------------------- MODULE Hooks -------------------------------
(***************************************************************************)
(* HookRunner of runtime/src/hooks.rs: one run of the shell commands that  *)
(* are configured for a hook event.  The program starts each command,      *)
(* writes the payload to its input, polls for its exit every 20 ms and     *)
(* only then reads what it printed.  The command is a process of its own,  *)
(* and the HookAbortMonitor of the CLI may set the abort signal at any     *)
(* moment.                                                                 *)
(*                                                                         *)
(* A pipe is "small": what does not fit in it has to be read by the other  *)
(* side before the writer gets on.                                         *)
(***************************************************************************)
EXTENDS Naturals

CONSTANTS MaxCommands,   \* bound: commands that match the tool
          MaxRuns        \* bound: hook runs

(* What a command does:                                                     *)
(* reads   "all" of its input before it goes on, "none", or it "closes" it  *)
(* prints  what "fits" in the pipe, or more ("large")                       *)
(* ends    with exit 0 ("allow"), with 2 or a blocking answer ("deny"),     *)
(*         with another status or a signal ("fail"), or "never"             *)
(* helper  starts a process that keeps the output open when it is gone: in  *)
(*         the background, or in the foreground of a shell that is killed   *)
Script == [reads : {"all", "none", "closes"}, prints : {"fits", "large"},
           ends : {"allow", "deny", "fail", "never"}, helper : BOOLEAN]

VARIABLES
    pc,        \* where run_commands stands, "idle" before the first run
    left,      \* matching commands still to be run
    payload,   \* the payload "fits" in the pipe, or is "large"
    script,    \* what the current command does
    child,     \* its process: "none", "started", "working", "printed" or "exited"
    helper,    \* its background process is alive
    flow,      \* the HookRunResult of the last run
    aborted,   \* the HookAbortSignal
    runs

\* History: the signal was set when the run began; the current command's input
\* was refused; it has exited without objection.
VARIABLES beganAborted, refused

vars == <<pc, left, payload, script, child, helper, flow, aborted, runs,
          beganAborted, refused>>

NoScript == [reads |-> "all", prints |-> "fits", ends |-> "allow", helper |-> FALSE]

Init ==
    /\ pc = "idle" /\ left = 0 /\ payload = "fits" /\ script = NoScript
    /\ child = "none" /\ helper = FALSE /\ flow = "go"
    /\ aborted = FALSE /\ runs = 0 /\ beganAborted = FALSE /\ refused = FALSE

TypeOK ==
    /\ pc \in {"idle", "next", "write", "check", "try_wait", "collect", "reap", "done"}
    /\ left \in 0..MaxCommands /\ payload \in {"fits", "large"} /\ script \in Script
    /\ child \in {"none", "started", "working", "printed", "exited"}
    /\ helper \in BOOLEAN /\ flow \in {"go", "denied", "failed", "cancelled"}
    /\ {aborted, beganAborted, refused} \subseteq BOOLEAN /\ runs \in 0..MaxRuns

Return(result) == pc' = "done" /\ flow' = result

----------------------------------------------------------------------------
(* The program.                                                             *)

\* Variant: the signal is not looked at before the first command.
BeginRun_WhateverTheSignal ==
    /\ pc \in {"idle", "done"} /\ runs < MaxRuns
    /\ runs' = runs + 1
    /\ child' = "none" /\ helper' = FALSE /\ refused' = FALSE /\ script' = NoScript
    /\ payload' \in {"fits", "large"} /\ left' \in 0..MaxCommands
    /\ beganAborted' = aborted /\ pc' = "next" /\ flow' = "go"
    /\ UNCHANGED aborted

\* With commands configured, a signal that is already set cancels the run,
\* also when none of them matches the tool.
BeginRun ==
    /\ pc \in {"idle", "done"} /\ runs < MaxRuns
    /\ runs' = runs + 1
    /\ child' = "none" /\ helper' = FALSE /\ refused' = FALSE /\ script' = NoScript
    /\ payload' \in {"fits", "large"} /\ left' \in 0..MaxCommands
    /\ beganAborted' = aborted
    /\ IF aborted THEN Return("cancelled") ELSE pc' = "next" /\ flow' = "go"
    /\ UNCHANGED aborted

AllAllowed ==
    /\ pc = "next" /\ left = 0
    /\ Return("go")
    /\ UNCHANGED <<left, payload, script, child, helper, aborted, runs, beganAborted, refused>>

StartCommand ==
    /\ pc = "next" /\ left > 0
    /\ left' = left - 1
    /\ script' \in Script /\ child' = "started" /\ refused' = FALSE
    /\ pc' = "write"
    /\ UNCHANGED <<payload, helper, flow, aborted, runs, beganAborted>>

StartFails ==
    /\ pc = "next" /\ left > 0
    /\ child' = "none" /\ Return("failed")
    /\ UNCHANGED <<left, payload, script, helper, aborted, runs, beganAborted, refused>>

ChildRuns == child \in {"started", "working", "printed"}

\* The command's input is still open: it closes it on its way, or by exiting.
InputOpen == ChildRuns /\ ~(script.reads = "closes" /\ child # "started")

\* write_all: a payload that does not fit goes through only if it is read.  The
\* handle is dropped, so the command then sees the end of its input.
WriteInput ==
    /\ pc = "write" /\ InputOpen
    /\ payload = "fits" \/ script.reads = "all"
    /\ pc' = "check"
    /\ UNCHANGED <<left, payload, script, child, helper, flow, aborted, runs,
                   beganAborted, refused>>

\* A broken pipe ends the run; the process is neither killed nor waited for.
InputRefused ==
    /\ pc = "write" /\ ~InputOpen
    /\ refused' = TRUE
    /\ Return("failed")
    /\ UNCHANGED <<left, payload, script, child, helper, aborted, runs, beganAborted>>

\* Variant: the signal is looked at between two commands only.
CheckAbort_Never ==
    /\ pc = "check" /\ pc' = "try_wait"
    /\ UNCHANGED <<left, payload, script, child, helper, flow, aborted, runs,
                   beganAborted, refused>>

\* Every 20 ms the signal is looked at first, then the process.
CheckAbort ==
    /\ pc = "check"
    /\ IF aborted
       THEN /\ child' = "exited" /\ pc' = "reap"
            /\ helper' = IF ChildRuns THEN script.helper ELSE helper
       ELSE pc' = "try_wait" /\ UNCHANGED <<child, helper>>
    /\ UNCHANGED <<left, payload, script, flow, aborted, runs, beganAborted, refused>>

TryWait ==
    /\ pc = "try_wait"
    /\ pc' = IF child = "exited" THEN "collect" ELSE "check"
    /\ UNCHANGED <<left, payload, script, child, helper, flow, aborted, runs,
                   beganAborted, refused>>

\* wait_with_output returns once nobody holds the output open any more.
OutputClosed == child = "exited" /\ ~helper

Collect ==
    /\ pc = "collect" /\ OutputClosed
    /\ CASE script.ends = "allow" -> pc' = "next" /\ UNCHANGED flow
         [] script.ends = "deny" -> Return("denied")
         [] OTHER -> Return("failed")
    /\ UNCHANGED <<left, payload, script, child, helper, aborted, runs, beganAborted, refused>>

Reap ==
    /\ pc = "reap" /\ OutputClosed
    /\ Return("cancelled")
    /\ UNCHANGED <<left, payload, script, child, helper, aborted, runs, beganAborted, refused>>

----------------------------------------------------------------------------
(* The command, and the user.                                               *)

programVars == <<pc, left, payload, script, flow, aborted, runs, beganAborted, refused>>

\* A command that reads all of its input waits for its end.
ChildReads ==
    /\ child = "started"
    /\ script.reads = "all" => pc # "write"
    /\ child' = "working" /\ UNCHANGED <<helper, programVars>>

\* The program reads only after the exit; a command whose input was refused
\* finds nobody at the other end of its output either, and gets on.
ChildPrints ==
    /\ child = "working"
    /\ script.prints = "fits" \/ refused
    /\ child' = "printed" /\ UNCHANGED <<helper, programVars>>

ChildExits ==
    /\ child = "printed" /\ script.ends # "never"
    /\ child' = "exited" /\ helper' = script.helper
    /\ UNCHANGED programVars

HelperEnds ==
    /\ helper /\ helper' = FALSE /\ UNCHANGED <<child, programVars>>

\* HookAbortSignal::abort
Abort ==
    /\ ~aborted /\ aborted' = TRUE
    /\ UNCHANGED <<pc, left, payload, script, child, helper, flow, runs, beganAborted, refused>>

Program == \/ AllAllowed \/ StartCommand \/ StartFails \/ WriteInput \/ InputRefused
           \/ CheckAbort \/ TryWait \/ Collect \/ Reap
Child == ChildReads \/ ChildPrints \/ ChildExits

Next == BeginRun \/ Program \/ Child \/ HelperEnds \/ Abort

\* A begun run goes on and the system schedules the command; a helper may live
\* as long as it likes, and nobody has to abort or to begin another run.
Fairness == WF_vars(Program) /\ WF_vars(Child)
Spec == Init /\ [][Next]_vars /\ Fairness

----------------------------------------------------------------------------
\* The conversation loop takes a hook run for one step that is cancelled exactly
\* when the signal is set.  In fact a run takes seconds: if the signal was set
\* before it, no command starts, and only a set signal cancels.  What comes next
\* (the tool, or another run) never races a command of this run, unless it
\* failed: a refused input leaves its process behind, running.
RunsLookAtomic ==
    pc = "done" => /\ beganAborted => flow = "cancelled" /\ child = "none"
                   /\ flow = "cancelled" => aborted
                   /\ flow # "failed" => ~ChildRuns /\ ~helper

Ends == script.prints = "fits" /\ script.ends # "never"
InputTaken == payload = "fits" \/ script.reads # "none" \/ Ends

\* A started command is over some day if it ends by itself and prints no more
\* than its pipe holds, and otherwise when the user aborts, if it takes its
\* input: the program polls the signal, but not while it writes.  A helper that
\* holds the output open is waited for either way.
CommandsEnd ==
    (pc \in {"write", "check", "try_wait"} /\ ~script.helper /\ (Ends \/ (aborted /\ InputTaken)))
        ~> pc \in {"next", "done"}

\* plugins/src/hooks.rs on the same write: a command that "exits early without
\* reading stdin" raises EPIPE, and "That is not a hook failure".
EarlyExitIsNoFailure ==
    pc = "done" /\ child = "exited" /\ script.ends = "allow" => flow # "failed"

=============================================================================
