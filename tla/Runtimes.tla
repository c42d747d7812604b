------------------------------ MODULE Runtimes ------------------------------
(***************************************************************************)
(* The BuiltRuntimes of rusty-claude-cli/src/main.rs.  LiveCli keeps one;  *)
(* every turn and every command that changes the configuration builds      *)
(* another, which runs the Init commands of the enabled plugins, and only  *)
(* then replaces the first, which runs its Shutdown commands.  A turn that *)
(* fails on the context window is retried on yet another one.  What goes   *)
(* out of scope shuts its tool servers and its plugins down when dropped.  *)
(***************************************************************************)
EXTENDS Naturals

CONSTANTS Plugin,      \* the enabled plugins
          After,       \* per plugin, those that come after it in the registry
          MaxRounds    \* max_compact_rounds

VARIABLES
    current,   \* self.runtime
    turn,      \* runtime, of the turn or command that is running
    retry,     \* new_runtime, of a retry
    round,     \* rounds of the retry so far
    pc         \* "start", "prompt", "turn", "rebuild", "retrying", "internal", "exited"

\* History: the runtimes the last step dropped.
VARIABLE dropped

runtimeVars == <<current, turn, retry>>
vars == <<runtimeVars, round, pc, dropped>>

(* stops says how often (2: more than once) the Shutdown commands of each   *)
(* plugin succeeded; failed, that one of them did not.                      *)
Runtime ==
    [stops : [Plugin -> 0..2], active : BOOLEAN, servers : BOOLEAN, failed : BOOLEAN]
Built ==
    [stops |-> [p \in Plugin |-> 0], active |-> TRUE, servers |-> TRUE, failed |-> FALSE]
NoRuntime == [Built EXCEPT !.active = FALSE, !.servers = FALSE]

Init ==
    /\ current = NoRuntime /\ turn = NoRuntime /\ retry = NoRuntime
    /\ round = 0 /\ pc = "start" /\ dropped = {}

TypeOK ==
    /\ {current, turn, retry} \cup dropped \subseteq Runtime
    /\ round \in Nat
    /\ pc \in {"start", "prompt", "turn", "rebuild", "retrying", "internal", "exited"}

----------------------------------------------------------------------------
Stop(rt, plugins) ==
    [rt EXCEPT !.stops = [p \in Plugin |->
        IF p \in plugins /\ @[p] < 2 THEN @[p] + 1 ELSE @[p]]]

\* PluginRegistry::shutdown goes backwards and ends with the first that fails.
StopsCut(rt) == {[Stop(rt, After[p]) EXCEPT !.failed = TRUE] : p \in Plugin}

\* Variant: the flag is not cleared.
ShutdownPlugins_StaysActive(rt) ==
    IF ~rt.active THEN {rt}
    ELSE {Stop(rt, Plugin)} \cup StopsCut(rt)

\* shutdown_plugins: an error leaves plugins_active set.
ShutdownPlugins(rt) ==
    IF ~rt.active THEN {rt}
    ELSE {[Stop(rt, Plugin) EXCEPT !.active = FALSE]} \cup StopsCut(rt)

\* Variant: dropping shuts the plugins down whatever the flag says.
Drop_Always(rt) ==
    {[after EXCEPT !.servers = FALSE] : after \in ShutdownPlugins([rt EXCEPT !.active = TRUE])}

\* Drop for BuiltRuntime: errors are ignored.
Drop(rt) == {[after EXCEPT !.servers = FALSE] : after \in ShutdownPlugins(rt)}

Drop2(r1, r2) == {{d1, d2} : d1 \in Drop(r1), d2 \in Drop(r2)}
Drop1(r1) == {{d1} : d1 \in Drop(r1)}

\* replace_runtime: if the old plugins do not stop, the old runtime stays, and
\* the new one is dropped.
Replace(rt) ==
    {IF after.active THEN [current |-> after, dropped |-> rt]
     ELSE [current |-> rt, dropped |-> after] : after \in ShutdownPlugins(current)}

Return == pc' = "prompt" /\ turn' = NoRuntime /\ retry' = NoRuntime /\ round' = 0
NothingDropped == dropped' = {}

StartProgram ==
    /\ pc = "start"
    /\ current' = Built /\ pc' = "prompt" /\ NothingDropped
    /\ UNCHANGED <<turn, retry, round>>

\* An Init command fails, or after them the client cannot be made: there is no
\* BuiltRuntime, and the plugins initialised so far are never shut down.
BuildFails ==
    /\ pc \in {"start", "prompt", "rebuild"}
    /\ IF pc = "start"
       THEN pc' = "exited" /\ dropped' = {} /\ UNCHANGED <<turn, retry, round>>
       ELSE /\ dropped' \in IF pc = "rebuild" THEN Drop1(turn) ELSE {{}}
            /\ Return
    /\ UNCHANGED current

\* /model, /permissions, /clear, /resume, /compact, ...: build and replace.
SwitchRuntime ==
    /\ pc = "prompt"
    /\ \E r \in Replace(Built) :
          current' = r.current /\ dropped' \in Drop1(r.dropped)
    /\ UNCHANGED <<turn, retry, round, pc>>

\* prepare_turn_runtime
BeginTurn ==
    /\ pc = "prompt"
    /\ turn' = Built /\ pc' = "turn" /\ NothingDropped
    /\ UNCHANGED <<current, retry, round>>

TurnSucceeds ==
    /\ pc = "turn"
    /\ \E r \in Replace(turn) :
          current' = r.current /\ dropped' \in Drop1(r.dropped)
    /\ Return

\* The plugins of a failed turn are shut down at once; if that works and the
\* context window was the trouble, the turn is retried.
TurnFails ==
    /\ pc = "turn"
    /\ \E after \in ShutdownPlugins(turn) :
          \/ Return /\ dropped' \in Drop1(after)
          \/ /\ ~after.active
             /\ turn' = after /\ pc' = "rebuild" /\ dropped' = {}
             /\ UNCHANGED <<retry, round>>
    /\ UNCHANGED current

\* After the last round, or when there is nothing more to compact.
GiveUp ==
    /\ pc = "rebuild" /\ round > 0
    /\ dropped' \in Drop1(turn)
    /\ Return /\ UNCHANGED current

BuildRetry ==
    /\ pc = "rebuild" /\ round < MaxRounds
    /\ retry' = Built /\ round' = round + 1 /\ pc' = "retrying" /\ NothingDropped
    /\ UNCHANGED <<current, turn>>

RetrySucceeds ==
    /\ pc = "retrying"
    /\ \E r \in Replace(retry) :
          current' = r.current /\ dropped' \in Drop2(r.dropped, turn)
    /\ Return

RetryFails ==
    /\ pc = "retrying"
    /\ dropped' \in Drop2(retry, turn)
    /\ Return /\ UNCHANGED current

\* Still too large: the retry's runtime takes the place of the turn's, with its
\* plugins up.
RetryAgain ==
    /\ pc = "retrying" /\ round < MaxRounds
    /\ \E after \in ShutdownPlugins(turn) :
          IF after.active
          THEN Return /\ dropped' \in Drop2(retry, after)
          ELSE /\ dropped' \in Drop1(after)
               /\ turn' = retry /\ retry' = NoRuntime /\ pc' = "rebuild"
               /\ UNCHANGED round
    /\ UNCHANGED current

\* run_internal_prompt_text: a runtime of its own that replaces nothing.
BeginInternal ==
    /\ pc = "prompt"
    /\ turn' = Built /\ pc' = "internal" /\ NothingDropped
    /\ UNCHANGED <<current, retry, round>>

EndInternal ==
    /\ pc = "internal"
    /\ \E after \in {turn} \cup ShutdownPlugins(turn) : dropped' \in Drop1(after)
    /\ Return /\ UNCHANGED current

Exit ==
    /\ pc = "prompt"
    /\ dropped' \in Drop1(current)
    /\ current' = NoRuntime /\ pc' = "exited"
    /\ UNCHANGED <<turn, retry, round>>

Next == \/ StartProgram \/ BuildFails \/ SwitchRuntime
        \/ BeginTurn \/ TurnSucceeds \/ TurnFails
        \/ GiveUp \/ BuildRetry \/ RetrySucceeds \/ RetryFails \/ RetryAgain
        \/ BeginInternal \/ EndInternal \/ Exit
Spec == Init /\ [][Next]_vars

----------------------------------------------------------------------------
\* However a turn ends, each runtime that goes away has run the Shutdown command
\* of every plugin exactly once, unless one of these commands failed.
PluginsStopOnce ==
    \A rt \in dropped : ~rt.failed => \A p \in Plugin : rt.stops[p] = 1

\* Between two inputs there is one runtime, with its plugins and its servers up;
\* none of the others is still reachable.
OneRuntimeAtThePrompt ==
    pc = "prompt" =>
        /\ current.active /\ current.servers
        /\ ~current.failed => \A p \in Plugin : current.stops[p] = 0
        /\ turn = NoRuntime /\ retry = NoRuntime
=============================================================================
