----------------------------- MODULE Subagents ------------------------------
(***************************************************************************)
(* The Agent tool of tools/src/lib.rs.  The conversation loop writes the   *)
(* agent's output file and its manifest and starts a thread; the thread    *)
(* runs the agent's turn, appends what came of it to the output file,      *)
(* switches off the cron entries its work settles, and writes the manifest *)
(* again.  The cron registry is shared by all threads and by the tools     *)
(* CronCreate and CronDelete of the loop.  Any write may fail, and a       *)
(* report that cannot be written is made once more, as a failure.          *)
(***************************************************************************)
EXTENDS Naturals, Sequences

CONSTANTS Agent, Cron,
          Settles,     \* the cron entries that match an agent's name or items
          MaxFaults    \* bound: writes that fail, per agent

VARIABLES
    pc,         \* per agent: "none", "output", "manifest", "spawn" in the loop,
                \* then "run", "append", "list", "disable", "report", "ended"
    output,     \* per agent, the sections of its output file, or NoFile
    manifest,   \* per agent, the status in its manifest file
    claimed,    \* per agent, disabled_cron_ids in its manifest file
    report,     \* per agent, the status persist_agent_terminal_state is given
    listed,     \* per agent, entries it has listed and not yet handled
    disabled,   \* per agent, entries it has switched off
    cron,       \* per entry: "unused", "on", "off", "deleted"
    killed      \* the program has ended

\* History: what came of each agent's turn, and its writes that failed.
VARIABLES outcome, failures

fileVars == <<output, manifest, claimed>>
threadVars == <<report, listed, disabled>>
vars == <<pc, fileVars, threadVars, cron, killed, outcome, failures>>

NoFile == <<"no file">>

Init ==
    /\ pc = [a \in Agent |-> "none"]
    /\ output = [a \in Agent |-> NoFile] /\ manifest = [a \in Agent |-> "no file"]
    /\ claimed = [a \in Agent |-> {}] /\ report = [a \in Agent |-> "none"]
    /\ listed = [a \in Agent |-> {}] /\ disabled = [a \in Agent |-> {}]
    /\ cron = [c \in Cron |-> "unused"] /\ killed = FALSE
    /\ outcome = [a \in Agent |-> "none"] /\ failures = [a \in Agent |-> 0]

TypeOK ==
    /\ pc \in [Agent -> {"none", "output", "manifest", "spawn", "run", "append", "list",
                         "disable", "report", "ended"}]
    /\ output \in [Agent -> Seq({"no file", "completed", "failed"})]
    /\ manifest \in [Agent -> {"no file", "torn", "running", "completed", "failed"}]
    /\ report \in [Agent -> {"none", "completed", "failed"}]
    /\ {claimed, listed, disabled} \subseteq [Agent -> SUBSET Cron]
    /\ cron \in [Cron -> {"unused", "on", "off", "deleted"}]
    /\ killed \in BOOLEAN /\ failures \in [Agent -> 0..MaxFaults]
    /\ outcome \in [Agent -> {"none", "completed", "failed"}]

----------------------------------------------------------------------------
At(a, label) == pc' = [pc EXCEPT ![a] = label]

\* The loop runs one tool at a time.
LoopIsFree == \A a \in Agent : pc[a] \notin {"output", "manifest", "spawn"}

BeginAgent(a) ==
    /\ pc[a] = "none" /\ LoopIsFree /\ At(a, "output")
    /\ UNCHANGED <<fileVars, threadVars, cron, killed, outcome, failures>>

WriteOutput(a) ==
    /\ pc[a] = "output" /\ At(a, "manifest")
    /\ output' = [output EXCEPT ![a] = << >>]
    /\ UNCHANGED <<manifest, claimed, threadVars, cron, killed, outcome, failures>>

WriteRunning(a) ==
    /\ pc[a] = "manifest" /\ At(a, "spawn")
    /\ manifest' = [manifest EXCEPT ![a] = "running"]
    /\ UNCHANGED <<output, claimed, threadVars, cron, killed, outcome, failures>>

Reports(a, status) == report' = [report EXCEPT ![a] = status]

\* Without a thread the loop itself reports the failure.
Spawn(a) ==
    /\ pc[a] = "spawn"
    /\ \/ At(a, "run") /\ UNCHANGED <<report, outcome>>
       \/ /\ At(a, "append") /\ Reports(a, "failed")
          /\ outcome' = [outcome EXCEPT ![a] = "failed"]
    /\ UNCHANGED <<fileVars, listed, disabled, cron, killed, failures>>

\* The turn ends with an answer, an error or a panic.
TurnOver(a) == \E result \in {"completed", "failed"} :
    /\ pc[a] = "run" /\ At(a, "append") /\ Reports(a, result)
    /\ outcome' = [outcome EXCEPT ![a] = result]
    /\ UNCHANGED <<fileVars, listed, disabled, cron, killed, failures>>

----------------------------------------------------------------------------
(* persist_agent_terminal_state *)

AppendSection(a) ==
    /\ pc[a] = "append" /\ At(a, IF report[a] = "completed" THEN "list" ELSE "report")
    /\ output' = [output EXCEPT ![a] = Append(@, report[a])]
    /\ UNCHANGED <<manifest, claimed, threadVars, cron, killed, outcome, failures>>

ListCrons(a) ==
    /\ pc[a] = "list" /\ At(a, "disable")
    /\ listed' = [listed EXCEPT ![a] = {c \in Settles[a] : cron[c] = "on"}]
    /\ UNCHANGED <<fileVars, report, disabled, cron, killed, outcome, failures>>

\* Variant: what was listed is taken for disabled.
DisableCron_Unchecked(a) == \E c \in listed[a] :
    /\ pc[a] = "disable" /\ UNCHANGED pc
    /\ listed' = [listed EXCEPT ![a] = @ \ {c}]
    /\ disabled' = [disabled EXCEPT ![a] = @ \cup {c}]
    /\ UNCHANGED <<fileVars, report, cron, killed, outcome, failures>>

\* The lock is taken for one entry at a time; one that is deleted by now is
\* skipped, one that another agent has switched off by now is claimed again.
DisableCron(a) == \E c \in listed[a] :
    /\ pc[a] = "disable" /\ UNCHANGED pc
    /\ listed' = [listed EXCEPT ![a] = @ \ {c}]
    /\ IF cron[c] = "deleted" THEN UNCHANGED <<cron, disabled>>
       ELSE /\ cron' = [cron EXCEPT ![c] = "off"]
            /\ disabled' = [disabled EXCEPT ![a] = @ \cup {c}]
    /\ UNCHANGED <<fileVars, report, killed, outcome, failures>>

AllDisabled(a) ==
    /\ pc[a] = "disable" /\ listed[a] = {} /\ At(a, "report")
    /\ UNCHANGED <<fileVars, threadVars, cron, killed, outcome, failures>>

WriteReport(a) ==
    /\ pc[a] = "report" /\ At(a, "ended")
    /\ manifest' = [manifest EXCEPT ![a] = report[a]]
    /\ claimed' =
          [claimed EXCEPT ![a] = IF report[a] = "completed" THEN disabled[a] ELSE {}]
    /\ UNCHANGED <<output, threadVars, cron, killed, outcome, failures>>

----------------------------------------------------------------------------
(* Faults *)

\* Variant: the thread does not report again.
ReportAgain_Never(a) == At(a, "ended") /\ UNCHANGED report

\* run_agent_job returns the error of its report, which is reported in turn; an
\* error of that second report goes unnoticed.
ReportAgain(a) ==
    IF report[a] = "completed" THEN At(a, "append") /\ Reports(a, "failed")
    ELSE At(a, "ended") /\ UNCHANGED report

\* The loop's own writes: the tool fails, and no thread is started.
\* A write that fails leaves the manifest as it was, or without its end.
WriteFails(a) ==
    /\ failures[a] < MaxFaults /\ failures' = [failures EXCEPT ![a] = @ + 1]
    /\ \/ pc[a] \in {"output", "manifest"} /\ At(a, "ended") /\ UNCHANGED report
       \/ pc[a] \in {"append", "report"} /\ ReportAgain(a)
    /\ \/ UNCHANGED manifest
       \/ /\ pc[a] \in {"manifest", "report"}
          /\ manifest' = [manifest EXCEPT ![a] = "torn"]
    /\ UNCHANGED <<output, claimed, listed, disabled, cron, killed, outcome>>

\* The program ends, with all its threads; the registry is gone with it.
Exit ==
    /\ ~killed /\ killed' = TRUE
    /\ pc' = [a \in Agent |-> "ended"] /\ cron' = [c \in Cron |-> "deleted"]
    /\ UNCHANGED <<fileVars, threadVars, outcome, failures>>

----------------------------------------------------------------------------
(* CronCreate and CronDelete *)

CreateCron(c) ==
    /\ LoopIsFree /\ ~killed /\ cron[c] = "unused" /\ cron' = [cron EXCEPT ![c] = "on"]
    /\ UNCHANGED <<pc, fileVars, threadVars, killed, outcome, failures>>

DeleteCron(c) ==
    /\ LoopIsFree /\ ~killed /\ cron[c] \in {"on", "off"} /\ cron' = [cron EXCEPT ![c] = "deleted"]
    /\ UNCHANGED <<pc, fileVars, threadVars, killed, outcome, failures>>

Launch(a) == BeginAgent(a) \/ WriteOutput(a) \/ WriteRunning(a) \/ Spawn(a)
Thread(a) == \/ TurnOver(a) \/ AppendSection(a) \/ ListCrons(a)
             \/ DisableCron(a) \/ AllDisabled(a) \/ WriteReport(a)
Next == \/ \E a \in Agent : Launch(a) \/ Thread(a) \/ WriteFails(a)
        \/ \E c \in Cron : CreateCron(c) \/ DeleteCron(c)
        \/ Exit
Spec == Init /\ [][Next]_vars

----------------------------------------------------------------------------
\* A manifest that says "completed" is about an agent whose turn gave an answer,
\* whose output file ends with that answer and nothing else, and whose cron
\* entries are off or gone.  An agent ends with its true status in its manifest;
\* if one write of its report failed, with "failed".  Each entry that is off is
\* claimed by an agent that has completed, is about to, or could not write so.
ManifestTellsTheTruth ==
    /\ \A a \in Agent :
          /\ manifest[a] = "completed" =>
                /\ outcome[a] = "completed" /\ output[a] = <<"completed">>
                /\ \A c \in claimed[a] : cron[c] \in {"off", "deleted"}
          /\ pc[a] = "ended" /\ ~killed =>
                /\ failures[a] = 0 => manifest[a] = outcome[a]
                /\ failures[a] = 1 /\ outcome[a] = "completed" => manifest[a] = "failed"
    /\ \A c \in Cron : cron[c] = "off" =>
          \E a \in Agent :
             /\ c \in disabled[a]
             /\ c \in claimed[a] \/ pc[a] \in {"disable", "report"} \/ failures[a] > 0
=============================================================================
