---------------------------- MODULE MCStateFiles ----------------------------
(***************************************************************************)
(* Four writers of files that somebody else reads later: the workers' state*)
(* file, the subagents' manifests, one session's file, and the sessions    *)
(* directory.  subject says which of them moves.                           *)
(***************************************************************************)
EXTENDS MCWorkerBoot

CONSTANTS process1, process2,
          Agent, Cron, Settles, MaxFaults   \* of Subagents

ASSUME SettlesAssumption == Settles \in [Agent -> SUBSET Cron]

TwoProcesses == {process1, process2}

\* Every agent settles every entry.
AllSettled == [a \in Agent |-> Cron]

VARIABLES
    subject,                    \* "workers", "subagents", "session" or "sessions"
    pc, output, manifest, claimed, report, listed, disabled, cron, killed,
    outcome, failures,          \* of Subagents
    files, path, rotated, session, op, next, saves, crashes,
    cut, trouble, acked,        \* of SessionLog
    store, handle, runtime, log, phase, names, now, answered, givenUp   \* of Sessions

agentVars == <<pc, output, manifest, claimed, report, listed, disabled, cron, killed,
               outcome, failures>>
logVars == <<files, path, rotated, session, op, next, saves, crashes, cut, trouble, acked>>
storeVars == <<store, handle, runtime, log, phase, names, now, answered, givenUp>>
eachVars == <<subject, vars, agentVars, logVars, storeVars>>

Agents == INSTANCE Subagents

Log == INSTANCE SessionLog
    WITH Process <- TwoProcesses, RotateAfter <- 3, MaxRotatedFiles <- 1,
         Failures <- {"crash", "io"}, MaxRecords <- 2, MaxSaves <- 3, MaxCrashes <- 2

Store == INSTANCE Sessions WITH MaxNames <- 4, MaxPrompts <- 2

EachInit ==
    /\ subject \in {"workers", "subagents", "session", "sessions"}
    /\ Init /\ Agents!Init /\ Log!Init /\ Store!Init

EachNext ==
    \/ subject = "workers" /\ Next /\ UNCHANGED <<subject, agentVars, logVars, storeVars>>
    \/ subject = "subagents" /\ Agents!Next /\ UNCHANGED <<subject, vars, logVars, storeVars>>
    \/ subject = "session" /\ Log!Next /\ UNCHANGED <<subject, vars, agentVars, storeVars>>
    \/ subject = "sessions" /\ Store!Next /\ UNCHANGED <<subject, vars, agentVars, logVars>>

EachSpec == EachInit /\ [][EachNext]_eachVars

\* Prompts of workers, and the processes that share a session, are alike.
Symmetry == PromptSymmetry \cup Permutations(TwoProcesses)

\* Subagents: manifest, output file and cron registry agree with what happened.
ManifestTellsTheTruth == Agents!ManifestTellsTheTruth

\* SessionLog: between operations the file holds what is in memory.
FileMirrorsSession == Log!FileMirrorsSession

\* SessionLog: what was acknowledged is in a file that can be read.
AcknowledgedSurvives == Log!AcknowledgedSurvives

\* Sessions: handle, runtime and file are of one session at the prompt.
OneSessionIsOpen == Store!OneSessionIsOpen

\* Sessions: no session is written over another.
AnswersStay == Store!AnswersStay
=============================================================================
