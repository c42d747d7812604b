----------------------------- MODULE MCLiveCli -----------------------------
(***************************************************************************)
(* The runtimes the interactive program builds and replaces, LiveCli's     *)
(* session with one tool that edits one of two files, and the change log   *)
(* of evil mode with a test, a README and a file outside the workspace, as *)
(* three views of the program: subject says which of them moves.           *)
(***************************************************************************)
EXTENDS Runtimes

CONSTANTS Tool, Input, Lower(_), OpOf(_), PathOf(_, _), NoPath, ToolOf(_), ChattyTokens,
          CollapseThreshold, ClusterMinSize, MaxPrompts, DefaultThreshold,
          MaxUses, Windows,                                               \* of LiveCli
          File, Test, Readme, Outside, MaxTurns, MaxCalls, MaxFaults      \* of Interception

\* Two plugins; the registry has the second after the first.
TwoPlugins == 1..2
InOrder == <<{2}, {}>>

LowerIsIdentity(t) == t
EveryToolWrites(t) == "write"
InputIsPath(t, input) == input
EditsAnswered(id) == "edit_file"

VARIABLES
    subject,                          \* "session", "runtimes" or "evil mode"
    main, working, shrunk, file, phase, tries,
    threshold, told, prompts, nextId,               \* of LiveCli
    active, journal, backups, counter, files, head, stage,
    call, turns, calls, faults, before, reverted    \* of Interception

sessionVars == <<main, working, shrunk, file, phase, tries, threshold, told, prompts, nextId>>
evilVars == <<active, journal, backups, counter, files, head, stage,
              call, turns, calls, faults, before, reverted>>
eachVars == <<subject, vars, sessionVars, evilVars>>

Session == INSTANCE LiveCli WITH turn <- working, round <- tries

Evil == INSTANCE Interception WITH file <- files, phase <- stage

EachInit ==
    /\ subject \in {"session", "runtimes", "evil mode"}
    /\ Init /\ Session!Init /\ Evil!Init
    /\ subject # "evil mode" => files = [f \in DOMAIN files |-> Evil!Absent]

EachNext ==
    \/ subject = "session" /\ Session!Next /\ UNCHANGED <<subject, vars, evilVars>>
    \/ subject = "runtimes" /\ Next /\ UNCHANGED <<subject, sessionVars, evilVars>>
    \/ subject = "evil mode" /\ Evil!Next /\ UNCHANGED <<subject, vars, sessionVars>>

EachSpec ==
    /\ EachInit /\ [][EachNext]_eachVars
    /\ WF_sessionVars(subject = "session" /\ Session!Provider)
    /\ WF_sessionVars(subject = "session" /\ (Session!Retry \/ Session!GiveUp))

\* LiveCli: at the prompt the file holds the session.
FileHoldsTheSession == Session!FileHoldsTheSession

\* LiveCli: a turn without an answer only appends to the file.
UnansweredTurnsOnlyAppend == Session!UnansweredTurnsOnlyAppend

\* LiveCli: every turn ends whose assistant stops asking for tools.
TurnEnds == Session!TurnEnds

\* Interception: /revert gives every file in the log back.
RevertGivesBack == Evil!RevertGivesBack
=============================================================================
